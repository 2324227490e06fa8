------------------------------- MODULE Bridge -------------------------------
(***************************************************************************)
(* One client of Head's Radii bridge (head/radii.rs): its messages are     *)
(* wrapped and passed on to Crawl one at a time over one cached session,   *)
(* which is dialed when first needed and once more when it fails.          *)
(*                                                                         *)
(* Messages are numbered in the order the client sends them.  A session    *)
(* that Head gives up may still have a task at Crawl that is working on    *)
(* what came over it: `late` is what those tasks have in hand.             *)
(***************************************************************************)
EXTENDS Naturals

CONSTANT MaxMessages    \* bound: the messages the client sends

VARIABLES
    up,         \* whether Crawl runs
    bridge,     \* where the client's task is
    retry,      \* whether this message is being passed on again
    session,    \* the upstream: "none", "open", "closed" or "silent"
    inbox,      \* what Crawl's task of it has in hand, 0 for nothing
    ack,        \* what the ack on its way back answers, 0 for none
    late,       \* message -> how many abandoned tasks have it in hand
    sent,       \* the last message of the client
    acked,      \* history: the messages whose ack the client was given
    taken       \* history: message -> how often Crawl dealt with it

upstream == <<session, inbox, ack, late>>
task == <<bridge, retry>>
client == <<sent, acked>>
vars == <<up, upstream, task, client, taken>>

Messages == 1..MaxMessages
NoneLate == [m \in Messages |-> 0]

-----------------------------------------------------------------------------
Init ==
    /\ up \in BOOLEAN
    /\ bridge = "gone" /\ retry = FALSE
    /\ session = "none" /\ inbox = 0 /\ ack = 0 /\ late = NoneLate
    /\ sent = 0 /\ acked = {}
    /\ taken = [m \in Messages |-> 0]

\* Head lets go of the session; Crawl's task of it goes on with what it has.
Abandon ==
    /\ session' = "none" /\ inbox' = 0 /\ ack' = 0
    /\ late' = IF inbox = 0 THEN late ELSE [late EXCEPT ![inbox] = @ + 1]

-----------------------------------------------------------------------------
\* Crawl and the network.

\* The session is forgotten on the way, an ack in flight with it.
GoesSilent == session = "open" /\ session' = "silent" /\ ack' = 0

\* It is closed from the other end; what was sent before may be read still.
IsClosed ==
    /\ session' = IF session = "open" THEN "closed" ELSE session
    /\ UNCHANGED ack

\* Nothing is persisted and no task survives.
CrawlDies ==
    /\ up /\ up' = FALSE
    /\ GoesSilent \/ IsClosed
    /\ inbox' = 0 /\ late' = NoneLate
    /\ UNCHANGED <<task, client, taken>>

CrawlReturns ==
    /\ ~up /\ up' = TRUE
    /\ UNCHANGED <<upstream, task, client, taken>>

\* Crawl's task ends, having failed to write an ack, and closes its end.
CrawlDrops ==
    /\ session = "open" /\ IsClosed /\ inbox' = 0
    /\ UNCHANGED <<up, late, task, client, taken>>

\* The connection is cut, which this end hears about or not.
SessionCut ==
    /\ session = "open" /\ (GoesSilent \/ IsClosed)
    /\ UNCHANGED <<up, inbox, late, task, client, taken>>

SilenceIsNoticed ==
    /\ session = "silent" /\ session' = "closed"
    /\ UNCHANGED <<up, inbox, ack, late, task, client, taken>>

Taking(m) == taken' = [taken EXCEPT ![m] = @ + 1]

\* Crawl's task of the session deals with the message and acks it, whatever the
\* ack says: it may be that the claim was not authorized, and a report that
\* found no room is dropped and acknowledged like any other.
CrawlTakes ==
    /\ up /\ inbox # 0
    /\ Taking(inbox)
    /\ inbox' = 0 /\ ack' = IF session = "open" THEN inbox ELSE 0
    /\ UNCHANGED <<up, session, late, task, client>>

\* The task of an abandoned session does, and acks to nobody.
CrawlTakesLate(m) ==
    /\ up /\ late[m] > 0
    /\ Taking(m)
    /\ late' = [late EXCEPT ![m] = @ - 1]
    /\ UNCHANGED <<up, session, inbox, ack, task, client>>

-----------------------------------------------------------------------------
\* The task of the client's connection, handle_connection.

Connect ==
    /\ bridge = "gone" /\ bridge' = "reading" /\ retry' = FALSE
    /\ UNCHANGED <<up, upstream, client, taken>>

\* Any `?`: the client's connection is closed, the session dropped.
Close ==
    /\ bridge' = "gone" /\ retry' = FALSE
    /\ Abandon

ClientLeaves ==
    /\ bridge = "reading"
    /\ Close
    /\ UNCHANGED <<up, client, taken>>

\* A message that may not be relayed is refused here; the upstream is not
\* touched.
ReadUnsupported ==
    /\ bridge = "reading" /\ bridge' = "refusing"
    /\ UNCHANGED <<up, retry, upstream, client, taken>>

Refuse ==
    /\ bridge = "refusing" /\ bridge' = "reading"
    /\ UNCHANGED <<up, retry, upstream, client, taken>>

\* upstream.take(): the session there is, or a new one.
ReadMessage ==
    /\ bridge = "reading" /\ sent < MaxMessages
    /\ sent' = sent + 1
    /\ bridge' = IF session = "none" THEN "dialing" ELSE "writing"
    /\ UNCHANGED <<up, retry, upstream, acked, taken>>

Dial ==
    /\ bridge = "dialing" /\ up
    /\ session' = "open" /\ bridge' = "writing"
    /\ UNCHANGED <<up, retry, inbox, ack, late, client, taken>>

DialFails ==
    /\ bridge = "dialing"
    /\ Close
    /\ UNCHANGED <<up, client, taken>>

\* relay, the write: it arrives, if the session is still one.
Write ==
    /\ bridge = "writing" /\ bridge' = "waiting"
    /\ inbox' = IF session = "open" THEN sent ELSE inbox
    /\ UNCHANGED <<up, retry, session, ack, late, client, taken>>

\* relay, the read.
ReadAck ==
    /\ bridge = "waiting" /\ ack # 0
    /\ bridge' = "replying" /\ ack' = 0
    /\ UNCHANGED <<up, retry, session, inbox, late, client, taken>>

\* Mutation: again and again.
RelayFailsForever ==
    /\ bridge = "waiting" /\ session = "closed"
    /\ bridge' = "dialing" /\ retry' = TRUE /\ Abandon
    /\ UNCHANGED <<up, client, taken>>

\* relay fails, in its write or its read: once more over a new session, then
\* no more.
RelayFails ==
    /\ bridge = "waiting" /\ session = "closed"
    /\ IF retry
          THEN Close
          ELSE bridge' = "dialing" /\ retry' = TRUE /\ Abandon
    /\ UNCHANGED <<up, client, taken>>

Reply ==
    /\ bridge = "replying" /\ bridge' = "reading" /\ retry' = FALSE
    /\ acked' = acked \cup {sent}
    /\ UNCHANGED <<up, upstream, sent, taken>>

\* The client is not there to be answered.
ReplyFails ==
    /\ bridge \in {"replying", "refusing"}
    /\ Close
    /\ UNCHANGED <<up, client, taken>>

TaskStep ==
    \/ Connect \/ ClientLeaves \/ ReadUnsupported \/ Refuse \/ ReadMessage
    \/ Dial \/ DialFails \/ Write \/ ReadAck \/ RelayFails \/ Reply \/ ReplyFails

NetworkStep ==
    \/ CrawlDrops \/ SessionCut \/ SilenceIsNoticed \/ CrawlTakes
    \/ \E m \in Messages : CrawlTakesLate(m)

Next == CrawlDies \/ CrawlReturns \/ NetworkStep \/ TaskStep

Spec == Init /\ [][Next]_vars

-----------------------------------------------------------------------------
TypeOK ==
    /\ up \in BOOLEAN /\ retry \in BOOLEAN
    /\ bridge \in {"gone", "reading", "refusing", "dialing", "writing",
                   "waiting", "replying"}
    /\ session \in {"none", "open", "closed", "silent"}
    /\ inbox \in 0..MaxMessages /\ ack \in 0..MaxMessages
    /\ late \in [Messages -> Nat] /\ taken \in [Messages -> Nat]
    /\ sent \in 0..MaxMessages /\ acked \subseteq Messages

\* The ack a client is given answers that very message, which Crawl has dealt
\* with, and Crawl deals with no message more than twice, through any number of
\* lost sessions and restarts: the resend of one exchange never answers for
\* another, and a resend is not resent.
TakenOnceOrTwice ==
    \A m \in Messages : taken[m] <= 2 /\ (m \in acked => taken[m] >= 1)
=============================================================================

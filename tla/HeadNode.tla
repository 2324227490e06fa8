------------------------------ MODULE HeadNode ------------------------------
(***************************************************************************)
(* A Head process: its services, and what two of them do.  The poller and  *)
(* a connection of the bridge are tasks of one runtime (head/lib.rs) and   *)
(* depend on the same Crawl; both go when the process goes.  Poller and    *)
(* Services are extended, the Bridge instantiated.                         *)
(***************************************************************************)
EXTENDS Poller, Services

CONSTANTS
    MaxMessages,    \* bound: the messages of the client of a Head that does not poll,
    BesidePoller    \* and of one that does

VARIABLES bridge, retry, session, inbox, ack, late, sent, acked, taken

B == INSTANCE Bridge

pollerVars == <<poll, nap, spent, link, answered, carried,
                refreshed, since, drawn, misses, slow>>
bridgeVars == <<bridge, retry, session, inbox, ack, late, sent, acked, taken>>
headVars == <<up, pollerVars, bridgeVars, serviceVars>>

Serving(name) == process = "up" /\ runner[name] = "serving"

HeadInit == ServicesInit /\ Init /\ B!Init

\* The death of Crawl severs the session and whatever poll is under way.
CrawlLost == CrawlDies /\ B!CrawlDies /\ UNCHANGED serviceVars
CrawlBack == CrawlReturns /\ B!CrawlReturns /\ UNCHANGED serviceVars

\* A task that can run does before time passes.
Settled == Completed = {} /\ \A n \in Names : runner[n] \notin {"spawned", "unconfigured"}

\* A step of the poller's task, or of what it is connected to.
ForPoller(step) == Serving("graph") /\ step /\ UNCHANGED <<bridgeVars, serviceVars>>

PollerStep == ForPoller(LoopStep \/ NetworkStep \/ (Settled /\ Pass))

Polls == runner["graph"] \notin {"unconfigured", "returned"}

\* A connection needs the listener to be accepted, not to go on.
BridgeStep ==
    /\ process = "up"
    /\ ((bridge = "gone" => Serving("radii")) /\ B!TaskStep) \/ B!NetworkStep
    /\ sent' <= IF Polls THEN BesidePoller ELSE MaxMessages
    /\ UNCHANGED <<pollerVars, serviceVars>>

StartStep ==
    /\ \E n \in Names : ReturnsAtOnce(n) \/ Starts(n)
    /\ UNCHANGED <<up, pollerVars, bridgeVars>>

FailureStep ==
    /\ \E n \in Names : BindFails(n) \/ Fails(n)
    /\ UNCHANGED <<up, pollerVars, bridgeVars>>

\* The process ends, its connections with it; what Crawl has in hand it keeps.
HeadEnds ==
    /\ poll' = "dialing" /\ nap' = 0 /\ spent' = 0
    /\ link' = "none" /\ answered' = FALSE /\ carried' = 0
    /\ refreshed' = FALSE /\ since' = 0 /\ drawn' = 0 /\ misses' = 0 /\ slow' = FALSE
    /\ B!Close
    /\ UNCHANGED <<up, sent, acked, taken>>

MainStep ==
    /\ AllReturned \/ \E n \in Names : Join(n)
    /\ IF process' = "up" THEN UNCHANGED <<up, pollerVars, bridgeVars>> ELSE HeadEnds

\* What a session given up has left at Crawl outlives the process.
Remains ==
    /\ process # "up"
    /\ \E m \in B!Messages : B!CrawlTakesLate(m)
    /\ UNCHANGED <<pollerVars, serviceVars>>

HeadNext == \/ CrawlLost \/ CrawlBack \/ PollerStep \/ BridgeStep
            \/ StartStep \/ FailureStep \/ MainStep \/ Remains

\* The poller is kept going, a Crawl that runs answers, a task spawned is run
\* and one completed is joined; nothing is asked of the client or the bridge.
HeadFairness ==
    /\ WF_headVars(ForPoller(LoopStep))
    /\ WF_headVars(ForPoller(Settled /\ Pass))
    /\ WF_headVars(ForPoller(CrawlAnswers))
    /\ WF_headVars(StartStep)
    /\ WF_headVars(MainStep)

HeadSpec == HeadInit /\ [][HeadNext]_headVars /\ HeadFairness

-----------------------------------------------------------------------------
\* The property of Bridge, next to a poller that shares its Crawl, in a process
\* that may end at any moment.
TakenOnceOrTwice == B!TakenOnceOrTwice

\* "a partial failure takes the process down rather than leaving it
\* half-serving": whichever runner fails, and whatever the others do for ever,
\* the process ends.
PartialFailureEndsProcess ==
    (\E n \in Names : runner[n] = "failed") ~> process = "failed"

\* Once Crawl stays up and no connection to it is lost any more, a Head that
\* polls and does not end gets its view back, over and over, whatever was lost
\* before: a runner that was left unconfigured ends neither.
ViewRecovers ==
    <>[](process = "up" /\ Polls /\ up /\ link \notin {"closed", "silent"})
        => []<>(Evaluate = "fresh")
=============================================================================

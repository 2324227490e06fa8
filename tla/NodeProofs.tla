------------------------------ MODULE NodeProofs ----------------------------
(***************************************************************************)
(* A Head process, for every interval and latency and any number of        *)
(* messages: what /health says of the view, what the bridge's retry may do *)
(* to Crawl, and that neither is disturbed by the other, by the runners    *)
(* or by the end of the process.                                           *)
(*                                                                         *)
(* A Fetch process, for any clients, views, plans and caps: what a client  *)
(* tries while the routes are replaced, and what a capped snapshot keeps.  *)
(***************************************************************************)
EXTENDS HeadNode, FetchNode, FiniteSetTheorems, TLAPS

-----------------------------------------------------------------------------
(* The poller.                                                             *)

\* An exchange that is slow is known to be, and one that is not is no older
\* than what it carries.
Exchange ==
    /\ poll = "sleeping" => spent = 0
    /\ spent > Latency => slow
    /\ answered /\ spent <= Latency => carried <= spent

\* Apart from a slow exchange, a view was drawn up at most the time of one
\* exchange before it was put to use.
DrawnInTime == refreshed /\ ~slow => drawn <= since + Latency

\* Where the loop can be since it last succeeded, until it has failed twice.
\* A failed poll costs its exchange and the sleep after it.
Sleeping(bound) == poll = "sleeping" => since + nap <= bound
Polling(bound) == poll # "sleeping" => since <= bound + spent

OnSchedule ==
    refreshed /\ ~slow =>
        /\ misses = 0 => Sleeping(Interval) /\ Polling(Interval)
        /\ misses = 1 => /\ Sleeping(2 * Interval + Latency)
                         /\ Polling(2 * Interval + Latency)

PollerInv == TypeOK /\ Exchange /\ DrawnInTime /\ OnSchedule

-----------------------------------------------------------------------------
\* Types, in three parts: the flags, where things are, and the numbers.

Flags == up \in BOOLEAN /\ answered \in BOOLEAN /\ refreshed \in BOOLEAN /\ slow \in BOOLEAN

Places ==
    /\ poll \in {"sleeping", "dialing", "reading"}
    /\ link \in {"none", "open", "closed", "silent"}
    /\ link = "none" <=> poll # "reading"
    /\ answered => poll = "reading"

Numbers ==
    /\ nap \in 0..Interval /\ spent \in 0..(Latency + 1)
    /\ since \in 0..Horizon /\ drawn \in 0..Horizon /\ carried \in 0..Horizon
    /\ misses \in 0..3

LEMMA PollerTypeParts == TypeOK <=> Flags /\ Places /\ Numbers
BY DEF TypeOK, Flags, Places, Numbers

LEMMA HorizonIsNat == Horizon \in Nat
BY LatencyIsShort DEF LatencyIsShort, Horizon, MaxAge, StaleAfterIntervals

LEMMA PollerInitTypeOK == Init => TypeOK
<1>1. Init => Flags /\ Places
  BY DEF Init, Flags, Places
<1>2. Init => Numbers
  BY LatencyIsShort, HorizonIsNat DEF LatencyIsShort, Init, Numbers
<1> QED BY <1>1, <1>2, PollerTypeParts

LEMMA NextFlags == Flags /\ [Next]_vars => Flags'
<1> SUFFICES ASSUME Flags, [Next]_vars PROVE Flags'
  OBVIOUS
<1>1. CASE Pass
  BY <1>1 DEF Flags, Pass
<1>2. CASE Land
  BY <1>2 DEF Flags, Land, Sleep
<1>3. CASE CrawlDies \/ CrawlReturns \/ UNCHANGED vars
  BY <1>3 DEF Flags, vars, loop, wire, held, history, CrawlDies, GoesSilent, IsClosed,
     CrawlReturns
<1>4. CASE NetworkStep
  BY <1>4 DEF Flags, loop, held, history, NetworkStep, GoesSilent, IsClosed,
     LinkIsCut, SilenceIsNoticed, CrawlAnswers
<1>5. CASE DialSucceeds \/ Miss \/ Wake
  BY <1>5 DEF Flags, DialSucceeds, Miss, Wake, Sleep, wire, held, history
<1> QED BY <1>1, <1>2, <1>3, <1>4, <1>5 DEF Next, LoopStep

LEMMA NextPlaces == Places /\ [Next]_vars => Places'
BY DEF Places, vars, loop, wire, held, history, Next, NetworkStep, LoopStep,
       CrawlDies, GoesSilent, IsClosed, CrawlReturns, LinkIsCut, SilenceIsNoticed,
       CrawlAnswers, DialSucceeds, Miss, Land, Sleep, Wake, Pass

LEMMA NextNumbers == Numbers /\ [Next]_vars => Numbers'
<1> SUFFICES ASSUME Numbers, [Next]_vars PROVE Numbers'
  OBVIOUS
<1> USE LatencyIsShort, HorizonIsNat DEF LatencyIsShort, Numbers
<1>1. CASE CrawlDies \/ CrawlReturns \/ NetworkStep
  BY <1>1 DEF CrawlDies, CrawlReturns, NetworkStep, LinkIsCut, GoesSilent, IsClosed,
     SilenceIsNoticed, CrawlAnswers, loop, wire, held, history
<1>2. CASE LoopStep
  BY <1>2 DEF LoopStep, DialSucceeds, Miss, Land, Wake, Sleep, wire, held, history
<1>3. CASE Pass
  <2>1. since' \in 0..Horizon /\ drawn' \in 0..Horizon /\ carried' \in 0..Horizon
    BY <1>3 DEF Pass, Later
  <2>2. nap' \in 0..Interval /\ spent' \in 0..(Latency + 1)
    BY <1>3 DEF Pass
  <2> QED BY <1>3, <2>1, <2>2 DEF Pass
<1>4. CASE UNCHANGED vars
  BY <1>4 DEF vars, loop, wire, held, history
<1> QED BY <1>1, <1>2, <1>3, <1>4 DEF Next

LEMMA PollerNextTypeOK == TypeOK /\ [Next]_vars => TypeOK'
<1>1. TypeOK' <=> Flags' /\ Places' /\ Numbers'
  BY PollerTypeParts, PTL
<1> QED BY <1>1, PollerTypeParts, NextFlags, NextPlaces, NextNumbers

\* The shape of the state: every number the model keeps is bounded, and a
\* connection exists just while a poll reads from it.
THEOREM PollerTypeOK == Spec => []TypeOK
BY PollerInitTypeOK, PollerNextTypeOK, PTL DEF Spec

-----------------------------------------------------------------------------
\* The schedule.

\* A tick asleep: the view ages by at most what the nap gets shorter by.
LEMMA TickAsleep ==
    ASSUME Numbers, Pass, NEW b \in Nat, Sleeping(b)
    PROVE  Sleeping(b)'
<1>1. since \in Nat /\ nap \in Nat
  BY HorizonIsNat, LatencyIsShort DEF LatencyIsShort, Numbers
<1>2. poll' = poll
  BY DEF Pass
<1>3. poll = "sleeping" => nap' = nap - 1
  BY DEF Pass
<1>4. since' = since \/ since' = since + 1
  BY DEF Pass, Later
<1>5. CASE since' = since
  BY <1>1, <1>2, <1>3, <1>5 DEF Sleeping
<1>6. CASE since' = since + 1
  BY <1>1, <1>2, <1>3, <1>6 DEF Sleeping
<1> QED BY <1>4, <1>5, <1>6

LEMMA PollerInitInv == Init => PollerInv
BY PollerInitTypeOK, LatencyIsShort DEF LatencyIsShort, Init, PollerInv, Exchange, DrawnInTime, OnSchedule

LEMMA PollerNextInv == PollerInv /\ [Next]_vars => PollerInv'
<1> SUFFICES ASSUME PollerInv, [Next]_vars PROVE PollerInv'
  OBVIOUS
<1>t. TypeOK' /\ Numbers /\ Numbers'
  BY PollerNextTypeOK, PollerTypeParts, NextNumbers DEF PollerInv
<1> USE LatencyIsShort, HorizonIsNat, <1>t
    DEF LatencyIsShort, PollerInv, Exchange, DrawnInTime, OnSchedule, Sleeping,
        Polling, Numbers
<1>1. CASE CrawlDies
  BY <1>1 DEF CrawlDies, GoesSilent, IsClosed, loop, held, history
<1>2. CASE CrawlReturns
  BY <1>2 DEF CrawlReturns, loop, wire, held, history
<1>3. CASE NetworkStep
  <2>1. CASE LinkIsCut
    BY <2>1 DEF LinkIsCut, GoesSilent, IsClosed, loop, held, history
  <2>2. CASE SilenceIsNoticed
    BY <2>2 DEF SilenceIsNoticed, loop, held, history
  <2>3. CASE CrawlAnswers
    BY <2>3 DEF CrawlAnswers, loop, held, history
  <2> QED BY <1>3, <2>1, <2>2, <2>3 DEF NetworkStep
<1>4. CASE DialSucceeds
  BY <1>4 DEF DialSucceeds, held, history
<1>5. CASE Miss
  <2>1. Exchange' /\ DrawnInTime'
    BY <1>5 DEF Miss, Sleep, held
  <2>2. OnSchedule'
    <3> SUFFICES ASSUME refreshed, ~slow
                 PROVE /\ misses' = 0 => Sleeping(Interval)'
                       /\ misses' = 1 => Sleeping(2 * Interval + Latency)'
      BY <1>5 DEF Miss, Sleep, held
    <3>1. poll # "sleeping" /\ spent <= Latency
      BY <1>5 DEF Miss
    <3>2. misses' # 0 /\ (misses' = 1 => misses = 0)
      BY <1>5 DEF Miss
    <3>3. misses' = 1 => since' + nap' <= 2 * Interval + Latency
      BY <1>5, <3>1, <3>2 DEF Miss, Sleep, held
    <3> QED BY <3>2, <3>3
  <2> QED BY <2>1, <2>2
<1>6. CASE Land
  <2>1. /\ poll' = "sleeping" /\ nap' = Interval /\ spent' = 0 /\ since' = 0
        /\ drawn' = carried /\ misses' = 0
        /\ ~answered' /\ answered
    BY <1>6 DEF Land, Sleep
  <2>2. ~slow' => spent <= Latency
    BY <1>6 DEF Land
  <2>3. Exchange' /\ OnSchedule'
    BY <2>1
  <2>4. DrawnInTime'
    BY <2>1, <2>2
  <2> QED BY <2>3, <2>4
<1>7. CASE Wake
  BY <1>7 DEF Wake, wire, held, history
<1>8. CASE Pass
  <2>1. misses' = misses /\ poll' = poll
    BY <1>8 DEF Pass
  <2>f. /\ refreshed' <=> refreshed
        /\ answered' <=> answered
        /\ slow => slow'
    BY <1>8 DEF Pass
  <2>2. poll = "sleeping" => nap' = nap - 1 /\ spent' = spent
    BY <1>8 DEF Pass
  <2>3. poll # "sleeping" =>
            spent' = IF spent <= Latency THEN spent + 1 ELSE spent
    BY <1>8 DEF Pass
  <2>4. spent' > Latency => slow'
    BY <1>8 DEF Pass
  <2>5. Exchange'
    <3>1. ASSUME answered PROVE carried' <= carried + 1 /\ poll # "sleeping"
      BY <1>8, <3>1, PollerTypeParts DEF Pass, Later, Places
    <3> QED BY <2>1, <2>f, <2>2, <2>3, <2>4, <3>1
  <2> SUFFICES ASSUME refreshed, ~slow, ~slow'
               PROVE DrawnInTime' /\ OnSchedule'
    BY <2>f, <2>5
  <2>6. since' = Later(since) /\ drawn' = Later(drawn)
    BY <1>8 DEF Pass
  <2>7. DrawnInTime'
    BY <2>6 DEF Later
  <2>8. since' <= since + 1
    BY <2>6 DEF Later
  <2>9. OnSchedule'
    <3>n. /\ since \in Nat /\ nap \in Nat /\ spent \in Nat
          /\ since' \in Nat /\ nap' \in Nat /\ spent' \in Nat
      OBVIOUS
    <3>s. poll # "sleeping" => spent' = spent + 1
      BY <2>3, <2>4
    <3>1. ASSUME NEW b \in Nat, Sleeping(b) PROVE Sleeping(b)'
      BY <1>8, <3>1, TickAsleep
    <3>2. ASSUME NEW b \in Nat, Polling(b) PROVE Polling(b)'
      BY <2>1, <2>8, <3>2, <3>n, <3>s DEF Polling
    <3>3. Interval \in Nat /\ 2 * Interval + Latency \in Nat
      OBVIOUS
    <3>4. CASE misses = 0
      <4>1. Sleeping(Interval) /\ Polling(Interval)
        BY <3>4
      <4> QED BY <2>1, <3>1, <3>2, <3>3, <3>4, <4>1
    <3>5. CASE misses = 1
      <4>1. /\ Sleeping(2 * Interval + Latency)
            /\ Polling(2 * Interval + Latency)
        BY <3>5
      <4> QED BY <2>1, <3>1, <3>2, <3>3, <3>5, <4>1
    <3>6. CASE misses \notin {0, 1}
      BY <2>1, <3>6
    <3> QED BY <3>4, <3>5, <3>6
  <2> QED BY <2>7, <2>9
<1>9. CASE UNCHANGED vars
  BY <1>9 DEF vars, loop, wire, held, history
<1> QED BY <1>1, <1>2, <1>3, <1>4, <1>5, <1>6, <1>7, <1>8, <1>9
        DEF Next, LoopStep

LEMMA PollerInvHolds == Spec => []PollerInv
BY PollerInitInv, PollerNextInv, PTL DEF Spec

\* The invariant bounds the age of a view that is called fresh...
LEMMA PollerInvFresh == PollerInv => FreshIsRecent
BY LatencyIsShort
   DEF LatencyIsShort, PollerInv, TypeOK, DrawnInTime, FreshIsRecent, Evaluate, Horizon, MaxAge,
       StaleAfterIntervals

\* ... and keeps one that has missed less than two polls from being stale.
LEMMA PollerInvForgives == PollerInv => OneMissIsForgiven
<1> SUFFICES ASSUME PollerInv, refreshed, ~slow, misses < 2
             PROVE since <= 3 * Interval
  BY LatencyIsShort
     DEF LatencyIsShort, PollerInv, TypeOK, OneMissIsForgiven, Evaluate, MaxAge, StaleAfterIntervals
<1>1. misses = 0 \/ misses = 1
  BY DEF PollerInv, TypeOK
<1>2. spent <= Latency
  BY LatencyIsShort DEF LatencyIsShort, PollerInv, TypeOK, Exchange
<1>3. CASE poll = "sleeping"
  BY <1>1, <1>3, LatencyIsShort DEF LatencyIsShort, PollerInv, TypeOK, OnSchedule, Sleeping
<1>4. CASE poll # "sleeping"
  BY <1>1, <1>2, <1>4, LatencyIsShort DEF LatencyIsShort, PollerInv, TypeOK, OnSchedule, Polling
<1> QED BY <1>3, <1>4

\* A view that /health calls fresh was drawn up within three intervals and an
\* exchange, or came by an exchange that was slow.
THEOREM PollerFreshIsRecent == Spec => []FreshIsRecent
BY PollerInvHolds, PollerInvFresh, PTL

\* It takes two failed polls in a row, or a slow exchange, for a view to be
\* called stale.
THEOREM PollerOneMissIsForgiven == Spec => []OneMissIsForgiven
BY PollerInvHolds, PollerInvForgives, PTL

-----------------------------------------------------------------------------
(* The bridge.                                                             *)

\* Something of the session is in flight only while the task waits for it, it
\* is of the message the task is at, and an ack is of one that was taken.
InFlight ==
    /\ inbox # 0 => bridge = "waiting" /\ inbox = sent
    /\ ack # 0 => bridge = "waiting" /\ ack = sent /\ inbox = 0

AtAMessage == {"dialing", "writing", "waiting", "replying"}

RetryIsOfAMessage ==
    /\ retry => bridge \in AtAMessage
    /\ bridge \in AtAMessage => sent # 0

\* An ack is an ack of something, on its way back and when it is passed on.
AcksAreEarned ==
    /\ ack # 0 \/ bridge = "replying" => taken[sent] # 0
    /\ \A m \in acked : taken[m] # 0

\* How often a message may have been put into a session, by where the task is.
Tries(m) ==
    CASE m > sent -> 0
      [] m = sent /\ bridge \in {"dialing", "writing"} -> IF retry THEN 1 ELSE 0
      [] m = sent /\ bridge = "waiting" -> IF retry THEN 2 ELSE 1
      [] OTHER -> 2

InHand(m) == IF inbox = m THEN 1 ELSE 0

EachTryCounts ==
    \A m \in B!Messages : taken[m] + late[m] + InHand(m) <= Tries(m)

BridgeInv == B!TypeOK /\ InFlight /\ RetryIsOfAMessage /\ AcksAreEarned /\ EachTryCounts

-----------------------------------------------------------------------------
\* Types, in three parts: where things are, message numbers and counters.

BridgePlaces ==
    /\ up \in BOOLEAN /\ retry \in BOOLEAN
    /\ bridge \in {"gone", "reading", "refusing"} \cup AtAMessage
    /\ session \in {"none", "open", "closed", "silent"}

BridgeNumbers ==
    /\ inbox \in 0..MaxMessages /\ ack \in 0..MaxMessages
    /\ sent \in 0..MaxMessages /\ acked \subseteq B!Messages

BridgeCounters == late \in [B!Messages -> Nat] /\ taken \in [B!Messages -> Nat]

LEMMA BridgeTypeParts == B!TypeOK <=> BridgePlaces /\ BridgeNumbers /\ BridgeCounters
BY DEF B!TypeOK, BridgePlaces, BridgeNumbers, BridgeCounters, AtAMessage

LEMMA BridgeNextPlaces == BridgePlaces /\ [B!Next]_(B!vars) => BridgePlaces'
<1> SUFFICES ASSUME BridgePlaces, [B!Next]_(B!vars) PROVE BridgePlaces'
  OBVIOUS
<1> USE DEF BridgePlaces, AtAMessage, B!upstream, B!task, B!client
<1>1. CASE B!CrawlDies \/ B!CrawlReturns
  BY <1>1 DEF B!CrawlDies, B!CrawlReturns, B!GoesSilent, B!IsClosed
<1>2. CASE B!NetworkStep
  BY <1>2 DEF B!NetworkStep, B!CrawlDrops, B!SessionCut, B!SilenceIsNoticed, B!CrawlTakes,
     B!CrawlTakesLate, B!GoesSilent, B!IsClosed
<1>3. CASE B!TaskStep
  BY <1>3 DEF B!TaskStep, B!Connect, B!ClientLeaves, B!ReadUnsupported, B!Refuse,
     B!ReadMessage, B!Dial, B!DialFails, B!Write, B!ReadAck, B!RelayFails, B!Reply, B!ReplyFails,
     B!Close, B!Abandon
<1>4. CASE UNCHANGED B!vars
  BY <1>4 DEF B!vars
<1> QED BY <1>1, <1>2, <1>3, <1>4 DEF B!Next

LEMMA NextRetry == RetryIsOfAMessage /\ BridgeNumbers /\ [B!Next]_(B!vars) => RetryIsOfAMessage'
<1> SUFFICES ASSUME RetryIsOfAMessage, BridgeNumbers, [B!Next]_(B!vars)
             PROVE RetryIsOfAMessage'
  OBVIOUS
<1> USE DEF RetryIsOfAMessage, AtAMessage, B!upstream, B!task, B!client
<1>1. CASE B!CrawlDies \/ B!CrawlReturns \/ B!NetworkStep
  BY <1>1 DEF B!CrawlDies, B!CrawlReturns, B!NetworkStep, B!CrawlDrops, B!SessionCut,
     B!SilenceIsNoticed, B!CrawlTakes, B!CrawlTakesLate
<1>2. CASE B!ReadMessage
  BY <1>2 DEF B!ReadMessage, BridgeNumbers
<1>3. CASE B!TaskStep /\ ~B!ReadMessage
  BY <1>3 DEF B!TaskStep, B!Connect, B!ClientLeaves, B!ReadUnsupported, B!Refuse, B!Dial,
     B!DialFails, B!Write, B!ReadAck, B!RelayFails, B!Reply, B!ReplyFails, B!Close, B!Abandon
<1>4. CASE UNCHANGED B!vars
  BY <1>4 DEF B!vars
<1> QED BY <1>1, <1>2, <1>3, <1>4 DEF B!Next, B!TaskStep

LEMMA BridgeNextNumbers ==
    ASSUME MaxMessages \in Nat, BridgeNumbers, RetryIsOfAMessage, [B!Next]_(B!vars)
    PROVE  BridgeNumbers'
<1> USE DEF BridgeNumbers, B!upstream, B!task, B!client
<1>1. CASE B!CrawlDies \/ B!CrawlReturns
  BY <1>1 DEF B!CrawlDies, B!CrawlReturns, B!GoesSilent, B!IsClosed
<1>2. CASE B!NetworkStep
  <2>1. sent' = sent /\ acked' = acked
    BY <1>2 DEF B!NetworkStep, B!CrawlDrops, B!SessionCut, B!SilenceIsNoticed, B!CrawlTakes,
       B!CrawlTakesLate
  <2>2. inbox' \in {0, inbox} /\ ack' \in {0, ack, inbox}
    BY <1>2 DEF B!NetworkStep, B!CrawlDrops, B!SessionCut, B!SilenceIsNoticed, B!CrawlTakes,
       B!CrawlTakesLate, B!GoesSilent, B!IsClosed
  <2> QED BY <2>1, <2>2
<1>3. CASE B!TaskStep
  <2>1. CASE B!ReadMessage
    <3>1. sent' = sent + 1 /\ sent < MaxMessages
          /\ inbox' = inbox /\ ack' = ack /\ acked' = acked
      BY <2>1 DEF B!ReadMessage
    <3> QED BY <3>1
  <2>2. CASE B!Reply
    <3>1. sent \in B!Messages
      BY <2>2 DEF B!Reply, RetryIsOfAMessage, AtAMessage, B!Messages
    <3> QED BY <2>2, <3>1 DEF B!Reply
  <2>3. CASE B!Dial \/ B!Write \/ B!ReadAck
    BY <2>3 DEF B!Dial, B!Write, B!ReadAck
  <2>4. CASE B!ClientLeaves \/ B!DialFails \/ B!ReplyFails \/ B!RelayFails
    BY <2>4 DEF B!ClientLeaves, B!DialFails, B!ReplyFails, B!RelayFails, B!Close, B!Abandon
  <2>5. CASE B!Connect \/ B!ReadUnsupported \/ B!Refuse
    BY <2>5 DEF B!Connect, B!ReadUnsupported, B!Refuse
  <2> QED BY <1>3, <2>1, <2>2, <2>3, <2>4, <2>5 DEF B!TaskStep
<1>4. CASE UNCHANGED B!vars
  BY <1>4 DEF B!vars
<1> QED BY <1>1, <1>2, <1>3, <1>4 DEF B!Next

LEMMA BridgeNextCounters == BridgeCounters /\ BridgeNumbers /\ [B!Next]_(B!vars) => BridgeCounters'
<1> SUFFICES ASSUME BridgeCounters, BridgeNumbers, [B!Next]_(B!vars) PROVE BridgeCounters'
  OBVIOUS
<1> USE DEF BridgeCounters, B!upstream, B!task, B!client
<1>1. CASE B!CrawlDies \/ B!CrawlReturns
  BY <1>1 DEF B!CrawlDies, B!CrawlReturns, B!NoneLate
<1>2. CASE B!NetworkStep
  <2>1. CASE B!CrawlDrops \/ B!SessionCut \/ B!SilenceIsNoticed
    BY <2>1 DEF B!CrawlDrops, B!SessionCut, B!SilenceIsNoticed
  <2>2. CASE B!CrawlTakes
    <3>1. taken' = [taken EXCEPT ![inbox] = @ + 1] /\ late' = late
      BY <2>2 DEF B!CrawlTakes, B!Taking
    <3>2. inbox \in B!Messages
      BY <2>2 DEF B!CrawlTakes, BridgeNumbers, B!Messages
    <3>3. taken[inbox] + 1 \in Nat
      BY <3>2
    <3> QED BY <3>1, <3>2, <3>3
  <2>3. ASSUME NEW m \in B!Messages, B!CrawlTakesLate(m) PROVE BridgeCounters'
    BY <2>3 DEF B!CrawlTakesLate, B!Taking
  <2> QED BY <1>2, <2>1, <2>2, <2>3 DEF B!NetworkStep
<1>3. CASE B!TaskStep
  <2>1. CASE B!ClientLeaves \/ B!DialFails \/ B!ReplyFails \/ B!RelayFails
    <3>1. taken' = taken
      BY <2>1 DEF B!ClientLeaves, B!DialFails, B!ReplyFails, B!RelayFails
    <3>2. late' = late \/ late' = [late EXCEPT ![inbox] = @ + 1]
      BY <2>1 DEF B!ClientLeaves, B!DialFails, B!ReplyFails, B!RelayFails, B!Close, B!Abandon
    <3> QED BY <3>1, <3>2
  <2>2. CASE ~(B!ClientLeaves \/ B!DialFails \/ B!ReplyFails \/ B!RelayFails)
    BY <1>3, <2>2 DEF B!TaskStep, B!Connect, B!ReadUnsupported, B!Refuse, B!ReadMessage,
       B!Dial, B!Write, B!ReadAck, B!Reply
  <2> QED BY <2>1, <2>2
<1>4. CASE UNCHANGED B!vars
  BY <1>4 DEF B!vars
<1> QED BY <1>1, <1>2, <1>3, <1>4 DEF B!Next

-----------------------------------------------------------------------------
LEMMA NextInFlight ==
    InFlight /\ RetryIsOfAMessage /\ [B!Next]_(B!vars) => InFlight'
<1> SUFFICES ASSUME InFlight, RetryIsOfAMessage, [B!Next]_(B!vars) PROVE InFlight'
  OBVIOUS
<1> USE DEF InFlight, RetryIsOfAMessage, AtAMessage, B!upstream, B!task, B!client
<1>1. CASE B!CrawlDies \/ B!CrawlReturns
  BY <1>1 DEF B!CrawlDies, B!CrawlReturns, B!GoesSilent, B!IsClosed
<1>2. CASE B!NetworkStep
  BY <1>2 DEF B!NetworkStep, B!CrawlDrops, B!SessionCut, B!SilenceIsNoticed, B!CrawlTakes,
     B!CrawlTakesLate, B!GoesSilent, B!IsClosed
<1>3. CASE B!TaskStep
  <2>1. CASE B!ClientLeaves \/ B!DialFails \/ B!ReplyFails \/ B!RelayFails
    BY <2>1 DEF B!ClientLeaves, B!DialFails, B!ReplyFails, B!RelayFails, B!Close, B!Abandon
  <2>2. CASE B!Connect \/ B!ReadUnsupported \/ B!Refuse \/ B!ReadMessage
    BY <2>2 DEF B!Connect, B!ReadUnsupported, B!Refuse, B!ReadMessage
  <2>3. CASE B!Dial \/ B!Write \/ B!ReadAck \/ B!Reply
    BY <2>3 DEF B!Dial, B!Write, B!ReadAck, B!Reply
  <2> QED BY <1>3, <2>1, <2>2, <2>3 DEF B!TaskStep
<1>4. CASE UNCHANGED B!vars
  BY <1>4 DEF B!vars
<1> QED BY <1>1, <1>2, <1>3, <1>4 DEF B!Next

\* Crawl never untakes a message.
LEMMA TakenGrows ==
    ASSUME BridgeCounters, [B!Next]_(B!vars), NEW m \in B!Messages, taken[m] # 0
    PROVE  taken'[m] # 0
<1> USE DEF BridgeCounters
<1>1. CASE B!CrawlTakes
  BY <1>1 DEF B!CrawlTakes, B!Taking
<1>2. ASSUME NEW n \in B!Messages, B!CrawlTakesLate(n) PROVE taken'[m] # 0
  BY <1>2 DEF B!CrawlTakesLate, B!Taking
<1>3. CASE taken' = taken
  BY <1>3
<1> QED BY <1>1, <1>2, <1>3 DEF B!Next, B!NetworkStep, B!TaskStep, B!vars, B!CrawlDies,
        B!CrawlReturns, B!CrawlDrops, B!SessionCut, B!SilenceIsNoticed, B!Connect,
        B!ClientLeaves, B!ReadUnsupported, B!Refuse, B!ReadMessage, B!Dial, B!DialFails,
        B!Write, B!ReadAck, B!RelayFails, B!Reply, B!ReplyFails

LEMMA NextAcks ==
    ASSUME MaxMessages \in Nat, BridgeInv, [B!Next]_(B!vars)
    PROVE  AcksAreEarned'
<1>t. BridgeNumbers /\ BridgeCounters /\ RetryIsOfAMessage /\ InFlight /\ AcksAreEarned
  BY BridgeTypeParts DEF BridgeInv
<1>1. \A m \in acked' : taken'[m] # 0
  <2>1. acked' = acked \/ B!Reply
    BY DEF B!Next, B!NetworkStep, B!TaskStep, B!vars, B!client, B!CrawlDies,
       B!CrawlReturns, B!CrawlDrops, B!SessionCut, B!SilenceIsNoticed, B!CrawlTakes,
       B!CrawlTakesLate, B!Connect, B!ClientLeaves, B!ReadUnsupported, B!Refuse,
       B!ReadMessage, B!Dial, B!DialFails, B!Write, B!ReadAck, B!RelayFails, B!ReplyFails
  <2>2. CASE acked' = acked
    BY <1>t, <2>2, TakenGrows DEF BridgeNumbers, AcksAreEarned
  <2>3. CASE B!Reply
    BY <1>t, <2>3 DEF B!Reply, AcksAreEarned
  <2> QED BY <2>1, <2>2, <2>3
<1>2. ack' # 0 \/ bridge' = "replying" => taken'[sent'] # 0
  <2> SUFFICES ASSUME ack' # 0 \/ bridge' = "replying"
               PROVE taken'[sent'] # 0
    OBVIOUS
  <2>1. CASE B!CrawlTakes
    <3>1. inbox = sent /\ sent' = sent /\ sent \in B!Messages
      BY <1>t, <2>1 DEF B!CrawlTakes, B!client, InFlight, BridgeNumbers, B!Messages
    <3>2. taken' = [taken EXCEPT ![inbox] = @ + 1]
      BY <2>1 DEF B!CrawlTakes, B!Taking
    <3> QED BY <1>t, <3>1, <3>2 DEF BridgeCounters
  <2>2. CASE ~B!CrawlTakes
    <3>1. sent' = sent
      BY <1>t, <2>2 DEF B!Next, B!NetworkStep, B!TaskStep, B!vars, B!client, B!CrawlDies,
         B!CrawlReturns, B!CrawlDrops, B!SessionCut, B!SilenceIsNoticed,
         B!CrawlTakesLate, B!Connect, B!ClientLeaves, B!ReadUnsupported, B!Refuse,
         B!ReadMessage, B!Dial, B!DialFails, B!Write, B!ReadAck, B!RelayFails, B!Reply,
         B!ReplyFails, InFlight, B!upstream
    <3>2. ack # 0 \/ bridge = "replying"
      BY <2>2 DEF B!Next, B!NetworkStep, B!TaskStep, B!vars, B!upstream, B!task, B!CrawlDies,
         B!CrawlReturns, B!CrawlDrops, B!SessionCut, B!SilenceIsNoticed, B!GoesSilent,
         B!IsClosed, B!CrawlTakesLate, B!Connect, B!ClientLeaves, B!ReadUnsupported,
         B!Refuse, B!ReadMessage, B!Dial, B!DialFails, B!Write, B!ReadAck, B!RelayFails,
         B!Reply, B!ReplyFails, B!Close, B!Abandon
    <3>3. sent \in B!Messages
      BY <1>t, <3>2 DEF InFlight, RetryIsOfAMessage, AtAMessage, BridgeNumbers, B!Messages
    <3> QED BY <1>t, <3>1, <3>2, <3>3, TakenGrows DEF AcksAreEarned
  <2> QED BY <2>1, <2>2
<1> QED BY <1>1, <1>2 DEF AcksAreEarned

\* One step, for one message: what was in hand is taken or lost, and only
\* Write puts another try in.
LEMMA NextTries ==
    ASSUME BridgeInv, [B!Next]_(B!vars), NEW m \in B!Messages
    PROVE  taken'[m] + late'[m] + InHand(m)' <= Tries(m)'
<1>t. /\ BridgeNumbers /\ BridgeCounters /\ BridgePlaces
      /\ RetryIsOfAMessage /\ InFlight /\ EachTryCounts
  BY BridgeTypeParts DEF BridgeInv
<1>n. /\ taken[m] \in Nat /\ late[m] \in Nat /\ m \in Nat /\ sent \in Nat
      /\ m # 0 /\ taken[m] + late[m] + InHand(m) <= Tries(m)
  BY <1>t DEF BridgeCounters, BridgeNumbers, EachTryCounts, B!Messages
<1>1. CASE B!CrawlDies
  <2>1. /\ taken'[m] = taken[m] /\ late'[m] = 0 /\ inbox' = 0
        /\ sent' = sent /\ bridge' = bridge /\ retry' = retry
    BY <1>1 DEF B!CrawlDies, B!NoneLate, B!task, B!client
  <2> QED BY <1>n, <2>1 DEF InHand, Tries
<1>2. CASE B!NetworkStep
  <2>1. sent' = sent /\ bridge' = bridge /\ retry' = retry
    BY <1>2 DEF B!NetworkStep, B!CrawlDrops, B!SessionCut, B!SilenceIsNoticed, B!CrawlTakes,
       B!CrawlTakesLate, B!task, B!client
  <2>2. CASE B!CrawlDrops \/ B!SessionCut \/ B!SilenceIsNoticed
    <3>1. taken' = taken /\ late' = late /\ inbox' \in {0, inbox}
      BY <2>2 DEF B!CrawlDrops, B!SessionCut, B!SilenceIsNoticed
    <3> QED BY <1>n, <2>1, <3>1 DEF InHand, Tries
  <2>3. CASE B!CrawlTakes
    <3>1. /\ taken'[m] = taken[m] + InHand(m)
          /\ late' = late /\ inbox' = 0
      BY <1>t, <1>n, <2>3 DEF B!CrawlTakes, B!Taking, InHand, BridgeCounters
    <3> QED BY <1>n, <2>1, <3>1 DEF InHand, Tries
  <2>4. ASSUME NEW n \in B!Messages, B!CrawlTakesLate(n)
        PROVE taken'[m] + late'[m] + InHand(m)' <= Tries(m)'
    <3>1. /\ inbox' = inbox
          /\ \/ taken'[m] = taken[m] /\ late'[m] = late[m]
             \/ taken'[m] = taken[m] + 1 /\ late'[m] = late[m] - 1
      BY <1>t, <2>4 DEF B!CrawlTakesLate, B!Taking, BridgeCounters
    <3> QED BY <1>n, <2>1, <3>1 DEF InHand, Tries
  <2> QED BY <1>2, <2>2, <2>3, <2>4 DEF B!NetworkStep
<1>3. CASE B!ClientLeaves \/ B!DialFails \/ B!ReplyFails \/ B!RelayFails
  <2>1. /\ taken' = taken /\ late'[m] = late[m] + InHand(m) /\ inbox' = 0
        /\ sent' = sent
    BY <1>t, <1>n, <1>3
       DEF B!ClientLeaves, B!DialFails, B!ReplyFails, B!RelayFails, B!Close, B!Abandon,
           InHand, BridgeCounters, B!client
  <2>2. \/ bridge' = "gone"
        \/ bridge = "waiting" /\ ~retry /\ bridge' = "dialing" /\ retry'
    BY <1>3 DEF B!ClientLeaves, B!DialFails, B!ReplyFails, B!RelayFails, B!Close
  <2> QED BY <1>n, <2>1, <2>2 DEF InHand, Tries
<1>4. CASE B!Write
  <2>1. /\ taken' = taken /\ late' = late /\ inbox' \in {sent, inbox}
        /\ sent' = sent /\ bridge = "writing" /\ bridge' = "waiting"
        /\ retry' = retry
    BY <1>4 DEF B!Write, B!client
  <2>2. inbox = 0
    BY <1>t, <2>1 DEF InFlight
  <2> QED BY <1>n, <2>1, <2>2 DEF InHand, Tries
<1>5. CASE B!ReadMessage
  <2>1. /\ taken' = taken /\ late' = late /\ inbox' = inbox
        /\ sent' = sent + 1 /\ bridge = "reading" /\ retry' = retry
        /\ bridge' \in {"dialing", "writing"}
    BY <1>5 DEF B!ReadMessage, B!upstream
  <2> QED BY <1>n, <2>1 DEF InHand, Tries
<1>6. CASE B!Connect \/ B!ReadUnsupported \/ B!Refuse \/ B!Dial \/ B!ReadAck \/ B!Reply
  <2>1. /\ taken' = taken /\ late' = late /\ inbox' = inbox /\ sent' = sent
    BY <1>6 DEF B!Connect, B!ReadUnsupported, B!Refuse, B!Dial, B!ReadAck, B!Reply, B!upstream, B!client
  <2>2. \/ bridge' \notin {"dialing", "writing", "waiting"}
        \/ bridge = "dialing" /\ bridge' = "writing" /\ retry' = retry
    BY <1>6 DEF B!Connect, B!ReadUnsupported, B!Refuse, B!Dial, B!ReadAck, B!Reply
  <2> QED BY <1>n, <2>1, <2>2 DEF InHand, Tries
<1>7. CASE B!CrawlReturns \/ UNCHANGED B!vars
  <2>1. /\ taken' = taken /\ late' = late /\ inbox' = inbox /\ sent' = sent
        /\ bridge' = bridge /\ retry' = retry
    BY <1>7 DEF B!CrawlReturns, B!vars, B!upstream, B!task, B!client
  <2> QED BY <1>n, <2>1 DEF InHand, Tries
<1> QED BY <1>1, <1>2, <1>3, <1>4, <1>5, <1>6, <1>7 DEF B!Next, B!TaskStep

-----------------------------------------------------------------------------
LEMMA BridgeInitInv == ASSUME MaxMessages \in Nat PROVE B!Init => BridgeInv
<1> SUFFICES ASSUME B!Init PROVE BridgeInv
  OBVIOUS
<1>1. BridgePlaces /\ BridgeCounters
  BY DEF B!Init, BridgePlaces, AtAMessage, BridgeCounters, B!NoneLate
<1>2. BridgeNumbers
  BY DEF B!Init, BridgeNumbers
<1>3. InFlight /\ RetryIsOfAMessage /\ AcksAreEarned
  BY DEF B!Init, InFlight, RetryIsOfAMessage, AcksAreEarned, AtAMessage
<1>4. ASSUME NEW m \in B!Messages
      PROVE taken[m] + late[m] + InHand(m) <= Tries(m)
  <2>1. taken[m] = 0 /\ late[m] = 0
    BY DEF B!Init, B!NoneLate
  <2>2. m \in Nat /\ m > sent /\ InHand(m) = 0
    BY DEF B!Init, B!Messages, InHand
  <2>3. Tries(m) = 0
    BY <2>2 DEF Tries, B!Init
  <2> QED BY <2>1, <2>2, <2>3
<1> QED BY <1>1, <1>2, <1>3, <1>4, BridgeTypeParts DEF BridgeInv, EachTryCounts

LEMMA BridgeNextInv ==
    ASSUME MaxMessages \in Nat
    PROVE  BridgeInv /\ [B!Next]_(B!vars) => BridgeInv'
<1> SUFFICES ASSUME BridgeInv, [B!Next]_(B!vars) PROVE BridgeInv'
  OBVIOUS
<1>t. BridgePlaces /\ BridgeNumbers /\ BridgeCounters /\ RetryIsOfAMessage /\ InFlight
  BY BridgeTypeParts DEF BridgeInv
<1>1. BridgePlaces' /\ BridgeNumbers' /\ BridgeCounters'
  BY <1>t, BridgeNextPlaces, BridgeNextNumbers, BridgeNextCounters
<1>2. B!TypeOK'
  BY <1>1, BridgeTypeParts, PTL
<1>3. RetryIsOfAMessage' /\ InFlight' /\ AcksAreEarned'
  BY <1>t, NextRetry, NextInFlight, NextAcks
<1>4. EachTryCounts'
  BY NextTries DEF EachTryCounts, B!Messages
<1> QED BY <1>2, <1>3, <1>4 DEF BridgeInv

\* The invariant counts what Crawl has taken.
LEMMA BridgeInvMeans == BridgeInv => B!TakenOnceOrTwice
<1> SUFFICES ASSUME BridgeInv, NEW m \in B!Messages
             PROVE taken[m] <= 2 /\ (m \in acked => taken[m] >= 1)
  BY DEF B!TakenOnceOrTwice
<1>1. taken[m] \in Nat /\ late[m] \in Nat /\ InHand(m) \in {0, 1}
  BY DEF BridgeInv, B!TypeOK, InHand
<1>2. Tries(m) \in {0, 1, 2}
  BY DEF Tries
<1>3. taken[m] + late[m] + InHand(m) <= Tries(m)
  BY DEF BridgeInv, EachTryCounts
<1>4. taken[m] <= 2
  BY <1>1, <1>2, <1>3
<1>5. m \in acked => taken[m] # 0
  BY DEF BridgeInv, AcksAreEarned
<1> QED BY <1>1, <1>4, <1>5

\* What the client is told was received was, and Crawl takes no message more
\* than twice, through any number of lost sessions and restarts of Crawl.
THEOREM BridgeTakenOnceOrTwice ==
    ASSUME MaxMessages \in Nat
    PROVE  B!Spec => []B!TakenOnceOrTwice
BY BridgeInitInv, BridgeNextInv, BridgeInvMeans, PTL DEF B!Spec

-----------------------------------------------------------------------------
(* The process.  A step of it is a step of the poller or leaves it alone,  *)
(* and likewise of the bridge, until it ends, at whatever point each is.   *)

\* A connection that ends with the process, wherever its task is.
LEMMA BridgeEnds ==
    ASSUME MaxMessages \in Nat, BridgeInv, B!Close, UNCHANGED <<up, sent, acked, taken>>
    PROVE  BridgeInv'
<1>t. /\ BridgePlaces /\ BridgeNumbers /\ BridgeCounters
      /\ AcksAreEarned /\ EachTryCounts
  BY BridgeTypeParts DEF BridgeInv
<1>c. /\ bridge' = "gone" /\ retry' = FALSE /\ session' = "none"
      /\ inbox' = 0 /\ ack' = 0
      /\ up' = up /\ sent' = sent /\ acked' = acked /\ taken' = taken
  BY DEF B!Close, B!Abandon
<1>l. late' = IF inbox = 0 THEN late ELSE [late EXCEPT ![inbox] = @ + 1]
  BY DEF B!Close, B!Abandon
<1>p. BridgePlaces'
  BY <1>t, <1>c DEF BridgePlaces, AtAMessage
<1>n. BridgeNumbers'
  BY <1>t, <1>c DEF BridgeNumbers
<1>2. BridgeCounters'
  <2>1. inbox # 0 => inbox \in B!Messages /\ late[inbox] + 1 \in Nat
    BY <1>t DEF BridgeNumbers, BridgeCounters, B!Messages
  <2> QED BY <1>t, <1>c, <1>l, <2>1 DEF BridgeCounters, B!Messages
<1>3. InFlight' /\ RetryIsOfAMessage' /\ AcksAreEarned'
  BY <1>t, <1>c DEF InFlight, RetryIsOfAMessage, AcksAreEarned, AtAMessage
<1>4. ASSUME NEW m \in B!Messages
      PROVE  taken'[m] + late'[m] + InHand(m)' <= Tries(m)'
  <2>1. /\ taken[m] \in Nat /\ late[m] \in Nat /\ m \in Nat /\ sent \in Nat /\ m # 0
        /\ taken[m] + late[m] + InHand(m) <= Tries(m)
    BY <1>t DEF BridgeNumbers, BridgeCounters, EachTryCounts, B!Messages
  <2>2. late'[m] = late[m] + InHand(m)
    BY <1>t, <1>l, <2>1 DEF InHand, BridgeCounters
  <2> QED BY <1>c, <2>1, <2>2 DEF InHand, Tries
<1>5. B!TypeOK'
  BY <1>p, <1>n, <1>2, BridgeTypeParts, PTL
<1> QED BY <1>3, <1>4, <1>5 DEF BridgeInv, EachTryCounts, B!Messages

\* What a step of the process is to the poller.
LEMMA HeadNextPoller ==
    [HeadNext]_headVars => [Next]_vars \/ HeadEnds
<1> SUFFICES ASSUME [HeadNext]_headVars PROVE [Next]_vars \/ HeadEnds
  OBVIOUS
<1> USE DEF vars, loop, wire, held, history, pollerVars
<1>1. CASE CrawlLost \/ CrawlBack
  BY <1>1 DEF CrawlLost, CrawlBack, Next
<1>2. CASE PollerStep
  BY <1>2 DEF PollerStep, ForPoller, Next
<1>3. CASE BridgeStep
  <2>1. up' = up
    BY <1>3 DEF BridgeStep, B!TaskStep, B!NetworkStep, B!CrawlDrops, B!SessionCut,
       B!SilenceIsNoticed, B!CrawlTakes, B!CrawlTakesLate, B!Connect, B!ClientLeaves,
       B!ReadUnsupported, B!Refuse, B!ReadMessage, B!Dial, B!DialFails, B!Write,
       B!ReadAck, B!RelayFails, B!Reply, B!ReplyFails
  <2> QED BY <1>3, <2>1 DEF BridgeStep
<1>4. CASE StartStep \/ FailureStep \/ MainStep
  BY <1>4 DEF StartStep, FailureStep, MainStep
<1>5. CASE Remains
  BY <1>5 DEF Remains, B!CrawlTakesLate
<1>6. CASE UNCHANGED headVars
  BY <1>6 DEF headVars
<1> QED BY <1>1, <1>2, <1>3, <1>4, <1>5, <1>6 DEF HeadNext

\* And to the bridge.
LEMMA HeadNextBridge ==
    [HeadNext]_headVars => [B!Next]_(B!vars) \/ HeadEnds
<1> SUFFICES ASSUME [HeadNext]_headVars PROVE [B!Next]_(B!vars) \/ HeadEnds
  OBVIOUS
<1> USE DEF B!vars, B!upstream, B!task, B!client, bridgeVars
<1>1. CASE CrawlLost \/ CrawlBack
  BY <1>1 DEF CrawlLost, CrawlBack, B!Next
<1>2. CASE PollerStep
  <2>1. up' = up
    BY <1>2 DEF PollerStep, ForPoller, LoopStep, NetworkStep, Pass, DialSucceeds, Miss,
       Land, Wake, LinkIsCut, SilenceIsNoticed, CrawlAnswers
  <2> QED BY <1>2, <2>1 DEF PollerStep, ForPoller
<1>3. CASE BridgeStep
  BY <1>3 DEF BridgeStep, B!Next
<1>4. CASE StartStep \/ FailureStep \/ MainStep
  BY <1>4 DEF StartStep, FailureStep, MainStep
<1>5. CASE Remains
  BY <1>5 DEF Remains, B!Next, B!NetworkStep
<1>6. CASE UNCHANGED headVars
  BY <1>6 DEF headVars
<1> QED BY <1>1, <1>2, <1>3, <1>4, <1>5, <1>6 DEF HeadNext

\* The process that ends leaves the poller as it began.
LEMMA PollerEnds == PollerInv /\ HeadEnds => PollerInv'
<1>1. PollerInv /\ HeadEnds => Init'
  BY DEF PollerInv, TypeOK, HeadEnds, Init
<1> QED BY <1>1, PollerInitInv, PTL

HeadInv == PollerInv /\ BridgeInv

LEMMA HeadInvHolds ==
    ASSUME MaxMessages \in Nat
    PROVE  HeadSpec => []HeadInv
<1>1. HeadInit => HeadInv
  BY PollerInitInv, BridgeInitInv DEF HeadInit, HeadInv
<1>2. HeadInv /\ [HeadNext]_headVars => HeadInv'
  <2> SUFFICES ASSUME HeadInv, [HeadNext]_headVars PROVE HeadInv'
    OBVIOUS
  <2>1. PollerInv'
    BY HeadNextPoller, PollerNextInv, PollerEnds DEF HeadInv
  <2>2. BridgeInv'
    BY HeadNextBridge, BridgeNextInv, BridgeEnds DEF HeadInv, HeadEnds
  <2> QED BY <2>1, <2>2 DEF HeadInv
<1> QED BY <1>1, <1>2, PTL DEF HeadSpec

\* Beside a bridge and the runners of its process, a view that /health calls
\* fresh was drawn up within three intervals and an exchange, or came slowly.
THEOREM HeadFreshIsRecent ==
    ASSUME MaxMessages \in Nat
    PROVE  HeadSpec => []FreshIsRecent
BY HeadInvHolds, PollerInvFresh, PTL DEF HeadInv

\* Likewise, a view is not called stale for one failed poll.
THEOREM HeadOneMissIsForgiven ==
    ASSUME MaxMessages \in Nat
    PROVE  HeadSpec => []OneMissIsForgiven
BY HeadInvHolds, PollerInvForgives, PTL DEF HeadInv

\* Beside a poller that shares its Crawl, in a process that may end at any
\* moment and leave Crawl with what it had in hand: what the client is told
\* was received was, and Crawl takes no message more than twice.
THEOREM HeadTakenOnceOrTwice ==
    ASSUME MaxMessages \in Nat
    PROVE  HeadSpec => []TakenOnceOrTwice
BY HeadInvHolds, BridgeInvMeans, PTL DEF HeadInv, TakenOnceOrTwice
-----------------------------------------------------------------------------
(* The snapshot of a Fetch process.                                        *)

SnapshotInv ==
    /\ view \in Views /\ reports \subseteq Links /\ snapshot.links \subseteq Links
    /\ snapshot = [nodes |-> snapshot.nodes, links |-> snapshot.links]
    /\ IsFiniteSet(snapshot.nodes) /\ IsFiniteSet(snapshot.links)
    /\ snapshot.links \cap reports = {}
    /\ poller # "planning" => snapshot = Empty /\ dropped = {}
    /\ main # "serving" => poller = "unborn"
    /\ SnapshotKeepsWhatFits

News(nodes, n) == IF n \in nodes THEN 0 ELSE 1

LEMMA OneMore ==
    ASSUME NEW S, NEW x, IsFiniteSet(S)
    PROVE  /\ IsFiniteSet(S \cup {x}) /\ Cardinality(S) \in Nat
           /\ Cardinality(S \cup {x}) = Cardinality(S) + News(S, x)
BY FS_AddElement, FS_CardinalityType DEF News

\* would_add_nodes is exact for two ends that differ, and never too small.
LEMMA TwoMore ==
    ASSUME NEW S, NEW x, NEW y, IsFiniteSet(S)
    PROVE  /\ IsFiniteSet(S \cup {x, y})
           /\ Cardinality(S \cup {x, y}) <= Cardinality(S) + News(S, x) + News(S, y)
           /\ x # y => Cardinality(S \cup {x, y}) = Cardinality(S) + News(S, x) + News(S, y)
<1> DEFINE T == S \cup {x}
<1>1. IsFiniteSet(T) /\ Cardinality(S) \in Nat /\ Cardinality(T) = Cardinality(S) + News(S, x)
  BY OneMore
<1>2. /\ IsFiniteSet(T \cup {y}) /\ Cardinality(T) \in Nat
      /\ Cardinality(T \cup {y}) = Cardinality(T) + News(T, y)
  <2> HIDE DEF T
  <2> QED BY <1>1, OneMore
<1>3. T \cup {y} = S \cup {x, y}
  OBVIOUS
<1>4. News(S, x) \in {0, 1} /\ News(S, y) \in {0, 1} /\ News(T, y) \in {0, 1}
  BY DEF News
<1>5. News(T, y) <= News(S, y)
  BY DEF News
<1>6. x # y => News(T, y) = News(S, y)
  BY DEF News
<1> HIDE DEF T
<1> QED BY <1>1, <1>2, <1>3, <1>4, <1>5, <1>6

\* What does not fit, does not fit into more.
LEMMA StillDoesNotFit ==
    ASSUME NEW n, NEW l, NEW n2, NEW l2, n \subseteq n2, l \subseteq l2,
           IsFiniteSet(n2), IsFiniteSet(l2), ~Fits(n, l)
    PROVE  ~Fits(n2, l2)
<1>1. /\ Cardinality(n) \in Nat /\ Cardinality(n2) \in Nat
      /\ Cardinality(n) <= Cardinality(n2)
  BY FS_Subset, FS_CardinalityType
<1>2. /\ Cardinality(l) \in Nat /\ Cardinality(l2) \in Nat
      /\ Cardinality(l) <= Cardinality(l2)
  BY FS_Subset, FS_CardinalityType
<1> QED BY <1>1, <1>2, SnapshotCaps DEF Fits

LEMMA RoomIsExact ==
    ASSUME NEW l, IsFiniteSet(snapshot.nodes), IsFiniteSet(snapshot.links),
           l \notin snapshot.links
    PROVE  /\ IsFiniteSet(snapshot.nodes \cup Ends(l)) /\ IsFiniteSet(snapshot.links \cup {l})
           /\ HasRoomFor(snapshot, l) => Fits(snapshot.nodes \cup Ends(l), snapshot.links \cup {l})
           /\ l.from # l.target /\ ~HasRoomFor(snapshot, l)
                => ~Fits(snapshot.nodes \cup Ends(l), snapshot.links \cup {l})
<1> DEFINE S == snapshot.nodes
           L == snapshot.links
           x == l.from
           y == l.target
<1>1. /\ IsFiniteSet(L \cup {l}) /\ Cardinality(L) \in Nat
      /\ Cardinality(L \cup {l}) = Cardinality(L) + 1
  BY OneMore DEF News
<1>2. /\ IsFiniteSet(S \cup {x, y})
      /\ Cardinality(S \cup {x, y}) <= Cardinality(S) + News(S, x) + News(S, y)
      /\ x # y => Cardinality(S \cup {x, y}) = Cardinality(S) + News(S, x) + News(S, y)
  <2> HIDE DEF x, y
  <2> QED BY TwoMore
<1>3. /\ Cardinality(S) \in Nat /\ Cardinality(S \cup {x, y}) \in Nat
      /\ News(S, x) \in {0, 1} /\ News(S, y) \in {0, 1}
  BY <1>2, FS_CardinalityType DEF News
<1>4. HasRoomFor(snapshot, l) <=>
        /\ Cardinality(L) < MaxLinks
        /\ Cardinality(S) + News(S, x) + News(S, y) <= MaxNodes
  BY DEF HasRoomFor, News
<1>5. Fits(S \cup Ends(l), L \cup {l}) <=>
        /\ Cardinality(L \cup {l}) <= MaxLinks
        /\ Cardinality(S \cup {x, y}) <= MaxNodes
  BY DEF Fits, Ends
<1>6. S \cup Ends(l) = S \cup {x, y}
  BY DEF Ends
<1> HIDE DEF S, L, x, y
<1>7. HasRoomFor(snapshot, l) => Fits(S \cup Ends(l), L \cup {l})
  BY <1>1, <1>2, <1>3, <1>4, <1>5, SnapshotCaps
<1>8. x # y /\ ~HasRoomFor(snapshot, l) => ~Fits(S \cup Ends(l), L \cup {l})
  BY <1>1, <1>2, <1>3, <1>4, <1>5, SnapshotCaps
<1> QED BY <1>1, <1>2, <1>6, <1>7, <1>8 DEF S, L, x, y

LEMMA EmptyFits == Fits({}, {}) /\ NodesOf({}) = {} /\ IsFiniteSet({})
BY FS_EmptySet, SnapshotCaps DEF Fits, NodesOf

LEMMA SnapshotInit == FetchInit => SnapshotInv
BY EmptyFits DEF FetchInit, SnapshotInv, SnapshotKeepsWhatFits, Empty

\* A step that leaves the snapshot alone, and at most forgets an answer.
LEMMA SnapshotLeftAlone ==
    ASSUME SnapshotInv, view' \in Views, UNCHANGED <<snapshot, dropped>>,
           reports' \subseteq reports,
           poller' = poller \/ poller' = "planning" \/ poller # "planning",
           main' # "serving" => poller' = "unborn"
    PROVE  SnapshotInv'
<1>1. SnapshotKeepsWhatFits'
  BY DEF SnapshotInv, SnapshotKeepsWhatFits
<1> QED BY <1>1 DEF SnapshotInv

\* A step that starts with an empty snapshot.
LEMMA SnapshotReset ==
    ASSUME SnapshotInv, view' \in Views, snapshot' = Empty, dropped' = {},
           reports' \subseteq Links, main' # "serving" => poller' = "unborn"
    PROVE  SnapshotInv'
<1>1. SnapshotKeepsWhatFits'
  BY EmptyFits DEF SnapshotKeepsWhatFits, Empty
<1> QED BY <1>1, EmptyFits DEF SnapshotInv, Empty

LEMMA AddLinkKeepsSnapshot ==
    ASSUME SnapshotInv, NEW l, AddLink(l)
    PROVE  SnapshotInv'
<1> DEFINE S == snapshot.nodes
           L == snapshot.links
<1>1. /\ l \in reports /\ l \in Links /\ l \notin L /\ reports' = reports \ {l}
      /\ poller = "planning" /\ UNCHANGED <<view, poller, main>>
  BY DEF SnapshotInv, AddLink, mainVars, crawlVars
<1>2. /\ IsFiniteSet(S \cup Ends(l)) /\ IsFiniteSet(L \cup {l})
      /\ HasRoomFor(snapshot, l) => Fits(S \cup Ends(l), L \cup {l})
      /\ l.from # l.target /\ ~HasRoomFor(snapshot, l) => ~Fits(S \cup Ends(l), L \cup {l})
  BY <1>1, RoomIsExact DEF SnapshotInv
<1>3. CASE HasRoomFor(snapshot, l)
  <2>1. /\ snapshot' = [nodes |-> S \cup Ends(l), links |-> L \cup {l}]
        /\ dropped' = dropped
    BY <1>3 DEF AddLink, With
  <2>2. S \cup Ends(l) = NodesOf(L \cup {l})
    BY DEF SnapshotInv, SnapshotKeepsWhatFits, NodesOf
  <2>3. ASSUME NEW d \in dropped, d.from # d.target
        PROVE  ~Fits((S \cup Ends(l)) \cup Ends(d), (L \cup {l}) \cup {d})
    <3>1. ~Fits(S \cup Ends(d), L \cup {d})
      BY <2>3 DEF SnapshotInv, SnapshotKeepsWhatFits
    <3>2. IsFiniteSet((S \cup Ends(l)) \cup Ends(d)) /\ IsFiniteSet((L \cup {l}) \cup {d})
      <4>1. IsFiniteSet((S \cup Ends(l)) \cup {d.from, d.target})
        BY <1>2, TwoMore
      <4>2. IsFiniteSet((L \cup {l}) \cup {d})
        BY <1>2, OneMore
      <4> QED BY <4>1, <4>2 DEF Ends
    <3> QED BY <3>1, <3>2, StillDoesNotFit
  <2>4. SnapshotKeepsWhatFits'
    BY <1>2, <1>3, <2>1, <2>2, <2>3 DEF SnapshotKeepsWhatFits
  <2> QED BY <1>1, <1>2, <2>1, <2>4 DEF SnapshotInv
<1>4. CASE ~HasRoomFor(snapshot, l)
  <2>1. snapshot' = snapshot /\ dropped' = dropped \cup {l}
    BY <1>4 DEF AddLink
  <2>2. SnapshotKeepsWhatFits'
    BY <1>2, <1>4, <2>1 DEF SnapshotInv, SnapshotKeepsWhatFits
  <2> QED BY <1>1, <2>1, <2>2 DEF SnapshotInv
<1> QED BY <1>3, <1>4

LEMMA SnapshotNext == SnapshotInv /\ [FetchNext]_fetchVars => SnapshotInv'
<1> SUFFICES ASSUME SnapshotInv, [FetchNext]_fetchVars PROVE SnapshotInv'
  OBVIOUS
<1> USE DEF mainVars, crawlVars, exchange, clientVars
<1>1. CASE UNCHANGED fetchVars
  BY <1>1, SnapshotLeftAlone DEF fetchVars, SnapshotInv
<1>2. CASE \E l \in reports : AddLink(l)
  BY <1>2, AddLinkKeepsSnapshot
<1>3. CASE Start \/ RelayStops
  BY <1>3, SnapshotLeftAlone DEF Start, RelayStops, SnapshotInv
<1>4. CASE StartFails \/ FrontStops
  BY <1>4, SnapshotReset DEF StartFails, FrontStops, ProcessEnds, SnapshotInv
<1>5. CASE ViewChanges \/ CrawlComes \/ LossIsNoticed
  BY <1>5, SnapshotLeftAlone DEF ViewChanges, CrawlComes, LossIsNoticed, SnapshotInv
<1>6. CASE CrawlGoes \/ LineIsCut
  BY <1>6, SnapshotLeftAlone DEF CrawlGoes, LineIsCut, FallsSilent, ClosesLine, SnapshotInv
<1>7. CASE CrawlSends
  <2>1. poller # "planning" /\ reports' \subseteq Links
    BY <1>7 DEF CrawlSends, SnapshotInv, Links
  <2>2. snapshot' = Empty /\ dropped' = {}
    BY <1>7, <2>1 DEF CrawlSends, SnapshotInv
  <2> QED BY <1>7, <2>1, <2>2, SnapshotReset DEF CrawlSends, SnapshotInv
<1>8. CASE PollDials \/ PollReceives \/ PollAgain
  BY <1>8, SnapshotLeftAlone DEF PollDials, PollReceives, PollAgain, SnapshotInv
<1>9. CASE PollFails \/ Publish
  <2>1. poller # "unborn"
    BY <1>9 DEF PollFails, Publish
  <2> QED BY <1>9, <2>1, SnapshotReset DEF PollFails, Publish, Rest, SnapshotInv
<1>10. ASSUME NEW c \in Clients, Tunnels(c) PROVE SnapshotInv'
  <2>1. UNCHANGED <<mainVars, crawlVars, exchange>>
    BY <1>10 DEF Tunnels, Arrives, IsAccepted, NotAccepted, ReadRoutes, AttemptIsGivenUp,
       ComesUp, StaticFails, TunnelEnds
  <2> QED BY <2>1, SnapshotLeftAlone DEF SnapshotInv
<1> QED BY <1>1, <1>2, <1>3, <1>4, <1>5, <1>6, <1>7, <1>8, <1>9, <1>10
     DEF FetchNext, MainNext, NetworkNext, PollStep

THEOREM SnapshotInvHolds == FetchSpec => []SnapshotInv
BY SnapshotInit, SnapshotNext, PTL DEF FetchSpec

\* Whatever the caps and the order of the reports, a snapshot stays within the
\* caps and leaves out no link between two nodes that would still fit.
THEOREM FetchSnapshotKeepsWhatFits == FetchSpec => []SnapshotKeepsWhatFits
BY SnapshotInvHolds, PTL DEF SnapshotInv

-----------------------------------------------------------------------------
(* The client of a Fetch process.                                          *)

Stages == {"away", "greeting", "asking", "trying", "fallback", "dialing", "tunneling", "closed"}

ClientsTyped ==
    /\ routes \in Seq(Routes)
    /\ stage \in [Clients -> Stages]
    /\ walk \in [Clients -> Seq(Routes)] /\ tried \in [Clients -> Seq(Routes)]
    /\ rank \in [Clients -> Nat]

IsPrefixOf(t, w) == Len(t) <= Len(w) /\ \A i \in DOMAIN t : t[i] = w[i]

\* How far a client has come on its own walk.
OnItsWalk(c) ==
    /\ stage[c] \in {"away", "greeting", "asking"} => tried[c] = <<>>
    /\ stage[c] = "trying" => Len(tried[c]) = rank[c]
    /\ stage[c] = "fallback" => Len(tried[c]) = Len(walk[c])
    /\ IsPrefixOf(tried[c], walk[c])

ClientsInv == ClientsTyped /\ asked = walk /\ \A c \in Clients : OnItsWalk(c)

LEMMA PrefixGrows ==
    ASSUME NEW w \in Seq(Routes), NEW t \in Seq(Routes), IsPrefixOf(t, w), Len(t) < Len(w)
    PROVE  IsPrefixOf(Append(t, w[Len(t) + 1]), w)
<1> DEFINE more == Append(t, w[Len(t) + 1])
<1>1. w[Len(t) + 1] \in Routes
  OBVIOUS
<1>2. Len(more) = Len(t) + 1 /\ DOMAIN more = 1..(Len(t) + 1)
  BY <1>1
<1>3. ASSUME NEW i \in DOMAIN more PROVE more[i] = w[i]
  <2>1. CASE i = Len(t) + 1
    BY <2>1, <1>1
  <2>2. CASE i # Len(t) + 1
    <3>1. i \in DOMAIN t
      BY <2>2, <1>2
    <3> QED BY <3>1, <1>1 DEF IsPrefixOf
  <2> QED BY <2>1, <2>2
<1> QED BY <1>2, <1>3 DEF IsPrefixOf

LEMMA NothingTriedIsPrefix ==
    ASSUME NEW w \in Seq(Routes)
    PROVE  IsPrefixOf(<<>>, w)
BY DEF IsPrefixOf

LEMMA ClientsInit == FetchInit => ClientsInv
<1> SUFFICES ASSUME FetchInit PROVE ClientsInv
  OBVIOUS
<1>1. ClientsTyped /\ asked = walk
  BY DEF FetchInit, ClientsTyped, Stages
<1>2. ASSUME NEW c \in Clients PROVE OnItsWalk(c)
  <2>1. stage[c] = "away" /\ tried[c] = <<>> /\ walk[c] = <<>>
    BY DEF FetchInit
  <2>2. IsPrefixOf(<<>>, <<>>)
    BY DEF IsPrefixOf
  <2> QED BY <2>1, <2>2 DEF OnItsWalk
<1> QED BY <1>1, <1>2 DEF ClientsInv

\* A client that does not try anything in a step, goes no step back and does
\* not fall back stays on its walk.
LEMMA StaysOnItsWalk ==
    ASSUME NEW c \in Clients, OnItsWalk(c),
           tried'[c] = tried[c], walk'[c] = walk[c], rank'[c] = rank[c],
           \/ stage'[c] = stage[c]
           \/ stage'[c] \in {"greeting", "asking", "dialing"} /\ stage[c] \in {"away", "greeting"}
           \/ stage'[c] \in {"tunneling", "closed"}
    PROVE  OnItsWalk(c)'
BY DEF OnItsWalk, IsPrefixOf

\* The beginning of a walk, and its next candidate.
LEMMA TryKeepsWalk ==
    ASSUME NEW c \in Clients, NEW w \in Seq(Routes), ClientsTyped,
           IsPrefixOf(tried[c], w), Len(tried[c]) < Len(w), Try(c, w, Len(tried[c]) + 1),
           walk'[c] = w
    PROVE  OnItsWalk(c)' /\ w[Len(tried[c]) + 1] \in Routes
<1> DEFINE t == tried[c]
<1>1. t \in Seq(Routes)
  BY DEF ClientsTyped
<1>2. tried'[c] = Append(t, w[Len(t) + 1])
  BY DEF Try, ClientsTyped
<1>3. rank'[c] = Len(t) + 1 /\ stage'[c] = "trying"
  BY DEF Try, Goes, ClientsTyped
<1>4. w[Len(t) + 1] \in Routes
  BY <1>1
<1>5. IsPrefixOf(tried'[c], w)
  BY <1>1, <1>2, PrefixGrows
<1>6. Len(tried'[c]) = rank'[c]
  BY <1>1, <1>2, <1>3, <1>4
<1> QED BY <1>3, <1>4, <1>5, <1>6 DEF OnItsWalk, IsPrefixOf

\* A step in which clients try nothing.
LEMMA NobodyTries ==
    ASSUME ClientsInv, routes' \in Seq(Routes), UNCHANGED <<walk, rank, asked, tried>>,
           stage' \in [Clients -> Stages],
           \A c \in Clients :
              \/ stage'[c] = stage[c]
              \/ stage'[c] \in {"greeting", "asking", "dialing"} /\ stage[c] \in {"away", "greeting"}
              \/ stage'[c] \in {"tunneling", "closed"}
    PROVE  ClientsInv'
<1>1. \A c \in Clients : OnItsWalk(c)'
  BY StaysOnItsWalk DEF ClientsInv
<1>2. ClientsTyped' /\ asked' = walk'
  BY DEF ClientsInv, ClientsTyped
<1> QED BY <1>1, <1>2 DEF ClientsInv

\* The other clients, when one begins or goes on.
LEMMA OthersStay ==
    ASSUME ClientsInv, NEW c \in Clients,
           \A d \in Clients \ {c} : /\ stage'[d] = stage[d] /\ rank'[d] = rank[d]
                                    /\ walk'[d] = walk[d] /\ tried'[d] = tried[d],
           OnItsWalk(c)'
    PROVE  \A d \in Clients : OnItsWalk(d)'
BY StaysOnItsWalk DEF ClientsInv

LEMMA ReadRoutesKeepsWalks ==
    ASSUME ClientsInv, NEW c \in Clients, ReadRoutes(c)
    PROVE  ClientsInv'
<1>1. ClientsTyped /\ routes \in Seq(Routes) /\ tried[c] = <<>> /\ Len(tried[c]) = 0
  BY DEF ClientsInv, ClientsTyped, OnItsWalk, ReadRoutes
<1>2. /\ walk' = [walk EXCEPT ![c] = routes] /\ asked' = walk' /\ walk'[c] = routes
      /\ walk' \in [Clients -> Seq(Routes)] /\ routes' = routes
  BY <1>1 DEF ClientsInv, ClientsTyped, ReadRoutes
<1>3. CASE routes = <<>>
  <2>1. /\ stage' = [stage EXCEPT ![c] = "fallback"] /\ UNCHANGED <<rank, tried>>
    BY <1>3 DEF ReadRoutes, Goes
  <2>2. stage'[c] = "fallback" /\ tried'[c] = <<>> /\ walk'[c] = <<>>
    BY <1>1, <1>2, <1>3, <2>1 DEF ClientsTyped
  <2>3. OnItsWalk(c)'
    BY <2>2 DEF OnItsWalk, IsPrefixOf
  <2>4. ClientsTyped'
    BY <1>1, <1>2, <2>1 DEF ClientsTyped, Stages
  <2>5. \A d \in Clients : OnItsWalk(d)'
    BY <1>1, <1>2, <2>1, <2>3, OthersStay DEF ClientsTyped
  <2> QED BY <1>2, <2>4, <2>5 DEF ClientsInv
<1>4. CASE routes # <<>>
  <2>1. Try(c, routes, 1)
    BY <1>4 DEF ReadRoutes
  <2>2. Len(tried[c]) < Len(routes) /\ IsPrefixOf(tried[c], routes)
    BY <1>1, <1>4, NothingTriedIsPrefix
  <2>3. OnItsWalk(c)' /\ routes[1] \in Routes
    BY <1>1, <1>2, <2>1, <2>2, TryKeepsWalk
  <2>4. ClientsTyped'
    BY <1>1, <1>2, <2>1, <2>3 DEF ClientsTyped, Stages, Try, Goes
  <2>5. \A d \in Clients : OnItsWalk(d)'
    BY <1>1, <1>2, <2>1, <2>3, OthersStay DEF ClientsTyped, Try, Goes
  <2> QED BY <1>2, <2>4, <2>5 DEF ClientsInv
<1> QED BY <1>3, <1>4

LEMMA GivingUpKeepsWalks ==
    ASSUME ClientsInv, NEW c \in Clients, AttemptIsGivenUp(c)
    PROVE  ClientsInv'
<1> DEFINE w == walk[c]
<1>1. /\ ClientsTyped /\ w \in Seq(Routes) /\ tried[c] \in Seq(Routes)
      /\ Len(tried[c]) = rank[c] /\ IsPrefixOf(tried[c], w) /\ OnItsWalk(c)
  BY DEF ClientsInv, ClientsTyped, OnItsWalk, AttemptIsGivenUp
<1>2. UNCHANGED <<routes, walk, asked>>
  BY DEF AttemptIsGivenUp
<1>3. CASE rank[c] < Len(w)
  <2>1. Try(c, w, Len(tried[c]) + 1)
    BY <1>1, <1>3 DEF AttemptIsGivenUp
  <2>2. OnItsWalk(c)' /\ w[Len(tried[c]) + 1] \in Routes
    BY <1>1, <1>2, <1>3, <2>1, TryKeepsWalk
  <2>3. ClientsTyped'
    BY <1>1, <1>2, <2>1, <2>2 DEF ClientsTyped, Stages, Try, Goes
  <2>4. \A d \in Clients : OnItsWalk(d)'
    BY <1>1, <1>2, <2>1, <2>2, OthersStay DEF ClientsTyped, Try, Goes
  <2> QED BY <1>2, <2>3, <2>4 DEF ClientsInv
<1>4. CASE ~(rank[c] < Len(w))
  <2>1. stage' = [stage EXCEPT ![c] = "fallback"] /\ UNCHANGED <<rank, tried>>
    BY <1>4 DEF AttemptIsGivenUp, Goes
  <2>2. Len(tried[c]) = Len(w)
    BY <1>1, <1>4 DEF IsPrefixOf
  <2>3. stage'[c] = "fallback" /\ tried'[c] = tried[c] /\ walk'[c] = w
    BY <1>1, <1>2, <2>1 DEF ClientsTyped
  <2>4. OnItsWalk(c)'
    BY <1>1, <2>2, <2>3 DEF OnItsWalk, IsPrefixOf
  <2>5. ClientsTyped'
    BY <1>1, <1>2, <2>1 DEF ClientsTyped, Stages
  <2>6. \A d \in Clients : OnItsWalk(d)'
    BY <1>1, <1>2, <2>1, <2>4, OthersStay DEF ClientsTyped
  <2> QED BY <1>2, <2>5, <2>6 DEF ClientsInv
<1> QED BY <1>3, <1>4

\* The other steps of a client's task.
LEMMA OtherTaskSteps ==
    ASSUME ClientsInv, NEW c \in Clients,
           \/ Arrives(c) \/ IsAccepted(c) \/ NotAccepted(c)
           \/ ComesUp(c) \/ StaticFails(c) \/ TunnelEnds(c)
    PROVE  ClientsInv'
<1> DEFINE there == stage'[c]
<1>1. /\ stage' = [stage EXCEPT ![c] = there] /\ there \in Stages
      /\ \/ there \in {"greeting", "asking", "dialing"} /\ stage[c] \in {"away", "greeting"}
         \/ there \in {"tunneling", "closed"}
      /\ UNCHANGED <<routes, walk, rank, asked, tried>>
  BY DEF ClientsInv, ClientsTyped, Stages, Goes, Arrives, IsAccepted, NotAccepted, ComesUp,
     StaticFails, TunnelEnds
<1>2. stage' \in [Clients -> Stages] /\ routes' \in Seq(Routes)
  BY <1>1 DEF ClientsInv, ClientsTyped
<1>3. \A d \in Clients \ {c} : stage'[d] = stage[d]
  BY <1>1 DEF ClientsInv, ClientsTyped
<1> HIDE DEF there
<1> QED BY <1>1, <1>2, <1>3, NobodyTries DEF there

LEMMA ClientsNext == SnapshotInv /\ ClientsInv /\ [FetchNext]_fetchVars => ClientsInv'
<1> SUFFICES ASSUME SnapshotInv, ClientsInv, [FetchNext]_fetchVars PROVE ClientsInv'
  OBVIOUS
<1> USE DEF mainVars, crawlVars, exchange, clientVars
<1>0. routes \in Seq(Routes) /\ stage \in [Clients -> Stages]
  BY DEF ClientsInv, ClientsTyped
<1>1. CASE UNCHANGED fetchVars
  BY <1>0, <1>1, NobodyTries DEF fetchVars
<1>2. ASSUME NEW c \in Clients, Tunnels(c) PROVE ClientsInv'
  BY <1>2, ReadRoutesKeepsWalks, GivingUpKeepsWalks, OtherTaskSteps DEF Tunnels
<1>3. CASE Start \/ RelayStops
  BY <1>0, <1>3, NobodyTries DEF Start, RelayStops
<1>4. CASE StartFails \/ FrontStops
  <2>1. /\ stage' = [c \in Clients |-> IF stage[c] = "away" THEN "away" ELSE "closed"]
        /\ routes' = <<>> /\ UNCHANGED <<walk, rank, asked, tried>>
    BY <1>4 DEF StartFails, FrontStops, ProcessEnds
  <2>2. stage' \in [Clients -> Stages] /\ routes' \in Seq(Routes)
    BY <2>1 DEF Stages
  <2> QED BY <1>0, <2>1, <2>2, NobodyTries
<1>5. CASE NetworkNext
  BY <1>0, <1>5, NobodyTries DEF NetworkNext, ViewChanges, CrawlGoes, CrawlComes, LineIsCut,
     LossIsNoticed, CrawlSends
<1>6. CASE PollDials \/ PollFails \/ PollReceives \/ PollAgain \/ \E l \in reports : AddLink(l)
  BY <1>0, <1>6, NobodyTries DEF PollDials, PollFails, PollReceives, PollAgain, AddLink
<1>7. CASE Publish
  <2>1. routes' \in Seq(Routes)
    BY <1>7, PlansAreRoutes DEF Publish, SnapshotInv
  <2> QED BY <1>0, <1>7, <2>1, NobodyTries DEF Publish
<1> QED BY <1>1, <1>2, <1>3, <1>4, <1>5, <1>6, <1>7 DEF FetchNext, MainNext, PollStep

LEMMA ClientsInvMeans == ClientsInv => WalksOnePlan
BY DEF ClientsInv, OnItsWalk, IsPrefixOf, WalksOnePlan

\* Whatever the views, the plans and the clients: a client tries the routes
\* that were shared when it asked, in their order and each once, and falls back
\* only when all of them have failed.
THEOREM FetchWalksOnePlan == FetchSpec => []WalksOnePlan
BY SnapshotInit, SnapshotNext, ClientsInit, ClientsNext, ClientsInvMeans, PTL DEF FetchSpec
=============================================================================

-------------------------- MODULE HeadRequestProofs --------------------------
(***************************************************************************)
(* A request is taken at most once, whatever the hosts, the routes and the *)
(* number of requests.  The argument is about the connection's task: there *)
(* is none before the handler stops trying candidates, so nothing has been *)
(* written until then, and after that the candidate in use never changes.  *)
(*                                                                         *)
(* And it goes to the best of the planned routes that comes up: the front  *)
(* walks the list it decided on in order, the list is the planner's answer *)
(* (PlannerProofs), and neither changes once the decision is taken.        *)
(***************************************************************************)
EXTENDS HeadRequest, PlannerProofs

\* The list that is walked is a sequence, of whatever its candidates are.
IsList(s) == Len(s) \in Nat /\ DOMAIN s = 1..Len(s)

Stages == {"deciding", "connecting", "forwarding", "waiting", "answered", "dropped"}

FrontTypeOK ==
    /\ serving \in [Requests -> Stages]
    /\ DOMAIN decision = Requests
    /\ attempt \in [Requests -> Nat \ {0}]
    /\ failed \in [Requests -> SUBSET Nat]
    /\ task \in [Requests -> {"none", "driving", "ended"}]
    /\ written \in [Requests -> SUBSET Nat]
    /\ taken \in [Requests -> SUBSET Nat]
    /\ reply \in [Requests -> {"none", "unreachable", "bad_gateway", "response"}]

\* The list that is walked is one, and the walk is on it.
Walkable(r) ==
    IF serving[r] = "deciding"
       THEN decision[r] = Undecided /\ attempt[r] = 1
       ELSE IsList(Candidates(r)) /\ attempt[r] <= Len(Candidates(r))

\* A connection has a task from when the request is handed to it.
TaskFollows(r) ==
    /\ serving[r] \in {"deciding", "connecting", "forwarding"} => task[r] = "none"
    /\ serving[r] = "waiting" => task[r] # "none"
    /\ serving[r] \in Stages \ {"answered"} => reply[r] = "none"

\* The candidates before the one being tried have failed, and no other but the
\* last of a list that has been walked to its end.
WalkIsInOrder(r) ==
    \/ failed[r] = 1..(attempt[r] - 1) /\ reply[r] # "unreachable"
    \/ /\ serving[r] = "answered" /\ task[r] = "none"
       /\ failed[r] = 1..attempt[r] /\ attempt[r] >= Len(Candidates(r))

\* Only the last connection was ever written to.
OneConnection(r) ==
    /\ written[r] \subseteq {attempt[r]}
    /\ task[r] = "none" => written[r] = {}
    /\ taken[r] \subseteq written[r]

IInv ==
    /\ FrontTypeOK
    /\ \A r \in Requests : Walkable(r) /\ TaskFollows(r) /\ WalkIsInOrder(r) /\ OneConnection(r)

-----------------------------------------------------------------------------
\* A decision offers a list that is not empty: the default policy answers if no
\* other does.  It is the planner's own if that is the reason it gives.
LEMMA DecisionOffers ==
    ASSUME NEW name, NEW routes, IsList(routes)
    PROVE  LET made == Decision(name, routes)
           IN  /\ IsList(made.candidates) /\ 1 <= Len(made.candidates)
               /\ made.reason = "graph_route" => name \in NodeMap /\ made.candidates = routes
<1> DEFINE P(i) == /\ Offer(Policies[i], name, routes) # <<>>
                   /\ \A j \in 1..(i - 1) : Offer(Policies[j], name, routes) = <<>>
<1> DEFINE first == CHOOSE i \in DOMAIN Policies : P(i)
<1>1. DOMAIN Policies = {1, 2, 3} /\ Policies[1] = "graph_route"
      /\ Policies[2] = "host_map" /\ Policies[3] = "default"
  BY DEF Policies
<1>2. Offer("default", name, routes) = <<DefaultBackend>>
  BY DEF Offer
<1>3. \E i \in DOMAIN Policies : P(i)
  <2>1. CASE Offer(Policies[1], name, routes) # <<>>
    BY <1>1, <2>1
  <2>2. CASE Offer(Policies[1], name, routes) = <<>> /\ Offer(Policies[2], name, routes) # <<>>
    <3>1. \A j \in 1..(2 - 1) : j = 1
      OBVIOUS
    <3>2. P(2)
      BY <2>2, <3>1
    <3> QED BY <3>2, <1>1
  <2>3. CASE Offer(Policies[1], name, routes) = <<>> /\ Offer(Policies[2], name, routes) = <<>>
    <3>1. \A j \in 1..(3 - 1) : j = 1 \/ j = 2
      OBVIOUS
    <3>2. Offer(Policies[3], name, routes) # <<>>
      BY <1>1, <1>2
    <3>3. P(3)
      BY <2>3, <3>1, <3>2
    <3> QED BY <3>3, <1>1
  <2> QED BY <2>1, <2>2, <2>3
<1>4. first \in {1, 2, 3} /\ Offer(Policies[first], name, routes) # <<>>
  <2>1. first \in DOMAIN Policies /\ P(first)
    BY <1>3
  <2> HIDE DEF first
  <2> QED BY <1>1, <2>1
<1>5. ASSUME NEW i \in {1, 2, 3}, Offer(Policies[i], name, routes) # <<>>
      PROVE  LET s == Offer(Policies[i], name, routes) IN IsList(s) /\ 1 <= Len(s)
  <2>1. \A s : IsList(s) /\ s # <<>> => 1 <= Len(s)
    BY DEF IsList
  <2>2. \A b : IsList(<<b>>) /\ 1 <= Len(<<b>>)
    BY DEF IsList
  <2>3. \/ Offer(Policies[i], name, routes) = routes
        \/ \E b : Offer(Policies[i], name, routes) = <<b>>
    BY <1>1, <1>5 DEF Offer
  <2> QED BY <1>5, <2>1, <2>2, <2>3
<1> HIDE DEF first
<1>6. /\ Decision(name, routes).candidates = Offer(Policies[first], name, routes)
      /\ Decision(name, routes).reason = Policies[first]
  BY DEF Decision, first
<1>7. Policies[first] = "graph_route" => name \in NodeMap /\ Offer(Policies[first], name, routes) = routes
  BY <1>4 DEF Offer
<1> QED BY <1>4, <1>5, <1>6, <1>7

-----------------------------------------------------------------------------
LEMMA InitInvariant == FrontInit => IInv
<1> SUFFICES ASSUME FrontInit PROVE IInv
  OBVIOUS
<1>1. /\ serving \in [Requests -> Stages] /\ DOMAIN decision = Requests
      /\ task \in [Requests -> {"none", "driving", "ended"}]
      /\ reply \in [Requests -> {"none", "unreachable", "bad_gateway", "response"}]
  BY DEF FrontInit, Stages
<1>2. attempt \in [Requests -> Nat \ {0}]
  BY DEF FrontInit
<1>3. /\ failed \in [Requests -> SUBSET Nat] /\ written \in [Requests -> SUBSET Nat]
      /\ taken \in [Requests -> SUBSET Nat]
  BY DEF FrontInit
<1>4. ASSUME NEW r \in Requests
      PROVE  Walkable(r) /\ TaskFollows(r) /\ WalkIsInOrder(r) /\ OneConnection(r)
  <2>1. 1..(1 - 1) = {}
    OBVIOUS
  <2>2. serving[r] = "deciding" /\ decision[r] = Undecided /\ task[r] = "none" /\ reply[r] = "none"
    BY DEF FrontInit
  <2>3. attempt[r] = 1 /\ failed[r] = {} /\ written[r] = {} /\ taken[r] = {}
    BY DEF FrontInit
  <2> QED BY <2>1, <2>2, <2>3 DEF Walkable, TaskFollows, WalkIsInOrder, OneConnection
<1> QED BY <1>1, <1>2, <1>3, <1>4 DEF IInv, FrontTypeOK

\* What a step that concerns one request leaves of the others.
LEMMA OthersKeepTheirs ==
    ASSUME NEW r \in Requests, NEW q \in Requests, q # r,
           serving'[q] = serving[q], decision'[q] = decision[q],
           attempt'[q] = attempt[q], failed'[q] = failed[q],
           task'[q] = task[q], written'[q] = written[q],
           taken'[q] = taken[q], reply'[q] = reply[q],
           Walkable(q) /\ TaskFollows(q) /\ WalkIsInOrder(q) /\ OneConnection(q)
    PROVE  (Walkable(q) /\ TaskFollows(q) /\ WalkIsInOrder(q) /\ OneConnection(q))'
BY DEF Walkable, TaskFollows, WalkIsInOrder, OneConnection, Candidates

LEMMA DecideInvariant ==
    ASSUME IInv, NEW r \in Requests, NEW routes, IsList(routes), Decide(r, routes)
    PROVE  IInv'
<1> USE DEF IInv
<1>1. FrontTypeOK'
  BY DEF FrontTypeOK, Decide, Stages
<1>2. ASSUME NEW q \in Requests
      PROVE  (Walkable(q) /\ TaskFollows(q) /\ WalkIsInOrder(q) /\ OneConnection(q))'
  <2>1. CASE q # r
    BY <2>1, OthersKeepTheirs DEF Decide, FrontTypeOK
  <2>2. CASE q = r
    <3>1. decision'[r] = Decision(host[r], routes) /\ serving'[r] = "connecting"
      BY DEF Decide, FrontTypeOK
    <3>2. Walkable(r)'
      <4>1. LET s == Decision(host[r], routes).candidates IN IsList(s) /\ 1 <= Len(s)
        BY DecisionOffers
      <4>2. attempt'[r] = 1
        BY DEF Decide, Walkable
      <4> QED BY <3>1, <4>1, <4>2 DEF Walkable, Candidates
    <3>3. TaskFollows(r)'
      BY <3>1 DEF Decide, TaskFollows, Stages
    <3>4. WalkIsInOrder(r)'
      BY <3>1 DEF Decide, WalkIsInOrder
    <3>5. OneConnection(r)'
      BY DEF Decide, OneConnection
    <3> QED BY <2>2, <3>2, <3>3, <3>4, <3>5
  <2> QED BY <2>1, <2>2
<1> QED BY <1>1, <1>2

LEMMA AttemptFailsInvariant ==
    ASSUME IInv, NEW r \in Requests, AttemptFails(r)
    PROVE  IInv'
<1> USE DEF IInv
<1> DEFINE a == attempt[r]
<1>0. a \in Nat \ {0} /\ failed[r] = 1..(a - 1) /\ task[r] = "none" /\ reply[r] = "none"
  BY DEF FrontTypeOK, AttemptFails, WalkIsInOrder, TaskFollows, Stages
<1>1. FrontTypeOK'
  <2>1. failed' = [failed EXCEPT ![r] = @ \cup {a}]
    BY DEF AttemptFails, Fail
  <2>2. failed' \in [Requests -> SUBSET Nat]
    BY <2>1, <1>0 DEF FrontTypeOK
  <2>3. attempt' = attempt \/ attempt' = [attempt EXCEPT ![r] = a + 1]
    BY DEF AttemptFails
  <2>4. a + 1 \in Nat \ {0}
    BY <1>0
  <2>5. attempt' \in [Requests -> Nat \ {0}]
    BY <2>3, <2>4 DEF FrontTypeOK
  <2>6. serving' \in [Requests -> Stages] /\ reply' \in [Requests -> {"none", "unreachable", "bad_gateway", "response"}]
    BY DEF AttemptFails, Answer, FrontTypeOK, Stages
  <2> QED BY <2>2, <2>5, <2>6 DEF FrontTypeOK, AttemptFails
<1>2. failed'[r] = 1..a
  <2>1. failed'[r] = (1..(a - 1)) \cup {a}
    BY <1>0 DEF AttemptFails, Fail, FrontTypeOK
  <2>2. (1..(a - 1)) \cup {a} = 1..a
    BY <1>0
  <2> QED BY <2>1, <2>2
<1>3. Candidates(r)' = Candidates(r) /\ task'[r] = "none" /\ written'[r] = {} /\ taken'[r] = {}
  BY <1>0 DEF AttemptFails, Candidates, OneConnection
<1>4. IsList(Candidates(r)) /\ Len(Candidates(r)) \in Nat /\ a <= Len(Candidates(r))
  BY DEF Walkable, AttemptFails, IsList
<1>5. (Walkable(r) /\ TaskFollows(r) /\ WalkIsInOrder(r) /\ OneConnection(r))'
  <2>1. CASE a < Len(Candidates(r))
    <3>1. attempt'[r] = a + 1 /\ serving' = serving /\ reply' = reply
      BY <2>1 DEF AttemptFails, FrontTypeOK
    <3>2. failed'[r] = 1..(attempt'[r] - 1) /\ attempt'[r] <= Len(Candidates(r))
      BY <1>0, <1>2, <1>4, <2>1, <3>1
    <3> QED BY <1>0, <1>3, <1>4, <3>1, <3>2
            DEF Walkable, TaskFollows, WalkIsInOrder, OneConnection, AttemptFails
  <2>2. CASE ~(a < Len(Candidates(r)))
    <3>1. /\ attempt'[r] = a /\ serving'[r] = "answered"
          /\ reply'[r] = "unreachable" /\ a >= Len(Candidates(r))
      BY <2>2, <1>0, <1>4 DEF AttemptFails, Answer, FrontTypeOK
    <3> QED BY <1>2, <1>3, <1>4, <3>1
            DEF Walkable, TaskFollows, WalkIsInOrder, OneConnection, Stages
  <2> QED BY <2>1, <2>2
<1>6. ASSUME NEW q \in Requests, q # r
      PROVE  (Walkable(q) /\ TaskFollows(q) /\ WalkIsInOrder(q) /\ OneConnection(q))'
  BY <1>6, OthersKeepTheirs DEF AttemptFails, Fail, Answer, FrontTypeOK
<1> QED BY <1>1, <1>5, <1>6
-----------------------------------------------------------------------------
\* The other steps leave the walk alone: same candidate, same failures.

LEMMA HandlerInvariant ==
    ASSUME IInv, NEW r \in Requests,
           Connected(r) \/ Send(r) \/ HandshakeFails(r) \/ Responds(r) \/ ForwardFails(r) \/ ClientLeaves(r)
    PROVE  IInv'
<1> USE DEF IInv
<1>1. /\ decision' = decision /\ attempt' = attempt /\ failed' = failed
      /\ written' = written /\ taken' = taken
  BY DEF Connected, Send, HandshakeFails, Responds, ForwardFails, ClientLeaves
<1>2. FrontTypeOK'
  BY <1>1 DEF FrontTypeOK, Stages, Connected, Send, HandshakeFails, Responds, ForwardFails, ClientLeaves, Answer
<1>3. /\ serving[r] # "deciding" /\ serving[r] # "answered"
      /\ Candidates(r)' = Candidates(r)
  BY <1>1 DEF Connected, Send, HandshakeFails, Responds, ForwardFails, ClientLeaves, Candidates
<1>4. failed[r] = 1..(attempt[r] - 1)
  BY <1>3 DEF WalkIsInOrder
<1>5. (Walkable(r) /\ OneConnection(r))'
  <2>1. task'[r] = "none" => task[r] = "none"
    BY DEF Connected, Send, HandshakeFails, Responds, ForwardFails, ClientLeaves, FrontTypeOK
  <2>2. serving'[r] # "deciding"
    BY DEF Connected, Send, HandshakeFails, Responds, ForwardFails, ClientLeaves, Answer, FrontTypeOK
  <2> QED BY <1>1, <1>3, <2>1, <2>2 DEF Walkable, OneConnection
<1>6. TaskFollows(r)' /\ reply'[r] # "unreachable"
  <2>1. CASE Connected(r)
    BY <2>1 DEF Connected, TaskFollows, FrontTypeOK, Stages
  <2>2. CASE Send(r)
    BY <2>2 DEF Send, TaskFollows, FrontTypeOK, Stages
  <2>3. CASE HandshakeFails(r) \/ Responds(r) \/ ForwardFails(r)
    <3>1. serving'[r] = "answered" /\ reply'[r] \in {"bad_gateway", "response"}
      BY <2>3 DEF HandshakeFails, Responds, ForwardFails, Answer, FrontTypeOK
    <3> QED BY <3>1 DEF TaskFollows, Stages
  <2>4. CASE ClientLeaves(r)
    <3>1. serving'[r] = "dropped" /\ reply'[r] = "none"
      BY <2>4 DEF ClientLeaves, TaskFollows, FrontTypeOK, Stages
    <3> QED BY <3>1 DEF TaskFollows
  <2> QED BY <2>1, <2>2, <2>3, <2>4
<1>7. WalkIsInOrder(r)'
  BY <1>1, <1>4, <1>6 DEF WalkIsInOrder
<1>8. ASSUME NEW q \in Requests, q # r
      PROVE  (Walkable(q) /\ TaskFollows(q) /\ WalkIsInOrder(q) /\ OneConnection(q))'
  BY <1>1, <1>8, OthersKeepTheirs
     DEF Connected, Send, HandshakeFails, Responds, ForwardFails, ClientLeaves, Answer, FrontTypeOK
<1> QED BY <1>2, <1>5, <1>6, <1>7, <1>8

LEMMA DriveInvariant ==
    ASSUME IInv, NEW r \in Requests, Drive(r)
    PROVE  IInv'
<1> USE DEF IInv
<1>1. UNCHANGED handlerVars
  BY DEF Drive, Write, TaskEnds, BackendTakes
<1>2. /\ serving' = serving /\ decision' = decision /\ attempt' = attempt
      /\ failed' = failed /\ reply' = reply
  BY <1>1 DEF handlerVars
<1>3. Candidates(r)' = Candidates(r) /\ attempt[r] \in Nat
  BY <1>2 DEF Candidates, FrontTypeOK
<1>4. /\ task[r] = "none" => task'[r] = "none" /\ written'[r] = written[r]
      /\ task'[r] = "none" => task[r] = "none"
      /\ written'[r] \subseteq written[r] \cup {attempt[r]} /\ written[r] \subseteq written'[r]
      /\ taken'[r] \subseteq taken[r] \cup written[r]
      /\ \A q \in Requests : q # r => /\ task'[q] = task[q] /\ written'[q] = written[q]
                                     /\ taken'[q] = taken[q]
  <2>1. CASE Write(r)
    BY <2>1 DEF Write, FrontTypeOK
  <2>2. CASE TaskEnds(r)
    BY <2>2 DEF TaskEnds, FrontTypeOK
  <2>3. ASSUME NEW i \in written[r], BackendTakes(r, i)
        PROVE  <1>4!1 /\ <1>4!2 /\ <1>4!3 /\ <1>4!4 /\ <1>4!5
    BY <2>3 DEF BackendTakes, FrontTypeOK
  <2> QED BY <2>1, <2>2, <2>3 DEF Drive
<1>5. FrontTypeOK'
  <2>1. CASE Write(r)
    BY <1>2, <1>3, <2>1 DEF Write, FrontTypeOK
  <2>2. CASE TaskEnds(r)
    BY <1>2, <2>2 DEF TaskEnds, FrontTypeOK
  <2>3. ASSUME NEW i \in written[r], BackendTakes(r, i)
        PROVE  FrontTypeOK'
    BY <1>2, <2>3 DEF BackendTakes, FrontTypeOK
  <2> QED BY <2>1, <2>2, <2>3 DEF Drive
<1>6. (Walkable(r) /\ TaskFollows(r))'
  BY <1>2, <1>3, <1>4 DEF Walkable, TaskFollows
<1>7. WalkIsInOrder(r)'
  BY <1>2, <1>3, <1>4 DEF WalkIsInOrder
<1>8. OneConnection(r)'
  BY <1>2, <1>4 DEF OneConnection
<1>9. ASSUME NEW q \in Requests, q # r
      PROVE  (Walkable(q) /\ TaskFollows(q) /\ WalkIsInOrder(q) /\ OneConnection(q))'
  BY <1>2, <1>4, <1>9, OthersKeepTheirs
<1> QED BY <1>5, <1>6, <1>7, <1>8, <1>9

LEMMA StepInvariant == IInv /\ [FrontNext]_frontVars => IInv'
<1> SUFFICES ASSUME IInv, [FrontNext]_frontVars PROVE IInv'
  OBVIOUS
<1>1. ASSUME NEW r \in Requests, Handle(r) PROVE IInv'
  BY <1>1, AttemptFailsInvariant, HandlerInvariant DEF Handle
<1>2. ASSUME NEW r \in Requests, Drive(r) PROVE IInv'
  BY <1>2, DriveInvariant
<1>3. ASSUME NEW r \in Requests, NEW routes \in Seq(Routes), Decide(r, routes) PROVE IInv'
  <2>1. IsList(routes)
    BY DEF IsList
  <2> QED BY <1>3, <2>1, DecideInvariant
<1>4. CASE UNCHANGED frontVars
  BY <1>4 DEF frontVars, handlerVars, IInv, FrontTypeOK, Walkable, TaskFollows,
              WalkIsInOrder, OneConnection, Candidates
<1> QED BY <1>1, <1>2, <1>3, <1>4 DEF FrontNext, FrontStep

LEMMA Inductive == FrontSpec => []IInv
BY InitInvariant, StepInvariant, PTL DEF FrontSpec

-----------------------------------------------------------------------------
\* What the invariant is for.
LEMMA TakesOnce == IInv => TakenAtMostOnce
<1> SUFFICES ASSUME IInv, NEW r \in Requests
             PROVE  (\A i, j \in taken[r] : i = j) /\ taken[r] \cap failed[r] = {}
  BY DEF TakenAtMostOnce
<1>1. taken[r] \subseteq {attempt[r]} /\ (task[r] = "none" => taken[r] = {})
  BY DEF IInv, OneConnection
<1>2. attempt[r] \notin 1..(attempt[r] - 1)
  BY DEF IInv, FrontTypeOK
<1>3. task[r] # "none" => attempt[r] \notin failed[r]
  BY <1>2 DEF IInv, WalkIsInOrder
<1> QED BY <1>1, <1>3

LEMMA GivesUpLast == IInv => \A r \in Requests : NoneLeftUntried(r)
<1> SUFFICES ASSUME IInv, NEW r \in Requests, reply[r] = "unreachable"
             PROVE  DOMAIN Candidates(r) \subseteq failed[r]
  BY DEF NoneLeftUntried
<1>1. /\ serving[r] = "answered" /\ failed[r] = 1..attempt[r]
      /\ attempt[r] >= Len(Candidates(r))
  BY DEF IInv, WalkIsInOrder
<1>2. IsList(Candidates(r)) /\ attempt[r] \in Nat
  BY <1>1 DEF IInv, Walkable, FrontTypeOK
<1>3. DOMAIN Candidates(r) = 1..Len(Candidates(r)) /\ Len(Candidates(r)) \in Nat
  BY <1>2 DEF IsList
<1> QED BY <1>1, <1>2, <1>3

\* A request is taken by one backend at most and once at most, and never by
\* one whose attempt Head reckons has failed: whatever the number of
\* candidates, and whether the client is answered, waiting or gone.
THEOREM FrontTakenAtMostOnce == FrontSpec => []TakenAtMostOnce
BY TakesOnce, Inductive, PTL

\* A request that Head gives up for want of a connection has had an attempt at
\* every candidate of its decision.
THEOREM FrontLeavesNoneUntried == FrontSpec => [](\A r \in Requests : NoneLeftUntried(r))
BY GivesUpLast, Inductive, PTL

-----------------------------------------------------------------------------
(* With the planner.                                                       *)

\* The planner's last stage is the last: its answer stays as it is.
LEMMA AnswerStays ==
    ASSUME stage = "ranked"
    PROVE  ~Next
BY DEF Next, NextTarget, Relax, Ended, Reached, NoRoute, FirstRoute, Divert, SpurEnds, Choose,
       PlanEnds, Rank

\* A request whose routes were planned walks the planner's answer.
WalksThePlan(r) ==
    serving[r] # "deciding" /\ decision[r].reason = "graph_route" =>
        stage = "ranked" /\ Candidates(r) = answer

RequestInv == PlannerInv /\ IInv /\ \A r \in Requests : WalksThePlan(r)

LEMMA RequestStarts == RequestInit => RequestInv
<1> SUFFICES ASSUME RequestInit PROVE RequestInv
  OBVIOUS
<1>1. PlannerInv /\ IInv
  BY PlannerStarts, InitInvariant DEF RequestInit
<1>2. \A r \in Requests : serving[r] = "deciding"
  BY DEF RequestInit, FrontInit
<1> QED BY <1>1, <1>2 DEF RequestInv, WalksThePlan

\* Planning goes on only while what is planned for has not been decided.
LEMMA PlanForKeeps ==
    ASSUME RequestInv, NEW r \in Requests, PlanFor(r)
    PROVE  RequestInv'
<1>1. Next /\ UNCHANGED frontVars
  BY DEF PlanFor
<1>2. PlannerInv'
  BY <1>1, PlannerKeeps DEF RequestInv
<1>3. IInv'
  BY <1>1, StepInvariant DEF RequestInv
<1>4. stage # "ranked"
  BY <1>1, AnswerStays
<1>5. \A q \in Requests : serving[q] = "deciding" \/ decision[q].reason # "graph_route"
  BY <1>4 DEF RequestInv, WalksThePlan
<1>6. \A q \in Requests : WalksThePlan(q)'
  BY <1>1, <1>5 DEF WalksThePlan, frontVars, handlerVars
<1> QED BY <1>2, <1>3, <1>6 DEF RequestInv

\* Who is decided on by the routes that were planned has waited for them.
LEMMA DecideNowKeeps ==
    ASSUME RequestInv, NEW r \in Requests, DecideNow(r)
    PROVE  RequestInv'
<1>1. /\ Decide(r, answer) /\ UNCHANGED vars
      /\ host[r] \in NodeMap => stage = "ranked"
  BY DEF DecideNow, Mapped
<1>2. PlannerInv'
  BY <1>1, PlannerStutters DEF RequestInv
<1>3. IsList(answer)
  <2>1. answer \in Seq(Paths)
    BY DEF RequestInv, PlannerInv, PlannerTypeOK
  <2> QED BY <2>1 DEF IsList
<1>4. IInv'
  BY <1>1, <1>3, DecideInvariant DEF RequestInv
<1>5. ASSUME NEW q \in Requests
      PROVE  WalksThePlan(q)'
  <2>1. stage' = stage /\ answer' = answer
    BY <1>1 DEF vars
  <2>2. CASE q # r
    BY <1>1, <2>1, <2>2 DEF RequestInv, WalksThePlan, Decide, Candidates, IInv, FrontTypeOK
  <2>3. CASE q = r
    <3>1. decision'[r] = Decision(host[r], answer)
      BY <1>1 DEF Decide, RequestInv, IInv, FrontTypeOK
    <3>2. LET made == Decision(host[r], answer)
          IN  made.reason = "graph_route" => host[r] \in NodeMap /\ made.candidates = answer
      BY <1>3, DecisionOffers
    <3> QED BY <1>1, <2>1, <2>3, <3>1, <3>2 DEF WalksThePlan, Candidates
  <2> QED BY <2>2, <2>3
<1> QED BY <1>2, <1>4, <1>5 DEF RequestInv

\* What the front does leaves the planner and the decisions alone.
LEMMA FrontStepKeeps ==
    ASSUME RequestInv, FrontStep, UNCHANGED vars
    PROVE  RequestInv'
<1>1. PlannerInv'
  BY PlannerStutters DEF RequestInv
<1>2. IInv'
  BY StepInvariant DEF RequestInv, FrontNext
<1>3. PICK r \in Requests : Handle(r) \/ Drive(r)
  BY DEF FrontStep
<1>4. decision' = decision
  BY <1>3 DEF Handle, Connected, AttemptFails, Send, HandshakeFails, Responds, ForwardFails, ClientLeaves,
              Drive, Write, TaskEnds, BackendTakes, handlerVars
<1>5. \A q \in Requests : serving'[q] # "deciding" => serving[q] # "deciding"
  <2>1. \A q \in Requests : serving'[q] = serving[q] \/ serving[q] # "deciding"
    BY <1>3 DEF Handle, Connected, AttemptFails, Send, HandshakeFails, Responds, ForwardFails, ClientLeaves,
                Drive, Write, TaskEnds, BackendTakes, handlerVars, Answer,
                RequestInv, IInv, FrontTypeOK
  <2> QED BY <2>1
<1>6. stage' = stage /\ answer' = answer
  BY DEF vars
<1>7. \A q \in Requests : WalksThePlan(q)'
  BY <1>4, <1>5, <1>6 DEF RequestInv, WalksThePlan, Candidates
<1> QED BY <1>1, <1>2, <1>7 DEF RequestInv

\* The planner's invariant and the front's hold together, and a request that
\* was given planned routes walks the planner's answer, however many requests
\* are served while it is planned.
THEOREM RequestInvHolds == RequestSpec => []RequestInv
<1>1. RequestInit => RequestInv
  BY RequestStarts
<1>2. RequestInv /\ [RequestNext]_requestVars => RequestInv'
  <2> SUFFICES ASSUME RequestInv, [RequestNext]_requestVars PROVE RequestInv'
    OBVIOUS
  <2>1. ASSUME NEW r \in Requests, PlanFor(r) PROVE RequestInv'
    BY <2>1, PlanForKeeps
  <2>2. ASSUME NEW r \in Requests, DecideNow(r) PROVE RequestInv'
    BY <2>2, DecideNowKeeps
  <2>3. CASE FrontStep /\ UNCHANGED vars
    BY <2>3, FrontStepKeeps
  <2>4. CASE UNCHANGED requestVars
    <3>1. UNCHANGED vars /\ UNCHANGED frontVars
      BY <2>4 DEF requestVars
    <3>2. PlannerInv' /\ IInv'
      BY <3>1, PlannerStutters, StepInvariant DEF RequestInv
    <3>3. \A q \in Requests : WalksThePlan(q)'
      BY <3>1 DEF RequestInv, WalksThePlan, Candidates, vars, frontVars, handlerVars
    <3> QED BY <3>2, <3>3 DEF RequestInv
  <2> QED BY <2>1, <2>2, <2>3, <2>4 DEF RequestNext
<1> QED BY <1>1, <1>2, PTL DEF RequestSpec

\* The routes that cost less than the one a request uses were tried before it.
LEMMA CheaperHaveFailed ==
    ASSUME RequestInv, NEW r \in Requests,
           serving[r] # "deciding", decision[r].reason = "graph_route", task[r] # "none"
    PROVE  /\ Used(r) \in ToSet(resolved)
           /\ \A p \in ToSet(resolved) :
                 Cost(p) < Cost(Used(r)) => \E i \in failed[r] : Candidates(r)[i].hops = p.hops
<1>1. stage = "ranked" /\ Candidates(r) = answer /\ PlannerInv
  BY DEF RequestInv, WalksThePlan
<1> DEFINE a == attempt[r]
           n == Len(answer)
<1>2. a \in 1..n /\ n \in 1..n /\ n \in Nat /\ failed[r] = 1..(a - 1)
  <2>1. /\ a \in Nat \ {0} /\ IsList(answer) /\ a <= n
        /\ failed[r] = 1..(a - 1)
    BY <1>1 DEF RequestInv, IInv, FrontTypeOK, Walkable, WalkIsInOrder
  <2>2. n \in Nat
    BY <2>1 DEF IsList
  <2> HIDE DEF a, n
  <2> QED BY <2>1, <2>2
<1>3. /\ answer \in Seq(Paths) /\ ToSet(answer) \subseteq ToSet(resolved)
      /\ Ascending(answer)
      /\ \A p \in ToSet(resolved) :
            \/ \E q \in ToSet(answer) : q.hops = p.hops /\ Cost(q) <= Cost(p)
            \/ Cost(Last(answer)) <= Cost(p)
  BY <1>1, AnswerIs
<1>4. ToSet(answer) = {answer[k] : k \in 1..n} /\ Last(answer) = answer[n]
  BY <1>3, ToSetIs DEF Last
<1>5. \A p \in ToSet(resolved) : Cost(p) \in Nat
  BY <1>1, ResolvedArePriced DEF Priced, ToSet
<1>6. \A k \in 1..n : answer[k] \in ToSet(resolved) /\ Cost(answer[k]) \in Nat
  BY <1>3, <1>4, <1>5
<1>7. Used(r) = answer[a]
  BY <1>1 DEF Used
<1>8. \A k, l \in 1..n : k < l => Cost(answer[k]) <= Cost(answer[l])
  BY <1>3 DEF Ascending
<1> HIDE DEF a, n
<1>9. ASSUME NEW p \in ToSet(resolved), Cost(p) < Cost(answer[a])
      PROVE  \E i \in failed[r] : answer[i].hops = p.hops
  <2>0. Cost(p) \in Nat /\ Cost(answer[a]) \in Nat /\ Cost(answer[n]) \in Nat
    BY <1>2, <1>5, <1>6
  <2>1. ~(Cost(answer[n]) <= Cost(p))
    <3>1. a < n \/ a = n
      BY <1>2
    <3>2. a < n => Cost(answer[a]) <= Cost(answer[n])
      BY <1>2, <1>8
    <3>3. Cost(answer[a]) <= Cost(answer[n])
      BY <2>0, <3>1, <3>2
    <3> QED BY <1>9, <2>0, <3>3
  <2>2. PICK k \in 1..n : answer[k].hops = p.hops /\ Cost(answer[k]) <= Cost(p)
    BY <1>3, <1>4, <2>1
  <2>3. k < a
    <3>1. k = a => FALSE
      BY <1>9, <2>0, <2>2
    <3>2. a < k => FALSE
      <4>1. a < k => Cost(answer[a]) <= Cost(answer[k])
        BY <1>2, <1>8
      <4> QED BY <1>6, <1>9, <2>0, <2>2, <4>1
    <3> QED BY <1>2, <3>1, <3>2
  <2>4. k \in 1..(a - 1)
    BY <1>2, <2>3
  <2> QED BY <1>2, <2>2, <2>4
<1> QED BY <1>1, <1>2, <1>6, <1>7, <1>9

\* A planned request goes to one of the nodes its host is mapped to, over the
\* cheapest of the routes that could be dialed but for those whose attempt
\* failed; and Head gives up for want of a connection only after an attempt at
\* every candidate.
THEOREM RequestTakesBestThatComesUp == RequestSpec => []BestThatComesUp
<1>1. RequestInv => BestThatComesUp
  <2> SUFFICES ASSUME RequestInv, NEW r \in Requests, decision[r] # Undecided
               PROVE  /\ decision[r].reason = "graph_route" /\ task[r] # "none" =>
                           /\ Last(Used(r).hops) \in ToSet(Targets) /\ Walks(Used(r))
                           /\ \A p \in ToSet(resolved) :
                                Cost(p) < Cost(Used(r)) =>
                                    \E i \in failed[r] : Candidates(r)[i].hops = p.hops
                      /\ NoneLeftUntried(r)
    BY DEF BestThatComesUp
  <2>1. NoneLeftUntried(r)
    BY GivesUpLast DEF RequestInv
  <2>2. ASSUME decision[r].reason = "graph_route", task[r] # "none"
        PROVE  /\ Last(Used(r).hops) \in ToSet(Targets) /\ Walks(Used(r))
               /\ \A p \in ToSet(resolved) :
                     Cost(p) < Cost(Used(r)) =>
                         \E i \in failed[r] : Candidates(r)[i].hops = p.hops
    <3>1. serving[r] # "deciding"
      BY DEF RequestInv, IInv, Walkable
    <3>2. /\ Used(r) \in ToSet(resolved)
          /\ \A p \in ToSet(resolved) :
                Cost(p) < Cost(Used(r)) => \E i \in failed[r] : Candidates(r)[i].hops = p.hops
      BY <2>2, <3>1, CheaperHaveFailed
    <3>3. Walk(Adjacency, Used(r)) /\ Last(Used(r).hops) \in ToSet(Targets)
      BY <3>2 DEF RequestInv, PlannerInv, AnswerInv
    <3> QED BY <3>2, <3>3, WalkWalks
  <2> QED BY <2>1, <2>2
<1> QED BY <1>1, RequestInvHolds, PTL

\* With the planner as without: a request is taken at most once, and never by a
\* backend whose attempt failed.
THEOREM RequestTakenAtMostOnce == RequestSpec => []TakenAtMostOnce
BY RequestInvHolds, TakesOnce, PTL DEF RequestInv

\* And while requests come and go, what is planned for them is sound, the best
\* there is and in order.
THEOREM RequestPlansAreBest ==
    RequestSpec => [](RoutesAreSound /\ PlanIsBest /\ AnswerIsRanked)
BY RequestInvHolds, HeldAreSound, PlanIsComplete, AnswerIsInOrder, PTL DEF RequestInv
=============================================================================

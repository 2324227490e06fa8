------------------------------- MODULE Front --------------------------------
(***************************************************************************)
(* Head's HTTP front: a request is decided on (head/decision.rs), the      *)
(* candidates of the decision are tried in turn until a connection to one  *)
(* is up (http.rs connect_backend), the request is written to it and the   *)
(* response streamed back (proxy.rs forward).                              *)
(*                                                                         *)
(* A handler and the task that drives its backend connection are two       *)
(* tasks: the handler may have answered, or gone with its client, while    *)
(* the other still writes.  A connection is named by the candidate it was  *)
(* opened to, by its place in the list.  How an attempt fails is Chain's   *)
(* subject; headers and bodies are left out.                               *)
(***************************************************************************)
EXTENDS Naturals, Sequences

CONSTANTS
    Requests,
    Hosts,          \* what a Host header may say
    NoHost,         \* a request that names none
    NodeMap,        \* the hosts [graph] maps to nodes, {} without [graph]
    HostMap,        \* host -> backend, routing.host_map
    DefaultBackend, \* routing.default_backend
    Routes,         \* what may be planned
    Undecided

VARIABLES
    host,       \* request -> the host it names
    serving,    \* request -> where its handler is
    decision,   \* request -> the decision taken
    attempt,    \* request -> the candidate being tried, or tried last
    failed,     \* history: request -> the candidates whose attempt failed
    task,       \* request -> the task that drives its connection
    written,    \* request -> the connections it was written to
    taken,      \* history: request -> the connections a backend took it from
    reply       \* request -> what its client is answered: "response", or one of
                \* two kinds of 502, "unreachable" and "bad_gateway"

handlerVars == <<host, serving, decision, attempt, failed, reply>>
frontVars == <<handlerVars, task, written, taken>>

-----------------------------------------------------------------------------
\* What decides.

Policies == <<"graph_route", "host_map", "default">>

\* The candidates a policy offers for a host when these routes lead to the
\* nodes it is mapped to; none when it declines.
Offer(policy, name, routes) ==
    CASE policy = "graph_route" -> IF name \in NodeMap THEN routes ELSE <<>>
      [] policy = "host_map" -> IF name \in DOMAIN HostMap THEN <<HostMap[name]>> ELSE <<>>
      [] policy = "default" -> <<DefaultBackend>>

\* DecisionEngine::decide: the first policy that answers.
Decision(name, routes) ==
    LET first == CHOOSE i \in DOMAIN Policies :
                    /\ Offer(Policies[i], name, routes) # <<>>
                    /\ \A j \in 1..(i - 1) : Offer(Policies[j], name, routes) = <<>>
    IN  [reason |-> Policies[first], candidates |-> Offer(Policies[first], name, routes)]

Candidates(r) == decision[r].candidates

-----------------------------------------------------------------------------
FrontInit ==
    /\ host \in [Requests -> Hosts \cup {NoHost}]
    /\ serving = [r \in Requests |-> "deciding"]
    /\ decision = [r \in Requests |-> Undecided]
    /\ attempt = [r \in Requests |-> 1]
    /\ failed = [r \in Requests |-> {}]
    /\ task = [r \in Requests |-> "none"]
    /\ written = [r \in Requests |-> {}]
    /\ taken = [r \in Requests |-> {}]
    /\ reply = [r \in Requests |-> "none"]

\* The decision is taken once, from the routes there are now.
Decide(r, routes) ==
    /\ serving[r] = "deciding"
    /\ decision' = [decision EXCEPT ![r] = Decision(host[r], routes)]
    /\ serving' = [serving EXCEPT ![r] = "connecting"]
    /\ UNCHANGED <<host, attempt, failed, reply, task, written, taken>>

Answer(r, what) ==
    /\ serving' = [serving EXCEPT ![r] = "answered"]
    /\ reply' = [reply EXCEPT ![r] = what]

-----------------------------------------------------------------------------
\* connect_backend: a chain to each candidate in turn, or a direct dial to the
\* only one there is.

Connected(r) ==
    /\ serving[r] = "connecting"
    /\ serving' = [serving EXCEPT ![r] = "forwarding"]
    /\ UNCHANGED <<host, decision, attempt, failed, reply, task, written, taken>>

Fail(r) == failed' = [failed EXCEPT ![r] = @ \cup {attempt[r]}]

\* Mutation: an attempt that fails fails the request.
FirstAttemptDecides(r) ==
    /\ serving[r] = "connecting"
    /\ Fail(r) /\ Answer(r, "unreachable")
    /\ UNCHANGED <<host, decision, attempt, task, written, taken>>

\* An attempt fails or takes longer than attempt_timeout: the next one is
\* tried, until there is none.
AttemptFails(r) ==
    /\ serving[r] = "connecting"
    /\ Fail(r)
    /\ IF attempt[r] < Len(Candidates(r))
          THEN /\ attempt' = [attempt EXCEPT ![r] = @ + 1]
               /\ UNCHANGED <<serving, reply>>
          ELSE Answer(r, "unreachable") /\ UNCHANGED attempt
    /\ UNCHANGED <<host, decision, task, written, taken>>

-----------------------------------------------------------------------------
\* forward.

\* The connection's task is spawned and the request handed to it.
Send(r) ==
    /\ serving[r] = "forwarding"
    /\ serving' = [serving EXCEPT ![r] = "waiting"]
    /\ task' = [task EXCEPT ![r] = "driving"]
    /\ UNCHANGED <<host, decision, attempt, failed, reply, written, taken>>

\* The HTTP client cannot be set up on the connection: a 502 before there is a
\* task, and no other candidate is tried.
HandshakeFails(r) ==
    /\ serving[r] = "forwarding"
    /\ Answer(r, "bad_gateway")
    /\ UNCHANGED <<host, decision, attempt, failed, task, written, taken>>

\* The response headers have come.
Responds(r) ==
    /\ serving[r] = "waiting" /\ task[r] = "driving"
    /\ attempt[r] \in written[r]
    /\ Answer(r, "response")
    /\ UNCHANGED <<host, decision, attempt, failed, task, written, taken>>

\* Mutation: a request that failed on its connection is tried on another.
ForwardRetries(r) ==
    /\ serving[r] = "waiting"
    /\ Fail(r)
    /\ IF attempt[r] < Len(Candidates(r))
          THEN /\ attempt' = [attempt EXCEPT ![r] = @ + 1]
               /\ serving' = [serving EXCEPT ![r] = "connecting"]
               /\ UNCHANGED reply
          ELSE Answer(r, "bad_gateway") /\ UNCHANGED attempt
    /\ UNCHANGED <<host, decision, task, written, taken>>

\* Mutation: the response is waited for until the connection ends.
ForwardWaits(r) ==
    /\ serving[r] = "waiting" /\ task[r] = "ended"
    /\ Answer(r, "bad_gateway")
    /\ UNCHANGED <<host, decision, attempt, failed, task, written, taken>>

\* The connection fails, or response_timeout passes: not tried again.
ForwardFails(r) ==
    /\ serving[r] = "waiting"
    /\ Answer(r, "bad_gateway")
    /\ UNCHANGED <<host, decision, attempt, failed, task, written, taken>>

\* The client closes its connection, and the handler is dropped at its await.
ClientLeaves(r) ==
    /\ serving[r] \in {"connecting", "waiting"}
    /\ serving' = [serving EXCEPT ![r] = "dropped"]
    /\ UNCHANGED <<host, decision, attempt, failed, reply, task, written, taken>>

-----------------------------------------------------------------------------
\* The connection's task, and the backend behind it.

Write(r) ==
    /\ task[r] = "driving" /\ attempt[r] \notin written[r]
    /\ written' = [written EXCEPT ![r] = @ \cup {attempt[r]}]
    /\ UNCHANGED <<handlerVars, task, taken>>

\* The exchange is over, the handler no longer waits for it or the connection
\* is broken.
TaskEnds(r) ==
    /\ task[r] = "driving"
    /\ task' = [task EXCEPT ![r] = "ended"]
    /\ UNCHANGED <<handlerVars, written, taken>>

\* Bytes on their way arrive whatever has become of the handler.
BackendTakes(r, i) ==
    /\ i \in written[r] \ taken[r]
    /\ taken' = [taken EXCEPT ![r] = @ \cup {i}]
    /\ UNCHANGED <<handlerVars, task, written>>

-----------------------------------------------------------------------------
Handle(r) == \/ Connected(r) \/ AttemptFails(r) \/ Send(r) \/ HandshakeFails(r)
             \/ Responds(r) \/ ForwardFails(r) \/ ClientLeaves(r)

Drive(r) == \/ Write(r) \/ TaskEnds(r)
            \/ \E i \in written[r] : BackendTakes(r, i)

FrontStep == \E r \in Requests : Handle(r) \/ Drive(r)

\* Whatever the routes are that a request is decided by.
FrontNext == FrontStep \/ \E r \in Requests, routes \in Seq(Routes) : Decide(r, routes)

FrontSpec == FrontInit /\ [][FrontNext]_frontVars

\* The handler runs on until it awaits; each await of its own has a timer.
FrontFairness ==
    \A r \in Requests : /\ WF_frontVars(AttemptFails(r))
                        /\ WF_frontVars(Send(r) \/ HandshakeFails(r))
                        /\ WF_frontVars(ForwardFails(r))

-----------------------------------------------------------------------------
\* "a failure is terminal": a request is taken by one backend at most and once
\* at most, also when its client has been answered 502 or is gone, and never
\* by one that Head reckons it failed to reach.
TakenAtMostOnce ==
    \A r \in Requests :
        /\ \A i, j \in taken[r] : i = j
        /\ taken[r] \cap failed[r] = {}

\* Head gives a request up for want of a connection only after an attempt at
\* every candidate has failed.
NoneLeftUntried(r) ==
    reply[r] = "unreachable" => DOMAIN Candidates(r) \subseteq failed[r]

\* A request does not hang: once decided on, whatever the candidates and the
\* backend do, its client is answered, unless it leaves first.
RequestsAreAnswered ==
    \A r \in Requests :
        serving[r] = "connecting" ~> serving[r] \in {"answered", "dropped"}
=============================================================================

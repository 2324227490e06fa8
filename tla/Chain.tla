-------------------------------- MODULE Chain --------------------------------
(***************************************************************************)
(* Source-routed chains, end to end: clients walk their ranked candidates  *)
(* (crates/fetch/src/server.rs connect_upstream, chain.rs establish;       *)
(* crates/head/src/http.rs connect_backend) and every relay on a           *)
(* candidate's path runs one handler per chain (relay.rs handshake,        *)
(* terminate, forward).  Attempts of one client are sequential, but the    *)
(* handlers of an abandoned attempt live on until they notice.             *)
(*                                                                         *)
(* A handler is named by its client, the rank of the candidate and its     *)
(* position on the path.  A connection is not a variable of its own: its   *)
(* upstream end is open while the party upstream is in a phase that holds  *)
(* it, its downstream end while the handler is alive, and the one frame it *)
(* carries back is the handler's answer.  The pre-admission slots and      *)
(* allow_peers are in Relay; here every peer is admitted, and a handler is *)
(* charged the chain slot it holds.  Every relay and client has a          *)
(* [tunnel_tls] identity, so that each leg and the end-to-end session are  *)
(* authenticated.                                                          *)
(***************************************************************************)
EXTENDS Naturals, Sequences, FiniteSets, TunnelOpen

CONSTANTS
  Clients,      \* node ids of the parties that originate one chain each
  Nodes,        \* node ids of the relays
  Candidates,   \* client -> its ranked candidates, each a path of nodes
  HasStatic,    \* whether a client has a static upstream (Fetch: yes, Head: no)
  MaxHops,      \* max_hops of every relay
  MaxTotal,     \* max_concurrent_total of every relay
  MaxPerPeer,   \* max_concurrent_per_peer of every relay
  Rogues        \* relays that answer with whatever they like

ASSUME CandidatesArePaths ==
  /\ HasStatic \in BOOLEAN
  /\ Candidates \in [Clients -> Seq(Seq(Nodes))]
  /\ \A cl \in Clients : \A j \in 1..Len(Candidates[cl]) : Candidates[cl][j] # << >>

ASSUME RoguesAreNodes == Rogues \subseteq Nodes

VARIABLES
  phase,     \* what each client is doing
  rank,      \* the candidate each client is trying, or tried last
  hop,       \* what each handler is doing
  answer,    \* the status each handler has written back, Silence if none
  reached    \* <<client, rank>> whose target has reached its own upstream

vars == <<phase, rank, hop, answer, reached>>

-----------------------------------------------------------------------------
(* Handlers and their neighbours.                                          *)

NumCandidates(cl) == Len(Candidates[cl])
Path(cl, j) == Candidates[cl][j]

Hops ==
  UNION {UNION {{<<cl, j, k>> : k \in 1..Len(Path(cl, j))} : j \in 1..NumCandidates(cl)} :
         cl \in Clients}

Node(h) == Path(h[1], h[2])[h[3]]
Onward(h) == SubSeq(Path(h[1], h[2]), h[3], Len(Path(h[1], h[2])))
First(h) == h[3] = 1
Last(h) == h[3] = Len(Path(h[1], h[2]))
Up(h) == <<h[1], h[2], h[3] - 1>>
Down(h) == <<h[1], h[2], h[3] + 1>>
Honest(h) == Node(h) \notin Rogues

\* The identity the handler authenticates: whoever dialed it.
PeerOf(h) == IF First(h) THEN h[1] ELSE Node(Up(h))

Alive == {"open", "dial", "offer", "ending", "inner", "splice"}
Charged == Alive \ {"open"}

\* The phases in which a client holds the connection to its first relay.
Attached == {"await", "e2e", "kept"}

\* Whether the party upstream of a handler still holds their connection.
Held(h) ==
  IF First(h) THEN rank[h[1]] = h[2] /\ phase[h[1]] \in Attached
  ELSE hop[Up(h)] \in {"offer", "splice"}

ChargedAt(n) == {h \in Hops : Node(h) = n /\ hop[h] \in Charged}

Full(h) ==
  \/ Cardinality(ChargedAt(Node(h))) >= MaxTotal
  \/ Cardinality({g \in ChargedAt(Node(h)) : PeerOf(g) = PeerOf(h)}) >= MaxPerPeer

Become(h, state) == hop' = [hop EXCEPT ![h] = state]
Answer(h, status) == answer' = [answer EXCEPT ![h] = status]

ClientUnchanged == UNCHANGED <<phase, rank>>

-----------------------------------------------------------------------------
Init ==
  /\ phase = [cl \in Clients |-> IF NumCandidates(cl) = 0 THEN "static" ELSE "dial"]
  /\ rank = [cl \in Clients |-> 1]
  /\ hop = [h \in Hops |-> "none"]
  /\ answer = [h \in Hops |-> Silence]
  /\ reached = {}

(* The client: connect_upstream and establish.                             *)

\* dial_expecting the first relay succeeds and TunnelOpen is written.
DialFirst(cl) ==
  LET h == <<cl, rank[cl], 1>> IN
  /\ phase[cl] = "dial"
  /\ phase' = [phase EXCEPT ![cl] = "await"]
  /\ Become(h, "open")
  /\ UNCHANGED <<rank, answer, reached>>

\* Mutation: the first failure already leads to the static upstream.
NextCandidateForgotten(cl) ==
  /\ rank' = [rank EXCEPT ![cl] = @ + 1]
  /\ phase' = [phase EXCEPT ![cl] = "static"]
  /\ UNCHANGED <<hop, answer, reached>>

\* The next candidate, or the static upstream once the last one has failed.
NextCandidate(cl) ==
  /\ rank' = [rank EXCEPT ![cl] = @ + 1]
  /\ phase' = [phase EXCEPT ![cl] = IF rank[cl] < NumCandidates(cl) THEN "dial" ELSE "static"]
  /\ UNCHANGED <<hop, answer, reached>>

\* establish fails: the dial, or an ack other than tunnel_ready, or the relay
\* going away, or the inner handshake.
CandidateFails(cl) ==
  LET h == <<cl, rank[cl], 1>> IN
  /\ \/ phase[cl] = "dial"
     \/ phase[cl] = "await" /\ (answer[h] \notin {Silence, "tunnel_ready"} \/ hop[h] = "gone")
     \/ phase[cl] = "e2e" /\ hop[h] \notin Alive
  /\ NextCandidate(cl)

\* Mutation: the end-to-end handshake is outside the timeout.
CandidateTimesOutBeforeReady(cl) ==
  /\ phase[cl] \in {"dial", "await"}
  /\ NextCandidate(cl)

\* attempt_timeout_ms elapses anywhere in establish.
CandidateTimesOut(cl) ==
  /\ phase[cl] \in {"dial", "await", "e2e"}
  /\ NextCandidate(cl)

ReadReady(cl) ==
  /\ phase[cl] = "await"
  /\ answer[<<cl, rank[cl], 1>>] = "tunnel_ready"
  /\ phase' = [phase EXCEPT ![cl] = "e2e"]
  /\ UNCHANGED <<rank, hop, answer, reached>>

\* Mutation: whoever answers the inner handshake will do.
EndToEndUnverified(cl) ==
  /\ phase[cl] = "e2e"
  /\ hop[<<cl, rank[cl], 1>>] \in {"splice", "inner"}
  /\ phase' = [phase EXCEPT ![cl] = "kept"]
  /\ UNCHANGED <<rank, hop, answer, reached>>

\* connect_on with the target's identity: the handshake runs through every
\* relay in between, and the target must be at the other end of it.
EndToEnd(cl) ==
  LET target == Len(Path(cl, rank[cl])) IN
  /\ phase[cl] = "e2e"
  /\ \A k \in 1..(target - 1) : hop[<<cl, rank[cl], k>>] = "splice"
  /\ hop[<<cl, rank[cl], target>>] = "inner"
  /\ phase' = [phase EXCEPT ![cl] = "kept"]
  /\ UNCHANGED <<rank, hop, answer, reached>>

\* The last leg, bounded by the same timeout.  A Head chain has no such leg.
StaticConnects(cl) ==
  /\ phase[cl] = "static" /\ HasStatic
  /\ phase' = [phase EXCEPT ![cl] = "static_up"]
  /\ UNCHANGED <<rank, hop, answer, reached>>

ConnectFails(cl) ==
  /\ phase[cl] = "static"
  /\ phase' = [phase EXCEPT ![cl] = "failed"]
  /\ UNCHANGED <<rank, hop, answer, reached>>

\* The kept stream ends; nothing is retried.
ClientCloses(cl) ==
  /\ phase[cl] = "kept"
  /\ phase' = [phase EXCEPT ![cl] = "closed"]
  /\ UNCHANGED <<rank, hop, answer, reached>>

(* The handlers.                                                           *)

\* Refused before a slot is charged.
RefuseBusy(h) ==
  /\ hop[h] = "open" /\ Full(h)
  /\ Become(h, "gone") /\ Answer(h, "relay_busy")
  /\ ClientUnchanged /\ UNCHANGED reached

\* Charged; a refused path keeps its slot until the refusal has been written.
Open(h) ==
  LET verdict == Verdict(Onward(h), Node(h), MaxHops) IN
  /\ hop[h] = "open" /\ ~Full(h)
  /\ IF verdict = "ok" THEN Become(h, "dial") /\ UNCHANGED answer
     ELSE Become(h, "ending") /\ Answer(h, verdict)
  /\ ClientUnchanged /\ UNCHANGED reached

\* Mutation: the ack is written before the upstream is dialed.
TerminalAcksFirst(h) ==
  /\ hop[h] = "dial" /\ Last(h)
  /\ Become(h, "inner") /\ Answer(h, "tunnel_ready")
  /\ ClientUnchanged /\ UNCHANGED reached

\* terminate: the upstream is dialed first, then the ack is written.
TerminalReaches(h) ==
  /\ hop[h] = "dial" /\ Last(h)
  /\ reached' = reached \cup {<<h[1], h[2]>>}
  /\ Become(h, "inner") /\ Answer(h, "tunnel_ready")
  /\ ClientUnchanged

\* forward: the next hop is dialed, authenticated and sent the tail.
DialNext(h) ==
  /\ hop[h] = "dial" /\ ~Last(h)
  /\ hop' = [hop EXCEPT ![h] = "offer", ![Down(h)] = "open"]
  /\ ClientUnchanged /\ UNCHANGED <<answer, reached>>

HopUnreachable(h) ==
  /\ hop[h] = "dial"
  /\ Become(h, "ending") /\ Answer(h, "tunnel_hop_unreachable")
  /\ ClientUnchanged /\ UNCHANGED reached

\* forward: one frame is read from downstream and its status relayed.
RelayAnswer(h) ==
  LET status == Sanitised(answer[Down(h)]) IN
  /\ hop[h] = "offer" /\ answer[Down(h)] # Silence
  /\ Become(h, IF status = "tunnel_ready" THEN "splice" ELSE "ending")
  /\ Answer(h, status)
  /\ ClientUnchanged /\ UNCHANGED reached

\* A rogue may do all of the above, or answer as it pleases whatever lies
\* behind it and pose as a chain that is up.
RogueAnswers(h, reply) ==
  /\ hop[h] \in {"open", "dial", "offer"} /\ ~Honest(h)
  /\ Become(h, IF Last(h) THEN "inner" ELSE "splice") /\ Answer(h, reply)
  /\ ClientUnchanged /\ UNCHANGED reached

\* Mutation: the target splices without an inner session.
InnerAcceptAnyone(h) ==
  /\ hop[h] = "inner"
  /\ Become(h, "splice")
  /\ ClientUnchanged /\ UNCHANGED <<answer, reached>>

\* The end-to-end session is accepted from a client that completed it.
InnerAccept(h) ==
  /\ hop[h] = "inner" /\ Held(h)
  /\ rank[h[1]] = h[2] /\ phase[h[1]] = "kept"
  /\ Become(h, "splice")
  /\ ClientUnchanged /\ UNCHANGED <<answer, reached>>

End(h) ==
  /\ Become(h, "gone")
  /\ ClientUnchanged /\ UNCHANGED <<answer, reached>>

\* The refusal is out; the handler returns and its permit drops.
RefusalDone(h) == hop[h] = "ending" /\ End(h)

\* The handler is reading from a neighbour that has gone.  In "offer" it reads
\* only from downstream: an upstream that leaves is not noticed.
NoticeClosed(h) ==
  /\ \/ hop[h] \in {"inner", "splice"} /\ ~Held(h)
     \/ hop[h] = "offer" /\ hop[Down(h)] = "gone" /\ answer[Down(h)] = Silence
     \/ hop[h] = "splice" /\ ~Last(h) /\ hop[Down(h)] \in {"none", "gone"}
  /\ End(h)

\* Mutation: waiting for the next hop is outside the timeout.
HandshakeTimeoutSkipsOffer(h) ==
  /\ hop[h] \in {"open", "dial", "ending", "inner"}
  /\ End(h)

HandshakeTimeout(h) ==
  /\ hop[h] \in {"open", "dial", "offer", "ending", "inner"}
  /\ End(h)

\* Idle timeout, a stream error, or the upstream service closing.
SpliceEnds(h) == hop[h] = "splice" /\ End(h)

\* A relay process dies: every handler it runs is gone at once.
Crash(n) ==
  /\ \E h \in Hops : Node(h) = n /\ hop[h] \in Alive
  /\ hop' = [h \in Hops |-> IF Node(h) = n /\ hop[h] \in Alive THEN "gone" ELSE hop[h]]
  /\ ClientUnchanged /\ UNCHANGED <<answer, reached>>

-----------------------------------------------------------------------------
ClientStep(cl) ==
  \/ DialFirst(cl) \/ CandidateFails(cl) \/ CandidateTimesOut(cl) \/ ReadReady(cl)
  \/ EndToEnd(cl) \/ StaticConnects(cl) \/ ConnectFails(cl) \/ ClientCloses(cl)

HopStep(h) ==
  \/ RefuseBusy(h) \/ Open(h) \/ TerminalReaches(h) \/ DialNext(h) \/ HopUnreachable(h)
  \/ RelayAnswer(h) \/ \E reply \in Replies : RogueAnswers(h, reply)
  \/ InnerAccept(h) \/ RefusalDone(h) \/ NoticeClosed(h) \/ HandshakeTimeout(h) \/ SpliceEnds(h)

Next ==
  \/ \E cl \in Clients : ClientStep(cl)
  \/ \E h \in Hops : HopStep(h)
  \/ \E n \in Nodes : Crash(n)

Spec == Init /\ [][Next]_vars

\* Every timer fires and every honest handler returns; no peer need act.
Fairness ==
  /\ \A cl \in Clients : WF_vars(CandidateTimesOut(cl)) /\ WF_vars(ConnectFails(cl))
  /\ \A h \in Hops : WF_vars(Honest(h) /\ (HandshakeTimeout(h) \/ NoticeClosed(h)))

FairSpec == Spec /\ Fairness

-----------------------------------------------------------------------------
(* Properties.                                                             *)

Phases == {"dial", "await", "e2e", "kept", "closed", "static", "static_up", "failed"}

TypeOK ==
  /\ phase \in [Clients -> Phases]
  /\ rank \in [Clients -> Nat]
  /\ hop \in [Hops -> Alive \cup {"none", "gone"}]
  /\ answer \in [Hops -> Replies \cup {Silence}]
  /\ reached \subseteq Clients \X Nat

Target(cl, j) == Path(cl, j)[Len(Path(cl, j))]

\* Downstream of a handler and itself.
From(h) == {g \in Hops : g[1] = h[1] /\ g[2] = h[2] /\ g[3] >= h[3]}
Upto(h) == {g \in Hops : g[1] = h[1] /\ g[2] = h[2] /\ g[3] <= h[3]}

\* tunnel_ready, wherever on an honest path it is seen, means that the target
\* has already reached its own upstream: an originator never stops failing
\* over on the word of a target whose backend is down (relay.rs terminate).
ReadyMeansReached ==
  \A h \in Hops :
    answer[h] = "tunnel_ready" /\ (\A g \in From(h) : Honest(g)) => <<h[1], h[2]>> \in reached

\* A client keeps a candidate only when that candidate's target was reached
\* and its backend with it, whatever the relays in between claim
\* (chain.rs establish, "the identity checked here is the TARGET's").
KeptIsReached ==
  \A cl \in Clients :
    phase[cl] \in {"kept", "closed"} /\ Target(cl, rank[cl]) \notin Rogues
      => <<cl, rank[cl]>> \in reached

\* A target never carries client bytes to its backend for a candidate that
\* the client gave up: that is what makes walking on safe for any request
\* (http.rs connect_backend, "a chain that failed to establish never
\* delivered the request").
NoDeliveryForAbandoned ==
  \A h \in Hops : Last(h) /\ Honest(h) /\ hop[h] = "splice" =>
    rank[h[1]] = h[2] /\ phase[h[1]] \in {"kept", "closed"}

\* The statuses an honest relay gives as a reason of its own.
HonestReasons ==
  {"tunnel_misaddressed", "tunnel_too_long", "tunnel_path_loops", "tunnel_hop_unreachable",
   "expected_tunnel_open", "relay_forbidden", "relay_busy"}

\* An honest relay passes a downstream reason on unchanged and passes nothing
\* else on: a refusal deep in the chain reaches the originator as it was
\* given, and no foreign status does (relay.rs KNOWN_ACK_STATUSES).
ReasonSurvives ==
  \A h \in Hops : ~Last(h) /\ Honest(h) /\ answer[h] # Silence =>
    /\ answer[h] \in HonestReasons \cup {"tunnel_ready", "relay_forwarding_unavailable", UnknownStatus}
    /\ answer[Down(h)] \in HonestReasons => answer[h] = answer[Down(h)]

Outcome(cl) ==
  CASE phase[cl] \in {"kept", "closed"} -> "chain"
    [] phase[cl] = "static_up"          -> "static"
    [] phase[cl] = "failed"             -> "failed"
    [] OTHER                            -> "none"

F == INSTANCE Failover WITH
  Count <- [cl \in Clients |-> NumCandidates(cl)],
  trying <- rank,
  outcome <- [cl \in Clients |-> Outcome(cl)]

\* Each client's walk over chains of relays is the abstract failover walk.
ImplementsFailover == F!Spec

\* No relay, honest or not, can leave a client waiting for ever
\* (server.rs, "the timeout has to wrap the entire call").
ClientsDecide == F!Decided

\* Once a client has left a candidate, every relay the candidate led through
\* by honest hops gives its slot back, though the client does not tell it
\* (relay.rs handle and splice_with_idle).
AbandonedChainsEnd ==
  \A h \in Hops : (\A g \in Upto(h) : Honest(g)) =>
    ((rank[h[1]] > h[2] \/ phase[h[1]] = "closed") ~> hop[h] \notin Alive)
===============================================================================

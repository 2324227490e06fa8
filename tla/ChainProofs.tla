----------------------------- MODULE ChainProofs -----------------------------
(***************************************************************************)
(* Proofs about Chain, for any clients, candidates, caps and rogues.       *)
(*                                                                         *)
(* The properties are not inductive by themselves.  What they need beyond  *)
(* each other: that a client's rank stays within its candidates until the  *)
(* last one has failed, that no handler runs for a candidate the client    *)
(* has not come to yet, and that an honest handler waiting for the inner   *)
(* session is a target that has reached its upstream.                      *)
(* That a refusal survives its way back rests on an invariant of its own,  *)
(* on who has answered and who runs below whom.                            *)
(***************************************************************************)
EXTENDS Chain, TLAPS

LEMMA HopShape ==
  ASSUME NEW h \in Hops
  PROVE  /\ h = <<h[1], h[2], h[3]>>
         /\ h[1] \in Clients
         /\ h[2] \in 1..NumCandidates(h[1])
         /\ h[3] \in 1..Len(Path(h[1], h[2]))
  BY DEF Hops

LEMMA HopMade ==
  ASSUME NEW cl \in Clients, NEW j \in 1..NumCandidates(cl), NEW k \in 1..Len(Path(cl, j))
  PROVE  <<cl, j, k>> \in Hops
  BY DEF Hops

LEMMA PathShape ==
  ASSUME NEW cl \in Clients
  PROVE  /\ NumCandidates(cl) \in Nat
         /\ \A j \in 1..NumCandidates(cl) :
              Path(cl, j) \in Seq(Nodes) /\ Len(Path(cl, j)) \in Nat \ {0}
  <1>1. Candidates[cl] \in Seq(Seq(Nodes))
    BY CandidatesArePaths
  <1>2. NumCandidates(cl) \in Nat
    BY <1>1 DEF NumCandidates
  <1>3. ASSUME NEW j \in 1..NumCandidates(cl)
        PROVE  Path(cl, j) \in Seq(Nodes) /\ Len(Path(cl, j)) \in Nat \ {0}
    <2>1. Path(cl, j) \in Seq(Nodes)
      BY <1>1, <1>3 DEF NumCandidates, Path
    <2>2. Path(cl, j) # << >>
      BY <1>3, CandidatesArePaths DEF NumCandidates, Path
    <2> QED BY <2>1, <2>2
  <1> QED BY <1>2, <1>3

\* A handler that is not the last has one below it, further down the same path.
LEMMA DownIsHop ==
  ASSUME NEW h \in Hops, ~Last(h)
  PROVE  /\ Down(h) \in Hops /\ Down(h) # h
         /\ Down(h)[1] = h[1] /\ Down(h)[2] = h[2]
         /\ From(Down(h)) \subseteq From(h)
  <1>1. /\ h[1] \in Clients /\ h[2] \in 1..NumCandidates(h[1])
        /\ h[3] \in 1..Len(Path(h[1], h[2])) /\ h = <<h[1], h[2], h[3]>>
    BY HopShape
  <1>2. Len(Path(h[1], h[2])) \in Nat
    BY <1>1, PathShape
  <1>3. h[3] + 1 \in 1..Len(Path(h[1], h[2]))
    BY <1>1, <1>2 DEF Last
  <1>4. Down(h) \in Hops
    BY <1>1, <1>3, HopMade DEF Down
  <1>5. Down(h)[1] = h[1] /\ Down(h)[2] = h[2] /\ Down(h)[3] = h[3] + 1
    BY DEF Down
  <1>6. From(Down(h)) \subseteq From(h)
    <2> SUFFICES ASSUME NEW g \in Hops, g[1] = h[1], g[2] = h[2], g[3] >= h[3] + 1
                 PROVE  g[3] >= h[3]
      BY <1>5 DEF From
    <2>1. g[3] \in Nat /\ h[3] \in Nat
      BY HopShape, <1>1, PathShape
    <2> QED BY <2>1
  <1>7. Down(h) # h
    BY <1>1, <1>5
  <1> QED BY <1>4, <1>5, <1>6, <1>7

LEMMA VerdictShape ==
  ASSUME NEW hops, NEW self, NEW maxHops, Verdict(hops, self, maxHops) # "ok"
  PROVE  /\ Verdict(hops, self, maxHops) \in KnownAckStatuses \ {"tunnel_ready"}
         /\ Verdict(hops, self, maxHops) \in HonestReasons
  BY DEF Verdict, KnownAckStatuses, HonestReasons

LEMMA SanitisedShape ==
  ASSUME NEW reply
  PROVE  /\ Sanitised(reply) \in KnownAckStatuses
         /\ Sanitised(reply) = "tunnel_ready" => reply = "tunnel_ready"
  BY DEF Sanitised, KnownAckStatuses, UnknownStatus

-----------------------------------------------------------------------------
RankFits ==
  \A cl \in Clients :
    /\ rank[cl] \in 1..(NumCandidates(cl) + 1)
    /\ phase[cl] \in {"dial", "await", "e2e", "kept", "closed"} <=> rank[cl] <= NumCandidates(cl)

StartedInOrder == \A h \in Hops : hop[h] # "none" => h[2] <= rank[h[1]]

RolesFit ==
  \A h \in Hops :
    /\ hop[h] = "offer" => ~Last(h)
    /\ hop[h] = "inner" /\ Honest(h) => Last(h) /\ <<h[1], h[2]>> \in reached

IInv ==
  /\ TypeOK /\ RankFits /\ StartedInOrder /\ RolesFit
  /\ ReadyMeansReached /\ KeptIsReached /\ NoDeliveryForAbandoned

\* The first hop of the candidate a client is at.
LEMMA FirstIsHop ==
  ASSUME NEW cl \in Clients, TypeOK, RankFits, rank[cl] <= NumCandidates(cl)
  PROVE  <<cl, rank[cl], 1>> \in Hops
  <1>1. rank[cl] \in 1..NumCandidates(cl)
    BY PathShape DEF TypeOK, RankFits
  <1>2. 1 \in 1..Len(Path(cl, rank[cl]))
    BY <1>1, PathShape
  <1> QED BY <1>1, <1>2, HopMade

LEMMA InitInv == Init => IInv
  <1> SUFFICES ASSUME Init PROVE IInv
    OBVIOUS
  <1> USE DEF Init
  <1>1. TypeOK
    BY DEF TypeOK, Phases, Alive
  <1>2. RankFits
    BY PathShape DEF RankFits
  <1>3. StartedInOrder /\ RolesFit
    BY DEF StartedInOrder, RolesFit
  <1>4. ReadyMeansReached
    BY DEF ReadyMeansReached, Silence
  <1>5. KeptIsReached /\ NoDeliveryForAbandoned
    BY DEF KeptIsReached, NoDeliveryForAbandoned
  <1> QED BY <1>1, <1>2, <1>3, <1>4, <1>5 DEF IInv

LEMMA TypeStep ==
  ASSUME TypeOK, RankFits, [Next]_vars
  PROVE  TypeOK'
  <1> USE DEF TypeOK
  <1>1. ASSUME NEW cl \in Clients, ClientStep(cl)
        PROVE  TypeOK'
    <2> USE <1>1 DEF Phases
    <2>1. CASE DialFirst(cl)
      BY <2>1 DEF DialFirst, Become, Alive
    <2>2. CASE CandidateFails(cl) \/ CandidateTimesOut(cl)
      BY <2>2 DEF CandidateFails, CandidateTimesOut, NextCandidate
    <2>3. CASE ReadReady(cl) \/ EndToEnd(cl) \/ StaticConnects(cl) \/ ConnectFails(cl) \/ ClientCloses(cl)
      BY <2>3 DEF ReadReady, EndToEnd, StaticConnects, ConnectFails, ClientCloses
    <2> QED BY <2>1, <2>2, <2>3 DEF ClientStep
  <1>2. ASSUME NEW h \in Hops, HopStep(h)
        PROVE  TypeOK'
    <2> USE <1>2 DEF Become, Answer, ClientUnchanged, Alive
    <2>0. KnownAckStatuses \subseteq Replies
          /\ {"relay_busy", "tunnel_ready", "tunnel_hop_unreachable"} \subseteq Replies
      BY DEF Replies, KnownAckStatuses
    <2>1. CASE RefuseBusy(h)
      BY <2>0, <2>1 DEF RefuseBusy
    <2>2. CASE Open(h)
      <3> DEFINE verdict == Verdict(Onward(h), Node(h), MaxHops)
      <3>1. verdict # "ok" => verdict \in Replies
        BY <2>0, VerdictShape
      <3> HIDE DEF verdict
      <3>2. CASE verdict = "ok"
        BY <2>2, <3>2 DEF Open, verdict
      <3>3. CASE verdict # "ok"
        BY <2>2, <3>1, <3>3 DEF Open, verdict
      <3> QED BY <3>2, <3>3
    <2>3. CASE TerminalReaches(h)
      <3>1. h[1] \in Clients /\ h[2] \in Nat
        BY HopShape, PathShape
      <3> QED BY <2>0, <2>3, <3>1 DEF TerminalReaches
    <2>4. CASE DialNext(h) \/ HopUnreachable(h)
      BY <2>0, <2>4 DEF DialNext, HopUnreachable
    <2>5. CASE RelayAnswer(h)
      BY <2>0, <2>5, SanitisedShape DEF RelayAnswer
    <2>6. CASE \E reply \in Replies : RogueAnswers(h, reply)
      <3>1. PICK reply \in Replies : RogueAnswers(h, reply)
        BY <2>6
      <3> QED BY <3>1 DEF RogueAnswers
    <2>7. CASE InnerAccept(h) \/ RefusalDone(h) \/ NoticeClosed(h) \/ HandshakeTimeout(h) \/ SpliceEnds(h)
      BY <2>7 DEF InnerAccept, RefusalDone, NoticeClosed, HandshakeTimeout, SpliceEnds, End
    <2> QED BY <2>1, <2>2, <2>3, <2>4, <2>5, <2>6, <2>7 DEF HopStep
  <1>3. ASSUME NEW n \in Nodes, Crash(n)
        PROVE  TypeOK'
    BY <1>3 DEF Crash, ClientUnchanged, Alive
  <1>4. CASE UNCHANGED vars
    BY <1>4 DEF vars
  <1> QED BY <1>1, <1>2, <1>3, <1>4 DEF Next

\* What a client's step does to its own rank and to the rest of the state.
LEMMA RankStep ==
  ASSUME TypeOK, RankFits, [Next]_vars
  PROVE  /\ RankFits'
         /\ \A cl \in Clients :
              rank'[cl] = rank[cl] \/ (rank'[cl] = rank[cl] + 1 /\ phase[cl] \in {"dial", "await", "e2e"})
  <1> USE DEF TypeOK
  <1>0. \A cl \in Clients : NumCandidates(cl) \in Nat
    BY PathShape
  <1>1. ASSUME NEW cl \in Clients, ClientStep(cl)
        PROVE  /\ RankFits'
               /\ \A d \in Clients :
                    rank'[d] = rank[d] \/ (rank'[d] = rank[d] + 1 /\ phase[d] \in {"dial", "await", "e2e"})
    <2>1. CASE CandidateFails(cl) \/ CandidateTimesOut(cl)
      BY <1>0, <2>1 DEF CandidateFails, CandidateTimesOut, NextCandidate, RankFits
    <2>2. CASE DialFirst(cl) \/ ReadReady(cl) \/ EndToEnd(cl) \/ StaticConnects(cl)
               \/ ConnectFails(cl) \/ ClientCloses(cl)
      BY <1>0, <2>2 DEF DialFirst, ReadReady, EndToEnd, StaticConnects, ConnectFails, ClientCloses, RankFits
    <2> QED BY <1>1, <2>1, <2>2 DEF ClientStep
  <1>2. ASSUME NEW h \in Hops, HopStep(h)
        PROVE  UNCHANGED <<phase, rank>>
    BY <1>2 DEF HopStep, RefuseBusy, Open, TerminalReaches, DialNext, HopUnreachable, RelayAnswer,
       RogueAnswers, InnerAccept, RefusalDone, NoticeClosed, HandshakeTimeout, SpliceEnds, End, ClientUnchanged
  <1>3. ASSUME NEW n \in Nodes, Crash(n)
        PROVE  UNCHANGED <<phase, rank>>
    BY <1>3 DEF Crash, ClientUnchanged
  <1>4. ASSUME UNCHANGED <<phase, rank>>
        PROVE  RankFits' /\ \A d \in Clients : rank'[d] = rank[d]
    BY <1>4 DEF RankFits
  <1> QED BY <1>1, <1>2, <1>3, <1>4 DEF Next, vars

ClientActions(cl) ==
  \/ DialFirst(cl) \/ CandidateFails(cl) \/ CandidateTimesOut(cl) \/ ReadReady(cl)
  \/ StaticConnects(cl) \/ ConnectFails(cl) \/ ClientCloses(cl)

\* Handler steps and crashes leave the clients alone; a client that has kept a
\* candidate keeps it, and comes to do so in EndToEnd only.
LEMMA KeptStep ==
  ASSUME TypeOK, [Next]_vars
  PROVE  /\ reached \subseteq reached'
         /\ \A cl \in Clients :
              /\ phase[cl] \in {"kept", "closed"} =>
                   phase'[cl] \in {"kept", "closed"} /\ rank'[cl] = rank[cl]
              /\ phase'[cl] \in {"kept", "closed"} =>
                   \/ phase[cl] \in {"kept", "closed"}
                   \/ EndToEnd(cl) /\ rank'[cl] = rank[cl]
  <1> USE DEF TypeOK
  <1>1. ASSUME NEW cl \in Clients, ClientActions(cl) \/ EndToEnd(cl)
        PROVE  /\ UNCHANGED reached
               /\ \A d \in Clients :
                    /\ phase[d] \in {"kept", "closed"} =>
                         phase'[d] \in {"kept", "closed"} /\ rank'[d] = rank[d]
                    /\ phase'[d] \in {"kept", "closed"} =>
                         \/ phase[d] \in {"kept", "closed"}
                         \/ EndToEnd(d) /\ rank'[d] = rank[d]
    <2>1. CASE CandidateFails(cl) \/ CandidateTimesOut(cl)
      BY <2>1 DEF CandidateFails, CandidateTimesOut, NextCandidate
    <2>2. CASE EndToEnd(cl)
      <3>1. /\ phase[cl] = "e2e" /\ phase' = [phase EXCEPT ![cl] = "kept"]
            /\ UNCHANGED <<rank, reached>>
        BY <2>2 DEF EndToEnd
      <3> QED BY <2>2, <3>1
    <2>3. CASE DialFirst(cl) \/ ReadReady(cl) \/ StaticConnects(cl) \/ ConnectFails(cl) \/ ClientCloses(cl)
      BY <2>3 DEF DialFirst, ReadReady, StaticConnects, ConnectFails, ClientCloses
    <2> QED BY <1>1, <2>1, <2>2, <2>3 DEF ClientActions
  <1>2. ASSUME NEW h \in Hops, HopStep(h)
        PROVE  UNCHANGED <<phase, rank>> /\ reached \subseteq reached'
    BY <1>2 DEF HopStep, RefuseBusy, Open, TerminalReaches, DialNext, HopUnreachable, RelayAnswer,
       RogueAnswers, InnerAccept, RefusalDone, NoticeClosed, HandshakeTimeout, SpliceEnds, End, ClientUnchanged
  <1>3. ASSUME NEW n \in Nodes, Crash(n)
        PROVE  UNCHANGED <<phase, rank, reached>>
    BY <1>3 DEF Crash, ClientUnchanged
  <1> QED BY <1>1, <1>2, <1>3 DEF Next, vars, ClientStep, ClientActions

\* What its own task, or its relay's end, can make of a handler.
OwnMove(g) ==
  /\ hop[g] # "none"
  /\ \/ hop'[g] \in {"dial", "ending", "gone"}
     \/ hop'[g] = "offer" /\ ~Last(g)
     \/ hop'[g] = "inner" /\ Last(g) /\ <<g[1], g[2]>> \in reached'
     \/ hop'[g] \in {"inner", "splice"} /\ ~Honest(g)
     \/ hop'[g] = "splice" /\ ~Last(g)
     \/ hop'[g] = "splice" /\ rank[g[1]] = g[2] /\ phase[g[1]] = "kept"

\* What the party upstream of it can.
Opened(g) == hop'[g] = "open" /\ g[2] <= rank[g[1]]

LEMMA HopChange ==
  ASSUME TypeOK, RankFits, StartedInOrder, RolesFit, [Next]_vars, NEW g \in Hops
  PROVE  hop'[g] = hop[g] \/ Opened(g) \/ OwnMove(g)
  <1> USE DEF TypeOK, Become
  <1>1. ASSUME NEW cl \in Clients, ClientStep(cl)
        PROVE  hop'[g] = hop[g] \/ Opened(g)
    <2>1. CASE DialFirst(cl)
      <3>1. rank[cl] \in Nat /\ <<cl, rank[cl], 1>>[1] = cl /\ <<cl, rank[cl], 1>>[2] = rank[cl]
        OBVIOUS
      <3>2. hop' = [hop EXCEPT ![<<cl, rank[cl], 1>>] = "open"]
        BY <2>1 DEF DialFirst
      <3> QED BY <3>1, <3>2 DEF Opened
    <2>2. CASE UNCHANGED hop
      BY <2>2
    <2> QED BY <1>1, <2>1, <2>2 DEF ClientStep, CandidateFails, CandidateTimesOut, NextCandidate, ReadReady,
         EndToEnd, StaticConnects, ConnectFails, ClientCloses
  <1>2. ASSUME NEW h \in Hops, HopStep(h), g = h
        PROVE  OwnMove(g)
    <2> USE <1>2 DEF OwnMove
    <2>1. CASE RefuseBusy(h) \/ HopUnreachable(h)
      BY <2>1 DEF RefuseBusy, HopUnreachable
    <2>2. CASE Open(h)
      <3>1. hop[h] = "open" /\ hop'[h] \in {"dial", "ending"}
        BY <2>2 DEF Open
      <3> QED BY <3>1
    <2>3. CASE TerminalReaches(h)
      BY <2>3 DEF TerminalReaches
    <2>4. CASE DialNext(h)
      <3>1. hop[h] = "dial" /\ ~Last(h) /\ hop' = [hop EXCEPT ![h] = "offer", ![Down(h)] = "open"]
        BY <2>4 DEF DialNext
      <3>2. Down(h) \in Hops /\ Down(h) # h
        BY <3>1, DownIsHop
      <3>3. hop'[h] = "offer"
        BY <3>1, <3>2
      <3> QED BY <3>1, <3>3
    <2>5. CASE RelayAnswer(h)
      <3>1. hop[h] = "offer" /\ hop'[h] \in {"splice", "ending"}
        BY <2>5 DEF RelayAnswer
      <3> QED BY <3>1 DEF RolesFit
    <2>6. CASE \E reply \in Replies : RogueAnswers(h, reply)
      <3>1. hop[h] \in {"open", "dial", "offer"} /\ ~Honest(h) /\ hop'[h] \in {"inner", "splice"}
        BY <2>6 DEF RogueAnswers
      <3> QED BY <3>1
    <2>7. CASE InnerAccept(h)
      BY <2>7 DEF InnerAccept
    <2>8. CASE RefusalDone(h) \/ NoticeClosed(h) \/ HandshakeTimeout(h) \/ SpliceEnds(h)
      BY <2>8 DEF RefusalDone, NoticeClosed, HandshakeTimeout, SpliceEnds, End
    <2> QED BY <2>1, <2>2, <2>3, <2>4, <2>5, <2>6, <2>7, <2>8 DEF HopStep
  <1>3. ASSUME NEW h \in Hops, HopStep(h), g # h
        PROVE  hop'[g] = hop[g] \/ Opened(g)
    <2>1. CASE DialNext(h)
      <3>1. hop[h] = "dial" /\ ~Last(h) /\ hop' = [hop EXCEPT ![h] = "offer", ![Down(h)] = "open"]
        BY <2>1 DEF DialNext
      <3>2. Down(h) \in Hops /\ Down(h)[1] = h[1] /\ Down(h)[2] = h[2]
        BY <3>1, DownIsHop
      <3>3. h[2] <= rank[h[1]]
        BY <3>1 DEF StartedInOrder
      <3> QED BY <1>3, <3>1, <3>2, <3>3 DEF Opened
    <2>2. CASE \E state : hop' = [hop EXCEPT ![h] = state]
      BY <1>3, <2>2
    <2> QED BY <1>3, <2>1, <2>2 DEF HopStep, RefuseBusy, Open, TerminalReaches, HopUnreachable, RelayAnswer,
         RogueAnswers, InnerAccept, RefusalDone, NoticeClosed, HandshakeTimeout, SpliceEnds, End
  <1>4. ASSUME NEW n \in Nodes, Crash(n)
        PROVE  hop'[g] = hop[g] \/ OwnMove(g)
    BY <1>4 DEF Crash, Alive, OwnMove
  <1>5. CASE UNCHANGED vars
    BY <1>5 DEF vars
  <1> QED BY <1>1, <1>2, <1>3, <1>4, <1>5 DEF Next

LEMMA HopsStep ==
  ASSUME TypeOK, RankFits, StartedInOrder, RolesFit, [Next]_vars
  PROVE  StartedInOrder' /\ RolesFit'
  <1> SUFFICES ASSUME NEW g \in Hops
               PROVE  /\ hop'[g] # "none" => g[2] <= rank'[g[1]]
                      /\ hop'[g] = "offer" => ~Last(g)
                      /\ hop'[g] = "inner" /\ Honest(g) => Last(g) /\ <<g[1], g[2]>> \in reached'
    BY DEF StartedInOrder, RolesFit, Last, Path, Honest, Node
  <1>1. g[1] \in Clients /\ g[2] \in Nat /\ rank[g[1]] \in Nat
    BY HopShape, PathShape DEF TypeOK
  <1>2. rank'[g[1]] \in Nat /\ rank[g[1]] <= rank'[g[1]]
    BY <1>1, RankStep
  <1>3. reached \subseteq reached'
    BY KeptStep
  <1>4. CASE hop'[g] = hop[g]
    BY <1>1, <1>2, <1>3, <1>4 DEF StartedInOrder, RolesFit, TypeOK
  <1>5. CASE Opened(g)
    BY <1>1, <1>2, <1>5 DEF Opened, TypeOK
  <1>6. CASE OwnMove(g)
    BY <1>1, <1>2, <1>6 DEF OwnMove, StartedInOrder, TypeOK
  <1> QED BY <1>4, <1>5, <1>6, HopChange

LEMMA DeliveryStep ==
  ASSUME TypeOK, RankFits, StartedInOrder, RolesFit, NoDeliveryForAbandoned, [Next]_vars
  PROVE  NoDeliveryForAbandoned'
  <1> SUFFICES ASSUME NEW g \in Hops, Last(g), Honest(g), hop'[g] = "splice"
               PROVE  rank'[g[1]] = g[2] /\ phase'[g[1]] \in {"kept", "closed"}
    BY DEF NoDeliveryForAbandoned, Last, Path, Honest, Node
  <1>1. rank[g[1]] = g[2] /\ phase[g[1]] \in {"kept", "closed"}
    BY HopChange DEF Opened, OwnMove, NoDeliveryForAbandoned
  <1> QED BY <1>1, HopShape, KeptStep

LEMMA KeptReachedStep ==
  ASSUME TypeOK, RankFits, RolesFit, KeptIsReached, [Next]_vars
  PROVE  KeptIsReached'
  <1> SUFFICES ASSUME NEW cl \in Clients, phase'[cl] \in {"kept", "closed"}, Target(cl, rank'[cl]) \notin Rogues
               PROVE  <<cl, rank'[cl]>> \in reached'
    BY DEF KeptIsReached, Target, Path
  <1>1. CASE phase[cl] \in {"kept", "closed"}
    BY <1>1, KeptStep DEF KeptIsReached
  <1>2. CASE EndToEnd(cl) /\ rank'[cl] = rank[cl]
    <2> DEFINE j == rank[cl]
               h == <<cl, j, Len(Path(cl, j))>>
    <2>1. j \in 1..NumCandidates(cl) /\ phase[cl] = "e2e" /\ hop[h] = "inner" /\ UNCHANGED reached
      BY <1>2, PathShape DEF EndToEnd, RankFits
    <2>2. h \in Hops /\ h[1] = cl /\ h[2] = j /\ Honest(h)
      BY <1>2, <2>1, HopMade, PathShape DEF Honest, Node, Target
    <2> QED BY <1>2, <2>1, <2>2 DEF RolesFit
  <1> QED BY <1>1, <1>2, KeptStep

\* A handler comes to say tunnel_ready by reaching the upstream, by hearing it
\* from downstream, or by being a rogue.
LEMMA ReadyChange ==
  ASSUME TypeOK, RolesFit, [Next]_vars, NEW g \in Hops, answer'[g] = "tunnel_ready"
  PROVE  \/ answer[g] = "tunnel_ready"
         \/ <<g[1], g[2]>> \in reached'
         \/ ~Honest(g)
         \/ ~Last(g) /\ answer[Down(g)] = "tunnel_ready"
  <1> USE DEF TypeOK, Answer
  <1>1. ASSUME NEW h \in Hops, HopStep(h), g = h
        PROVE  \/ answer[g] = "tunnel_ready"
               \/ <<g[1], g[2]>> \in reached'
               \/ ~Honest(g)
               \/ ~Last(g) /\ answer[Down(g)] = "tunnel_ready"
    <2> USE <1>1
    <2>1. CASE RefuseBusy(h) \/ HopUnreachable(h)
      BY <2>1 DEF RefuseBusy, HopUnreachable
    <2>2. CASE Open(h)
      <3> DEFINE verdict == Verdict(Onward(h), Node(h), MaxHops)
      <3>1. verdict # "ok" => verdict # "tunnel_ready"
        BY VerdictShape
      <3> HIDE DEF verdict
      <3> QED BY <2>2, <3>1 DEF Open, verdict
    <2>3. CASE TerminalReaches(h)
      BY <2>3 DEF TerminalReaches
    <2>4. CASE RelayAnswer(h)
      BY <2>4, SanitisedShape DEF RelayAnswer, RolesFit
    <2>5. CASE \E reply \in Replies : RogueAnswers(h, reply)
      BY <2>5 DEF RogueAnswers
    <2>6. CASE UNCHANGED answer
      BY <2>6
    <2> QED BY <2>1, <2>2, <2>3, <2>4, <2>5, <2>6 DEF HopStep, DialNext, InnerAccept, RefusalDone,
         NoticeClosed, HandshakeTimeout, SpliceEnds, End
  <1>2. ASSUME NEW h \in Hops, HopStep(h), g # h
        PROVE  answer[g] = "tunnel_ready"
    <2>1. UNCHANGED answer \/ \E status : answer' = [answer EXCEPT ![h] = status]
      BY <1>2 DEF HopStep, RefuseBusy, Open, TerminalReaches, DialNext, HopUnreachable, RelayAnswer,
         RogueAnswers, InnerAccept, RefusalDone, NoticeClosed, HandshakeTimeout, SpliceEnds, End
    <2> QED BY <1>2, <2>1
  <1>3. ASSUME NEW cl \in Clients, ClientStep(cl)
        PROVE  UNCHANGED answer
    BY <1>3 DEF ClientStep, DialFirst, CandidateFails, CandidateTimesOut, NextCandidate, ReadReady, EndToEnd,
       StaticConnects, ConnectFails, ClientCloses
  <1>4. ASSUME NEW n \in Nodes, Crash(n)
        PROVE  UNCHANGED answer
    BY <1>4 DEF Crash
  <1> QED BY <1>1, <1>2, <1>3, <1>4 DEF Next, vars

LEMMA ReadyStep ==
  ASSUME TypeOK, RolesFit, ReadyMeansReached, [Next]_vars
  PROVE  ReadyMeansReached'
  <1> SUFFICES ASSUME NEW g \in Hops, answer'[g] = "tunnel_ready", \A f \in From(g) : Honest(f)
               PROVE  <<g[1], g[2]>> \in reached'
    BY DEF ReadyMeansReached, From, Honest, Node, Path
  <1>1. reached \subseteq reached'
    BY KeptStep
  <1>2. Honest(g)
    <2>1. g \in From(g)
      BY HopShape, PathShape DEF From
    <2> QED BY <2>1
  <1>3. CASE answer[g] = "tunnel_ready"
    BY <1>1, <1>3 DEF ReadyMeansReached
  <1>4. CASE ~Last(g) /\ answer[Down(g)] = "tunnel_ready"
    <2>1. /\ Down(g) \in Hops /\ Down(g)[1] = g[1] /\ Down(g)[2] = g[2]
          /\ From(Down(g)) \subseteq From(g)
      BY <1>4, DownIsHop
    <2>2. <<Down(g)[1], Down(g)[2]>> \in reached
      BY <1>4, <2>1 DEF ReadyMeansReached
    <2> QED BY <1>1, <2>1, <2>2
  <1> QED BY <1>2, <1>3, <1>4, ReadyChange

LEMMA IInvStep == IInv /\ [Next]_vars => IInv'
  BY TypeStep, RankStep, HopsStep, DeliveryStep, KeptReachedStep, ReadyStep DEF IInv

LEMMA IInvHolds == Spec => []IInv
  BY InitInv, IInvStep, PTL DEF Spec

\* Every component of the state keeps its type.
THEOREM ChainTypeOK == Spec => []TypeOK
  <1>1. IInv => TypeOK
    BY DEF IInv
  <1> QED BY IInvHolds, <1>1, PTL

\* On honest paths tunnel_ready is never said before the target has reached its
\* own upstream, however many relays pass the word on (relay.rs terminate and
\* forward).
THEOREM ChainReadyMeansReached == Spec => []ReadyMeansReached
  <1>1. IInv => ReadyMeansReached
    BY DEF IInv
  <1> QED BY IInvHolds, <1>1, PTL

\* A client keeps a candidate with an honest target only once that target has
\* reached its upstream, whatever the relays in between claim (chain.rs
\* establish).
THEOREM ChainKeptIsReached == Spec => []KeptIsReached
  <1>1. IInv => KeptIsReached
    BY DEF IInv
  <1> QED BY IInvHolds, <1>1, PTL

\* No honest target carries client bytes for a candidate its client gave up
\* (http.rs connect_backend).
THEOREM ChainNoDelivery == Spec => []NoDeliveryForAbandoned
  <1>1. IInv => NoDeliveryForAbandoned
    BY DEF IInv
  <1> QED BY IInvHolds, <1>1, PTL

-----------------------------------------------------------------------------
(* What a refusal meets on its way back.                                   *)

Early == {"none", "open", "dial"}

\* Nothing runs yet for the candidate a client is about to dial.
Untouched ==
  \A h \in Hops : phase[h[1]] = "dial" /\ h[2] = rank[h[1]] => hop[h] = "none"

\* A handler that is still to dial or to hear its neighbour has said nothing.
Unanswered == \A h \in Hops : hop[h] \in Early \cup {"offer"} => answer[h] = Silence

\* Nothing runs below a handler that has not dialed ...
NoneBelow == \A h \in Hops : ~Last(h) /\ hop[h] \in Early => hop[Down(h)] = "none"

\* ... and what does run below one that has answered has answered before it.
AnsweredBelow ==
  \A h \in Hops : ~Last(h) /\ Honest(h) /\ answer[h] # Silence =>
    hop[Down(h)] = "none" \/ answer[Down(h)] # Silence

Reasoned == Untouched /\ Unanswered /\ NoneBelow /\ AnsweredBelow /\ ReasonSurvives

\* The reasons a handler's task can have for its answer.
Grounds(h, status) ==
  \/ Last(h) \/ ~Honest(h)
  \/ hop[h] \in Early /\ status \in HonestReasons
  \/ hop[h] = "offer" /\ answer[Down(h)] # Silence /\ status = Sanitised(answer[Down(h)])

\* The kinds of step, by what they do to handlers and answers.
Dials(cl) ==
  /\ phase[cl] = "dial" /\ phase'[cl] = "await"
  /\ hop' = [hop EXCEPT ![<<cl, rank[cl], 1>>] = "open"] /\ UNCHANGED answer

Tells(h, status) ==
  /\ hop[h] \in {"open", "dial", "offer"} /\ status # Silence /\ Grounds(h, status)
  /\ \E state \in {"ending", "gone", "inner", "splice"} : hop' = [hop EXCEPT ![h] = state]
  /\ answer' = [answer EXCEPT ![h] = status]

Accepts(h) == hop[h] = "open" /\ hop' = [hop EXCEPT ![h] = "dial"] /\ UNCHANGED answer

\* Handlers wind up, or nothing happens to them.
Winds ==
  /\ \A g \in Hops : hop'[g] = hop[g] \/ (hop[g] # "none" /\ hop'[g] \in {"splice", "gone"})
  /\ UNCHANGED answer

LEMMA HopEffect ==
  ASSUME TypeOK, NEW h \in Hops, HopStep(h)
  PROVE  \/ \E status : Tells(h, status)
         \/ DialNext(h) \/ Accepts(h) \/ Winds
  <1> USE DEF TypeOK, Become, Answer
  <1>1. CASE RefuseBusy(h) \/ HopUnreachable(h)
    <2>1. ASSUME NEW status \in {"relay_busy", "tunnel_hop_unreachable"},
                 NEW state \in {"gone", "ending"},
                 hop[h] \in {"open", "dial"}, Become(h, state), Answer(h, status)
          PROVE  Tells(h, status)
      BY <2>1 DEF Tells, Grounds, Early, HonestReasons, Silence
    <2> QED BY <1>1, <2>1 DEF RefuseBusy, HopUnreachable
  <1>2. CASE Open(h)
    <2> DEFINE verdict == Verdict(Onward(h), Node(h), MaxHops)
    <2>1. CASE verdict = "ok"
      BY <1>2, <2>1 DEF Open, Accepts
    <2>2. CASE verdict # "ok"
      <3>1. verdict \in HonestReasons /\ verdict # Silence
        BY <2>2, VerdictShape DEF HonestReasons, Silence
      <3>2. /\ hop[h] = "open" /\ hop' = [hop EXCEPT ![h] = "ending"]
            /\ answer' = [answer EXCEPT ![h] = verdict]
        BY <1>2, <2>2 DEF Open
      <3> HIDE DEF verdict
      <3>3. Tells(h, verdict)
        BY <3>1, <3>2 DEF Tells, Grounds, Early
      <3> QED BY <3>3
    <2> QED BY <2>1, <2>2
  <1>3. CASE TerminalReaches(h)
    <2>1. Tells(h, "tunnel_ready")
      BY <1>3 DEF TerminalReaches, Tells, Grounds, Silence
    <2> QED BY <2>1
  <1>4. CASE RelayAnswer(h)
    <2> DEFINE status == Sanitised(answer[Down(h)])
    <2>1. /\ hop[h] = "offer" /\ answer[Down(h)] # Silence
          /\ \E state \in {"splice", "ending"} : hop' = [hop EXCEPT ![h] = state]
          /\ answer' = [answer EXCEPT ![h] = status]
      BY <1>4 DEF RelayAnswer
    <2>2. status # Silence
      BY SanitisedShape DEF KnownAckStatuses, UnknownStatus, Silence
    <2>3. Grounds(h, status)
      BY <2>1 DEF Grounds
    <2> HIDE DEF status
    <2>4. Tells(h, status)
      BY <2>1, <2>2, <2>3 DEF Tells
    <2> QED BY <2>4
  <1>5. CASE \E reply \in Replies : RogueAnswers(h, reply)
    <2>1. PICK reply \in Replies : RogueAnswers(h, reply)
      BY <1>5
    <2>2. reply # Silence
      BY DEF Replies, KnownAckStatuses, UnknownStatus, Silence
    <2>3. Tells(h, reply)
      BY <2>1, <2>2 DEF RogueAnswers, Tells, Grounds
    <2> QED BY <2>3
  <1>6. CASE InnerAccept(h) \/ RefusalDone(h) \/ NoticeClosed(h) \/ HandshakeTimeout(h) \/ SpliceEnds(h)
    <2>1. hop[h] # "none" /\ UNCHANGED answer
          /\ \E state \in {"splice", "gone"} : hop' = [hop EXCEPT ![h] = state]
      BY <1>6 DEF InnerAccept, RefusalDone, NoticeClosed, HandshakeTimeout, SpliceEnds, End
    <2> QED BY <2>1 DEF Winds
  <1> QED BY <1>1, <1>2, <1>3, <1>4, <1>5, <1>6 DEF HopStep

LEMMA StepEffect ==
  ASSUME TypeOK, [Next]_vars
  PROVE  \/ \E cl \in Clients : Dials(cl)
         \/ \E h \in Hops : DialNext(h) \/ Accepts(h) \/ \E status : Tells(h, status)
         \/ Winds
  <1>1. ASSUME NEW cl \in Clients, ClientStep(cl)
        PROVE  Dials(cl) \/ Winds
    <2>1. CASE DialFirst(cl)
      BY <2>1 DEF DialFirst, Become, Dials, TypeOK
    <2>2. CASE UNCHANGED <<hop, answer>>
      BY <2>2 DEF Winds
    <2> QED BY <1>1, <2>1, <2>2 DEF ClientStep, CandidateFails, CandidateTimesOut, NextCandidate,
         ReadReady, EndToEnd, StaticConnects, ConnectFails, ClientCloses
  <1>2. ASSUME NEW n \in Nodes, Crash(n)
        PROVE  Winds
    BY <1>2 DEF Crash, Alive, Winds
  <1>3. CASE UNCHANGED vars
    BY <1>3 DEF vars, Winds
  <1> QED BY <1>1, <1>2, <1>3, HopEffect DEF Next

\* A handler starts when the party above it dials it, and never again.
LEMMA Starts ==
  ASSUME TypeOK, RankFits, Untouched, NoneBelow, [Next]_vars, NEW g \in Hops, hop'[g] # hop[g],
         hop[g] = "none" \/ hop'[g] \in Early \cup {"offer"}
  PROVE  \/ /\ hop[g] = "none" /\ hop'[g] = "open"
            /\ phase[g[1]] = "dial" /\ phase'[g[1]] = "await" /\ g[2] = rank[g[1]] /\ g[3] = 1
         \/ /\ hop[g] = "none" /\ hop'[g] = "open"
            /\ \E h \in Hops : ~Last(h) /\ g = Down(h) /\ hop[h] = "dial" /\ hop'[h] = "offer"
         \/ hop[g] = "open" /\ hop'[g] = "dial"
         \/ hop[g] = "dial" /\ hop'[g] = "offer"
  <1> USE DEF TypeOK
  <1>1. ASSUME NEW cl \in Clients, Dials(cl)
        PROVE  /\ hop[g] = "none" /\ hop'[g] = "open"
               /\ phase[g[1]] = "dial" /\ phase'[g[1]] = "await" /\ g[2] = rank[g[1]] /\ g[3] = 1
    <2>1. g = <<cl, rank[cl], 1>> /\ hop'[g] = "open"
      BY <1>1 DEF Dials
    <2>2. g[1] = cl /\ g[2] = rank[cl] /\ g[3] = 1
      BY <2>1
    <2> QED BY <1>1, <2>1, <2>2 DEF Dials, Untouched
  <1>2. ASSUME NEW h \in Hops, DialNext(h)
        PROVE  \/ /\ hop[g] = "none" /\ hop'[g] = "open"
                  /\ ~Last(h) /\ g = Down(h) /\ hop[h] = "dial" /\ hop'[h] = "offer"
               \/ hop[g] = "dial" /\ hop'[g] = "offer"
    <2>1. /\ hop[h] = "dial" /\ ~Last(h)
          /\ hop' = [hop EXCEPT ![h] = "offer", ![Down(h)] = "open"]
      BY <1>2 DEF DialNext
    <2>2. Down(h) \in Hops /\ Down(h) # h
      BY <2>1, DownIsHop
    <2>3. hop[Down(h)] = "none"
      BY <2>1 DEF NoneBelow, Early
    <2>4. g = h \/ g = Down(h)
      BY <2>1, <2>2
    <2> QED BY <2>1, <2>2, <2>3, <2>4
  <1>3. ASSUME NEW h \in Hops, Accepts(h)
        PROVE  hop[g] = "open" /\ hop'[g] = "dial"
    BY <1>3 DEF Accepts
  <1>4. ASSUME NEW h \in Hops, NEW status, Tells(h, status)
        PROVE  FALSE
    BY <1>4 DEF Tells, Early
  <1>5. CASE Winds
    BY <1>5 DEF Winds, Early
  <1> QED BY <1>1, <1>2, <1>3, <1>4, <1>5, StepEffect

\* An answer is given once, and its handler moves on with it.
LEMMA Answers ==
  ASSUME TypeOK, Unanswered, [Next]_vars, NEW g \in Hops, answer'[g] # answer[g]
  PROVE  /\ answer[g] = Silence /\ answer'[g] # Silence
         /\ hop[g] \in {"open", "dial", "offer"} /\ hop'[g] \notin Early \cup {"offer"}
         /\ Grounds(g, answer'[g])
         /\ \A d \in Hops : d # g => hop'[d] = hop[d] /\ answer'[d] = answer[d]
  <1> USE DEF TypeOK
  <1>1. PICK h \in Hops : \E status : Tells(h, status)
    BY StepEffect DEF Dials, DialNext, Accepts, Winds
  <1>2. PICK status : Tells(h, status)
    BY <1>1
  <1>3. g = h /\ answer'[g] = status
    BY <1>2 DEF Tells
  <1>4. /\ hop[g] \in {"open", "dial", "offer"} /\ hop'[g] \notin Early \cup {"offer"}
        /\ \A d \in Hops : d # g => hop'[d] = hop[d] /\ answer'[d] = answer[d]
    BY <1>2, <1>3 DEF Tells, Early
  <1>5. Grounds(g, answer'[g]) /\ answer'[g] # Silence
    BY <1>2, <1>3 DEF Tells
  <1>6. answer[g] = Silence
    BY <1>4 DEF Unanswered, Early
  <1> QED BY <1>4, <1>5, <1>6

LEMMA DownUnique ==
  ASSUME NEW h \in Hops, NEW g \in Hops
  PROVE  Down(g)[3] # 1 /\ (Down(h) = Down(g) => h = g)
  <1>1. /\ g = <<g[1], g[2], g[3]>> /\ g[3] \in Nat \ {0}
        /\ h = <<h[1], h[2], h[3]>> /\ h[3] \in Nat \ {0}
    BY HopShape, PathShape
  <1>2. Down(g)[3] = g[3] + 1
    BY DEF Down
  <1>3. Down(h) = Down(g) => h[1] = g[1] /\ h[2] = g[2] /\ h[3] + 1 = g[3] + 1
    BY DEF Down
  <1> QED BY <1>1, <1>2, <1>3

\* A client comes to dial only by going on to its next candidate.
LEMMA DialKept ==
  ASSUME TypeOK, [Next]_vars, NEW c \in Clients, phase'[c] = "dial", rank'[c] = rank[c]
  PROVE  phase[c] = "dial"
  <1> USE DEF TypeOK
  <1>1. ASSUME NEW cl \in Clients, ClientStep(cl)
        PROVE  phase[c] = "dial"
    <2>1. CASE CandidateFails(cl) \/ CandidateTimesOut(cl)
      <3>1. rank' = [rank EXCEPT ![cl] = @ + 1] /\ \E state : phase' = [phase EXCEPT ![cl] = state]
        BY <2>1 DEF CandidateFails, CandidateTimesOut, NextCandidate
      <3>2. rank[cl] + 1 # rank[cl]
        OBVIOUS
      <3>3. cl # c
        BY <3>1, <3>2
      <3> QED BY <3>1, <3>3
    <2>2. CASE \E state \in Phases \ {"dial"} : phase' = [phase EXCEPT ![cl] = state]
      BY <2>2
    <2>3. CASE DialFirst(cl) \/ ReadReady(cl) \/ EndToEnd(cl) \/ StaticConnects(cl)
               \/ ConnectFails(cl) \/ ClientCloses(cl)
      BY <2>2, <2>3 DEF DialFirst, ReadReady, EndToEnd, StaticConnects, ConnectFails, ClientCloses, Phases
    <2> QED BY <1>1, <2>1, <2>3 DEF ClientStep
  <1>2. CASE UNCHANGED phase
    BY <1>2
  <1>3. ASSUME NEW h \in Hops, HopStep(h)
        PROVE  UNCHANGED phase
    BY <1>3 DEF HopStep, RefuseBusy, Open, TerminalReaches, DialNext, HopUnreachable, RelayAnswer,
       RogueAnswers, InnerAccept, RefusalDone, NoticeClosed, HandshakeTimeout, SpliceEnds, End, ClientUnchanged
  <1> QED BY <1>1, <1>2, <1>3 DEF Next, Crash, ClientUnchanged, vars

LEMMA UntouchedStep ==
  ASSUME TypeOK, RankFits, StartedInOrder, Untouched, NoneBelow, [Next]_vars
  PROVE  Untouched'
  <1> SUFFICES ASSUME NEW g \in Hops, phase'[g[1]] = "dial", g[2] = rank'[g[1]], hop'[g] # "none"
               PROVE  FALSE
    BY DEF Untouched
  <1>1. g[1] \in Clients /\ rank[g[1]] \in Nat
    BY HopShape DEF TypeOK
  <1>2. \A h \in Hops : h[1] = g[1] /\ h[2] = g[2] => hop[h] = "none"
    <2>1. CASE rank'[g[1]] = rank[g[1]]
      BY <1>1, <2>1, DialKept DEF Untouched
    <2>2. CASE rank'[g[1]] = rank[g[1]] + 1
      BY <1>1, <2>2 DEF StartedInOrder
    <2> QED BY <1>1, <2>1, <2>2, RankStep
  <1>3. hop[g] = "none"
    BY <1>2
  <1>4. PICK h \in Hops : ~Last(h) /\ g = Down(h) /\ hop[h] = "dial"
    BY <1>3, Starts
  <1>5. h[1] = g[1] /\ h[2] = g[2]
    BY <1>4, DownIsHop
  <1> QED BY <1>2, <1>4, <1>5

\* The handler below one that has not dialed, or has dialed already, does not start.
LEMMA BelowWaits ==
  ASSUME TypeOK, RankFits, Untouched, NoneBelow, [Next]_vars,
         NEW g \in Hops, ~Last(g), hop[Down(g)] = "none", hop[g] # "dial" \/ hop'[g] # "offer"
  PROVE  hop'[Down(g)] = "none"
  <1> SUFFICES ASSUME hop'[Down(g)] # "none" PROVE FALSE
    OBVIOUS
  <1>1. Down(g) \in Hops
    BY DownIsHop
  <1>2. Down(g)[3] # 1
    BY DownUnique
  <1>3. PICK h \in Hops : Down(g) = Down(h) /\ hop[h] = "dial" /\ hop'[h] = "offer"
    BY <1>1, <1>2, Starts
  <1>4. h = g
    BY <1>3, DownUnique
  <1> QED BY <1>3, <1>4

LEMMA NoneBelowStep ==
  ASSUME TypeOK, RankFits, Untouched, NoneBelow, [Next]_vars
  PROVE  NoneBelow'
  <1> SUFFICES ASSUME NEW g \in Hops, ~Last(g), hop'[g] \in Early
               PROVE  hop'[Down(g)] = "none"
    BY DEF NoneBelow, Early, Down, Last, Path
  <1>1. hop[g] \in Early
    BY Starts DEF Early
  <1>2. hop[Down(g)] = "none" /\ hop'[g] # "offer"
    BY <1>1 DEF NoneBelow, Early
  <1> QED BY <1>2, BelowWaits

LEMMA UnansweredStep ==
  ASSUME TypeOK, RankFits, Untouched, NoneBelow, Unanswered, [Next]_vars
  PROVE  Unanswered'
  <1> SUFFICES ASSUME NEW g \in Hops, hop'[g] \in Early \cup {"offer"}
               PROVE  answer'[g] = Silence
    BY DEF Unanswered, Early, Silence
  <1>1. answer'[g] = answer[g]
    BY Answers
  <1>2. hop[g] \in Early \cup {"offer"}
    BY Starts DEF Early
  <1> QED BY <1>1, <1>2 DEF Unanswered

GoodAnswers == HonestReasons \cup {"tunnel_ready", "relay_forwarding_unavailable", UnknownStatus}

LEMMA PassedOn ==
  ASSUME NEW reply
  PROVE  /\ Sanitised(reply) \in GoodAnswers
         /\ reply \in HonestReasons => Sanitised(reply) = reply
  BY DEF Sanitised, KnownAckStatuses, GoodAnswers, HonestReasons

LEMMA ReasonStep ==
  ASSUME TypeOK, RankFits, Reasoned, [Next]_vars
  PROVE  AnsweredBelow' /\ ReasonSurvives'
  <1> USE DEF Reasoned
  <1> SUFFICES ASSUME NEW g \in Hops, ~Last(g), Honest(g), answer'[g] # Silence
               PROVE  /\ hop'[Down(g)] = "none" \/ answer'[Down(g)] # Silence
                      /\ answer'[g] \in GoodAnswers
                      /\ answer'[Down(g)] \in HonestReasons => answer'[g] = answer'[Down(g)]
    BY DEF AnsweredBelow, ReasonSurvives, GoodAnswers, HonestReasons, Silence, UnknownStatus,
           Last, Path, Honest, Node, Down
  <1> DEFINE d == Down(g)
  <1>0. d \in Hops /\ d # g
    BY DownIsHop
  <1>s. Silence \notin HonestReasons
    BY DEF Silence, HonestReasons
  <1>1. CASE answer'[g] # answer[g]
    <2>1. Grounds(g, answer'[g]) /\ hop'[d] = hop[d] /\ answer'[d] = answer[d]
      BY <1>0, <1>1, Answers
    <2>2. CASE hop[g] \in Early /\ answer'[g] \in HonestReasons
      <3>1. hop[d] = "none" /\ answer[d] = Silence
        BY <1>0, <2>2 DEF NoneBelow, Unanswered, Early
      <3> QED BY <1>s, <2>1, <2>2, <3>1 DEF GoodAnswers
    <2>3. CASE answer[d] # Silence /\ answer'[g] = Sanitised(answer[d])
      BY <2>1, <2>3, PassedOn
    <2> QED BY <2>1, <2>2, <2>3 DEF Grounds
  <1>2. CASE answer'[g] = answer[g]
    <2>1. /\ answer[g] \in GoodAnswers
          /\ answer[d] \in HonestReasons => answer[g] = answer[d]
          /\ hop[d] = "none" \/ answer[d] # Silence
      BY <1>2 DEF ReasonSurvives, AnsweredBelow, GoodAnswers
    <2>2. CASE answer[d] # Silence
      <3>1. answer'[d] = answer[d]
        BY <1>0, <2>2, Answers
      <3> QED BY <1>2, <2>1, <2>2, <3>1
    <2>3. CASE hop[d] = "none" /\ answer[d] = Silence
      <3>1. hop[g] # "dial"
        BY <1>2 DEF Unanswered, Early
      <3>2. hop'[d] = "none"
        BY <2>3, <3>1, BelowWaits
      <3>3. answer'[d] = answer[d]
        BY <1>0, <2>3, Answers
      <3> QED BY <1>2, <1>s, <2>1, <2>3, <3>2, <3>3
    <2> QED BY <2>1, <2>2, <2>3
  <1> QED BY <1>1, <1>2

LEMMA ReasonedStep == IInv /\ Reasoned /\ [Next]_vars => Reasoned'
  BY UntouchedStep, UnansweredStep, NoneBelowStep, ReasonStep DEF IInv, Reasoned

LEMMA InitReasoned == Init => Reasoned
  <1> SUFFICES ASSUME Init PROVE Reasoned
    OBVIOUS
  <1>1. \A h \in Hops : hop[h] = "none" /\ answer[h] = Silence
    BY DEF Init
  <1>2. \A h \in Hops : ~Last(h) => hop[Down(h)] = "none"
    BY <1>1, DownIsHop
  <1> QED BY <1>1, <1>2 DEF Reasoned, Untouched, Unanswered, NoneBelow, AnsweredBelow, ReasonSurvives

\* An honest relay passes a refusal on as it was given and nothing foreign with
\* it, whoever crashes, lies or leaves meanwhile (relay.rs KNOWN_ACK_STATUSES).
THEOREM ChainReasonSurvives == Spec => []ReasonSurvives
  <1>1. Reasoned => ReasonSurvives
    BY DEF Reasoned
  <1> QED BY <1>1, IInvHolds, InitReasoned, ReasonedStep, PTL DEF Spec

-----------------------------------------------------------------------------
(* Refinement.                                                             *)

HonestTargets == \A cl \in Clients : \A j \in 1..NumCandidates(cl) : Target(cl, j) \notin Rogues

Outcomes == [cl \in Clients |-> Outcome(cl)]

LEMMA InitRefines == Init => F!Init
  <1> SUFFICES ASSUME Init PROVE F!Init
    OBVIOUS
  <1>1. \A cl \in Clients : Outcome(cl) = "none"
    BY DEF Init, Outcome
  <1> QED BY <1>1 DEF F!Init, Init

LEMMA StepRefines ==
  ASSUME HonestTargets, IInv, IInv', [Next]_vars
  PROVE  [F!Next]_(F!fvars)
  <1> USE DEF IInv, TypeOK
  <1>1. ASSUME NEW cl \in Clients, ClientStep(cl)
        PROVE  F!Walk(cl) \/ UNCHANGED <<rank, Outcomes, reached>>
    <2>1. CASE CandidateFails(cl) \/ CandidateTimesOut(cl)
      <3>1. /\ phase[cl] \in {"dial", "await", "e2e"}
            /\ phase' = [phase EXCEPT ![cl] = IF rank[cl] < NumCandidates(cl) THEN "dial" ELSE "static"]
            /\ rank' = [rank EXCEPT ![cl] = @ + 1] /\ UNCHANGED reached
        BY <2>1 DEF CandidateFails, CandidateTimesOut, NextCandidate
      <3>2. Outcome(cl) = "none" /\ UNCHANGED Outcomes
        BY <3>1 DEF Outcome, Outcomes
      <3>3. rank[cl] <= NumCandidates(cl)
        BY <3>1 DEF RankFits
      <3> QED BY <3>1, <3>2, <3>3 DEF F!Walk, F!GiveUp, Outcomes
    <2>2. CASE DialFirst(cl) \/ ReadReady(cl) \/ ClientCloses(cl)
      BY <2>2 DEF DialFirst, ReadReady, ClientCloses, Outcome, Outcomes
    <2>3. CASE EndToEnd(cl)
      <3>1. phase[cl] = "e2e" /\ phase' = [phase EXCEPT ![cl] = "kept"] /\ UNCHANGED <<rank, reached>>
        BY <2>3 DEF EndToEnd
      <3>2. Outcome(cl) = "none" /\ Outcomes' = [Outcomes EXCEPT ![cl] = "chain"]
        BY <3>1 DEF Outcome, Outcomes
      <3>3. <<cl, rank[cl]>> \in reached
        <4>1. rank[cl] \in 1..NumCandidates(cl)
          BY <3>1, PathShape DEF RankFits
        <4>2. Target(cl, rank'[cl]) \notin Rogues /\ phase'[cl] = "kept"
          BY <3>1, <4>1 DEF HonestTargets
        <4> QED BY <3>1, <4>2 DEF KeptIsReached, Target, Path
      <3> QED BY <3>1, <3>2, <3>3 DEF F!Walk, F!Keep, F!Settle, Outcomes
    <2>4. CASE StaticConnects(cl) \/ ConnectFails(cl)
      <3>1. /\ phase[cl] = "static" /\ UNCHANGED <<rank, reached>>
            /\ \/ HasStatic /\ phase' = [phase EXCEPT ![cl] = "static_up"]
               \/ phase' = [phase EXCEPT ![cl] = "failed"]
        BY <2>4 DEF StaticConnects, ConnectFails
      <3>2. rank[cl] > NumCandidates(cl)
        <4>1. NumCandidates(cl) \in Nat /\ rank[cl] \in Nat
          BY PathShape
        <4>2. ~(rank[cl] <= NumCandidates(cl))
          BY <3>1 DEF RankFits
        <4> QED BY <4>1, <4>2
      <3>3. /\ Outcome(cl) = "none"
            /\ \/ HasStatic /\ Outcomes' = [Outcomes EXCEPT ![cl] = "static"]
               \/ Outcomes' = [Outcomes EXCEPT ![cl] = "failed"]
        BY <3>1, ZenonT(60) DEF Outcome, Outcomes
      <3> QED BY <3>1, <3>2, <3>3 DEF F!Walk, F!FallBack, F!Fail, F!Settle, Outcomes
    <2> QED BY <1>1, <2>1, <2>2, <2>3, <2>4 DEF ClientStep
  <1>2. ASSUME NEW h \in Hops, HopStep(h)
        PROVE  (\E k \in 1..NumCandidates(h[1]) : F!Reach(h[1], k)) \/ UNCHANGED <<rank, Outcomes, reached>>
    <2>1. CASE TerminalReaches(h)
      <3>1. /\ hop[h] = "dial" /\ UNCHANGED <<phase, rank>>
            /\ reached' = reached \cup {<<h[1], h[2]>>}
        BY <2>1 DEF TerminalReaches, ClientUnchanged
      <3>2. h[1] \in Clients /\ h[2] \in 1..NumCandidates(h[1])
        BY HopShape
      <3>3. h[2] <= rank[h[1]]
        BY <3>1 DEF StartedInOrder
      <3>4. UNCHANGED Outcomes
        BY <3>1 DEF Outcomes, Outcome
      <3>5. F!Reach(h[1], h[2])
        BY <3>1, <3>3, <3>4 DEF F!Reach, Outcomes
      <3> QED BY <3>2, <3>5
    <2>2. CASE UNCHANGED <<phase, rank, reached>>
      BY <2>2 DEF Outcomes, Outcome
    <2> QED BY <1>2, <2>1, <2>2 DEF HopStep, RefuseBusy, Open, DialNext, HopUnreachable, RelayAnswer,
         RogueAnswers, InnerAccept, RefusalDone, NoticeClosed, HandshakeTimeout, SpliceEnds, End, ClientUnchanged
  <1>3. ASSUME UNCHANGED <<phase, rank, reached>>
        PROVE  UNCHANGED <<rank, Outcomes, reached>>
    BY <1>3 DEF Outcomes, Outcome
  <1>4. ASSUME NEW n \in Nodes, Crash(n)
        PROVE  UNCHANGED <<phase, rank, reached>>
    BY <1>4 DEF Crash, ClientUnchanged
  <1>5. \A h \in Hops : h[1] \in Clients
    BY HopShape
  <1>6. ASSUME NEW cl \in Clients, F!Walk(cl) \/ \E k \in 1..NumCandidates(cl) : F!Reach(cl, k)
        PROVE  F!Next
    BY <1>6 DEF F!Next
  <1>7. UNCHANGED <<rank, Outcomes, reached>> => UNCHANGED F!fvars
    BY DEF F!fvars, Outcomes
  <1> QED BY <1>1, <1>2, <1>3, <1>4, <1>5, <1>6, <1>7 DEF Next, vars

\* With targets that are not rogues, a client's walk over chains of relays, any
\* of which may crash or lie, is the abstract failover walk (server.rs
\* connect_upstream, http.rs connect_backend).
THEOREM ChainImplementsFailover ==
  ASSUME HonestTargets
  PROVE  Spec => ImplementsFailover
  <1>1. IInv /\ IInv' /\ [Next]_vars => [F!Next]_(F!fvars)
    BY StepRefines, HonestTargets
  <1> QED BY <1>1, InitRefines, IInvHolds, PTL DEF Spec, ImplementsFailover, F!Spec

===============================================================================

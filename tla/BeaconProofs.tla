---------------------------- MODULE BeaconProofs ----------------------------
(***************************************************************************)
(* The answers of a node are bounded, for any number of nodes and hosts,   *)
(* any window and cap, and whatever the network and strangers do.          *)
(***************************************************************************)
EXTENDS Beacon, FiniteSetTheorems, TLAPS

\* What was sent in the window is in the table, with its age, and the table
\* never holds more hosts than the cap.
Remembered ==
    \A n \in Nodes : \A p \in sent[n] :
        p[1] \in Hosts /\ p[2] < Gap /\ answered[n][p[1]] = p[2]
Filled == \A n \in Nodes : Cardinality(Live(n)) <= Cap

IInv == TypeOK /\ Remembered /\ Filled

-----------------------------------------------------------------------------
LEMMA LiveIsFinite == \A n \in Nodes : IsFiniteSet(Live(n))
<1> SUFFICES ASSUME NEW n \in Nodes PROVE IsFiniteSet(Live(n))
  OBVIOUS
<1>1. Live(n) \in SUBSET Hosts
  BY DEF Live
<1> QED BY <1>1, FS_Subset, BeaconAssumption DEF BeaconAssumption

\* Hellos are datagrams.
LEMMA HelloType ==
  ASSUME NEW kind \in {"announce", "answer"}, NEW m \in Nodes, NEW n \in Nodes
  PROVE  Hello(kind, m, n) \in Datagrams
BY BeaconAssumption DEF BeaconAssumption, Hello, Datagrams

\* What answering does: nothing, or an answer to a host that was not in the
\* table while the table had room.
LEMMA AnswerToEffect ==
  ASSUME TypeOK, NEW n \in Nodes, NEW d \in Datagrams, NEW left \in SUBSET Datagrams,
         d.from \in Hosts, AnswerTo(n, d, left)
  PROVE  /\ net' \in SUBSET Datagrams
         /\ \/ UNCHANGED <<answered, sent>>
            \/ /\ d.from \notin Live(n) /\ ~(Cardinality(Live(n)) >= Cap)
               /\ answered' = [answered EXCEPT ![n] = [answered[n] EXCEPT ![d.from] = 0]]
               /\ sent' = [sent EXCEPT ![n] = @ \cup {<<d.from, 0>>}]
<1>1. CASE Allow(n, d.from) = {}
  BY <1>1 DEF AnswerTo
<1>2. CASE Allow(n, d.from) # {}
  <2>1. Allow(n, d.from) = {[answered[n] EXCEPT ![d.from] = 0]}
        /\ d.from \notin Live(n) /\ ~(Cardinality(Live(n)) >= Cap)
    BY <1>2 DEF Allow
  <2>2. PICK answer \in Answers(n, d) : net' = left \cup answer
    BY <1>2 DEF AnswerTo
  <2>3. answer \in SUBSET Datagrams
    BY HelloType DEF Answers
  <2> QED BY <1>2, <2>1, <2>2, <2>3 DEF AnswerTo
<1> QED BY <1>1, <1>2

LEMMA HearEffect ==
  ASSUME TypeOK, NEW d \in Datagrams, NEW left \in SUBSET Datagrams, Hear(d, left)
  PROVE  /\ net' \in SUBSET Datagrams
         /\ found' \in [Nodes -> SUBSET (Nodes \X Hosts)]
         /\ UNCHANGED <<announcing, unruly>>
         /\ \/ UNCHANGED <<answered, sent>>
            \/ /\ d.from \in Hosts
               /\ d.from \notin Live(d.to) /\ ~(Cardinality(Live(d.to)) >= Cap)
               /\ answered' = [answered EXCEPT ![d.to] = [answered[d.to] EXCEPT ![d.from] = 0]]
               /\ sent' = [sent EXCEPT ![d.to] = @ \cup {<<d.from, 0>>}]
<1>1. d.to \in Nodes
  BY DEF Datagrams
<1>2. CASE Ignored(d.to, d)
  BY <1>2 DEF Hear, TypeOK
<1>3. CASE ~Ignored(d.to, d)
  <2>1. d.from \in Hosts
    BY <1>3 DEF Ignored, OnLocalNetwork
  <2>2. found' = [found EXCEPT ![d.to] = @ \cup Sighting(d)]
    BY <1>3 DEF Hear
  <2>3. Sighting(d) \in SUBSET (Nodes \X Hosts)
    BY <2>1 DEF Sighting
  <2>4. found' \in [Nodes -> SUBSET (Nodes \X Hosts)]
    BY <1>1, <2>2, <2>3 DEF TypeOK
  <2>5. CASE CallsForAnswer(d)
    <3>1. AnswerTo(d.to, d, left)
      BY <1>3, <2>5 DEF Hear
    <3> QED BY <1>1, <2>1, <2>4, <3>1, AnswerToEffect DEF Hear
  <2>6. CASE ~CallsForAnswer(d)
    BY <1>3, <2>4, <2>6 DEF Hear
  <2> QED BY <2>5, <2>6
<1> QED BY <1>2, <1>3

-----------------------------------------------------------------------------
LEMMA InitIInv == Init => IInv
<1> SUFFICES ASSUME Init PROVE IInv
  OBVIOUS
<1>1. TypeOK
  BY BeaconAssumption DEF BeaconAssumption, Init, TypeOK
<1>2. Remembered
  BY DEF Init, Remembered
<1>3. \A n \in Nodes : Live(n) = {}
  BY BeaconAssumption DEF BeaconAssumption, Init, Live
<1>4. Filled
  <2>1. Cardinality({}) <= Cap
    BY FS_EmptySet, BeaconAssumption, SMT DEF BeaconAssumption
  <2>2. ASSUME NEW n \in Nodes
        PROVE  Cardinality(Live(n)) <= Cap
    BY <1>3, <2>1
  <2> QED BY <2>2 DEF Filled
<1> QED BY <1>1, <1>2, <1>4 DEF IInv

\* An answer to a host that is new to a table with room.
LEMMA AnswerKeepsIInv ==
  ASSUME IInv, NEW n \in Nodes, NEW h \in Hosts,
         h \notin Live(n), ~(Cardinality(Live(n)) >= Cap),
         answered' = [answered EXCEPT ![n] = [answered[n] EXCEPT ![h] = 0]],
         sent' = [sent EXCEPT ![n] = @ \cup {<<h, 0>>}]
  PROVE  /\ answered' \in [Nodes -> [Hosts -> 0..Gap]]
         /\ sent' \in [Nodes -> SUBSET (Hosts \X (0..(Gap - 1)))]
         /\ Remembered' /\ Filled'
<1>1. 0 \in 0..Gap /\ 0 \in 0..(Gap - 1) /\ 0 < Gap
  BY BeaconAssumption DEF BeaconAssumption
<1>2. answered' \in [Nodes -> [Hosts -> 0..Gap]]
  BY <1>1 DEF IInv, TypeOK
<1>3. sent' \in [Nodes -> SUBSET (Hosts \X (0..(Gap - 1)))]
  BY <1>1 DEF IInv, TypeOK
<1>4. Remembered'
  <2> SUFFICES ASSUME NEW m \in Nodes, NEW p \in sent'[m]
               PROVE  p[1] \in Hosts /\ p[2] < Gap /\ answered'[m][p[1]] = p[2]
    BY DEF Remembered
  <2>1. CASE m # n
    BY <2>1 DEF IInv, TypeOK, Remembered
  <2>2. CASE m = n /\ p = <<h, 0>>
    BY <1>1, <2>2 DEF IInv, TypeOK
  <2>3. CASE m = n /\ p \in sent[n]
    <3>1. p[1] \in Hosts /\ p[2] < Gap /\ answered[n][p[1]] = p[2]
      BY <2>3 DEF IInv, Remembered
    <3>2. p[1] # h
      BY <3>1 DEF Live
    <3> QED BY <2>3, <3>1, <3>2 DEF IInv, TypeOK
  <2>4. m = n => p = <<h, 0>> \/ p \in sent[n]
    BY DEF IInv, TypeOK
  <2> QED BY <2>1, <2>2, <2>3, <2>4
<1>5. Filled'
  <2> SUFFICES ASSUME NEW m \in Nodes PROVE Cardinality(Live(m)') <= Cap
    BY DEF Filled
  <2>1. CASE m # n
    <3>1. Live(m)' = Live(m)
      BY <2>1 DEF Live, IInv, TypeOK
    <3> QED BY <3>1 DEF IInv, Filled
  <2>2. CASE m = n
    <3>1. Live(n)' = Live(n) \cup {h}
      BY <1>1 DEF Live, IInv, TypeOK
    <3>2. IsFiniteSet(Live(n)) /\ Cardinality(Live(n)) \in Nat
      BY LiveIsFinite, FS_CardinalityType
    <3>3. Cardinality(Live(n) \cup {h}) = Cardinality(Live(n)) + 1
      BY <3>2, FS_AddElement
    <3> QED BY <2>2, <3>1, <3>2, <3>3, BeaconAssumption DEF BeaconAssumption
  <2> QED BY <2>1, <2>2
<1> QED BY <1>2, <1>3, <1>4, <1>5

\* The clock makes no table fuller.
LEMMA PassKeepsIInv == IInv /\ Pass => IInv'
<1> SUFFICES ASSUME IInv, Pass PROVE IInv'
  OBVIOUS
<1>0. Gap \in Nat
  BY BeaconAssumption DEF BeaconAssumption
<1>1. \A n \in Nodes, h \in Hosts : answered'[n][h] = Later(answered[n][h])
  BY DEF Pass
<1>2. answered' \in [Nodes -> [Hosts -> 0..Gap]]
  <2>1. \A n \in Nodes, h \in Hosts : Later(answered[n][h]) \in 0..Gap
    BY <1>0 DEF Later, IInv, TypeOK
  <2> QED BY <2>1 DEF Pass
<1>3. \A n \in Nodes : \A p \in sent'[n] :
         \E q \in sent[n] : q[2] + 1 < Gap /\ p = <<q[1], q[2] + 1>>
  BY DEF Pass
<1>4. \A n \in Nodes : \A q \in sent[n] : q \in Hosts \X (0..(Gap - 1))
  BY DEF IInv, TypeOK
<1>5. sent' \in [Nodes -> SUBSET (Hosts \X (0..(Gap - 1)))]
  <2>1. \A n \in Nodes : \A q \in sent[n] : q[2] + 1 < Gap =>
            <<q[1], q[2] + 1>> \in Hosts \X (0..(Gap - 1))
    BY <1>0, <1>4
  <2>2. \A n \in Nodes : sent'[n] \in SUBSET (Hosts \X (0..(Gap - 1)))
    BY <1>3, <2>1
  <2>3. sent' = [n \in Nodes |-> sent'[n]]
    BY DEF Pass
  <2> QED BY <2>2, <2>3
<1>6. TypeOK'
  BY <1>2, <1>5 DEF IInv, TypeOK, Pass
<1>7. Remembered'
  <2> SUFFICES ASSUME NEW n \in Nodes, NEW p \in sent'[n]
               PROVE  p[1] \in Hosts /\ p[2] < Gap /\ answered'[n][p[1]] = p[2]
    BY DEF Remembered
  <2>1. PICK q \in sent[n] : q[2] + 1 < Gap /\ p = <<q[1], q[2] + 1>>
    BY <1>3
  <2>2. q[1] \in Hosts /\ q[2] \in Nat /\ answered[n][q[1]] = q[2]
    BY <1>0, <1>4 DEF IInv, Remembered
  <2>3. Later(q[2]) = q[2] + 1
    BY <1>0, <2>1, <2>2 DEF Later
  <2> QED BY <1>1, <2>1, <2>2, <2>3
<1>8. Filled'
  <2> SUFFICES ASSUME NEW n \in Nodes PROVE Cardinality(Live(n)') <= Cap
    BY DEF Filled
  <2>1. Live(n)' \in SUBSET Live(n)
    <3> SUFFICES ASSUME NEW h \in Hosts, answered'[n][h] < Gap
                 PROVE  answered[n][h] < Gap
      BY DEF Live
    <3>1. Later(answered[n][h]) < Gap /\ answered[n][h] \in 0..Gap
      BY <1>1 DEF IInv, TypeOK
    <3> QED BY <1>0, <3>1 DEF Later
  <2>2. Cardinality(Live(n)') <= Cardinality(Live(n)) /\ IsFiniteSet(Live(n)')
    BY <2>1, LiveIsFinite, FS_Subset
  <2>3. Cardinality(Live(n)) <= Cap
    BY DEF IInv, Filled
  <2>4. Cardinality(Live(n)') \in Nat /\ Cardinality(Live(n)) \in Nat /\ Cap \in Nat
    BY <2>2, LiveIsFinite, FS_CardinalityType, BeaconAssumption DEF BeaconAssumption
  <2> QED BY <2>2, <2>3, <2>4
<1> QED BY <1>6, <1>7, <1>8 DEF IInv

LEMMA HearKeepsIInv ==
  ASSUME IInv, NEW d \in Datagrams, NEW left \in SUBSET Datagrams, Hear(d, left)
  PROVE  IInv'
<1>1. d.to \in Nodes
  BY DEF Datagrams
<1>2. TypeOK
  BY DEF IInv
<1>3. /\ net' \in SUBSET Datagrams
      /\ found' \in [Nodes -> SUBSET (Nodes \X Hosts)]
      /\ UNCHANGED <<announcing, unruly>>
  BY <1>2, HearEffect
<1>4. CASE UNCHANGED <<answered, sent>>
  BY <1>3, <1>4 DEF IInv, TypeOK, Remembered, Filled, Live
<1>5. CASE /\ d.from \in Hosts
           /\ d.from \notin Live(d.to) /\ ~(Cardinality(Live(d.to)) >= Cap)
           /\ answered' = [answered EXCEPT ![d.to] = [answered[d.to] EXCEPT ![d.from] = 0]]
           /\ sent' = [sent EXCEPT ![d.to] = @ \cup {<<d.from, 0>>}]
  <2>1. /\ answered' \in [Nodes -> [Hosts -> 0..Gap]]
        /\ sent' \in [Nodes -> SUBSET (Hosts \X (0..(Gap - 1)))]
        /\ Remembered' /\ Filled'
    BY <1>1, <1>5, AnswerKeepsIInv
  <2> QED BY <1>3, <2>1 DEF IInv, TypeOK
<1> QED BY <1>2, <1>4, <1>5, HearEffect

LEMMA NextIInv == IInv /\ [Next]_vars => IInv'
<1> SUFFICES ASSUME IInv, [Next]_vars PROVE IInv'
  OBVIOUS
<1> USE DEF IInv
<1>1. ASSUME NEW m \in Nodes, Announce(m) PROVE IInv'
  <2>1. net' \in SUBSET Datagrams
    BY <1>1, HelloType DEF Announce, TypeOK
  <2> QED BY <1>1, <2>1 DEF Announce, TypeOK, Remembered, Filled, Live
<1>2. ASSUME NEW d \in net, Receive(d) \/ ReceiveCopy(d) PROVE IInv'
  <2>1. d \in Datagrams /\ net \in SUBSET Datagrams /\ net \ {d} \in SUBSET Datagrams
    BY DEF TypeOK
  <2> QED BY <1>2, <2>1, HearKeepsIInv DEF Receive, ReceiveCopy
<1>3. ASSUME NEW d \in net, Lose(d) PROVE IInv'
  BY <1>3 DEF Lose, TypeOK, Remembered, Filled, Live
<1>4. ASSUME NEW d \in Forged, Forge(d) PROVE IInv'
  <2>1. d \in Datagrams
    BY BeaconAssumption DEF BeaconAssumption
  <2> QED BY <1>4, <2>1 DEF Forge, TypeOK, Remembered, Filled, Live
<1>5. CASE Hush
  BY <1>5 DEF Hush, TypeOK, Remembered, Filled, Live
<1>6. CASE Settle
  BY <1>6 DEF Settle, TypeOK, Remembered, Filled, Live
<1>7. CASE Pass
  BY <1>7, PassKeepsIInv
<1>8. CASE UNCHANGED vars
  BY <1>8 DEF vars, TypeOK, Remembered, Filled, Live
<1> QED BY <1>1, <1>2, <1>3, <1>4, <1>5, <1>6, <1>7, <1>8 DEF Next

LEMMA SpecIInv == Spec => []IInv
<1>1. Init => IInv
  BY InitIInv
<1>2. IInv /\ [Next]_vars => IInv'
  BY NextIInv
<1> QED BY <1>1, <1>2, PTL DEF Spec

-----------------------------------------------------------------------------
\* The variables keep their types, whatever arrives.
THEOREM BeaconTypeOK == Spec => []TypeOK
<1>1. IInv => TypeOK
  BY DEF IInv
<1> QED BY <1>1, SpecIInv, PTL

\* In no window does a node answer a host twice or more than Cap in all,
\* whatever is announced, lost, doubled or forged.
THEOREM BeaconAnswersAreBounded == Spec => []AnswersAreBounded
<1>1. IInv => AnswersAreBounded
  <2> SUFFICES ASSUME IInv, NEW n \in Nodes
               PROVE  /\ Cardinality(sent[n]) <= Cap
                      /\ \A p, q \in sent[n] : p[1] = q[1] => p = q
    BY DEF AnswersAreBounded
  <2>1. \A p \in sent[n] : /\ p \in Hosts \X (0..(Gap - 1))
                           /\ p[2] < Gap /\ answered[n][p[1]] = p[2]
    BY DEF IInv, TypeOK, Remembered
  <2>2. \A p, q \in sent[n] : p[1] = q[1] => p = q
    BY <2>1
  <2>3. \A p \in sent[n] : p[1] \in Live(n)
    BY <2>1 DEF Live
  <2> DEFINE host == [p \in sent[n] |-> p[1]]
  <2>4. host \in Injection(sent[n], Live(n))
    BY <2>2, <2>3 DEF Injection, IsInjective
  <2>5. IsFiniteSet(sent[n]) /\ Cardinality(sent[n]) <= Cardinality(Live(n))
    BY <2>4, LiveIsFinite, FS_Injection
  <2>6. Cardinality(Live(n)) <= Cap
    BY DEF IInv, Filled
  <2>7. Cardinality(sent[n]) \in Nat /\ Cardinality(Live(n)) \in Nat /\ Cap \in Nat
    BY <2>5, LiveIsFinite, FS_CardinalityType, BeaconAssumption DEF BeaconAssumption
  <2> QED BY <2>2, <2>5, <2>6, <2>7
<1> QED BY <1>1, SpecIInv, PTL
=============================================================================

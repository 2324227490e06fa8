----------------------------- MODULE CrawlProofs -----------------------------
(***************************************************************************)
(* Proofs about Crawl, for any connections, identities, ceilings and ttl.  *)
(*                                                                         *)
(* Two strengthenings carry them: a task that waits to write holds a claim *)
(* its peer was entitled to when it was read, and the table is a part of   *)
(* the history of accepted reports that has lost nothing still fresh.      *)
(***************************************************************************)
EXTENDS Crawl, Integers, FiniteSetTheorems, WellFoundedInduction, TLAPS

Messages == [body : Bodies, via : {"direct", "head", "none"}, client : Ids \cup {Anonymous}]

TablesTyped ==
  /\ clock \in Nat
  /\ IsTable(nodes, Ids) /\ IsTable(reachability, Keys) /\ IsTable(heard, Keys)

TasksTyped ==
  /\ queue \in Seq(Conns) /\ holder \in Conns \cup {Nobody}
  /\ pc \in [Conns -> Waiting \cup {"gone", "reading", "acking", "replying"}]
  /\ identity \in [Conns -> Ids \cup {Anonymous}]
  /\ msg \in [Conns -> Messages]
  /\ view \in [Conns -> [nodes : SUBSET Ids, reports : SUBSET Keys]]

LEMMA TypeParts == TypeOK <=> TablesTyped /\ TasksTyped
  BY DEF TypeOK, TablesTyped, TasksTyped, Messages

\* A task that waits to write has a claim its peer may make.
Entitled ==
  \A c \in Conns :
    /\ pc[c] = "posting" =>
         /\ msg[c].body \in Relayable /\ Claiming(msg[c].body)
         /\ SpeaksFor(c, msg[c].body.claim)
    /\ pc[c] = "vetting" => msg[c].body \in Relayable /\ msg[c].via = "head"

Mirrors == \A k \in DOMAIN reachability : k \in DOMAIN heard /\ heard[k] = reachability[k]

IInv == TypeOK /\ Entitled /\ Mirrors /\ FreshReportsStay /\ CapsHold

-----------------------------------------------------------------------------
(* The messages and the tables.                                            *)

LEMMA BodyShape ==
  ASSUME NEW body \in Relayable, Claiming(body)
  PROVE  /\ body.claim \in Ids /\ body.target \in Ids
         /\ body.kind \in {"hello", "report"}
  BY DEF Relayable, Claiming, Hello, Report, Probe

LEMMA DirectShape ==
  ASSUME NEW body \in Relayable
  PROVE  Direct(body) \in Messages /\ Direct(body).body = body /\ Direct(body).via = "direct"
  BY DEF Direct, Messages, Bodies

LEMMA FromHeadShape ==
  ASSUME NEW body \in Relayable, NEW client \in Ids \cup {Anonymous}
  PROVE  /\ FromHead(body, client) \in Messages
         /\ FromHead(body, client).body = body /\ FromHead(body, client).via = "head"
  BY DEF FromHead, Messages, Bodies

LEMMA NoMessageTyped == NoMessage \in Messages /\ Query \in Messages
  BY DEF NoMessage, Query, Messages, Bodies

LEMMA StoreShape ==
  ASSUME NEW m, NEW k, NEW n
  PROVE  /\ DOMAIN Store(m, k, n) = DOMAIN m \cup {k}
         /\ Store(m, k, n)[k] = n
         /\ \A j \in DOMAIN m : j # k => Store(m, k, n)[j] = m[j]
  BY DEF Store

LEMMA StoreNow ==
  ASSUME clock \in Nat, NEW K, NEW m, IsTable(m, K), NEW k \in K
  PROVE  IsTable(Store(m, k, clock), K)
  BY DEF IsTable, IsTableOver, Store

\* Sweeping takes rows away, only aged ones, and changes none.
LEMMA SweptShape ==
  ASSUME NEW key
  PROVE  /\ DOMAIN Swept(key) \subseteq DOMAIN reachability
         /\ \A k \in DOMAIN Swept(key) : Swept(key)[k] = reachability[k]
         /\ \A k \in DOMAIN reachability : ~Aged(reachability[k]) => k \in DOMAIN Swept(key)
         /\ key \in DOMAIN reachability => key \in DOMAIN Swept(key)
  <1>1. CASE key \notin DOMAIN reachability /\ Cardinality(DOMAIN reachability) >= MaxEntries
    BY <1>1 DEF Swept
  <1>2. CASE ~(key \notin DOMAIN reachability /\ Cardinality(DOMAIN reachability) >= MaxEntries)
    <2>1. Swept(key) = reachability
      BY <1>2 DEF Swept
    <2> QED BY <2>1
  <1> QED BY <1>1, <1>2

LEMMA SweptTyped ==
  ASSUME TablesTyped, NEW key
  PROVE  IsTable(Swept(key), Keys)
  <1>1. Swept(key) \in [DOMAIN Swept(key) -> Nat]
    BY SweptShape DEF TablesTyped, IsTable, IsTableOver, Swept
  <1> QED BY <1>1, SweptShape DEF TablesTyped, IsTable, IsTableOver

-----------------------------------------------------------------------------
LEMMA InitInv == Init => IInv
  <1> SUFFICES ASSUME Init PROVE IInv
    OBVIOUS
  <1> USE DEF Init, NoEntries
  <1>1. TablesTyped
    BY DEF TablesTyped, IsTable, IsTableOver
  <1>2. TasksTyped
    BY NoMessageTyped DEF TasksTyped, NoView
  <1>3. Entitled /\ Mirrors /\ FreshReportsStay
    BY DEF Entitled, Mirrors, FreshReportsStay
  <1>4. CapsHold
    <2>1. DOMAIN reachability = {} /\ \A f \in Ids : RowsOf(reachability, f) = {}
      BY DEF RowsOf
    <2>2. Cardinality({}) = 0
      BY FS_EmptySet
    <2>3. Cardinality(DOMAIN reachability) = 0 /\ \A f \in Ids : Cardinality(RowsOf(reachability, f)) = 0
      BY <2>1, <2>2, Zenon
    <2> HIDE DEF Init
    <2> QED BY <2>3, LimitsAreNat DEF CapsHold
  <1> QED BY <1>1, <1>2, <1>3, <1>4, TypeParts DEF IInv

LEMMA QueueTyped ==
  ASSUME TasksTyped, NEW c \in Conns
  PROVE  /\ Append(queue, c) \in Seq(Conns)
         /\ queue # << >> => Tail(queue) \in Seq(Conns) /\ Append(Tail(queue), c) \in Seq(Conns)
  BY DEF TasksTyped

LEMMA TasksStep ==
  ASSUME TypeOK, Entitled, [Next]_vars
  PROVE  TasksTyped' /\ Entitled'
  <1> USE TypeParts, NoMessageTyped DEF TasksTyped, Goto, Ack, Done, Vanish, Enqueue, Granted, NoView, Waiting
  <1>1. CASE Restart
    BY <1>1 DEF Restart, Entitled
  <1>2. CASE Tick \/ UNCHANGED vars
    <2>1. UNCHANGED <<queue, holder, pc, identity, msg, view>>
      BY <1>2 DEF Tick, vars
    <2> QED BY <2>1 DEF Entitled, SpeaksFor
  <1>3. ASSUME NEW c \in Conns, NEW who \in Identities, Connect(c, who)
        PROVE  TasksTyped' /\ Entitled'
    BY <1>3, IdentitiesAreIds DEF Connect, Entitled, SpeaksFor
  <1>4. ASSUME NEW c \in Conns, ReadFails(c) \/ Answered(c) \/ AnswerFails(c)
        PROVE  TasksTyped' /\ Entitled'
    <2>1. CASE ReadFails(c)
      BY <2>1 DEF ReadFails, Entitled, SpeaksFor
    <2>2. CASE Answered(c)
      BY <2>2 DEF Answered, Entitled, SpeaksFor
    <2>3. CASE AnswerFails(c)
      BY <2>3 DEF AnswerFails, Entitled, SpeaksFor
    <2> QED BY <1>4, <2>1, <2>2, <2>3
  <1>5. ASSUME NEW c \in Conns, NEW body \in Relayable, ReadDirect(c, body)
        PROVE  TasksTyped' /\ Entitled'
    <2>1. CASE Authorized(identity[c], body.claim)
      <3>1. /\ pc[c] = "reading" /\ Claiming(body) /\ pc' = [pc EXCEPT ![c] = "posting"]
            /\ msg' = [msg EXCEPT ![c] = Direct(body)] /\ queue' = Append(queue, c)
            /\ UNCHANGED <<holder, identity, view>>
        BY <1>5, <2>1 DEF ReadDirect
      <3>2. TasksTyped'
        BY <3>1, DirectShape, QueueTyped
      <3>3. msg'[c].body = body /\ msg'[c].via = "direct" /\ identity'[c] = identity[c] /\ pc'[c] = "posting"
        BY <3>1, DirectShape
      <3>4. \A d \in Conns : d # c =>
              msg'[d] = msg[d] /\ identity'[d] = identity[d] /\ pc'[d] = pc[d]
        BY <3>1
      <3>5. Entitled'
        BY <2>1, <3>1, <3>3, <3>4 DEF Entitled, SpeaksFor, Authorized
      <3> QED BY <3>2, <3>5
    <2>2. CASE ~Authorized(identity[c], body.claim)
      BY <1>5, <2>2 DEF ReadDirect, Entitled, SpeaksFor
    <2> QED BY <2>1, <2>2
  <1>6. ASSUME NEW c \in Conns, ReadStateless(c)
        PROVE  TasksTyped' /\ Entitled'
    BY <1>6 DEF ReadStateless, Entitled, SpeaksFor
  <1>7. ASSUME NEW c \in Conns, NEW body \in Relayable, NEW client \in Ids \cup {Anonymous},
               ReadFromHead(c, body, client)
        PROVE  TasksTyped' /\ Entitled'
    <2>1. TasksTyped'
      BY <1>7, FromHeadShape, QueueTyped DEF ReadFromHead
    <2>2. Entitled'
      BY <1>7, FromHeadShape DEF ReadFromHead, Entitled, SpeaksFor
    <2> QED BY <2>1, <2>2
  <1>8. ASSUME NEW c \in Conns, ReadQuery(c)
        PROVE  TasksTyped' /\ Entitled'
    BY <1>8, QueueTyped DEF ReadQuery, Entitled, SpeaksFor
  <1>9. ASSUME NEW c \in Conns, Vet(c)
        PROVE  TasksTyped' /\ Entitled'
    <2>1. /\ pc[c] = "vetting" /\ queue # << >> /\ UNCHANGED <<holder, identity, view>>
          /\ msg[c].body \in Relayable /\ msg[c].via = "head"
      BY <1>9 DEF Vet, Entitled
    <2>2. CASE pc' = [pc EXCEPT ![c] = "posting"] /\ queue' = Append(Tail(queue), c) /\ UNCHANGED msg
               /\ Claiming(msg[c].body) /\ MayRelay(identity[c])
               /\ ClaimBacked(identity[c], msg[c].client, msg[c].body.claim)
      <3>1. TasksTyped'
        BY <2>1, <2>2, QueueTyped
      <3>2. SpeaksFor(c, msg[c].body.claim)
        BY <2>1, <2>2 DEF SpeaksFor, MayRelay, ClaimBacked
      <3>3. Entitled'
        BY <2>1, <2>2, <3>2 DEF Entitled, SpeaksFor
      <3> QED BY <3>1, <3>3
    <2>3. CASE pc' = [pc EXCEPT ![c] = "acking"] /\ queue' = Tail(queue)
               /\ msg' = [msg EXCEPT ![c] = NoMessage]
      BY <2>1, <2>3, QueueTyped DEF Entitled, SpeaksFor
    <2> QED BY <1>9, <2>2, <2>3 DEF Vet
  <1>10. ASSUME NEW c \in Conns, PostHello(c) \/ PostReport(c)
         PROVE  TasksTyped' /\ Entitled'
    <2>1. /\ pc[c] = "posting" /\ queue # << >> /\ queue' = Tail(queue)
          /\ pc' = [pc EXCEPT ![c] = "acking"] /\ msg' = [msg EXCEPT ![c] = NoMessage]
          /\ holder' \in {c, Nobody, holder} /\ UNCHANGED <<identity, view>>
      BY <1>10 DEF PostHello, PostReport
    <2> QED BY <2>1, QueueTyped DEF Entitled, SpeaksFor
  <1>11. ASSUME NEW c \in Conns, Snap(c)
         PROVE  TasksTyped' /\ Entitled'
    <2>1. PICK n \in SUBSET LiveNodes, r \in SUBSET LiveReports :
            view' = [view EXCEPT ![c] = [nodes |-> n, reports |-> r]]
      BY <1>11 DEF Snap
    <2>2. n \in SUBSET Ids /\ r \in SUBSET Keys
      BY DEF LiveNodes, LiveReports, TablesTyped, IsTable, IsTableOver
    <2>3. TasksTyped'
      BY <1>11, <2>1, <2>2, QueueTyped DEF Snap
    <2>4. Entitled'
      BY <1>11 DEF Snap, Entitled, SpeaksFor
    <2> QED BY <2>3, <2>4
  <1> QED BY <1>1, <1>2, <1>3, <1>4, <1>5, <1>6, <1>7, <1>8, <1>9, <1>10, <1>11 DEF Next, Read, Serve

-----------------------------------------------------------------------------
(* Sums over finite sets.  The induction they take is on the smallest set  *)
(* that is bad: without any of its elements it is not.                     *)

LEMMA Smallest ==
  ASSUME NEW S, IsFiniteSet(S), NEW Bad \in SUBSET (SUBSET S), Bad # {}
  PROVE  \E s \in Bad : \A x \in s : s \ {x} \notin Bad
  <1> DEFINE N == {Cardinality(s) : s \in Bad}
  <1>1. \A s \in Bad : IsFiniteSet(s) /\ Cardinality(s) \in Nat
    BY FS_Subset, FS_CardinalityType
  <1>2. N \in SUBSET Nat /\ N # {}
    BY <1>1
  <1>3. PICK n \in N : \A m \in N : ~(<<m, n>> \in OpToRel(<, Nat))
    <2> HIDE DEF N
    <2> QED BY <1>2, WFMin, NatLessThanWellFounded
  <1>4. PICK s \in Bad : n = Cardinality(s)
    BY <1>3
  <1>5. ASSUME NEW x \in s, s \ {x} \in Bad PROVE FALSE
    <2>1. Cardinality(s \ {x}) = Cardinality(s) - 1 /\ Cardinality(s) # 0
      BY <1>1, <1>5, FS_RemoveElement, FS_EmptySet
    <2>2. Cardinality(s \ {x}) \in Nat /\ Cardinality(s) \in Nat /\ Cardinality(s \ {x}) \in N
      BY <1>1, <1>5
    <2>3. Cardinality(s \ {x}) < n
      BY <1>4, <2>1, <2>2
    <2> QED BY <1>1, <1>3, <1>4, <2>2, <2>3 DEF OpToRel
  <1> QED BY <1>5

\* What a fold with + does over a set of sets that holds, with each, the set
\* without the element it chooses.
Fold(f, D, g) ==
    g = [s \in D |-> IF s = {} THEN 0
                     ELSE LET x == CHOOSE x \in s : TRUE IN f[x] + g[s \ {x}]]

LEMMA FoldStep ==
  ASSUME NEW f, NEW D, NEW g, Fold(f, D, g), NEW s \in D
  PROVE  /\ s = {} => g[s] = 0
         /\ s # {} => g[s] = f[CHOOSE x \in s : TRUE] + g[s \ {CHOOSE x \in s : TRUE}]
BY DEF Fold

Upto(S, n) == {s \in SUBSET S : Cardinality(s) <= n}

LEMMA FoldExists ==
  ASSUME NEW f, NEW S, IsFiniteSet(S)
  PROVE  \E g : Fold(f, SUBSET S, g)
  <1> DEFINE n == Cardinality(S)
  <1> DEFINE T == {m \in Nat : m <= n /\ ~\E g : Fold(f, Upto(S, m), g)}
  <1>0. \A s \in SUBSET S : IsFiniteSet(s) /\ Cardinality(s) \in Nat /\ Cardinality(s) <= n
    BY FS_Subset, FS_CardinalityType
  <1>1. n \in Nat /\ Upto(S, n) = SUBSET S
    BY <1>0, FS_CardinalityType DEF Upto
  <1> HIDE DEF n
  <1>2. \E g : Fold(f, Upto(S, 0), g)
    <2> DEFINE g == [s \in Upto(S, 0) |-> 0]
    <2>1. \A s \in Upto(S, 0) : s = {}
      BY <1>0, FS_EmptySet DEF Upto
    <2>2. Fold(f, Upto(S, 0), g)
      BY <2>1 DEF Fold
    <2> QED BY <2>2
  <1>3. ASSUME NEW m \in Nat, NEW g, Fold(f, Upto(S, m), g)
        PROVE  \E h : Fold(f, Upto(S, m + 1), h)
    <2> DEFINE c(s) == CHOOSE x \in s : TRUE
               h == [s \in Upto(S, m + 1) |-> IF s = {} THEN 0 ELSE f[c(s)] + g[s \ {c(s)}]]
    <2>1. ASSUME NEW s \in Upto(S, m + 1), s # {}
          PROVE  s \ {c(s)} \in Upto(S, m) /\ s \ {c(s)} \in Upto(S, m + 1)
      <3>1. c(s) \in s
        BY <2>1
      <3> HIDE DEF c
      <3>2. IsFiniteSet(s) /\ Cardinality(s) \in Nat /\ Cardinality(s) <= m + 1
        BY <1>0 DEF Upto
      <3>3. Cardinality(s \ {c(s)}) = Cardinality(s) - 1
        BY <3>1, <3>2, FS_RemoveElement
      <3>4. Cardinality(s \ {c(s)}) \in Nat /\ s \ {c(s)} \in SUBSET S
        BY <1>0 DEF Upto
      <3>5. Cardinality(s \ {c(s)}) <= m /\ Cardinality(s \ {c(s)}) <= m + 1
        BY <3>2, <3>3, <3>4
      <3> QED BY <3>4, <3>5 DEF Upto
    <2>2. ASSUME NEW s \in Upto(S, m) PROVE s \in Upto(S, m + 1) /\ h[s] = g[s]
      <3>1. s \in Upto(S, m + 1)
        <4>1. Cardinality(s) \in Nat /\ Cardinality(s) <= m /\ s \in SUBSET S
          BY <1>0 DEF Upto
        <4>2. Cardinality(s) <= m + 1
          BY <4>1
        <4> QED BY <4>1, <4>2 DEF Upto
      <3>2. g[s] = IF s = {} THEN 0 ELSE f[c(s)] + g[s \ {c(s)}]
        BY <1>3 DEF Fold
      <3>3. h[s] = IF s = {} THEN 0 ELSE f[c(s)] + g[s \ {c(s)}]
        BY <3>1
      <3> QED BY <3>1, <3>2, <3>3
    <2>3. ASSUME NEW s \in Upto(S, m + 1)
          PROVE  h[s] = IF s = {} THEN 0 ELSE f[c(s)] + h[s \ {c(s)}]
      <3>1. s # {} => h[s \ {c(s)}] = g[s \ {c(s)}]
        <4> HIDE DEF h, c
        <4> QED BY <2>1, <2>2
      <3> QED BY <3>1
    <2>4. h = [s \in Upto(S, m + 1) |-> IF s = {} THEN 0 ELSE f[c(s)] + h[s \ {c(s)}]]
      <3>1. h = [s \in Upto(S, m + 1) |-> h[s]]
        OBVIOUS
      <3> HIDE DEF h, c
      <3> QED BY <2>3, <3>1
    <2>5. Fold(f, Upto(S, m + 1), h)
      BY <2>4 DEF Fold, c
    <2> QED BY <2>5
  <1>a. T \in SUBSET Nat
    OBVIOUS
  <1>4. SUFFICES ASSUME T # {} PROVE FALSE
    <2>1. n \notin T
      BY <1>4
    <2>2. n <= n
      BY <1>1
    <2>3. \E g : Fold(f, Upto(S, n), g)
      BY <1>1, <2>1, <2>2
    <2> QED BY <1>1, <2>3
  <1>5. PICK m \in T : \A k \in T : ~(<<k, m>> \in OpToRel(<, Nat))
    <2> HIDE DEF T
    <2> QED BY <1>a, <1>4, WFMin, NatLessThanWellFounded
  <1>b. m \in Nat /\ m <= n /\ ~\E g : Fold(f, Upto(S, m), g)
    BY <1>5
  <1>c. m # 0
    BY <1>2, <1>b
  <1>6. m \in Nat /\ m <= n /\ m # 0 /\ m - 1 \in Nat /\ m - 1 <= n /\ (m - 1) + 1 = m /\ m - 1 < m
    BY <1>1, <1>b, <1>c
  <1>7. m - 1 \notin T
    <2> HIDE DEF T
    <2> QED BY <1>5, <1>6 DEF OpToRel
  <1>8. \E g : Fold(f, Upto(S, m - 1), g)
    BY <1>6, <1>7
  <1>9. \E h : Fold(f, Upto(S, (m - 1) + 1), h)
    <2>1. PICK g : Fold(f, Upto(S, m - 1), g)
      BY <1>8
    <2> QED BY <1>3, <1>6, <2>1
  <1> QED BY <1>5, <1>6, <1>9

\* There is one such function only.
LEMMA FoldsAgree ==
  ASSUME NEW f, NEW S, IsFiniteSet(S), NEW T \in SUBSET S,
         NEW g, Fold(f, SUBSET S, g), NEW h, Fold(f, SUBSET T, h)
  PROVE  g[T] = h[T]
  <1> DEFINE Bad == {s \in SUBSET T : g[s] # h[s]}
  <1>1. SUFFICES ASSUME Bad # {} PROVE FALSE
    <2>1. T \in SUBSET T
      OBVIOUS
    <2> QED BY <1>1, <2>1
  <1>2. PICK s \in Bad : \A x \in s : s \ {x} \notin Bad
    <2>1. IsFiniteSet(T) /\ Bad \in SUBSET (SUBSET T)
      BY FS_Subset
    <2> HIDE DEF Bad
    <2> QED BY <1>1, <2>1, Smallest
  <1>3. s \in SUBSET T /\ s \in SUBSET S /\ g[s] # h[s]
    BY <1>2
  <1>4. CASE s = {}
    <2>1. {} \in SUBSET S /\ {} \in SUBSET T
      OBVIOUS
    <2>2. g[{}] = 0
      BY <2>1 DEF Fold
    <2>3. h[{}] = 0
      BY <2>1 DEF Fold
    <2> QED BY <1>3, <1>4, <2>2, <2>3
  <1>5. CASE s # {}
    <2> DEFINE x == CHOOSE x \in s : TRUE
    <2>1. x \in s
      BY <1>5
    <2>2. g[s] = f[x] + g[s \ {x}] /\ h[s] = f[x] + h[s \ {x}]
      BY <1>3, <1>5, FoldStep
    <2> HIDE DEF x
    <2>3. s \ {x} \in SUBSET T /\ s \ {x} \notin Bad
      BY <1>2, <1>3, <2>1
    <2>4. g[s \ {x}] = h[s \ {x}]
      BY <2>3
    <2> QED BY <1>3, <2>2, <2>4
  <1> QED BY <1>4, <1>5

LEMMA SumIs ==
  ASSUME NEW f, NEW S, IsFiniteSet(S)
  PROVE  \E g : Fold(f, SUBSET S, g) /\ SumFunctionOnSet(f, S) = g[S]
  <1> DEFINE g == CHOOSE g : Fold(f, SUBSET S, g)
  <1>1. SumFunctionOnSet(f, S) = g[S]
    BY DEF SumFunctionOnSet, FoldFunctionOnSet, MapThenFoldSet, Fold
  <1>2. Fold(f, SUBSET S, g)
    BY FoldExists, Zenon
  <1> HIDE DEF g
  <1> QED BY <1>1, <1>2

LEMMA SumEmpty ==
  ASSUME NEW f
  PROVE  SumFunctionOnSet(f, {}) = 0
  <1>1. PICK g : Fold(f, SUBSET {}, g) /\ SumFunctionOnSet(f, {}) = g[{}]
    BY SumIs, FS_EmptySet
  <1>2. {} \in SUBSET {}
    OBVIOUS
  <1> QED BY <1>1, <1>2, FoldStep

LEMMA SumChosen ==
  ASSUME NEW f, NEW S, IsFiniteSet(S), S # {}
  PROVE  \E x \in S : SumFunctionOnSet(f, S) = f[x] + SumFunctionOnSet(f, S \ {x})
  <1> DEFINE x == CHOOSE x \in S : TRUE
             R == S \ {x}
  <1>1. x \in S
    OBVIOUS
  <1>2. PICK g : Fold(f, SUBSET S, g) /\ SumFunctionOnSet(f, S) = g[S]
    BY SumIs
  <1>3. g[S] = f[x] + g[S \ {x}]
    <2>1. S \in SUBSET S
      OBVIOUS
    <2> QED BY <1>2, <2>1, FoldStep
  <1> HIDE DEF x
  <1>4. R \in SUBSET S /\ R \in SUBSET R /\ IsFiniteSet(R)
    BY FS_Subset
  <1> HIDE DEF R
  <1>5. PICK h : Fold(f, SUBSET R, h) /\ SumFunctionOnSet(f, R) = h[R]
    BY <1>4, SumIs
  <1>6. g[R] = h[R]
    <2>1. IsFiniteSet(S) /\ Fold(f, SUBSET S, g) /\ Fold(f, SUBSET R, h)
      BY <1>2, <1>5
    <2> QED BY <1>4, <2>1, FoldsAgree
  <1> QED BY <1>1, <1>2, <1>3, <1>5, <1>6 DEF R

LEMMA SumNat ==
  ASSUME NEW f, NEW S, IsFiniteSet(S), \A x \in S : f[x] \in Nat
  PROVE  SumFunctionOnSet(f, S) \in Nat
  <1> DEFINE Bad == {s \in SUBSET S : SumFunctionOnSet(f, s) \notin Nat}
  <1>1. SUFFICES ASSUME Bad # {} PROVE FALSE
    OBVIOUS
  <1>2. PICK s \in Bad : \A x \in s : s \ {x} \notin Bad
    <2>1. Bad \in SUBSET (SUBSET S)
      OBVIOUS
    <2> HIDE DEF Bad
    <2> QED BY <1>1, <2>1, Smallest
  <1>3. s \in SUBSET S /\ SumFunctionOnSet(f, s) \notin Nat /\ IsFiniteSet(s)
    BY <1>2, FS_Subset
  <1>4. s # {}
    BY <1>3, SumEmpty
  <1>5. PICK x \in s : SumFunctionOnSet(f, s) = f[x] + SumFunctionOnSet(f, s \ {x})
    BY <1>3, <1>4, SumChosen
  <1>6. s \ {x} \in SUBSET S /\ s \ {x} \notin Bad
    BY <1>2, <1>3
  <1>7. SumFunctionOnSet(f, s \ {x}) \in Nat
    BY <1>6
  <1>8. f[x] \in Nat
    BY <1>3
  <1> QED BY <1>3, <1>5, <1>7, <1>8

\* Whichever element is taken out, it is what it adds.
LEMMA SumAny ==
  ASSUME NEW f, NEW S, IsFiniteSet(S), \A x \in S : f[x] \in Nat, NEW e \in S
  PROVE  SumFunctionOnSet(f, S) = f[e] + SumFunctionOnSet(f, S \ {e})
  <1> DEFINE Sum(s) == SumFunctionOnSet(f, s)
             Bad == {s \in SUBSET S : \E d \in s : Sum(s) # f[d] + Sum(s \ {d})}
  <1>a. \A s \in SUBSET S : IsFiniteSet(s)
    BY FS_Subset
  <1>b. \A s \in SUBSET S : Sum(s) \in Nat
    <2>1. ASSUME NEW s \in SUBSET S PROVE SumFunctionOnSet(f, s) \in Nat
      <3>1. \A x \in s : f[x] \in Nat
        OBVIOUS
      <3> QED BY <1>a, <3>1, SumNat
    <2> QED BY <2>1
  <1>c. \A s \in SUBSET S : s # {} => \E x \in s : Sum(s) = f[x] + Sum(s \ {x})
    BY <1>a, SumChosen
  <1> HIDE DEF Sum
  <1>1. SUFFICES ASSUME Bad # {} PROVE FALSE
    <2>1. S \in SUBSET S /\ S \notin Bad
      BY <1>1
    <2>2. Sum(S) = f[e] + Sum(S \ {e})
      BY <2>1
    <2> QED BY <2>2 DEF Sum
  <1>2. PICK s \in Bad : \A x \in s : s \ {x} \notin Bad
    <2>1. Bad \in SUBSET (SUBSET S)
      OBVIOUS
    <2> HIDE DEF Bad
    <2> QED BY <1>1, <2>1, Smallest
  <1>3. s \in SUBSET S
    BY <1>2
  <1>4. PICK d \in s : Sum(s) # f[d] + Sum(s \ {d})
    BY <1>2
  <1>5. PICK x \in s : Sum(s) = f[x] + Sum(s \ {x})
    BY <1>3, <1>4, <1>c
  <1>6. x # d /\ d \in s \ {x} /\ x \in s \ {d}
    BY <1>4, <1>5
  <1>7. /\ s \ {x} \in SUBSET S /\ s \ {d} \in SUBSET S /\ (s \ {x}) \ {d} \in SUBSET S
        /\ (s \ {d}) \ {x} = (s \ {x}) \ {d}
    BY <1>3
  <1>8. s \ {x} \notin Bad /\ s \ {d} \notin Bad
    BY <1>2
  <1>9. Sum(s \ {x}) = f[d] + Sum((s \ {x}) \ {d})
    BY <1>6, <1>7, <1>8
  <1>10. Sum(s \ {d}) = f[x] + Sum((s \ {x}) \ {d})
    BY <1>6, <1>7, <1>8
  <1>11. f[x] \in Nat /\ f[d] \in Nat /\ Sum((s \ {x}) \ {d}) \in Nat
    BY <1>3, <1>b, <1>7
  <1> HIDE DEF Bad
  <1>12. \A a, b, c \in Nat : a + (b + c) = b + (a + c)
    OBVIOUS
  <1>13. f[x] + Sum(s \ {x}) = f[d] + Sum(s \ {d})
    BY <1>9, <1>10, <1>11, <1>12
  <1> QED BY <1>4, <1>5, <1>13

\* The sum over a part is no more than the whole, and with one more element
\* still no more.
LEMMA SumGrows ==
  ASSUME NEW f, NEW S, IsFiniteSet(S), \A x \in S : f[x] \in Nat, NEW T \in SUBSET S
  PROVE  /\ SumFunctionOnSet(f, T) <= SumFunctionOnSet(f, S)
         /\ \A e \in S \ T : SumFunctionOnSet(f, T) + f[e] <= SumFunctionOnSet(f, S)
  <1> DEFINE Sum(s) == SumFunctionOnSet(f, s)
             Bad == {s \in SUBSET S : T \subseteq s /\ ~(Sum(T) <= Sum(s))}
  <1>a. \A s \in SUBSET S : IsFiniteSet(s) /\ \A x \in s : f[x] \in Nat
    BY FS_Subset
  <1>b. \A s \in SUBSET S : Sum(s) \in Nat
    BY <1>a, SumNat
  <1>c. \A s \in SUBSET S : \A x \in s : Sum(s) = f[x] + Sum(s \ {x})
    <2>1. ASSUME NEW s \in SUBSET S, NEW x \in s
          PROVE  SumFunctionOnSet(f, s) = f[x] + SumFunctionOnSet(f, s \ {x})
      BY <1>a, SumAny
    <2> QED BY <2>1
  <1> HIDE DEF Sum
  <1>1. ASSUME NEW s \in SUBSET S, T \subseteq s PROVE Sum(T) <= Sum(s)
    <2>1. SUFFICES ASSUME Bad # {} PROVE FALSE
      BY <1>1
    <2>2. PICK r \in Bad : \A x \in r : r \ {x} \notin Bad
      <3>1. Bad \in SUBSET (SUBSET S)
        OBVIOUS
      <3> HIDE DEF Bad
      <3> QED BY <2>1, <3>1, Smallest
    <2>3. r \in SUBSET S /\ T \subseteq r /\ ~(Sum(T) <= Sum(r))
      BY <2>2
    <2>4. Sum(T) \in Nat /\ Sum(r) \in Nat
      BY <1>b, <2>3
    <2>5. r # T
      BY <2>3, <2>4
    <2>6. PICK x \in r : x \notin T
      BY <2>3, <2>5
    <2>7. r \ {x} \in SUBSET S /\ T \subseteq r \ {x} /\ r \ {x} \notin Bad
      BY <2>2, <2>3, <2>6
    <2>8. Sum(T) <= Sum(r \ {x})
      BY <2>7
    <2>9. Sum(r) = f[x] + Sum(r \ {x})
      BY <1>c, <2>3
    <2>10. f[x] \in Nat /\ Sum(r \ {x}) \in Nat
      BY <1>b, <2>3, <2>7
    <2> HIDE DEF Bad
    <2> QED BY <2>3, <2>4, <2>8, <2>9, <2>10
  <1>2. Sum(T) <= Sum(S)
    BY <1>1
  <1>3. ASSUME NEW e \in S \ T PROVE Sum(T) + f[e] <= Sum(S)
    <2>1. S \in SUBSET S /\ S \ {e} \in SUBSET S /\ T \subseteq S \ {e}
      OBVIOUS
    <2>2. Sum(T) <= Sum(S \ {e})
      BY <1>1, <2>1
    <2>3. Sum(S) = f[e] + Sum(S \ {e})
      BY <1>c, <2>1
    <2>4. f[e] \in Nat /\ Sum(T) \in Nat /\ Sum(S \ {e}) \in Nat
      BY <1>b, <2>1
    <2> QED BY <2>2, <2>3, <2>4
  <1> QED BY <1>2, <1>3 DEF Sum

\* What is met in any order and sent while there is room is sent whole when
\* the whole has room.
LEMMA FillsWhole ==
  ASSUME NEW sent, NEW entries, NEW cost, NEW budget \in Int,
         IsFiniteSet(entries), \A x \in entries : cost[x] \in Nat,
         Fills(sent, entries, cost, budget), SumFunctionOnSet(cost, entries) <= budget
  PROVE  sent = entries
  <1>1. sent \in SUBSET entries
    BY DEF Fills
  <1>2. ASSUME NEW e \in entries \ sent PROVE FALSE
    <2>1. SumFunctionOnSet(cost, sent) + cost[e] > budget
      BY DEF Fills
    <2>2. SumFunctionOnSet(cost, sent) + cost[e] <= SumFunctionOnSet(cost, entries)
      BY <1>1, SumGrows
    <2>3. SumFunctionOnSet(cost, sent) \in Nat /\ SumFunctionOnSet(cost, entries) \in Nat
      <3>1. IsFiniteSet(sent) /\ \A x \in sent : cost[x] \in Nat
        BY <1>1, FS_Subset
      <3> QED BY <3>1, SumNat
    <2>4. cost[e] \in Nat
      OBVIOUS
    <2> QED BY <2>1, <2>2, <2>3, <2>4
  <1> QED BY <1>1, <1>2

-----------------------------------------------------------------------------
(* What a report does to the tables.                                       *)

LEMMA KeysFinite ==
  ASSUME NEW m, DOMAIN m \subseteq Keys
  PROVE  /\ IsFiniteSet(DOMAIN m) /\ Cardinality(DOMAIN m) \in Nat
         /\ \A f : IsFiniteSet(RowsOf(m, f)) /\ Cardinality(RowsOf(m, f)) \in Nat
  <1>1. IsFiniteSet(Keys)
    BY IdsFinite, FS_Product DEF Keys
  <1>2. IsFiniteSet(DOMAIN m)
    BY <1>1, FS_Subset
  <1>3. \A f : RowsOf(m, f) \subseteq DOMAIN m
    BY DEF RowsOf
  <1>4. \A f : IsFiniteSet(RowsOf(m, f))
    BY <1>2, <1>3, FS_Subset
  <1> QED BY <1>2, <1>4, FS_CardinalityType

\* Fewer rows in all are fewer rows of each peer.
LEMMA FewerRows ==
  ASSUME NEW m, NEW n, DOMAIN m \subseteq Keys, DOMAIN n \subseteq DOMAIN m
  PROVE  /\ Cardinality(DOMAIN n) <= Cardinality(DOMAIN m)
         /\ \A f : Cardinality(RowsOf(n, f)) <= Cardinality(RowsOf(m, f))
  <1>1. \A f : RowsOf(n, f) \subseteq RowsOf(m, f)
    BY DEF RowsOf
  <1> QED BY <1>1, KeysFinite, FS_Subset

\* One more row is one more row, of the peer that reported it.
LEMMA OneMoreRow ==
  ASSUME NEW m, DOMAIN m \subseteq Keys, NEW key \in Keys, key \notin DOMAIN m, NEW t
  PROVE  /\ Cardinality(DOMAIN Store(m, key, t)) = Cardinality(DOMAIN m) + 1
         /\ \A f : Cardinality(RowsOf(Store(m, key, t), f)) =
                     IF f = key[1] THEN Cardinality(RowsOf(m, f)) + 1 ELSE Cardinality(RowsOf(m, f))
  <1>1. DOMAIN Store(m, key, t) = DOMAIN m \cup {key}
    BY StoreShape
  <1>2. Cardinality(DOMAIN m \cup {key}) = Cardinality(DOMAIN m) + 1
    BY KeysFinite, FS_AddElement
  <1>3. ASSUME NEW f
        PROVE  Cardinality(RowsOf(Store(m, key, t), f)) =
                 IF f = key[1] THEN Cardinality(RowsOf(m, f)) + 1 ELSE Cardinality(RowsOf(m, f))
    <2>1. CASE f = key[1]
      <3>1. RowsOf(Store(m, key, t), f) = RowsOf(m, f) \cup {key} /\ key \notin RowsOf(m, f)
        BY <1>1, <2>1 DEF RowsOf
      <3>2. Cardinality(RowsOf(m, f) \cup {key}) = Cardinality(RowsOf(m, f)) + 1
        BY <3>1, KeysFinite, FS_AddElement
      <3> QED BY <2>1, <3>1, <3>2
    <2>2. CASE f # key[1]
      <3>1. RowsOf(Store(m, key, t), f) = RowsOf(m, f)
        BY <1>1, <2>2 DEF RowsOf
      <3> QED BY <2>2, <3>1
    <2> QED BY <2>1, <2>2
  <1> QED BY <1>1, <1>2, <1>3

TablesInv == TablesTyped /\ Mirrors /\ FreshReportsStay /\ CapsHold

LEMMA SweptInv ==
  ASSUME TablesInv, NEW key
  PROVE  /\ IsTable(Swept(key), Keys) /\ DOMAIN Swept(key) \subseteq Keys
         /\ Cardinality(DOMAIN Swept(key)) <= MaxEntries
         /\ \A f \in Ids : Cardinality(RowsOf(Swept(key), f)) <= MaxPerPeer
  <1>1. DOMAIN reachability \subseteq Keys
    BY DEF TablesInv, TablesTyped, IsTable, IsTableOver
  <1>2. DOMAIN Swept(key) \subseteq DOMAIN reachability
    BY SweptShape
  <1>3. IsTable(Swept(key), Keys)
    BY SweptTyped DEF TablesInv
  <1>4. /\ Cardinality(DOMAIN Swept(key)) <= Cardinality(DOMAIN reachability)
        /\ \A f : Cardinality(RowsOf(Swept(key), f)) <= Cardinality(RowsOf(reachability, f))
    BY <1>1, <1>2, FewerRows
  <1>5. /\ Cardinality(DOMAIN reachability) \in Nat /\ Cardinality(DOMAIN Swept(key)) \in Nat
        /\ \A f : Cardinality(RowsOf(Swept(key), f)) \in Nat /\ Cardinality(RowsOf(reachability, f)) \in Nat
    BY <1>1, <1>2, KeysFinite
  <1> QED BY <1>1, <1>2, <1>3, <1>4, <1>5, LimitsAreNat DEF TablesInv, CapsHold

LEMMA AcceptedReport ==
  ASSUME TablesInv, NEW key \in Keys, HasRoom(Swept(key), key), UNCHANGED <<clock, nodes>>,
         reachability' = Store(Swept(key), key, clock), heard' = Store(heard, key, clock)
  PROVE  TablesInv'
  <1> DEFINE kept == Swept(key)
  <1>1. /\ DOMAIN kept \subseteq DOMAIN reachability
        /\ \A k \in DOMAIN kept : kept[k] = reachability[k]
        /\ \A k \in DOMAIN reachability : ~Aged(reachability[k]) => k \in DOMAIN kept
    BY SweptShape
  <1>2. /\ IsTable(kept, Keys) /\ DOMAIN kept \subseteq Keys
        /\ Cardinality(DOMAIN kept) <= MaxEntries
        /\ \A f \in Ids : Cardinality(RowsOf(kept, f)) <= MaxPerPeer
    BY SweptInv
  <1>3. HasRoom(kept, key) /\ reachability' = Store(kept, key, clock)
    OBVIOUS
  <1> HIDE DEF kept
  <1>4. TablesTyped'
    <2>1. IsTable(reachability', Keys) /\ IsTable(heard', Keys)
      BY <1>2, <1>3, StoreNow DEF TablesInv, TablesTyped, IsTable
    <2>2. IsTable(reachability, Keys)' /\ IsTable(heard, Keys)' /\ IsTable(nodes, Ids)'
      BY <2>1 DEF TablesInv, TablesTyped, IsTable
    <2> QED BY <2>2 DEF TablesInv, TablesTyped
  <1>5. /\ DOMAIN reachability' = DOMAIN kept \cup {key} /\ DOMAIN heard' = DOMAIN heard \cup {key}
        /\ reachability'[key] = clock /\ heard'[key] = clock
        /\ \A k \in DOMAIN kept : k # key => reachability'[k] = kept[k]
        /\ \A k \in DOMAIN heard : k # key => heard'[k] = heard[k]
    <2>1. /\ DOMAIN Store(kept, key, clock) = DOMAIN kept \cup {key}
          /\ Store(kept, key, clock)[key] = clock
          /\ \A k \in DOMAIN kept : k # key => Store(kept, key, clock)[k] = kept[k]
      BY DEF Store
    <2>2. /\ DOMAIN Store(heard, key, clock) = DOMAIN heard \cup {key}
          /\ Store(heard, key, clock)[key] = clock
          /\ \A k \in DOMAIN heard : k # key => Store(heard, key, clock)[k] = heard[k]
      BY DEF Store
    <2>3. heard' = Store(heard, key, clock) /\ reachability' = Store(kept, key, clock)
      BY <1>3
    <2> QED BY <2>1, <2>2, <2>3, Zenon
  <1>6. Mirrors'
    BY <1>1, <1>5 DEF TablesInv, Mirrors
  <1>7. FreshReportsStay'
    <2> SUFFICES ASSUME NEW k \in DOMAIN heard', ~Aged(heard'[k])
                 PROVE  k \in DOMAIN reachability' /\ reachability'[k] = heard'[k]
      BY DEF FreshReportsStay, Aged
    <2>1. CASE k = key
      BY <1>5, <2>1
    <2>2. CASE k # key
      BY <1>1, <1>5, <2>2 DEF TablesInv, FreshReportsStay
    <2> QED BY <2>1, <2>2
  <1>8. CapsHold'
    <2>1. CASE key \in DOMAIN kept
      <3>1. DOMAIN reachability' = DOMAIN kept
        BY <1>5, <2>1
      <3>2. \A f : RowsOf(reachability', f) = RowsOf(kept, f)
        BY <3>1 DEF RowsOf
      <3>3. Cardinality(DOMAIN reachability') <= MaxEntries
            /\ \A f \in Ids : Cardinality(RowsOf(reachability', f)) <= MaxPerPeer
        BY <1>2, <3>1, <3>2
      <3> QED BY <3>3 DEF CapsHold, RowsOf
    <2>2. CASE key \notin DOMAIN kept
      <3>1. Cardinality(DOMAIN kept) < MaxEntries /\ Cardinality(RowsOf(kept, key[1])) < MaxPerPeer
        BY <1>3, <2>2 DEF HasRoom
      <3>2. /\ Cardinality(DOMAIN reachability') = Cardinality(DOMAIN kept) + 1
            /\ \A f : Cardinality(RowsOf(reachability', f)) =
                        IF f = key[1] THEN Cardinality(RowsOf(kept, f)) + 1 ELSE Cardinality(RowsOf(kept, f))
        BY <1>2, <1>3, <2>2, OneMoreRow
      <3>3. Cardinality(DOMAIN kept) \in Nat /\ \A f : Cardinality(RowsOf(kept, f)) \in Nat
        BY <1>2, KeysFinite
      <3>4. Cardinality(DOMAIN reachability') <= MaxEntries
            /\ \A f \in Ids : Cardinality(RowsOf(reachability', f)) <= MaxPerPeer
        BY <1>2, <3>1, <3>2, <3>3, LimitsAreNat
      <3> QED BY <3>4 DEF CapsHold, RowsOf
    <2> QED BY <2>1, <2>2
  <1> QED BY <1>4, <1>6, <1>7, <1>8 DEF TablesInv

\* The rows that were swept stay away when the report is refused.
LEMMA RefusedReport ==
  ASSUME TablesInv, NEW key \in Keys, reachability' = Swept(key), UNCHANGED <<clock, nodes, heard>>
  PROVE  TablesInv'
  <1>1. /\ DOMAIN Swept(key) \subseteq DOMAIN reachability
        /\ \A k \in DOMAIN Swept(key) : Swept(key)[k] = reachability[k]
        /\ \A k \in DOMAIN reachability : ~Aged(reachability[k]) => k \in DOMAIN Swept(key)
    BY SweptShape
  <1>2. TablesTyped'
    BY SweptInv DEF TablesInv, TablesTyped, IsTable
  <1>3. Mirrors'
    BY <1>1 DEF TablesInv, Mirrors
  <1>4. FreshReportsStay'
    BY <1>1 DEF TablesInv, FreshReportsStay, Aged
  <1>5. CapsHold'
    BY SweptInv DEF CapsHold, RowsOf
  <1> QED BY <1>2, <1>3, <1>4, <1>5 DEF TablesInv

LEMMA TablesStep ==
  ASSUME TypeOK, Entitled, TablesInv, [Next]_vars
  PROVE  TablesInv'
  <1> DEFINE Kept == UNCHANGED state
  <1>1. CASE Tick
    <2>1. clock' = clock + 1 /\ UNCHANGED <<nodes, reachability, heard>>
      BY <1>1 DEF Tick
    <2>2. TablesTyped'
      BY <2>1 DEF TablesInv, TablesTyped, IsTable, IsTableOver
    <2>3. Mirrors' /\ CapsHold'
      BY <2>1 DEF TablesInv, Mirrors, CapsHold, RowsOf
    <2>4. FreshReportsStay'
      <3>1. \A k \in DOMAIN heard : Aged(heard[k]) => Aged(heard[k])'
        BY <2>1, LimitsAreNat DEF Aged, TablesInv, TablesTyped, IsTable, IsTableOver
      <3> QED BY <2>1, <3>1 DEF TablesInv, FreshReportsStay
    <2> QED BY <2>2, <2>3, <2>4 DEF TablesInv
  <1>2. CASE Restart
    <2>1. nodes' = NoEntries /\ reachability' = NoEntries /\ heard' = NoEntries /\ clock' = clock
      BY <1>2 DEF Restart
    <2>2. TablesTyped' /\ Mirrors' /\ FreshReportsStay'
      BY <2>1 DEF NoEntries, TablesInv, TablesTyped, IsTable, IsTableOver, Mirrors, FreshReportsStay
    <2>3. CapsHold'
      <3>1. DOMAIN reachability' = {} /\ \A f \in Ids : RowsOf(reachability', f) = {}
        BY <2>1 DEF NoEntries, RowsOf
      <3>2. Cardinality({}) = 0
        BY FS_EmptySet
      <3>3. Cardinality(DOMAIN reachability') = 0
            /\ \A f \in Ids : Cardinality(RowsOf(reachability', f)) = 0
        BY <3>1, <3>2, Zenon
      <3> QED BY <3>3, LimitsAreNat DEF CapsHold, RowsOf
    <2> QED BY <2>2, <2>3 DEF TablesInv
  <1>3. ASSUME NEW c \in Conns, PostHello(c)
        PROVE  TablesInv'
    <2>1. /\ msg[c].body \in Relayable /\ Claiming(msg[c].body)
          /\ nodes' = Store(nodes, msg[c].body.claim, clock)
          /\ UNCHANGED <<clock, reachability, heard>>
      BY <1>3 DEF PostHello, Granted, Entitled
    <2>2. IsTable(nodes', Ids)
      BY <2>1, BodyShape, StoreNow DEF TablesInv, TablesTyped
    <2>3. TablesTyped'
      BY <2>1, <2>2 DEF TablesInv, TablesTyped, IsTable
    <2> QED BY <2>1, <2>3 DEF TablesInv, Mirrors, FreshReportsStay, CapsHold, RowsOf, Aged
  <1>4. ASSUME NEW c \in Conns, PostReport(c)
        PROVE  TablesInv'
    <2> DEFINE key == <<msg[c].body.claim, msg[c].body.target>>
    <2>1. key \in Keys /\ UNCHANGED <<clock, nodes>>
      BY <1>4, BodyShape DEF PostReport, Granted, Entitled, Keys
    <2>2. \/ /\ HasRoom(Swept(key), key)
             /\ reachability' = Store(Swept(key), key, clock)
             /\ heard' = Store(heard, key, clock)
          \/ /\ reachability' = Swept(key)
             /\ heard' = heard
      BY <1>4 DEF PostReport
    <2> HIDE DEF key
    <2> QED BY <2>1, <2>2, AcceptedReport, RefusedReport
  <1>5. CASE Kept
    BY <1>5 DEF state, TablesInv, TablesTyped, IsTable, Mirrors, FreshReportsStay, CapsHold, RowsOf, Aged
  <1>6. \/ Tick \/ Restart \/ Kept
        \/ \E c \in Conns : PostHello(c) \/ PostReport(c)
    BY DEF Next, Read, Serve, vars, state, Connect, ReadFails, ReadDirect, ReadStateless,
           ReadFromHead, ReadQuery, Vet, Snap, Answered, AnswerFails
  <1> QED BY <1>1, <1>2, <1>3, <1>4, <1>5, <1>6

LEMMA IInvStep == IInv /\ [Next]_vars => IInv'
  <1> SUFFICES ASSUME IInv, [Next]_vars PROVE IInv'
    OBVIOUS
  <1>1. TablesTyped /\ TablesInv /\ TypeOK /\ Entitled
    BY TypeParts DEF IInv, TablesInv
  <1>2. TablesInv' /\ TasksTyped' /\ Entitled'
    BY <1>1, TasksStep, TablesStep
  <1>3. TypeOK'
    BY <1>2 DEF TablesInv, TypeOK, TablesTyped, TasksTyped, Messages
  <1> QED BY <1>2, <1>3 DEF IInv, TablesInv

-----------------------------------------------------------------------------
(* What a single step may do.                                              *)

\* A task goes from waiting to write to being answered by writing.
LEMMA AnsweredByWriting ==
  ASSUME TypeOK, [Next]_vars, NEW c \in Conns, pc[c] = "posting", pc'[c] = "acking"
  PROVE  PostHello(c) \/ PostReport(c)
  <1> USE DEF Goto, Ack, Enqueue, Granted, Vanish
  <1>1. pc \in [Conns -> Waiting \cup {"gone", "reading", "acking", "replying"}]
    BY DEF TypeOK
  <1>2. CASE Tick \/ Restart \/ UNCHANGED vars
    BY <1>2 DEF Tick, Restart, vars
  <1>3. ASSUME NEW d \in Conns, NEW who \in Identities, Connect(d, who)
        PROVE  FALSE
    BY <1>1, <1>3 DEF Connect
  <1>4. ASSUME NEW d \in Conns, Read(d)
        PROVE  FALSE
    BY <1>1, <1>4 DEF Read, ReadFails, ReadDirect, ReadStateless, ReadFromHead, ReadQuery
  <1>5. ASSUME NEW d \in Conns, Vet(d) \/ Snap(d) \/ Answered(d) \/ AnswerFails(d)
        PROVE  FALSE
    BY <1>1, <1>5 DEF Vet, Snap, Answered, AnswerFails
  <1>6. ASSUME NEW d \in Conns, PostHello(d) \/ PostReport(d)
        PROVE  d = c
    BY <1>1, <1>6 DEF PostHello, PostReport
  <1> QED BY <1>2, <1>3, <1>4, <1>5, <1>6 DEF Next, Serve

LEMMA HeartbeatStep ==
  ASSUME IInv, [Next]_vars, NEW key \in Keys, Refused(key)
  PROVE  key \notin DOMAIN heard \/ Aged(heard[key])
  <1>1. ~HasRoom(Swept(key), key)
    BY DEF Refused
  <1>2. key \notin DOMAIN Swept(key)
    BY <1>1 DEF HasRoom
  <1> QED BY <1>2, SweptShape DEF IInv, FreshReportsStay

\* A task goes from waiting to read to replying by taking a snapshot.
LEMMA RepliesBySnapping ==
  ASSUME TypeOK, [Next]_vars, NEW c \in Conns, pc[c] = "querying", pc'[c] = "replying"
  PROVE  Snap(c)
  <1> USE DEF Goto, Ack, Enqueue, Granted, Vanish
  <1>1. pc \in [Conns -> Waiting \cup {"gone", "reading", "acking", "replying"}]
    BY DEF TypeOK
  <1>2. CASE Tick \/ Restart \/ UNCHANGED vars
    BY <1>2 DEF Tick, Restart, vars
  <1>3. ASSUME NEW d \in Conns, NEW who \in Identities, Connect(d, who)
        PROVE  FALSE
    BY <1>1, <1>3 DEF Connect
  <1>4. ASSUME NEW d \in Conns, Read(d)
        PROVE  FALSE
    BY <1>1, <1>4 DEF Read, ReadFails, ReadDirect, ReadStateless, ReadFromHead, ReadQuery
  <1>5. ASSUME NEW d \in Conns, Vet(d) \/ PostHello(d) \/ PostReport(d) \/ Answered(d) \/ AnswerFails(d)
        PROVE  FALSE
    BY <1>1, <1>5 DEF Vet, PostHello, PostReport, Answered, AnswerFails
  <1>6. ASSUME NEW d \in Conns, Snap(d)
        PROVE  d = c
    BY <1>1, <1>6 DEF Snap
  <1> QED BY <1>2, <1>3, <1>4, <1>5, <1>6 DEF Next, Serve

\* The reports of a snapshot are those history knows to be fresh.
FreshReports == {k \in DOMAIN heard : ~Aged(heard[k]) /\ k[1] \notin Expired /\ k[2] \notin Expired}

LEMMA FreshAreLive ==
  ASSUME Mirrors, FreshReportsStay
  PROVE  FreshReports = LiveReports
  <1>1. ASSUME NEW k \in FreshReports PROVE k \in LiveReports
    BY DEF FreshReports, LiveReports, FreshReportsStay
  <1>2. ASSUME NEW k \in LiveReports PROVE k \in FreshReports
    BY DEF FreshReports, LiveReports, Mirrors
  <1> QED BY <1>1, <1>2

LEMMA SizesTyped ==
  ASSUME TypeOK
  PROVE  /\ IsFiniteSet(LiveNodes) /\ \A n \in LiveNodes : Size[n] \in Nat
         /\ IsFiniteSet(LiveReports) /\ \A k \in LiveReports : ReportSize[k] \in Nat
  <1>1. LiveNodes \in SUBSET Ids /\ LiveReports \in SUBSET Keys
    BY DEF TypeOK, IsTable, IsTableOver, LiveNodes, LiveReports
  <1>2. IsFiniteSet(Ids) /\ IsFiniteSet(Keys)
    BY IdsFinite, FS_Product DEF Keys
  <1>3. \A n \in Ids : Size[n] \in Nat
    BY LimitsAreNat
  <1>4. ASSUME NEW k \in Keys PROVE ReportSize[k] \in Nat
    <2>1. ReportSize[k] = Size[k[1]] + Size[k[2]]
      BY DEF ReportSize
    <2>2. k[1] \in Ids /\ k[2] \in Ids
      BY DEF Keys
    <2>3. Size[k[1]] \in Nat /\ Size[k[2]] \in Nat
      BY <1>3, <2>2
    <2> QED BY <2>1, <2>3
  <1> QED BY <1>1, <1>2, <1>3, <1>4, FS_Subset

\* Everything in the first place, then everything in the second.
LEMMA SnapshotFits ==
  ASSUME TypeOK, NEW n \in SUBSET LiveNodes, NEW r \in SUBSET LiveReports,
         Fills(n, LiveNodes, Size, Budget),
         Fills(r, LiveReports, ReportSize, Budget - SumFunctionOnSet(Size, n))
  PROVE  /\ SumFunctionOnSet(Size, n) + SumFunctionOnSet(ReportSize, r) <= Budget
         /\ SumFunctionOnSet(Size, LiveNodes) + SumFunctionOnSet(ReportSize, LiveReports) <= Budget
              => n = LiveNodes /\ r = LiveReports
  <1> DEFINE N == SumFunctionOnSet(Size, n)
             R == SumFunctionOnSet(ReportSize, r)
             NN == SumFunctionOnSet(Size, LiveNodes)
             RR == SumFunctionOnSet(ReportSize, LiveReports)
  <1>1. N \in Nat /\ R \in Nat /\ NN \in Nat /\ RR \in Nat
    <2>1. IsFiniteSet(n) /\ \A x \in n : Size[x] \in Nat
      BY SizesTyped, FS_Subset
    <2>2. IsFiniteSet(r) /\ \A x \in r : ReportSize[x] \in Nat
      BY SizesTyped, FS_Subset
    <2>3. N \in Nat
      BY <2>1, SumNat
    <2>4. R \in Nat
      BY <2>2, SumNat
    <2>5. NN \in Nat
      BY SizesTyped, SumNat
    <2>6. RR \in Nat
      BY SizesTyped, SumNat
    <2> QED BY <2>3, <2>4, <2>5, <2>6
  <1>2. Budget \in Nat
    BY LimitsAreNat
  <1>3. N <= Budget /\ R <= Budget - N
    BY DEF Fills
  <1>4. ASSUME NN + RR <= Budget PROVE n = LiveNodes /\ r = LiveReports
    <2>1. NN <= Budget /\ Budget \in Int
      <3> HIDE DEF NN, RR
      <3> QED BY <1>1, <1>2, <1>4
    <2>2. n = LiveNodes
      BY <2>1, SizesTyped, FillsWhole
    <2>3. N = NN
      BY <2>2
    <2>4. RR <= Budget - N /\ Budget - N \in Int
      <3> HIDE DEF N, NN, RR
      <3> QED BY <1>1, <1>2, <1>4, <2>3
    <2>5. r = LiveReports
      BY <2>4, SizesTyped, FillsWhole
    <2> QED BY <2>2, <2>5
  <1>5. N + R <= Budget
    <2> HIDE DEF N, R
    <2> QED BY <1>1, <1>2, <1>3
  <1> QED BY <1>4, <1>5

LEMMA SnapshotStep ==
  ASSUME IInv, [Next]_vars, NEW c \in Conns, pc[c] = "querying", pc'[c] = "replying"
  PROVE  /\ SumFunctionOnSet(Size, view'[c].nodes) + SumFunctionOnSet(ReportSize, view'[c].reports) <= Budget
         /\ view'[c].nodes \subseteq LiveNodes /\ view'[c].reports \subseteq FreshReports
         /\ SumFunctionOnSet(Size, LiveNodes) + SumFunctionOnSet(ReportSize, FreshReports) <= Budget
              => view'[c].nodes = LiveNodes /\ view'[c].reports = FreshReports
  <1>1. TypeOK /\ FreshReports = LiveReports
    BY FreshAreLive DEF IInv
  <1>2. Snap(c)
    BY <1>1, RepliesBySnapping
  <1>3. PICK n \in SUBSET LiveNodes, r \in SUBSET LiveReports :
          /\ Fills(n, LiveNodes, Size, Budget)
          /\ Fills(r, LiveReports, ReportSize, Budget - SumFunctionOnSet(Size, n))
          /\ view' = [view EXCEPT ![c] = [nodes |-> n, reports |-> r]]
    BY <1>2, Zenon DEF Snap
  <1>4. view'[c].nodes = n /\ view'[c].reports = r
    BY <1>1, <1>3 DEF TypeOK
  <1>5. /\ SumFunctionOnSet(Size, n) + SumFunctionOnSet(ReportSize, r) <= Budget
        /\ SumFunctionOnSet(Size, LiveNodes) + SumFunctionOnSet(ReportSize, LiveReports) <= Budget
              => n = LiveNodes /\ r = LiveReports
    BY <1>1, <1>3, SnapshotFits
  <1> QED BY <1>1, <1>4, <1>5

LEMMA EntitledStep ==
  ASSUME IInv, [Next]_vars
  PROVE  /\ \A n \in DOMAIN nodes' : (n \in DOMAIN nodes /\ nodes'[n] = nodes[n]) \/ WrittenBy(n)
         /\ \A k \in DOMAIN reachability' :
              (k \in DOMAIN reachability /\ reachability'[k] = reachability[k]) \/ WrittenBy(k[1])
  <1>1. CASE Restart
    BY <1>1 DEF Restart, NoEntries
  <1>2. CASE UNCHANGED <<nodes, reachability>>
    BY <1>2
  <1>3. ASSUME NEW c \in Conns, PostHello(c) \/ PostReport(c)
        PROVE  WrittenBy(msg[c].body.claim)
    <2>1. pc[c] = "posting" /\ pc' = [pc EXCEPT ![c] = "acking"]
      BY <1>3 DEF PostHello, PostReport, Granted, Ack, Goto
    <2>2. pc'[c] # "posting"
      BY <2>1 DEF IInv, TypeOK
    <2>3. SpeaksFor(c, msg[c].body.claim)
      BY <2>1 DEF IInv, Entitled
    <2> QED BY <2>1, <2>2, <2>3 DEF WrittenBy
  <1>4. ASSUME NEW c \in Conns, PostHello(c)
        PROVE  /\ UNCHANGED reachability
               /\ \A n \in DOMAIN nodes' :
                    (n \in DOMAIN nodes /\ nodes'[n] = nodes[n]) \/ WrittenBy(n)
    <2>1. nodes' = Store(nodes, msg[c].body.claim, clock) /\ UNCHANGED reachability
      BY <1>4 DEF PostHello
    <2>2. WrittenBy(msg[c].body.claim)
      BY <1>3, <1>4
    <2> QED BY <2>1, <2>2 DEF Store
  <1>5. ASSUME NEW c \in Conns, PostReport(c)
        PROVE  /\ UNCHANGED nodes
               /\ \A k \in DOMAIN reachability' :
                    (k \in DOMAIN reachability /\ reachability'[k] = reachability[k]) \/ WrittenBy(k[1])
    <2> DEFINE key == <<msg[c].body.claim, msg[c].body.target>>
    <2>1. UNCHANGED nodes
      BY <1>5 DEF PostReport
    <2>2. reachability' = Store(Swept(key), key, clock) \/ reachability' = Swept(key)
      BY <1>5 DEF PostReport
    <2>3. WrittenBy(key[1])
      BY <1>3, <1>5
    <2>4. /\ DOMAIN Swept(key) \subseteq DOMAIN reachability
          /\ \A k \in DOMAIN Swept(key) : Swept(key)[k] = reachability[k]
      BY SweptShape
    <2> HIDE DEF key
    <2>5. ASSUME NEW k \in DOMAIN reachability'
          PROVE  (k \in DOMAIN reachability /\ reachability'[k] = reachability[k]) \/ WrittenBy(k[1])
      <3>1. CASE k = key
        BY <2>3, <3>1
      <3>2. CASE k # key
        BY <2>2, <2>4, <3>2 DEF Store
      <3> QED BY <3>1, <3>2
    <2> QED BY <2>1, <2>5
  <1>6. \/ Restart \/ UNCHANGED <<nodes, reachability>>
        \/ \E c \in Conns : PostHello(c) \/ PostReport(c)
    BY DEF Next, Read, Serve, vars, state, Tick, Connect, ReadFails, ReadDirect, ReadStateless,
           ReadFromHead, ReadQuery, Vet, Snap, Answered, AnswerFails
  <1> QED BY <1>1, <1>2, <1>4, <1>5, <1>6

-----------------------------------------------------------------------------
(* The lock.                                                               *)

\* The queue is the tasks that wait, each once.
InLine ==
  /\ \A i \in 1..Len(queue) : pc[queue[i]] \in Waiting
  /\ \A i, j \in 1..Len(queue) : queue[i] = queue[j] => i = j
  /\ \A c \in Conns : pc[c] \in Waiting => \E i \in 1..Len(queue) : queue[i] = c

Guarded == holder # Nobody => pc[holder] = "acking"

\* What a step of one task does to the lock: nothing, join the line, leave it,
\* or leave it and join it again.
Bypasses(c) ==
  /\ pc[c] \notin Waiting /\ pc'[c] \notin Waiting /\ UNCHANGED queue
  /\ holder' = holder \/ holder' = Nobody
  /\ holder' = c => pc'[c] = "acking"
Joins(c) ==
  /\ pc[c] = "reading" /\ pc'[c] \in Waiting
  /\ queue' = Append(queue, c) /\ holder' = holder
Leaves(c) ==
  /\ queue # << >> /\ queue[1] = c /\ pc'[c] \notin Waiting
  /\ queue' = Tail(queue)
  /\ holder' = Nobody \/ (holder' = c /\ pc'[c] = "acking")
Rejoins(c) ==
  /\ queue # << >> /\ queue[1] = c /\ pc'[c] \in Waiting
  /\ queue' = Append(Tail(queue), c) /\ holder' = Nobody

LEMMA LockEffect ==
  ASSUME TypeOK, Guarded, Next
  PROVE  \/ queue' = << >> /\ holder' = Nobody /\ pc' = [d \in Conns |-> "gone"]
         \/ UNCHANGED <<queue, holder, pc>>
         \/ \E c \in Conns :
              /\ \A d \in Conns : d # c => pc'[d] = pc[d]
              /\ Bypasses(c) \/ Joins(c) \/ Leaves(c) \/ Rejoins(c)
  <1> DEFINE Goal == \E c \in Conns :
                       /\ \A d \in Conns : d # c => pc'[d] = pc[d]
                       /\ Bypasses(c) \/ Joins(c) \/ Leaves(c) \/ Rejoins(c)
  <1>0. /\ pc \in [Conns -> Waiting \cup {"gone", "reading", "acking", "replying"}]
        /\ queue \in Seq(Conns) /\ holder \in Conns \cup {Nobody} /\ Nobody \notin Conns
    BY TypeParts, IdentitiesAreIds DEF TasksTyped
  <1>1. CASE Restart
    BY <1>1 DEF Restart
  <1>2. CASE Tick
    BY <1>2 DEF Tick
  <1>3. ASSUME NEW c \in Conns, NEW phase, pc' = [pc EXCEPT ![c] = phase]
        PROVE  pc'[c] = phase /\ \A d \in Conns : d # c => pc'[d] = pc[d]
    BY <1>0, <1>3
  <1>4. ASSUME NEW c \in Conns, \E who \in Identities : Connect(c, who)
        PROVE  Goal
    <2>1. Bypasses(c)
      BY <1>0, <1>3, <1>4 DEF Connect, Goto, Bypasses, Guarded, Waiting
    <2> QED BY <2>1, <1>3, <1>4 DEF Connect, Goto
  <1>5. ASSUME NEW c \in Conns, Read(c)
        PROVE  Goal
    <2>1. CASE ReadFails(c)
      <3>1. Bypasses(c)
        BY <1>0, <1>3, <2>1 DEF ReadFails, Vanish, Goto, Bypasses, Guarded, Waiting
      <3> QED BY <3>1, <1>3, <2>1 DEF ReadFails, Vanish, Goto
    <2>2. CASE ReadStateless(c)
      <3>1. Bypasses(c)
        BY <1>0, <1>3, <2>2 DEF ReadStateless, Ack, Goto, Bypasses, Guarded, Waiting
      <3> QED BY <3>1, <1>3, <2>2 DEF ReadStateless, Ack, Goto
    <2>3. CASE ReadQuery(c)
      <3>1. Joins(c)
        BY <1>0, <1>3, <2>3 DEF ReadQuery, Enqueue, Goto, Joins, Waiting
      <3> QED BY <3>1, <1>3, <2>3 DEF ReadQuery, Enqueue, Goto
    <2>4. ASSUME NEW body \in Relayable, NEW client \in Ids \cup {Anonymous},
                 ReadFromHead(c, body, client)
          PROVE  Goal
      <3>1. Joins(c)
        BY <1>0, <1>3, <2>4 DEF ReadFromHead, Enqueue, Goto, Joins, Waiting
      <3> QED BY <3>1, <1>3, <2>4 DEF ReadFromHead, Enqueue, Goto
    <2>5. ASSUME NEW body \in Relayable, ReadDirect(c, body)
          PROVE  Goal
      <3>1. CASE Enqueue(c, "posting")
        <4>1. Joins(c)
          BY <1>0, <1>3, <2>5, <3>1 DEF ReadDirect, Enqueue, Goto, Joins, Waiting
        <4> QED BY <4>1, <1>3, <3>1 DEF Enqueue, Goto
      <3>2. CASE Ack(c) /\ UNCHANGED queue
        <4>1. Bypasses(c)
          BY <1>0, <1>3, <2>5, <3>2 DEF ReadDirect, Ack, Goto, Bypasses, Guarded, Waiting
        <4> QED BY <4>1, <1>3, <3>2 DEF Ack, Goto
      <3> QED BY <2>5, <3>1, <3>2 DEF ReadDirect
    <2> QED BY <1>5, <2>1, <2>2, <2>3, <2>4, <2>5 DEF Read
  <1>6. ASSUME NEW c \in Conns, Serve(c)
        PROVE  Goal
    <2>1. /\ queue # << >> /\ queue[1] = c /\ holder = Nobody
      BY <1>6 DEF Serve, Vet, PostHello, PostReport, Snap, Granted
    <2>2. CASE Vet(c)
      <3>1. Rejoins(c) \/ Leaves(c)
        BY <1>0, <1>3, <2>1, <2>2 DEF Vet, Ack, Goto, Rejoins, Leaves, Waiting
      <3>2. \E phase : pc' = [pc EXCEPT ![c] = phase]
        BY <2>2 DEF Vet, Ack, Goto
      <3> QED BY <3>1, <3>2, <1>3
    <2>3. CASE PostHello(c)
      <3>1. Leaves(c)
        BY <1>0, <1>3, <2>1, <2>3 DEF PostHello, Ack, Goto, Leaves, Waiting
      <3> QED BY <3>1, <1>3, <2>3 DEF PostHello, Ack, Goto
    <2>4. CASE PostReport(c)
      <3>1. Leaves(c)
        BY <1>0, <1>3, <2>1, <2>4 DEF PostReport, Ack, Goto, Leaves, Waiting
      <3> QED BY <3>1, <1>3, <2>4 DEF PostReport, Ack, Goto
    <2>5. CASE Snap(c)
      <3>1. Leaves(c)
        BY <1>0, <1>3, <2>1, <2>5 DEF Snap, Goto, Leaves, Waiting
      <3> QED BY <3>1, <1>3, <2>5 DEF Snap, Goto
    <2> QED BY <1>6, <2>2, <2>3, <2>4, <2>5 DEF Serve
  <1>7. ASSUME NEW c \in Conns, Answered(c) \/ AnswerFails(c)
        PROVE  Goal
    <2>1. Bypasses(c)
      BY <1>0, <1>3, <1>7 DEF Answered, AnswerFails, Vanish, Goto, Bypasses, Waiting
    <2>2. \E phase : pc' = [pc EXCEPT ![c] = phase]
      BY <1>7 DEF Answered, AnswerFails, Vanish, Goto
    <2> QED BY <2>1, <2>2, <1>3
  <1> QED BY <1>1, <1>2, <1>4, <1>5, <1>6, <1>7 DEF Next

LEMMA GuardedStep ==
  ASSUME TypeOK, Guarded, [Next]_vars
  PROVE  Guarded'
  <1>0. holder \in Conns \cup {Nobody} /\ Nobody \notin Conns
    BY TypeParts, IdentitiesAreIds DEF TasksTyped
  <1>1. CASE UNCHANGED <<holder, pc>>
    BY <1>1 DEF Guarded
  <1>2. CASE holder' = Nobody
    BY <1>2 DEF Guarded
  <1>3. ASSUME NEW c \in Conns, \A d \in Conns : d # c => pc'[d] = pc[d],
               Bypasses(c) \/ Joins(c) \/ Leaves(c) \/ Rejoins(c)
        PROVE  Guarded'
    BY <1>0, <1>3 DEF Guarded, Bypasses, Joins, Leaves, Rejoins, Waiting
  <1> QED BY <1>1, <1>2, <1>3, LockEffect DEF vars

LEMMA InLineStep ==
  ASSUME TypeOK, Guarded, InLine, [Next]_vars
  PROVE  InLine'
  <1>0. /\ pc \in [Conns -> Waiting \cup {"gone", "reading", "acking", "replying"}]
        /\ queue \in Seq(Conns)
    BY TypeParts DEF TasksTyped
  <1>1. CASE UNCHANGED <<queue, pc>>
    BY <1>1 DEF InLine
  <1>2. CASE queue' = << >> /\ pc' = [d \in Conns |-> "gone"]
    BY <1>2 DEF InLine, Waiting
  <1>3. ASSUME NEW c \in Conns, \A d \in Conns : d # c => pc'[d] = pc[d], Bypasses(c)
        PROVE  InLine'
    BY <1>0, <1>3 DEF InLine, Bypasses
  <1>4. ASSUME NEW c \in Conns, \A d \in Conns : d # c => pc'[d] = pc[d], Joins(c)
        PROVE  InLine'
    <2>1. /\ Len(queue') = Len(queue) + 1 /\ queue'[Len(queue) + 1] = c
          /\ \A i \in 1..Len(queue) : queue'[i] = queue[i] /\ queue[i] \in Conns
      BY <1>0, <1>4 DEF Joins
    <2>2. \A i \in 1..Len(queue) : queue[i] # c
      BY <1>0, <1>4 DEF InLine, Joins, Waiting
    <2>3. Len(queue) \in Nat
      BY <1>0
    <2>4. \A i \in 1..Len(queue') : i = Len(queue) + 1 \/ i \in 1..Len(queue)
      BY <2>1, <2>3
    <2>5. \A i \in 1..Len(queue') : pc'[queue'[i]] \in Waiting'
      BY <1>4, <2>1, <2>2, <2>4 DEF InLine, Joins, Waiting
    <2>6. \A i, j \in 1..Len(queue') : queue'[i] = queue'[j] => i = j
      BY <2>1, <2>2, <2>4 DEF InLine
    <2>7. ASSUME NEW d \in Conns, pc'[d] \in Waiting
          PROVE  \E i \in 1..Len(queue') : queue'[i] = d
      <3>1. CASE d = c
        BY <2>1, <2>3, <3>1
      <3>2. CASE d # c
        <4>1. PICK i \in 1..Len(queue) : queue[i] = d
          BY <1>4, <2>7, <3>2 DEF InLine
        <4> QED BY <2>1, <2>3, <4>1
      <3> QED BY <3>1, <3>2
    <2> QED BY <2>5, <2>6, <2>7 DEF InLine, Waiting
  <1>5. ASSUME NEW c \in Conns, \A d \in Conns : d # c => pc'[d] = pc[d], Leaves(c)
        PROVE  InLine'
    <2>1. /\ Len(queue') = Len(queue) - 1 /\ Len(queue) \in Nat \ {0}
          /\ \A i \in 1..Len(queue') : queue'[i] = queue[i + 1]
          /\ \A i \in 1..Len(queue) : queue[i] \in Conns
      BY <1>0, <1>5 DEF Leaves
    <2>2. \A i \in 1..Len(queue') : i + 1 \in 1..Len(queue) /\ i + 1 # 1
      BY <2>1
    <2>3. \A i \in 1..Len(queue') : queue'[i] # c
      BY <1>5, <2>1, <2>2 DEF InLine, Leaves
    <2>4. \A i \in 1..Len(queue') : pc'[queue'[i]] \in Waiting'
      BY <1>5, <2>1, <2>2, <2>3 DEF InLine, Waiting
    <2>5. \A i, j \in 1..Len(queue') : queue'[i] = queue'[j] => i = j
      BY <2>1, <2>2 DEF InLine
    <2>6. ASSUME NEW d \in Conns, pc'[d] \in Waiting
          PROVE  \E i \in 1..Len(queue') : queue'[i] = d
      <3>1. d # c
        BY <1>5, <2>6 DEF Leaves
      <3>2. PICK i \in 1..Len(queue) : queue[i] = d
        BY <1>5, <2>6, <3>1 DEF InLine
      <3>3. i # 1
        BY <1>5, <3>1, <3>2 DEF Leaves
      <3>4. i - 1 \in 1..Len(queue') /\ (i - 1) + 1 = i
        BY <2>1, <3>3
      <3> QED BY <2>1, <3>2, <3>4
    <2> QED BY <2>4, <2>5, <2>6 DEF InLine, Waiting
  <1>6. ASSUME NEW c \in Conns, \A d \in Conns : d # c => pc'[d] = pc[d], Rejoins(c)
        PROVE  InLine'
    <2>1. /\ Len(queue') = Len(queue) /\ Len(queue) \in Nat \ {0}
          /\ \A i \in 1..(Len(queue) - 1) : queue'[i] = queue[i + 1]
          /\ queue'[Len(queue)] = c
          /\ \A i \in 1..Len(queue) : queue[i] \in Conns
      BY <1>0, <1>6 DEF Rejoins
    <2>2. \A i \in 1..Len(queue) : i = Len(queue) \/ i \in 1..(Len(queue) - 1)
      BY <2>1
    <2>3. \A i \in 1..(Len(queue) - 1) : i + 1 \in 1..Len(queue) /\ i + 1 # 1
      BY <2>1
    <2>4. \A i \in 1..(Len(queue) - 1) : queue'[i] # c
      BY <1>6, <2>1, <2>3 DEF InLine, Rejoins
    <2>5. ASSUME NEW i \in 1..Len(queue')
          PROVE  pc'[queue'[i]] \in Waiting
      <3>1. CASE i = Len(queue)
        BY <1>6, <2>1, <3>1 DEF Rejoins
      <3>2. CASE i # Len(queue)
        <4>1. i \in 1..(Len(queue) - 1) /\ i + 1 \in 1..Len(queue)
          BY <2>1, <2>2, <2>3, <3>2
        <4>2. queue'[i] = queue[i + 1] /\ queue[i + 1] \in Conns /\ queue[i + 1] # c
          BY <2>1, <2>4, <4>1
        <4>3. pc[queue[i + 1]] \in Waiting
          BY <4>1 DEF InLine
        <4> QED BY <1>6, <4>2, <4>3
      <3> QED BY <3>1, <3>2
    <2>6. \A i, j \in 1..Len(queue') : queue'[i] = queue'[j] => i = j
      BY <2>1, <2>2, <2>3, <2>4 DEF InLine
    <2>7. ASSUME NEW d \in Conns, pc'[d] \in Waiting
          PROVE  \E i \in 1..Len(queue') : queue'[i] = d
      <3>1. CASE d = c
        BY <2>1, <3>1
      <3>2. CASE d # c
        <4>1. PICK i \in 1..Len(queue) : queue[i] = d
          BY <1>6, <2>7, <3>2 DEF InLine
        <4>2. i # 1
          BY <1>6, <3>2, <4>1 DEF Rejoins
        <4>3. i - 1 \in 1..(Len(queue) - 1) /\ i - 1 \in 1..Len(queue') /\ (i - 1) + 1 = i
          BY <2>1, <4>2
        <4> QED BY <2>1, <4>1, <4>3
      <3> QED BY <3>1, <3>2
    <2> QED BY <2>5, <2>6, <2>7 DEF InLine, Waiting
  <1> QED BY <1>1, <1>2, <1>3, <1>4, <1>5, <1>6, LockEffect DEF vars

LEMMA LineMeansOnce ==
  ASSUME TypeOK, InLine, NEW c \in Conns
  PROVE  pc[c] \in Waiting <=> Cardinality({i \in 1..Len(queue) : queue[i] = c}) = 1
  <1> DEFINE places == {i \in 1..Len(queue) : queue[i] = c}
  <1>1. CASE pc[c] \in Waiting
    <2>1. PICK i \in 1..Len(queue) : queue[i] = c
      BY <1>1 DEF InLine
    <2>2. places = {i}
      BY <2>1 DEF InLine
    <2>3. Cardinality({i}) = 1
      BY FS_Singleton
    <2> QED BY <1>1, <2>2, <2>3, Zenon
  <1>2. CASE pc[c] \notin Waiting
    <2>1. places = {}
      BY <1>2 DEF InLine
    <2>2. Cardinality({}) = 0
      BY FS_EmptySet
    <2>3. Cardinality(places) = 0
      BY <2>1, <2>2, Zenon
    <2> QED BY <1>2, <2>3
  <1> QED BY <1>1, <1>2

-----------------------------------------------------------------------------
(* The theorems.                                                           *)

LEMMA Inductive == Spec => []IInv
  BY InitInv, IInvStep, PTL DEF Spec

\* Whatever is read, queued, answered or lost, the registry's tables and its
\* tasks keep their types (handle_connection).
THEOREM CrawlTypeOK == Spec => []TypeOK
  BY Inductive, PTL DEF IInv

\* The table never outgrows its two ceilings, whatever they are (record_report).
THEOREM CrawlCapsHold == Spec => []CapsHold
  BY Inductive, PTL DEF IInv

\* An acknowledged report stays while it is fresh, however many peers report
\* meanwhile (record_report, expire_reports).
THEOREM CrawlFreshReportsStay == Spec => []FreshReportsStay
  BY Inductive, PTL DEF IInv

\* A peer that keeps its reports fresh is never refused one (record_report).
THEOREM CrawlHeartbeatsAccepted == Spec => HeartbeatsAccepted
  <1>1. IInv /\ [Next]_vars =>
          [\A key \in Keys : Refused(key) => key \notin DOMAIN heard \/ Aged(heard[key])]_vars
    BY HeartbeatStep
  <1> QED BY <1>1, Inductive, PTL DEF Spec, HeartbeatsAccepted

\* A task waits for the lock in one place of the line and the line holds no
\* other, and a guard that outlives its step is that of a task writing its
\* answer (handle_connection): for any number of connections.
THEOREM CrawlLockIsSound == Spec => []LockIsSound
  <1>1. Init => Guarded /\ InLine
    BY DEF Init, Guarded, InLine, Waiting
  <1>2. IInv /\ Guarded /\ InLine /\ [Next]_vars => Guarded' /\ InLine'
    BY GuardedStep, InLineStep DEF IInv
  <1>3. IInv /\ Guarded /\ InLine => LockIsSound
    BY LineMeansOnce DEF IInv, LockIsSound, Guarded
  <1> QED BY <1>1, <1>2, <1>3, Inductive, PTL DEF Spec

\* Nothing is written about a node but by those entitled to (authorized,
\* authorized_relay_peer, authorized_relayed_claim).
THEOREM CrawlOnlyTheEntitledWrite == Spec => OnlyTheEntitledWrite
  <1> DEFINE Claims ==
        /\ \A n \in DOMAIN nodes' : (n \in DOMAIN nodes /\ nodes'[n] = nodes[n]) \/ WrittenBy(n)
        /\ \A k \in DOMAIN reachability' :
             (k \in DOMAIN reachability /\ reachability'[k] = reachability[k]) \/ WrittenBy(k[1])
  <1>1. IInv /\ [Next]_vars => [Claims]_vars
    BY EntitledStep
  <1> QED BY <1>1, Inductive, PTL DEF Spec, OnlyTheEntitledWrite

\* A snapshot is what the registry has fresh, and leaves some of it out only
\* when the whole would not fit, whatever the sizes and the budget
\* (graph_snapshot).
THEOREM CrawlSnapshotHonest == Spec => SnapshotHonest
  <1> DEFINE Honest ==
        \A c \in Conns : pc[c] = "querying" /\ pc'[c] = "replying" =>
          /\ SumFunctionOnSet(Size, view'[c].nodes)
               + SumFunctionOnSet(ReportSize, view'[c].reports) <= Budget
          /\ view'[c].nodes \subseteq LiveNodes /\ view'[c].reports \subseteq FreshReports
          /\ SumFunctionOnSet(Size, LiveNodes) + SumFunctionOnSet(ReportSize, FreshReports) <= Budget
               => view'[c].nodes = LiveNodes /\ view'[c].reports = FreshReports
  <1>1. IInv /\ [Next]_vars => [Honest]_vars
    BY SnapshotStep
  <1> QED BY <1>1, Inductive, PTL DEF Spec, SnapshotHonest, FreshReports

==============================================================================

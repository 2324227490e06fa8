----------------------------- MODULE RelayProofs -----------------------------
(***************************************************************************)
(* Proofs about Relay for every finite set of connections, every set of    *)
(* addresses and peers, and every value of the caps.                       *)
(***************************************************************************)
EXTENDS Relay, FiniteSetTheorems, TLAPS

\* A task that owns a guard knows the key it is charged to.
KeysKnown ==
  \A c \in Conns :
    /\ pc[c] = "open" \/ c \in permit => peer[c] \in Peers
    /\ c \in pending => addr[c] \in Addrs

Typed == TypeOK /\ KeysKnown /\ GuardsFollowPhase

-----------------------------------------------------------------------------
(* Facts about the tally tables.                                           *)

LEMMA StoreTable ==
  ASSUME NEW K, NEW m, IsTableOver(m, K), NEW k \in K, NEW n \in Nat
  PROVE  IsTableOver(Store(m, k, n), K)
BY DEF IsTableOver, Store

LEMMA TallyNat ==
  ASSUME NEW K, NEW m, IsTableOver(m, K), NEW k
  PROVE  Tally(m, k) \in Nat
BY DEF IsTableOver, Tally

LEMMA ChargeTable ==
  ASSUME NEW K, NEW m, IsTableOver(m, K), NEW k \in K
  PROVE  IsTableOver(Charge(m, k), K) /\ IsTableOver(Touch(m, k), K)
BY StoreTable, TallyNat DEF Charge, Touch

LEMMA ReleaseTable ==
  ASSUME NEW K, NEW m, IsTableOver(m, K), NEW k
  PROVE  IsTableOver(Release(m, k), K)
<1>1. CASE k \notin DOMAIN m
  BY <1>1 DEF Release
<1>2. CASE k \in DOMAIN m /\ Decrement(m[k]) = 0
  BY <1>2 DEF Release, Erase, IsTableOver
<1>3. CASE k \in DOMAIN m /\ Decrement(m[k]) # 0
  <2>1. k \in K /\ Decrement(m[k]) \in Nat
    BY <1>3 DEF IsTableOver, Decrement
  <2>. QED  BY <1>3, <2>1, StoreTable DEF Release
<1>. QED  BY <1>1, <1>2, <1>3

\* Charging a key adds one to its tally and leaves every other tally alone.
LEMMA TallyCharge ==
  ASSUME NEW m, NEW k, NEW j
  PROVE  /\ Tally(Charge(m, k), j) = IF j = k THEN Tally(m, k) + 1 ELSE Tally(m, j)
         /\ Tally(Touch(m, k), j) = Tally(m, j)
BY DEF Tally, Charge, Touch, Store

\* Releasing a key takes one off its tally and leaves every other tally alone.
LEMMA TallyRelease ==
  ASSUME NEW K, NEW m, IsTableOver(m, K), NEW k, NEW j
  PROVE  Tally(Release(m, k), j) = IF j = k THEN Decrement(Tally(m, k)) ELSE Tally(m, j)
<1>1. CASE k \notin DOMAIN m
  BY <1>1 DEF Release, Tally, Decrement
<1>2. CASE k \in DOMAIN m /\ Decrement(m[k]) = 0
  BY <1>2 DEF Release, Erase, Tally
<1>3. CASE k \in DOMAIN m /\ Decrement(m[k]) # 0
  BY <1>3 DEF Release, Store, Tally
<1>. QED  BY <1>1, <1>2, <1>3

-----------------------------------------------------------------------------
(* Type correctness, with the keys and the guards each phase owns.         *)

LEMMA DropPermitTyped ==
  ASSUME TypeOK, NEW c \in Conns, DropPermit(c)
  PROVE  /\ permit' = permit \ {c}
         /\ total' \in Nat
         /\ IsTableOver(per_peer', Peers)
<1>1. CASE c \in permit
  BY <1>1, ReleaseTable DEF DropPermit, TypeOK, Decrement
<1>2. CASE c \notin permit
  BY <1>2 DEF DropPermit, TypeOK
<1>. QED  BY <1>1, <1>2

LEMMA DropPendingTyped ==
  ASSUME TypeOK, NEW c \in Conns, DropPending(c)
  PROVE  /\ pending' = pending \ {c}
         /\ pending_total' \in Nat
         /\ IsTableOver(pending_per_addr', Addrs)
BY ReleaseTable DEF DropPending, TypeOK, Decrement

LEMMA LeaveHandshakeTyped ==
  ASSUME Typed, NEW c \in Conns, LeaveHandshake(c), pc[c] \in Handshaking
  PROVE  Typed'
<1>1. /\ permit' = permit \ {c}
      /\ total' \in Nat
      /\ IsTableOver(per_peer', Peers)
  BY DropPermitTyped DEF LeaveHandshake, Typed
<1>2. TypeOK'
  BY <1>1 DEF Typed, TypeOK, LeaveHandshake, Goto, Phases
<1>3. KeysKnown'
  BY <1>1 DEF Typed, TypeOK, KeysKnown, LeaveHandshake, Goto
<1>4. GuardsFollowPhase'
  BY <1>1 DEF Typed, TypeOK, GuardsFollowPhase, LeaveHandshake, Goto, Handshaking, Splicing
<1>. QED  BY <1>2, <1>3, <1>4 DEF Typed

LEMMA EndSpliceTyped ==
  ASSUME Typed, NEW c \in Conns, EndSplice(c), pc[c] \in Splicing
  PROVE  Typed'
<1>1. /\ permit' = permit \ {c}
      /\ total' \in Nat
      /\ IsTableOver(per_peer', Peers)
  BY DropPermitTyped DEF EndSplice, Typed
<1>2. TypeOK'
  BY <1>1 DEF Typed, TypeOK, EndSplice, Forget, Goto, Tell, Phases, Statuses
<1>3. KeysKnown'
  BY <1>1 DEF Typed, TypeOK, KeysKnown, GuardsFollowPhase, EndSplice, Forget, Goto, Tell,
              Handshaking, Splicing
<1>4. GuardsFollowPhase'
  BY <1>1 DEF Typed, TypeOK, GuardsFollowPhase, EndSplice, Forget, Goto, Tell, Handshaking, Splicing
<1>. QED  BY <1>2, <1>3, <1>4 DEF Typed

LEMMA ArrivalTyped ==
  ASSUME Typed, NEW c \in Conns, Arrival(c) \/ TurnedAwayGone(c)
  PROVE  Typed'
<1>. USE DEF Typed, TypeOK, KeysKnown, GuardsFollowPhase, Goto, Phases, Handshaking, Splicing
<1>1. ASSUME NEW a \in Addrs, AcceptConnection(c, a)  PROVE Typed'
  <2>1. IsTableOver(pending_per_addr', Addrs)
    BY <1>1, ChargeTable DEF AcceptConnection
  <2>. QED  BY <1>1, <2>1 DEF AcceptConnection
<1>2. ASSUME NEW a \in Addrs, TurnAway(c, a)  PROVE Typed'
  <2>1. IsTableOver(pending_per_addr', Addrs)
    BY <1>2, ChargeTable DEF TurnAway
  <2>. QED  BY <1>2, <2>1 DEF TurnAway
<1>3. CASE TurnedAwayGone(c)
  BY <1>3 DEF TurnedAwayGone, Forget, Tell, Statuses, live
<1>. QED  BY <1>1, <1>2, <1>3 DEF Arrival

LEMMA VerdictIsStatus ==
  ASSUME NEW hops, Verdict(hops, NodeId, MaxHops) # "ok"
  PROVE  Verdict(hops, NodeId, MaxHops) \in AfterAdmission
BY DEF Verdict, AfterAdmission

LEMMA ReadTunnelOpenTyped ==
  ASSUME Typed, NEW c \in Conns, NEW hops, ReadTunnelOpen(c, hops)
  PROVE  Typed'
<1>. USE DEF Typed, TypeOK, KeysKnown, GuardsFollowPhase, Goto, Tell, Phases, Handshaking,
             Splicing, Statuses, KnownAckStatuses, AfterAdmission
<1>1. pc[c] = "open" /\ peer[c] \in Peers
  BY DEF ReadTunnelOpen
<1>2. CASE Forbid(c)
  BY <1>1, <1>2 DEF Forbid, Unaccounted, live
<1>3. CASE Busy(c)
  <2>1. IsTableOver(per_peer', Peers)
    BY <1>1, <1>3, ChargeTable DEF Busy
  <2>. QED  BY <1>1, <1>3, <2>1 DEF Busy
<1>4. CASE Admit(c, hops)
  <2>1. IsTableOver(per_peer', Peers) /\ total' \in Nat
    BY <1>1, <1>4, ChargeTable DEF Admit
  <2>2. CASE LET v == Verdict(hops, NodeId, MaxHops)
            IN  v # "ok" /\ Goto(c, "refusing") /\ Tell(c, v)
    BY <1>1, <1>4, <2>1, <2>2, VerdictIsStatus DEF Admit
  <2>3. CASE Goto(c, "dial_upstream") /\ UNCHANGED told
    BY <1>1, <1>4, <2>1, <2>3 DEF Admit
  <2>4. CASE Goto(c, "dial_next") /\ UNCHANGED told
    BY <1>1, <1>4, <2>1, <2>4 DEF Admit
  <2>. QED  BY <1>4, <2>2, <2>3, <2>4 DEF Admit
<1>. QED  BY <1>2, <1>3, <1>4 DEF ReadTunnelOpen

LEMMA HandshakeTyped ==
  ASSUME Typed, NEW c \in Conns, Handshake(c)
  PROVE  Typed'
<1>1. ASSUME NEW hops \in Paths, ReadTunnelOpen(c, hops)  PROVE Typed'
  BY <1>1, ReadTunnelOpenTyped
<1>2. ASSUME LeaveHandshake(c), pc[c] \in Handshaking  PROVE Typed'
  BY <1>2, LeaveHandshakeTyped
<1>3. CASE RefusalSent(c) \/ HandshakeFails(c) \/ HandshakeTimeout(c)
  BY <1>2, <1>3 DEF RefusalSent, HandshakeFails, HandshakeTimeout, Handshaking
<1>. USE DEF Typed, TypeOK, KeysKnown, GuardsFollowPhase, Goto, Tell, Phases, Handshaking,
             Splicing, Statuses, KnownAckStatuses, AfterAdmission, Unaccounted, live
<1>4. ASSUME NEW p \in Peers, TlsAccepted(c, p)  PROVE Typed'
  BY <1>4 DEF TlsAccepted
<1>5. CASE ReadUnexpected(c)
  BY <1>5 DEF ReadUnexpected
<1>6. CASE UpstreamReached(c) \/ DialFailed(c) \/ ReadyAckSent(c) \/ InnerAccepted(c) \/ NextHopReached(c)
  BY <1>6 DEF UpstreamReached, DialFailed, ReadyAckSent, InnerAccepted, NextHopReached
<1>7. ASSUME NEW reply \in Replies, DownstreamAnswered(c, reply)  PROVE Typed'
  BY <1>7 DEF DownstreamAnswered, Sanitised, UnknownStatus
<1>8. CASE AnswerSent(c)
  <2>1. CASE told[c] = "tunnel_ready"
    BY <1>8, <2>1 DEF AnswerSent
  <2>2. CASE told[c] # "tunnel_ready"
    BY <1>2, <1>8, <2>2 DEF AnswerSent
  <2>. QED  BY <2>1, <2>2
<1>. QED  BY <1>1, <1>3, <1>4, <1>5, <1>6, <1>7, <1>8 DEF Handshake

LEMMA SpliceTyped ==
  ASSUME Typed, NEW c \in Conns, Leave(c) \/ Splice(c)
  PROVE  Typed'
<1>1. CASE StreamsEnd(c) \/ IdleDrop(c)
  BY <1>1, EndSpliceTyped DEF StreamsEnd, IdleDrop, Splicing
<1>. USE DEF Typed, TypeOK, KeysKnown, GuardsFollowPhase, Goto, Tell, Phases, Handshaking,
             Splicing, Statuses, Unaccounted, live
<1>2. CASE Leave(c)
  BY <1>2, DropPendingTyped DEF Leave, Forget
<1>3. CASE StartSplice(c)
  BY <1>3, DropPendingTyped DEF StartSplice
<1>4. CASE BytesMove(c) \/ FallQuiet(c)
  BY <1>4 DEF BytesMove, FallQuiet
<1>. QED  BY <1>1, <1>2, <1>3, <1>4 DEF Splice

LEMMA NextTyped == Typed /\ [Next]_vars => Typed'
<1>. SUFFICES ASSUME Typed, [Next]_vars  PROVE Typed'
  OBVIOUS
<1>1. CASE ListenerStops
  BY <1>1 DEF ListenerStops, live, Typed, TypeOK, KeysKnown, GuardsFollowPhase
<1>2. CASE UNCHANGED vars
  BY <1>2 DEF vars, live, Typed, TypeOK, KeysKnown, GuardsFollowPhase
<1>. QED  BY <1>1, <1>2, ArrivalTyped, HandshakeTyped, SpliceTyped DEF Next

\* Every reachable state is well typed, every guard is owned by the phase that
\* should own it, and the key it is charged to is known.
LEMMA RelayTyped == Spec => []Typed
<1>1. Init => Typed
  BY CapsAreNat DEF Init, Typed, TypeOK, KeysKnown, GuardsFollowPhase, IsTableOver, NoEntries,
     Phases, Handshaking, Splicing, Statuses
<1>. QED  BY <1>1, NextTyped, PTL DEF Spec

\* Every reachable state is well typed, and the guards a task owns are the ones
\* of the phase it is parked in.
THEOREM RelayGuardsFollowPhase == Spec => [](TypeOK /\ GuardsFollowPhase)
BY RelayTyped, PTL DEF Typed

-----------------------------------------------------------------------------
(* The accounting.  Each half speaks of one kind of guard.                 *)

ChainsCounted ==
  /\ total = Cardinality(permit)
  /\ \A p \in Peers : Tally(per_peer, p) = Cardinality(ChainsOf(p))

PendingCounted ==
  /\ pending_total = Cardinality(pending)
  /\ \A a \in Addrs : Tally(pending_per_addr, a) = Cardinality(PendingFrom(a))

LEMMA ConnSetsFinite ==
  ASSUME NEW S \in SUBSET Conns
  PROVE  IsFiniteSet(S) /\ Cardinality(S) \in Nat
BY ConnsFinite, FS_Subset, FS_CardinalityType

\* Counting with one more handle.
LEMMA CountOneMore ==
  ASSUME NEW S \in SUBSET Conns, NEW c \in Conns, c \notin S
  PROVE  Cardinality(S \cup {c}) = Cardinality(S) + 1
BY ConnSetsFinite, FS_AddElement

\* Counting with one handle less, the way the guards count down.
LEMMA CountOneLess ==
  ASSUME NEW S \in SUBSET Conns, NEW c \in S
  PROVE  Cardinality(S \ {c}) = Decrement(Cardinality(S))
<1>1. Cardinality(S \ {c}) = Cardinality(S) - 1 /\ Cardinality(S \ {c}) \in Nat
  BY ConnSetsFinite, FS_RemoveElement
<1>. QED  BY <1>1, ConnSetsFinite DEF Decrement

\* Dropping a chain permit keeps the chain counters exact.
LEMMA DropPermitCounted ==
  ASSUME Typed, ChainsCounted, NEW c \in Conns, DropPermit(c),
         \A d \in Conns \ {c} : peer'[d] = peer[d]
  PROVE  ChainsCounted'
<1>1. CASE c \in permit
  <2>1. permit' = permit \ {c} /\ permit \in SUBSET Conns /\ peer[c] \in Peers
    BY <1>1 DEF DropPermit, Typed, TypeOK, KeysKnown
  <2>2. total' = Cardinality(permit')
    BY <1>1, <2>1, CountOneLess DEF DropPermit, ChainsCounted
  <2>3. ASSUME NEW p \in Peers
        PROVE  Tally(per_peer', p) = Cardinality(ChainsOf(p)')
    <3>1. Tally(per_peer', p)
            = IF p = peer[c] THEN Decrement(Tally(per_peer, p)) ELSE Tally(per_peer, p)
      BY <1>1, TallyRelease DEF DropPermit, Typed, TypeOK
    <3>2. CASE p = peer[c]
      <4>1. ChainsOf(p)' = ChainsOf(p) \ {c} /\ c \in ChainsOf(p) /\ ChainsOf(p) \in SUBSET Conns
        BY <1>1, <2>1, <3>2 DEF ChainsOf
      <4>. QED  BY <3>1, <3>2, <4>1, CountOneLess DEF ChainsCounted
    <3>3. CASE p # peer[c]
      <4>1. ChainsOf(p)' = ChainsOf(p)
        BY <2>1, <3>3 DEF ChainsOf
      <4>. QED  BY <3>1, <3>3, <4>1 DEF ChainsCounted
    <3>. QED  BY <3>2, <3>3
  <2>. QED  BY <2>2, <2>3 DEF ChainsCounted
<1>2. CASE c \notin permit
  <2>1. permit' = permit /\ total' = total /\ per_peer' = per_peer
    BY <1>2 DEF DropPermit
  <2>2. ASSUME NEW p \in Peers  PROVE ChainsOf(p)' = ChainsOf(p)
    BY <1>2, <2>1 DEF ChainsOf, Typed, TypeOK
  <2>. QED  BY <2>1, <2>2 DEF ChainsCounted
<1>. QED  BY <1>1, <1>2

\* Dropping a pending permit keeps the pending counters exact.
LEMMA DropPendingCounted ==
  ASSUME Typed, PendingCounted, NEW c \in pending, DropPending(c),
         \A d \in Conns \ {c} : addr'[d] = addr[d]
  PROVE  PendingCounted'
<1>1. pending' = pending \ {c} /\ pending \in SUBSET Conns /\ addr[c] \in Addrs
  BY DEF DropPending, Typed, TypeOK, KeysKnown
<1>2. pending_total' = Cardinality(pending')
  BY <1>1, CountOneLess DEF DropPending, PendingCounted
<1>3. ASSUME NEW a \in Addrs
      PROVE  Tally(pending_per_addr', a) = Cardinality(PendingFrom(a)')
  <2>1. Tally(pending_per_addr', a)
          = IF a = addr[c] THEN Decrement(Tally(pending_per_addr, a)) ELSE Tally(pending_per_addr, a)
    BY TallyRelease DEF DropPending, Typed, TypeOK
  <2>2. CASE a = addr[c]
    <3>1. PendingFrom(a)' = PendingFrom(a) \ {c} /\ c \in PendingFrom(a)
          /\ PendingFrom(a) \in SUBSET Conns
      BY <1>1, <2>2 DEF PendingFrom
    <3>. QED  BY <2>1, <2>2, <3>1, CountOneLess DEF PendingCounted
  <2>3. CASE a # addr[c]
    <3>1. PendingFrom(a)' = PendingFrom(a)
      BY <1>1, <2>3 DEF PendingFrom
    <3>. QED  BY <2>1, <2>3, <3>1 DEF PendingCounted
  <2>. QED  BY <2>2, <2>3
<1>. QED  BY <1>2, <1>3 DEF PendingCounted

\* A step that moves neither kind of guard nor a guarded handle's key, and at
\* most looks at a table, keeps both counts.
LEMMA LookKeepsChains ==
  ASSUME Typed, ChainsCounted, permit' = permit, total' = total,
         \A d \in permit : peer'[d] = peer[d],
         \A p \in Peers : Tally(per_peer', p) = Tally(per_peer, p)
  PROVE  ChainsCounted'
<1>1. ASSUME NEW p \in Peers  PROVE ChainsOf(p)' = ChainsOf(p)
  BY DEF ChainsOf
<1>. QED  BY <1>1 DEF ChainsCounted

LEMMA LookKeepsPending ==
  ASSUME Typed, PendingCounted, pending' = pending, pending_total' = pending_total,
         \A d \in pending : addr'[d] = addr[d],
         \A a \in Addrs : Tally(pending_per_addr', a) = Tally(pending_per_addr, a)
  PROVE  PendingCounted'
<1>1. ASSUME NEW a \in Addrs  PROVE PendingFrom(a)' = PendingFrom(a)
  BY DEF PendingFrom
<1>. QED  BY <1>1 DEF PendingCounted

Counted == ChainsCounted /\ PendingCounted

LEMMA ArrivalCounted ==
  ASSUME Typed, Counted, NEW c \in Conns, Arrival(c) \/ TurnedAwayGone(c)
  PROVE  Counted'
<1>0. c \notin pending /\ c \notin permit
  BY DEF Typed, GuardsFollowPhase, Arrival, AcceptConnection, TurnAway, TurnedAwayGone,
         Handshaking, Splicing
<1>1. ASSUME NEW a \in Addrs, AcceptConnection(c, a)  PROVE Counted'
  <2>1. ChainsCounted'
    BY <1>1, LookKeepsChains DEF AcceptConnection, Counted
  <2>2. pending' = pending \cup {c} /\ pending \in SUBSET Conns
        /\ \A d \in pending : addr'[d] = addr[d]
    BY <1>0, <1>1 DEF AcceptConnection, Typed, TypeOK
  <2>3. pending_total' = Cardinality(pending')
    BY <1>0, <1>1, <2>2, CountOneMore DEF AcceptConnection, Counted, PendingCounted
  <2>4. ASSUME NEW b \in Addrs
        PROVE  Tally(pending_per_addr', b) = Cardinality(PendingFrom(b)')
    <3>1. Tally(pending_per_addr', b)
            = IF b = a THEN Tally(pending_per_addr, a) + 1 ELSE Tally(pending_per_addr, b)
      BY <1>1, TallyCharge DEF AcceptConnection
    <3>2. CASE b = a
      <4>1. PendingFrom(b)' = PendingFrom(b) \cup {c} /\ c \notin PendingFrom(b)
            /\ PendingFrom(b) \in SUBSET Conns
        BY <1>0, <1>1, <2>2, <3>2 DEF PendingFrom, AcceptConnection, Typed, TypeOK
      <4>. QED  BY <3>1, <3>2, <4>1, CountOneMore DEF Counted, PendingCounted
    <3>3. CASE b # a
      <4>1. PendingFrom(b)' = PendingFrom(b)
        BY <1>0, <1>1, <2>2, <3>3 DEF PendingFrom, AcceptConnection, Typed, TypeOK
      <4>. QED  BY <3>1, <3>3, <4>1 DEF Counted, PendingCounted
    <3>. QED  BY <3>2, <3>3
  <2>. QED  BY <2>1, <2>3, <2>4 DEF Counted, PendingCounted
<1>2. ASSUME NEW a \in Addrs, TurnAway(c, a)  PROVE Counted'
  <2>1. \A b \in Addrs : Tally(pending_per_addr', b) = Tally(pending_per_addr, b)
    BY <1>2, TallyCharge DEF TurnAway
  <2>2. \A d \in pending : addr'[d] = addr[d]
    BY <1>0, <1>2 DEF TurnAway, Typed, TypeOK
  <2>. QED  BY <1>2, <2>1, <2>2, LookKeepsChains, LookKeepsPending DEF TurnAway, Counted
<1>3. CASE TurnedAwayGone(c)
  <2>1. (\A d \in pending : addr'[d] = addr[d]) /\ (\A d \in permit : peer'[d] = peer[d])
    BY <1>0, <1>3 DEF TurnedAwayGone, Forget, Typed, TypeOK
  <2>. QED  BY <1>3, <2>1, LookKeepsChains, LookKeepsPending DEF TurnedAwayGone, live, Counted
<1>. QED  BY <1>1, <1>2, <1>3 DEF Arrival

LEMMA LeaveHandshakeCounted ==
  ASSUME Typed, Counted, NEW c \in Conns, LeaveHandshake(c)
  PROVE  Counted'
BY DropPermitCounted, LookKeepsPending DEF LeaveHandshake, Counted

LEMMA AdmitCounted ==
  ASSUME Typed, Counted, NEW c \in Conns, NEW hops, pc[c] = "open", Admit(c, hops)
  PROVE  Counted'
<1>1. /\ c \notin permit /\ peer[c] \in Peers /\ permit \in SUBSET Conns
      /\ permit' = permit \cup {c} /\ peer' = peer
  BY DEF Typed, TypeOK, KeysKnown, GuardsFollowPhase, Handshaking, Splicing, Admit
<1>2. PendingCounted'
  BY LookKeepsPending DEF Admit, Counted
<1>3. total' = Cardinality(permit')
  BY <1>1, CountOneMore DEF Admit, Counted, ChainsCounted
<1>4. ASSUME NEW p \in Peers
      PROVE  Tally(per_peer', p) = Cardinality(ChainsOf(p)')
  <2>1. Tally(per_peer', p)
          = IF p = peer[c] THEN Tally(per_peer, p) + 1 ELSE Tally(per_peer, p)
    BY TallyCharge DEF Admit
  <2>2. CASE p = peer[c]
    <3>1. ChainsOf(p)' = ChainsOf(p) \cup {c} /\ c \notin ChainsOf(p)
          /\ ChainsOf(p) \in SUBSET Conns
      BY <1>1, <2>2 DEF ChainsOf
    <3>. QED  BY <2>1, <2>2, <3>1, CountOneMore DEF Counted, ChainsCounted
  <2>3. CASE p # peer[c]
    <3>1. ChainsOf(p)' = ChainsOf(p)
      BY <1>1, <2>3 DEF ChainsOf
    <3>. QED  BY <2>1, <2>3, <3>1 DEF Counted, ChainsCounted
  <2>. QED  BY <2>2, <2>3
<1>. QED  BY <1>2, <1>3, <1>4 DEF Counted, ChainsCounted

LEMMA HandshakeCounted ==
  ASSUME Typed, Counted, NEW c \in Conns, Handshake(c)
  PROVE  Counted'
<1>1. ASSUME Unaccounted  PROVE Counted'
  BY <1>1, LookKeepsChains, LookKeepsPending DEF Unaccounted, live, Counted
<1>2. CASE RefusalSent(c) \/ HandshakeFails(c) \/ HandshakeTimeout(c) \/ AnswerSent(c)
  BY <1>1, <1>2, LeaveHandshakeCounted DEF RefusalSent, HandshakeFails, HandshakeTimeout, AnswerSent
<1>3. CASE \/ ReadUnexpected(c) \/ UpstreamReached(c) \/ DialFailed(c) \/ ReadyAckSent(c)
           \/ InnerAccepted(c) \/ NextHopReached(c)
           \/ \E reply \in Replies : DownstreamAnswered(c, reply)
  BY <1>1, <1>3 DEF ReadUnexpected, UpstreamReached, DialFailed, ReadyAckSent, InnerAccepted,
                    NextHopReached, DownstreamAnswered
<1>4. ASSUME NEW p \in Peers, TlsAccepted(c, p)  PROVE Counted'
  <2>1. c \notin permit
    BY <1>4 DEF TlsAccepted, Typed, GuardsFollowPhase, Handshaking, Splicing
  <2>2. \A d \in permit : peer'[d] = peer[d]
    BY <1>4, <2>1 DEF TlsAccepted, Typed, TypeOK
  <2>. QED  BY <1>4, <2>2, LookKeepsChains, LookKeepsPending DEF TlsAccepted, live, Counted
<1>5. ASSUME NEW hops \in Paths, ReadTunnelOpen(c, hops)  PROVE Counted'
  <2>1. CASE Forbid(c)
    BY <1>1, <2>1 DEF Forbid
  <2>2. CASE Busy(c)
    <3>1. \A p \in Peers : Tally(per_peer', p) = Tally(per_peer, p)
      BY <2>2, TallyCharge DEF Busy
    <3>. QED  BY <2>2, <3>1, LookKeepsChains, LookKeepsPending DEF Busy, Counted
  <2>3. CASE Admit(c, hops)
    BY <1>5, <2>3, AdmitCounted DEF ReadTunnelOpen
  <2>. QED  BY <1>5, <2>1, <2>2, <2>3 DEF ReadTunnelOpen
<1>. QED  BY <1>2, <1>3, <1>4, <1>5 DEF Handshake

LEMMA SpliceCounted ==
  ASSUME Typed, Counted, NEW c \in Conns, Leave(c) \/ Splice(c)
  PROVE  Counted'
<1>1. CASE Leave(c)
  <2>1. c \in pending /\ c \notin permit
    BY <1>1 DEF Leave, Typed, GuardsFollowPhase, Handshaking, Splicing
  <2>2. (\A d \in Conns \ {c} : addr'[d] = addr[d]) /\ (\A d \in permit : peer'[d] = peer[d])
    BY <1>1, <2>1 DEF Leave, Forget, Typed, TypeOK
  <2>. QED  BY <1>1, <2>1, <2>2, DropPendingCounted, LookKeepsChains DEF Leave, Counted
<1>2. CASE StartSplice(c)
  <2>1. c \in pending
    BY <1>2 DEF StartSplice, Typed, GuardsFollowPhase
  <2>. QED  BY <1>2, <2>1, DropPendingCounted, LookKeepsChains DEF StartSplice, Counted
<1>3. CASE BytesMove(c) \/ FallQuiet(c)
  BY <1>3, LookKeepsChains, LookKeepsPending DEF BytesMove, FallQuiet, Unaccounted, live, Counted
<1>4. CASE StreamsEnd(c) \/ IdleDrop(c)
  <2>1. EndSplice(c) /\ c \notin pending
    BY <1>4 DEF StreamsEnd, IdleDrop, Typed, GuardsFollowPhase, Handshaking, Splicing
  <2>2. /\ \A d \in Conns \ {c} : peer'[d] = peer[d]
        /\ \A d \in pending : addr'[d] = addr[d]
    BY <2>1 DEF EndSplice, Forget, Typed, TypeOK
  <2>. QED  BY <2>1, <2>2, DropPermitCounted, LookKeepsPending DEF EndSplice, Counted
<1>. QED  BY <1>1, <1>2, <1>3, <1>4 DEF Splice

LEMMA NextCounted == Typed /\ Counted /\ [Next]_vars => Counted'
<1>. SUFFICES ASSUME Typed, Counted, [Next]_vars  PROVE Counted'
  OBVIOUS
<1>1. CASE ListenerStops \/ UNCHANGED vars
  BY <1>1, LookKeepsChains, LookKeepsPending DEF ListenerStops, vars, live, Counted
<1>. QED  BY <1>1, ArrivalCounted, HandshakeCounted, SpliceCounted DEF Next

LEMMA CountedIsExact == Counted <=> AccountingExact
BY DEF Counted, ChainsCounted, PendingCounted, AccountingExact

\* Every slot the mutex believes taken is a live guard and every live guard is
\* counted, in total and per key, in every reachable state.
THEOREM RelayAccounting == Spec => []AccountingExact
<1>1. Init => Counted
  <2>1. \A p : Tally(NoEntries, p) = 0
    BY DEF Tally, NoEntries
  <2>. QED  BY <2>1, FS_EmptySet DEF Init, Counted, ChainsCounted, PendingCounted, ChainsOf, PendingFrom
<1>. QED  BY <1>1, NextCounted, RelayTyped, CountedIsExact, PTL DEF Spec

-----------------------------------------------------------------------------
(* The caps.  A counter only grows past a check that it is below its cap.  *)

CountersCapped ==
  /\ total <= MaxTotal /\ pending_total <= MaxPendingTotal
  /\ \A p \in Peers : Tally(per_peer, p) <= MaxPerPeer
  /\ \A a \in Addrs : Tally(pending_per_addr, a) <= MaxPendingPerAddr

LEMMA DropPermitCapped ==
  ASSUME Typed, CountersCapped, NEW c \in Conns, DropPermit(c)
  PROVE  total' <= MaxTotal /\ \A p \in Peers : Tally(per_peer', p) <= MaxPerPeer
<1>. USE CapsAreNat DEF Decrement, CountersCapped, Typed, TypeOK
<1>1. CASE c \in permit
  <2>1. ASSUME NEW p \in Peers  PROVE Tally(per_peer', p) <= MaxPerPeer
    BY <1>1, TallyRelease, TallyNat DEF DropPermit
  <2>. QED  BY <1>1, <2>1 DEF DropPermit
<1>2. CASE c \notin permit
  BY <1>2 DEF DropPermit
<1>. QED  BY <1>1, <1>2

LEMMA DropPendingCapped ==
  ASSUME Typed, CountersCapped, NEW c \in Conns, DropPending(c)
  PROVE  /\ pending_total' <= MaxPendingTotal
         /\ \A a \in Addrs : Tally(pending_per_addr', a) <= MaxPendingPerAddr
<1>. USE CapsAreNat DEF Decrement, CountersCapped, Typed, TypeOK
<1>1. ASSUME NEW a \in Addrs  PROVE Tally(pending_per_addr', a) <= MaxPendingPerAddr
  BY TallyRelease, TallyNat DEF DropPending
<1>. QED  BY <1>1 DEF DropPending

LEMMA AdmissionCapped ==
  ASSUME Typed, CountersCapped, NEW c \in Conns,
         Arrival(c) \/ (pc[c] = "open" /\ \E hops : ReadTunnelOpen(c, hops))
  PROVE  CountersCapped'
<1>. USE CapsAreNat DEF CountersCapped, Typed, TypeOK
<1>1. ASSUME NEW a \in Addrs, AcceptConnection(c, a)  PROVE CountersCapped'
  <2>1. ASSUME NEW b \in Addrs  PROVE Tally(pending_per_addr', b) <= MaxPendingPerAddr
    BY <1>1, TallyCharge, TallyNat DEF AcceptConnection, PendingFull
  <2>. QED  BY <1>1, <2>1 DEF AcceptConnection, PendingFull
<1>2. ASSUME NEW a \in Addrs, TurnAway(c, a)  PROVE CountersCapped'
  BY <1>2, TallyCharge DEF TurnAway
<1>3. ASSUME NEW hops, ReadTunnelOpen(c, hops), pc[c] = "open"  PROVE CountersCapped'
  <2>1. CASE Forbid(c)
    BY <2>1 DEF Forbid, Unaccounted, live
  <2>2. CASE Busy(c)
    BY <2>2, TallyCharge DEF Busy
  <2>3. CASE Admit(c, hops)
    <3>1. ASSUME NEW p \in Peers  PROVE Tally(per_peer', p) <= MaxPerPeer
      BY <2>3, TallyCharge, TallyNat DEF Admit, ChainsFull
    <3>. QED  BY <2>3, <3>1 DEF Admit, ChainsFull
  <2>. QED  BY <1>3, <2>1, <2>2, <2>3 DEF ReadTunnelOpen
<1>. QED  BY <1>1, <1>2, <1>3 DEF Arrival

LEMMA NextCapped == Typed /\ CountersCapped /\ [Next]_vars => CountersCapped'
<1>. SUFFICES ASSUME Typed, CountersCapped, [Next]_vars  PROVE CountersCapped'
  OBVIOUS
<1>1. ASSUME UNCHANGED live  PROVE CountersCapped'
  BY <1>1 DEF live, CountersCapped
<1>2. CASE ListenerStops \/ UNCHANGED vars
  BY <1>1, <1>2 DEF ListenerStops, vars, live
<1>3. ASSUME NEW c \in Conns, Arrival(c) \/ TurnedAwayGone(c)  PROVE CountersCapped'
  BY <1>1, <1>3, AdmissionCapped DEF TurnedAwayGone
<1>4. ASSUME NEW c \in Conns, LeaveHandshake(c)  PROVE CountersCapped'
  BY <1>4, DropPermitCapped DEF LeaveHandshake, CountersCapped
<1>5. ASSUME NEW c \in Conns, Handshake(c)  PROVE CountersCapped'
  <2>1. CASE RefusalSent(c) \/ HandshakeFails(c) \/ HandshakeTimeout(c) \/ AnswerSent(c)
    BY <1>1, <1>4, <2>1
       DEF RefusalSent, HandshakeFails, HandshakeTimeout, AnswerSent, Unaccounted
  <2>2. CASE \E hops \in Paths : ReadTunnelOpen(c, hops)
    BY <2>2, AdmissionCapped DEF ReadTunnelOpen
  <2>3. CASE \/ \E p \in Peers : TlsAccepted(c, p)
             \/ ReadUnexpected(c) \/ UpstreamReached(c) \/ DialFailed(c) \/ ReadyAckSent(c)
             \/ InnerAccepted(c) \/ NextHopReached(c)
             \/ \E reply \in Replies : DownstreamAnswered(c, reply)
    BY <1>1, <2>3
       DEF TlsAccepted, ReadUnexpected, UpstreamReached, DialFailed, ReadyAckSent, InnerAccepted,
           NextHopReached, DownstreamAnswered, Unaccounted
  <2>. QED  BY <1>5, <2>1, <2>2, <2>3 DEF Handshake
<1>6. ASSUME NEW c \in Conns, Leave(c) \/ Splice(c)  PROVE CountersCapped'
  <2>1. CASE Leave(c) \/ StartSplice(c)
    BY <2>1, DropPendingCapped DEF Leave, StartSplice, CountersCapped
  <2>2. CASE StreamsEnd(c) \/ IdleDrop(c)
    BY <2>2, DropPermitCapped DEF StreamsEnd, IdleDrop, EndSplice, CountersCapped
  <2>3. CASE BytesMove(c) \/ FallQuiet(c)
    BY <1>1, <2>3 DEF BytesMove, FallQuiet, Unaccounted
  <2>. QED  BY <1>6, <2>1, <2>2, <2>3 DEF Splice
<1>. QED  BY <1>2, <1>3, <1>5, <1>6 DEF Next

\* The chains carried and the handshakes under way never exceed a cap, global
\* or per key, whatever the caps are.
THEOREM RelayCaps == Spec => []CapsHold
<1>1. Init => CountersCapped
  <2>1. \A p : Tally(NoEntries, p) = 0
    BY DEF Tally, NoEntries
  <2>. QED  BY <2>1, CapsAreNat DEF Init, CountersCapped
<1>2. CountersCapped /\ AccountingExact => CapsHold
  BY DEF CountersCapped, AccountingExact, CapsHold
<1>. QED  BY <1>1, <1>2, NextCapped, RelayTyped, RelayAccounting, PTL DEF Spec

-----------------------------------------------------------------------------
(* What a client has been told follows from where its task is parked.      *)

Untold == {"idle", "turned_away", "tls", "open", "dial_upstream", "dial_next", "offer"}

Promised == {"acking", "inner_tls", "admitted"} \cup Splicing

Earned ==
  \A c \in Conns :
    /\ pc[c] \in Untold => told[c] = Silence
    /\ pc[c] \in Promised => told[c] = "tunnel_ready"
    /\ c \in permit => Admits(peer[c])

LEMMA NextEarned == Typed /\ Earned /\ [Next]_vars => Earned'
<1>. SUFFICES ASSUME Typed, Earned, [Next]_vars  PROVE Earned'
  OBVIOUS
<1>. USE DEF Earned, Untold, Promised, Splicing, Goto, Tell
<1>1. CASE ListenerStops \/ UNCHANGED vars
  BY <1>1 DEF ListenerStops, vars, live
<1>2. ASSUME NEW c \in Conns, Arrival(c) \/ TurnedAwayGone(c)  PROVE Earned'
  BY <1>2 DEF Arrival, AcceptConnection, TurnAway, TurnedAwayGone, Forget, live,
              Typed, TypeOK, GuardsFollowPhase, Handshaking
<1>3. ASSUME NEW c \in Conns, LeaveHandshake(c)  PROVE Earned'
  BY <1>3, DropPermitTyped DEF LeaveHandshake, Typed, TypeOK
<1>4. ASSUME NEW c \in Conns, Handshake(c)  PROVE Earned'
  <2>. USE DEF Typed, TypeOK, GuardsFollowPhase, Handshaking, Unaccounted, live
  <2>1. CASE RefusalSent(c) \/ HandshakeFails(c) \/ HandshakeTimeout(c)
    BY <1>3, <2>1 DEF RefusalSent, HandshakeFails, HandshakeTimeout
  <2>2. CASE AnswerSent(c)
    BY <1>3, <2>2 DEF AnswerSent
  <2>3. CASE \E hops \in Paths : ReadTunnelOpen(c, hops)
    BY <2>3 DEF ReadTunnelOpen, Forbid, Busy, Admit
  <2>4. CASE \E p \in Peers : TlsAccepted(c, p)
    BY <2>4 DEF TlsAccepted
  <2>5. CASE \/ ReadUnexpected(c) \/ UpstreamReached(c) \/ DialFailed(c) \/ ReadyAckSent(c)
             \/ InnerAccepted(c) \/ NextHopReached(c)
             \/ \E reply \in Replies : DownstreamAnswered(c, reply)
    BY <2>5 DEF ReadUnexpected, UpstreamReached, DialFailed, ReadyAckSent, InnerAccepted,
                NextHopReached, DownstreamAnswered
  <2>. QED  BY <1>4, <2>1, <2>2, <2>3, <2>4, <2>5 DEF Handshake
<1>5. ASSUME NEW c \in Conns, Leave(c) \/ Splice(c)  PROVE Earned'
  <2>. USE DEF Typed, TypeOK, GuardsFollowPhase, Handshaking, Unaccounted, live
  <2>1. CASE Leave(c)
    BY <2>1 DEF Leave, Forget
  <2>2. CASE StartSplice(c) \/ BytesMove(c) \/ FallQuiet(c)
    BY <2>2 DEF StartSplice, BytesMove, FallQuiet
  <2>3. CASE StreamsEnd(c) \/ IdleDrop(c)
    <3>1. EndSplice(c) /\ permit' = permit \ {c}
      BY <2>3, DropPermitTyped DEF StreamsEnd, IdleDrop, EndSplice
    <3>. QED  BY <3>1 DEF EndSplice, Forget
  <2>. QED  BY <1>5, <2>1, <2>2, <2>3 DEF Splice
<1>. QED  BY <1>1, <1>2, <1>4, <1>5 DEF Next

LEMMA RelayEarned == Spec => []Earned
<1>1. Init => Earned
  BY DEF Init, Earned, Promised, Splicing
<1>. QED  BY <1>1, NextEarned, RelayTyped, PTL DEF Spec

\* A spliced chain was admitted, holds a chain permit and no handshake slot,
\* and its client was told tunnel_ready.
THEOREM RelaySpliceIsEarned == Spec => []SpliceIsEarned
<1>1. Typed /\ Earned => SpliceIsEarned
  BY DEF Typed, Earned, SpliceIsEarned, GuardsFollowPhase, KeysKnown, Promised, Handshaking, Splicing
<1>. QED  BY <1>1, RelayTyped, RelayEarned, PTL

LEMMA NextHonest == Typed /\ Earned /\ AccountingExact /\ [Next]_vars => [HonestStep]_vars
<1>. SUFFICES ASSUME Typed, Earned, AccountingExact, Next, NEW c \in Conns
              PROVE  /\ pc[c] = "open" /\ told'[c] = "relay_busy" =>
                          \/ Cardinality(permit) >= MaxTotal
                          \/ Cardinality(ChainsOf(peer[c])) >= MaxPerPeer
                     /\ pc[c] = "idle" /\ pc'[c] = "turned_away" =>
                          \/ Cardinality(pending) >= MaxPendingTotal
                          \/ Cardinality(PendingFrom(addr'[c])) >= MaxPendingPerAddr
  BY DEF HonestStep
<1>1. ASSUME pc[c] = "open", told'[c] = "relay_busy"
      PROVE  ChainsFull(peer[c])
  <2>1. told[c] = Silence
    BY <1>1 DEF Earned, Untold
  <2>2. PICK d \in Conns : Arrival(d) \/ TurnedAwayGone(d) \/ Handshake(d) \/ Leave(d) \/ Splice(d)
    BY <1>1, <2>1 DEF Next, ListenerStops, Silence
  <2>. USE DEF Goto, Tell, Forget, Silence, Typed, TypeOK
  <2>3. d = c
    <3>1. CASE Handshake(d)
      BY <1>1, <2>1, <3>1
         DEF Handshake, TlsAccepted, ReadUnexpected, ReadTunnelOpen, Forbid, Busy, Admit, RefusalSent,
             UpstreamReached, DialFailed, ReadyAckSent, InnerAccepted, NextHopReached,
             DownstreamAnswered, AnswerSent, HandshakeFails, HandshakeTimeout, LeaveHandshake
    <3>. QED
      BY <1>1, <2>1, <2>2, <3>1
         DEF Arrival, AcceptConnection, TurnAway, TurnedAwayGone, Leave, Splice, StartSplice,
             BytesMove, FallQuiet, StreamsEnd, IdleDrop, EndSplice
  <2>4. Handshake(c)
    BY <1>1, <2>2, <2>3
       DEF Arrival, AcceptConnection, TurnAway, TurnedAwayGone, Leave, Splice, StartSplice,
           BytesMove, FallQuiet, StreamsEnd, IdleDrop, Splicing
  <2>5. \E hops \in Paths : ReadTunnelOpen(c, hops)
    BY <1>1, <2>1, <2>4
       DEF Handshake, TlsAccepted, ReadUnexpected, RefusalSent, UpstreamReached, DialFailed,
           ReadyAckSent, InnerAccepted, NextHopReached, DownstreamAnswered, AnswerSent,
           HandshakeFails, HandshakeTimeout, LeaveHandshake
  <2>. QED
    BY <1>1, <2>1, <2>5, VerdictIsStatus DEF ReadTunnelOpen, Forbid, Busy, Admit, AfterAdmission
<1>2. ASSUME pc[c] = "idle", pc'[c] = "turned_away"
      PROVE  \E a \in Addrs : TurnAway(c, a)
  BY <1>2
     DEF Next, ListenerStops, Arrival, AcceptConnection, TurnAway, TurnedAwayGone, Leave, Splice,
         StartSplice, BytesMove, FallQuiet, StreamsEnd, IdleDrop, EndSplice, Handshake, TlsAccepted,
         ReadUnexpected, ReadTunnelOpen, Forbid, Busy, Admit, RefusalSent, UpstreamReached,
         DialFailed, ReadyAckSent, InnerAccepted, NextHopReached, DownstreamAnswered, AnswerSent,
         HandshakeFails, HandshakeTimeout, LeaveHandshake, Goto, Forget, Typed, TypeOK
<1>3. pc[c] = "open" /\ told'[c] = "relay_busy" =>
        \/ Cardinality(permit) >= MaxTotal
        \/ Cardinality(ChainsOf(peer[c])) >= MaxPerPeer
  BY <1>1 DEF ChainsFull, AccountingExact, Typed, KeysKnown
<1>4. pc[c] = "idle" /\ pc'[c] = "turned_away" =>
        \/ Cardinality(pending) >= MaxPendingTotal
        \/ Cardinality(PendingFrom(addr'[c])) >= MaxPendingPerAddr
  BY <1>2 DEF TurnAway, PendingFull, AccountingExact, Typed, TypeOK
<1>. QED  BY <1>3, <1>4

\* relay_busy and the pre-handshake close are only ever answered while live
\* guards fill a cap covering that client.
THEOREM RelayRefusalsAreHonest == Spec => RefusalsAreHonest
BY NextHonest, RelayTyped, RelayEarned, RelayAccounting, PTL DEF Spec, RefusalsAreHonest

-----------------------------------------------------------------------------
(* With positive caps the maps hold no zero, hence no dead key.            *)

NoZero(m) == \A k \in DOMAIN m : m[k] # 0

NoZeros == NoZero(per_peer) /\ NoZero(pending_per_addr)

LEMMA ChargeNoZero ==
  ASSUME NEW K, NEW m, IsTableOver(m, K), NoZero(m), NEW k
  PROVE  NoZero(Charge(m, k)) /\ (Tally(m, k) > 0 => NoZero(Touch(m, k)))
BY TallyNat DEF NoZero, Charge, Touch, Store, IsTableOver

LEMMA ReleaseNoZero ==
  ASSUME NEW m, NoZero(m), NEW k
  PROVE  NoZero(Release(m, k))
BY DEF NoZero, Release, Store, Erase

LEMMA NextNoZeros ==
  ASSUME MaxPerPeer > 0, MaxPendingPerAddr > 0
  PROVE  Typed /\ NoZeros /\ [Next]_vars => NoZeros'
<1>. SUFFICES ASSUME Typed, NoZeros, [Next]_vars  PROVE NoZeros'
  OBVIOUS
<1>. USE DEF NoZeros, Typed, TypeOK
<1>1. ASSUME UNCHANGED live  PROVE NoZeros'
  BY <1>1 DEF live
<1>2. CASE ListenerStops \/ UNCHANGED vars
  BY <1>1, <1>2 DEF ListenerStops, vars, live
<1>3. ASSUME NEW c \in Conns, Arrival(c) \/ TurnedAwayGone(c)  PROVE NoZeros'
  <2>1. ASSUME NEW a \in Addrs, AcceptConnection(c, a)  PROVE NoZeros'
    BY <2>1, ChargeNoZero DEF AcceptConnection
  <2>2. ASSUME NEW a \in Addrs, TurnAway(c, a)  PROVE NoZeros'
    <3>1. CASE pending_total >= MaxPendingTotal
      BY <2>2, <3>1 DEF TurnAway
    <3>2. CASE ~(pending_total >= MaxPendingTotal)
      <4>1. Tally(pending_per_addr, a) > 0
        BY <2>2, <3>2, TallyNat, CapsAreNat DEF TurnAway, PendingFull
      <4>. QED  BY <2>2, <3>2, <4>1, ChargeNoZero DEF TurnAway
    <3>. QED  BY <3>1, <3>2
  <2>. QED  BY <1>1, <1>3, <2>1, <2>2 DEF Arrival, TurnedAwayGone
<1>4. ASSUME NEW c \in Conns, DropPermit(c), UNCHANGED pending_per_addr  PROVE NoZeros'
  BY <1>4, ReleaseNoZero DEF DropPermit
<1>5. ASSUME NEW c \in Conns, DropPending(c), UNCHANGED per_peer  PROVE NoZeros'
  BY <1>5, ReleaseNoZero DEF DropPending
<1>6. ASSUME NEW c \in Conns, Handshake(c)  PROVE NoZeros'
  <2>1. CASE RefusalSent(c) \/ HandshakeFails(c) \/ HandshakeTimeout(c) \/ AnswerSent(c)
    BY <1>1, <1>4, <2>1 DEF RefusalSent, HandshakeFails, HandshakeTimeout, AnswerSent,
                            LeaveHandshake, Unaccounted
  <2>2. ASSUME NEW hops \in Paths, ReadTunnelOpen(c, hops)  PROVE NoZeros'
    <3>1. CASE Forbid(c)
      BY <1>1, <3>1 DEF Forbid, Unaccounted
    <3>2. CASE Busy(c) /\ total >= MaxTotal
      BY <3>2 DEF Busy
    <3>3. CASE Busy(c) /\ ~(total >= MaxTotal)
      <4>1. Tally(per_peer, peer[c]) > 0
        BY <3>3, TallyNat, CapsAreNat DEF Busy, ChainsFull
      <4>. QED  BY <3>3, <4>1, ChargeNoZero DEF Busy
    <3>4. CASE Admit(c, hops)
      BY <3>4, ChargeNoZero DEF Admit
    <3>. QED  BY <2>2, <3>1, <3>2, <3>3, <3>4 DEF ReadTunnelOpen
  <2>3. CASE \/ \E p \in Peers : TlsAccepted(c, p)
             \/ ReadUnexpected(c) \/ UpstreamReached(c) \/ DialFailed(c) \/ ReadyAckSent(c)
             \/ InnerAccepted(c) \/ NextHopReached(c)
             \/ \E reply \in Replies : DownstreamAnswered(c, reply)
    BY <1>1, <2>3
       DEF TlsAccepted, ReadUnexpected, UpstreamReached, DialFailed, ReadyAckSent, InnerAccepted,
           NextHopReached, DownstreamAnswered, Unaccounted
  <2>. QED  BY <1>6, <2>1, <2>2, <2>3 DEF Handshake
<1>7. ASSUME NEW c \in Conns, Leave(c) \/ Splice(c)  PROVE NoZeros'
  <2>1. CASE Leave(c) \/ StartSplice(c)
    BY <1>5, <2>1 DEF Leave, StartSplice
  <2>2. CASE StreamsEnd(c) \/ IdleDrop(c)
    BY <1>4, <2>2 DEF StreamsEnd, IdleDrop, EndSplice
  <2>3. CASE BytesMove(c) \/ FallQuiet(c)
    BY <1>1, <2>3 DEF BytesMove, FallQuiet, Unaccounted
  <2>. QED  BY <1>7, <2>1, <2>2, <2>3 DEF Splice
<1>. QED  BY <1>2, <1>3, <1>6, <1>7 DEF Next

LEMMA NoZerosTrackLive ==
  ASSUME Typed, AccountingExact, NoZeros
  PROVE  MapsTrackLiveKeys
<1>1. ASSUME NEW S \in SUBSET Conns  PROVE Cardinality(S) # 0 <=> S # {}
  BY <1>1, ConnSetsFinite, FS_EmptySet
<1>2. DOMAIN per_peer = {peer[c] : c \in permit}
  <2>1. ASSUME NEW p \in Peers  PROVE p \in DOMAIN per_peer <=> ChainsOf(p) # {}
    <3>1. ChainsOf(p) \in SUBSET Conns
      BY DEF ChainsOf, Typed, TypeOK
    <3>2. Tally(per_peer, p) # 0 <=> p \in DOMAIN per_peer
      BY DEF Tally, NoZeros, NoZero
    <3>. QED  BY <1>1, <3>1, <3>2 DEF AccountingExact
  <2>. QED  BY <2>1 DEF ChainsOf, Typed, TypeOK, KeysKnown, IsTableOver
<1>3. DOMAIN pending_per_addr = {addr[c] : c \in pending}
  <2>1. ASSUME NEW a \in Addrs  PROVE a \in DOMAIN pending_per_addr <=> PendingFrom(a) # {}
    <3>1. PendingFrom(a) \in SUBSET Conns
      BY DEF PendingFrom, Typed, TypeOK
    <3>2. Tally(pending_per_addr, a) # 0 <=> a \in DOMAIN pending_per_addr
      BY DEF Tally, NoZeros, NoZero
    <3>. QED  BY <1>1, <3>1, <3>2 DEF AccountingExact
  <2>. QED  BY <2>1 DEF PendingFrom, Typed, TypeOK, KeysKnown, IsTableOver
<1>. QED  BY <1>2, <1>3 DEF MapsTrackLiveKeys

\* When neither per-key cap is zero the maps hold exactly the keys that have a
\* live guard: they do not grow with every peer and address ever seen.  A zero
\* cap breaks this, which is why the theorem assumes it away.
THEOREM RelayMapsTrackLiveKeys ==
  ASSUME MaxPerPeer > 0, MaxPendingPerAddr > 0
  PROVE  Spec => []MapsTrackLiveKeys
<1>1. Init => NoZeros
  BY DEF Init, NoZeros, NoZero, NoEntries
<1>2. Typed /\ NoZeros /\ [Next]_vars => NoZeros'
  BY NextNoZeros
<1>3. Typed /\ AccountingExact /\ NoZeros => MapsTrackLiveKeys
  BY NoZerosTrackLive
<1>. QED  BY <1>1, <1>2, <1>3, RelayTyped, RelayAccounting, PTL DEF Spec
===============================================================================

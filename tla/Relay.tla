-------------------------------- MODULE Relay --------------------------------
(***************************************************************************)
(* One relay listener (crates/fetch/src/relay.rs): connections arrive, pay *)
(* for a slot in the pre-admission window, authenticate, present a chain,  *)
(* are admitted against the chain caps, reach their upstream or next hop,  *)
(* and are spliced until they end.                                         *)
(*                                                                         *)
(* A connection is one spawned task.  Its program counter names the await  *)
(* it is parked on; what the task does between two awaits is one action,   *)
(* because the accounting mutex is the only state the tasks share and each *)
(* critical section falls inside such a stretch.  The two RAII guards drop *)
(* in separate critical sections, so they are released by separate         *)
(* actions.  Peers, next hops and upstreams are the environment.           *)
(***************************************************************************)
EXTENDS Naturals, Sequences, FiniteSets, SlotMap, TunnelOpen

CONSTANTS
  Conns,             \* connection handles; a handle is reused once it is idle
  Addrs,             \* source addresses (IpAddr)
  Peers,             \* identities a client certificate can carry
  AllowPeers,        \* allow_peers; empty is the open posture
  NodeId,            \* this relay's own node id
  OtherNodes,        \* node ids of other relays a path may name
  Nobody,            \* the peer or address of a handle that has none yet
  MaxHops,           \* max_hops
  MaxTotal,          \* max_concurrent_total
  MaxPerPeer,        \* max_concurrent_per_peer
  MaxPendingTotal,   \* max_pending_total
  MaxPendingPerAddr  \* max_pending_per_addr

ASSUME ConnsFinite == IsFiniteSet(Conns)

\* The caps are plain usize fields with no lower bound in the config loader.
ASSUME CapsAreNat ==
  /\ MaxHops \in Nat /\ MaxTotal \in Nat /\ MaxPerPeer \in Nat
  /\ MaxPendingTotal \in Nat /\ MaxPendingPerAddr \in Nat

ASSUME NobodyIsNoOne == Nobody \notin Addrs \cup Peers

VARIABLES
  listening,         \* the accept loop has not returned
  pc,                \* where each connection's task is parked
  addr, peer,        \* source address and authenticated identity
  told,              \* the Ack status written or being written to the client
  pending, permit,   \* handles owning a PendingPermit, a Permit
  total, per_peer, pending_total, pending_per_addr    \* struct Live

live == <<total, per_peer, pending_total, pending_per_addr>>
vars == <<listening, pc, addr, peer, told, pending, permit, live>>

-----------------------------------------------------------------------------
(* Admission.                                                              *)

Admits(p) == AllowPeers = {} \/ p \in AllowPeers

NodeIds == OtherNodes \cup {NodeId}

\* Paths the frame decoder lets through: at least one hop, and here at most
\* one more than this relay accepts (the wire allows 32).
Paths == UNION {[1..n -> NodeIds] : n \in 1..(MaxHops + 1)}

PendingFull(a) ==
  pending_total >= MaxPendingTotal \/ Tally(pending_per_addr, a) >= MaxPendingPerAddr

\* Mutation: one chain too many.
ChainsFullLate(p) == total > MaxTotal \/ Tally(per_peer, p) >= MaxPerPeer

\* Mutation: one chain too few.
ChainsFullEarly(p) == total + 1 >= MaxTotal \/ Tally(per_peer, p) >= MaxPerPeer

ChainsFull(p) == total >= MaxTotal \/ Tally(per_peer, p) >= MaxPerPeer

-----------------------------------------------------------------------------
(* Phases.                                                                 *)

Handshaking ==
  {"tls", "open", "refusing", "dial_upstream", "dial_next", "offer",
   "answering", "acking", "inner_tls"}

Splicing == {"moving", "quiet"}

Phases == Handshaking \cup Splicing \cup {"idle", "turned_away", "admitted", "leaving"}

Goto(c, phase) == pc' = [pc EXCEPT ![c] = phase]
Tell(c, status) == told' = [told EXCEPT ![c] = status]

\* The handle is free again; its peer's view of it is gone.
Forget(c) ==
  /\ Goto(c, "idle")
  /\ Tell(c, Silence)
  /\ addr' = [addr EXCEPT ![c] = Nobody]
  /\ peer' = [peer EXCEPT ![c] = Nobody]

\* Mutation: the total is not given back.
DropPermitKeepsTotal(c) ==
  IF c \in permit
  THEN /\ permit' = permit \ {c}
       /\ per_peer' = Release(per_peer, peer[c])
       /\ UNCHANGED total
  ELSE UNCHANGED <<permit, total, per_peer>>

\* Drop for Permit, a no-op for a task that never acquired one.
DropPermit(c) ==
  IF c \in permit
  THEN /\ permit' = permit \ {c}
       /\ total' = Decrement(total)
       /\ per_peer' = Release(per_peer, peer[c])
  ELSE UNCHANGED <<permit, total, per_peer>>

\* Drop for PendingPermit.
DropPending(c) ==
  /\ pending' = pending \ {c}
  /\ pending_total' = Decrement(pending_total)
  /\ pending_per_addr' = Release(pending_per_addr, addr[c])

\* The handshake future ends without a pair to splice: its locals, the chain
\* permit among them, go first; the pending permit belongs to the caller.
LeaveHandshake(c) ==
  /\ Goto(c, "leaving")
  /\ DropPermit(c)
  /\ UNCHANGED <<listening, addr, peer, told, pending, pending_total, pending_per_addr>>

Unaccounted == UNCHANGED <<listening, addr, peer, pending, permit, live>>

-----------------------------------------------------------------------------
Init ==
  /\ listening = TRUE
  /\ pc = [c \in Conns |-> "idle"]
  /\ addr = [c \in Conns |-> Nobody]
  /\ peer = [c \in Conns |-> Nobody]
  /\ told = [c \in Conns |-> Silence]
  /\ pending = {} /\ permit = {}
  /\ total = 0 /\ pending_total = 0
  /\ per_peer = NoEntries /\ pending_per_addr = NoEntries

(* The accept loop.                                                        *)

\* acquire_pending hands out a slot and the connection's task is spawned.
AcceptConnection(c, a) ==
  /\ listening /\ pc[c] = "idle"
  /\ ~PendingFull(a)
  /\ Goto(c, "tls")
  /\ addr' = [addr EXCEPT ![c] = a]
  /\ pending' = pending \cup {c}
  /\ pending_total' = pending_total + 1
  /\ pending_per_addr' = Charge(pending_per_addr, a)
  /\ UNCHANGED <<listening, peer, told, permit, total, per_peer>>

\* acquire_pending returns None: a plain close.  The per-address entry is only
\* looked at once the total has passed.
TurnAway(c, a) ==
  /\ listening /\ pc[c] = "idle"
  /\ PendingFull(a)
  /\ Goto(c, "turned_away")
  /\ addr' = [addr EXCEPT ![c] = a]
  /\ pending_per_addr' = IF pending_total >= MaxPendingTotal
                         THEN pending_per_addr ELSE Touch(pending_per_addr, a)
  /\ UNCHANGED <<listening, peer, told, pending, permit, total, per_peer, pending_total>>

TurnedAwayGone(c) ==
  /\ pc[c] = "turned_away"
  /\ Forget(c)
  /\ UNCHANGED <<listening, pending, permit, live>>

\* accept() fails: the loop returns its error and nothing restarts it.
ListenerStops ==
  /\ listening
  /\ listening' = FALSE
  /\ UNCHANGED <<pc, addr, peer, told, pending, permit, live>>

(* The handshake.                                                          *)

TlsAccepted(c, p) ==
  /\ pc[c] = "tls"
  /\ Goto(c, "open")
  /\ peer' = [peer EXCEPT ![c] = p]
  /\ UNCHANGED <<listening, addr, told, pending, permit, live>>

ReadUnexpected(c) ==
  /\ pc[c] = "open"
  /\ Goto(c, "refusing") /\ Tell(c, "expected_tunnel_open")
  /\ Unaccounted

Forbid(c) ==
  /\ ~Admits(peer[c])
  /\ Goto(c, "refusing") /\ Tell(c, "relay_forbidden")
  /\ Unaccounted

\* acquire returns None; the per-peer entry is only looked at once the total
\* has passed.
Busy(c) ==
  /\ Admits(peer[c]) /\ ChainsFull(peer[c])
  /\ Goto(c, "refusing") /\ Tell(c, "relay_busy")
  /\ per_peer' = IF total >= MaxTotal THEN per_peer ELSE Touch(per_peer, peer[c])
  /\ UNCHANGED <<listening, addr, peer, pending, permit, total, pending_total, pending_per_addr>>

\* acquire hands out a permit, and only then is the path validated: a refused
\* path stays charged until its refusal is written.
Admit(c, hops) ==
  LET verdict == Verdict(hops, NodeId, MaxHops) IN
  /\ Admits(peer[c]) /\ ~ChainsFull(peer[c])
  /\ permit' = permit \cup {c}
  /\ total' = total + 1
  /\ per_peer' = Charge(per_peer, peer[c])
  /\ \/ verdict # "ok" /\ Goto(c, "refusing") /\ Tell(c, verdict)
     \/ verdict = "ok" /\ Len(hops) = 1 /\ Goto(c, "dial_upstream") /\ UNCHANGED told
     \/ verdict = "ok" /\ Len(hops) > 1 /\ Goto(c, "dial_next") /\ UNCHANGED told
  /\ UNCHANGED <<listening, addr, peer, pending, pending_total, pending_per_addr>>

ReadTunnelOpen(c, hops) ==
  /\ pc[c] = "open"
  /\ Forbid(c) \/ Busy(c) \/ Admit(c, hops)

RefusalSent(c) == pc[c] = "refusing" /\ LeaveHandshake(c)

\* terminate: the upstream is reached before the ack is written, and the ack
\* is written before the inner session is accepted.
UpstreamReached(c) ==
  /\ pc[c] = "dial_upstream"
  /\ Goto(c, "acking") /\ Tell(c, "tunnel_ready")
  /\ Unaccounted

\* terminate and forward answer a failed dial alike.
DialFailed(c) ==
  /\ pc[c] \in {"dial_upstream", "dial_next"}
  /\ Goto(c, "refusing") /\ Tell(c, "tunnel_hop_unreachable")
  /\ Unaccounted

ReadyAckSent(c) ==
  /\ pc[c] = "acking"
  /\ Goto(c, "inner_tls")
  /\ UNCHANGED told /\ Unaccounted

InnerAccepted(c) ==
  /\ pc[c] = "inner_tls"
  /\ Goto(c, "admitted")
  /\ UNCHANGED told /\ Unaccounted

\* forward: the tail is offered to the next hop, one frame is read back and
\* its sanitised status is written upstream.
NextHopReached(c) ==
  /\ pc[c] = "dial_next"
  /\ Goto(c, "offer")
  /\ UNCHANGED told /\ Unaccounted

DownstreamAnswered(c, reply) ==
  /\ pc[c] = "offer"
  /\ Goto(c, "answering") /\ Tell(c, Sanitised(reply))
  /\ Unaccounted

AnswerSent(c) ==
  /\ pc[c] = "answering"
  /\ IF told[c] = "tunnel_ready"
     THEN Goto(c, "admitted") /\ UNCHANGED told /\ Unaccounted
     ELSE LeaveHandshake(c)

\* A stream fails under the task, or the decoder rejects a frame: the error
\* propagates out of the handshake without a word to the client.
HandshakeFails(c) ==
  /\ pc[c] \in Handshaking
  /\ LeaveHandshake(c)

\* Mutation: the inner session is accepted outside the timeout.
HandshakeTimeoutSkipsInner(c) ==
  /\ pc[c] \in Handshaking \ {"inner_tls"}
  /\ LeaveHandshake(c)

\* handshake_timeout_ms elapses; the future is dropped wherever it is parked.
HandshakeTimeout(c) ==
  /\ pc[c] \in Handshaking
  /\ LeaveHandshake(c)

\* handle returns: its pending permit is dropped with its arguments.
Leave(c) ==
  /\ pc[c] = "leaving"
  /\ DropPending(c)
  /\ Forget(c)
  /\ UNCHANGED <<listening, permit, total, per_peer>>

(* The splice.                                                             *)

\* Mutation: the handshake slot is held for the life of the chain.
StartSpliceKeepsPending(c) ==
  /\ pc[c] = "admitted"
  /\ Goto(c, "moving")
  /\ UNCHANGED <<listening, addr, peer, told, permit, pending, live>>

\* handle: the pending permit is handed back, the chain permit is kept.
StartSplice(c) ==
  /\ pc[c] = "admitted"
  /\ Goto(c, "moving")
  /\ DropPending(c)
  /\ UNCHANGED <<listening, addr, peer, told, permit, total, per_peer>>

BytesMove(c) ==
  /\ pc[c] = "quiet"
  /\ Goto(c, "moving")
  /\ UNCHANGED told /\ Unaccounted

FallQuiet(c) ==
  /\ pc[c] = "moving"
  /\ Goto(c, "quiet")
  /\ UNCHANGED told /\ Unaccounted

\* Mutation: a chain that ends leaks its permit.
EndSpliceLeaks(c) ==
  /\ Forget(c)
  /\ UNCHANGED <<listening, permit, pending, live>>

EndSplice(c) ==
  /\ DropPermit(c)
  /\ Forget(c)
  /\ UNCHANGED <<listening, pending, pending_total, pending_per_addr>>

\* Both pumps finished, or one failed.
StreamsEnd(c) == pc[c] \in Splicing /\ EndSplice(c)

\* The watchdog finds the shared clock older than idle_timeout_ms.
IdleDrop(c) == pc[c] = "quiet" /\ EndSplice(c)

-----------------------------------------------------------------------------
Arrival(c) == \E a \in Addrs : AcceptConnection(c, a) \/ TurnAway(c, a)

Handshake(c) ==
  \/ \E p \in Peers : TlsAccepted(c, p)
  \/ ReadUnexpected(c)
  \/ \E hops \in Paths : ReadTunnelOpen(c, hops)
  \/ RefusalSent(c)
  \/ UpstreamReached(c) \/ DialFailed(c) \/ ReadyAckSent(c) \/ InnerAccepted(c)
  \/ NextHopReached(c)
  \/ \E reply \in Replies : DownstreamAnswered(c, reply)
  \/ AnswerSent(c)
  \/ HandshakeFails(c) \/ HandshakeTimeout(c)

Splice(c) == StartSplice(c) \/ BytesMove(c) \/ FallQuiet(c) \/ StreamsEnd(c) \/ IdleDrop(c)

Next ==
  \/ ListenerStops
  \/ \E c \in Conns : Arrival(c) \/ TurnedAwayGone(c) \/ Handshake(c) \/ Leave(c) \/ Splice(c)

Spec == Init /\ [][Next]_vars

\* The timers and the task's own steps run; no peer is required to act.
Fairness ==
  \A c \in Conns :
    /\ WF_vars(HandshakeTimeout(c))
    /\ WF_vars(Leave(c))
    /\ WF_vars(StartSplice(c))
    /\ WF_vars(IdleDrop(c))

FairSpec == Spec /\ Fairness

-----------------------------------------------------------------------------
(* Properties.                                                             *)

Statuses == KnownAckStatuses \cup {Silence}

TypeOK ==
  /\ listening \in BOOLEAN
  /\ pc \in [Conns -> Phases]
  /\ addr \in [Conns -> Addrs \cup {Nobody}]
  /\ peer \in [Conns -> Peers \cup {Nobody}]
  /\ told \in [Conns -> Statuses]
  /\ pending \in SUBSET Conns /\ permit \in SUBSET Conns
  /\ total \in Nat /\ pending_total \in Nat
  /\ IsTableOver(per_peer, Peers) /\ IsTableOver(pending_per_addr, Addrs)

ChainsOf(p) == {c \in permit : peer[c] = p}
PendingFrom(a) == {c \in pending : addr[c] = a}

\* The counters behind the mutex are the guards that are alive, in total and
\* per key, however each chain ended: no slot leaks and none is freed twice
\* (relay.rs Permit and PendingPermit, "a slot that leaks on any of those
\* paths turns the cap into a permanent lockout").
AccountingExact ==
  /\ total = Cardinality(permit)
  /\ pending_total = Cardinality(pending)
  /\ \A p \in Peers : Tally(per_peer, p) = Cardinality(ChainsOf(p))
  /\ \A a \in Addrs : Tally(pending_per_addr, a) = Cardinality(PendingFrom(a))

\* The chains really carried and the handshakes really under way respect the
\* global and the per-key caps at every moment (relay.rs acquire and
\* acquire_pending).
CapsHold ==
  /\ Cardinality(permit) <= MaxTotal
  /\ Cardinality(pending) <= MaxPendingTotal
  /\ \A p \in Peers : Cardinality(ChainsOf(p)) <= MaxPerPeer
  /\ \A a \in Addrs : Cardinality(PendingFrom(a)) <= MaxPendingPerAddr

\* The maps hold an entry for the keys with a live guard and for no other
\* ("so the map tracks live peers instead of every peer ever seen").
MapsTrackLiveKeys ==
  /\ DOMAIN per_peer = {peer[c] : c \in permit}
  /\ DOMAIN pending_per_addr = {addr[c] : c \in pending}

\* Statuses a task can be telling its client once it owns a chain permit.
AfterAdmission ==
  {"tunnel_too_long", "tunnel_misaddressed", "tunnel_path_loops", "tunnel_hop_unreachable"}

\* Which guard a task owns is a matter of where it is parked: the pending one
\* from accept to splice or exit, the chain one from admission to exit, never
\* for a task that has gone (relay.rs handle and handshake).
GuardsFollowPhase ==
  \A c \in Conns :
    /\ c \in pending <=> pc[c] \in Handshaking \cup {"admitted", "leaving"}
    /\ c \in permit <=>
         \/ pc[c] \in (Handshaking \ {"tls", "open", "refusing"}) \cup {"admitted"} \cup Splicing
         \/ pc[c] = "refusing" /\ told[c] \in AfterAdmission

\* A spliced chain belongs to an admitted peer, was promised tunnel_ready and
\* left its handshake allowance behind: whatever else is refused or fails on
\* the way never ends in a splice (relay.rs handshake, forward, handle).
SpliceIsEarned ==
  \A c \in Conns : pc[c] \in Splicing =>
    /\ c \in permit \ pending
    /\ peer[c] \in Peers /\ Admits(peer[c])
    /\ told[c] = "tunnel_ready"

HonestStep ==
  \A c \in Conns :
    /\ pc[c] = "open" /\ told'[c] = "relay_busy" =>
         \/ Cardinality(permit) >= MaxTotal
         \/ Cardinality(ChainsOf(peer[c])) >= MaxPerPeer
    /\ pc[c] = "idle" /\ pc'[c] = "turned_away" =>
         \/ Cardinality(pending) >= MaxPendingTotal
         \/ Cardinality(PendingFrom(addr'[c])) >= MaxPendingPerAddr

\* A client is told relay_busy, or closed before the handshake, only while
\* live guards really fill a cap that covers it: no phantom of an ended chain
\* keeps anyone out (relay.rs run and acquire).
RefusalsAreHonest == [][HonestStep]_vars

\* No peer, next hop or upstream can keep a pre-admission slot by going
\* silent, at whichever await it does so (relay.rs handle, "the whole
\* pre-splice window is wrapped in one timeout").
HandshakeSlotReturns == \A c \in Conns : []<>(c \notin pending)

\* A chain slot is given back over and over unless bytes keep moving through
\* the chain that holds it (relay.rs splice_with_idle).
OnlyTrafficHoldsAChainSlot == \A c \in Conns : []<>(c \notin permit \/ pc[c] = "moving")

\* What the documents say of the two allowances: the handshake slot is handed
\* back on admission, so a chain waiting for its upstream or its next hop
\* holds none (SECURITY.md:129, crates/fetch/README.md, config.rs:65).
AdmissionReturnsHandshakeSlot ==
  \A c \in permit \cap pending :
    pc[c] \notin {"dial_upstream", "acking", "inner_tls", "dial_next", "offer"}
===============================================================================

-------------------------------- MODULE Crawl --------------------------------
(***************************************************************************)
(* Crawl, the registry of a mesh (crates/crawl/src/server.rs): every       *)
(* connection is a task that reads one message at a time, authorises what  *)
(* it claims, queues for the RwLock around the shared state, and writes an *)
(* answer.  tokio's lock is fair, so it is one FIFO queue; a task that     *)
(* needs it for a stretch without an await takes and leaves it in the same *)
(* step, and the one guard that lives across an await is a variable.       *)
(*                                                                         *)
(* A reachability key is <<from, target>>: the protocol is part of the     *)
(* target, and the observation's payload is left out, so that a row is the *)
(* time of its last report.  Peers are the environment.                    *)
(***************************************************************************)
EXTENDS Naturals, Sequences, FiniteSets, Functions, SlotMap

CONSTANTS
  Conns,         \* connection handles
  Ids,           \* node ids, and the targets of observations
  Identities,    \* what a connection can authenticate as: node ids or Anonymous
  Anonymous,     \* no TLS identity (plaintext)
  Nobody,        \* no connection
  RelayPeers,    \* relay_peers
  MaxEntries,    \* MAX_REACHABILITY_ENTRIES
  MaxPerPeer,    \* MAX_REACHABILITY_ENTRIES_PER_PEER
  Ttl,           \* node_ttl_ms; None is a Ttl that MaxClock never exceeds
  Budget,        \* SNAPSHOT_BUDGET, in units of Size
  Size,          \* encoded size of what names an id
  MaxClock       \* bound: the wall clock stops here

ASSUME IdsFinite == IsFiniteSet(Ids)

ASSUME LimitsAreNat ==
  /\ MaxEntries \in Nat /\ MaxPerPeer \in Nat
  /\ Ttl \in Nat /\ Budget \in Nat /\ MaxClock \in Nat
  /\ Size \in [Ids -> Nat]

ASSUME IdentitiesAreIds ==
  /\ Anonymous \notin Ids /\ Identities \subseteq Ids \cup {Anonymous}
  /\ RelayPeers \subseteq Ids
  /\ Nobody \notin Conns

VARIABLES
  clock,         \* now_unix_ms
  nodes,         \* node id -> last_seen_unix_ms
  reachability,  \* key -> last_seen_unix_ms
  queue, holder, \* tasks waiting for the lock, the task that owns a guard
  pc, identity,  \* where each task is parked, who its peer is
  msg,           \* the message a task is working on
  view,          \* the snapshot it is writing back
  heard          \* history: key -> the last report of it answered as received

state == <<clock, nodes, reachability, heard>>
vars == <<state, queue, holder, pc, identity, msg, view>>

-----------------------------------------------------------------------------
Keys == Ids \X Ids

\* now.saturating_sub(at) > ttl.
Aged(at) == clock > at + Ttl

RowsOf(table, from) == {k \in DOMAIN table : k[1] = from}

\* What of the wire a task can be working on.
Hello(n) == [kind |-> "hello", claim |-> n, target |-> n]
Report(f, t) == [kind |-> "report", claim |-> f, target |-> t]
Probe == [kind |-> "probe"]

Relayable ==
  {Hello(n) : n \in Ids} \cup {Report(f, t) : f, t \in Ids} \cup {Probe}

Direct(body) == [body |-> body, via |-> "direct", client |-> Anonymous]
FromHead(body, client) == [body |-> body, via |-> "head", client |-> client]
Query == [body |-> [kind |-> "query"], via |-> "direct", client |-> Anonymous]
NoView == [nodes |-> {}, reports |-> {}]
NoMessage == [body |-> [kind |-> "none"], via |-> "none", client |-> Anonymous]

Claiming(body) == body.kind \in {"hello", "report"}

\* authorized.
Authorized(who, claim) == who = Anonymous \/ who = claim

\* authorized_relay_peer, authorized_relayed_claim.
MayRelay(who) == who = Anonymous \/ who \in RelayPeers
ClaimBacked(who, client, claim) == who = Anonymous \/ client = claim

Goto(c, phase) == pc' = [pc EXCEPT ![c] = phase]

\* An Ack, whatever its status, is being written.
Ack(c) == Goto(c, "acking") /\ UNCHANGED view

\* The message has been dealt with.
Done(c) == msg' = [msg EXCEPT ![c] = NoMessage]

\* state.read().await, state.write().await.
Enqueue(c, phase) ==
  /\ Goto(c, phase)
  /\ queue' = Append(queue, c)
  /\ UNCHANGED view

Granted(c, phase) ==
  /\ pc[c] = phase /\ holder = Nobody
  /\ queue # << >> /\ Head(queue) = c

-----------------------------------------------------------------------------
Init ==
  /\ clock = 0
  /\ nodes = NoEntries /\ reachability = NoEntries /\ heard = NoEntries
  /\ queue = << >> /\ holder = Nobody
  /\ pc = [c \in Conns |-> "gone"]
  /\ identity = [c \in Conns |-> Anonymous]
  /\ msg = [c \in Conns |-> NoMessage]
  /\ view = [c \in Conns |-> NoView]

Tick ==
  /\ clock < MaxClock
  /\ clock' = clock + 1
  /\ UNCHANGED <<nodes, reachability, heard, queue, holder, pc, identity, msg, view>>

\* The process is restarted; nothing is persisted.
Restart ==
  /\ nodes' = NoEntries /\ reachability' = NoEntries /\ heard' = NoEntries
  /\ queue' = << >> /\ holder' = Nobody
  /\ pc' = [c \in Conns |-> "gone"]
  /\ identity' = [c \in Conns |-> Anonymous]
  /\ msg' = [c \in Conns |-> NoMessage]
  /\ view' = [c \in Conns |-> NoView]
  /\ UNCHANGED clock

\* accept and the TLS handshake.
Connect(c, who) ==
  /\ pc[c] = "gone"
  /\ Goto(c, "reading")
  /\ identity' = [identity EXCEPT ![c] = who]
  /\ UNCHANGED <<state, queue, holder, msg, view>>

Vanish(c) ==
  /\ Goto(c, "gone")
  /\ identity' = [identity EXCEPT ![c] = Anonymous]
  /\ msg' = [msg EXCEPT ![c] = NoMessage]
  /\ view' = [view EXCEPT ![c] = NoView]

\* read_message fails: end of stream, or a frame the decoder rejects.
ReadFails(c) ==
  /\ pc[c] = "reading"
  /\ Vanish(c)
  /\ UNCHANGED <<state, queue, holder>>

\* A hello or report of the peer's own: authorised, then queued to be written.
ReadDirect(c, body) ==
  /\ pc[c] = "reading" /\ Claiming(body)
  /\ \/ /\ Authorized(identity[c], body.claim)
        /\ msg' = [msg EXCEPT ![c] = Direct(body)]
        /\ Enqueue(c, "posting")
     \/ /\ ~Authorized(identity[c], body.claim)
        /\ Ack(c)
        /\ UNCHANGED <<msg, queue>>
  /\ UNCHANGED <<state, holder, identity>>

\* A probe or a tunnel_open: acked without a look at the state.  A snapshot or
\* an ack is read and passed over, which leaves everything as it is.
ReadStateless(c) ==
  /\ pc[c] = "reading"
  /\ Ack(c)
  /\ UNCHANGED <<state, queue, holder, identity, msg>>

ReadFromHead(c, body, client) ==
  /\ pc[c] = "reading"
  /\ msg' = [msg EXCEPT ![c] = FromHead(body, client)]
  /\ Enqueue(c, "vetting")
  /\ UNCHANGED <<state, holder, identity>>

\* Mutation: a configured Head may claim anything.
VetTrustsHead(c) ==
  LET passes == MayRelay(identity[c]) /\ Claiming(msg[c].body) IN
  /\ Granted(c, "vetting")
  /\ \/ /\ passes
        /\ Goto(c, "posting") /\ queue' = Append(Tail(queue), c)
        /\ UNCHANGED <<msg, view>>
     \/ /\ ~passes
        /\ Ack(c) /\ Done(c) /\ queue' = Tail(queue)
  /\ UNCHANGED <<state, holder, identity>>

\* relay_peers is read under the lock, the lock is left, the claim is checked,
\* and only then does the task queue again to write.
Vet(c) ==
  LET body == msg[c].body
      passes == /\ MayRelay(identity[c])
                /\ Claiming(body) => ClaimBacked(identity[c], msg[c].client, body.claim) IN
  /\ Granted(c, "vetting")
  /\ \/ /\ passes /\ Claiming(body)
        /\ Goto(c, "posting") /\ queue' = Append(Tail(queue), c)
        /\ UNCHANGED <<msg, view>>
     \/ /\ ~(passes /\ Claiming(body))
        /\ Ack(c) /\ Done(c) /\ queue' = Tail(queue)
  /\ UNCHANGED <<state, holder, identity>>

\* nodes.insert.  A direct hello keeps its guard while the Ack is written, a
\* relayed one does not.
PostHello(c) ==
  LET m == msg[c] IN
  /\ Granted(c, "posting") /\ m.body.kind = "hello"
  /\ nodes' = Store(nodes, m.body.claim, clock)
  /\ queue' = Tail(queue)
  /\ holder' = IF m.via = "direct" THEN c ELSE Nobody
  /\ Ack(c) /\ Done(c)
  /\ UNCHANGED <<clock, reachability, heard, identity>>

\* Mutation: rows are swept a moment before they expire.
SweptEarly(key) ==
  IF key \notin DOMAIN reachability /\ Cardinality(DOMAIN reachability) >= MaxEntries
  THEN [k \in {j \in DOMAIN reachability : clock < reachability[j] + Ttl} |-> reachability[k]]
  ELSE reachability

\* record_report: expired rows are dropped only when a new key meets a table
\* that is full as a whole, and stay dropped when the report is refused.
Swept(key) ==
  IF key \notin DOMAIN reachability /\ Cardinality(DOMAIN reachability) >= MaxEntries
  THEN [k \in {j \in DOMAIN reachability : ~Aged(reachability[j])} |-> reachability[k]]
  ELSE reachability

\* Mutation: a heartbeat is held to the ceilings like a new key.
HasRoomForNew(table, key) ==
  /\ Cardinality(DOMAIN table) < MaxEntries
  /\ Cardinality(RowsOf(table, key[1])) < MaxPerPeer

\* Mutation: only the global ceiling is kept.
HasRoomGlobally(table, key) == key \in DOMAIN table \/ Cardinality(DOMAIN table) < MaxEntries

HasRoom(table, key) ==
  \/ key \in DOMAIN table
  \/ /\ Cardinality(DOMAIN table) < MaxEntries
     /\ Cardinality(RowsOf(table, key[1])) < MaxPerPeer

\* The guard is dropped before the Ack.  A direct report that found no room is
\* told so, a relayed one is acknowledged like any other.
PostReport(c) ==
  LET m == msg[c]
      key == <<m.body.claim, m.body.target>> IN
  /\ Granted(c, "posting") /\ m.body.kind = "report"
  /\ queue' = Tail(queue)
  /\ \/ /\ HasRoom(Swept(key), key)
        /\ reachability' = Store(Swept(key), key, clock)
        /\ heard' = Store(heard, key, clock)
     \/ /\ ~HasRoom(Swept(key), key)
        /\ reachability' = Swept(key)
        /\ UNCHANGED heard
  /\ Ack(c) /\ Done(c)
  /\ UNCHANGED <<clock, nodes, holder, identity>>

ReadQuery(c) ==
  /\ pc[c] = "reading"
  /\ msg' = [msg EXCEPT ![c] = Query]
  /\ Enqueue(c, "querying")
  /\ UNCHANGED <<state, holder, identity>>

\* graph_snapshot.
LiveNodes == {n \in DOMAIN nodes : ~Aged(nodes[n])}
Expired == DOMAIN nodes \ LiveNodes
\* Mutation: an observation is sent for as long as its endpoints live.
EndpointReports ==
  {k \in DOMAIN reachability : k[1] \notin Expired /\ k[2] \notin Expired}

LiveReports ==
  {k \in DOMAIN reachability :
     k[1] \notin Expired /\ k[2] \notin Expired /\ ~Aged(reachability[k])}

\* Entries of a HashMap, met in any order, each sent unless what is left of
\* the budget is too small for it.
Fills(sent, entries, cost, budget) ==
  /\ sent \subseteq entries
  /\ SumFunctionOnSet(cost, sent) <= budget
  /\ \A e \in entries \ sent : SumFunctionOnSet(cost, sent) + cost[e] > budget

ReportSize == [k \in Keys |-> Size[k[1]] + Size[k[2]]]

Snap(c) ==
  /\ Granted(c, "querying")
  /\ queue' = Tail(queue)
  /\ \E n \in SUBSET LiveNodes : \E r \in SUBSET LiveReports :
       /\ Fills(n, LiveNodes, Size, Budget)
       /\ Fills(r, LiveReports, ReportSize, Budget - SumFunctionOnSet(Size, n))
       /\ view' = [view EXCEPT ![c] = [nodes |-> n, reports |-> r]]
  /\ Goto(c, "replying")
  /\ UNCHANGED <<state, holder, identity, msg>>

\* The answer is out, the guard with it, and the loop reads on.
Answered(c) ==
  /\ pc[c] \in {"acking", "replying"}
  /\ Goto(c, "reading")
  /\ holder' = IF holder = c THEN Nobody ELSE holder
  /\ view' = [view EXCEPT ![c] = NoView]
  /\ UNCHANGED <<state, queue, identity, msg>>

\* write_message fails; the task ends and drops what it owns.
AnswerFails(c) ==
  /\ pc[c] \in {"acking", "replying"}
  /\ Vanish(c)
  /\ holder' = IF holder = c THEN Nobody ELSE holder
  /\ UNCHANGED <<state, queue>>

-----------------------------------------------------------------------------
Read(c) ==
  \/ ReadFails(c)
  \/ \E body \in Relayable : ReadDirect(c, body)
  \/ ReadStateless(c)
  \/ \E body \in Relayable, client \in Ids \cup {Anonymous} : ReadFromHead(c, body, client)
  \/ ReadQuery(c)

Serve(c) == Vet(c) \/ PostHello(c) \/ PostReport(c) \/ Snap(c)

Next ==
  \/ Tick \/ Restart
  \/ \E c \in Conns :
       \/ \E who \in Identities : Connect(c, who)
       \/ Read(c) \/ Serve(c) \/ Answered(c) \/ AnswerFails(c)

Spec == Init /\ [][Next]_vars

-----------------------------------------------------------------------------
(* Properties.                                                             *)

Waiting == {"posting", "vetting", "querying"}
Bodies == Relayable \cup {Query.body, NoMessage.body}
IsTable(table, K) == IsTableOver(table, K) /\ \A k \in DOMAIN table : table[k] <= clock

TypeOK ==
  /\ clock \in Nat
  /\ IsTable(nodes, Ids) /\ IsTable(reachability, Keys) /\ IsTable(heard, Keys)
  /\ queue \in Seq(Conns) /\ holder \in Conns \cup {Nobody}
  /\ pc \in [Conns -> Waiting \cup {"gone", "reading", "acking", "replying"}]
  /\ identity \in [Conns -> Ids \cup {Anonymous}]
  /\ msg \in [Conns -> [body : Bodies, via : {"direct", "head", "none"}, client : Ids \cup {Anonymous}]]
  /\ view \in [Conns -> [nodes : SUBSET Ids, reports : SUBSET Keys]]

\* The table stays within its global and per-peer ceilings, through every
\* order in which reports are queued, swept and replaced (server.rs
\* record_report).
CapsHold ==
  /\ Cardinality(DOMAIN reachability) <= MaxEntries
  /\ \A f \in Ids : Cardinality(RowsOf(reachability, f)) <= MaxPerPeer

\* A report that was answered as received stays in the table with its time for
\* as long as it is fresh, whatever other peers report in the meantime
\* (record_report and expire_reports).
FreshReportsStay ==
  \A k \in DOMAIN heard : ~Aged(heard[k]) =>
    k \in DOMAIN reachability /\ reachability[k] = heard[k]

\* A report gets the lock, finds no room and is answered.
Refused(key) == \E c \in Conns :
  /\ msg[c].body.kind = "report" /\ key = <<msg[c].body.claim, msg[c].body.target>>
  /\ pc[c] = "posting" /\ pc'[c] = "acking"
  /\ ~HasRoom(Swept(key), key)

\* "A peer that keeps its existing reports fresh is never rejected" (server.rs
\* record_report): a refused report is one whose last acceptance has aged out,
\* or that was never accepted, even when it waited for the lock meanwhile.
HeartbeatsAccepted ==
  [][\A key \in Keys : Refused(key) => key \notin DOMAIN heard \/ Aged(heard[key])]_vars

\* Who is entitled to speak for a node.
SpeaksFor(c, n) ==
  \/ identity[c] = Anonymous
  \/ msg[c].via = "direct" /\ identity[c] = n
  \/ msg[c].via = "head" /\ identity[c] \in RelayPeers /\ msg[c].client = n

WrittenBy(n) == \E c \in Conns : pc[c] = "posting" /\ pc'[c] # "posting" /\ SpeaksFor(c, n)

\* On an authenticated listener what the registry holds about a node, and what
\* a node is held to have observed, was put there by that node, or by a
\* configured Head for a client that authenticated as that node (server.rs
\* authorized, authorized_relay_peer, authorized_relayed_claim).
OnlyTheEntitledWrite ==
  [][/\ \A n \in DOMAIN nodes' : (n \in DOMAIN nodes /\ nodes'[n] = nodes[n]) \/ WrittenBy(n)
     /\ \A k \in DOMAIN reachability' :
          (k \in DOMAIN reachability /\ reachability'[k] = reachability[k]) \/ WrittenBy(k[1])]_vars

\* A snapshot fits one frame, holds only what was heard within the ttl, about
\* nodes that are not known to be gone, and leaves something out only if all
\* of it would not fit (server.rs graph_snapshot).
SnapshotHonest ==
  [][\A c \in Conns : pc[c] = "querying" /\ pc'[c] = "replying" =>
       LET fresh == {k \in DOMAIN heard : ~Aged(heard[k]) /\ k[1] \notin Expired /\ k[2] \notin Expired}
           whole == SumFunctionOnSet(Size, LiveNodes) + SumFunctionOnSet(ReportSize, fresh)
           sent  == SumFunctionOnSet(Size, view'[c].nodes)
                      + SumFunctionOnSet(ReportSize, view'[c].reports) IN
       /\ sent <= Budget
       /\ view'[c].nodes \subseteq LiveNodes /\ view'[c].reports \subseteq fresh
       /\ whole <= Budget => view'[c].nodes = LiveNodes /\ view'[c].reports = fresh]_vars

\* The guard that lives across an await belongs to a task that is writing its
\* answer, and a task waits for the lock once and only once (server.rs
\* handle_connection).  That the peer reads its answer nothing ensures.
LockIsSound ==
  /\ holder # Nobody => pc[holder] = "acking"
  /\ \A c \in Conns :
       pc[c] \in Waiting <=> Cardinality({i \in 1..Len(queue) : queue[i] = c}) = 1
===============================================================================

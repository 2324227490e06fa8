# Radii: models, checks and proofs

Radii carries TCP streams and HTTP requests over chains of relays that are planned from a
shared view of who can reach whom. This directory holds TLA+ models of its core, the TLC runs
that check them on small instances, and proofs that TLAPS checks for every instance. Paths
below are relative to `src/crates/`.

## 1. The system

| Part | State it keeps | Operations | What makes it hard |
|---|---|---|---|
| **Relay listener** `fetch/src/relay.rs` | one mutex: `total`, `per_peer`, `pending_total`, `pending_per_addr`; one task per connection with its guards | accept, TLS, TunnelOpen, admit, terminate or forward, splice | guards dropped on every error path and timeout; two separate caps; peers silent at any await |
| **Splice** `relay.rs` 583–641 | two pumps, one last-activity clock, a watchdog | copy both ways, half-close, idle drop | half-close, polling against a shared clock, slow receivers |
| **Chains** `fetch/src/{chain,server}.rs`, `head/src/http.rs` | per client: the candidate being tried; per relay: a handler per chain | dial, TunnelOpen, ack relayed hop by hop, end-to-end TLS, failover, static fallback | abandoned attempts that live on; relays that crash or lie; chains that cross |
| **Crawl registry** `crawl/src/server.rs` | `nodes`, `reachability` with ages, behind one `RwLock` | hello, report, probe, query, the same relayed by a Head | a guard held across an await; ceilings, sweeps and heartbeats interleaved; snapshot budget |
| **Route planner** `core/src/routing.rs` | local tables | Yen's algorithm over a hop-limited search, resolution, ranking | optimality after many rounds of bans; limits applied in the wrong order |
| **Pollers** `fetch/src/graph.rs`, `head/src/graph.rs` | shared route list, shared graph state | dial, query, plan, replace, sleep | stale or empty views, Crawl restarting, connections that go silent |
| **Fetch process** `fetch/src/{lib,server,graph}.rs` | the shared routes; a task per client, per poller and per relay listener | accept, read the routes, walk them, tunnel; poll, build a capped snapshot, replace the routes | the routes are replaced while clients walk them; an outage of Crawl must not reach a client; caps that depend on the order of reports |
| **Head bridge, health** `head/src/{radii,http}.rs` | one cached connection; time of the last good exchange | exchange with one resend, watch | a message sent twice; staleness threshold |
| **Head front** `head/src/{decision,http,proxy}.rs` | per request: the decision, the candidate tried; a task per backend connection | decide, connect, forward, answer | the task that writes outlives the handler that answers; retries before the request is written and none after |
| **Beacon** `beacon/src/lib.rs` | the hosts answered in the last window | announce, receive, answer | UDP loses, doubles, reorders and can be forged; a window with a cap |
| **Registry of services** `core/src/registry.rs`, `head/src/runners.rs` | the set of running tasks | run all, stop with the first that fails | a failure next to runners that never return; runners that return at once |
| **Wire and TLS** `proto/src` | none | frames, bounds, identities | pure validation |

How they interact. A node greets Crawl and reports its links; Fetch and Head poll Crawl's
snapshot and hand it to the planner, whose ranked routes become the *candidates* of a client.
Establishing a candidate opens a connection to its first relay, whose handler dials the next,
and so on; the last relay of the path, the target, dials its own upstream, and its ack travels
back. Then the client runs a TLS session with the target through all of them, and every relay
splices. A request at Head's HTTP front is decided on by the same planner over the poller's view, and goes
over the first candidate that comes up. Head's listeners and its poller are runners of one
registry. The beacon stands apart: nodes of one local network find each other by it before they
know a Crawl. All of this but the beacon is tokio tasks; state is shared behind the two locks above
and the graph's, and otherwise moves by messages over TCP, or UDP for the beacon.

What each part must get right: the relay's counters are exactly the guards that live and its
caps hold; nobody is refused but by live guards; nothing silent holds a slot for ever. A splice
loses nothing at a half-close and ends when it is idle. A client keeps only a chain whose
target reached its upstream, delivers nothing over one it gave up, and decides. The registry
holds what the entitled put there, keeps its ceilings, loses nothing fresh, and tells what it holds. The
planner returns the best routes there are. A poller keeps its view recent or `/health` says that
it is not. A client of Fetch walks one plan and is never kept waiting by an outage of Crawl. The bridge acks
what Crawl dealt with and sends nothing a third time. A request is taken by one
backend once at most, over the best route that comes up, and is answered. A failed runner takes the
process down whatever the others do. The beacon answers a bounded number of times, never loops, and
lets two nodes find each other when only one hears the other's broadcasts. `PROJECT.json` lists the
hazards line by line.

## 2. Modules

| Module | Models | State and actions against the code |
|---|---|---|
| `SlotMap` | the counting maps | `Charge`/`Release` are `entry().or_insert` and the decrement-or-remove of the guards' `Drop` |
| `TunnelOpen` | `validate`, the known ack statuses | `Verdict` for a path at a node; `Sanitised` for a status from downstream |
| `Relay` | one relay listener | `pc` is the await a task is parked at; `pending`, `permit` are the live guards (`PendingPermit`, `Permit`), the other variables the fields of `Live`. One action per critical section, await result and exit |
| `Splice` | `splice_with_idle`, `pump` | per direction: units sent, arrived, in the buffer, written, delivered; `quiet` and `nap` are the time since `last` and what is left of the sleep |
| `Chain` | all clients and relays of a set of candidates | `phase`, `rank` per client (`connect_upstream`, `connect_backend`, `establish`); `hop`, `answer` per handler (`handshake`, `terminate`, `forward`). A connection's two ends are derived from its parties' phases |
| `Failover` | what establishing a stream promises a client | the abstract walk `Chain` implements |
| `Crawl` | the registry and its connections | `nodes`, `reachability` map to the moment of the last write; `queue`, `holder` are the lock; `pc`, `msg`, `identity`, `view` the tasks. `heard` is a history variable: the last report acknowledged per key |
| `Planner` | `plan`, `shortest_path`, `reconstruct`, `resolve_candidates` | one action per turn of a loop; a cell of the table is held as the path its parent pointers spell |
| `Poller` | `run_poll`, `HealthWatch::evaluate` | where the loop is, what is left of its sleep, its connection and the answer on it; of the view only how long ago Crawl drew it up. `misses`, `slow` are history |
| `Bridge` | one client of `head/radii.rs` | where the client's task is, the cached session, what Crawl's task of it has in hand, and `late`: what tasks of sessions that were let go of still have in hand. `taken`, `acked` are history. Taken is dealt with and acked, whatever the ack says: Crawl may refuse the claim, and acknowledges a relayed report that found no room (`server.rs` 371–410) |
| `Services` | `run_all` over Head's runners | `runner` is what each task is doing, `joined` what `join_next` has returned; a failure that is joined ends the process and drops the rest |
| `HeadNode` | a Head process | `Services` and `Poller` extended, `Bridge` instantiated: the poller runs while its runner serves, a connection is accepted while the listener does, one Crawl's death hits both, and all end with the process |
| `FetchNode` | a Fetch process: `run`, both accept loops, the poller with `add_link` and its caps, clients | `main`, `relay` are `run` and its relay task; `poller`, `line`, `reports`, `snapshot` the loop and the snapshot it builds one report at a time; `routes` is `SharedRoutes`; `stage`, `walk`, `rank` the client's task. Planning is a table (`Routed`) from links to routes, for a registry of addresses that stays. `asked`, `tried`, `dropped` are history |
| `Front` | one HTTP request: `DecisionEngine::decide`, `connect_backend`, `forward` | `serving` is the handler's await, `task` the spawned task that drives the connection, `attempt` the candidate; `failed`, `taken` are history: which attempts failed, which connections a backend took the request from. Of the two kinds of 502, "unreachable" is the answer when every candidate has failed, "bad_gateway" any other, a failed HTTP handshake included |
| `HeadRequest` | a request with the planner behind its graph policy | `Planner` and `Front` extended: a host that is mapped waits for the plan, and the answer of the one is the candidates of the other |
| `Beacon` | `recv`, `answer_to`, `Answered::allow`, `announce` | `answered` is the table as the age of each entry, `net` the datagrams in flight. `sent`, `found` are history |
| `MCRelay`, `MCChain`, `MCCrawl`, `MCPlanner`, `MCFetch`, `MCBeacon` | instances | symmetry sets, candidate lists, sizes, links, views, strangers |
| `RelayProofs`, `ChainProofs`, `CrawlProofs`, `SpliceProofs`, `BeaconProofs` | the theorems of the module they are named for | |
| `NodeProofs` | the theorems of `Poller`, of `Bridge` and of the Head process they make up, and of `FetchNode` | |
| `PlannerProofs`, `HeadRequestProofs` | the theorems of `Planner`; those of `Front` and of the request `Planner` and `Front` make up | |

`Relay` and `Chain` describe the same handlers from two sides: `Relay` has every guard, cap and
exit of one listener and leaves the rest of the network free; `Chain` composes many listeners
and clients and charges each handler its chain slot only. Both use `TunnelOpen`. In `Chain`
every peer is admitted and every party has a `[tunnel_tls]` identity. `FetchNode` has `Chain`'s client
once more, as a walk whose attempts end somehow, next to the poller that replaces what it walks. `Relay` knows of a splice
that bytes move, that it falls quiet and that it ends; `Splice` opens that up. `Front` stands to
`Chain` likewise: how an attempt at a candidate fails is `Chain`'s subject, what Head does with a
request when it has failed is `Front`'s.

Operators whose comment begins with "Mutation" are plausible bugs. Nothing uses them; each
replaces the definition below it to show that a property can fail.

## 3. Runs

| Run | Bounds | Shows |
|---|---|---|
| `relay` | 3 connections, 2 addresses, 2 admitted peers and one not, caps of 2 chains in total and per peer, 2 handshakes in total and 1 per address, paths of up to 3 hops against `max_hops` 2 | counters equal guards, caps, maps of live keys only, a splice is earned, refusals are honest; handshake slots return; a chain slot stays taken only while bytes move |
| `relay_allowance` (violation) | 3 addresses, 4 peers, 1 chain per peer | finding 1 |
| `splice` | 2 units each way, chunk 2, window 1, idle 8 ticks, looked at every 2 | a finished splice has handed everything over; a quiet one lasts a window and a tick; every one ends |
| `chain_safety` | 1 client, 3 candidates sharing their first relay, 3 relays, crashes, 2 slots and 1 per peer | acks are honest, nothing is delivered for what was given up, `Failover` is implemented |
| `chain_rogue` | 2 clients crossing in opposite directions, 3 relays with one slot each, one of them a rogue that answers anything at any time | what is kept was reached whatever is lied, honest reasons survive; clients decide; slots of abandoned chains come back |
| `crawl` | 2 connections, 2 identities, one allowed to relay, every message over 2 ids, table of 2 with 1 per peer, ttl 0 over 2 moments, frame of 3 | ceilings, fresh rows stay, heartbeats accepted, honest snapshots, only the entitled write |
| `fetch` | 1 client; views of 5 reports, of 2 and of 1, one report of a node about itself; a snapshot of 3 links and 3 nodes; 2 routes; with and without `[graph]` and `[relay]`; any number of deaths, cuts and reconnections | a client walks one plan, a capped snapshot keeps what fits, the routes converge on a view that stays, an outage keeps no client waiting |
| `planner` | every subset of 11 links among 5 nodes (ties, parallel links, a link back, unreachable and disallowed ones), targets `t, b, t, s`, 3 hops, 3 routes; one request for a host that is mapped to nodes, one that is mapped to a backend, or none | sound routes; each plan the best by brute force; ranking loses nothing; the request goes over the best route that comes up, is taken once at most, and is answered |
| `planner_places` (violation) | one target, one route | finding 2 |
| `head` | an interval of 2, slow after 1, 2 messages, or 1 at a Head that also polls, each runner configured or not, any number of deaths, cuts and reconnections | "fresh" is recent, one miss is forgiven, the view recovers; an ack is of a message Crawl dealt with, none is dealt with a third time; a runner that fails ends the process |
| `beacon` | 2 nodes on hosts of their own, one deaf to the other's broadcasts, 4 addresses for strangers (two of nodes, one of nobody, one far away), a window of 2 with a cap of 2, 2 datagrams in flight when a stranger sends | answers are bounded, nothing loops, both sides find each other |
| `poller_outage` (violation) | the poller alone | finding 3 |

Why the bounds are enough. Every property of `Relay` speaks of at most one key and the total, so
two holders and a third contender meet every case of a cap: an address is refused by its own cap
while the total has room, and a peer that holds nothing is refused by the total. The two kinds of
slot are one piece of code over `SlotMap`, and the invariants are proved without bounds anyway. Three candidates give an abandoned first, a middle and a last; three relays give
an end, a middle and another end. Two connections to Crawl are what a lock order needs. With a
share of 1 for each of two peers the table of 2 is full exactly when both shares are, so that the run tells
the per-peer ceiling from none, sweeps a full table, and leaves the global ceiling by itself to the theorem; a ttl of 0
turns one tick of the clock into an expiry, so that fresh, aged, swept and reported again
happen within two moments. Four nodes besides the source let a spur at the first, second and
third hop ban what an earlier round found. `Splice` needs one unit stuck behind another.
An interval of 2 with a latency of 1 is the smallest instance of `LatencyIsShort` whose latency is
not zero (by default a poll is made every five seconds); two messages let an ack, a resend or a late copy of the first meet the second. A Head that polls has one message only (`BesidePoller`), because poller and bridge
share no state but Crawl and the process, and each is checked, and proved, alone beyond that. In
`planner` one of the routes can be dialed and one not, attempts may fail at each, and the three
policies all get to answer. In `fetch` three links fill the snapshot or three nodes do, by the order of the reports, and a route is
crowded out or not; one client is enough because clients share nothing but the routes, which none of them writes, and
`FetchWalksOnePlan` is proved for any number. In `beacon` three local addresses contend for a cap of two, and a
window of two has an inside and an edge.
`MaxClock`, `MaxMessages`, `BesidePoller` and `MaxFlight` are the only bounds on a counter; relative time in
`Splice`, `Poller` and `Beacon` needs none, and the caps in `Later` lie above what any check reads. `CHECK_DEADLOCK FALSE` appears where the system stops:
connections and clients are finite in number, and planning returns.

Fairness. `Relay`: timers fire and the task behind a timer or a dropped stream is polled; no
peer, hop or upstream need ever act. `Chain`: the client's attempt timeout, the connect timeout
of the static upstream, and the handshake timeout or the discovery of a closed neighbour in
honest relays; nothing of rogues. `Crawl` needs none: what would need it, that every waiting task is served, holds only if peers read
their answers, for which the code has no timeout, and is not claimed. `Splice`: ready pumps and the watchdog are polled and time passes. `Poller`: its task is polled,
time passes and a Crawl that runs answers; nothing makes a silent connection be noticed, a dead
Crawl return or the bridge do anything. `HeadNode` adds that a spawned task is run and a completed
one joined. `FetchNode`: the loop is polled and sleeps no longer than its interval, a Crawl that runs answers, a
client's task goes on where only the routes are read, the timers of an attempt and of the fallback
fire; nothing makes a client, a candidate, an upstream or the TLS handshake act, or a lost connection
be noticed. `Front`: the timers of an attempt and of the response fire, and the handler goes on to
its next await; no candidate or backend need ever act. tokio
polls whatever is woken, and each of these wake-ups is a timer or a socket. `Beacon`: the
application goes on announcing and receiving, and a hello sent again and again between two nodes is
delivered in the end (strong fairness, since any one of them may be lost); only `NothingLoops` and
`BothSidesFind` need it, and they also need that doubling and forging stop (`unruly`), which no
finite window could outlast.

### Findings

1. `relay_allowance`: the documents say the pre-admission slot is handed back on admission; the
   code holds it until the splice, so slow upstreams eat into the handshake allowance.
2. `planner_places`: the planner is asked for `limit` routes and the undialable ones are dropped
   afterwards, so a dialable route can be left out, or nothing be returned while one exists.
3. `poller_outage`: outages are said to be logged and retried; a poll has no timeout, so one whose
   connection goes silent while the answer is awaited is neither, and Head and Fetch keep their
   old view until they are restarted. On Head `/health` then says so.

Seen while modelling, without a run of their own. Only reads stamp the idle clock of a splice, so a
chain whose slow receiver is still being written to is dropped as idle, where the comment at
`relay.rs` 556 speaks of a direction that has not "moved a byte". A backend connection that breaks
before anything was written to it is a 502 without a try of the next candidate, although the
boundary `http.rs` 354–359 describes would allow one (`Front`: `ForwardFails` is enabled whether or
not `Write` has happened). The response timeout covers the upload too (`proxy.rs` 98). A beacon host
counts as answered although the answer could not be sent (`beacon/src/lib.rs` 336–337), and of nodes
that share a host one hears an answer, as the crate's README says, so `BothSidesFind` is checked
with one node per host. A hello's write guard
lives across the writing of its Ack, so a peer that does not read can hold up the registry
(`crawl/src/server.rs` 260–277: `PostHello` keeps `holder`, and no fairness moves the peer); expired rows count
against a peer's share until the whole table is full (98–106); with a cap of zero every refused
key leaves a zero entry behind (`relay.rs` 203–206); one failed `accept` ends the relay listener.
A view is stale three intervals after the last success, so two failed polls turn `/health` to
503 before a third can be made (`head/src/http.rs` 68–74 speaks of three failures); a message the
bridge sends again can be taken by a task of the session it gave up after a newer one
(`CrawlTakesLate`). At Fetch the TLS handshake of a client (`fetch/src/server.rs` 105, 123) and, without
`[graph]`, the dial of the upstream (109) have no timeout, so `OutageSparesClients` begins where a
client has been let in and speaks of `[graph]`. `add_link` counts a link of a node to itself as two new
nodes (`core/src/routing.rs` 98), so such a link can be dropped although it would fit, which
`SnapshotKeepsWhatFits` leaves out. The watchdog's sleep is a quarter of the idle time but at least 10 ms
(`relay.rs` 593), so for an idle time under 40 ms "a tick" is more than a quarter of it.

## 4. Proofs

`Relay`. The inductive invariant is built in layers, each proved from the ones before it: types
with `GuardsFollowPhase` (which guard a task owns is a matter of where it is parked, so a step
knows what its `Drop` frees); then the counters equal the cardinalities of the guard sets; then
the counters are capped; then what a splice has earned; then no map holds a zero. `CapsHold` is
not inductive alone, for nothing in it ties the counter that is tested to the guards that are
counted. Theorems: `RelayGuardsFollowPhase`, `RelayAccounting`, `RelayCaps`,
`RelaySpliceIsEarned`, `RelayRefusalsAreHonest`, and `RelayMapsTrackLiveKeys`, which assumes
caps of at least one.

`Chain`. For any clients, candidates, caps and rogues: `ChainTypeOK`, `ChainReadyMeansReached`,
`ChainKeptIsReached`, `ChainNoDelivery`, `ChainReasonSurvives`, and `ChainImplementsFailover`, the
refinement of `Failover` when targets are honest. The strengthening (`IInv`) says that a client's
rank stays within its candidates until the last has failed, that no handler runs for a rank not
reached yet, and that an honest handler waiting for the inner session is a target that has reached
its upstream. For `ReasonSurvives` a second invariant (`Reasoned`) follows an answer through the
chain: a handler that is still to dial or to hear its neighbour has said nothing, nothing runs below
one that has not dialed, and what runs below one that has answered has answered before it.

`Crawl`. `CrawlTypeOK`, `CrawlCapsHold`, `CrawlFreshReportsStay`, `CrawlHeartbeatsAccepted`,
`CrawlOnlyTheEntitledWrite`, `CrawlLockIsSound`, `CrawlSnapshotHonest`. The strengthening adds that a task waiting to write was entitled to
when it read its message (`Entitled`), and that a row's time is the time of its last
acknowledged report (`Mirrors`), which is what a sweep between the queueing and the granting of
the lock must not disturb. For the lock, it is that the queue holds exactly the waiting tasks, each
once (`InLine`): every step leaves the line alone, joins it at the end, leaves it at the front, or
goes from the front back to the end (`LockEffect`). For the snapshot, `Mirrors` and `FreshReportsStay`
make what the table holds fresh what was last acknowledged and is fresh (`FreshAreLive`), and lemmas
on sums over finite sets do the rest: a sum exists and is one number (`FoldExists`, `FoldsAgree`),
any element may be taken out of it (`SumAny`), and leaving one out keeps it that much smaller
(`SumGrows`), so that rows met in any order, each sent while it fits, are all sent when all fit
(`FillsWhole`). Their induction is on the smallest set that would be wrong (`Smallest`).

`Splice`. `SpliceTypeOK`, `SpliceHandsEverythingOver` and `SpliceOvershootIsBounded`. The strengthening: units
are conserved; a direction at its end of file has nothing left to read and no sender; and the
time since the last read plus what is left of the watchdog's sleep never exceeds the window and
a tick.

`Poller`. `PollerTypeOK`, `PollerFreshIsRecent` and `PollerOneMissIsForgiven`. What `/health`
reads is the age of the last success, and nothing in the properties says where the loop can be at
that age. The strengthening is a schedule: asleep, the age and what is left of the sleep never
exceed one interval, or after one miss two and a latency; awake, the age never exceeds that and
what the exchange has taken; and an answer is no older than its exchange.

`Planner`. `PlannerRoutesAreSound`, `PlannerPlanIsBest` and `PlannerAnswerIsRanked`, for every set
of nodes and links, every cost, target list, set of addresses and bound. What is proved is that the
algorithm is right: Yen's detours over a search in layers of hops give the cheapest loop-free routes
within the budget, in order, and none is missing when the candidates run out. The inductive
invariant (`PlannerInv`) has three parts, and none of them is in the code or in the properties.
- `SearchOK`: after *h* layers each cell is a walk of at most *h* links that are not banned, and every
  such walk ends in a cell that costs no more. The budget counts layers, so that the walk and the
  layer that beats it are compared at the same *h*; that a walk which revisits a node costs more than
  the walk without the loop (`LoopCut`, links cost something) turns cheapest walks into loop-free ones.
- `YenOK` and `CoveredBut`: a tour that is not accepted leaves the accepted routes at one node
  (`LeavesSomewhere`). No two candidates leave by the same edge, each is the cheapest that leaves by
  its own, and every tour is covered by a candidate that leaves where it does and costs no more,
  but for those that leave at a spur node yet to be tried. Banning a *known* path's edge,
  of candidates as well as of accepted routes, is what keeps this: `SpurUp` and `SpurDown` say what
  the bans let through.
- `NoneCheaper`: so the cheapest candidate is the cheapest tour not accepted (`AcceptKeeps`).

The answer is about sorting: `Arranged` gives an element the place that the number of elements below
it says, and `PlacesAre` proves that these are all the places. Induction over lengths and layers is
done in first order: a set of numbers that holds 0, and with each number the next, holds them
all (`Reaches`), from the least element of its complement (`Least`, by the library's `WFMin`).

`HeadRequest`. `RequestTakesBestThatComesUp`, `RequestTakenAtMostOnce` and `RequestPlansAreBest`, of
the composition: `PlannerInv`, the front's invariant, and that a request which was given planned
routes walks the planner's answer, which has then stopped changing (`WalksThePlan`). An attempt that
fails moves on by one, the answer ascends, so whatever was cheaper than the route in use has
been tried.

`Front`. `FrontTakenAtMostOnce` and `FrontLeavesNoneUntried`, for any requests, hosts, policies'
tables and routes. Nothing in the property says that the handler and the connection's task agree
on which candidate they are at. The strengthening does: no task exists until an attempt has
succeeded, from then on `attempt` does not move, what is written is written to that candidate alone,
and the attempts that failed are exactly those before it, or all of them once Head has given up for want of a connection. A request whose
connection came up and whose HTTP handshake failed (`HandshakeFails`) is not among these: it was not
written, and no other candidate is tried.

`Beacon`. `BeaconTypeOK` and `BeaconAnswersAreBounded`, for any nodes, hosts, window, cap and
strangers, and for nodes that share a host. The strengthening ties the history of answers to the
table: an answer that is still inside the window is in the table with the age it has, so that two
answers to one host would be one entry of two ages, and the hosts answered are among those in the
table, which never outgrows the cap.

`Bridge`. `BridgeTakenOnceOrTwice`, for any number of messages. The strengthening counts tries: what
was taken, is in hand late and is in hand now never exceeds how often the message can have been
written, by where the task is; and something is in flight only while the task waits for it, so an
ack is never left in the session for the next message.

`HeadNode`. `HeadFreshIsRecent`, `HeadOneMissIsForgiven` and `HeadTakenOnceOrTwice` carry those of
`Poller` and `Bridge` to the process: every step of it is a step of either or both, or ends both with the
process, and a restart of the Crawl they share is a step of both.

`FetchNode`. `FetchSnapshotKeepsWhatFits` and `FetchWalksOnePlan`, for any clients, views, plans and
caps. What a rejected report would need is counted once and must stay too much while the snapshot goes
on growing (`StillDoesNotFit`), and the count of new nodes must be exact for ends that differ (`TwoMore`):
the strengthening keeps the sets finite, the nodes those of the links, and what is in the snapshot
apart from what is still to be added. For the walk it ties the number of attempts to the client's rank
and the list it holds to the one it read, whatever is published meanwhile.

The assumptions are the named `ASSUME`s: finite sets of connections and hosts, natural-number
limits, candidates that are non-empty paths, positive sizes, a latency of at most half an interval,
strangers that do not go by a node's id, links between nodes whose latency is a number or unmeasured,
a penalty per hop of at least one (without it a loop would cost nothing), and a table of plans that
holds a list of routes for every set of links.

With that, every invariant and every action property of the passing runs is also a theorem. The types of
`Chain` and `Crawl` and the discipline of the lock (`LockIsSound`) are theorems only.
Only model-checked are the liveness properties, because fairness is out of the prover's reach:
`HandshakeSlotReturns`, `OnlyTrafficHoldsAChainSlot`, `ClientsDecide`, `AbandonedChainsEnd`,
`RequestsAreAnswered`, `RoutesConverge`, `OutageSparesClients`, `SpliceEnds`, `ViewRecovers`, `PartialFailureEndsProcess`
(the one property of `Services`), `NothingLoops` and `BothSidesFind`; and the three violations,
each a behaviour the checker shows.

## 5. Not modelled

Byte contents, TLS records and certificates; that a dial of an expected identity reaches that
identity or fails is one step. Buffering inside a TLS stream, which `pump` never flushes. The
wall clock stepping back. Configuration, logging, the command line. Of HTTP the rewriting of
headers, `/health` but for what it evaluates, the decision as JSON, and the streaming of bodies.
The bytes of Fetch's plain tunnel, which is a library's `copy_bidirectional`. A poisoned routes lock:
nothing that holds it panics. What a view holds
is not carried from `Crawl` by way of `Poller` to `Planner`: each is checked over everything the one
before can hand it, and a request keeps the routes it was decided by. The encoding of a beacon but
for its being one; an announcement sent to several directed addresses is one broadcast.
What an Ack of Crawl says beyond what the state shows.

## 6. Plan

Done in this order, the most consequential first: `SlotMap`, `TunnelOpen`, `Relay`,
`RelayProofs`; `Failover`, `Chain`, `ChainProofs`; `Crawl`, `CrawlProofs`; `Splice`,
`SpliceProofs`; `Planner`; `Poller`, `Bridge`, `HeadNode`, `NodeProofs`;
`Beacon`, `BeaconProofs`; `Front`, `HeadRequest`; `Services` in `HeadNode`; `PlannerProofs`,
`HeadRequestProofs`; `FetchNode`.

What would come next:
1. `Relay` with `Splice` in place of its four splice actions, as a refinement.
2. `FetchNode` with `Planner` in place of its table of plans, and with `Chain` in place of its attempts.

------------------------------ MODULE Planner ------------------------------
(***************************************************************************)
(* Route planning: resolve_candidates plans to each target in turn (Yen's *)
(* algorithm over a hop-layered shortest path), keeps the routes whose     *)
(* every hop can be dialed, and ranks what is left.  One action is one     *)
(* turn of a loop of the code.                                             *)
(*                                                                         *)
(* A cell of the code's table holds a cost and a pointer to its parent in  *)
(* an earlier layer.  Layers never change once built, so a cell is held    *)
(* here as the path its pointers spell; its cost is the sum of its links.  *)
(* The table is iterated in hash order: between two offers of the same     *)
(* cost the choice is free.  Costs are whole milliseconds, which an f64    *)
(* adds exactly.  Both callers ask for the relay role of every hop, so a   *)
(* node's addresses reduce to whether it advertises one.                   *)
(***************************************************************************)
EXTENDS Naturals, FiniteSets, SequencesExt

CONSTANTS
    Nodes, Source,
    Targets,            \* the sequence of targets of the request
    Links,              \* the links the registry's reports can add up to
    AllowedProtocols,   \* request.allowed_protocols, {} for all of them
    Adverts,            \* the sets of nodes that may advertise a relay
    MaxHops, Limit,     \* what the request asks for
    HopCeiling, ResultCeiling,  \* MAX_ROUTE_HOPS, MAX_ROUTE_RESULTS
    HopPenalty, UnknownLatency, \* DefaultScorer's two charges
    Unmeasured          \* the latency of a link nobody measured

\* Requests, reports and scores are what their types allow; a hop costs
\* something (the code's penalty is 10 ms).
ASSUME PlannerAssumption ==
    /\ Source \in Nodes /\ Targets \in Seq(Nodes)
    /\ \A link \in Links : /\ link.from \in Nodes /\ link.to \in Nodes
                           /\ link.latency = Unmeasured \/ link.latency \in Nat
    /\ MaxHops \in Nat /\ HopCeiling \in Nat
    /\ Limit \in Nat /\ ResultCeiling \in Nat
    /\ HopPenalty \in Nat \ {0} /\ UnknownLatency \in Nat

VARIABLES
    graph,      \* the reachability snapshot, a set of links
    dialable,   \* the nodes with a registered relay address
    stage,      \* the loop being run
    index,      \* the target being planned to, counted from 1
    accepted,   \* the routes planned to it so far
    candidates, \* the routes found but not accepted
    spur,       \* the hop of the last accepted route being diverted at
    hop,        \* the layers built in the search under way
    layer,      \* the last of them: node reached -> cheapest path to it
    resolved,   \* the dialable routes planned so far, over all targets
    answer      \* the ranked routes, what the caller gets

search == <<spur, hop, layer>>
vars == <<graph, dialable, stage, index, accepted, candidates, search,
          resolved, answer>>

---------------------------------------------------------------------------
\* The request, clamped to the ceilings of the module.
Hops == IF MaxHops < HopCeiling THEN MaxHops ELSE HopCeiling
Results == IF Limit < ResultCeiling THEN Limit ELSE ResultCeiling

\* The links a route may use.
Adjacency == {link \in graph :
                 /\ link.reachable
                 /\ AllowedProtocols = {} \/ link.protocol \in AllowedProtocols}

LinkCost(link) ==
    HopPenalty + IF link.latency = Unmeasured THEN UnknownLatency ELSE link.latency

Total(numbers) ==
    LET upTo[n \in 0..Len(numbers)] == IF n = 0 THEN 0 ELSE upTo[n - 1] + numbers[n]
    IN  upTo[Len(numbers)]

Cost(path) == Total([i \in DOMAIN path.links |-> LinkCost(path.links[i])])
Cheapest(paths) == {p \in paths : \A q \in paths : Cost(p) <= Cost(q)}

At(node) == [hops |-> <<node>>, links |-> <<>>]
Along(path, link) == [hops |-> Append(path.hops, link.to),
                      links |-> Append(path.links, link)]

\* The first `cut` nodes of a path, continued by a path that starts at the next.
Rooted(path, cut, rest) == [hops |-> SubSeq(path.hops, 1, cut) \o rest.hops,
                            links |-> SubSeq(path.links, 1, cut) \o rest.links]

---------------------------------------------------------------------------
\* The search under way: the first one runs from the source with nothing
\* banned, each later one from the spur node of the last accepted route.

target == Targets[index]
previous == Last(accepted)
From == IF accepted = <<>> THEN Source ELSE previous.hops[spur]

Budget == Hops - (spur - 1)

\* Mutation: the root's nodes stay in the graph.
BannedNodesForgotten == {}

BannedNodes == {previous.hops[i] : i \in 1..(spur - 1)}

\* Mutation: the next link of every known path is banned at every spur node,
\* whether or not the path shares the root.
BannedEdgesOfAnyRoot ==
    {<<path.hops[spur], path.hops[spur + 1]>> :
        path \in {p \in ToSet(accepted \o candidates) : Len(p.hops) > spur}}

\* The next link of every known path that shares the root.
BannedEdges ==
    {<<path.hops[spur], path.hops[spur + 1]>> :
        path \in {p \in ToSet(accepted \o candidates) :
                    /\ Len(p.hops) > spur
                    /\ SubSeq(p.hops, 1, spur) = SubSeq(previous.hops, 1, spur)}}

\* The paths one link longer that end at `node`.
Offers(node) ==
    {Along(layer[link.from], link) :
        link \in {l \in Adjacency : /\ l.from \in DOMAIN layer
                                    /\ l.to = node
                                    /\ node \notin BannedNodes
                                    /\ <<l.from, node>> \notin BannedEdges}}

Improved == {node \in Nodes :
               \E offer \in Offers(node) :
                  node \in DOMAIN layer => Cost(offer) < Cost(layer[node])}

Ended == stage = "search" /\ (From = target \/ hop = Budget)

\* reconstruct: the target was reached, by a path that visits no node twice.
Reached == target \in DOMAIN layer /\ IsInjective(layer[target].hops)

StartSearch(node) == layer' = [n \in {node} |-> At(n)] /\ hop' = 0

---------------------------------------------------------------------------
Init ==
    /\ graph \in SUBSET Links
    /\ dialable \in Adverts
    /\ stage = "targets" /\ index = 0
    /\ accepted = <<>> /\ candidates = <<>>
    /\ spur = 1 /\ hop = 0 /\ layer = <<>>
    /\ resolved = <<>> /\ answer = <<>>

\* plan is called for the next target; asked for nothing, it returns nothing.
NextTarget ==
    /\ stage = "targets" /\ index < Len(Targets)
    /\ index' = index + 1
    /\ accepted' = <<>> /\ candidates' = <<>>
    /\ spur' = 1 /\ StartSearch(Source)
    /\ stage' = IF Results = 0 THEN "targets" ELSE "search"
    /\ UNCHANGED <<graph, dialable, resolved, answer>>

\* One hop layer.  It starts from the previous one, and every link out of a
\* node of the previous layer may improve a cell, strictly.
Relax ==
    /\ stage = "search" /\ ~Ended
    /\ \E best \in [Improved -> UNION {Cheapest(Offers(n)) : n \in Improved}] :
          /\ \A n \in Improved : best[n] \in Cheapest(Offers(n))
          /\ layer' = [n \in Improved \cup DOMAIN layer |->
                          IF n \in Improved THEN best[n] ELSE layer[n]]
    /\ hop' = hop + 1
    /\ UNCHANGED <<graph, dialable, stage, index, accepted, candidates, spur,
                   resolved, answer>>

\* The first search fails: there is no route to this target.
NoRoute ==
    /\ Ended /\ accepted = <<>> /\ ~Reached
    /\ stage' = "targets"
    /\ UNCHANGED <<graph, dialable, index, accepted, candidates, search,
                   resolved, answer>>

\* The first search succeeds: the cheapest route is accepted.
FirstRoute ==
    /\ Ended /\ accepted = <<>> /\ Reached
    /\ accepted' = <<layer[target]>>
    /\ stage' = "routes"
    /\ UNCHANGED <<graph, dialable, index, candidates, search, resolved, answer>>

\* Another route is wanted: the spur nodes of the last accepted one are taken
\* in turn.  A route that never left the source has none.
Divert ==
    /\ stage = "routes" /\ Len(accepted) < Results
    /\ spur' = 1
    /\ IF Len(previous.hops) = 1
          THEN stage' = "choose" /\ UNCHANGED <<hop, layer>>
          ELSE stage' = "search" /\ StartSearch(previous.hops[1])
    /\ UNCHANGED <<graph, dialable, index, accepted, candidates, resolved, answer>>

\* What the search from a spur node adds to the candidates.
Found ==
    LET route == Rooted(previous, spur - 1, layer[target])
    IN  IF Reached /\ \A p \in ToSet(accepted \o candidates) : p.hops # route.hops
           THEN <<route>> ELSE <<>>

SpurEnds ==
    /\ Ended /\ accepted # <<>>
    /\ candidates' = candidates \o Found
    /\ IF spur + 1 < Len(previous.hops)
          THEN /\ spur' = spur + 1
               /\ StartSearch(previous.hops[spur + 1])
               /\ UNCHANGED stage
          ELSE stage' = "choose" /\ UNCHANGED search
    /\ UNCHANGED <<graph, dialable, index, accepted, resolved, answer>>

\* The first of the cheapest candidates.
BestCandidate ==
    CHOOSE i \in DOMAIN candidates :
        /\ candidates[i] \in Cheapest(ToSet(candidates))
        /\ \A j \in 1..(i - 1) : Cost(candidates[j]) # Cost(candidates[i])

Choose ==
    /\ stage = "choose" /\ candidates # <<>>
    /\ accepted' = Append(accepted, candidates[BestCandidate])
    /\ candidates' = RemoveAt(candidates, BestCandidate)
    /\ stage' = "routes"
    /\ UNCHANGED <<graph, dialable, index, search, resolved, answer>>

\* Every hop after the source has a relay address, and there is such a hop.
Dialable(path) ==
    Len(path.hops) > 1 /\ \A i \in 2..Len(path.hops) : path.hops[i] \in dialable

\* The routes of these places, in this order of them.
Arranged(routes, places, order) ==
    [k \in 1..Cardinality(places) |->
        routes[CHOOSE i \in places :
                  Cardinality({j \in places : <<j, i>> \in order}) = k - 1]]

InPlace(routes) == {pair \in (DOMAIN routes) \X (DOMAIN routes) : pair[1] < pair[2]}

\* Those that resolve, as they came.
Resolved(routes) ==
    Arranged(routes, {i \in DOMAIN routes : Dialable(routes[i])}, InPlace(routes))

\* plan returns what it accepted and each route is resolved.
PlanEnds ==
    /\ \/ stage = "routes" /\ Len(accepted) = Results
       \/ stage = "choose" /\ candidates = <<>>
    /\ resolved' = resolved \o Resolved(accepted)
    /\ stage' = "targets"
    /\ UNCHANGED <<graph, dialable, index, accepted, candidates, search, answer>>

\* A stable sort by cost, the first of each node sequence, at most Limit...
Sooner(routes) ==
    {pair \in (DOMAIN routes) \X (DOMAIN routes) :
        \/ Cost(routes[pair[1]]) < Cost(routes[pair[2]])
        \/ Cost(routes[pair[1]]) = Cost(routes[pair[2]]) /\ pair[1] < pair[2]}

ByCost(routes) == Arranged(routes, DOMAIN routes, Sooner(routes))

Distinct(routes) ==
    LET first == {i \in DOMAIN routes : \A j \in 1..(i - 1) : routes[j].hops # routes[i].hops}
    IN  Arranged(routes, first, InPlace(routes))

Truncated(routes) == SubSeq(routes, 1, IF Len(routes) < Limit THEN Len(routes) ELSE Limit)

\* Mutation: truncated before it is sorted.
RankedTooLate(routes) == ByCost(Truncated(Distinct(routes)))

Ranked(routes) == Truncated(Distinct(ByCost(routes)))

\* ... and the caller has its answer.
Rank ==
    /\ stage = "targets" /\ index = Len(Targets)
    /\ answer' = Ranked(resolved)
    /\ stage' = "ranked"
    /\ UNCHANGED <<graph, dialable, index, accepted, candidates, search, resolved>>

Next == \/ NextTarget \/ Relax \/ NoRoute \/ FirstRoute \/ Divert
        \/ SpurEnds \/ Choose \/ PlanEnds \/ Rank

Spec == Init /\ [][Next]_vars

---------------------------------------------------------------------------
\* What a request deserves, by brute force.

SimpleTours == [t \in Nodes |->
    {hops \in UNION {[1..n -> Nodes] : n \in 1..Cardinality(Nodes)} :
        hops[1] = Source /\ Last(hops) = t /\ IsInjective(hops)}]

LinksBetween(from, to) == {l \in Adjacency : l.from = from /\ l.to = to}

\* The loop-free node sequences to `t` that the graph's links support within
\* the hop budget.
Tours(t) == {hops \in SimpleTours[t] :
               /\ Len(hops) - 1 <= Hops
               /\ \A i \in 1..(Len(hops) - 1) : LinksBetween(hops[i], hops[i + 1]) # {}}

TourCost(hops) ==
    Total([i \in 1..(Len(hops) - 1) |->
              Min({LinkCost(l) : l \in LinksBetween(hops[i], hops[i + 1])})])

\* The path is a walk over usable links.
Walks(path) ==
    /\ Len(path.hops) = Len(path.links) + 1
    /\ \A i \in DOMAIN path.links :
          /\ path.links[i] \in Adjacency
          /\ path.links[i].from = path.hops[i]
          /\ path.links[i].to = path.hops[i + 1]

---------------------------------------------------------------------------
\* Every route the planner holds, accepted or not, runs over usable links from
\* the source to the target, within the hop budget, through no node twice, and
\* is held once.  The search itself never looks at a whole route: the root is
\* spliced onto a path found in a graph without it, under a budget that must
\* have been reduced by exactly the root's links.
RoutesAreSound ==
    LET held == accepted \o candidates
    IN  stage \in {"search", "routes", "choose"} =>
          /\ \A i, j \in DOMAIN held : held[i].hops = held[j].hops => i = j
          /\ \A p \in ToSet(held) :
                /\ Walks(p)
                /\ Head(p.hops) = Source /\ Last(p.hops) = target
                /\ Len(p.links) <= Hops
                /\ IsInjective(p.hops)

\* "the returned set really is the best `limit` routes": whenever a route has
\* been accepted, no route the graph supports is cheaper than it and missing;
\* when the candidates run out, none is missing at all; and a search that
\* finds nothing means there is nothing.
PlanIsBest ==
    /\ stage \in {"routes", "choose"} =>
         /\ \A i \in DOMAIN accepted : Cost(accepted[i]) = TourCost(accepted[i].hops)
         /\ IsSorted([i \in DOMAIN accepted |-> Cost(accepted[i])], <=)
         /\ \A hops \in Tours(target) :
              \/ \E p \in ToSet(accepted) : p.hops = hops
              \/ TourCost(hops) >= Cost(previous) /\ ~(stage = "choose" /\ candidates = <<>>)
    /\ (Ended /\ accepted = <<>> /\ ~Reached) => Tours(target) = {}

\* What the caller gets is the best of what was planned: in ascending cost, no
\* node sequence twice, every hop dialable, and nothing left out that is
\* cheaper than something kept.
AnswerIsRanked ==
    stage = "ranked" =>
        /\ Len(answer) <= Limit
        /\ IsSorted([i \in DOMAIN answer |-> Cost(answer[i])], <=)
        /\ \A i, j \in DOMAIN answer : answer[i].hops = answer[j].hops => i = j
        /\ \A p \in ToSet(answer) : Walks(p) /\ ToSet(Tail(p.hops)) \subseteq dialable
        /\ \A p \in ToSet(resolved) :
              \/ \E q \in ToSet(answer) : q.hops = p.hops
              \/ Len(answer) = Limit /\ Cost(Last(answer)) <= Cost(p)

\* "returns the best `limit` routes across all of them", of the routes that
\* can be dialed: a dialable route is left out only if `limit` routes at least
\* as cheap are returned.
AnswerIsBest ==
    stage = "ranked" =>
        \A t \in ToSet(Targets) : \A hops \in Tours(t) :
            \/ Len(hops) = 1 \/ ~ToSet(Tail(hops)) \subseteq dialable
            \/ \E p \in ToSet(answer) : p.hops = hops
            \/ Len(answer) = Limit /\ Cost(Last(answer)) <= TourCost(hops)
=============================================================================

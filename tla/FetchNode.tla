------------------------------ MODULE FetchNode -----------------------------
(***************************************************************************)
(* A Fetch process (fetch/lib.rs run): a front that tunnels clients, and,  *)
(* with [graph], a loop that polls Crawl and replaces the routes which the *)
(* front's tasks read (fetch/graph.rs, fetch/server.rs).  The two share    *)
(* nothing but these routes, and neither is told how the other fares.      *)
(*                                                                         *)
(* A snapshot is built report by report under the caps of add_link         *)
(* (core/routing.rs).  What the planner makes of it, for a registry of     *)
(* addresses that stays, is Planner's subject, and how an attempt at a     *)
(* route fails is Chain's.                                                 *)
(***************************************************************************)
EXTENDS Naturals, Sequences, FiniteSets

CONSTANTS
    Clients,
    Views,      \* what Crawl's snapshot may be: sets of reports [from, target]
    Routes,     \* what can be planned: chains of hops that can be dialed
    Routed,     \* set of links -> the routes planned from them, best first
    MaxLinks,   \* MAX_GRAPH_LINKS
    MaxNodes    \* MAX_GRAPH_NODES

Links == UNION Views

ASSUME PlansAreRoutes == Routed \in [SUBSET Links -> Seq(Routes)]

ASSUME SnapshotCaps == MaxLinks \in Nat /\ MaxNodes \in Nat

VARIABLES
    main,       \* run: "starting", "serving" or "ended"
    graph,      \* whether [graph] is configured
    relay,      \* the relay listener: "none", "configured", "serving" or "stopped"
    crawl,      \* whether Crawl runs and can be dialed
    view,       \* what its snapshot would hold now
    poller,     \* where the loop is: "unborn", "dialing", "reading", "planning"
                \* or "sleeping"
    line,       \* its connection: "none", "open", "closed" or "silent"
    arrived,    \* whether Crawl's answer is on its way
    reports,    \* what that answer holds, but for what has been added
    snapshot,   \* the snapshot being built
    dropped,    \* the reports it was too full for
    routes,     \* SharedRoutes
    stage,      \* client -> where its task is
    walk,       \* client -> the routes its task holds
    rank,       \* client -> the one being tried, or tried last
    asked,      \* history: client -> what the routes were when it read them
    tried       \* history: client -> the routes attempted, in order

mainVars == <<main, graph, relay>>
crawlVars == <<crawl, view>>
exchange == <<poller, line, arrived, reports, snapshot, dropped>>
clientVars == <<stage, walk, rank, asked, tried>>
fetchVars == <<mainVars, crawlVars, exchange, routes, clientVars>>

-----------------------------------------------------------------------------
\* The snapshot under its caps.

Empty == [nodes |-> {}, links |-> {}]
Ends(l) == {l.from, l.target}

\* Mutation: each end is counted as if it were new.
HasRoomForBoth(s, l) ==
    Cardinality(s.links) < MaxLinks /\ Cardinality(s.nodes) + 2 <= MaxNodes

\* would_add_nodes counts the ends that are new; one that is both, twice.
HasRoomFor(s, l) ==
    LET isNew(n) == IF n \in s.nodes THEN 0 ELSE 1 IN
    /\ Cardinality(s.links) < MaxLinks
    /\ Cardinality(s.nodes) + isNew(l.from) + isNew(l.target) <= MaxNodes

With(s, l) == [nodes |-> s.nodes \cup Ends(l), links |-> s.links \cup {l}]

-----------------------------------------------------------------------------
FetchInit ==
    /\ main = "starting" /\ graph \in BOOLEAN /\ relay \in {"none", "configured"}
    /\ crawl \in BOOLEAN /\ view \in Views
    /\ poller = "unborn" /\ line = "none" /\ arrived = FALSE
    /\ reports = {} /\ snapshot = Empty /\ dropped = {}
    /\ routes = <<>>
    /\ stage = [c \in Clients |-> "away"]
    /\ walk = [c \in Clients |-> <<>>]
    /\ rank = [c \in Clients |-> 1]
    /\ asked = [c \in Clients |-> <<>>]
    /\ tried = [c \in Clients |-> <<>>]

-----------------------------------------------------------------------------
\* run.

\* Both listeners are bound, the identities loaded, the two tasks spawned; and
\* then the front accepts.
Start ==
    /\ main = "starting" /\ main' = "serving"
    /\ relay' = IF relay = "configured" THEN "serving" ELSE relay
    /\ poller' = IF graph THEN "dialing" ELSE poller
    /\ UNCHANGED <<graph, crawlVars, line, arrived, reports, snapshot, dropped, routes, clientVars>>

\* Everything that was spawned goes with the process, every tunnel too.
ProcessEnds ==
    /\ main' = "ended" /\ relay' = "none"
    /\ poller' = "unborn" /\ line' = "none" /\ arrived' = FALSE
    /\ reports' = {} /\ snapshot' = Empty /\ dropped' = {} /\ routes' = <<>>
    /\ stage' = [c \in Clients |-> IF stage[c] = "away" THEN "away" ELSE "closed"]
    /\ UNCHANGED <<graph, crawlVars, walk, rank, asked, tried>>

\* An address is taken or an identity cannot be loaded.
StartFails == main = "starting" /\ ProcessEnds

\* The front's accept fails: run returns the error.
FrontStops == main = "serving" /\ ProcessEnds

\* The relay's does: its task ends, which is logged.
RelayStops ==
    /\ relay = "serving" /\ relay' = "stopped"
    /\ UNCHANGED <<main, graph, crawlVars, exchange, routes, clientVars>>

-----------------------------------------------------------------------------
\* Crawl and the network.

FallsSilent == line = "open" /\ line' = "silent" /\ arrived' = FALSE /\ reports' = {}

ClosesLine ==
    /\ line' = IF line = "open" THEN "closed" ELSE line
    /\ UNCHANGED <<arrived, reports>>

\* Nodes report to it, or their reports expire.
ViewChanges ==
    /\ \E now \in Views \ {view} : view' = now
    /\ UNCHANGED <<mainVars, crawl, exchange, routes, clientVars>>

CrawlGoes ==
    /\ crawl /\ crawl' = FALSE
    /\ FallsSilent \/ ClosesLine
    /\ UNCHANGED <<mainVars, view, poller, snapshot, dropped, routes, clientVars>>

CrawlComes ==
    /\ ~crawl /\ crawl' = TRUE
    /\ UNCHANGED <<mainVars, view, exchange, routes, clientVars>>

LineIsCut ==
    /\ line = "open" /\ (FallsSilent \/ ClosesLine)
    /\ UNCHANGED <<mainVars, crawlVars, poller, snapshot, dropped, routes, clientVars>>

LossIsNoticed ==
    /\ line = "silent" /\ line' = "closed"
    /\ UNCHANGED <<mainVars, crawlVars, poller, arrived, reports, snapshot, dropped, routes, clientVars>>

CrawlSends ==
    /\ crawl /\ poller = "reading" /\ line = "open" /\ ~arrived
    /\ arrived' = TRUE /\ reports' = view
    /\ UNCHANGED <<mainVars, crawlVars, poller, line, snapshot, dropped, routes, clientVars>>

-----------------------------------------------------------------------------
\* run_poll.

Rest ==
    /\ poller' = "sleeping" /\ line' = "none" /\ arrived' = FALSE /\ reports' = {}
    /\ snapshot' = Empty /\ dropped' = {}

PollDials ==
    /\ poller = "dialing" /\ crawl
    /\ poller' = "reading" /\ line' = "open"
    /\ UNCHANGED <<mainVars, crawlVars, arrived, reports, snapshot, dropped, routes, clientVars>>

\* Logged; the routes stay as they are.
PollFails ==
    /\ \/ poller = "dialing" /\ ~crawl
       \/ poller = "reading" /\ line = "closed"
    /\ Rest
    /\ UNCHANGED <<mainVars, crawlVars, routes, clientVars>>

PollReceives ==
    /\ poller = "reading" /\ arrived
    /\ poller' = "planning" /\ line' = "none" /\ arrived' = FALSE
    /\ UNCHANGED <<mainVars, crawlVars, reports, snapshot, dropped, routes, clientVars>>

\* add_link, in the order in which Crawl's map happened to yield the reports.
AddLink(l) ==
    /\ poller = "planning" /\ l \in reports
    /\ reports' = reports \ {l}
    /\ IF HasRoomFor(snapshot, l)
          THEN snapshot' = With(snapshot, l) /\ UNCHANGED dropped
          ELSE dropped' = dropped \cup {l} /\ UNCHANGED snapshot
    /\ UNCHANGED <<mainVars, crawlVars, poller, line, arrived, routes, clientVars>>

\* Mutation: a plan that finds nothing leaves the routes as they are.
PublishFound ==
    /\ poller = "planning" /\ reports = {}
    /\ routes' = IF Routed[snapshot.links] = <<>> THEN routes ELSE Routed[snapshot.links]
    /\ Rest
    /\ UNCHANGED <<mainVars, crawlVars, clientVars>>

\* Every report has been seen: what is planned from the snapshot replaces the
\* routes, also when it is nothing.
Publish ==
    /\ poller = "planning" /\ reports = {}
    /\ routes' = Routed[snapshot.links]
    /\ Rest
    /\ UNCHANGED <<mainVars, crawlVars, clientVars>>

PollAgain ==
    /\ poller = "sleeping" /\ poller' = "dialing"
    /\ UNCHANGED <<mainVars, crawlVars, line, arrived, reports, snapshot, dropped, routes, clientVars>>

PollStep == PollDials \/ PollFails \/ PollReceives \/ Publish \/ PollAgain
            \/ \E l \in reports : AddLink(l)

-----------------------------------------------------------------------------
\* A client's task.

Goes(c, there) == stage' = [stage EXCEPT ![c] = there]

Arrives(c) ==
    /\ main = "serving" /\ stage[c] = "away"
    /\ Goes(c, "greeting")
    /\ UNCHANGED <<mainVars, crawlVars, exchange, routes, walk, rank, asked, tried>>

\* tls::accept, for as long as the client likes.
IsAccepted(c) ==
    /\ stage[c] = "greeting"
    /\ Goes(c, IF graph THEN "asking" ELSE "dialing")
    /\ UNCHANGED <<mainVars, crawlVars, exchange, routes, walk, rank, asked, tried>>

NotAccepted(c) ==
    /\ stage[c] = "greeting"
    /\ Goes(c, "closed")
    /\ UNCHANGED <<mainVars, crawlVars, exchange, routes, walk, rank, asked, tried>>

Try(c, list, i) ==
    /\ rank' = [rank EXCEPT ![c] = i]
    /\ tried' = [tried EXCEPT ![c] = Append(@, list[i])]
    /\ Goes(c, "trying")

\* Mutation: a client that finds no routes waits for some.
ReadRoutesPatiently(c) ==
    /\ stage[c] = "asking" /\ routes # <<>>
    /\ walk' = [walk EXCEPT ![c] = routes] /\ asked' = [asked EXCEPT ![c] = routes]
    /\ Try(c, routes, 1)
    /\ UNCHANGED <<mainVars, crawlVars, exchange, routes>>

\* The routes are cloned under the read guard and the walk begins.
ReadRoutes(c) ==
    /\ stage[c] = "asking"
    /\ walk' = [walk EXCEPT ![c] = routes] /\ asked' = [asked EXCEPT ![c] = routes]
    /\ IF routes = <<>> THEN Goes(c, "fallback") /\ UNCHANGED <<rank, tried>>
                        ELSE Try(c, routes, 1)
    /\ UNCHANGED <<mainVars, crawlVars, exchange, routes>>

\* Mutation: each attempt looks up its candidate in the routes of the moment.
AttemptLooksAgain(c) ==
    /\ stage[c] = "trying"
    /\ IF rank[c] < Len(routes) THEN Try(c, routes, rank[c] + 1)
                                ELSE Goes(c, "fallback") /\ UNCHANGED <<rank, tried>>
    /\ UNCHANGED <<mainVars, crawlVars, exchange, routes, walk, asked>>

\* The attempt fails or takes longer than attempt_timeout: the next is tried,
\* and after the last the static upstream.
AttemptIsGivenUp(c) ==
    /\ stage[c] = "trying"
    /\ IF rank[c] < Len(walk[c]) THEN Try(c, walk[c], rank[c] + 1)
                                 ELSE Goes(c, "fallback") /\ UNCHANGED <<rank, tried>>
    /\ UNCHANGED <<mainVars, crawlVars, exchange, routes, walk, asked>>

\* A chain comes up, or the static upstream does, and the two are copied into
\* each other.
ComesUp(c) ==
    /\ stage[c] \in {"trying", "fallback", "dialing"}
    /\ Goes(c, "tunneling")
    /\ UNCHANGED <<mainVars, crawlVars, exchange, routes, walk, rank, asked, tried>>

\* The static upstream fails, or as a fallback takes longer than
\* attempt_timeout.  Without [graph] only the dial itself can end the wait.
StaticFails(c) ==
    /\ stage[c] \in {"fallback", "dialing"}
    /\ Goes(c, "closed")
    /\ UNCHANGED <<mainVars, crawlVars, exchange, routes, walk, rank, asked, tried>>

TunnelEnds(c) ==
    /\ stage[c] = "tunneling"
    /\ Goes(c, "closed")
    /\ UNCHANGED <<mainVars, crawlVars, exchange, routes, walk, rank, asked, tried>>

Tunnels(c) == \/ Arrives(c) \/ IsAccepted(c) \/ NotAccepted(c) \/ ReadRoutes(c)
              \/ AttemptIsGivenUp(c) \/ ComesUp(c) \/ StaticFails(c) \/ TunnelEnds(c)

-----------------------------------------------------------------------------
MainNext == Start \/ StartFails \/ FrontStops \/ RelayStops
NetworkNext == ViewChanges \/ CrawlGoes \/ CrawlComes \/ LineIsCut \/ LossIsNoticed \/ CrawlSends

FetchNext == MainNext \/ NetworkNext \/ PollStep \/ \E c \in Clients : Tunnels(c)

FetchSpec == FetchInit /\ [][FetchNext]_fetchVars

\* The loop is polled and sleeps no longer than its interval, and a Crawl that
\* runs answers.  A task that holds or awaits no more than the routes goes on;
\* attempts and the fallback have a timer.
FetchFairness ==
    /\ WF_fetchVars(PollStep) /\ WF_fetchVars(CrawlSends)
    /\ \A c \in Clients :
          /\ WF_fetchVars(ReadRoutes(c))
          /\ WF_fetchVars(AttemptIsGivenUp(c))
          /\ WF_fetchVars(stage[c] = "fallback" /\ StaticFails(c))

FetchFairSpec == FetchSpec /\ FetchFairness

-----------------------------------------------------------------------------
\* However often the routes are replaced meanwhile, a client tries the routes
\* that were shared when it asked, in their order, each once; and it falls back
\* to the static upstream only when all of those have failed.
WalksOnePlan ==
    \A c \in Clients :
        /\ Len(tried[c]) <= Len(asked[c])
        /\ \A i \in DOMAIN tried[c] : tried[c][i] = asked[c][i]
        /\ stage[c] = "fallback" => Len(tried[c]) = Len(asked[c])

Fits(nodes, links) == Cardinality(links) <= MaxLinks /\ Cardinality(nodes) <= MaxNodes

NodesOf(links) == UNION {Ends(l) : l \in links}

\* The caps hold and no more is lost to them than they ask for, in whatever
\* order the reports come: between two nodes no link is left out that would
\* still fit, however small the link that filled the snapshot.
SnapshotKeepsWhatFits ==
    /\ Fits(snapshot.nodes, snapshot.links)
    /\ snapshot.nodes = NodesOf(snapshot.links)
    /\ \A l \in dropped : l.from # l.target =>
           ~Fits(snapshot.nodes \cup Ends(l), snapshot.links \cup {l})

\* What may be planned from a view: the routes of any part of it that fits and
\* to which no link between two nodes can be added.
PlansOf(seen) ==
    {Routed[links] : links \in
        {part \in SUBSET seen :
            /\ Fits(NodesOf(part), part)
            /\ \A l \in seen \ part : l.from # l.target =>
                   ~Fits(NodesOf(part \cup {l}), part \cup {l})}}

\* Once Crawl stays up with a view that no longer changes and no connection to
\* it is lost any more, the routes come to be planned from that view and stay
\* so, whatever was lost or planned before; also when no route is left in it.
RoutesConverge ==
    \A seen \in Views :
        <>[](/\ main = "serving" /\ graph /\ crawl /\ view = seen
             /\ line \notin {"closed", "silent"})
            => <>[](routes \in PlansOf(seen))

\* "a Crawl outage does not take Fetch down with it": a client that has been
\* let in gets its tunnel or is closed, whatever Crawl, the poller, the relay
\* listener and the routes do.
OutageSparesClients ==
    \A c \in Clients : stage[c] = "asking" ~> stage[c] \in {"tunneling", "closed"}
=============================================================================

---------------------------- MODULE HeadRequest ----------------------------
(***************************************************************************)
(* One request at a Head, end to end: its host decides whether routes are  *)
(* planned (GraphRoutePolicy::evaluate), what was planned is what the      *)
(* front walks.  The planner reads the snapshot under its lock and the     *)
(* decision is a copy, so that nothing the poller lands meanwhile touches  *)
(* the request: graph and addresses stay as they were.                     *)
(***************************************************************************)
EXTENDS Planner, Front

\* A host that is mapped to no node looks at no graph.
RequestInit ==
    /\ Init /\ FrontInit
    /\ \A r \in Requests : host[r] \notin NodeMap => graph = {}

Mapped(r) == host[r] \in NodeMap

PlanFor(r) ==
    /\ serving[r] = "deciding" /\ Mapped(r)
    /\ Next
    /\ UNCHANGED frontVars

\* The policies are asked, the first with what the planner has come up with.
DecideNow(r) ==
    /\ Mapped(r) => stage = "ranked"
    /\ Decide(r, answer)
    /\ UNCHANGED vars

RequestNext ==
    \/ \E r \in Requests : PlanFor(r) \/ DecideNow(r)
    \/ FrontStep /\ UNCHANGED vars

requestVars == <<vars, frontVars>>

RequestSpec == RequestInit /\ [][RequestNext]_requestVars /\ FrontFairness

-----------------------------------------------------------------------------
Used(r) == Candidates(r)[attempt[r]]

\* A planned request goes to one of the nodes its host is mapped to, over the
\* cheapest of the routes that could be dialed but for those whose attempt
\* failed; and Head gives up for want of a connection only after an attempt at
\* every candidate.
BestThatComesUp ==
    \A r \in Requests : decision[r] # Undecided =>
        /\ decision[r].reason = "graph_route" /\ task[r] # "none" =>
             /\ Last(Used(r).hops) \in ToSet(Targets) /\ Walks(Used(r))
             /\ \A p \in ToSet(resolved) :
                  Cost(p) < Cost(Used(r)) =>
                      \E i \in failed[r] : Candidates(r)[i].hops = p.hops
        /\ NoneLeftUntried(r)
=============================================================================

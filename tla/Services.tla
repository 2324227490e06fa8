------------------------------ MODULE Services ------------------------------
(***************************************************************************)
(* The runners of one Head process (core/registry.rs run_all,              *)
(* head/runners.rs): each is a task of one JoinSet, joined as it           *)
(* completes; the first failure ends the process, and the others with it.  *)
(* A runner that is not configured returns at once, which ends nothing.    *)
(***************************************************************************)
EXTENDS Naturals

VARIABLES
    process,    \* "up", "failed" or "done"
    runner,     \* name -> what its task is doing
    joined      \* the runners whose result has been seen

serviceVars == <<process, runner, joined>>

\* As lib.rs registers them.
Registered == <<"http", "radii", "graph">>
Names == {Registered[i] : i \in DOMAIN Registered}

Optional == {"radii", "graph"}      \* without their section, nothing to run
Listeners == {"http", "radii"}      \* bind an address before they serve
Fallible == {"radii"}               \* fail once they serve, at an accept

Completed == {n \in Names : runner[n] \in {"returned", "failed"}} \ joined

ServicesInit ==
    /\ process = "up"
    /\ \E quiet \in SUBSET Optional :
          runner = [n \in Names |-> IF n \in quiet THEN "unconfigured" ELSE "spawned"]
    /\ joined = {}

Becomes(n, state) ==
    /\ process = "up"
    /\ runner' = [runner EXCEPT ![n] = state]
    /\ UNCHANGED <<process, joined>>

ReturnsAtOnce(n) == runner[n] = "unconfigured" /\ Becomes(n, "returned")
Starts(n) == runner[n] = "spawned" /\ Becomes(n, "serving")
BindFails(n) == runner[n] = "spawned" /\ n \in Listeners /\ Becomes(n, "failed")
Fails(n) == runner[n] = "serving" /\ n \in Fallible /\ Becomes(n, "failed")

\* Mutation: the runners are joined in the order they were registered.
JoinInOrder(n) ==
    /\ process = "up" /\ n \in Completed
    /\ \A i, j \in DOMAIN Registered : Registered[j] = n /\ i < j => Registered[i] \in joined
    /\ joined' = joined \cup {n}
    /\ IF runner[n] = "failed"
          THEN process' = "failed" /\ runner' = [m \in Names |-> "gone"]
          ELSE UNCHANGED <<process, runner>>

\* join_next, and what is done with the result: a failure is run_all's, and
\* dropping the set aborts the rest.
Join(n) ==
    /\ process = "up" /\ n \in Completed
    /\ joined' = joined \cup {n}
    /\ IF runner[n] = "failed"
          THEN process' = "failed" /\ runner' = [m \in Names |-> "gone"]
          ELSE UNCHANGED <<process, runner>>

\* The set is empty.
AllReturned ==
    /\ process = "up" /\ joined = Names
    /\ process' = "done"
    /\ UNCHANGED <<runner, joined>>
=============================================================================

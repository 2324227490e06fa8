----------------------------- MODULE MCPlanner -----------------------------
(***************************************************************************)
(* A source, a target and three nodes between them.  The links that may be *)
(* reported let routes tie, share roots, cost less by a longer way, run    *)
(* back to a node already visited, and need more hops than are allowed.    *)
(***************************************************************************)
EXTENDS HeadRequest

L(from, to, latency) == [from |-> from, to |-> to, protocol |-> "radii",
                         reachable |-> TRUE, latency |-> latency]

Reportable ==
    { L("s", "a", 10), L("s", "b", 10), L("a", "b", 5), L("a", "s", 5),
      L("s", "t", Unmeasured), [protocol |-> "tcp"] @@ L("a", "t", 20),
      L("b", "t", 20), L("b", "c", 1), L("c", "t", 1),
      [reachable |-> FALSE] @@ L("s", "t", 1), [protocol |-> "other"] @@ L("s", "t", 1) }

\* A host that is mapped to nodes has a backend to fall back to as well.
Statics == ("mesh" :> "b1") @@ ("static" :> "b2")

Once == <<"t">>
Several == <<"t", "b", "t", "s">>
BothProtocols == {"radii", "tcp"}
Relays == {{"a", "b", "c", "t"}, {"b", "t"}}
=============================================================================

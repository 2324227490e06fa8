------------------------------- MODULE MCFetch -------------------------------
(***************************************************************************)
(* A Fetch that can reach two targets and is told of links elsewhere.  The *)
(* snapshot has room for three links of three nodes, so that what comes    *)
(* first crowds out the rest, for want of links or of nodes; one report is *)
(* of a node about itself.                                                 *)
(***************************************************************************)
EXTENDS FetchNode, TLC

R(from, target) == [from |-> from, target |-> target]

Near == R("s", "x")
Far == R("s", "y")
Aside == R("a", "x")
Back == R("x", "s")
Own == R("y", "y")

AllViews == {{Near, Far, Aside, Back, Own}, {Far, Aside}, {Aside}}

\* The direct routes, the near target's before the far one's.
DirectRoutes == {Near, Far}
RoutesOver ==
    [links \in SUBSET UNION AllViews |->
        SelectSeq(<<Near, Far>>, LAMBDA l : l \in links)]
==============================================================================

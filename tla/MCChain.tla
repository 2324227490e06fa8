------------------------------- MODULE MCChain -------------------------------
(***************************************************************************)
(* TLC instances of Chain.                                                 *)
(***************************************************************************)
EXTENDS Chain

\* One client, three candidates that share their first relay: what an
\* abandoned attempt still holds there meets the next attempt.
SharedRelay ==
  [cl \in {"c"} |-> << <<"n1", "n2", "t">>, <<"n1", "t">>, <<"t">> >>]

\* Two clients whose chains cross each other's relays in opposite directions,
\* one of them by way of a third relay.
Crossing ==
  [cl \in {"c", "d"} |->
     IF cl = "c" THEN << <<"n1", "r", "n2">> >> ELSE << <<"n2", "n1">> >>]
===============================================================================

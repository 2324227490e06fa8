------------------------------- MODULE MCCrawl -------------------------------
(***************************************************************************)
(* TLC instances of Crawl.  With a Ttl of zero one tick of the clock ages  *)
(* a row, so that a row is fresh, aged, swept and reported again within    *)
(* two moments, and both connections can act at each of them.              *)
(***************************************************************************)
EXTENDS Crawl, TLC

\* One id whose name is too long to share a snapshot with much else.
MixedSize == [n \in Ids |-> IF n = "a" THEN 1 ELSE 2]

Symmetry == Permutations(Conns)
===============================================================================

------------------------------- MODULE MCRelay -------------------------------
(***************************************************************************)
(* TLC instances of Relay.  The full run has three connections, two        *)
(* addresses and three peers, one of them not in allow_peers.  An address  *)
(* is refused while the total has room (per-address cap one, total two),   *)
(* and the total refuses a peer that holds nothing once another holds both *)
(* chains.  The allowance run has three addresses, so that the total also  *)
(* refuses an address that holds nothing, four peers and a per-peer cap of *)
(* one.  A path bound of two yields terminal, forwarding, looping,         *)
(* misaddressed and overlong paths.                                        *)
(***************************************************************************)
EXTENDS Relay, TLC

\* For the allowance run, of an invariant alone.  Handles, addresses and
\* admitted peers are interchangeable; the peer left out of allow_peers is not.
Symmetry == Permutations(Conns) \cup Permutations(Addrs) \cup Permutations(AllowPeers)
===============================================================================

----------------------------- MODULE TunnelOpen ------------------------------
(***************************************************************************)
(* The vocabulary of a chain being opened: the Ack statuses a relay knows, *)
(* what it makes of an answer from a hop it does not trust, and the local  *)
(* checks it makes of a path before dialing (crates/fetch/src/relay.rs).   *)
(***************************************************************************)
EXTENDS Naturals, Sequences

UnknownStatus == "relay_downstream_status_unrecognised"

\* Mutation: the vocabulary as it was before admission refusals were added.
StaleAckStatuses ==
  {"tunnel_ready", "tunnel_misaddressed", "tunnel_too_long",
   "tunnel_path_loops", "tunnel_hop_unreachable",
   "relay_forwarding_unavailable", "expected_tunnel_open", UnknownStatus}

KnownAckStatuses ==
  {"tunnel_ready", "tunnel_misaddressed", "tunnel_too_long",
   "tunnel_path_loops", "tunnel_hop_unreachable",
   "relay_forwarding_unavailable", "expected_tunnel_open",
   "relay_forbidden", "relay_busy", UnknownStatus}

\* No Ack has been written.
Silence == "nothing told"

\* What a hop may send back: a status, known or not, or another frame.
Replies == KnownAckStatuses \cup {"foreign status", "not an ack"}

Sanitised(reply) == IF reply \in KnownAckStatuses THEN reply ELSE UnknownStatus

Loops(hops) == \E i, j \in 1..Len(hops) : i # j /\ hops[i] = hops[j]

\* validate: the refusal of a path by the relay `self`, or "ok".
Verdict(hops, self, maxHops) ==
  CASE Len(hops) > maxHops -> "tunnel_too_long"
    [] Len(hops) = 0       -> "tunnel_misaddressed"
    [] hops[1] # self      -> "tunnel_misaddressed"
    [] Loops(hops)         -> "tunnel_path_loops"
    [] OTHER               -> "ok"
===============================================================================

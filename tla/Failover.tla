------------------------------ MODULE Failover -------------------------------
(***************************************************************************)
(* What establishing an outbound stream promises each client, whatever     *)
(* relays lie in between (crates/fetch/src/server.rs connect_upstream, and *)
(* crates/head/src/http.rs connect_backend): candidates are tried in rank  *)
(* order and each is left for good, the first that comes up is kept for    *)
(* good, one is kept only after its target has reached its own upstream,   *)
(* and the static upstream is used only when every candidate has failed.   *)
(***************************************************************************)
EXTENDS Naturals

CONSTANTS
  Clients,
  Count,      \* client -> how many candidates it was given
  HasStatic   \* whether there is a static upstream to fall back to

VARIABLES
  trying,     \* client -> the candidate being tried; Count + 1 when none is left
  outcome,    \* client -> "none", "chain", "static" or "failed"
  reached     \* <<client, candidate>> whose target has reached its upstream

fvars == <<trying, outcome, reached>>

Outcomes == {"none", "chain", "static", "failed"}

Init ==
  /\ trying = [cl \in Clients |-> 1]
  /\ outcome = [cl \in Clients |-> "none"]
  /\ reached = {}

\* A target gets through to its upstream, possibly for an attempt the client
\* has meanwhile given up.
Reach(cl, k) ==
  /\ k <= trying[cl]
  /\ reached' = reached \cup {<<cl, k>>}
  /\ UNCHANGED <<trying, outcome>>

GiveUp(cl) ==
  /\ outcome[cl] = "none" /\ trying[cl] <= Count[cl]
  /\ trying' = [trying EXCEPT ![cl] = @ + 1]
  /\ UNCHANGED <<outcome, reached>>

Settle(cl, result) ==
  /\ outcome[cl] = "none"
  /\ outcome' = [outcome EXCEPT ![cl] = result]
  /\ UNCHANGED <<trying, reached>>

Keep(cl) == <<cl, trying[cl]>> \in reached /\ Settle(cl, "chain")
FallBack(cl) == trying[cl] > Count[cl] /\ HasStatic /\ Settle(cl, "static")
Fail(cl) == trying[cl] > Count[cl] /\ Settle(cl, "failed")

Walk(cl) == GiveUp(cl) \/ Keep(cl) \/ FallBack(cl) \/ Fail(cl)

Next == \E cl \in Clients : Walk(cl) \/ \E k \in 1..Count[cl] : Reach(cl, k)

Spec == Init /\ [][Next]_fvars
FairSpec == Spec /\ \A cl \in Clients : WF_fvars(Walk(cl))

\* No client is left waiting for ever.
Decided == \A cl \in Clients : <>(outcome[cl] # "none")
===============================================================================

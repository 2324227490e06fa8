------------------------------- MODULE SlotMap -------------------------------
(***************************************************************************)
(* The tally tables the relay keeps behind its accounting mutex: a         *)
(* HashMap<K, usize> is a function from the keys it holds to Nat, so that  *)
(* "the map has no entry for k" and "the entry for k is zero" stay two     *)
(* different states, as they are in the code.                              *)
(***************************************************************************)
EXTENDS Naturals

\* The empty HashMap.
NoEntries == [k \in {} |-> 0]

\* A table whose keys are drawn from K.
IsTableOver(m, K) == DOMAIN m \subseteq K /\ m \in [DOMAIN m -> Nat]

\* What a lookup contributes to a comparison: an absent key counts as zero.
Tally(m, k) == IF k \in DOMAIN m THEN m[k] ELSE 0

Store(m, k, n) == [j \in DOMAIN m \cup {k} |-> IF j = k THEN n ELSE m[j]]

Erase(m, k) == [j \in DOMAIN m \ {k} |-> m[j]]

\* entry(k).or_insert(0): looking at an absent key leaves a zero behind.
Touch(m, k) == Store(m, k, Tally(m, k))

\* entry(k).or_insert(0) followed by += 1.
Charge(m, k) == Store(m, k, Tally(m, k) + 1)

\* usize::saturating_sub(1).
Decrement(n) == IF n = 0 THEN 0 ELSE n - 1

\* Mutation: the entry is left behind when it reaches zero.
ReleaseLeavesZero(m, k) == IF k \in DOMAIN m THEN Store(m, k, Decrement(m[k])) ELSE m

\* get_mut(k), saturating_sub(1), and removal of an entry that reached zero.
Release(m, k) ==
  IF k \notin DOMAIN m THEN m
  ELSE IF Decrement(m[k]) = 0 THEN Erase(m, k)
  ELSE Store(m, k, Decrement(m[k]))
===============================================================================

----------------------------- MODULE MCWithdrawals -----------------------------
(* Instances of Withdrawals for model checking. *)
EXTENDS Withdrawals, TLC

CONSTANTS p1, p2, r1, r2, ann, own, other

Symmetry == Permutations(Procs) \cup Permutations(Requests)

(* One member's earnings, the last under another brand. *)
Owners  == [e \in 1 .. 3 |-> ann]
Amounts == (1 :> 1) @@ (2 :> 2) @@ (3 :> 1)
Brands  == (1 :> own) @@ (2 :> own) @@ (3 :> other)

OneOwner  == [e \in {1} |-> ann]
OneAmount == [e \in {1} |-> 1]
OneBrand  == [e \in {1} |-> own]
TwoOwners  == [e \in 1 .. 2 |-> ann]
TwoAmounts == [e \in 1 .. 2 |-> e]
TwoBrands  == [e \in 1 .. 2 |-> own]
==============================================================================

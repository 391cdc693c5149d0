------------------------------ MODULE MCRegistry ------------------------------
(* Instances of Registry for model checking. *)
EXTENDS Registry, TLC

CONSTANTS w1, w2, l1, l2

Symmetry == Permutations(Workers)

(* Every event on one lane, or the last one on a lane of its own. *)
OneLane == [e \in Events |-> l1]
LastApart == [e \in Events |-> IF e = N THEN l2 ELSE l1]

(* Every type handled, or all but the last event's. *)
AllHandled == Events
LastUnhandled == Events \ {N}

(* No idempotency key used twice, or the last two events under one. *)
DistinctKeys == [e \in Events |-> e]
LastKeyShared == [e \in Events |-> IF e = N THEN N - 1 ELSE e]
==============================================================================

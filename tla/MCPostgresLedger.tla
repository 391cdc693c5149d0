--------------------------- MODULE MCPostgresLedger ---------------------------
(* Instances of PostgresLedger for model checking. *)
EXTENDS PostgresLedger, TLC

CONSTANTS p1, p2, p3, k1, k2, k3, confirmed, reserved, house

ProcSymmetry == Permutations(Procs)

Ids == (confirmed :> 1) @@ (reserved :> 2)

Move(from, to, n) == [a \in {confirmed, reserved, house} |->
                        IF a = from THEN -n ELSE IF a = to THEN n ELSE 0]

(* A credit, a reservation, its release, and a transfer that mints money. *)
Reservations ==
    { Move(house, confirmed, 1), Move(confirmed, reserved, 1),
      Move(reserved, confirmed, 1),
      [a \in {confirmed, reserved, house} |-> IF a = confirmed THEN 1 ELSE 0] }
==============================================================================

----------------------------- MODULE MCBlnkLedger -----------------------------
(* Instances of BlnkLedger for model checking. *)
EXTENDS BlnkLedger, TLC

CONSTANTS c1, c2, i1, i2, k1, k2, k3, confirmed, reserved, funding, remainder

TwoProcesses == (c1 :> i1) @@ (c2 :> i2)

(* The two processes, each with its caller, are interchangeable. *)
Swap == {p \in Permutations({c1, c2, i1, i2}) :
            \A c \in {c1, c2} : p[c] \in {c1, c2} /\ p[TwoProcesses[c]] = TwoProcesses[p[c]]}

T(x, y, f, r) == (confirmed :> x) @@ (reserved :> y) @@ (funding :> f) @@ (remainder :> r)

(* A rounded credit (a split), a reservation, a member and the house giving *)
(* together, and a transfer split on both sides.                            *)
Credit  == T(1, 0, -2, 1)
Reserve == T(-1, 1, 0, 0)
Mixed   == T(-1, 2, 0, -1)
Crossed == T(-1, 1, -1, 1)

Movements == {Credit, Reserve, Mixed, Crossed}
Asked == {<<k1, Credit>>, <<k2, Reserve>>, <<k2, Mixed>>, <<k3, Reserve>>, <<k3, Crossed>>}
==============================================================================

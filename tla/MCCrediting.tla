------------------------------ MODULE MCCrediting ------------------------------
(* Instances of Crediting for model checking. *)
EXTENDS Crediting, TLC

CONSTANTS s1, s2, c1, c2, ann, w1, w2, op

(* The first purchase is restated once, the second never. *)
Once == [p \in Purchases |-> IF p = s1 THEN 2 ELSE 1]

(* A restatement changes the amount. *)
Amounts == [r \in Reports |-> r[2]]
AllPayable == Reports

(* A statement pays what the second report says of the first purchase, and *)
(* leaves the other out; or leaves everything out.                         *)
OneStatement == {[p \in Purchases |-> IF p = s1 THEN 2 ELSE 0]}
Unpaid == {[p \in Purchases |-> 0]}

(* Every click by one member. *)
Ann == [k \in Clicks |-> ann]

(* Each purchase names its own click, or may lose it. *)
Own == (s1 :> {c1}) @@ (s2 :> {c2})
OwnOrLost == (s1 :> {c1, NoClick})
==============================================================================

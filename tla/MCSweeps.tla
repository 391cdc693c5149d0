------------------------------- MODULE MCSweeps -------------------------------
(* Instances of Sweeps for model checking. *)
EXTENDS Sweeps, TLC

CONSTANTS s1, s2, s3, f1, f2, p1, p2

(* One purchase inside the first window, two at its end. *)
Made == (s1 :> 1) @@ (s2 :> 2) @@ (s3 :> 2)
==============================================================================

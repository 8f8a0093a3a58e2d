----------------------------- MODULE MCSessions -----------------------------
(* Small instances of Sessions for TLC. *)
EXTENDS Sessions, TLC

(* The requests are interchangeable: no action or safety property names    *)
(* one of them.                                                            *)
RequestSymmetry == Permutations(Requests)
=============================================================================

------------------------------- MODULE MCSudo -------------------------------
(* Small instances of Sudo for TLC. *)
EXTENDS Sudo, TLC

(* Bounds: one failure in all, of a handler or of a take; and when it is a *)
(* handler's, one call in flight from then on, and no grant shared before. *)
MaxFailures   == 1
MaxAfterDeath == 1

Bounded ==
    /\ faults + Cardinality(kept) <= MaxFailures
    /\ faults # 0 =>
          /\ shared = {}
          /\ Cardinality({c \in Calls : callPc[c] # "idle"}) <= MaxAfterDeath

BoundedSudo == SudoInit /\ [][SudoNext /\ Bounded']_allVars

(* Requests are interchangeable, and so are calls. *)
SudoSymmetry == Permutations(Requests) \cup Permutations(Calls)
=============================================================================

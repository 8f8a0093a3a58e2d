--------------------------- MODULE MCAuditPipeline ---------------------------
(* Small instances of AuditPipeline for TLC. *)
EXTENDS AuditPipeline

(* Bounds: rows recorded in a behaviour with an import, and faults in one  *)
(* without: the attempts of a job run out with the import.                 *)
MaxBeside  == 1
MaxWithout == 1
Bounded ==
    /\ imported => Cardinality({r \in Rows : stage[r] # "new"}) <= MaxBeside
    /\ ~imported => faults <= MaxWithout

BoundedSpec == Init /\ [][Next /\ Bounded']_vars /\ Fairness
=============================================================================

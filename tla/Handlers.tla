------------------------------- MODULE Handlers -------------------------------
(***************************************************************************)
(* What the handlers of this program have in common.  A request is served  *)
(* by one async function.  Between two awaits it runs alone; at an await   *)
(* every other handler, of this instance or another one, may run.  pc      *)
(* names the await a handler performs next.  A handler ends by returning   *)
(* or throwing, and may die at any await; neither undoes what it has done. *)
(***************************************************************************)
EXTENDS Naturals, FiniteSets

CONSTANTS Requests,   \* handlers that can be in flight at once
          MaxFaults   \* bound: handlers that die in the middle

ASSUME HandlersAssumption == IsFiniteSet(Requests) /\ MaxFaults \in Nat

VARIABLES pc,       \* the await each handler performs next
          faults    \* handlers that died so far

HandlersInit ==
    /\ pc = [r \in Requests |-> "idle"]
    /\ faults = 0

(* Handlers that are at one of the labels. *)
At(labels)        == {r \in Requests : pc[r] \in labels}
OthersAt(r, labels) == At(labels) \ {r}
Quiet             == \A r \in Requests : pc[r] = "idle"

Goto(r, from, to) ==
    /\ pc[r] = from
    /\ pc' = [pc EXCEPT ![r] = to]

(* The promise of an await is rejected, or the process stops. *)
Die(r) ==
    /\ pc[r] # "idle"
    /\ faults < MaxFaults
    /\ faults' = faults + 1
    /\ pc' = [pc EXCEPT ![r] = "idle"]
===============================================================================

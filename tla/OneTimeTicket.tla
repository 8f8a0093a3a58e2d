---------------------------- MODULE OneTimeTicket ----------------------------
(***************************************************************************)
(* What a one-time secret promises: a ticket is issued once, claimed by at *)
(* most one handler, and serves at most once.  Issuing one may void others *)
(* of its kind; a claim may come to nothing.                               *)
(***************************************************************************)
EXTENDS Naturals

CONSTANT Ticket

VARIABLES state,    \* of each ticket
          served    \* how often each ticket has opened something

State == {"unissued", "open", "claimed", "served", "void"}

In(states) == {t \in Ticket : state[t] \in states}

Init ==
    /\ state = [t \in Ticket |-> "unissued"]
    /\ served = [t \in Ticket |-> 0]

Issue(t, old) ==
    /\ state[t] = "unissued"
    /\ state' = [u \in Ticket |-> IF u = t THEN "open"
                                  ELSE IF u \in old THEN "void" ELSE state[u]]
    /\ UNCHANGED served

Claim(t) ==
    /\ state[t] = "open"
    /\ state' = [state EXCEPT ![t] = "claimed"]
    /\ UNCHANGED served

Serve(t) ==
    /\ state[t] = "claimed"
    /\ state' = [state EXCEPT ![t] = "served"]
    /\ served' = [served EXCEPT ![t] = @ + 1]

Void(old) ==
    /\ state' = [t \in Ticket |-> IF t \in old THEN "void" ELSE state[t]]
    /\ UNCHANGED served

Next ==
    \/ \E old \in SUBSET In({"open", "claimed"}) :
          Void(old) \/ \E t \in Ticket : Issue(t, old)
    \/ \E t \in Ticket : Claim(t) \/ Serve(t)

Spec == Init /\ [][Next]_<<state, served>>
===============================================================================

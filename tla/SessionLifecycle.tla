-------------------------- MODULE SessionLifecycle --------------------------
(***************************************************************************)
(* What the session table promises, free of requests, caches and clocks:  *)
(* a session is opened once, may be retired once, and never comes back; a  *)
(* session that replaces another one is opened only after the one it       *)
(* replaces has been retired.                                              *)
(***************************************************************************)
CONSTANTS Session,    \* the identities a session row can have
          NoSession   \* "opened by a login, replaces nothing"

VARIABLES rows,       \* the life of every session: "none", "live", "revoked"
          parent      \* the session each session replaced, or NoSession

vars == <<rows, parent>>

Init ==
    /\ rows = [s \in Session |-> "none"]
    /\ parent = [s \in Session |-> NoSession]

(* A login, a sign-up or a second factor opens a session of its own. *)
Open(s) ==
    /\ rows[s] = "none"
    /\ rows' = [rows EXCEPT ![s] = "live"]
    /\ UNCHANGED parent

(* A refresh opens s in the place of t, which is already retired. *)
Succeed(t, s) ==
    /\ rows[s] = "none"
    /\ rows[t] = "revoked"
    /\ rows' = [rows EXCEPT ![s] = "live"]
    /\ parent' = [parent EXCEPT ![s] = t]

(* A log-out, a rotation or a sweep retires live sessions. *)
Retire(S) ==
    /\ \A s \in S : rows[s] = "live"
    /\ rows' = [s \in Session |-> IF s \in S THEN "revoked" ELSE rows[s]]
    /\ UNCHANGED parent

Next ==
    \/ \E s \in Session : Open(s)
    \/ \E s, t \in Session : Succeed(t, s)
    \/ \E S \in SUBSET Session : Retire(S)

Spec == Init /\ [][Next]_vars
=============================================================================

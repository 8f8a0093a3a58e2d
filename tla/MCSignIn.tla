------------------------------- MODULE MCSignIn -------------------------------
(***************************************************************************)
(* One instance for the three modules about signing in.  Their handlers    *)
(* share no row and no key: the points where one continues in another (a   *)
(* login that leaves a challenge, a reset that stores a password) are in   *)
(* both modules.  A behaviour therefore is one of one module, chosen in    *)
(* the initial state, while the others stay as they were initialised.      *)
(***************************************************************************)
EXTENDS Login, PasswordReset, TwoFactor, TLC

VARIABLE component

SignInInit ==
    /\ component \in {"login", "reset", "factor"}
    /\ LoginInit /\ ResetInit /\ FactorInit

SignInNext ==
    /\ UNCHANGED component
    /\ \/ component = "login"  /\ LoginNext  /\ UNCHANGED <<resetVars, factorVars>>
       \/ component = "reset"  /\ ResetNext  /\ UNCHANGED <<loginVars, factorVars>>
       \/ component = "factor" /\ FactorNext /\ UNCHANGED <<loginVars, resetVars>>

SignInSpec ==
    SignInInit /\ [][SignInNext]_<<component, pc, faults, loginVars, resetVars, factorVars>>

(* One type invariant for the three: pc belongs to the chosen module. *)
SignInTypeOK ==
    CASE component = "login"  -> LoginTypeOK
      [] component = "reset"  -> ResetTypeOK
      [] component = "factor" -> FactorTypeOK

RequestSymmetry == Permutations(Requests)
===============================================================================

------------------------------ MODULE MCRecords ------------------------------
(***************************************************************************)
(* One instance for the modules about rows that need no session: accounts, *)
(* files, push tokens, pages.  They share no table, so a behaviour is one  *)
(* of one module, chosen in the initial state, while the others stay as    *)
(* they were initialised.                                                  *)
(***************************************************************************)
EXTENDS Accounts, Files, PushTokens, Pagination, TLC

VARIABLE component

RecordsInit ==
    /\ component \in {"accounts", "files", "push", "pages"}
    /\ AccountsInit /\ FilesInit /\ PushInit /\ PageInit

RecordsNext ==
    /\ UNCHANGED component
    /\ \/ /\ component = "accounts" /\ AccountsNext
          /\ UNCHANGED <<fileVars, pushVars, pageVars>>
       \/ /\ component = "files" /\ FilesNext
          /\ UNCHANGED <<accountVars, pushVars, pageVars>>
       \/ /\ component = "push" /\ PushNext
          /\ UNCHANGED <<accountVars, fileVars, pageVars>>
       \/ /\ component = "pages" /\ PageNext
          /\ UNCHANGED <<pc, faults, accountVars, fileVars, pushVars>>

RecordsSpec ==
    RecordsInit /\ [][RecordsNext]_<<component, pc, faults, accountVars, fileVars,
                                     pushVars, pageVars>>

(* One type invariant for the four: pc belongs to the chosen module. *)
RecordsTypeOK ==
    CASE component = "accounts" -> AccountsTypeOK
      [] component = "files"    -> FilesTypeOK
      [] component = "push"     -> PushTypeOK
      [] component = "pages"    -> PageTypeOK

RecordSymmetry == Permutations(Requests) \cup Permutations(Users) \cup Permutations(Emails)
===============================================================================

---------------------------- MODULE PasswordReset ----------------------------
(***************************************************************************)
(* PasswordResetService for one user: the pickers password-reset:{id} that *)
(* a forgot call opens, the index password-reset-user that names one of    *)
(* them, and the reset code and link, which belong to the user and not to  *)
(* a picker.  What a reset does to hash and sessions is in Login.          *)
(***************************************************************************)
EXTENDS Handlers

CONSTANT MaxPickers   \* bound: forgot calls

ASSUME PickersAssumption == MaxPickers \in Nat

Picker == 1..MaxPickers

VARIABLES
    pickers,     \* Redis password-reset:{id}; "sent" once otpChannel is set
    pickerOf,    \* Redis password-reset-user: a picker, 0 when absent
    resetOtp,    \* whether a reset code and link are live
    asked,       \* forgot calls that found an account
    target,      \* local: the picker the handler works on
    doomed,      \* history: pickers asked for before a reset completed
    hidden,      \* history: pickers whose index entry was overwritten
    crossed      \* history: pickers written while a reset was in flight

pickerKeys  == <<pickers, pickerOf, resetOtp>>
resetVars   == <<pickerKeys, asked, target, doomed, hidden, crossed>>

Picking   == {"setPicker", "setIndex", "issueOtp", "rewrite"}
Resetting == {"destroyOtp", "apply", "takeIndex", "deletePicker"}

ResetTypeOK ==
    /\ pc \in [Requests -> Picking \cup Resetting \cup {"idle"}]
    /\ faults \in 0..MaxFaults
    /\ pickers \in [Picker -> {"none", "open", "sent"}]
    /\ pickerOf \in 0..MaxPickers /\ asked \in 0..MaxPickers
    /\ resetOtp \in BOOLEAN
    /\ target \in [Requests -> 0..MaxPickers]
    /\ \A r \in At(Picking \cup {"deletePicker"}) : target[r] \in 1..asked
    /\ doomed \subseteq Picker /\ hidden \subseteq Picker /\ crossed \subseteq Picker

ResetInit ==
    /\ HandlersInit
    /\ pickers = [p \in Picker |-> "none"] /\ pickerOf = 0 /\ resetOtp = FALSE
    /\ asked = 0
    /\ target = [r \in Requests |-> 0]
    /\ doomed = {} /\ hidden = {} /\ crossed = {}

ResetEnds(r, from) ==
    /\ Goto(r, from, "idle")
    /\ target' = [target EXCEPT ![r] = 0]

(* A write of p beside a reset: neither knows which comes first. *)
Crossing(p) == IF At(Resetting) # {} THEN crossed \cup {p} ELSE crossed

-------------------------------------------------------------------------------
(* forgot and send *)

(* The verified identifiers become the channels of a new picker.  Without  *)
(* an account, a password or a verified identifier nothing is stored.      *)
Forgot(r) ==
    /\ asked < MaxPickers
    /\ Goto(r, "idle", "setPicker")
    /\ asked' = asked + 1
    /\ target' = [target EXCEPT ![r] = asked + 1]
    /\ UNCHANGED <<pickerKeys, doomed, hidden, crossed, faults>>

SetPicker(r) ==
    /\ Goto(r, "setPicker", "setIndex")
    /\ pickers' = [pickers EXCEPT ![target[r]] = "open"]
    /\ crossed' = Crossing(target[r])
    /\ UNCHANGED <<pickerOf, resetOtp, asked, target, doomed, hidden, faults>>

SetPickerIndex(r) ==
    /\ ResetEnds(r, "setIndex")
    /\ pickerOf' = target[r]
    /\ hidden' = hidden \cup ({pickerOf} \ {0, target[r]})
    /\ crossed' = Crossing(target[r])
    /\ UNCHANGED <<pickers, resetOtp, asked, doomed, faults>>

Send(r, p) ==
    /\ pickers[p] # "none"
    /\ Goto(r, "idle", "issueOtp")
    /\ target' = [target EXCEPT ![r] = p]
    /\ UNCHANGED <<pickerKeys, asked, doomed, hidden, crossed, faults>>

(* OtpSessionService.issue sends, or refuses within cooldown and window.   *)
IssueOtp(r) ==
    /\ Goto(r, "issueOtp", "rewrite")
    /\ resetOtp' = TRUE
    /\ UNCHANGED <<pickers, pickerOf, asked, target, doomed, hidden, crossed, faults>>

IssueOtpRefused(r) ==
    /\ ResetEnds(r, "issueOtp")
    /\ UNCHANGED <<pickerKeys, asked, doomed, hidden, crossed, faults>>

(* The record that was read is written back, with the channel, whatever    *)
(* has become of it; the index follows.                                    *)
RewritePicker(r) ==
    /\ Goto(r, "rewrite", "setIndex")
    /\ pickers' = [pickers EXCEPT ![target[r]] = "sent"]
    /\ crossed' = Crossing(target[r])
    /\ UNCHANGED <<pickerOf, resetOtp, asked, target, doomed, hidden, faults>>

-------------------------------------------------------------------------------
(* resetByOtp and reset *)

(* The picker names the channel of the code; wrong codes are OtpSession's. *)
ResetByOtp(r, p) ==
    /\ pickers[p] = "sent" /\ resetOtp
    /\ Goto(r, "idle", "destroyOtp")
    /\ UNCHANGED <<resetVars, faults>>

(* The link needs no picker. *)
ResetByToken(r) ==
    /\ resetOtp
    /\ Goto(r, "idle", "destroyOtp")
    /\ UNCHANGED <<resetVars, faults>>

DestroyOtp(r) ==
    /\ Goto(r, "destroyOtp", "apply")
    /\ resetOtp' = FALSE
    /\ UNCHANGED <<pickers, pickerOf, asked, target, doomed, hidden, crossed, faults>>

(* updatePasswordHash and revokeAllForUser *)
ApplyPassword(r) ==
    /\ Goto(r, "apply", "takeIndex")
    /\ UNCHANGED <<resetVars, faults>>

(* What a reset leaves open when it returns. *)
ResetCompletes(r) ==
    /\ doomed' = doomed \cup 1..asked
    /\ crossed' = crossed \cup {target[q] : q \in OthersAt(r, Picking)}

(* Bug: a reset takes the index entry and leaves the picker. *)
BugTakeIndexOnly(r) ==
    /\ ResetEnds(r, "takeIndex")
    /\ pickerOf' = 0
    /\ ResetCompletes(r)
    /\ UNCHANGED <<pickers, resetOtp, asked, hidden, faults>>

TakeIndex(r) ==
    /\ pickerOf # 0
    /\ Goto(r, "takeIndex", "deletePicker")
    /\ target' = [target EXCEPT ![r] = pickerOf]
    /\ pickerOf' = 0
    /\ UNCHANGED <<pickers, resetOtp, asked, doomed, hidden, crossed, faults>>

NoIndex(r) ==
    /\ pickerOf = 0
    /\ ResetEnds(r, "takeIndex")
    /\ ResetCompletes(r)
    /\ UNCHANGED <<pickerKeys, asked, hidden, faults>>

DeletePicker(r) ==
    /\ ResetEnds(r, "deletePicker")
    /\ pickers' = [pickers EXCEPT ![target[r]] = "none"]
    /\ ResetCompletes(r)
    /\ UNCHANGED <<pickerOf, resetOtp, asked, hidden, faults>>

-------------------------------------------------------------------------------
(* Redis drops a key whose TTL is over.  The index was written after its   *)
(* picker and with the same TTL; an entry of a picker that is gone is as   *)
(* good as none.                                                           *)
ExpirePicker(p) ==
    /\ pickers[p] # "none"
    /\ pickers' = [pickers EXCEPT ![p] = "none"]
    /\ pickerOf' = IF pickerOf = p THEN 0 ELSE pickerOf
    /\ UNCHANGED <<pc, faults, resetOtp, asked, target, doomed, hidden, crossed>>

ExpireResetOtp ==
    /\ resetOtp
    /\ resetOtp' = FALSE
    /\ UNCHANGED <<pc, faults, pickers, pickerOf, asked, target, doomed, hidden, crossed>>

ResetDies(r) ==
    /\ Die(r)
    /\ target' = [target EXCEPT ![r] = 0]
    /\ crossed' = crossed \cup ({target[r]} \ {0})
    /\ UNCHANGED <<pickerKeys, asked, doomed, hidden>>

ResetStep(r) ==
    \/ Forgot(r) \/ SetPicker(r) \/ SetPickerIndex(r)
    \/ \E p \in Picker : Send(r, p) \/ ResetByOtp(r, p)
    \/ IssueOtp(r) \/ IssueOtpRefused(r) \/ RewritePicker(r)
    \/ ResetByToken(r) \/ DestroyOtp(r) \/ ApplyPassword(r)
    \/ TakeIndex(r) \/ NoIndex(r) \/ DeletePicker(r)
    \/ ResetDies(r)

ResetNext ==
    \/ \E r \in Requests : ResetStep(r)
    \/ ExpireResetOtp
    \/ \E p \in Picker : ExpirePicker(p)

ResetSpec == ResetInit /\ [][ResetNext]_<<pc, faults, resetVars>>

-------------------------------------------------------------------------------
(* A picker asked for before a reset has completed is closed by it, and    *)
(* stays closed, unless another picker took its place in the index, or it  *)
(* was written beside a reset, or a handler died over it: the index names  *)
(* the one picker a reset can reach.                                       *)
PickersDieWithReset ==
    At({"deletePicker"}) = {}
        => \A p \in doomed : pickers[p] = "none" \/ p \in hidden \cup crossed

===============================================================================

----------------------------- MODULE SignInProofs -----------------------------
(***************************************************************************)
(* Theorems about PasswordReset and Login, for any requests and any        *)
(* bounds: which pickers a reset closes, what the fail counter counts, and *)
(* which sessions outlive a password.  And about MCSignIn: a behaviour of  *)
(* the instance is one of the module it has chosen, TwoFactor among them.  *)
(***************************************************************************)
EXTENDS MCSignIn, TwoFactorProofs

-------------------------------------------------------------------------------
(* PasswordReset: the inductive invariant. *)

(* Whatever names a picker names one that was asked for. *)
PickersAreAsked ==
    /\ \A p \in Picker : pickers[p] # "none" => p \in 1..asked
    /\ pickerOf \in 0..asked
    /\ doomed \subseteq 1..asked

(* A reset that holds p closes it, and p is excepted when it dies. *)
Closing(p) == \E r \in Requests : pc[r] = "deletePicker" /\ target[r] = p
Excepted(p) == p \in hidden \cup crossed \/ Closing(p)

(* A picker that is open is in the index, or about to be. *)
OpenIsIndexed ==
    \A p \in Picker : pickers[p] # "none" =>
        \/ Excepted(p) \/ pickerOf = p
        \/ \E r \in Requests : pc[r] = "setIndex" /\ target[r] = p

(* What is indexed again behind a reset's back was written beside it. *)
IndexedIsCrossed ==
    (\E r \in Requests : pc[r] = "deletePicker") => pickerOf \in {0} \cup crossed

DoomedIsClosed == \A p \in doomed : pickers[p] = "none" \/ Excepted(p)

(* A handler that is going to write a doomed picker is known for it. *)
DoomedIsRead ==
    \A r \in Requests : pc[r] \in Picking /\ target[r] \in doomed => Excepted(target[r])

ResetInv ==
    /\ ResetTypeOK /\ PickersAreAsked /\ OpenIsIndexed /\ IndexedIsCrossed
    /\ DoomedIsClosed /\ DoomedIsRead

LEMMA ResetInitInv == ResetInit => ResetInv
<1> SUFFICES ASSUME ResetInit PROVE ResetInv
  OBVIOUS
<1> USE PickersAssumption, HandlersAssumption DEF ResetInit, HandlersInit
<1>1. At(Picking \cup {"deletePicker"}) = {}
  BY DEF At, Picking
<1>2. ResetTypeOK
  <2>1. pc \in [Requests -> Picking \cup Resetting \cup {"idle"}]
    OBVIOUS
  <2>2. faults \in 0..MaxFaults /\ pickers \in [Picker -> {"none", "open", "sent"}]
    OBVIOUS
  <2>3. pickerOf \in 0..MaxPickers /\ asked \in 0..MaxPickers
    OBVIOUS
  <2>4. target \in [Requests -> 0..MaxPickers]
    OBVIOUS
  <2>5. resetOtp \in BOOLEAN
    OBVIOUS
  <2>6. doomed \subseteq Picker /\ hidden \subseteq Picker /\ crossed \subseteq Picker
    OBVIOUS
  <2>7. QED
    BY <1>1, <2>1, <2>2, <2>3, <2>4, <2>5, <2>6 DEF ResetTypeOK
<1>3. PickersAreAsked /\ OpenIsIndexed /\ DoomedIsClosed
  BY DEF PickersAreAsked, OpenIsIndexed, DoomedIsClosed
<1>4. IndexedIsCrossed /\ DoomedIsRead
  BY DEF IndexedIsCrossed, DoomedIsRead, Picking
<1>5. QED
  BY <1>2, <1>3, <1>4 DEF ResetInv

LEMMA CrossingGrows ==
    ASSUME crossed \subseteq Picker, NEW p \in Picker
    PROVE  /\ Crossing(p) \subseteq Picker /\ crossed \subseteq Crossing(p)
           /\ At(Resetting) # {} => p \in Crossing(p)
  BY DEF Crossing

(* One step for each conjunct that an action can disturb. *)
LEMMA ResetStepInv == ResetInv /\ [ResetNext]_<<pc, faults, resetVars>> => ResetInv'
<1> USE PickersAssumption, HandlersAssumption
    DEF ResetInv, ResetTypeOK, PickersAreAsked, Picking, Resetting, Picker, At,
        Goto, ResetEnds, pickerKeys, resetVars
<1> SUFFICES ASSUME ResetInv, [ResetNext]_<<pc, faults, resetVars>>
             PROVE  ResetInv'
  OBVIOUS
<1>1. ASSUME NEW r \in Requests, Forgot(r)
      PROVE  ResetInv'
  <2>1. ResetTypeOK'
    BY <1>1 DEF Forgot
  <2>2. PickersAreAsked'
    BY <1>1 DEF Forgot
  <2>3. OpenIsIndexed'
    BY <1>1 DEF Forgot, OpenIsIndexed, Closing, Excepted
  <2>4. IndexedIsCrossed'
    BY <1>1 DEF Forgot, IndexedIsCrossed, Closing, Excepted
  <2>5. DoomedIsClosed'
    BY <1>1 DEF Forgot, DoomedIsClosed, Closing, Excepted
  <2>6. DoomedIsRead'
    BY <1>1 DEF Forgot, DoomedIsRead, Closing, Excepted
  <2>7. QED
    BY <2>1, <2>2, <2>3, <2>4, <2>5, <2>6
<1>2. ASSUME NEW r \in Requests, SetPicker(r)
      PROVE  ResetInv'
  <2>1. ResetTypeOK'
    BY <1>2, CrossingGrows DEF SetPicker
  <2>2. PickersAreAsked'
    BY <1>2, CrossingGrows DEF SetPicker
  <2>3. OpenIsIndexed'
    BY <1>2, CrossingGrows DEF SetPicker, OpenIsIndexed, Closing, Excepted
  <2>4. IndexedIsCrossed'
    BY <1>2, CrossingGrows DEF SetPicker, IndexedIsCrossed, Closing, Excepted
  <2>5. DoomedIsClosed'
    BY <1>2, CrossingGrows DEF SetPicker, DoomedIsClosed, DoomedIsRead, Closing, Excepted
  <2>6. DoomedIsRead'
    BY <1>2, CrossingGrows DEF SetPicker, DoomedIsRead, Closing, Excepted
  <2>7. QED
    BY <2>1, <2>2, <2>3, <2>4, <2>5, <2>6
<1>3. ASSUME NEW r \in Requests, SetPickerIndex(r)
      PROVE  ResetInv'
  <2>1. ResetTypeOK'
    <3>1. target[r] \in Picker /\ {pickerOf} \ {0, target[r]} \subseteq Picker
      BY <1>3 DEF SetPickerIndex
    <3>2. hidden' \subseteq Picker /\ crossed' \subseteq Picker
      BY <1>3, <3>1, CrossingGrows DEF SetPickerIndex
    <3>3. QED
      BY <1>3, <3>2 DEF SetPickerIndex
  <2>2. PickersAreAsked'
    BY <1>3, CrossingGrows DEF SetPickerIndex
  <2>3. OpenIsIndexed'
    BY <1>3, CrossingGrows DEF SetPickerIndex, OpenIsIndexed, Closing, Excepted
  <2>4. IndexedIsCrossed'
    BY <1>3, CrossingGrows DEF SetPickerIndex, IndexedIsCrossed, Closing, Excepted
  <2>5. DoomedIsClosed'
    BY <1>3, CrossingGrows DEF SetPickerIndex, DoomedIsClosed, Closing, Excepted
  <2>6. DoomedIsRead'
    BY <1>3, CrossingGrows DEF SetPickerIndex, DoomedIsRead, Closing, Excepted
  <2>7. QED
    BY <2>1, <2>2, <2>3, <2>4, <2>5, <2>6
<1>4. ASSUME NEW r \in Requests, NEW p \in Picker, Send(r, p)
      PROVE  ResetInv'
  <2>1. ResetTypeOK'
    BY <1>4 DEF Send
  <2>2. PickersAreAsked'
    BY <1>4 DEF Send
  <2>3. OpenIsIndexed'
    BY <1>4 DEF Send, OpenIsIndexed, Closing, Excepted
  <2>4. IndexedIsCrossed'
    BY <1>4 DEF Send, IndexedIsCrossed, Closing, Excepted
  <2>5. DoomedIsClosed'
    BY <1>4 DEF Send, DoomedIsClosed, Closing, Excepted
  <2>6. DoomedIsRead'
    <3>1. \A x \in doomed : Excepted(x) => Excepted(x)'
      BY <1>4 DEF Send, Closing, Excepted
    <3>2. p \in doomed => Excepted(p)
      BY <1>4 DEF Send, DoomedIsClosed
    <3>3. QED
      BY <1>4, <3>1, <3>2 DEF Send, DoomedIsRead
  <2>7. QED
    BY <2>1, <2>2, <2>3, <2>4, <2>5, <2>6
<1>5. ASSUME NEW r \in Requests, IssueOtp(r)
      PROVE  ResetInv'
  <2>1. ResetTypeOK'
    BY <1>5 DEF IssueOtp
  <2>2. PickersAreAsked'
    BY <1>5 DEF IssueOtp
  <2>3. OpenIsIndexed'
    BY <1>5 DEF IssueOtp, OpenIsIndexed, Closing, Excepted
  <2>4. IndexedIsCrossed'
    BY <1>5 DEF IssueOtp, IndexedIsCrossed, Closing, Excepted
  <2>5. DoomedIsClosed'
    BY <1>5 DEF IssueOtp, DoomedIsClosed, Closing, Excepted
  <2>6. DoomedIsRead'
    BY <1>5 DEF IssueOtp, DoomedIsRead, Closing, Excepted
  <2>7. QED
    BY <2>1, <2>2, <2>3, <2>4, <2>5, <2>6
<1>6. ASSUME NEW r \in Requests, IssueOtpRefused(r)
      PROVE  ResetInv'
  <2>1. ResetTypeOK'
    BY <1>6 DEF IssueOtpRefused
  <2>2. PickersAreAsked'
    BY <1>6 DEF IssueOtpRefused
  <2>3. OpenIsIndexed'
    BY <1>6 DEF IssueOtpRefused, OpenIsIndexed, Closing, Excepted
  <2>4. IndexedIsCrossed'
    BY <1>6 DEF IssueOtpRefused, IndexedIsCrossed, Closing, Excepted
  <2>5. DoomedIsClosed'
    BY <1>6 DEF IssueOtpRefused, DoomedIsClosed, Closing, Excepted
  <2>6. DoomedIsRead'
    BY <1>6 DEF IssueOtpRefused, DoomedIsRead, Closing, Excepted
  <2>7. QED
    BY <2>1, <2>2, <2>3, <2>4, <2>5, <2>6
<1>7. ASSUME NEW r \in Requests, RewritePicker(r)
      PROVE  ResetInv'
  <2>1. ResetTypeOK'
    BY <1>7, CrossingGrows DEF RewritePicker
  <2>2. PickersAreAsked'
    BY <1>7, CrossingGrows DEF RewritePicker
  <2>3. OpenIsIndexed'
    BY <1>7, CrossingGrows DEF RewritePicker, OpenIsIndexed, Closing, Excepted
  <2>4. IndexedIsCrossed'
    BY <1>7, CrossingGrows DEF RewritePicker, IndexedIsCrossed, Closing, Excepted
  <2>5. DoomedIsClosed'
    BY <1>7, CrossingGrows DEF RewritePicker, DoomedIsClosed, DoomedIsRead, Closing, Excepted
  <2>6. DoomedIsRead'
    BY <1>7, CrossingGrows DEF RewritePicker, DoomedIsRead, Closing, Excepted
  <2>7. QED
    BY <2>1, <2>2, <2>3, <2>4, <2>5, <2>6
<1>8. ASSUME NEW r \in Requests, NEW p \in Picker, ResetByOtp(r, p)
      PROVE  ResetInv'
  <2>1. ResetTypeOK'
    BY <1>8 DEF ResetByOtp
  <2>2. PickersAreAsked'
    BY <1>8 DEF ResetByOtp
  <2>3. OpenIsIndexed'
    BY <1>8 DEF ResetByOtp, OpenIsIndexed, Closing, Excepted
  <2>4. IndexedIsCrossed'
    BY <1>8 DEF ResetByOtp, IndexedIsCrossed, Closing, Excepted
  <2>5. DoomedIsClosed'
    BY <1>8 DEF ResetByOtp, DoomedIsClosed, Closing, Excepted
  <2>6. DoomedIsRead'
    BY <1>8 DEF ResetByOtp, DoomedIsRead, Closing, Excepted
  <2>7. QED
    BY <2>1, <2>2, <2>3, <2>4, <2>5, <2>6
<1>9. ASSUME NEW r \in Requests, ResetByToken(r) \/ DestroyOtp(r) \/ ApplyPassword(r)
      PROVE  ResetInv'
  <2>1. ResetTypeOK'
    BY <1>9 DEF ResetByToken, DestroyOtp, ApplyPassword
  <2>2. PickersAreAsked'
    BY <1>9 DEF ResetByToken, DestroyOtp, ApplyPassword
  <2>3. OpenIsIndexed'
    BY <1>9 DEF ResetByToken, DestroyOtp, ApplyPassword, OpenIsIndexed, Closing, Excepted
  <2>4. IndexedIsCrossed'
    BY <1>9 DEF ResetByToken, DestroyOtp, ApplyPassword, IndexedIsCrossed, Closing, Excepted
  <2>5. DoomedIsClosed'
    BY <1>9 DEF ResetByToken, DestroyOtp, ApplyPassword, DoomedIsClosed, Closing, Excepted
  <2>6. DoomedIsRead'
    BY <1>9 DEF ResetByToken, DestroyOtp, ApplyPassword, DoomedIsRead, Closing, Excepted
  <2>7. QED
    BY <2>1, <2>2, <2>3, <2>4, <2>5, <2>6
<1>10. ASSUME NEW r \in Requests, TakeIndex(r)
      PROVE  ResetInv'
  <2>1. ResetTypeOK'
    BY <1>10 DEF TakeIndex
  <2>2. PickersAreAsked'
    BY <1>10 DEF TakeIndex
  <2>3. OpenIsIndexed'
    BY <1>10 DEF TakeIndex, OpenIsIndexed, Closing, Excepted
  <2>4. IndexedIsCrossed'
    BY <1>10 DEF TakeIndex, IndexedIsCrossed, Closing, Excepted
  <2>5. DoomedIsClosed'
    BY <1>10 DEF TakeIndex, DoomedIsClosed, Closing, Excepted
  <2>6. DoomedIsRead'
    BY <1>10 DEF TakeIndex, DoomedIsRead, Closing, Excepted
  <2>7. QED
    BY <2>1, <2>2, <2>3, <2>4, <2>5, <2>6
<1>11. ASSUME NEW r \in Requests, NoIndex(r)
      PROVE  ResetInv'
  <2>1. ResetTypeOK'
    <3>1. {target[q] : q \in OthersAt(r, Picking)} \subseteq Picker /\ 1..asked \subseteq Picker
      BY DEF OthersAt
    <3>2. /\ doomed' = doomed \cup 1..asked
          /\ crossed' = crossed \cup {target[q] : q \in OthersAt(r, Picking)}
      BY <1>11 DEF NoIndex, ResetCompletes
    <3>3. doomed' \subseteq Picker /\ crossed' \subseteq Picker
      BY <3>1, <3>2
    <3>4. QED
      BY <1>11, <3>3 DEF NoIndex
  <2>2. PickersAreAsked'
    BY <1>11 DEF NoIndex, ResetCompletes, OthersAt
  <2>3. OpenIsIndexed'
    BY <1>11 DEF NoIndex, ResetCompletes, OthersAt, OpenIsIndexed, Closing, Excepted
  <2>4. IndexedIsCrossed'
    BY <1>11 DEF NoIndex, ResetCompletes, OthersAt, IndexedIsCrossed, Closing, Excepted
  <2>5. DoomedIsClosed'
    BY <1>11 DEF NoIndex, ResetCompletes, OthersAt, DoomedIsClosed, OpenIsIndexed,
                  IndexedIsCrossed, Closing, Excepted
  <2>6. DoomedIsRead'
    BY <1>11 DEF NoIndex, ResetCompletes, OthersAt, DoomedIsRead, Closing, Excepted
  <2>7. QED
    BY <2>1, <2>2, <2>3, <2>4, <2>5, <2>6
<1>12. ASSUME NEW r \in Requests, DeletePicker(r)
      PROVE  ResetInv'
  <2>1. ResetTypeOK'
    <3>1. {target[q] : q \in OthersAt(r, Picking)} \subseteq Picker /\ 1..asked \subseteq Picker
      BY DEF OthersAt
    <3>2. /\ doomed' = doomed \cup 1..asked
          /\ crossed' = crossed \cup {target[q] : q \in OthersAt(r, Picking)}
      BY <1>12 DEF DeletePicker, ResetCompletes
    <3>3. doomed' \subseteq Picker /\ crossed' \subseteq Picker
      BY <3>1, <3>2
    <3>4. QED
      BY <1>12, <3>3 DEF DeletePicker
  <2>2. PickersAreAsked'
    BY <1>12 DEF DeletePicker, ResetCompletes, OthersAt
  <2>3. OpenIsIndexed'
    BY <1>12 DEF DeletePicker, ResetCompletes, OthersAt, OpenIsIndexed, Closing, Excepted
  <2>4. IndexedIsCrossed'
    BY <1>12 DEF DeletePicker, ResetCompletes, OthersAt, IndexedIsCrossed, Closing, Excepted
  <2>5. DoomedIsClosed'
    <3>1. /\ pickers' = [pickers EXCEPT ![target[r]] = "none"]
          /\ doomed' = doomed \cup 1..asked /\ hidden' = hidden
          /\ pc[r] = "deletePicker" /\ target[r] \in Picker
      BY <1>12 DEF DeletePicker, ResetCompletes
    <3>2. pickerOf \in {0} \cup crossed /\ crossed \subseteq crossed'
      BY <3>1, <1>12 DEF DeletePicker, ResetCompletes, IndexedIsCrossed
    <3>3. \A p \in Picker : pickers'[p] # "none" => Excepted(p)'
      BY <3>1, <2>3, <3>2, <1>12 DEF OpenIsIndexed, Excepted, Closing, DeletePicker, OthersAt,
                                    ResetCompletes
    <3>4. QED
      BY <3>3, <2>1, Zenon DEF DoomedIsClosed
  <2>6. DoomedIsRead'
    BY <1>12 DEF DeletePicker, ResetCompletes, OthersAt, DoomedIsRead, Closing, Excepted
  <2>7. QED
    BY <2>1, <2>2, <2>3, <2>4, <2>5, <2>6
<1>13. ASSUME NEW r \in Requests, ResetDies(r)
      PROVE  ResetInv'
  <2>1. ResetTypeOK'
    <3>1. {target[r]} \ {0} \subseteq Picker
      OBVIOUS
    <3>2. crossed' \subseteq Picker
      BY <1>13, <3>1 DEF ResetDies
    <3>3. QED
      BY <1>13, <3>2 DEF ResetDies, Die
  <2>2. PickersAreAsked'
    BY <1>13 DEF ResetDies, Die
  <2>3. OpenIsIndexed'
    BY <1>13 DEF ResetDies, Die, OpenIsIndexed, Closing, Excepted
  <2>4. IndexedIsCrossed'
    BY <1>13 DEF ResetDies, Die, IndexedIsCrossed, Closing, Excepted
  <2>5. DoomedIsClosed'
    BY <1>13 DEF ResetDies, Die, DoomedIsClosed, Closing, Excepted
  <2>6. DoomedIsRead'
    BY <1>13 DEF ResetDies, Die, DoomedIsRead, Closing, Excepted
  <2>7. QED
    BY <2>1, <2>2, <2>3, <2>4, <2>5, <2>6
<1>14. ASSUME NEW p \in Picker, ExpirePicker(p)
      PROVE  ResetInv'
  <2>1. ResetTypeOK'
    BY <1>14 DEF ExpirePicker
  <2>2. PickersAreAsked'
    BY <1>14 DEF ExpirePicker
  <2>3. OpenIsIndexed'
    BY <1>14 DEF ExpirePicker, OpenIsIndexed, Closing, Excepted
  <2>4. IndexedIsCrossed'
    BY <1>14 DEF ExpirePicker, IndexedIsCrossed, Closing, Excepted
  <2>5. DoomedIsClosed'
    BY <1>14 DEF ExpirePicker, DoomedIsClosed, Closing, Excepted
  <2>6. DoomedIsRead'
    BY <1>14 DEF ExpirePicker, DoomedIsRead, Closing, Excepted
  <2>7. QED
    BY <2>1, <2>2, <2>3, <2>4, <2>5, <2>6
<1>15. CASE ExpireResetOtp
  BY <1>15 DEF ExpireResetOtp, OpenIsIndexed, IndexedIsCrossed, DoomedIsClosed, DoomedIsRead,
              Closing, Excepted
<1>16. CASE UNCHANGED <<pc, faults, resetVars>>
  BY <1>16 DEF OpenIsIndexed, IndexedIsCrossed, DoomedIsClosed, DoomedIsRead, Closing, Excepted
<1>17. QED
  BY <1>1, <1>2, <1>3, <1>4, <1>5, <1>6, <1>7, <1>8, <1>9, <1>10, <1>11, <1>12, <1>13, <1>14, <1>15, <1>16 DEF ResetNext, ResetStep

(* The inductive invariant: where a picker that is open can be found, and  *)
(* which handlers may still write one (password-reset.service.ts:42-160).  *)
THEOREM ResetInvariance == ResetSpec => []ResetInv
<1>1. ResetInit => ResetInv
  BY ResetInitInv
<1>2. ResetInv /\ [ResetNext]_<<pc, faults, resetVars>> => ResetInv'
  BY ResetStepInv
<1>3. QED
  BY <1>1, <1>2, PTL DEF ResetSpec

(* A picker asked for before a reset completed is closed by it and stays   *)
(* closed, unless another one took its place in the index, it was written  *)
(* beside a reset, or a handler died over it.                              *)
THEOREM ResetClosesPickers == ResetSpec => []PickersDieWithReset
<1>1. ResetInv => PickersDieWithReset
  BY DEF ResetInv, DoomedIsClosed, Excepted, Closing, PickersDieWithReset, At
<1>2. QED
  BY <1>1, ResetInvariance, PTL

-------------------------------------------------------------------------------
(* Login: the inductive invariant. *)

(* Every password that is going to be stored has its number. *)
StoresAreBounded == password + Cardinality(At({"store"})) <= MaxVersions

(* A login that is past the comparison has proved a password. *)
ProofsAreVersions ==
    \A r \in Requests : pc[r] \in Opening \cup {"clearFails"} => proof[r] \in Version

(* Without a race one login runs at a time, with the counter it has read. *)
CounterIsRead ==
    ~raced =>
        /\ fails = rejected
        /\ \A r, q \in Requests : pc[r] \in LoggingIn /\ pc[q] \in LoggingIn => r = q
        /\ \A r \in Requests : pc[r] \in LoggingIn => count[r] = fails

LoginInv ==
    /\ LoginTypeOK /\ StoresAreBounded /\ ProofsAreVersions /\ CounterIsRead
    /\ StaleSessionsAreLate

LEMMA LoginInitInv == LoginInit => LoginInv
<1> SUFFICES ASSUME LoginInit PROVE LoginInv
  OBVIOUS
<1> USE LoginAssumption, HandlersAssumption DEF LoginInit, HandlersInit
<1>1. LoginTypeOK
  <2>1. password \in Version /\ live \subseteq [proof : Version, late : BOOLEAN]
        /\ challenges \subseteq Version
    BY DEF Version
  <2>2. /\ fails \in 0..loginMaxFails /\ rejected \in 0..loginMaxFails + 1
        /\ count \in [Requests -> 0..loginMaxFails - 1] /\ proof \in [Requests -> 0..MaxVersions]
    OBVIOUS
  <2>3. pc \in [Requests -> LoginLabel] /\ faults \in 0..MaxFaults
    BY DEF LoginLabel
  <2>4. QED
    BY <2>1, <2>2, <2>3 DEF LoginTypeOK
<1>2. StoresAreBounded
  <2>1. At({"store"}) = {}
    BY DEF At
  <2>2. Cardinality({}) = 0
    BY FS_EmptySet
  <2>3. QED
    BY <2>1, <2>2 DEF StoresAreBounded
<1>3. ProofsAreVersions /\ CounterIsRead /\ StaleSessionsAreLate
  BY DEF ProofsAreVersions, CounterIsRead, StaleSessionsAreLate, LoggingIn, Opening
<1>4. QED
  BY <1>1, <1>2, <1>3 DEF LoginInv

(* The bound on passwords, for the steps of a handler and for the others. *)
LEMMA StoresStep ==
    ASSUME LoginInv, NEW r \in Requests, NEW from, NEW to, Goto(r, from, to)
    PROVE  Cardinality(At({"store"})') = Cardinality(At({"store"}))
              + (IF to = "store" THEN 1 ELSE 0) - (IF from = "store" THEN 1 ELSE 0)
           /\ Cardinality(At({"store"})) \in Nat /\ Cardinality(At({"store"})') \in Nat
<1>1. pc \in [Requests -> LoginLabel]
  BY DEF LoginInv, LoginTypeOK
<1>2. IsFiniteSet(At({"store"})')
  BY HandlersAssumption, FS_Subset DEF At
<1>3. Cardinality(At({"store"})') \in Nat
  BY <1>2, FS_CardinalityType
<1>4. /\ Cardinality(At({"store"})) \in Nat
      /\ Cardinality(At({"store"})') = Cardinality(At({"store"}))
            + (IF to \in {"store"} THEN 1 ELSE 0) - (IF from \in {"store"} THEN 1 ELSE 0)
  BY <1>1, CountMoves
<1>5. QED
  BY <1>3, <1>4

LEMMA LoginStepInv == LoginInv /\ [LoginNext]_<<pc, faults, loginVars>> => LoginInv'
<1> USE LoginAssumption, HandlersAssumption
    DEF LoginInv, LoginTypeOK, LoginLabel, LoggingIn, Opening, Version,
        LoginEnds, LoginForgets, account, loginVars
<1> SUFFICES ASSUME LoginInv, [LoginNext]_<<pc, faults, loginVars>>
             PROVE  LoginInv'
  OBVIOUS
<1>1. ASSUME NEW r \in Requests, NEW k \in 0..password, LoginStart(r, k)
      PROVE  LoginInv'
  <2>1. LoginTypeOK'
    BY <1>1 DEF LoginStart, Goto, OthersAt
  <2>2. StoresAreBounded'
    BY <1>1, StoresStep DEF LoginStart, StoresAreBounded
  <2>3. ProofsAreVersions'
    BY <1>1 DEF LoginStart, ProofsAreVersions, Goto
  <2>4. CounterIsRead'
    BY <1>1 DEF LoginStart, CounterIsRead, Goto, At, OthersAt
  <2>5. StaleSessionsAreLate'
    BY <1>1 DEF LoginStart, StaleSessionsAreLate, Goto, At
  <2>6. QED
    BY <2>1, <2>2, <2>3, <2>4, <2>5
<1>2. ASSUME NEW r \in Requests, ReadOwner(r)
      PROVE  LoginInv'
  <2>1. LoginTypeOK'
    BY <1>2 DEF ReadOwner, Goto
  <2>2. StoresAreBounded'
    BY <1>2, StoresStep DEF ReadOwner, StoresAreBounded
  <2>3. ProofsAreVersions'
    BY <1>2 DEF ReadOwner, ProofsAreVersions, Goto
  <2>4. CounterIsRead'
    BY <1>2 DEF ReadOwner, CounterIsRead, Goto, At
  <2>5. StaleSessionsAreLate'
    BY <1>2 DEF ReadOwner, StaleSessionsAreLate, Goto, At
  <2>6. QED
    BY <2>1, <2>2, <2>3, <2>4, <2>5
<1>3. ASSUME NEW r \in Requests, CompareHash(r)
      PROVE  LoginInv'
  <2>1. LoginTypeOK'
    BY <1>3 DEF CompareHash, Goto
  <2>2. StoresAreBounded'
    BY <1>3, StoresStep DEF CompareHash, StoresAreBounded
  <2>3. ProofsAreVersions'
    BY <1>3 DEF CompareHash, ProofsAreVersions, Goto
  <2>4. CounterIsRead'
    BY <1>3 DEF CompareHash, CounterIsRead, Goto, At
  <2>5. StaleSessionsAreLate'
    BY <1>3 DEF CompareHash, StaleSessionsAreLate, Goto, At
  <2>6. QED
    BY <2>1, <2>2, <2>3, <2>4, <2>5
<1>4. ASSUME NEW r \in Requests, RecordFail(r)
      PROVE  LoginInv'
  <2>1. LoginTypeOK'
    BY <1>4 DEF RecordFail, Goto
  <2>2. StoresAreBounded'
    BY <1>4, StoresStep DEF RecordFail, StoresAreBounded
  <2>3. ProofsAreVersions'
    BY <1>4 DEF RecordFail, ProofsAreVersions, Goto
  <2>4. CounterIsRead'
    BY <1>4 DEF RecordFail, CounterIsRead, Goto, At
  <2>5. StaleSessionsAreLate'
    BY <1>4 DEF RecordFail, StaleSessionsAreLate, Goto, At
  <2>6. QED
    BY <2>1, <2>2, <2>3, <2>4, <2>5
<1>5. ASSUME NEW r \in Requests, ClearFails(r)
      PROVE  LoginInv'
  <2>1. LoginTypeOK'
    BY <1>5 DEF ClearFails, Goto, OthersAt
  <2>2. StoresAreBounded'
    BY <1>5, StoresStep DEF ClearFails, StoresAreBounded
  <2>3. ProofsAreVersions'
    BY <1>5 DEF ClearFails, ProofsAreVersions, Goto
  <2>4. CounterIsRead'
    BY <1>5 DEF ClearFails, CounterIsRead, Goto, At, OthersAt
  <2>5. StaleSessionsAreLate'
    BY <1>5 DEF ClearFails, StaleSessionsAreLate, Goto, At
  <2>6. QED
    BY <2>1, <2>2, <2>3, <2>4, <2>5
<1>6. ASSUME NEW r \in Requests, FindAuthUser(r)
      PROVE  LoginInv'
  <2>1. LoginTypeOK'
    BY <1>6 DEF FindAuthUser, Goto
  <2>2. StoresAreBounded'
    BY <1>6, StoresStep DEF FindAuthUser, StoresAreBounded
  <2>3. ProofsAreVersions'
    BY <1>6 DEF FindAuthUser, ProofsAreVersions, Goto
  <2>4. CounterIsRead'
    BY <1>6 DEF FindAuthUser, CounterIsRead, Goto, At
  <2>5. StaleSessionsAreLate'
    BY <1>6 DEF FindAuthUser, StaleSessionsAreLate, Goto, At
  <2>6. QED
    BY <2>1, <2>2, <2>3, <2>4, <2>5
<1>7. ASSUME NEW r \in Requests, AccountGone(r)
      PROVE  LoginInv'
  <2>1. LoginTypeOK'
    BY <1>7 DEF AccountGone, Goto
  <2>2. StoresAreBounded'
    BY <1>7, StoresStep DEF AccountGone, StoresAreBounded
  <2>3. ProofsAreVersions'
    BY <1>7 DEF AccountGone, ProofsAreVersions, Goto
  <2>4. CounterIsRead'
    BY <1>7 DEF AccountGone, CounterIsRead, Goto, At
  <2>5. StaleSessionsAreLate'
    BY <1>7 DEF AccountGone, StaleSessionsAreLate, Goto, At
  <2>6. QED
    BY <2>1, <2>2, <2>3, <2>4, <2>5
<1>8. ASSUME NEW r \in Requests, SetChallenge(r)
      PROVE  LoginInv'
  <2>1. LoginTypeOK'
    <3>1. challenges' \subseteq Version
      BY <1>8 DEF SetChallenge, ProofsAreVersions, Goto
    <3>2. QED
      BY <1>8, <3>1 DEF SetChallenge, Goto
  <2>2. StoresAreBounded'
    BY <1>8, StoresStep DEF SetChallenge, StoresAreBounded
  <2>3. ProofsAreVersions'
    BY <1>8 DEF SetChallenge, ProofsAreVersions, Goto
  <2>4. CounterIsRead'
    BY <1>8 DEF SetChallenge, CounterIsRead, Goto, At
  <2>5. StaleSessionsAreLate'
    BY <1>8 DEF SetChallenge, StaleSessionsAreLate, Goto, At
  <2>6. QED
    BY <2>1, <2>2, <2>3, <2>4, <2>5
<1>9. ASSUME NEW r \in Requests, NEW k \in challenges, AnswerChallenge(r, k)
      PROVE  LoginInv'
  <2>1. LoginTypeOK'
    BY <1>9 DEF AnswerChallenge, Goto
  <2>2. StoresAreBounded'
    BY <1>9, StoresStep DEF AnswerChallenge, StoresAreBounded
  <2>3. ProofsAreVersions'
    BY <1>9 DEF AnswerChallenge, ProofsAreVersions, Goto
  <2>4. CounterIsRead'
    BY <1>9 DEF AnswerChallenge, CounterIsRead, Goto, At
  <2>5. StaleSessionsAreLate'
    BY <1>9 DEF AnswerChallenge, StaleSessionsAreLate, Goto, At
  <2>6. QED
    BY <2>1, <2>2, <2>3, <2>4, <2>5
<1>10. ASSUME NEW r \in Requests, TakeChallenge(r)
      PROVE  LoginInv'
  <2>1. LoginTypeOK'
    BY <1>10 DEF TakeChallenge, Goto
  <2>2. StoresAreBounded'
    BY <1>10, StoresStep DEF TakeChallenge, StoresAreBounded
  <2>3. ProofsAreVersions'
    BY <1>10 DEF TakeChallenge, ProofsAreVersions, Goto
  <2>4. CounterIsRead'
    BY <1>10 DEF TakeChallenge, CounterIsRead, Goto, At
  <2>5. StaleSessionsAreLate'
    BY <1>10 DEF TakeChallenge, StaleSessionsAreLate, Goto, At
  <2>6. QED
    BY <2>1, <2>2, <2>3, <2>4, <2>5
<1>11. ASSUME NEW r \in Requests, ChallengeGone(r)
      PROVE  LoginInv'
  <2>1. LoginTypeOK'
    BY <1>11 DEF ChallengeGone, Goto
  <2>2. StoresAreBounded'
    BY <1>11, StoresStep DEF ChallengeGone, StoresAreBounded
  <2>3. ProofsAreVersions'
    BY <1>11 DEF ChallengeGone, ProofsAreVersions, Goto
  <2>4. CounterIsRead'
    BY <1>11 DEF ChallengeGone, CounterIsRead, Goto, At
  <2>5. StaleSessionsAreLate'
    BY <1>11 DEF ChallengeGone, StaleSessionsAreLate, Goto, At
  <2>6. QED
    BY <2>1, <2>2, <2>3, <2>4, <2>5
<1>12. ASSUME NEW r \in Requests, IssueSession(r)
      PROVE  LoginInv'
  <2>1. LoginTypeOK'
    <3>1. proof[r] \in Version
      BY <1>12 DEF IssueSession, ProofsAreVersions, Goto
    <3>2. \E l \in BOOLEAN : live' = live \cup {[proof |-> proof[r], late |-> l]}
      BY <1>12, Zenon DEF IssueSession
    <3>3. live' \subseteq [proof : Version, late : BOOLEAN]
      BY <3>1, <3>2
    <3>4. QED
      BY <1>12, <3>3 DEF IssueSession, Goto
  <2>2. StoresAreBounded'
    BY <1>12, StoresStep DEF IssueSession, StoresAreBounded
  <2>3. ProofsAreVersions'
    BY <1>12 DEF IssueSession, ProofsAreVersions, Goto
  <2>4. CounterIsRead'
    BY <1>12 DEF IssueSession, CounterIsRead, Goto, At
  <2>5. StaleSessionsAreLate'
    <3>1. At({"sweep"})' = At({"sweep"}) /\ UNCHANGED <<password, status, unswept>>
      BY <1>12 DEF IssueSession, Goto, At
    <3>2. CASE At({"sweep"}) = {} /\ ~unswept
      <4>1. ASSUME NEW s \in live', s \notin live, s.proof # password \/ status # "active"
            PROVE  s.late
        <5>1. s = [proof |-> proof[r], late |-> proof[r] # password \/ status # "active"
                                          \/ unswept \/ At({"sweep"}) # {}]
          BY <1>12, <4>1, Zenon DEF IssueSession
        <5>2. /\ s.proof = proof[r]
              /\ s.late = (proof[r] # password \/ status # "active"
                             \/ unswept \/ At({"sweep"}) # {})
          BY <5>1, Zenon
        <5>3. QED
          BY <4>1, <5>2
      <4>2. QED
        BY <3>1, <3>2, <4>1 DEF StaleSessionsAreLate
    <3>3. QED
      BY <3>1, <3>2 DEF StaleSessionsAreLate
  <2>6. QED
    BY <2>1, <2>2, <2>3, <2>4, <2>5
<1>13. ASSUME NEW r \in Requests, ChangeStart(r)
      PROVE  LoginInv'
  <2>1. LoginTypeOK'
    BY <1>13 DEF ChangeStart, Goto
  <2>2. StoresAreBounded'
    BY <1>13, StoresStep DEF ChangeStart, StoresAreBounded
  <2>3. ProofsAreVersions'
    BY <1>13 DEF ChangeStart, ProofsAreVersions, Goto
  <2>4. CounterIsRead'
    BY <1>13 DEF ChangeStart, CounterIsRead, Goto, At
  <2>5. StaleSessionsAreLate'
    BY <1>13 DEF ChangeStart, StaleSessionsAreLate, Goto, At
  <2>6. QED
    BY <2>1, <2>2, <2>3, <2>4, <2>5
<1>14. ASSUME NEW r \in Requests, StoreHash(r)
      PROVE  LoginInv'
  <2>1. LoginTypeOK'
    <3>1. password' \in Version
      BY <1>14, StoresStep DEF StoreHash, StoresAreBounded
    <3>2. QED
      BY <1>14, <3>1 DEF StoreHash, Goto
  <2>2. StoresAreBounded'
    BY <1>14, StoresStep DEF StoreHash, StoresAreBounded
  <2>3. ProofsAreVersions'
    BY <1>14 DEF StoreHash, ProofsAreVersions, Goto
  <2>4. CounterIsRead'
    BY <1>14 DEF StoreHash, CounterIsRead, Goto, At
  <2>5. StaleSessionsAreLate'
    BY <1>14 DEF StoreHash, StaleSessionsAreLate, Goto, At
  <2>6. QED
    BY <2>1, <2>2, <2>3, <2>4, <2>5
<1>15. ASSUME NEW r \in Requests, SweepSessions(r)
      PROVE  LoginInv'
  <2>1. LoginTypeOK'
    BY <1>15 DEF SweepSessions, Goto
  <2>2. StoresAreBounded'
    BY <1>15, StoresStep DEF SweepSessions, StoresAreBounded
  <2>3. ProofsAreVersions'
    BY <1>15 DEF SweepSessions, ProofsAreVersions, Goto
  <2>4. CounterIsRead'
    BY <1>15 DEF SweepSessions, CounterIsRead, Goto, At
  <2>5. StaleSessionsAreLate'
    BY <1>15 DEF SweepSessions, StaleSessionsAreLate, Goto, At
  <2>6. QED
    BY <2>1, <2>2, <2>3, <2>4, <2>5
<1>16. ASSUME NEW r \in Requests, NEW s \in {"suspended", "deleted"}, BlockStart(r, s)
      PROVE  LoginInv'
  <2>1. LoginTypeOK'
    BY <1>16 DEF BlockStart, Goto
  <2>2. StoresAreBounded'
    BY <1>16, StoresStep DEF BlockStart, StoresAreBounded
  <2>3. ProofsAreVersions'
    BY <1>16 DEF BlockStart, ProofsAreVersions, Goto
  <2>4. CounterIsRead'
    BY <1>16 DEF BlockStart, CounterIsRead, Goto, At
  <2>5. StaleSessionsAreLate'
    BY <1>16 DEF BlockStart, StaleSessionsAreLate, Goto, At
  <2>6. QED
    BY <2>1, <2>2, <2>3, <2>4, <2>5
<1>17. ASSUME NEW r \in Requests, LoginDies(r)
      PROVE  LoginInv'
  <2>1. LoginTypeOK'
    BY <1>17 DEF LoginDies, Goto, Die
  <2>2. StoresAreBounded'
    <3>1. Goto(r, pc[r], "idle") /\ UNCHANGED password
      BY <1>17 DEF LoginDies, Die, Goto
    <3>2. QED
      BY <3>1, StoresStep DEF StoresAreBounded
  <2>3. ProofsAreVersions'
    BY <1>17 DEF LoginDies, ProofsAreVersions, Goto, Die
  <2>4. CounterIsRead'
    BY <1>17 DEF LoginDies, CounterIsRead, Goto, At, Die
  <2>5. StaleSessionsAreLate'
    BY <1>17 DEF LoginDies, StaleSessionsAreLate, Goto, At, Die
  <2>6. QED
    BY <2>1, <2>2, <2>3, <2>4, <2>5
<1>18. CASE Unblock \/ ExpireFails \/ \E k \in challenges : ExpireChallenge(k)
  <2>1. /\ UNCHANGED <<pc, faults, password, live, unswept, count, proof>>
        /\ challenges' \subseteq challenges /\ status' \in {status, "active"}
    BY <1>18 DEF Unblock, ExpireFails, ExpireChallenge
  <2>2. \/ UNCHANGED <<fails, rejected, raced>>
        \/ fails' = 0 /\ rejected' = 0 /\ raced' = (At(LoggingIn) # {})
    BY <1>18 DEF Unblock, ExpireFails, ExpireChallenge
  <2>3. /\ LoginTypeOK'
        /\ StoresAreBounded' /\ ProofsAreVersions'
    <3>1. LoginTypeOK'
      <4>1. fails' \in 0..loginMaxFails /\ rejected' \in 0..loginMaxFails + 1 /\ raced' \in BOOLEAN
        <5>1. fails' \in 0..loginMaxFails /\ rejected' \in 0..loginMaxFails + 1
          BY <2>2
        <5>2. raced \in BOOLEAN /\ (At(LoggingIn) # {}) \in BOOLEAN
          OBVIOUS
        <5>3. raced' = raced \/ raced' = (At(LoggingIn) # {})
          BY <2>2, Zenon
        <5>4. raced' \in BOOLEAN
          BY <5>2, <5>3, Zenon
        <5>5. QED
          BY <5>1, <5>4
      <4>2. QED
        BY <2>1, <4>1
    <3>2. StoresAreBounded' /\ ProofsAreVersions'
      BY <2>1 DEF StoresAreBounded, ProofsAreVersions, At
    <3>3. QED
      BY <3>1, <3>2
  <2>4. CounterIsRead'
    BY <2>1, <2>2 DEF CounterIsRead, At
  <2>5. StaleSessionsAreLate'
    BY <2>1 DEF StaleSessionsAreLate, At
  <2>6. QED
    BY <2>3, <2>4, <2>5
<1>19. CASE UNCHANGED <<pc, faults, loginVars>>
  BY <1>19 DEF StoresAreBounded, ProofsAreVersions, CounterIsRead, StaleSessionsAreLate, At
<1>20. QED
  BY <1>1, <1>2, <1>3, <1>4, <1>5, <1>6, <1>7, <1>8, <1>9, <1>10, <1>11, <1>12, <1>13, <1>14, <1>15, <1>16, <1>17, <1>18, <1>19 DEF LoginNext, LoginStep

(* The inductive invariant: what a login has read and proved               *)
(* (login.service.ts:64-170).                                              *)
THEOREM LoginInvariance == LoginSpec => []LoginInv
<1>1. LoginInit => LoginInv
  BY LoginInitInv
<1>2. LoginInv /\ [LoginNext]_<<pc, faults, loginVars>> => LoginInv'
  BY LoginStepInv
<1>3. QED
  BY <1>1, <1>2, PTL DEF LoginSpec

(* Between logins the fail counter is the number of logins rejected since  *)
(* it was removed, unless logins raced.                                    *)
THEOREM FailsAreCounted == LoginSpec => []FailsCountRejections
<1>1. LoginInv => FailsCountRejections
  BY DEF LoginInv, CounterIsRead, FailsCountRejections
<1>2. QED
  BY <1>1, LoginInvariance, PTL

(* A session that is left behind a sweep with a replaced password, or of a *)
(* blocked account, was issued after the replacement.                      *)
THEOREM SweepsMissNothing == LoginSpec => []StaleSessionsAreLate
<1>1. LoginInv => StaleSessionsAreLate
  BY DEF LoginInv
<1>2. QED
  BY <1>1, LoginInvariance, PTL

-------------------------------------------------------------------------------
(* The instance.  A behaviour stays in the module it has chosen, where it  *)
(* is a behaviour of that module's specification; the other modules stay   *)
(* as they were initialised.                                               *)

LEMMA SignInChooses ==
    SignInInit => /\ component \in {"login", "reset", "factor"}
                  /\ LoginInit /\ ResetInit /\ FactorInit
  BY DEF SignInInit

LEMMA LoginChosen ==
    component = "login"
    /\ [SignInNext]_<<component, pc, faults, loginVars, resetVars, factorVars>>
    => (component = "login")' /\ [LoginNext]_<<pc, faults, loginVars>>
  BY DEF SignInNext

LEMMA ResetChosen ==
    component = "reset"
    /\ [SignInNext]_<<component, pc, faults, loginVars, resetVars, factorVars>>
    => (component = "reset")' /\ [ResetNext]_<<pc, faults, resetVars>>
  BY DEF SignInNext

LEMMA FactorChosen ==
    component = "factor"
    /\ [SignInNext]_<<component, pc, faults, loginVars, resetVars, factorVars>>
    => (component = "factor")' /\ [FactorNext]_<<pc, faults, factorVars>>
  BY DEF SignInNext

(* Signing in is a login, a reset or the second factor, each as its own    *)
(* specification describes it, so that what is proved of the modules       *)
(* holds in the instance (login.service.ts, password-reset.service.ts,     *)
(* two-factor.service.ts).                                                 *)
THEOREM SignInIsOneModule ==
    SignInSpec => \/ [](component = "login")  /\ LoginSpec
                  \/ [](component = "reset")  /\ ResetSpec
                  \/ [](component = "factor") /\ FactorSpec
<1>1. component \in {"login", "reset", "factor"}
      => component = "login" \/ component = "reset" \/ component = "factor"
  OBVIOUS
<1>2. QED
  BY <1>1, SignInChooses, LoginChosen, ResetChosen, FactorChosen, PTL
  DEF SignInSpec, LoginSpec, ResetSpec, FactorSpec

(* Whichever module a behaviour has chosen keeps the types of its          *)
(* variables, pc among them, which the three share.                        *)
THEOREM SignInTypes == SignInSpec => []SignInTypeOK
<1>1. component = "login" /\ LoginInv => SignInTypeOK
  BY DEF SignInTypeOK, LoginInv
<1>2. component = "reset" /\ ResetInv => SignInTypeOK
  BY DEF SignInTypeOK, ResetInv
<1>3. component = "factor" /\ FactorInv => SignInTypeOK
  BY DEF SignInTypeOK, FactorInv
<1>4. QED
  BY <1>1, <1>2, <1>3, SignInIsOneModule, LoginInvariance, ResetInvariance, FactorInvariance, PTL
===============================================================================

------------------------------ MODULE SudoProofs ------------------------------
(***************************************************************************)
(* Theorems about Sudo, for any accounts, requests, calls and bounds: when *)
(* a grant admits a second mutation, and that closing a session takes its  *)
(* grant along.                                                            *)
(***************************************************************************)
EXTENDS Sudo, SessionsProofs, FiniteSetTheorems

(* What a call holds: a session its client has, and a grant minted for it. *)
CallFits(label, s, g) ==
    /\ label # "idle" => s \in delivered
    /\ label \in {"mutate", "take"} => g \in 1..mints[s]

CallsFit == \A c \in Calls : CallFits(callPc[c], callOf[c], seen[c])

(* There is a number for every grant that is going to be minted. *)
Minting(s) == {d \in Calls : callPc[d] = "mint" /\ callOf[d] = s}
MintsFit == \A s \in Session : mints[s] + Cardinality(Minting(s)) <= MaxMints

(* Nothing is known of a grant that was not minted. *)
Minted == {g \in Grant : g[2] <= mints[g[1]]}
GrantsAreMinted ==
    /\ \A s \in grants : mints[s] # 0 /\ rows[s] # "none"
    /\ used \subseteq Minted /\ reused \subseteq Minted /\ shared \subseteq Minted
    /\ kept \subseteq Minted

(* A grant that no two calls had together and no failed take left behind:  *)
(* one call at most has it, and once it was used, it is past its mutation  *)
(* or the grant is not stored any more.                                    *)
Holds(c, g) == callPc[c] \in {"mutate", "take"} /\ Admitted(c) = g

UsedOnce(g) ==
    /\ \A c, d \in Calls : Holds(c, g) /\ Holds(d, g) => c = d
    /\ g \in used => /\ \A c \in Calls : Holds(c, g) => callPc[c] = "take"
                     /\ g[1] \in grants /\ Stored(g[1]) = g => \E c \in Calls : Holds(c, g)

UnsharedIsUsedOnce == \A g \in Grant \ (shared \cup kept) : UsedOnce(g)

(* A grant that a handler has to answer for: no elevation overlapped a     *)
(* handler, its revokeOne has not died, and the session has not expired.   *)
Due(s) == s \in grants \ (late \cup abandoned) /\ now < s.iat + RefreshTtl

(* A handler that is going to close a session closes one of its user's.    *)
Owning == {"rotFind", "rotGrant", "rotRevoke", "outGrant", "outRevoke"}
SubjectsAreOwned ==
    \A r \in Requests : pc[r] \in Owning => subject[r].user = owner[r]

(* Where a handler stands with the grant of a session: revokeOne still has *)
(* to delete it, and the others have done so before they revoke the row.   *)
Answers(r, s) == pc[r] \in Owing /\ subject[r] = s
Taken(r, s) ==
    /\ pc[r] = "rotRevoke" => subject[r] # s
    /\ pc[r] = "outRevoke" /\ subject[r] = s => rows[s] = "revoked"
    /\ pc[r] = "cutGrants" /\ owner[r] = s.user /\ rows[s] = "live" => s \in todo[r]

HandlersTakeGrants ==
    \A s \in Session : Due(s) =>
        /\ rows[s] = "revoked" => \E r \in Requests : Answers(r, s)
        /\ \A r \in Requests : Taken(r, s)

CallInv ==
    /\ CallsFit /\ MintsFit /\ GrantsAreMinted
    /\ ReuseNeedsSharing /\ UnsharedIsUsedOnce
GrantInv == SubjectsAreOwned /\ HandlersTakeGrants

SudoInv == IInv /\ SudoTypeOK /\ CallInv /\ GrantInv

-------------------------------------------------------------------------------
(* The session core under the calls. *)

LEMMA SessionStepKeeps ==
    ASSUME IInv, [Next]_vars PROVE IInv'
<1>1. (TypeOK /\ LocalsOK)'
  BY TypesStep DEF IInv
<1>2. RowsExist' /\ RevokedBehind' /\ OneOpener'
  BY RowsExistStep, RevokedBehindStep, OneOpenerStep
<1>3. OneRedeemer' /\ ForkNeedsOverlap' /\ SuccessorRetiresParent'
  BY RotationStep
<1>4. (closed \subseteq delivered)' /\ ClosedIsFinal'
  BY ClosedStep
<1>5. QED
  BY <1>1, <1>2, <1>3, <1>4 DEF IInv

(* A call touches nothing of the session core but grants and push tokens.  *)
CoreKeeps ==
    /\ grants' \subseteq Session /\ push' \subseteq Users
    /\ UNCHANGED <<now, account, rows, mirrors, delivered, pc, owner, subject,
                   listed, todo, faults, parent, overlap, closed>>

LEMMA CoreKeepsIInv ==
    ASSUME IInv, CoreKeeps PROVE IInv'
<1> USE DEF CoreKeeps
<1>1. TypeOK'
  BY DEF IInv, TypeOK
<1>2. LocalsOK' /\ RowsExist' /\ RevokedBehind'
  BY DEF IInv, LocalsOK, RowsExist, RevokedBehind
<1>3. OneOpener' /\ OneRedeemer'
  BY DEF IInv, OneOpener, OneRedeemer, Redeems
<1>4. (closed \subseteq delivered)' /\ SuccessorRetiresParent' /\ ForkNeedsOverlap' /\ ClosedIsFinal'
  BY DEF IInv, SuccessorRetiresParent, ForkNeedsOverlap, ClosedIsFinal
<1>5. QED
  BY <1>1, <1>2, <1>3, <1>4 DEF IInv

(* No handler stores a grant: only Mint does. *)
Shrinks ==
    /\ grants' \subseteq grants /\ delivered \subseteq delivered'
    /\ now <= now'

LEMMA HandlersShrinkGrants ==
    ASSUME TypeOK, [Next]_vars PROVE Shrinks
<1> USE SessionsAssumption DEF TypeOK, Shrinks, store, history
<1>1. ASSUME NEW r \in Requests, Start(r) PROVE Shrinks
  BY <1>1 DEF Start, Login, Block, Refresh, LogoutAll, Logout, RevokeOne
<1>2. ASSUME NEW r \in Requests, Continue(r) PROVE Shrinks
  <2>1. CASE Issue(r) \/ IssueConflict(r) \/ SetMirror(r) \/ Reply(r)
             \/ RotateFind(r) \/ RotateReuse(r) \/ RotateGrant(r)
    BY <2>1 DEF Issue, IssueConflict, SetMirror, Reply, RotateFind, RotateReuse,
                RotateGrant
  <2>2. CASE RotateRevoke(r) \/ RotateMirror(r) \/ CutList(r) \/ CutRows(r)
             \/ CutPush(r)
    BY <2>2 DEF RotateRevoke, RotateMirror, CutList, CutRows, CutPush
  <2>3. CASE \E s \in Session : CutGrant(r, s) \/ CutMirror(r, s)
    BY <2>3 DEF CutGrant, CutMirror
  <2>4. CASE LogoutGrant(r) \/ LogoutRevoke(r) \/ LogoutMirror(r)
             \/ OneRevoke(r) \/ OneMirror(r) \/ OneGrant(r) \/ Answer(r)
    BY <2>4 DEF LogoutGrant, LogoutRevoke, LogoutMirror, OneRevoke, OneMirror,
                OneGrant, Answer
  <2>5. QED
    BY <1>2, <2>1, <2>2, <2>3, <2>4 DEF Continue
<1>3. ASSUME NEW r \in Requests, Fault(r) PROVE Shrinks
  BY <1>3 DEF Fault
<1>4. CASE Environment
  BY <1>4 DEF Environment, Tick, Reinstate, ExpireMirror
<1>5. CASE UNCHANGED vars
  BY <1>5 DEF vars
<1>6. QED
  BY <1>1, <1>2, <1>3, <1>4, <1>5 DEF Next

-------------------------------------------------------------------------------
(* A closing handler and the grant of a session. *)

LEMMA SubjectsStep ==
    ASSUME IInv, SubjectsAreOwned, [Next]_vars PROVE SubjectsAreOwned'
<1> USE DEF IInv, TypeOK, SubjectsAreOwned, Owning
<1>1. CASE Environment \/ UNCHANGED vars
  BY <1>1, EnvironmentKeepsLocals
<1>2. ASSUME NEW r \in Requests, Start(r) \/ Continue(r) \/ Fault(r)
      PROVE  SubjectsAreOwned'
  <2>0. OthersKeep(r)
    BY <1>2, OneRequestMoves
  <2> USE <2>0 DEF OthersKeep, Begin, Step, Finish
  <2>1. CASE Start(r)
    BY <2>1 DEF Start, Login, Block, Refresh, LogoutAll, Logout, RevokeOne
  <2>2. CASE Issue(r) \/ IssueConflict(r) \/ SetMirror(r) \/ Reply(r)
             \/ RotateFind(r) \/ RotateReuse(r) \/ RotateGrant(r)
    BY <2>2 DEF Issue, IssueConflict, SetMirror, Reply, RotateFind, RotateReuse,
                RotateGrant
  <2>3. CASE RotateRevoke(r) \/ RotateMirror(r) \/ CutList(r) \/ CutRows(r)
             \/ CutPush(r)
    BY <2>3 DEF RotateRevoke, RotateMirror, CutList, CutRows, CutPush
  <2>4. CASE \E s \in Session : CutGrant(r, s) \/ CutMirror(r, s)
    BY <2>4 DEF CutGrant, CutMirror
  <2>5. CASE LogoutGrant(r) \/ LogoutRevoke(r) \/ LogoutMirror(r)
             \/ OneRevoke(r) \/ OneMirror(r) \/ OneGrant(r) \/ Answer(r)
    BY <2>5 DEF LogoutGrant, LogoutRevoke, LogoutMirror, OneRevoke, OneMirror,
                OneGrant, Answer
  <2>6. CASE Fault(r)
    BY <2>6 DEF Fault
  <2>7. QED
    BY <1>2, <2>1, <2>2, <2>3, <2>4, <2>5, <2>6 DEF Continue
<1>3. QED
  BY <1>1, <1>2 DEF Next

(* What a step of r does for a grant that is there before and after it.    *)
Handled(r, s) ==
    /\ Taken(r, s)'
    /\ rows'[s] = "revoked" => rows[s] = "revoked" \/ Answers(r, s)'
    /\ Answers(r, s) => Answers(r, s)'

LEMMA StartHandles ==
    ASSUME IInv, NEW r \in Requests, NEW s \in Session, Start(r),
           Due(s), rows[s] # "none"
    PROVE  Handled(r, s)
<1> USE DEF IInv, TypeOK, Handled, Taken, Answers, Owing, Begin, store, Session
<1>1. pc[r] = "idle" /\ UNCHANGED rows
  BY DEF Start, Login, Block, Refresh, LogoutAll, Logout, RevokeOne
<1>2. pc'[r] \notin {"rotRevoke", "cutGrants"}
  BY DEF Start, Login, Block, Refresh, LogoutAll, Logout, RevokeOne
<1>3. pc'[r] = "outRevoke" /\ subject'[r] = s => rows[s] = "revoked"
  <2>1. CASE \E t \in Session : Logout(r, t)
    <3>1. PICK t \in Session : Logout(r, t)
      BY <2>1
    <3>2. subject'[r] = t /\ (pc'[r] = "outRevoke" => ~ Active(t))
      BY <3>1 DEF Logout
    <3>3. rows[s] \in {"none", "live", "revoked"}
      OBVIOUS
    <3>4. QED
      BY <3>2, <3>3 DEF Active, Due
  <2>2. CASE ~ \E t \in Session : Logout(r, t)
    BY <2>2 DEF Start, Login, Block, Refresh, LogoutAll, RevokeOne
  <2>3. QED
    BY <2>1, <2>2
<1>4. QED
  BY <1>1, <1>2, <1>3

LEMMA ContinueHandles ==
    ASSUME IInv, NEW r \in Requests, NEW s \in Session, Continue(r),
           Due(s), s \in grants', rows[s] # "none", Taken(r, s)
    PROVE  Handled(r, s)
<1> USE DEF IInv, TypeOK, LocalsOK, WithSubject, Handled, Taken, Answers, Owing, Step, Finish, store
<1>1. CASE Issue(r)
  <2>1. rows'[s] = rows[s]
    BY <1>1 DEF Issue
  <2>2. QED
    BY <1>1, <2>1 DEF Issue
<1>2. CASE IssueConflict(r) \/ SetMirror(r) \/ Reply(r) \/ RotateFind(r)
           \/ RotateReuse(r) \/ RotateMirror(r) \/ CutPush(r) \/ Answer(r)
  BY <1>2 DEF IssueConflict, SetMirror, Reply, RotateFind, RotateReuse,
              RotateMirror, CutPush, Answer
<1>3. CASE RotateGrant(r)
  BY <1>3 DEF RotateGrant
<1>4. CASE RotateRevoke(r)
  BY <1>4 DEF RotateRevoke, Revoke
<1>5. CASE CutList(r)
  <2>1. rows[s] = "live" => Active(s)
    BY DEF Active, Due
  <2>2. QED
    BY <1>5, <2>1 DEF CutList
<1>6. CASE \E t \in Session : CutGrant(r, t)
  BY <1>6 DEF CutGrant
<1>7. CASE CutRows(r)
  BY <1>7 DEF CutRows, Revoke
<1>8. CASE \E t \in Session : CutMirror(r, t)
  BY <1>8 DEF CutMirror
<1>9. CASE LogoutGrant(r)
  BY <1>9 DEF LogoutGrant
<1>10. CASE LogoutRevoke(r)
  BY <1>10 DEF LogoutRevoke, Revoke
<1>11. CASE LogoutMirror(r) \/ OneMirror(r)
  BY <1>11 DEF LogoutMirror, OneMirror
<1>12. CASE OneRevoke(r)
  BY <1>12 DEF OneRevoke, Revoke
<1>13. CASE OneGrant(r)
  BY <1>13 DEF OneGrant
<1>14. QED
  BY <1>1, <1>2, <1>3, <1>4, <1>5, <1>6, <1>7, <1>8, <1>9, <1>10, <1>11,
     <1>12, <1>13 DEF Continue

LEMMA HandlersStep ==
    ASSUME IInv, GrantInv, [Next]_vars, late' = late, abandoned \subseteq abandoned',
           \A r \in Requests, s \in Session :
               Answers(r, s) /\ pc'[r] = "failed" => s \in abandoned',
           \A s \in grants : rows[s] # "none"
    PROVE  HandlersTakeGrants'
<1>1. Shrinks /\ RowsMoveForward
  BY HandlersShrinkGrants, RowsForward DEF IInv
<1> SUFFICES ASSUME NEW s \in Session, Due(s)'
             PROVE  /\ rows'[s] = "revoked" => \E r \in Requests : Answers(r, s)'
                    /\ \A r \in Requests : Taken(r, s)'
  BY DEF HandlersTakeGrants
<1>2. Due(s)
  <2>1. TypeOK /\ TypeOK'
    BY SessionStepKeeps DEF IInv
  <2>2. now \in Nat /\ now' \in Nat /\ s.iat \in Nat
    BY <2>1, SessionsAssumption DEF TypeOK, Session
  <2>3. now < s.iat + RefreshTtl
    BY <1>1, <2>2, SessionsAssumption DEF Shrinks, Due
  <2>4. QED
    BY <1>1, <2>3 DEF Shrinks, Due
<1>3. /\ rows[s] = "revoked" => \E r \in Requests : Answers(r, s)
      /\ \A r \in Requests : Taken(r, s)
  BY <1>2 DEF GrantInv, HandlersTakeGrants
<1>4. rows[s] \in {"live", "revoked"} /\ s \in grants'
  BY <1>2 DEF Due, IInv, TypeOK
<1>5. CASE Environment \/ UNCHANGED vars
  BY <1>3, <1>5, EnvironmentKeepsLocals DEF Answers, Taken
<1>6. ASSUME NEW r \in Requests, Fault(r)
      PROVE  /\ rows'[s] = "revoked" => \E q \in Requests : Answers(q, s)'
             /\ \A q \in Requests : Taken(q, s)'
  <2>1. /\ pc' = [pc EXCEPT ![r] = "failed"] /\ pc \in [Requests -> Label]
        /\ UNCHANGED <<rows, subject, owner, todo>>
    BY <1>6 DEF Fault, IInv, TypeOK, store
  <2>2. ~ Answers(r, s)
    BY <2>1 DEF Due
  <2>3. \A q \in Requests \ {r} : (Answers(q, s) => Answers(q, s)') /\ Taken(q, s)'
    BY <1>3, <2>1 DEF Answers, Taken
  <2>4. Taken(r, s)'
    BY <2>1 DEF Taken
  <2>5. QED
    BY <1>3, <2>1, <2>2, <2>3, <2>4
<1>7. ASSUME NEW r \in Requests, Start(r) \/ Continue(r)
      PROVE  /\ rows'[s] = "revoked" => \E q \in Requests : Answers(q, s)'
             /\ \A q \in Requests : Taken(q, s)'
  <2>1. OthersKeep(r)
    BY <1>7, OneRequestMoves DEF IInv
  <2>2. Handled(r, s)
    BY <1>2, <1>3, <1>4, <1>7, StartHandles, ContinueHandles
  <2>3. \A q \in Requests \ {r} : (Answers(q, s) => Answers(q, s)') /\ Taken(q, s)'
    BY <1>1, <1>3, <1>4, <2>1 DEF OthersKeep, Answers, Taken, RowsMoveForward
  <2>4. QED
    BY <1>3, <2>2, <2>3 DEF Handled
<1>8. QED
  BY <1>5, <1>6, <1>7 DEF Next

-------------------------------------------------------------------------------
(* The calls, one lemma for each of them. *)

KeepsCalls == SudoTypeOK' /\ CallInv'

LEMMA CallsAreSessions ==
    ASSUME SudoTypeOK, CallsFit, NEW c \in Calls, callPc[c] # "idle"
    PROVE  /\ callOf[c] \in Session
           /\ callPc[c] \in {"mutate", "take"} =>
                 /\ Admitted(c) \in Grant /\ Admitted(c) \in Minted
                 /\ seen[c] \in 1..MaxMints
<1>1. callOf[c] \in Session /\ mints[callOf[c]] \in 0..MaxMints
  BY DEF SudoTypeOK, TypeOK, CallsFit, CallFits
<1>2. callPc[c] \in {"mutate", "take"} => seen[c] \in 1..MaxMints /\ seen[c] <= mints[callOf[c]]
  BY <1>1, SudoAssumption DEF CallsFit, CallFits
<1>3. callPc[c] \in {"mutate", "take"} => Admitted(c) \in Grant
  BY <1>1, <1>2 DEF Grant, Admitted
<1>4. Admitted(c)[1] = callOf[c] /\ Admitted(c)[2] = seen[c]
  BY DEF Admitted
<1>5. QED
  BY <1>1, <1>2, <1>3, <1>4 DEF Minted

LEMMA MintingIsFinite ==
    ASSUME NEW s
    PROVE  IsFiniteSet(Minting(s)) /\ Cardinality(Minting(s)) \in Nat
<1>1. Minting(s) \subseteq Calls
  BY DEF Minting
<1>2. QED
  BY <1>1, SudoAssumption, FS_Subset, FS_CardinalityType

(* A step that mints nothing and moves no call to or from a mint. *)
LEMMA MintsFitKeeps ==
    ASSUME MintsFit, UNCHANGED mints,
           \A d \in Calls : callPc'[d] = "mint" \/ callPc[d] = "mint" =>
               callPc'[d] = callPc[d] /\ callOf'[d] = callOf[d]
    PROVE  MintsFit'
<1>1. \A s : Minting(s)' = Minting(s)
  BY DEF Minting
<1>2. QED
  BY <1>1 DEF MintsFit

(* A handler, a clean-up or an expiry: no call moves. *)
LEMMA GrantsShrinkKeeps ==
    ASSUME SudoTypeOK, CallInv, TypeOK', Shrinks, RowsMoveForward,
           UNCHANGED <<callVars, mints, used, reused, shared, kept, late>>,
           abandoned' \subseteq Session
    PROVE  KeepsCalls
<1> USE DEF callVars
<1>1. SudoTypeOK'
  BY DEF SudoTypeOK, Grant
<1>2. CallsFit' /\ MintsFit'
  BY MintsFitKeeps DEF CallInv, CallsFit, CallFits, Shrinks
<1>3. Minted' = Minted
  BY DEF Minted, Grant
<1>4. grants \subseteq Session
  BY DEF SudoTypeOK, TypeOK
<1>5. GrantsAreMinted'
  BY <1>3, <1>4 DEF CallInv, GrantsAreMinted, Shrinks, RowsMoveForward
<1>6. ReuseNeedsSharing'
  BY DEF CallInv, ReuseNeedsSharing
<1>7. UnsharedIsUsedOnce'
  BY DEF CallInv, UnsharedIsUsedOnce, UsedOnce, Holds, Admitted, Stored, Shrinks, Grant
<1>8. QED
  BY <1>1, <1>2, <1>5, <1>6, <1>7 DEF KeepsCalls, CallInv

LEMMA ElevateKeeps ==
    ASSUME SudoTypeOK, CallInv, NEW c \in Calls, NEW s \in Session, Elevate(c, s)
    PROVE  KeepsCalls
<1>1. /\ callPc[c] = "idle" /\ callPc' = [callPc EXCEPT ![c] = "mint"]
      /\ callOf' = [callOf EXCEPT ![c] = s] /\ seen' = [seen EXCEPT ![c] = 0]
      /\ s \in delivered
      /\ UNCHANGED <<vars, sudoHistory>>
  BY DEF Elevate, StartCall, Authenticated
<1> USE DEF vars, store, locals, history, sudoHistory
<1>2. SudoTypeOK'
  <2>1. TypeOK'
    BY <1>1 DEF SudoTypeOK, TypeOK
  <2>2. QED
    BY <1>1, <2>1, SudoAssumption DEF SudoTypeOK, CallLabel, Grant
<1>3. CallsFit'
  BY <1>1 DEF CallInv, CallsFit, CallFits, SudoTypeOK
<1>4. MintsFit'
  <2>1. mints[s] + Cardinality(Minting(s)) < MaxMints
    BY DEF Elevate, Minting
  <2>2. Minting(s)' = Minting(s) \cup {c} /\ c \notin Minting(s)
    BY <1>1 DEF Minting, SudoTypeOK
  <2>3. \A t \in Session \ {s} : Minting(t)' = Minting(t)
    BY <1>1 DEF Minting, SudoTypeOK
  <2>4. Cardinality(Minting(s)') = Cardinality(Minting(s)) + 1
    BY <2>2, MintingIsFinite, FS_AddElement
  <2>5. mints[s] \in Nat /\ Cardinality(Minting(s)) \in Nat
    BY MintingIsFinite, SudoAssumption DEF SudoTypeOK
  <2>6. mints'[s] + Cardinality(Minting(s)') <= MaxMints
    BY <1>1, <2>1, <2>4, <2>5, SudoAssumption
  <2>7. \A t \in Session \ {s} : mints'[t] + Cardinality(Minting(t)') <= MaxMints
    BY <1>1, <2>3 DEF CallInv, MintsFit
  <2>8. QED
    BY <2>6, <2>7 DEF MintsFit
<1>5. GrantsAreMinted' /\ ReuseNeedsSharing'
  BY <1>1 DEF CallInv, GrantsAreMinted, Minted, Grant, ReuseNeedsSharing
<1>6. \A d \in Calls : \A g : Holds(d, g)' = Holds(d, g)
  BY <1>1 DEF Holds, Admitted, SudoTypeOK
<1>7. \A d \in Calls : \A g : Holds(d, g) => callPc'[d] = callPc[d]
  BY <1>1 DEF Holds, SudoTypeOK
<1>8. UnsharedIsUsedOnce'
  BY <1>1, <1>6, <1>7 DEF CallInv, UnsharedIsUsedOnce, UsedOnce, Stored, Grant
<1>9. QED
  BY <1>2, <1>3, <1>4, <1>5, <1>8 DEF KeepsCalls, CallInv

LEMMA OneShotKeeps ==
    ASSUME SudoTypeOK, CallInv, NEW c \in Calls, NEW s \in Session, OneShot(c, s)
    PROVE  KeepsCalls
<1> DEFINE g0 == Stored(s)
<1>1. /\ callPc[c] = "idle" /\ callPc' = [callPc EXCEPT ![c] = "mutate"]
      /\ callOf' = [callOf EXCEPT ![c] = s] /\ seen' = [seen EXCEPT ![c] = mints[s]]
      /\ s \in delivered /\ s \in grants
      /\ UNCHANGED <<vars, mints, used, reused, kept, late, abandoned>>
      /\ shared' = shared \cup {g \in {g0} : \E d \in Calls : Holds(d, g)}
  BY DEF OneShot, StartCall, Authenticated, Holds
<1> USE DEF vars, store, locals, history
<1>2. mints[s] \in 1..MaxMints
  BY <1>1, SudoAssumption DEF CallInv, GrantsAreMinted, SudoTypeOK
<1>3. g0 \in Grant /\ g0 \in Minted
  <2>1. g0 \in Grant /\ g0[1] = s /\ g0[2] = mints[s]
    BY <1>2 DEF Stored, Grant
  <2>2. QED
    BY <1>2, <2>1 DEF Minted
<1>4. shared' \subseteq Minted /\ shared \subseteq shared'
  BY <1>1, <1>3 DEF CallInv, GrantsAreMinted
<1>5. SudoTypeOK'
  <2>1. TypeOK'
    BY <1>1 DEF SudoTypeOK, TypeOK
  <2>2. shared' \subseteq Grant
    BY <1>4 DEF Minted
  <2>3. QED
    BY <1>1, <1>2, <2>1, <2>2, SudoAssumption DEF SudoTypeOK, CallLabel, Grant
<1>6. CallsFit'
  <2>1. \A d \in Calls \ {c} : CallFits(callPc[d], callOf[d], seen[d])'
    BY <1>1 DEF CallInv, CallsFit, CallFits, SudoTypeOK
  <2>2. CallFits(callPc[c], callOf[c], seen[c])'
    BY <1>1, <1>2 DEF CallFits, SudoTypeOK
  <2>3. QED
    BY <2>1, <2>2 DEF CallsFit
<1>7. MintsFit'
  BY <1>1, MintsFitKeeps DEF CallInv, SudoTypeOK
<1>8. GrantsAreMinted' /\ ReuseNeedsSharing'
  <2>1. Minted' = Minted
    BY <1>1 DEF Minted, Grant
  <2>2. QED
    BY <1>1, <1>4, <2>1 DEF CallInv, GrantsAreMinted, ReuseNeedsSharing
<1>9. \A d \in Calls : \A g : Holds(d, g)' <=> Holds(d, g) \/ (d = c /\ g = g0)
  BY <1>1 DEF Holds, Admitted, Stored, SudoTypeOK
<1>10. \A d \in Calls : \A g : Holds(d, g) => callPc'[d] = callPc[d] /\ d # c
  BY <1>1 DEF Holds, SudoTypeOK
<1>11. ASSUME NEW g \in Grant, g \notin shared' \cup kept' PROVE UsedOnce(g)'
  <2>1. UsedOnce(g)
    BY <1>1, <1>11 DEF CallInv, UnsharedIsUsedOnce
  <2>2. g = g0 => \A d \in Calls : ~ Holds(d, g)
    BY <1>1, <1>11
  <2>3. g = g0 => g \notin used
    BY <1>1, <2>1, <2>2 DEF UsedOnce, Stored
  <2>4. Stored(g[1])' = Stored(g[1])
    BY <1>1 DEF Stored
  <2>5. QED
    BY <1>1, <1>9, <1>10, <2>1, <2>2, <2>3, <2>4 DEF UsedOnce
<1>12. UnsharedIsUsedOnce'
  BY <1>11 DEF UnsharedIsUsedOnce, Grant
<1>13. QED
  BY <1>5, <1>6, <1>7, <1>8, <1>12 DEF KeepsCalls, CallInv

LEMMA MutateKeeps ==
    ASSUME SudoTypeOK, CallInv, NEW c \in Calls, Mutate(c)
    PROVE  KeepsCalls
<1> DEFINE g0 == Admitted(c)
<1>1. /\ callPc[c] = "mutate" /\ callPc' = [callPc EXCEPT ![c] = "take"]
      /\ UNCHANGED <<vars, callOf, seen, mints, shared, kept, late, abandoned>>
      /\ used' = used \cup {g0}
      /\ reused' = reused \cup ({g0} \cap used)
  BY DEF Mutate
<1> USE DEF vars, store, locals, history
<1>2. g0 \in Grant /\ g0 \in Minted
  BY <1>1, CallsAreSessions DEF CallInv
<1>3. SudoTypeOK'
  <2>1. TypeOK'
    BY <1>1 DEF SudoTypeOK, TypeOK
  <2>2. QED
    BY <1>1, <1>2, <2>1 DEF SudoTypeOK, CallLabel, Grant
<1>4. CallsFit' /\ MintsFit'
  <2>1. MintsFit'
    BY <1>1, MintsFitKeeps DEF CallInv, SudoTypeOK
  <2>2. QED
    BY <1>1, <2>1 DEF CallInv, CallsFit, CallFits, SudoTypeOK
<1>5. GrantsAreMinted'
  <2>1. Minted' = Minted
    BY <1>1 DEF Minted, Grant
  <2>2. QED
    BY <1>1, <1>2, <2>1 DEF CallInv, GrantsAreMinted
<1>6. Holds(c, g0) /\ \A d \in Calls : \A g : Holds(d, g)' = Holds(d, g)
  BY <1>1 DEF Holds, Admitted, SudoTypeOK
<1>7. ReuseNeedsSharing'
  <2>1. g0 \in used => g0 \in shared \cup kept
    BY <1>1, <1>2, <1>6 DEF CallInv, UnsharedIsUsedOnce, UsedOnce
  <2>2. QED
    BY <1>1, <2>1 DEF CallInv, ReuseNeedsSharing
<1>8. ASSUME NEW g \in Grant, g \notin shared' \cup kept' PROVE UsedOnce(g)'
  <2>1. UsedOnce(g)
    BY <1>1, <1>8 DEF CallInv, UnsharedIsUsedOnce
  <2>2. \A d \in Calls : Holds(d, g) => callPc'[d] = IF d = c THEN "take" ELSE callPc[d]
    BY <1>1 DEF SudoTypeOK
  <2>3. Stored(g[1])' = Stored(g[1])
    BY <1>1 DEF Stored
  <2>4. CASE g = g0
    BY <1>1, <1>6, <2>1, <2>2, <2>4 DEF UsedOnce
  <2>5. CASE g # g0
    BY <1>1, <1>6, <2>1, <2>2, <2>3, <2>5 DEF UsedOnce
  <2>6. QED
    BY <2>4, <2>5
<1>9. UnsharedIsUsedOnce'
  BY <1>8 DEF UnsharedIsUsedOnce, Grant
<1>10. QED
  BY <1>3, <1>4, <1>5, <1>7, <1>9 DEF KeepsCalls, CallInv

(* A call that ends, whatever became of its take: MutateFails, Take and    *)
(* TakeFails.                                                              *)
LEMMA EndKeeps ==
    ASSUME SudoTypeOK, CallInv, NEW c \in Calls,
           EndCall(c, "mutate") \/ EndCall(c, "take"),
           grants' \subseteq grants, kept \subseteq kept', kept' \subseteq kept \cup {Admitted(c)},
           callPc[c] = "mutate" \/ callOf[c] \notin grants' \/ Admitted(c) \in kept',
           UNCHANGED <<now, account, rows, mirrors, push, delivered, locals, faults,
                       history, mints, used, reused, shared, late, abandoned>>
    PROVE  KeepsCalls
<1> DEFINE g0 == Admitted(c)
<1>1. /\ callPc[c] \in {"mutate", "take"} /\ callPc' = [callPc EXCEPT ![c] = "idle"]
      /\ callOf' = [callOf EXCEPT ![c] = NoSession] /\ seen' = [seen EXCEPT ![c] = 0]
  BY DEF EndCall
<1> USE DEF locals, history
<1>2. g0 \in Grant /\ g0 \in Minted /\ g0[1] = callOf[c]
  BY <1>1, CallsAreSessions DEF CallInv, Admitted
<1>3. SudoTypeOK'
  <2>1. TypeOK'
    BY DEF SudoTypeOK, TypeOK
  <2>2. /\ callPc' \in [Calls -> CallLabel]
        /\ callOf' \in [Calls -> Session \cup {NoSession}]
        /\ seen' \in [Calls -> 0..MaxMints]
    BY <1>1, SudoAssumption DEF SudoTypeOK, CallLabel
  <2>3. QED
    BY <1>2, <2>1, <2>2 DEF SudoTypeOK, Grant
<1>4. CallsFit' /\ MintsFit'
  <2>1. MintsFit'
    BY <1>1, MintsFitKeeps DEF CallInv, SudoTypeOK
  <2>2. QED
    BY <1>1, <2>1 DEF CallInv, CallsFit, CallFits, SudoTypeOK
<1>5. GrantsAreMinted' /\ ReuseNeedsSharing'
  <2>1. Minted' = Minted
    BY DEF Minted, Grant
  <2>2. QED
    BY <1>2, <2>1 DEF CallInv, GrantsAreMinted, ReuseNeedsSharing
<1>6. \A d \in Calls : \A g : Holds(d, g)' <=> Holds(d, g) /\ d # c
  BY <1>1 DEF Holds, Admitted, SudoTypeOK
<1>7. \A d \in Calls \ {c} : callPc'[d] = callPc[d]
  BY <1>1 DEF SudoTypeOK
<1>8. ASSUME NEW g \in Grant, g \notin shared' \cup kept' PROVE UsedOnce(g)'
  <2>1. UsedOnce(g)
    BY <1>8 DEF CallInv, UnsharedIsUsedOnce
  <2>2. Stored(g[1])' = Stored(g[1])
    BY DEF Stored
  <2>3. g \in used /\ Holds(c, g) => g[1] \notin grants'
    BY <1>2, <1>8, <2>1 DEF UsedOnce, Holds
  <2>4. QED
    BY <1>6, <1>7, <2>1, <2>2, <2>3 DEF UsedOnce
<1>9. UnsharedIsUsedOnce'
  BY <1>8 DEF UnsharedIsUsedOnce, Grant
<1>10. QED
  BY <1>3, <1>4, <1>5, <1>9 DEF KeepsCalls, CallInv

LEMMA EndsKeep ==
    ASSUME SudoTypeOK, CallInv, NEW c \in Calls,
           MutateFails(c) \/ Take(c) \/ TakeFails(c)
    PROVE  KeepsCalls
<1>1. CASE MutateFails(c)
  <2>1. callPc[c] = "mutate"
    BY <1>1 DEF MutateFails, EndCall
  <2>2. QED
    BY <1>1, <2>1, EndKeeps DEF MutateFails, vars, store, sudoHistory
<1>2. CASE Take(c)
  BY <1>2, EndKeeps DEF Take, sudoHistory
<1>3. CASE TakeFails(c)
  BY <1>3, EndKeeps DEF TakeFails, vars, store
<1>4. QED
  BY <1>1, <1>2, <1>3

(* A mint gives the session a number that no call and no history has seen. *)
LEMMA MintKeeps ==
    ASSUME IInv, SudoTypeOK, CallInv, NEW c \in Calls, Mint(c)
    PROVE  KeepsCalls
<1>0. PICK s : s = callOf[c]
  OBVIOUS
<1>1. /\ callPc[c] = "mint" /\ callPc' = [callPc EXCEPT ![c] = "idle"]
      /\ callOf' = [callOf EXCEPT ![c] = NoSession] /\ seen' = [seen EXCEPT ![c] = 0]
      /\ grants' = grants \cup {s} /\ mints' = [mints EXCEPT ![s] = @ + 1]
      /\ late' \subseteq late \cup {s}
      /\ UNCHANGED <<now, account, rows, mirrors, push, delivered, locals, faults,
                     history, used, reused, shared, kept, abandoned>>
  BY <1>0 DEF Mint, EndCall
<1> USE DEF locals, history
<1>2. s \in Session /\ s \in delivered /\ rows[s] # "none"
  BY <1>0, <1>1, CallsAreSessions DEF CallInv, CallsFit, CallFits, IInv, RowsExist
<1>3. /\ Minting(s)' = Minting(s) \ {c} /\ c \in Minting(s)
      /\ \A t \in Session \ {s} : Minting(t)' = Minting(t)
  BY <1>0, <1>1 DEF Minting, SudoTypeOK
<1>4. /\ Cardinality(Minting(s)') = Cardinality(Minting(s)) - 1
      /\ Cardinality(Minting(s)) \in Nat /\ Cardinality(Minting(s)') \in Nat
  BY <1>3, MintingIsFinite, FS_RemoveElement, FS_CardinalityType
<1>5. mints[s] \in Nat /\ mints[s] + Cardinality(Minting(s)) <= MaxMints
  BY <1>2, SudoAssumption DEF CallInv, MintsFit, SudoTypeOK
<1>6. mints'[s] = mints[s] + 1 /\ mints'[s] \in 1..MaxMints
  BY <1>1, <1>2, <1>4, <1>5, SudoAssumption DEF SudoTypeOK
<1>7. /\ \A t \in Session \ {s} : mints'[t] = mints[t]
      /\ \A t \in Session : mints[t] \in Nat /\ mints'[t] \in Nat /\ mints[t] <= mints'[t]
  BY <1>1, <1>5, SudoAssumption DEF SudoTypeOK
<1>8. MintsFit'
  <2>1. \A t \in Session \ {s} : mints'[t] + Cardinality(Minting(t)') <= MaxMints
    BY <1>3, <1>7 DEF CallInv, MintsFit
  <2>2. mints'[s] + Cardinality(Minting(s)') <= MaxMints
    BY <1>4, <1>5, <1>6, SudoAssumption
  <2>3. QED
    BY <2>1, <2>2 DEF MintsFit
<1>9. SudoTypeOK'
  <2>1. TypeOK'
    BY <1>1, <1>2 DEF SudoTypeOK, TypeOK
  <2>2. /\ callPc' \in [Calls -> CallLabel]
        /\ callOf' \in [Calls -> Session \cup {NoSession}]
        /\ seen' \in [Calls -> 0..MaxMints]
    BY <1>1, SudoAssumption DEF SudoTypeOK, CallLabel
  <2>3. mints' \in [Session -> 0..MaxMints]
    BY <1>1, <1>6, SudoAssumption DEF SudoTypeOK
  <2>4. late' \subseteq Session
    BY <1>1, <1>2 DEF SudoTypeOK
  <2>5. QED
    BY <1>1, <2>1, <2>2, <2>3, <2>4 DEF SudoTypeOK, Grant
<1>10. CallsFit'
  <2>1. \A d \in Calls \ {c} : callPc[d] # "idle" => callOf[d] \in Session
    BY CallsAreSessions DEF CallInv
  <2>2. \A d \in Calls \ {c} : CallFits(callPc[d], callOf[d], seen[d])'
    <3>1. ASSUME NEW d \in Calls \ {c}
          PROVE  CallFits(callPc[d], callOf[d], seen[d])'
      <4>1. /\ callPc'[d] = callPc[d] /\ callOf'[d] = callOf[d] /\ seen'[d] = seen[d]
        BY <1>1 DEF SudoTypeOK
      <4>2. callPc[d] \in {"mutate", "take"} => seen[d] \in 1..mints'[callOf[d]]
        <5>1. ASSUME callPc[d] \in {"mutate", "take"}
              PROVE  seen[d] \in 1..mints'[callOf[d]]
          <6>1. callOf[d] \in Session /\ seen[d] \in 1..mints[callOf[d]]
            BY <2>1, <5>1 DEF CallInv, CallsFit, CallFits
          <6>2. QED
            BY <1>7, <6>1
        <5>2. QED
          BY <5>1
      <4>3. QED
        BY <1>1, <4>1, <4>2 DEF CallInv, CallsFit, CallFits
    <3>2. QED
      BY <3>1
  <2>3. CallFits(callPc[c], callOf[c], seen[c])'
    BY <1>1 DEF CallFits, SudoTypeOK
  <2>4. QED
    BY <2>2, <2>3 DEF CallsFit
<1>11. Minted \subseteq Minted'
  <2>1. ASSUME NEW g \in Minted PROVE g \in Minted'
    <3>1. g \in Grant /\ g[1] \in Session /\ g[2] \in Nat /\ g[2] <= mints[g[1]]
      BY <2>1, SudoAssumption DEF Minted, Grant
    <3>2. g[2] <= mints'[g[1]]
      BY <1>7, <3>1
    <3>3. QED
      BY <3>1, <3>2 DEF Minted, Grant
  <2>2. QED
    BY <2>1
<1>12. GrantsAreMinted'
  <2>1. \A t \in grants' : mints'[t] # 0 /\ rows'[t] # "none"
    BY <1>1, <1>2, <1>6, <1>7 DEF CallInv, GrantsAreMinted, SudoTypeOK, TypeOK
  <2>2. QED
    BY <1>1, <1>11, <2>1 DEF CallInv, GrantsAreMinted
<1>13. \A t \in Session : Stored(t)' \in Minted => t # s /\ Stored(t)' = Stored(t)
  <2>1. Stored(s)'[1] = s /\ Stored(s)'[2] = mints[s] + 1
    BY <1>6 DEF Stored
  <2>2. Stored(s)' \notin Minted
    BY <1>5, <2>1 DEF Minted
  <2>3. \A t \in Session \ {s} : Stored(t)' = Stored(t)
    BY <1>7 DEF Stored
  <2>4. QED
    BY <2>2, <2>3
<1>14. grants' \subseteq Session
  BY <1>1, <1>2 DEF SudoTypeOK, TypeOK
<1>15. ReuseNeedsSharing'
  BY <1>1 DEF CallInv, ReuseNeedsSharing
<1>16. \A d \in Calls : \A g : Holds(d, g)' = Holds(d, g)
  BY <1>1 DEF Holds, Admitted, SudoTypeOK
<1>17. \A d \in Calls : \A g : Holds(d, g) => callPc'[d] = callPc[d]
  BY <1>1 DEF Holds, SudoTypeOK
<1>18. ASSUME NEW g \in Grant, g \notin shared' \cup kept' PROVE UsedOnce(g)'
  <2>1. UsedOnce(g)
    BY <1>1, <1>18 DEF CallInv, UnsharedIsUsedOnce
  <2>2. g \in used /\ g[1] \in grants' /\ Stored(g[1])' = g
           => g[1] \in grants /\ Stored(g[1]) = g
    <3>1. g \in used => g \in Minted
      BY DEF CallInv, GrantsAreMinted
    <3>2. QED
      BY <1>1, <1>13, <1>14, <3>1
  <2>3. QED
    BY <1>1, <1>16, <1>17, <2>1, <2>2 DEF UsedOnce
<1>19. UnsharedIsUsedOnce'
  BY <1>18 DEF UnsharedIsUsedOnce, Grant
<1>20. QED
  BY <1>8, <1>9, <1>10, <1>12, <1>15, <1>19 DEF KeepsCalls, CallInv

-------------------------------------------------------------------------------
(* A call that only removes grants leaves the handlers' duties alone; one  *)
(* that mints a grant nobody has to answer for is not Due.                 *)

LEMMA CallsKeepDuties ==
    ASSUME IInv, GrantInv, CoreKeeps, late \subseteq late', abandoned' = abandoned,
           \A s \in grants' \ grants :
               s \in late' \/ (rows[s] = "live" /\ \A r \in Requests : owner[r] # s.user)
    PROVE  GrantInv'
<1> USE DEF CoreKeeps
<1>1. SubjectsAreOwned'
  BY DEF GrantInv, SubjectsAreOwned
<1>2. ASSUME NEW s \in Session, Due(s)'
      PROVE  /\ rows'[s] = "revoked" => \E r \in Requests : Answers(r, s)'
             /\ \A r \in Requests : Taken(r, s)'
  <2>1. CASE s \in grants
    <3>1. Due(s)
      BY <1>2, <2>1 DEF Due
    <3>2. QED
      BY <3>1 DEF GrantInv, HandlersTakeGrants, Answers, Taken
  <2>2. CASE s \notin grants
    <3>1. rows[s] = "live" /\ \A r \in Requests : owner[r] # s.user
      BY <1>2, <2>2 DEF Due
    <3>2. \A r \in Requests : pc[r] \in {"rotRevoke", "outRevoke"} => subject[r] # s
      BY <3>1 DEF GrantInv, SubjectsAreOwned, Owning
    <3>3. QED
      BY <3>1, <3>2 DEF Taken
  <2>3. QED
    BY <2>1, <2>2
<1>3. HandlersTakeGrants'
  BY <1>2 DEF HandlersTakeGrants
<1>4. QED
  BY <1>1, <1>3 DEF GrantInv

LEMMA CallStepKeeps ==
    ASSUME SudoInv, NEW c \in Calls, CallStep(c) PROVE SudoInv'
<1> USE DEF SudoInv
<1>1. CoreKeeps /\ late \subseteq late' /\ abandoned' = abandoned
  <2>1. CASE \E s \in Session : Elevate(c, s) \/ OneShot(c, s)
    BY <2>1 DEF CoreKeeps, Elevate, OneShot, StartCall, sudoHistory, vars, store,
                locals, history, IInv, TypeOK
  <2>2. CASE Mint(c)
    <3>1. callOf[c] \in Session
      BY <2>2, CallsAreSessions DEF Mint, EndCall, CallInv
    <3>2. QED
      BY <2>2, <3>1 DEF CoreKeeps, Mint, locals, history, IInv, TypeOK
  <2>3. CASE Mutate(c) \/ MutateFails(c) \/ Take(c) \/ TakeFails(c)
    BY <2>3 DEF CoreKeeps, Mutate, MutateFails, Take, TakeFails, sudoHistory, vars,
                store, locals, history, IInv, TypeOK
  <2>4. QED
    BY <2>1, <2>2, <2>3 DEF CallStep
<1>2. \A s \in grants' \ grants :
          s \in late' \/ (rows[s] = "live" /\ \A r \in Requests : owner[r] # s.user)
  <2>1. CASE \E s \in Session : Elevate(c, s) \/ OneShot(c, s)
    BY <2>1 DEF Elevate, OneShot, StartCall, vars, store
  <2>2. CASE Mint(c)
    BY <2>2 DEF Mint
  <2>3. CASE Mutate(c) \/ MutateFails(c) \/ Take(c) \/ TakeFails(c)
    BY <2>3 DEF Mutate, MutateFails, Take, TakeFails, vars, store
  <2>4. QED
    BY <2>1, <2>2, <2>3 DEF CallStep
<1>3. IInv' /\ GrantInv'
  BY <1>1, <1>2, CoreKeepsIInv, CallsKeepDuties
<1>4. KeepsCalls
  BY ElevateKeeps, OneShotKeeps, MintKeeps, MutateKeeps, EndsKeep DEF CallStep
<1>5. QED
  BY <1>3, <1>4 DEF KeepsCalls

(* DELETE /sudo, a grant's TTL and the registration of a push token.       *)
LEMMA OutsideCallsKeeps ==
    ASSUME SudoInv, NEW s \in Session,
           ClearSudo(s) \/ ExpireGrant(s) \/ RegisterPush(s)
    PROVE  SudoInv'
<1> USE DEF SudoInv
<1>1. CoreKeeps /\ grants' \subseteq grants /\ UNCHANGED sudoVars
  BY DEF ClearSudo, ExpireGrant, RegisterPush, CoreKeeps, locals, history,
         IInv, TypeOK, Session
<1>2. IInv' /\ GrantInv'
  BY <1>1, CoreKeepsIInv, CallsKeepDuties DEF sudoVars, sudoHistory
<1>3. Shrinks /\ RowsMoveForward
  BY <1>1, SessionsAssumption DEF Shrinks, RowsMoveForward, CoreKeeps, IInv, TypeOK
<1>4. KeepsCalls
  BY <1>1, <1>2, <1>3, GrantsShrinkKeeps DEF IInv, SudoTypeOK, sudoVars, sudoHistory
<1>5. QED
  BY <1>2, <1>4 DEF KeepsCalls

(* A step of a handler, after which a session is abandoned if it was the   *)
(* end of the revokeOne that answered for its grant.                       *)
LEMMA HandlersKeep ==
    ASSUME SudoInv, [Next]_vars, abandoned \subseteq abandoned', abandoned' \subseteq Session,
           \A r \in Requests, s \in Session :
               Answers(r, s) /\ pc'[r] = "failed" => s \in abandoned',
           UNCHANGED <<callVars, mints, used, reused, shared, kept, late>>
    PROVE  SudoInv'
<1> USE DEF SudoInv
<1>1. IInv' /\ Shrinks /\ RowsMoveForward
  BY SessionStepKeeps, HandlersShrinkGrants, RowsForward DEF IInv
<1>2. KeepsCalls
  BY <1>1, GrantsShrinkKeeps DEF IInv
<1>3. \A s \in grants : rows[s] # "none"
  BY DEF CallInv, GrantsAreMinted
<1>4. GrantInv'
  BY <1>3, HandlersStep, SubjectsStep DEF GrantInv
<1>5. QED
  BY <1>1, <1>2, <1>4 DEF KeepsCalls

LEMMA InitSudoInv == SudoInit => SudoInv
<1> SUFFICES ASSUME SudoInit PROVE SudoInv
  OBVIOUS
<1> USE DEF SudoInit
<1>1. IInv
  BY InitIInv
<1>2. SudoTypeOK
  BY <1>1, SudoAssumption DEF IInv, SudoTypeOK, CallLabel
<1>3. MintsFit
  <2>1. \A s : Minting(s) = {}
    BY DEF Minting
  <2>2. Cardinality({}) = 0
    BY FS_EmptySet
  <2>3. QED
    BY <2>1, <2>2, SudoAssumption DEF MintsFit
<1>4. CallInv
  BY <1>3 DEF CallInv, CallsFit, CallFits, GrantsAreMinted, ReuseNeedsSharing,
              UnsharedIsUsedOnce, UsedOnce, Holds, Init
<1>5. GrantInv
  BY DEF GrantInv, SubjectsAreOwned, Owning, HandlersTakeGrants, Due, Init
<1>6. QED
  BY <1>1, <1>2, <1>4, <1>5 DEF SudoInv

(* What the calls and the handlers keep between them: which calls hold a   *)
(* grant and which handlers have still to delete one (SudoService and      *)
(* TokenService on the same Redis keys).                                   *)
THEOREM SudoInvariance == SudoSpec => []SudoInv
<1>1. SudoInit => SudoInv
  BY InitSudoInv
<1>2. SudoInv /\ [SudoNext]_allVars => SudoInv'
  <2> SUFFICES ASSUME SudoInv, [SudoNext]_allVars PROVE SudoInv'
    OBVIOUS
  <2>0. abandoned \subseteq Session
    BY DEF SudoInv, SudoTypeOK
  <2>1. CASE \E c \in Calls : CallStep(c)
    BY <2>1, CallStepKeeps
  <2>2. CASE \E s \in Session : ClearSudo(s) \/ ExpireGrant(s) \/ RegisterPush(s)
    BY <2>2, OutsideCallsKeeps
  <2>3. CASE HandlerStep
    <3>1. abandoned \subseteq abandoned' /\ abandoned' \subseteq Session
      BY <2>0, <2>3 DEF HandlerStep
    <3>2. ASSUME NEW r \in Requests, NEW s \in Session, Answers(r, s), pc'[r] = "failed"
          PROVE  s \in abandoned'
      BY <2>3, <3>2 DEF HandlerStep, Answers
    <3>3. QED
      BY <2>3, <3>1, <3>2, HandlersKeep DEF HandlerStep
  <2>4. CASE UNCHANGED allVars
    <3>1. UNCHANGED vars /\ UNCHANGED <<sudoVars, pc>>
      BY <2>4 DEF allVars, vars, locals
    <3>2. \A r \in Requests : pc[r] \in Owing => pc'[r] # "failed"
      BY <3>1 DEF Owing
    <3>3. QED
      BY <2>0, <3>1, <3>2, HandlersKeep DEF sudoVars, sudoHistory, Answers
  <2>5. QED
    BY <2>1, <2>2, <2>3, <2>4 DEF SudoNext
<1>3. QED
  BY <1>1, <1>2, PTL DEF SudoSpec

(* Every variable of the composition keeps its type; that mints stays      *)
(* within its bound rests on the calls that are still going to mint.       *)
THEOREM SudoTypes == SudoSpec => []SudoTypeOK
<1>1. SudoInv => SudoTypeOK
  BY DEF SudoInv
<1>2. QED
  BY <1>1, SudoInvariance, PTL

(* A grant admits a second one-shot mutation only if two calls held it at  *)
(* once or its take failed (SudoGuard and SudoConsumeInterceptor).         *)
THEOREM SecondUseNeedsSharing == SudoSpec => []ReuseNeedsSharing
<1>1. SudoInv => ReuseNeedsSharing
  BY DEF SudoInv, CallInv
<1>2. QED
  BY <1>1, SudoInvariance, PTL

(* Closing a session takes its grant along, whichever handler dies where,  *)
(* but for three: an elevation that overlaps the closing, a revokeOne that *)
(* has not come to its delete or dies before it, and a session that has    *)
(* already expired (TokenService.rotate, revoke, revokeAllForUser;         *)
(* SessionService.revokeOne).                                              *)
THEOREM ClosingTakesTheGrant == SudoSpec => []ClosedSessionHasNoGrant
<1>1. SudoInv => ClosedSessionHasNoGrant
  <2> SUFFICES ASSUME SudoInv, NEW s \in closed \cap grants,
                      s \notin late \cup abandoned, ~ (now >= s.iat + RefreshTtl)
               PROVE  \E r \in Requests : pc[r] \in Owing /\ subject[r] = s
    BY DEF ClosedSessionHasNoGrant
  <2>1. s \in Session /\ rows[s] = "revoked"
    BY DEF SudoInv, SudoTypeOK, TypeOK, IInv, ClosedIsFinal
  <2>2. now < s.iat + RefreshTtl
    <3>1. now \in Nat /\ s.iat \in Nat
      BY <2>1, SessionsAssumption DEF SudoInv, SudoTypeOK, TypeOK, Session
    <3>2. QED
      BY <3>1, SessionsAssumption
  <2>3. Due(s)
    BY <2>2 DEF Due
  <2>4. QED
    BY <2>1, <2>3 DEF SudoInv, GrantInv, HandlersTakeGrants, Answers
<1>2. QED
  BY <1>1, SudoInvariance, PTL

(* What Sessions promises of the session table holds with the calls of     *)
(* Sudo interleaved: they share its grants and nothing else of it.         *)
THEOREM SessionsKeepTheirPromises ==
    SudoSpec => [](ClosedIsFinal /\ ForkNeedsOverlap /\ SuccessorRetiresParent)
<1>1. SudoInv => ClosedIsFinal /\ ForkNeedsOverlap /\ SuccessorRetiresParent
  BY DEF SudoInv, IInv
<1>2. QED
  BY <1>1, SudoInvariance, PTL
===============================================================================

---------------------------- MODULE SessionsProofs ----------------------------
(***************************************************************************)
(* Theorems about Sessions, for every number of accounts, requests,        *)
(* seconds and faults.                                                     *)
(***************************************************************************)
EXTENDS Sessions, TLAPS

(* Where a request keeps its owner and its subject: every label but "idle" *)
(* has a user, and the labels below have a session.                        *)
WithSubject == {"rotFind", "rotGrant", "rotRevoke", "rotMirror",
                "setMirror", "reply", "outGrant", "outRevoke", "outMirror",
                "oneRevoke", "oneMirror", "oneGrant"}

LocalsOK ==
    \A r \in Requests :
        /\ pc[r] # "idle" => owner[r] \in Users
        /\ pc[r] \in WithSubject => subject[r] \in Session

-------------------------------------------------------------------------------
(* Types. *)

LEMMA InitTypes == Init => TypeOK /\ LocalsOK
  BY SessionsAssumption
     DEF Init, TypeOK, LocalsOK, Label, WithSubject, Rotating, Cutting

LEMMA StartTypes ==
    ASSUME TypeOK, LocalsOK, NEW r \in Requests, Start(r)
    PROVE  TypeOK' /\ LocalsOK'
<1> USE SessionsAssumption
    DEF TypeOK, LocalsOK, Label, WithSubject, Rotating, Cutting, store, history,
        Begin, Session
<1>1. CASE \E u \in Users : Login(r, u)
  BY <1>1 DEF Login
<1>2. CASE \E u \in Users : Block(r, u)
  BY <1>2 DEF Block
<1>3. CASE \E s \in Session : Refresh(r, s)
  BY <1>3 DEF Refresh
<1>4. CASE \E s \in Session : LogoutAll(r, s)
  BY <1>4 DEF LogoutAll
<1>5. CASE \E s \in Session : Logout(r, s)
  BY <1>5 DEF Logout
<1>6. CASE \E s, target \in Session : RevokeOne(r, s, target)
  BY <1>6 DEF RevokeOne
<1>7. QED
  BY <1>1, <1>2, <1>3, <1>4, <1>5, <1>6 DEF Start

LEMMA ContinueTypes ==
    ASSUME TypeOK, LocalsOK, NEW r \in Requests, Continue(r)
    PROVE  TypeOK' /\ LocalsOK'
<1> USE SessionsAssumption
    DEF TypeOK, LocalsOK, Label, WithSubject, Rotating, Cutting, store, history,
        Step, Finish, Revoke, Close
<1>1. CASE Issue(r)
  <2>1. [user |-> owner[r], iat |-> now] \in Session
    BY <1>1 DEF Issue, Session
  <2>2. QED
    BY <1>1, <2>1 DEF Issue
<1>2. CASE IssueConflict(r) \/ Answer(r)
  BY <1>2 DEF IssueConflict, Answer
<1>3. CASE SetMirror(r)
  BY <1>3 DEF SetMirror
<1>4. CASE Reply(r)
  BY <1>4 DEF Reply
<1>5. CASE RotateFind(r)
  BY <1>5 DEF RotateFind
<1>6. CASE RotateReuse(r)
  BY <1>6 DEF RotateReuse
<1>7. CASE RotateGrant(r)
  BY <1>7 DEF RotateGrant
<1>8. CASE RotateRevoke(r)
  BY <1>8 DEF RotateRevoke
<1>9. CASE RotateMirror(r)
  BY <1>9 DEF RotateMirror
<1>10. CASE CutList(r)
  BY <1>10 DEF CutList
<1>11. CASE CutRows(r)
  BY <1>11 DEF CutRows
<1>12. CASE CutPush(r)
  BY <1>12 DEF CutPush
<1>13. CASE \E s \in Session : CutGrant(r, s)
  BY <1>13 DEF CutGrant
<1>14. CASE \E s \in Session : CutMirror(r, s)
  BY <1>14 DEF CutMirror
<1>15. CASE LogoutGrant(r) \/ OneGrant(r)
  BY <1>15 DEF LogoutGrant, OneGrant
<1>16. CASE LogoutRevoke(r) \/ OneRevoke(r)
  BY <1>16 DEF LogoutRevoke, OneRevoke
<1>17. CASE LogoutMirror(r)
  BY <1>17 DEF LogoutMirror
<1>18. CASE OneMirror(r)
  BY <1>18 DEF OneMirror
<1>19. QED
  BY <1>1, <1>2, <1>3, <1>4, <1>5, <1>6, <1>7, <1>8, <1>9, <1>10, <1>11,
     <1>12, <1>13, <1>14, <1>15, <1>16, <1>17, <1>18 DEF Continue

LEMMA EnvironmentTypes ==
    ASSUME TypeOK, LocalsOK, Environment
    PROVE  TypeOK' /\ LocalsOK'
<1> USE SessionsAssumption DEF TypeOK, LocalsOK, store, history, locals
<1>1. CASE Tick
  BY <1>1 DEF Tick
<1>2. CASE \E u \in Users : Reinstate(u)
  BY <1>2 DEF Reinstate
<1>3. CASE \E s \in Session : ExpireMirror(s)
  BY <1>3 DEF ExpireMirror
<1>4. QED
  BY <1>1, <1>2, <1>3 DEF Environment

LEMMA TypesStep ==
    ASSUME TypeOK, LocalsOK, [Next]_vars
    PROVE  TypeOK' /\ LocalsOK'
<1>1. CASE \E r \in Requests : Start(r)
  BY <1>1, StartTypes
<1>2. CASE \E r \in Requests : Continue(r)
  BY <1>2, ContinueTypes
<1>3. CASE \E r \in Requests : Fault(r)
  BY <1>3, SessionsAssumption
     DEF Fault, TypeOK, LocalsOK, Label, WithSubject, Rotating, Cutting,
         store, history
<1>4. CASE Environment
  BY <1>4, EnvironmentTypes
<1>5. CASE UNCHANGED vars
  BY <1>5 DEF TypeOK, LocalsOK, vars, store, history, locals
<1>6. QED
  BY <1>1, <1>2, <1>3, <1>4, <1>5 DEF Next

(* Every variable of Sessions keeps its type, and a request that has a     *)
(* user or a session to work on keeps it until it ends.                    *)
THEOREM TypeCorrect == Spec => []TypeOK
<1>1. Init => TypeOK /\ LocalsOK
  BY InitTypes
<1>2. TypeOK /\ LocalsOK /\ [Next]_vars => (TypeOK /\ LocalsOK)'
  BY TypesStep
<1>3. QED
  BY <1>1, <1>2, PTL DEF Spec

-------------------------------------------------------------------------------
(* Rows only move forward: none, live, revoked. *)

RowsMoveForward ==
    \A s \in Session :
        /\ rows[s] # "none" => rows'[s] # "none"
        /\ rows[s] = "revoked" => rows'[s] = "revoked"

LEMMA RevokeMovesForward ==
    ASSUME NEW S, Revoke(S) PROVE RowsMoveForward
  BY DEF Revoke, RowsMoveForward

(* No handler of the module takes a row back, whatever it is interleaved   *)
(* with: updateMany asks for revokedAt = null and create for an unused     *)
(* hash.                                                                   *)
LEMMA RowsForward ==
    ASSUME TypeOK, LocalsOK, [Next]_vars PROVE RowsMoveForward
<1>1. CASE UNCHANGED rows
  BY <1>1 DEF RowsMoveForward
<1>2. CASE \E S : Revoke(S)
  BY <1>2, RevokeMovesForward
<1>3. CASE \E r \in Requests : Issue(r)
  BY <1>3 DEF Issue, RowsMoveForward, TypeOK
<1>4. \/ UNCHANGED rows
      \/ \E S : Revoke(S)
      \/ \E r \in Requests : Issue(r)
  <2>1. CASE \E r \in Requests : Start(r)
    BY <2>1 DEF Start, Login, Block, Refresh, LogoutAll, Logout, RevokeOne,
                store, history
  <2>2. CASE \E r \in Requests : Continue(r)
    BY <2>2 DEF Continue, IssueConflict, SetMirror, Reply, RotateFind,
                RotateReuse, RotateGrant, RotateRevoke, RotateMirror, CutList,
                CutGrant, CutRows, CutMirror, CutPush, LogoutGrant,
                LogoutRevoke, LogoutMirror, OneRevoke, OneMirror, OneGrant,
                Answer, store, history
  <2>3. CASE \E r \in Requests : Fault(r)
    BY <2>3 DEF Fault, store
  <2>4. CASE Environment
    BY <2>4 DEF Environment, Tick, Reinstate, ExpireMirror, store
  <2>5. CASE UNCHANGED vars
    BY <2>5 DEF vars, store
  <2>6. QED
    BY <2>1, <2>2, <2>3, <2>4, <2>5 DEF Next
<1>5. QED
  BY <1>1, <1>2, <1>3, <1>4

-------------------------------------------------------------------------------
(* The inductive invariant, part by part. *)

(* A handler holds a session only if its row exists; so does a client. *)
RowsExist ==
    /\ \A r \in Requests : pc[r] \in WithSubject => rows[subject[r]] # "none"
    /\ \A r \in Requests : pc[r] = "cutGrants" =>
          \A s \in listed[r] : s.user = owner[r] /\ rows[s] # "none"
    /\ \A s \in delivered : rows[s] # "none"
    /\ \A s \in Session : rows[s] = "none" => parent[s] = NoSession

(* Past its revoke, a handler works on a revoked row. *)
RevokedBehind ==
    /\ \A r \in Requests :
          pc[r] \in {"rotMirror", "outMirror", "oneMirror"} =>
              rows[subject[r]] = "revoked"
    /\ \A r \in Requests :
          (pc[r] = "issue" /\ subject[r] # NoSession) =>
              rows[subject[r]] = "revoked"
    /\ \A r \in Requests : pc[r] = "cutMirrors" =>
          \A s \in todo[r] : rows[s] = "revoked"

(* One handler opens a session, and its client waits for it. *)
Opening == {"setMirror", "reply"}
OneOpener ==
    /\ \A r, q \in Requests :
          (pc[r] \in Opening /\ pc[q] \in Opening /\ subject[r] = subject[q])
              => r = q
    /\ \A r \in Requests : pc[r] \in Opening => subject[r] \notin delivered

(* A token outside overlap has one rotation in progress or one successor. *)
Redeems(r, t) == pc[r] \in Rotating /\ subject[r] = t
OneRedeemer ==
    \A t \in Session \ overlap :
        /\ \A r, q \in Requests : (Redeems(r, t) /\ Redeems(q, t)) => r = q
        /\ \A r \in Requests, s \in Session :
              Redeems(r, t) => parent[s] # t

IInv ==
    /\ TypeOK /\ LocalsOK
    /\ RowsExist /\ RevokedBehind /\ OneOpener /\ OneRedeemer
    /\ closed \subseteq delivered
    /\ SuccessorRetiresParent /\ ForkNeedsOverlap /\ ClosedIsFinal

LEMMA InitIInv == Init => IInv
  BY InitTypes
     DEF IInv, Init, RowsExist, RevokedBehind, OneOpener, OneRedeemer, Redeems,
         Opening, WithSubject, Rotating, SuccessorRetiresParent,
         ForkNeedsOverlap, ClosedIsFinal

(* The requests other than r keep their label and their local variables. *)
OthersKeep(r) ==
    \A q \in Requests \ {r} :
        /\ pc'[q] = pc[q] /\ owner'[q] = owner[q] /\ subject'[q] = subject[q]
        /\ listed'[q] = listed[q] /\ todo'[q] = todo[q]

LEMMA OneRequestMoves ==
    ASSUME TypeOK, NEW r \in Requests, Start(r) \/ Continue(r) \/ Fault(r)
    PROVE  OthersKeep(r)
<1> USE DEF TypeOK, OthersKeep, Begin, Step, Finish
<1>1. CASE Start(r)
  BY <1>1 DEF Start, Login, Block, Refresh, LogoutAll, Logout, RevokeOne
<1>2. CASE Continue(r)
  BY <1>2 DEF Continue, Issue, IssueConflict, SetMirror, Reply, RotateFind,
              RotateReuse, RotateGrant, RotateRevoke, RotateMirror, CutList,
              CutGrant, CutRows, CutMirror, CutPush, LogoutGrant, LogoutRevoke,
              LogoutMirror, OneRevoke, OneMirror, OneGrant, Answer
<1>3. CASE Fault(r)
  BY <1>3 DEF Fault
<1>4. QED
  BY <1>1, <1>2, <1>3

LEMMA EnvironmentKeepsLocals ==
    ASSUME Environment \/ UNCHANGED vars
    PROVE  UNCHANGED <<pc, owner, subject, listed, todo, delivered, parent,
                       overlap, closed, rows>>
  BY DEF Environment, Tick, Reinstate, ExpireMirror, vars, locals, history, store

-------------------------------------------------------------------------------
LEMMA RowsExistStep ==
    ASSUME IInv, [Next]_vars PROVE RowsExist'
<1> USE DEF IInv, TypeOK, LocalsOK, RowsExist, RowsMoveForward, WithSubject
<1>1. RowsMoveForward
  BY RowsForward
<1>2. CASE Environment \/ UNCHANGED vars
  BY <1>2, EnvironmentKeepsLocals
<1>3. ASSUME NEW r \in Requests, Start(r) \/ Continue(r) \/ Fault(r)
      PROVE  RowsExist'
  <2>0. OthersKeep(r)
    BY <1>3, OneRequestMoves
  <2> USE <1>1, <2>0 DEF OthersKeep, Begin, Step, Finish, store, history, Active
  <2>1. CASE Start(r)
    BY <2>1 DEF Start, Login, Block, Refresh, LogoutAll, Logout, RevokeOne
  <2>2. CASE Issue(r)
    <3> DEFINE s == [user |-> owner[r], iat |-> now]
    <3>1. /\ pc'[r] = "setMirror" /\ subject'[r] = s /\ rows'[s] = "live"
          /\ s \in Session
          /\ \A x \in Session \ {s} : rows'[x] = rows[x] /\ parent'[x] = parent[x]
          /\ UNCHANGED <<delivered, listed>>
      BY <2>2 DEF Issue, Session
    <3>2. QED
      BY <3>1
  <2>3. CASE Reply(r)
    BY <2>3 DEF Reply
  <2>4. CASE CutList(r)
    BY <2>4 DEF CutList
  <2>5. CASE \E s \in Session : CutGrant(r, s) \/ CutMirror(r, s)
    BY <2>5 DEF CutGrant, CutMirror
  <2>6. CASE IssueConflict(r) \/ SetMirror(r) \/ Answer(r) \/ CutRows(r)
             \/ CutPush(r)
    BY <2>6 DEF IssueConflict, SetMirror, Answer, CutRows, CutPush
  <2>7. CASE RotateFind(r) \/ RotateReuse(r) \/ RotateGrant(r)
             \/ RotateRevoke(r) \/ RotateMirror(r)
    BY <2>7 DEF RotateFind, RotateReuse, RotateGrant, RotateRevoke, RotateMirror
  <2>8. CASE LogoutGrant(r) \/ LogoutRevoke(r) \/ LogoutMirror(r)
             \/ OneRevoke(r) \/ OneMirror(r) \/ OneGrant(r)
    BY <2>8 DEF LogoutGrant, LogoutRevoke, LogoutMirror, OneRevoke, OneMirror,
                OneGrant
  <2>9. CASE Fault(r)
    BY <2>9 DEF Fault
  <2>10. QED
    BY <1>3, <2>1, <2>2, <2>3, <2>4, <2>5, <2>6, <2>7, <2>8, <2>9 DEF Continue
<1>4. QED
  BY <1>2, <1>3 DEF Next

LEMMA RevokedBehindStep ==
    ASSUME IInv, [Next]_vars PROVE RevokedBehind'
<1> USE DEF IInv, TypeOK, LocalsOK, RevokedBehind, RowsMoveForward, WithSubject
<1>1. RowsMoveForward
  BY RowsForward
<1>2. CASE Environment \/ UNCHANGED vars
  BY <1>2, EnvironmentKeepsLocals
<1>3. ASSUME NEW r \in Requests, Start(r) \/ Continue(r) \/ Fault(r)
      PROVE  RevokedBehind'
  <2>0. OthersKeep(r)
    BY <1>3, OneRequestMoves
  <2> USE <1>1, <2>0 DEF OthersKeep, Begin, Step, Finish, store, history
  <2>1. CASE Start(r)
    BY <2>1 DEF Start, Login, Block, Refresh, LogoutAll, Logout, RevokeOne
  <2>2. CASE RotateRevoke(r) \/ LogoutRevoke(r) \/ OneRevoke(r)
    BY <2>2 DEF RotateRevoke, LogoutRevoke, OneRevoke, Revoke, RowsExist
  <2>3. CASE RotateMirror(r)
    BY <2>3 DEF RotateMirror
  <2>4. CASE CutRows(r)
    BY <2>4 DEF CutRows, Revoke, RowsExist
  <2>5. CASE \E s \in Session : CutGrant(r, s) \/ CutMirror(r, s)
    BY <2>5 DEF CutGrant, CutMirror
  <2>6. CASE CutList(r) \/ CutPush(r) \/ Issue(r) \/ IssueConflict(r)
             \/ SetMirror(r) \/ Reply(r) \/ Answer(r)
    BY <2>6 DEF CutList, CutPush, Issue, IssueConflict, SetMirror, Reply, Answer
  <2>7. CASE RotateFind(r) \/ RotateReuse(r) \/ RotateGrant(r)
             \/ LogoutGrant(r) \/ LogoutMirror(r) \/ OneMirror(r) \/ OneGrant(r)
    BY <2>7 DEF RotateFind, RotateReuse, RotateGrant, LogoutGrant, LogoutMirror,
                OneMirror, OneGrant
  <2>8. CASE Fault(r)
    BY <2>8 DEF Fault
  <2>9. QED
    BY <1>3, <2>1, <2>2, <2>3, <2>4, <2>5, <2>6, <2>7, <2>8 DEF Continue
<1>4. QED
  BY <1>2, <1>3 DEF Next

LEMMA OneOpenerStep ==
    ASSUME IInv, [Next]_vars PROVE OneOpener'
<1> USE DEF IInv, TypeOK, LocalsOK, OneOpener, Opening, WithSubject
<1>1. CASE Environment \/ UNCHANGED vars
  BY <1>1, EnvironmentKeepsLocals
<1>2. ASSUME NEW r \in Requests, Start(r) \/ Continue(r) \/ Fault(r)
      PROVE  OneOpener'
  <2>0. OthersKeep(r)
    BY <1>2, OneRequestMoves
  <2> USE <2>0 DEF OthersKeep, Begin, Step, Finish, store, history
  <2>1. CASE Start(r)
    BY <2>1 DEF Start, Login, Block, Refresh, LogoutAll, Logout, RevokeOne
  <2>2. CASE Issue(r)
    BY <2>2 DEF Issue, RowsExist
  <2>3. CASE SetMirror(r)
    BY <2>3 DEF SetMirror
  <2>4. CASE Reply(r)
    BY <2>4 DEF Reply
  <2>5. CASE \E s \in Session : CutGrant(r, s) \/ CutMirror(r, s)
    BY <2>5 DEF CutGrant, CutMirror
  <2>6. CASE CutList(r) \/ CutRows(r) \/ CutPush(r) \/ IssueConflict(r)
             \/ Answer(r)
    BY <2>6 DEF CutList, CutRows, CutPush, IssueConflict, Answer
  <2>7. CASE RotateFind(r) \/ RotateReuse(r) \/ RotateGrant(r)
             \/ RotateRevoke(r) \/ RotateMirror(r)
    BY <2>7 DEF RotateFind, RotateReuse, RotateGrant, RotateRevoke, RotateMirror
  <2>8. CASE LogoutGrant(r) \/ LogoutRevoke(r) \/ LogoutMirror(r)
             \/ OneRevoke(r) \/ OneMirror(r) \/ OneGrant(r)
    BY <2>8 DEF LogoutGrant, LogoutRevoke, LogoutMirror, OneRevoke, OneMirror,
                OneGrant
  <2>9. CASE Fault(r)
    BY <2>9 DEF Fault
  <2>10. QED
    BY <1>2, <2>1, <2>2, <2>3, <2>4, <2>5, <2>6, <2>7, <2>8, <2>9 DEF Continue
<1>3. QED
  BY <1>1, <1>2 DEF Next

-------------------------------------------------------------------------------
(* What every step but RotateFind and Issue leaves to the rotations: no    *)
(* request enters one, and the family tree and overlap stay.               *)
RotationsKeep ==
    /\ UNCHANGED <<parent, overlap>>
    /\ \A r \in Requests, t \in Session : Redeems(r, t)' => Redeems(r, t)

LEMMA OtherStepsKeepRotations ==
    ASSUME IInv, [Next]_vars,
           ~ \E r \in Requests : RotateFind(r) \/ Issue(r)
    PROVE  RotationsKeep
<1> USE SessionsAssumption
    DEF IInv, TypeOK, RotationsKeep, Redeems, Rotating
<1>1. CASE Environment \/ UNCHANGED vars
  BY <1>1, EnvironmentKeepsLocals
<1>2. ASSUME NEW r \in Requests, Start(r) \/ Continue(r) \/ Fault(r)
      PROVE  RotationsKeep
  <2>0. OthersKeep(r)
    BY <1>2, OneRequestMoves
  <2> USE <2>0 DEF OthersKeep, Begin, Step, Finish, store, history
  <2>1. CASE Start(r)
    BY <2>1 DEF Start, Login, Block, Refresh, LogoutAll, Logout, RevokeOne
  <2>2. CASE \E s \in Session : CutGrant(r, s) \/ CutMirror(r, s)
    BY <2>2 DEF CutGrant, CutMirror
  <2>3. CASE CutList(r) \/ CutRows(r) \/ CutPush(r) \/ IssueConflict(r)
             \/ SetMirror(r) \/ Reply(r) \/ Answer(r)
    BY <2>3 DEF CutList, CutRows, CutPush, IssueConflict, SetMirror, Reply, Answer
  <2>4. CASE RotateReuse(r) \/ RotateGrant(r) \/ RotateRevoke(r)
             \/ RotateMirror(r)
    BY <2>4 DEF RotateReuse, RotateGrant, RotateRevoke, RotateMirror
  <2>5. CASE LogoutGrant(r) \/ LogoutRevoke(r) \/ LogoutMirror(r)
             \/ OneRevoke(r) \/ OneMirror(r) \/ OneGrant(r)
    BY <2>5 DEF LogoutGrant, LogoutRevoke, LogoutMirror, OneRevoke, OneMirror,
                OneGrant
  <2>6. CASE Fault(r)
    BY <2>6 DEF Fault
  <2>7. QED
    BY <1>2, <2>1, <2>2, <2>3, <2>4, <2>5, <2>6 DEF Continue
<1>3. QED
  BY <1>1, <1>2 DEF Next

(* The heart of the argument: a rotation that finds its token active finds *)
(* no rotation past its revoke and no successor, because both would mean   *)
(* a revoked row; one that has not revoked yet is what overlap records.    *)
LEMMA RotationStep ==
    ASSUME IInv, [Next]_vars
    PROVE  OneRedeemer' /\ ForkNeedsOverlap' /\ SuccessorRetiresParent'
<1> USE DEF IInv, TypeOK, OneRedeemer, ForkNeedsOverlap, SuccessorRetiresParent
<1>1. RowsMoveForward
  BY RowsForward
<1>2. CASE ~ \E r \in Requests : RotateFind(r) \/ Issue(r)
  BY <1>1, <1>2, OtherStepsKeepRotations DEF RotationsKeep, RowsMoveForward
<1>3. ASSUME NEW r \in Requests, RotateFind(r)
      PROVE  OneRedeemer' /\ ForkNeedsOverlap' /\ SuccessorRetiresParent'
  <2> DEFINE t == subject[r]
  <2>1. /\ t \in Session /\ rows[t] = "live"
        /\ UNCHANGED <<parent, rows, subject>> /\ pc'[r] = "rotGrant"
        /\ \A q \in Requests \ {r} : pc'[q] = pc[q]
        /\ overlap \subseteq overlap'
    BY <1>3 DEF RotateFind, Active, Step, LocalsOK, WithSubject, store
  <2>2. \A s \in Session : parent[s] # t
    BY <2>1, SessionsAssumption
  <2>3. ASSUME NEW q \in Requests \ {r}, Redeems(q, t)
        PROVE  t \in overlap'
    <3>1. pc[q] \notin {"rotMirror", "issue"}
      BY <2>1, <2>3, SessionsAssumption DEF Redeems, RevokedBehind
    <3>2. pc[q] \in {"rotGrant", "rotRevoke"}
      BY <2>3, <3>1 DEF Redeems, Rotating
    <3>3. QED
      BY <1>3, <2>3, <3>2 DEF RotateFind, Redeems
  <2>4. \A q \in Requests, x \in Session :
            Redeems(q, x)' => Redeems(q, x) \/ (q = r /\ x = t)
    BY <2>1 DEF Redeems
  <2>5. OneRedeemer'
    BY <2>1, <2>2, <2>3, <2>4
  <2>6. QED
    BY <2>1, <2>5
<1>4. ASSUME NEW r \in Requests, Issue(r)
      PROVE  OneRedeemer' /\ ForkNeedsOverlap' /\ SuccessorRetiresParent'
  <2> DEFINE s == [user |-> owner[r], iat |-> now]
             t == subject[r]
  <2>1. /\ pc[r] = "issue" /\ pc'[r] = "setMirror"
        /\ parent' = [parent EXCEPT ![s] = t] /\ rows[s] = "none"
        /\ UNCHANGED overlap
        /\ \A q \in Requests \ {r} : pc'[q] = pc[q] /\ subject'[q] = subject[q]
    BY <1>4 DEF Issue
  <2>2. s \in Session
    BY <2>1 DEF LocalsOK, Session
  <2>3. t # NoSession => t \in Session /\ Redeems(r, t) /\ rows[t] = "revoked"
    BY <2>1 DEF Redeems, Rotating, RevokedBehind
  <2>4. \A q \in Requests, x \in Session :
            Redeems(q, x)' => Redeems(q, x) /\ q # r
    BY <2>1 DEF Redeems, Rotating
  <2>5. t \in Session \ overlap => \A x \in Session : parent[x] # t
    BY <2>3, SessionsAssumption
  <2>6. OneRedeemer'
    BY <2>1, <2>2, <2>3, <2>4, <2>5, SessionsAssumption
  <2>7. ForkNeedsOverlap'
    BY <2>1, <2>2, <2>3, <2>5
  <2>8. SuccessorRetiresParent'
    BY <1>1, <2>1, <2>2, <2>3 DEF RowsMoveForward
  <2>9. QED
    BY <2>6, <2>7, <2>8
<1>5. QED
  BY <1>2, <1>3, <1>4

-------------------------------------------------------------------------------
(* A closed session was handed out, so no handler still owes it a mirror,  *)
(* and its row is revoked for good.                                        *)
LEMMA ClosedStep ==
    ASSUME IInv, [Next]_vars
    PROVE  (closed \subseteq delivered)' /\ ClosedIsFinal'
<1> USE DEF IInv, TypeOK, LocalsOK, ClosedIsFinal, RowsMoveForward
<1>1. RowsMoveForward
  BY RowsForward
<1>2. CASE Tick \/ (\E u \in Users : Reinstate(u)) \/ UNCHANGED vars
  BY <1>2 DEF Tick, Reinstate, vars, store, history
<1>3. CASE \E s \in Session : ExpireMirror(s)
  BY <1>3 DEF ExpireMirror, history
<1>4. ASSUME NEW r \in Requests, Start(r) \/ Continue(r) \/ Fault(r)
      PROVE  (closed \subseteq delivered)' /\ ClosedIsFinal'
  <2> USE <1>1 DEF store, history, Step, Finish, Close
  <2>1. CASE Start(r)
    BY <2>1 DEF Start, Login, Block, Refresh, LogoutAll, Logout, RevokeOne
  <2>2. CASE SetMirror(r)
    <3>1. subject[r] \notin closed
      BY <2>2 DEF SetMirror, OneOpener, Opening
    <3>2. QED
      BY <2>2, <3>1 DEF SetMirror
  <2>3. CASE Issue(r) \/ IssueConflict(r) \/ Reply(r) \/ Answer(r)
    BY <2>3 DEF Issue, IssueConflict, Reply, Answer
  <2>4. CASE RotateMirror(r) \/ LogoutMirror(r) \/ OneMirror(r)
    BY <2>4 DEF RotateMirror, LogoutMirror, OneMirror, RevokedBehind
  <2>5. CASE \E s \in Session : CutMirror(r, s)
    BY <2>5 DEF CutMirror, RevokedBehind
  <2>6. CASE \/ CutList(r) \/ CutRows(r) \/ CutPush(r)
             \/ \E s \in Session : CutGrant(r, s)
    BY <2>6 DEF CutList, CutRows, CutPush, CutGrant
  <2>7. CASE RotateFind(r) \/ RotateReuse(r) \/ RotateGrant(r)
             \/ RotateRevoke(r)
    BY <2>7 DEF RotateFind, RotateReuse, RotateGrant, RotateRevoke
  <2>8. CASE LogoutGrant(r) \/ LogoutRevoke(r) \/ OneRevoke(r) \/ OneGrant(r)
    BY <2>8 DEF LogoutGrant, LogoutRevoke, OneRevoke, OneGrant
  <2>9. CASE Fault(r)
    BY <2>9 DEF Fault
  <2>10. QED
    BY <1>4, <2>1, <2>2, <2>3, <2>4, <2>5, <2>6, <2>7, <2>8, <2>9 DEF Continue
<1>5. QED
  BY <1>2, <1>3, <1>4 DEF Next, Environment

THEOREM Invariance == Spec => []IInv
<1>1. Init => IInv
  BY InitIInv
<1>2. IInv /\ [Next]_vars => IInv'
  <2> SUFFICES ASSUME IInv, [Next]_vars PROVE IInv'
    OBVIOUS
  <2>1. (TypeOK /\ LocalsOK)'
    BY TypesStep DEF IInv
  <2>2. RowsExist' /\ RevokedBehind' /\ OneOpener'
    BY RowsExistStep, RevokedBehindStep, OneOpenerStep
  <2>3. OneRedeemer' /\ ForkNeedsOverlap' /\ SuccessorRetiresParent'
    BY RotationStep
  <2>4. (closed \subseteq delivered)' /\ ClosedIsFinal'
    BY ClosedStep
  <2>5. QED
    BY <2>1, <2>2, <2>3, <2>4 DEF IInv
<1>3. QED
  BY <1>1, <1>2, PTL DEF Spec

(* A refresh token forks its session only if two rotations found it active *)
(* at once (TokenService.rotate).                                          *)
THEOREM ForksNeedOverlap == Spec => []ForkNeedsOverlap
<1>1. IInv => ForkNeedsOverlap
  BY DEF IInv
<1>2. QED
  BY <1>1, Invariance, PTL

(* A rotated session never lives beside the session it replaced.           *)
THEOREM SuccessorsRetireParents == Spec => []SuccessorRetiresParent
<1>1. IInv => SuccessorRetiresParent
  BY DEF IInv
<1>2. QED
  BY <1>1, Invariance, PTL

(* A session closed while its client held the tokens stays revoked and     *)
(* without a mirror, whatever was in flight.                               *)
THEOREM ClosedSessionsAreFinal == Spec => []ClosedIsFinal
<1>1. IInv => ClosedIsFinal
  BY DEF IInv
<1>2. QED
  BY <1>1, Invariance, PTL

-------------------------------------------------------------------------------
(* Refinement: a step of a handler opens, succeeds or retires sessions, or *)
(* leaves the table alone.                                                 *)

LEMMA LifecycleInit == Init => Lifecycle!Init
  BY DEF Init, Lifecycle!Init

LEMMA RevokeRetires ==
    ASSUME TypeOK, NEW S, Revoke(S), UNCHANGED parent
    PROVE  Lifecycle!Next
<1> DEFINE R == {s \in Session : s \in S /\ rows[s] = "live"}
<1>1. Lifecycle!Retire(R)
  BY DEF Lifecycle!Retire, Revoke, TypeOK
<1>2. QED
  BY <1>1 DEF Lifecycle!Next

LEMMA IssueOpensOrSucceeds ==
    ASSUME IInv, NEW r \in Requests, Issue(r)
    PROVE  Lifecycle!Next
<1> DEFINE s == [user |-> owner[r], iat |-> now]
<1>1. s \in Session /\ rows[s] = "none"
  BY DEF Issue, IInv, TypeOK, LocalsOK, Session
<1>2. CASE subject[r] = NoSession
  <2>1. UNCHANGED parent
    BY <1>1, <1>2 DEF Issue, IInv, TypeOK, RowsExist
  <2>2. Lifecycle!Open(s)
    BY <1>1, <2>1 DEF Issue, Lifecycle!Open
  <2>3. QED
    BY <1>1, <2>2 DEF Lifecycle!Next
<1>3. CASE subject[r] # NoSession
  <2>1. subject[r] \in Session /\ rows[subject[r]] = "revoked"
    BY <1>3 DEF Issue, IInv, TypeOK, RevokedBehind
  <2>2. Lifecycle!Succeed(subject[r], s)
    BY <1>1, <2>1 DEF Issue, Lifecycle!Succeed
  <2>3. QED
    BY <1>1, <2>1, <2>2 DEF Lifecycle!Next
<1>4. QED
  BY <1>2, <1>3

LEMMA LifecycleStep ==
    ASSUME IInv, [Next]_vars PROVE [Lifecycle!Next]_Lifecycle!vars
<1>1. CASE \E r \in Requests : Issue(r)
  BY <1>1, IssueOpensOrSucceeds
<1>2. CASE (\E S : Revoke(S)) /\ UNCHANGED parent
  BY <1>2, RevokeRetires DEF IInv
<1>3. CASE UNCHANGED <<rows, parent>>
  BY <1>3 DEF Lifecycle!vars
<1>4. \/ \E r \in Requests : Issue(r)
      \/ (\E S : Revoke(S)) /\ UNCHANGED parent
      \/ UNCHANGED <<rows, parent>>
  <2>1. CASE \E r \in Requests : Start(r)
    BY <2>1 DEF Start, Login, Block, Refresh, LogoutAll, Logout, RevokeOne,
                store, history
  <2>2. CASE \E r \in Requests : Continue(r)
    BY <2>2 DEF Continue, IssueConflict, SetMirror, Reply, RotateFind,
                RotateReuse, RotateGrant, RotateRevoke, RotateMirror, CutList,
                CutGrant, CutRows, CutMirror, CutPush, LogoutGrant,
                LogoutRevoke, LogoutMirror, OneRevoke, OneMirror, OneGrant,
                Answer, store, history
  <2>3. CASE \E r \in Requests : Fault(r)
    BY <2>3 DEF Fault, store, history
  <2>4. CASE Environment
    BY <2>4 DEF Environment, Tick, Reinstate, ExpireMirror, store, history
  <2>5. CASE UNCHANGED vars
    BY <2>5 DEF vars, store, history
  <2>6. QED
    BY <2>1, <2>2, <2>3, <2>4, <2>5 DEF Next
<1>5. QED
  BY <1>1, <1>2, <1>3, <1>4

(* The request-level model implements the life cycle of the session table: *)
(* rows move from none to live to revoked, and a successor is opened only  *)
(* after the session it replaces is revoked.                               *)
THEOREM Refinement == Spec => ImplementsLifecycle
<1>1. Init => Lifecycle!Init
  BY LifecycleInit
<1>2. IInv /\ [Next]_vars => [Lifecycle!Next]_Lifecycle!vars
  BY LifecycleStep
<1>3. QED
  BY <1>1, <1>2, Invariance, PTL DEF Spec, ImplementsLifecycle, Lifecycle!Spec
===============================================================================

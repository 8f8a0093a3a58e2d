------------------------------- MODULE Sessions -------------------------------
(***************************************************************************)
(* The session core of the auth module: TokenService (issue, refresh,      *)
(* rotate, revoke, revokeAllForUser), SessionService (revokeOne,           *)
(* revokeAll), AccountLifecycleService (deactivate, setStatus) and the     *)
(* sudo grants and push tokens those services clean up.                    *)
(*                                                                         *)
(* A request is a process that performs one await per step, so the steps   *)
(* of concurrent requests interleave the way two handlers of the Node      *)
(* process (or of two instances of it) do.  PostgreSQL rows and Redis keys *)
(* are the shared state; what a handler holds in local variables is in     *)
(* owner, subject, listed and todo.                                        *)
(*                                                                         *)
(* A refresh token is a JWT over {sub, tokenType, iat, exp} with iat in    *)
(* whole seconds: two tokens signed for one user in one second are the     *)
(* same string, hash to the same refreshTokenHash and compete for the same *)
(* unique row.  A session is therefore identified by its user and its      *)
(* second.                                                                 *)
(***************************************************************************)
EXTENDS Naturals, FiniteSets

CONSTANTS Users,       \* accounts
          Requests,    \* HTTP requests that can be in flight at once
          MaxTime,     \* bound: the last second of the clock
          MaxFaults,   \* bound: handlers that die in the middle
          RefreshTtl,  \* seconds a refresh token and its row stay valid
          AccessTtl,   \* seconds an access token stays valid
          NoUser,      \* the owner of an idle request
          NoSession    \* no session

Session == [user : Users, iat : 0..MaxTime]

ASSUME SessionsAssumption ==
    /\ MaxTime \in Nat
    /\ MaxFaults \in Nat
    /\ RefreshTtl \in Nat
    /\ AccessTtl \in Nat
    /\ NoUser \notin Users
    /\ NoSession \notin Session

VARIABLES
    now,        \* seconds since the epoch
    account,    \* users.status: ACTIVE, or anything the guards reject
    rows,       \* sessions: no row, revokedAt null, revokedAt set
    mirrors,    \* Redis session:{refreshTokenHash}
    grants,     \* Redis sudo:{userId}:{sessionId}
    push,       \* users with rows in fcm_tokens
    delivered,  \* sessions whose tokens reached the client
    pc,         \* where each request is: the await it performs next
    owner,      \* the user a request acts for
    subject,    \* the session a request works on
    listed,     \* the rows revokeAllForUser listed
    todo,       \* those of them whose key is still to be deleted
    faults,     \* handlers that died so far
    parent,     \* history: the session a session was rotated from
    overlap,    \* history: tokens that two rotations found active together
    closed      \* history: handed-out sessions whose closing reached Redis

store   == <<account, rows, mirrors, grants, push>>
locals  == <<pc, owner, subject, listed, todo>>
history == <<parent, overlap, closed>>
vars    == <<now, store, delivered, locals, faults, history>>

(* The labels name the await a request performs next. *)
Rotating == {"rotGrant", "rotRevoke", "rotMirror", "issue"}
Cutting  == {"cutList", "cutGrants", "cutRows", "cutMirrors", "cutPush"}
Label    == {"idle", "rotFind", "setMirror", "reply", "conflict", "failed",
             "outGrant", "outRevoke", "outMirror",
             "oneRevoke", "oneMirror", "oneGrant"}
            \cup Rotating \cup Cutting

TypeOK ==
    /\ now \in 0..MaxTime
    /\ account \in [Users -> {"ACTIVE", "BLOCKED"}]
    /\ rows \in [Session -> {"none", "live", "revoked"}]
    /\ mirrors \subseteq Session
    /\ grants \subseteq Session
    /\ push \subseteq Users
    /\ delivered \subseteq Session
    /\ pc \in [Requests -> Label]
    /\ owner \in [Requests -> Users \cup {NoUser}]
    /\ subject \in [Requests -> Session \cup {NoSession}]
    /\ listed \in [Requests -> SUBSET Session]
    /\ todo \in [Requests -> SUBSET Session]
    /\ faults \in 0..MaxFaults
    /\ parent \in [Session -> Session \cup {NoSession}]
    /\ overlap \subseteq Session
    /\ closed \subseteq Session

Init ==
    /\ now = 0
    /\ account = [u \in Users |-> "ACTIVE"]
    /\ rows = [s \in Session |-> "none"]
    /\ mirrors = {} /\ grants = {} /\ push = {} /\ delivered = {}
    /\ pc = [r \in Requests |-> "idle"]
    /\ owner = [r \in Requests |-> NoUser]
    /\ subject = [r \in Requests |-> NoSession]
    /\ listed = [r \in Requests |-> {}]
    /\ todo = [r \in Requests |-> {}]
    /\ faults = 0
    /\ parent = [s \in Session |-> NoSession]
    /\ overlap = {} /\ closed = {}

-------------------------------------------------------------------------------
(* Steps of one request. *)

Begin(r, u, s, label) ==
    /\ pc[r] = "idle"
    /\ pc' = [pc EXCEPT ![r] = label]
    /\ owner' = [owner EXCEPT ![r] = u]
    /\ subject' = [subject EXCEPT ![r] = s]
    /\ UNCHANGED <<listed, todo>>

Step(r, from, to) ==
    /\ pc[r] = from
    /\ pc' = [pc EXCEPT ![r] = to]
    /\ UNCHANGED <<owner, subject, listed, todo>>

Finish(r, from) ==
    /\ pc[r] = from
    /\ pc' = [pc EXCEPT ![r] = "idle"]
    /\ owner' = [owner EXCEPT ![r] = NoUser]
    /\ subject' = [subject EXCEPT ![r] = NoSession]
    /\ listed' = [listed EXCEPT ![r] = {}]
    /\ todo' = [todo EXCEPT ![r] = {}]

(* findActiveByHash, findActiveById, listActiveForUser *)
Active(s) == rows[s] = "live" /\ now < s.iat + RefreshTtl

(* updateMany({ where: {..., revokedAt: null}, data: { revokedAt } }) *)
Revoke(S) ==
    rows' = [s \in Session |->
                IF s \in S /\ rows[s] = "live" THEN "revoked" ELSE rows[s]]

(* The history of a session whose refresh token the client holds and whose *)
(* mirror a closing handler has just deleted.                              *)
Close(s) == closed' = closed \cup ({s} \cap delivered)

(* JwtStrategy.validate: the account is read, the session row is not. *)
Authenticated(s) ==
    /\ s \in delivered
    /\ now < s.iat + AccessTtl
    /\ account[s.user] = "ACTIVE"

-------------------------------------------------------------------------------
(* TokenService.issue.  login, register, OAuth and the second factor call  *)
(* it once they have checked that the account is active.                   *)

(* Bug: the mirror is written before the row exists. *)
BugLoginMirrorsFirst(r, u) ==
    /\ account[u] = "ACTIVE"
    /\ Begin(r, u, NoSession, "setMirror")
    /\ UNCHANGED <<now, store, delivered, faults, history>>

Login(r, u) ==
    /\ account[u] = "ACTIVE"
    /\ Begin(r, u, NoSession, "issue")
    /\ UNCHANGED <<now, store, delivered, faults, history>>

(* Bug: create() is an upsert, so a token of the same second reopens its row. *)
BugIssueUpserts(r) ==
    LET s == [user |-> owner[r], iat |-> now] IN
    /\ pc[r] = "issue"
    /\ rows' = [rows EXCEPT ![s] = "live"]
    /\ parent' = [parent EXCEPT ![s] = subject[r]]
    /\ pc' = [pc EXCEPT ![r] = "setMirror"]
    /\ subject' = [subject EXCEPT ![r] = s]
    /\ UNCHANGED <<now, account, mirrors, grants, push, delivered, owner,
                   listed, todo, faults, overlap, closed>>

(* Bug: setSessionMirror is not awaited, so the tokens leave before it. *)
BugIssueRepliesEarly(r) ==
    LET s == [user |-> owner[r], iat |-> now] IN
    /\ pc[r] = "issue"
    /\ rows[s] = "none"
    /\ rows' = [rows EXCEPT ![s] = "live"]
    /\ parent' = [parent EXCEPT ![s] = subject[r]]
    /\ pc' = [pc EXCEPT ![r] = "setMirror"]
    /\ subject' = [subject EXCEPT ![r] = s]
    /\ delivered' = delivered \cup {s}
    /\ UNCHANGED <<now, account, mirrors, grants, push, owner,
                   listed, todo, faults, overlap, closed>>

(* signRefreshToken and sessions.create, whose hash is unique. *)
Issue(r) ==
    LET s == [user |-> owner[r], iat |-> now] IN
    /\ pc[r] = "issue"
    /\ rows[s] = "none"
    /\ rows' = [rows EXCEPT ![s] = "live"]
    /\ parent' = [parent EXCEPT ![s] = subject[r]]
    /\ pc' = [pc EXCEPT ![r] = "setMirror"]
    /\ subject' = [subject EXCEPT ![r] = s]
    /\ UNCHANGED <<now, account, mirrors, grants, push, delivered, owner,
                   listed, todo, faults, overlap, closed>>

(* The same second gave the same token: create() throws P2002. *)
IssueConflict(r) ==
    /\ Step(r, "issue", "conflict")
    /\ rows[[user |-> owner[r], iat |-> now]] # "none"
    /\ UNCHANGED <<now, store, delivered, faults, history>>

SetMirror(r) ==
    /\ Step(r, "setMirror", "reply")
    /\ mirrors' = mirrors \cup {subject[r]}
    /\ UNCHANGED <<now, account, rows, grants, push, delivered, faults, history>>

(* The response with both tokens reaches the client. *)
Reply(r) ==
    /\ Finish(r, "reply")
    /\ delivered' = delivered \cup {subject[r]}
    /\ UNCHANGED <<now, store, faults, history>>

-------------------------------------------------------------------------------
(* TokenService.refresh and rotate. *)

(* verifyAsync, then users.findById. *)
Refresh(r, s) ==
    /\ s \in delivered
    /\ now < s.iat + RefreshTtl
    /\ Begin(r, s.user, s,
             IF account[s.user] = "ACTIVE" THEN "rotFind" ELSE "cutList")
    /\ UNCHANGED <<now, store, delivered, faults, history>>

(* Bug: findByHash without revokedAt: null, so a spent token rotates again. *)
BugRotateFindsAny(r) ==
    /\ Step(r, "rotFind", "rotGrant")
    /\ overlap' = overlap \cup
           {t \in {subject[r]} : \E q \in Requests :
                /\ pc[q] \in {"rotGrant", "rotRevoke"}
                /\ subject[q] = t}
    /\ UNCHANGED <<now, store, delivered, faults, parent, closed>>

RotateFind(r) ==
    /\ Step(r, "rotFind", "rotGrant")
    /\ Active(subject[r])
    /\ overlap' = overlap \cup
           {t \in {subject[r]} : \E q \in Requests :
                /\ pc[q] \in {"rotGrant", "rotRevoke"}
                /\ subject[q] = t}
    /\ UNCHANGED <<now, store, delivered, faults, parent, closed>>

(* "Treat reuse/missing as catastrophic" *)
RotateReuse(r) ==
    /\ Step(r, "rotFind", "cutList")
    /\ ~Active(subject[r])
    /\ UNCHANGED <<now, store, delivered, faults, history>>

(* Bug: rotate clears the caches and leaves the old row active. *)
BugRotateKeepsRow(r) ==
    /\ Step(r, "rotGrant", "rotMirror")
    /\ grants' = grants \ {subject[r]}
    /\ UNCHANGED <<now, account, rows, mirrors, push, delivered, faults, history>>

RotateGrant(r) ==
    /\ Step(r, "rotGrant", "rotRevoke")
    /\ grants' = grants \ {subject[r]}
    /\ UNCHANGED <<now, account, rows, mirrors, push, delivered, faults, history>>

RotateRevoke(r) ==
    /\ Step(r, "rotRevoke", "rotMirror")
    /\ Revoke({subject[r]})
    /\ UNCHANGED <<now, account, mirrors, grants, push, delivered, faults, history>>

RotateMirror(r) ==
    /\ Step(r, "rotMirror", "issue")
    /\ mirrors' = mirrors \ {subject[r]}
    /\ Close(subject[r])
    /\ UNCHANGED <<now, account, rows, grants, push, delivered, faults, parent,
                   overlap>>

-------------------------------------------------------------------------------
(* TokenService.revokeAllForUser. *)

CutList(r) ==
    /\ pc[r] = "cutList"
    /\ pc' = [pc EXCEPT ![r] = "cutGrants"]
    /\ LET found == {s \in Session : s.user = owner[r] /\ Active(s)} IN
       /\ listed' = [listed EXCEPT ![r] = found]
       /\ todo' = [todo EXCEPT ![r] = found]
    /\ UNCHANGED <<now, store, delivered, owner, subject, faults, history>>

(* One of the concurrent deleteSudoGrant calls of Promise.all. *)
CutGrant(r, s) ==
    /\ pc[r] = "cutGrants"
    /\ s \in todo[r]
    /\ todo' = [todo EXCEPT ![r] = @ \ {s}]
    /\ grants' = grants \ {s}
    /\ UNCHANGED <<now, account, rows, mirrors, push, delivered, pc, owner,
                   subject, listed, faults, history>>

(* Bug: reuse revokes the presented session and not all of the user's. *)
BugCutRowsOfSubject(r) ==
    /\ pc[r] = "cutGrants"
    /\ todo[r] = {}
    /\ pc' = [pc EXCEPT ![r] = "cutMirrors"]
    /\ todo' = [todo EXCEPT ![r] = listed[r]]
    /\ Revoke({subject[r]})
    /\ UNCHANGED <<now, account, mirrors, grants, push, delivered, owner,
                   subject, listed, faults, history>>

CutRows(r) ==
    /\ pc[r] = "cutGrants"
    /\ todo[r] = {}
    /\ pc' = [pc EXCEPT ![r] = "cutMirrors"]
    /\ todo' = [todo EXCEPT ![r] = listed[r]]
    /\ Revoke({s \in Session : s.user = owner[r]})
    /\ UNCHANGED <<now, account, mirrors, grants, push, delivered, owner,
                   subject, listed, faults, history>>

CutMirror(r, s) ==
    /\ pc[r] = "cutMirrors"
    /\ s \in todo[r]
    /\ todo' = [todo EXCEPT ![r] = @ \ {s}]
    /\ mirrors' = mirrors \ {s}
    /\ Close(s)
    /\ UNCHANGED <<now, account, rows, grants, push, delivered, pc, owner,
                   subject, listed, faults, parent, overlap>>

(* fcmTokens.deleteAllForUser; the caller then answers. *)
CutPush(r) ==
    /\ todo[r] = {}
    /\ Finish(r, "cutMirrors")
    /\ push' = push \ {owner[r]}
    /\ UNCHANGED <<now, account, rows, mirrors, grants, delivered, faults, history>>

(* SessionService.revokeAll; also the tail of every password, primary      *)
(* address and contact change.                                             *)
LogoutAll(r, s) ==
    /\ Authenticated(s)
    /\ Begin(r, s.user, NoSession, "cutList")
    /\ UNCHANGED <<now, store, delivered, faults, history>>

(* AccountLifecycleService.deactivate, and setStatus to BANNED, RESTRICTED *)
(* or SUSPENDED: the account first, its sessions next.                     *)
Block(r, u) ==
    /\ Begin(r, u, NoSession, "cutList")
    /\ account' = [account EXCEPT ![u] = "BLOCKED"]
    /\ UNCHANGED <<now, rows, mirrors, grants, push, delivered, faults, history>>

(* setStatus(ACTIVE) revokes nothing. *)
Reinstate(u) ==
    /\ account[u] = "BLOCKED"
    /\ account' = [account EXCEPT ![u] = "ACTIVE"]
    /\ UNCHANGED <<now, rows, mirrors, grants, push, delivered, locals, faults,
                   history>>

-------------------------------------------------------------------------------
(* TokenService.revoke, the log-out of one device. *)

(* Bug: revoke() forgets the sudo grant. *)
BugLogoutKeepsGrant(r, s) ==
    /\ s \in delivered
    /\ Begin(r, s.user, s, "outRevoke")
    /\ UNCHANGED <<now, store, delivered, faults, history>>

Logout(r, s) ==
    /\ s \in delivered
    /\ Begin(r, s.user, s, IF Active(s) THEN "outGrant" ELSE "outRevoke")
    /\ UNCHANGED <<now, store, delivered, faults, history>>

LogoutGrant(r) ==
    /\ Step(r, "outGrant", "outRevoke")
    /\ grants' = grants \ {subject[r]}
    /\ UNCHANGED <<now, account, rows, mirrors, push, delivered, faults, history>>

LogoutRevoke(r) ==
    /\ Step(r, "outRevoke", "outMirror")
    /\ Revoke({subject[r]})
    /\ UNCHANGED <<now, account, mirrors, grants, push, delivered, faults, history>>

LogoutMirror(r) ==
    /\ Finish(r, "outMirror")
    /\ mirrors' = mirrors \ {subject[r]}
    /\ Close(subject[r])
    /\ UNCHANGED <<now, account, rows, grants, push, delivered, faults, parent,
                   overlap>>

(* SessionService.revokeOne: a row of the caller's own, found by its id. *)
RevokeOne(r, s, target) ==
    /\ Authenticated(s)
    /\ Active(target) /\ target.user = s.user
    /\ Begin(r, s.user, target, "oneRevoke")
    /\ UNCHANGED <<now, store, delivered, faults, history>>

OneRevoke(r) ==
    /\ Step(r, "oneRevoke", "oneMirror")
    /\ Revoke({subject[r]})
    /\ UNCHANGED <<now, account, mirrors, grants, push, delivered, faults, history>>

OneMirror(r) ==
    /\ Step(r, "oneMirror", "oneGrant")
    /\ mirrors' = mirrors \ {subject[r]}
    /\ Close(subject[r])
    /\ UNCHANGED <<now, account, rows, grants, push, delivered, faults, parent,
                   overlap>>

OneGrant(r) ==
    /\ Finish(r, "oneGrant")
    /\ grants' = grants \ {subject[r]}
    /\ UNCHANGED <<now, account, rows, mirrors, push, delivered, faults, history>>

-------------------------------------------------------------------------------
(* Redis drops a key at its TTL.  The mirror's runs from its own SET. *)
ExpireMirror(s) ==
    /\ s \in mirrors /\ now >= s.iat + RefreshTtl
    /\ mirrors' = mirrors \ {s}
    /\ UNCHANGED <<now, account, rows, grants, push, delivered, locals, faults,
                   history>>

-------------------------------------------------------------------------------
(* The process is killed, PostgreSQL or Redis rejects a call, or the       *)
(* connection drops: the request stops where it is and nothing undoes what *)
(* it has done.                                                            *)
Fault(r) ==
    /\ pc[r] \notin {"idle", "conflict", "failed"}
    /\ faults < MaxFaults
    /\ faults' = faults + 1
    /\ pc' = [pc EXCEPT ![r] = "failed"]
    /\ UNCHANGED <<now, store, delivered, owner, subject, listed, todo, history>>

(* The error response. *)
Answer(r) ==
    /\ \/ Finish(r, "failed")
       \/ Finish(r, "conflict")
    /\ UNCHANGED <<now, store, delivered, faults, history>>

Tick ==
    /\ now < MaxTime
    /\ now' = now + 1
    /\ UNCHANGED <<store, delivered, locals, faults, history>>

(* What a request does once it has started. *)
Continue(r) ==
    \/ Issue(r) \/ IssueConflict(r) \/ SetMirror(r) \/ Reply(r)
    \/ RotateFind(r) \/ RotateReuse(r) \/ RotateGrant(r) \/ RotateRevoke(r)
    \/ RotateMirror(r)
    \/ CutList(r) \/ CutRows(r) \/ CutPush(r)
    \/ \E s \in Session : CutGrant(r, s) \/ CutMirror(r, s)
    \/ LogoutGrant(r) \/ LogoutRevoke(r) \/ LogoutMirror(r)
    \/ OneRevoke(r) \/ OneMirror(r) \/ OneGrant(r) \/ Answer(r)

Start(r) ==
    \/ \E u \in Users : Login(r, u) \/ Block(r, u)
    \/ \E s \in Session :
          \/ Refresh(r, s) \/ LogoutAll(r, s) \/ Logout(r, s)
          \/ \E target \in Session : RevokeOne(r, s, target)

Environment ==
    \/ Tick
    \/ \E u \in Users : Reinstate(u)
    \/ \E s \in Session : ExpireMirror(s)

Next ==
    \/ \E r \in Requests : Start(r) \/ Continue(r) \/ Fault(r)
    \/ Environment

Spec == Init /\ [][Next]_vars

(* Node keeps running the continuations of a request it has accepted. *)
FairSpec == Spec /\ \A r \in Requests : WF_vars(Continue(r))

-------------------------------------------------------------------------------
(* Safety. *)

(* A rotated refresh token leads to one new session unless two requests    *)
(* found it active before either of them revoked it: rotate's             *)
(* findActiveByHash ... revokeByHash is where the race is, and outside it  *)
(* no order of refreshes, log-outs, sweeps and crashes forks a session.    *)
ForkNeedsOverlap ==
    \A s, t \in Session :
        (parent[s] = parent[t] /\ s # t /\ parent[s] # NoSession)
            => parent[s] \in overlap

(* A session that came from a rotation never lives beside the one it       *)
(* replaces: rotate revokes first and issues last, whatever happens in     *)
(* between.                                                                *)
SuccessorRetiresParent ==
    \A s \in Session : parent[s] # NoSession => rows[parent[s]] = "revoked"

(* Once a handler that closes a session (log-out, revoke-one, rotation,    *)
(* sweep) has reached Redis, and the client holds that session's tokens,   *)
(* neither its row nor its mirror comes back: issue writes the mirror      *)
(* before it hands the tokens out.                                         *)
ClosedIsFinal ==
    \A s \in closed : rows[s] = "revoked" /\ s \notin mirrors

(* The session table as the rest of the system may think of it. *)
Lifecycle == INSTANCE SessionLifecycle
  WITH Session <- Session, NoSession <- NoSession, rows <- rows, parent <- parent
ImplementsLifecycle == Lifecycle!Spec

-------------------------------------------------------------------------------
(* Liveness. *)

(* A sweep that has started (reuse detected, log-out-all, deactivation)    *)
(* leaves no session alive that was alive when it started, unless the      *)
(* handler itself dies.                                                    *)
SweepReachesEverySession ==
    \A r \in Requests, s \in Session :
        (pc[r] = "cutList" /\ owner[r] = s.user /\ rows[s] = "live")
            ~> (rows[s] = "revoked" \/ pc[r] = "failed")

-------------------------------------------------------------------------------
(* What the repository says and the code does not do. *)

(* token.service.ts: reuse of a refresh token is catastrophic.  Two live   *)
(* sessions rotated from one token are a reuse nobody noticed.             *)
ReuseIsCatastrophic ==
    \A s, t \in Session :
        (parent[s] = parent[t] /\ s # t /\ parent[s] # NoSession)
            => ~(Active(s) /\ Active(t))

(* session.prisma: "On rotation : new refreshTokenHash".  A rotation that  *)
(* signs the hash of an existing row has revoked the client's session and  *)
(* has no other to give.                                                   *)
RotationGetsNewHash ==
    \A r \in Requests : pc[r] = "conflict" => subject[r] = NoSession
===============================================================================

-------------------------------- MODULE Login --------------------------------
(***************************************************************************)
(* LoginService and what ends the sessions it opens, for one user with one *)
(* identity: PasswordChangeService.change, the new password of a reset,    *)
(* and the block of an account.  The password hash and status are in       *)
(* PostgreSQL; the fail counter login:fail and the 2FA challenges a login  *)
(* leaves are in Redis.                                                    *)
(*                                                                         *)
(* Passwords are numbered by the order in which they were stored; 0 is one *)
(* that was never stored.  A session or challenge is known by the password *)
(* that was proved for it.                                                 *)
(***************************************************************************)
EXTENDS Handlers

CONSTANTS loginMaxFails,  \* AUTH_POLICY.loginMaxFails
          MaxVersions     \* bound: passwords stored

ASSUME LoginAssumption ==
    loginMaxFails \in Nat \ {0} /\ MaxVersions \in Nat \ {0}

Version == 1..MaxVersions

VARIABLES
    password,    \* the version whose hash is in the EMAIL credential
    status,      \* users.status, or "deleted" for isDeleted
    live,        \* sessions: [proof, late]
    challenges,  \* Redis 2FA challenges, by the password proved
    fails,       \* Redis login:fail, 0 when absent
    count,       \* local: the fail counter login has read
    proof,       \* local: the password presented, or proved
    rejected,    \* history: logins rejected since the counter was last removed
    raced,       \* history: two logins, or a login and an expiry, overlapped
    unswept      \* history: a handler died before its sweep

account   == <<password, status, live>>
loginVars == <<account, challenges, fails, count, proof, rejected, raced, unswept>>

LoggingIn == {"readOwner", "compare", "recordFail", "clearFails"}
Opening   == {"findAuthUser", "setChallenge", "takeChallenge", "issue"}
LoginLabel == LoggingIn \cup Opening \cup {"idle", "store", "sweep"}

LoginTypeOK ==
    /\ pc \in [Requests -> LoginLabel]
    /\ faults \in 0..MaxFaults
    /\ password \in Version
    /\ status \in {"active", "suspended", "deleted"}
    /\ live \subseteq [proof : Version, late : BOOLEAN]
    /\ challenges \subseteq Version
    /\ fails \in 0..loginMaxFails
    /\ count \in [Requests -> 0..loginMaxFails - 1]
    /\ proof \in [Requests -> 0..MaxVersions]
    /\ rejected \in 0..loginMaxFails + 1
    /\ raced \in BOOLEAN /\ unswept \in BOOLEAN

LoginInit ==
    /\ HandlersInit
    /\ password = 1 /\ status = "active" /\ live = {}
    /\ challenges = {} /\ fails = 0
    /\ count = [r \in Requests |-> 0]
    /\ proof = [r \in Requests |-> 0]
    /\ rejected = 0 /\ raced = FALSE /\ unswept = FALSE

(* The handler's locals are dead once it ends. *)
LoginForgets(r) ==
    /\ count' = [count EXCEPT ![r] = 0]
    /\ proof' = [proof EXCEPT ![r] = 0]

LoginEnds(r, from) ==
    /\ Goto(r, from, "idle")
    /\ LoginForgets(r)

-------------------------------------------------------------------------------
(* LoginService.login *)

(* Bug: the lockout is compared with > instead of >=. *)
BugLoginAllowsOneMore(r, k) ==
    /\ fails <= loginMaxFails
    /\ Goto(r, "idle", "readOwner")
    /\ count' = [count EXCEPT ![r] = fails]
    /\ proof' = [proof EXCEPT ![r] = k]
    /\ raced' = (raced \/ OthersAt(r, LoggingIn) # {})
    /\ UNCHANGED <<account, challenges, fails, rejected, unswept, faults>>

(* The counter is read; a locked identity is refused without a change.     *)
LoginStart(r, k) ==
    /\ fails < loginMaxFails
    /\ Goto(r, "idle", "readOwner")
    /\ count' = [count EXCEPT ![r] = fails]
    /\ proof' = [proof EXCEPT ![r] = k]
    /\ raced' = (raced \/ OthersAt(r, LoggingIn) # {})
    /\ UNCHANGED <<account, challenges, fails, rejected, unswept, faults>>

ReadOwner(r) ==
    /\ Goto(r, "readOwner", IF status = "active" THEN "compare" ELSE "recordFail")
    /\ UNCHANGED <<loginVars, faults>>

(* The credential is read, and its hash compared in memory. *)
CompareHash(r) ==
    /\ Goto(r, "compare", IF proof[r] = password THEN "clearFails" ELSE "recordFail")
    /\ UNCHANGED <<loginVars, faults>>

RecordFail(r) ==
    /\ LoginEnds(r, "recordFail")
    /\ fails' = count[r] + 1
    /\ rejected' = IF rejected > loginMaxFails THEN rejected ELSE rejected + 1
    /\ UNCHANGED <<account, challenges, raced, unswept, faults>>

(* Bug: a successful login leaves the counter. *)
BugClearFailsKeeps(r) ==
    /\ Goto(r, "clearFails", "findAuthUser")
    /\ rejected' = 0
    /\ raced' = (OthersAt(r, LoggingIn) # {})
    /\ UNCHANGED <<account, challenges, fails, count, proof, unswept, faults>>

ClearFails(r) ==
    /\ Goto(r, "clearFails", "findAuthUser")
    /\ count' = [count EXCEPT ![r] = 0]
    /\ fails' = 0
    /\ rejected' = 0
    /\ raced' = (OthersAt(r, LoggingIn) # {})
    /\ UNCHANGED <<account, challenges, proof, unswept, faults>>

(* The user has enabled methods or not (TwoFactor); without, findAuthUser. *)
FindAuthUser(r) ==
    /\ \/ Goto(r, "findAuthUser", "setChallenge")
       \/ status # "deleted" /\ Goto(r, "findAuthUser", "issue")
    /\ UNCHANGED <<loginVars, faults>>

AccountGone(r) ==
    /\ status = "deleted"
    /\ LoginEnds(r, "findAuthUser")
    /\ UNCHANGED <<account, challenges, fails, rejected, raced, unswept, faults>>

SetChallenge(r) ==
    /\ LoginEnds(r, "setChallenge")
    /\ challenges' = challenges \cup {proof[r]}
    /\ UNCHANGED <<account, fails, rejected, raced, unswept, faults>>

(* verifyChallenge, as far as it reads the account, takes the challenge    *)
(* and issues a session; TwoFactor has the rest.                           *)
AnswerChallenge(r, k) ==
    /\ k \in challenges /\ status = "active"
    /\ Goto(r, "idle", "takeChallenge")
    /\ proof' = [proof EXCEPT ![r] = k]
    /\ UNCHANGED <<account, challenges, fails, count, rejected, raced, unswept, faults>>

TakeChallenge(r) ==
    /\ proof[r] \in challenges
    /\ Goto(r, "takeChallenge", "issue")
    /\ challenges' = challenges \ {proof[r]}
    /\ UNCHANGED <<account, fails, count, proof, rejected, raced, unswept, faults>>

ChallengeGone(r) ==
    /\ proof[r] \notin challenges
    /\ LoginEnds(r, "takeChallenge")
    /\ UNCHANGED <<account, challenges, fails, rejected, raced, unswept, faults>>

(* tokens.issue.  A session is late if what it was asked with no longer    *)
(* holds, or is being swept.                                               *)
IssueSession(r) ==
    LET late == proof[r] # password \/ status # "active"
                  \/ unswept \/ At({"sweep"}) # {}
    IN
    /\ LoginEnds(r, "issue")
    /\ live' = live \cup {[proof |-> proof[r], late |-> late]}
    /\ UNCHANGED <<password, status, challenges, fails, rejected, raced, unswept, faults>>

-------------------------------------------------------------------------------
(* The password is replaced, or the account blocked, and then the sessions *)
(* are swept.                                                              *)

(* PasswordChangeService.change: the current hash is read and compared; a  *)
(* wrong one is refused.  applyNewPassword starts in the same way, with    *)
(* the code or link of PasswordReset for the current password.             *)
ChangeStart(r) ==
    /\ status = "active"
    /\ password + Cardinality(At({"store"})) < MaxVersions
    /\ Goto(r, "idle", "store")
    /\ UNCHANGED <<loginVars, faults>>

(* Bug: change returns without sweeping. *)
BugStoreHashOnly(r) ==
    /\ Goto(r, "store", "idle")
    /\ password' = password + 1
    /\ UNCHANGED <<status, live, challenges, fails, count, proof, rejected, raced,
                   unswept, faults>>

StoreHash(r) ==
    /\ Goto(r, "store", "sweep")
    /\ password' = password + 1
    /\ UNCHANGED <<status, live, challenges, fails, count, proof, rejected, raced,
                   unswept, faults>>

(* deactivate, setStatus *)
BlockStart(r, s) ==
    /\ status # "deleted"
    /\ Goto(r, "idle", "sweep")
    /\ status' = s
    /\ UNCHANGED <<password, live, challenges, fails, count, proof, rejected, raced,
                   unswept, faults>>

Unblock ==
    /\ status = "suspended"
    /\ status' = "active"
    /\ UNCHANGED <<pc, faults, password, live, challenges, fails, count, proof,
                   rejected, raced, unswept>>

(* revokeAllForUser, as far as it revokes rows; Sessions has its awaits.   *)
SweepSessions(r) ==
    /\ Goto(r, "sweep", "idle")
    /\ live' = {}
    /\ unswept' = FALSE
    /\ UNCHANGED <<password, status, challenges, fails, count, proof, rejected, raced,
                   faults>>

-------------------------------------------------------------------------------
(* Redis drops a key whose TTL is over. *)

ExpireFails ==
    /\ fails > 0
    /\ fails' = 0
    /\ rejected' = 0
    /\ raced' = (At(LoggingIn) # {})
    /\ UNCHANGED <<pc, faults, account, challenges, count, proof, unswept>>

ExpireChallenge(k) ==
    /\ challenges' = challenges \ {k}
    /\ UNCHANGED <<pc, faults, account, fails, count, proof, rejected, raced, unswept>>

LoginDies(r) ==
    /\ Die(r)
    /\ LoginForgets(r)
    /\ raced' = (raced \/ pc[r] \in LoggingIn)
    /\ unswept' = (unswept \/ pc[r] = "sweep")
    /\ UNCHANGED <<account, challenges, fails, rejected>>

LoginStep(r) ==
    \/ \E k \in 0..password : LoginStart(r, k)
    \/ ReadOwner(r) \/ CompareHash(r) \/ RecordFail(r) \/ ClearFails(r)
    \/ FindAuthUser(r) \/ AccountGone(r) \/ SetChallenge(r)
    \/ \E k \in challenges : AnswerChallenge(r, k)
    \/ TakeChallenge(r) \/ ChallengeGone(r) \/ IssueSession(r)
    \/ ChangeStart(r) \/ StoreHash(r) \/ SweepSessions(r)
    \/ \E s \in {"suspended", "deleted"} : BlockStart(r, s)
    \/ LoginDies(r)

LoginNext ==
    \/ \E r \in Requests : LoginStep(r)
    \/ Unblock \/ ExpireFails
    \/ \E k \in challenges : ExpireChallenge(k)

LoginSpec == LoginInit /\ [][LoginNext]_<<pc, faults, loginVars>>

-------------------------------------------------------------------------------
(* Between logins the counter is the number of logins rejected since it    *)
(* was last removed, so that loginMaxFails of them lock the identity,      *)
(* unless logins overlapped each other or an expiry, or one died: login    *)
(* writes back the value it has read at its start plus one.                *)
FailsCountRejections ==
    (At(LoggingIn) = {} /\ ~raced) => fails = rejected

(* Once the sweep of a change, a reset or a block is over, a session that  *)
(* was opened with a password that is no longer the user's, or for an      *)
(* account that is no longer active, was issued after that replacement, by *)
(* a login that had compared before it, or from a challenge that such a    *)
(* login left: revokeAllForUser misses nothing that was there before.      *)
StaleSessionsAreLate ==
    (At({"sweep"}) = {} /\ ~unswept)
        => \A s \in live : (s.proof # password \/ status # "active") => s.late
===============================================================================

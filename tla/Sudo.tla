--------------------------------- MODULE Sudo ---------------------------------
(***************************************************************************)
(* What an authenticated client does with a session: it elevates to sudo   *)
(* (SudoService), runs the mutations @RequireSudo guards (SudoGuard before *)
(* the handler, SudoConsumeInterceptor after it) and registers a push      *)
(* token.  The module composes these calls with the handlers of Sessions,  *)
(* which share the grants, the session rows and the push tokens with them. *)
(***************************************************************************)
EXTENDS Sessions

CONSTANTS Calls,      \* authenticated calls that can be in flight at once
          MaxMints,   \* bound: grants minted for one session
          MaxKept     \* bound: takes that fail after the mutation

ASSUME SudoAssumption ==
    IsFiniteSet(Calls) /\ MaxMints \in Nat /\ MaxKept \in Nat

VARIABLES
    callPc,     \* the await each call performs next
    callOf,     \* the session whose access token the call carries
    seen,       \* the grant that admitted the call
    mints,      \* history: grants minted so far; the last is the one stored
    used,       \* history: grants that admitted a one-shot mutation
    reused,     \* history: grants that admitted more than one
    shared,     \* history: grants that admitted two calls in flight at once
    kept,       \* history: grants whose take failed after the mutation
    late,       \* history: sessions that got a grant while they were closing
    abandoned   \* history: sessions whose revokeOne died before their grant went

callVars == <<callPc, callOf, seen>>
sudoHistory == <<mints, used, reused, shared, kept, late, abandoned>>
sudoVars == <<callVars, sudoHistory>>
allVars  == <<vars, sudoVars>>

Grant == Session \X (1..MaxMints)
CallLabel == {"idle", "mint", "mutate", "take"}

SudoTypeOK ==
    /\ TypeOK
    /\ callPc \in [Calls -> CallLabel]
    /\ callOf \in [Calls -> Session \cup {NoSession}]
    /\ seen \in [Calls -> 0..MaxMints]
    /\ mints \in [Session -> 0..MaxMints]
    /\ used \subseteq Grant /\ reused \subseteq Grant
    /\ shared \subseteq Grant /\ kept \subseteq Grant
    /\ late \subseteq Session /\ abandoned \subseteq Session

SudoInit ==
    /\ Init
    /\ callPc = [c \in Calls |-> "idle"]
    /\ callOf = [c \in Calls |-> NoSession]
    /\ seen = [c \in Calls |-> 0]
    /\ mints = [s \in Session |-> 0]
    /\ used = {} /\ reused = {} /\ shared = {} /\ kept = {} /\ late = {}
    /\ abandoned = {}

-------------------------------------------------------------------------------
StartCall(c, s, label, grant) ==
    /\ callPc[c] = "idle"
    /\ Authenticated(s)
    /\ callPc' = [callPc EXCEPT ![c] = label]
    /\ callOf' = [callOf EXCEPT ![c] = s]
    /\ seen' = [seen EXCEPT ![c] = grant]
    /\ UNCHANGED vars

EndCall(c, from) ==
    /\ callPc[c] = from
    /\ callPc' = [callPc EXCEPT ![c] = "idle"]
    /\ callOf' = [callOf EXCEPT ![c] = NoSession]
    /\ seen' = [seen EXCEPT ![c] = 0]

(* The grant stored for s, and the one that admitted the call c. *)
Stored(s) == <<s, mints[s]>>
Admitted(c) == <<callOf[c], seen[c]>>

(* elevateWithPassword, elevateWithOtp, elevateWithTwoFactor: the factor   *)
(* is checked between the guard and mint.                                  *)
Elevate(c, s) ==
    /\ mints[s] + Cardinality({d \in Calls : callPc[d] = "mint" /\ callOf[d] = s})
          < MaxMints
    /\ StartCall(c, s, "mint", 0)
    /\ UNCHANGED sudoHistory

Mint(c) ==
    LET s == callOf[c] IN
    /\ EndCall(c, "mint")
    /\ grants' = grants \cup {s}
    /\ mints' = [mints EXCEPT ![s] = @ + 1]
    /\ late' = IF rows[s] = "live" /\ \A r \in Requests : owner[r] # s.user
               THEN late ELSE late \cup {s}
    /\ UNCHANGED <<now, account, rows, mirrors, push, delivered, locals, faults,
                   history, used, reused, shared, kept, abandoned>>

(* A route with @RequireSudo({ consume: true }): JwtAuthGuard, then         *)
(* SudoGuard, whose requireSudo is a get and not a take.  The two reads    *)
(* are one step, and a call they reject changes nothing.                   *)
OneShot(c, s) ==
    /\ s \in grants
    /\ StartCall(c, s, "mutate", mints[s])
    /\ shared' = shared \cup
           {g \in {Stored(s)} : \E d \in Calls :
                callPc[d] \in {"mutate", "take"} /\ Admitted(d) = g}
    /\ UNCHANGED <<mints, used, reused, kept, late, abandoned>>

(* The handler commits its mutation. *)
Mutate(c) ==
    /\ callPc[c] = "mutate"
    /\ callPc' = [callPc EXCEPT ![c] = "take"]
    /\ used' = used \cup {Admitted(c)}
    /\ reused' = reused \cup ({Admitted(c)} \cap used)
    /\ UNCHANGED <<vars, callOf, seen, mints, shared, kept, late, abandoned>>

(* "Handler and pipe errors leave the grant intact." *)
MutateFails(c) ==
    /\ EndCall(c, "mutate")
    /\ UNCHANGED <<vars, sudoHistory>>

(* Bug: the interceptor gets the grant where it should take it. *)
BugTakeIsGet(c) ==
    /\ EndCall(c, "take")
    /\ UNCHANGED <<vars, sudoHistory>>

(* The interceptor's consumeSudo: GETDEL of whatever is stored; a missing  *)
(* grant throws, and the catch ignores it.                                 *)
Take(c) ==
    /\ EndCall(c, "take")
    /\ grants' = grants \ {callOf[c]}
    /\ UNCHANGED <<now, account, rows, mirrors, push, delivered, locals, faults,
                   history, sudoHistory>>

(* GETDEL is rejected, and the same catch ignores that too; or the process *)
(* dies between the mutation and the take.                                 *)
TakeFails(c) ==
    /\ EndCall(c, "take")
    /\ Cardinality(kept) < MaxKept
    /\ kept' = kept \cup {Admitted(c)}
    /\ UNCHANGED <<vars, mints, used, reused, shared, late, abandoned>>

(* DELETE /sudo *)
ClearSudo(s) ==
    /\ Authenticated(s) /\ s \in grants
    /\ grants' = grants \ {s}
    /\ UNCHANGED <<now, account, rows, mirrors, push, delivered, locals, faults,
                   history, sudoVars>>

(* The grant's TTL runs out; the guard treats the record the same way.     *)
ExpireGrant(s) ==
    /\ s \in grants
    /\ grants' = grants \ {s}
    /\ UNCHANGED <<now, account, rows, mirrors, push, delivered, locals, faults,
                   history, sudoVars>>

(* Bug: the push token is stored under the session and not under its user. *)
BugRegisterPushOfSession(s) ==
    /\ Authenticated(s)
    /\ push' = push \cup {s}
    /\ UNCHANGED <<now, account, rows, mirrors, grants, delivered, locals, faults,
                   history, sudoVars>>

(* RegisterFcmTokenService.execute, as far as revokeAllForUser undoes it,  *)
(* with the guard before it: no property tells the two awaits apart.       *)
RegisterPush(s) ==
    /\ Authenticated(s)
    /\ push' = push \cup {s.user}
    /\ UNCHANGED <<now, account, rows, mirrors, grants, delivered, locals, faults,
                   history, sudoVars>>

CallStep(c) ==
    \/ \E s \in Session : Elevate(c, s) \/ OneShot(c, s)
    \/ Mint(c) \/ Mutate(c) \/ MutateFails(c)
    \/ Take(c) \/ TakeFails(c)

(* A step of a handler.  revokeOne deletes the grant last, so one that     *)
(* dies before has closed the session and leaves its grant.                *)
Owing == {"oneMirror", "oneGrant"}

HandlerStep ==
    /\ Next
    /\ abandoned' = abandoned \cup
           {s \in Session : \E r \in Requests :
                pc[r] \in Owing /\ pc'[r] = "failed" /\ subject[r] = s}
    /\ UNCHANGED <<callVars, mints, used, reused, shared, kept, late>>

SudoNext ==
    \/ \E c \in Calls : CallStep(c)
    \/ \E s \in Session : ClearSudo(s) \/ ExpireGrant(s) \/ RegisterPush(s)
    \/ HandlerStep

SudoSpec == SudoInit /\ [][SudoNext]_allVars

-------------------------------------------------------------------------------
(* A grant admits more than one one-shot mutation only if two calls were   *)
(* in flight with it together, or the take that should have ended it       *)
(* failed: no order of elevations, expiries, log-outs and sequential calls *)
(* lets a grant be used twice.                                             *)
ReuseNeedsSharing ==
    reused \subseteq shared \cup kept

(* A closed session has a grant only if an elevation overlapped or         *)
(* followed the closing, or while its revokeOne is about to delete it, or  *)
(* after that handler has died: each of rotate, revoke, revokeOne and      *)
(* revokeAllForUser removes the grant that was there before it, and all    *)
(* but revokeOne do so before they revoke the row, so that none of their   *)
(* deaths leaves one.  A session whose row has expired is none of theirs:  *)
(* revoke and revokeAllForUser look for active rows only.                  *)
ClosedSessionHasNoGrant ==
    \A s \in closed \cap grants :
        \/ s \in late \/ s \in abandoned \/ now >= s.iat + RefreshTtl
        \/ \E r \in Requests : pc[r] \in Owing /\ subject[r] = s

-------------------------------------------------------------------------------
(* sudo.service.ts: "Parallel callers: only one wins; the rest get         *)
(* sudo_required".                                                         *)
OneMutationPerGrant ==
    reused = {}
===============================================================================

------------------------------ MODULE OtpSession ------------------------------
(***************************************************************************)
(* OtpSessionService: one challenge key otp:session:{user}:{purpose}:      *)
(* {channel} in Redis, the reverse index otp:token:{tokenHash} of its      *)
(* magic links and the send throttle of its destination.  The purposes     *)
(* that send a code and a link in one message (REGISTER_VERIFY,            *)
(* RESET_PASSWORD, CHANGE_EMAIL, ADD_EMAIL by email) are modelled; a       *)
(* code-only purpose is the same machine without VerifyByToken.            *)
(*                                                                         *)
(* A request performs one await per step.  Nothing in the service is a     *)
(* transaction: every Redis command is a step of its own, and what a       *)
(* handler has read stays in its local variables while others write.       *)
(***************************************************************************)
EXTENDS Naturals, FiniteSets

CONSTANTS Requests,           \* HTTP requests that can be in flight at once
          maxAttempts,        \* OTP_POLICY.maxAttempts
          maxSendsPerWindow,  \* OTP_POLICY.maxSendsPerWindow
          MaxDispatch,        \* bound: messages sent
          MaxFaults           \* bound: handlers that die in the middle

ASSUME OtpAssumption ==
    /\ IsFiniteSet(Requests)
    /\ maxAttempts \in Nat /\ maxSendsPerWindow \in Nat
    /\ MaxDispatch \in Nat /\ MaxFaults \in Nat

(* The n-th message carries the n-th code and the n-th link.               *)
Send   == 1..MaxDispatch
Record == [send : 0..MaxDispatch, attempts : 0..maxAttempts]
None   == [send |-> 0, attempts |-> 0]

VARIABLES
    record,     \* Redis otp:session: the hashes of one send, or None
    index,      \* Redis otp:token: the sends whose link is indexed
    throttle,   \* Redis otp:throttle of the destination, 0 when absent
    cold,       \* sends older than resendCooldownSeconds
    sent,       \* messages sent so far
    pc,         \* the await each request performs next
    held,       \* the record the request has read
    secret,     \* the send whose code or link it presents; 0: a wrong code
    count,      \* the throttle it has read
    mine,       \* the send it has dispatched
    faults,     \* handlers that died so far
    wins,       \* history: how often each send's secrets were accepted, to 2
    failed,     \* history: wrong codes compared with each send, to the limit + 1
    latest,     \* history: the send stored last by issue
    over,       \* history: sends that were accepted, exhausted or expired
    tangled,    \* history: sends two verifications held at the same time
    crossed,    \* history: sends stored while others were being worked on
    window,     \* history: messages sent since the throttle last expired
    loose       \* history: an issue overlapped another one, or died

redis   == <<record, index, throttle>>
locals  == <<pc, held, secret, count, mine>>
history == <<wins, failed, latest, over, tangled, crossed, window, loose>>
vars    == <<redis, cold, sent, locals, faults, history>>

Verifying == {"compare", "winSession", "capSession"}
Issuing   == {"destroySession", "destroyIndex", "getThrottle", "dispatch",
              "setSession", "setIndex", "setThrottle"}
Label     == Verifying \cup Issuing
                \cup {"idle", "winIndex", "capIndex", "lookup", "dropIndex"}

TypeOK ==
    /\ record \in Record
    /\ index \subseteq Send /\ cold \subseteq Send
    /\ throttle \in 0..maxSendsPerWindow
    /\ sent \in 0..MaxDispatch
    /\ pc \in [Requests -> Label]
    /\ held \in [Requests -> Record]
    /\ secret \in [Requests -> 0..MaxDispatch]
    /\ count \in [Requests -> 0..maxSendsPerWindow]
    /\ mine \in [Requests -> 0..MaxDispatch]
    /\ faults \in 0..MaxFaults
    /\ wins \in [Send -> 0..2]
    /\ failed \in [Send -> 0..maxAttempts + 1]
    /\ latest \in 0..MaxDispatch
    /\ over \subseteq Send /\ tangled \subseteq Send /\ crossed \subseteq Send
    /\ window \in 0..MaxDispatch
    /\ loose \in BOOLEAN

Init ==
    /\ record = None /\ index = {} /\ throttle = 0 /\ cold = {} /\ sent = 0
    /\ pc = [r \in Requests |-> "idle"]
    /\ held = [r \in Requests |-> None]
    /\ secret = [r \in Requests |-> 0]
    /\ count = [r \in Requests |-> 0]
    /\ mine = [r \in Requests |-> 0]
    /\ faults = 0
    /\ wins = [k \in Send |-> 0] /\ failed = [k \in Send |-> 0]
    /\ latest = 0 /\ over = {} /\ tangled = {} /\ crossed = {}
    /\ window = 0 /\ loose = FALSE

-------------------------------------------------------------------------------
Goto(r, from, to) ==
    /\ pc[r] = from
    /\ pc' = [pc EXCEPT ![r] = to]

(* The handler returns or throws; its locals are gone. *)
Return(r, from) ==
    /\ Goto(r, from, "idle")
    /\ held' = [held EXCEPT ![r] = None]
    /\ secret' = [secret EXCEPT ![r] = 0]
    /\ count' = [count EXCEPT ![r] = 0]
    /\ mine' = [mine EXCEPT ![r] = 0]

(* The message an issue is going to send is still within the bound. *)
MayDispatch == sent + Cardinality({q \in Requests : pc[q] \in Issuing /\ mine[q] = 0})
                   < MaxDispatch

(* The sends that requests other than r have read to verify, or to delete. *)
HeldBy(r, labels) == {held[q].send : q \in {p \in Requests \ {r} : pc[p] \in labels}}

-------------------------------------------------------------------------------
(* issue *)

(* A send of the last minute throws 429, which changes nothing. *)
Issue(r) ==
    /\ record = None /\ MayDispatch
    /\ Goto(r, "idle", "getThrottle")
    /\ loose' = (loose \/ \E q \in Requests : pc[q] \in Issuing)
    /\ UNCHANGED <<redis, cold, sent, held, secret, count, mine, faults, wins,
                   failed, latest, over, tangled, crossed, window>>

Reissue(r) ==
    /\ record.send \in cold /\ MayDispatch
    /\ Goto(r, "idle", "destroySession")
    /\ held' = [held EXCEPT ![r] = record]
    /\ loose' = (loose \/ \E q \in Requests : pc[q] \in Issuing)
    /\ UNCHANGED <<redis, cold, sent, secret, count, mine, faults, wins, failed,
                   latest, over, tangled, crossed, window>>

(* destroy(existing) *)
DestroySession(r) ==
    /\ Goto(r, "destroySession", "destroyIndex")
    /\ record' = None
    /\ over' = over \cup {held[r].send}
    /\ UNCHANGED <<index, throttle, cold, sent, held, secret, count, mine, faults,
                   wins, failed, latest, tangled, crossed, window, loose>>

DestroyIndex(r) ==
    /\ Goto(r, "destroyIndex", "getThrottle")
    /\ index' = index \ {held[r].send}
    /\ held' = [held EXCEPT ![r] = None]
    /\ UNCHANGED <<record, throttle, cold, sent, secret, count, mine, faults,
                   history>>

(* Bug: the ceiling is off by one. *)
BugGetThrottleAllowsOneMore(r) ==
    /\ throttle <= maxSendsPerWindow
    /\ Goto(r, "getThrottle", "dispatch")
    /\ count' = [count EXCEPT ![r] = throttle]
    /\ UNCHANGED <<redis, cold, sent, held, secret, mine, faults, history>>

GetThrottle(r) ==
    /\ throttle < maxSendsPerWindow
    /\ Goto(r, "getThrottle", "dispatch")
    /\ count' = [count EXCEPT ![r] = throttle]
    /\ UNCHANGED <<redis, cold, sent, held, secret, mine, faults, history>>

(* 429, after the previous challenge has been destroyed. *)
Throttled(r) ==
    /\ throttle >= maxSendsPerWindow
    /\ Return(r, "getThrottle")
    /\ UNCHANGED <<redis, cold, sent, faults, history>>

(* transporter.dispatch: the message is on its way, its hashes are not yet *)
(* stored.                                                                 *)
Dispatch(r) ==
    /\ Goto(r, "dispatch", "setSession")
    /\ sent' = sent + 1
    /\ mine' = [mine EXCEPT ![r] = sent + 1]
    /\ window' = window + 1
    /\ crossed' = crossed \cup
           UNION {{sent + 1, mine[q]} : q \in {p \in Requests : pc[p] = "setSession"}}
    /\ UNCHANGED <<redis, cold, held, secret, count, faults, wins, failed, latest,
                   over, tangled, loose>>

(* Bug: SET ... NX, so a record that is there survives the next send. *)
BugSetSessionIfAbsent(r) ==
    LET readers == HeldBy(r, Verifying \cup {"destroySession"}) IN
    /\ Goto(r, "setSession", "setIndex")
    /\ record' = IF record = None THEN [send |-> mine[r], attempts |-> 0] ELSE record
    /\ latest' = mine[r]
    /\ crossed' = crossed \cup readers \cup {k \in {mine[r]} : readers # {}}
    /\ UNCHANGED <<index, throttle, cold, sent, held, secret, count, mine, faults,
                   wins, failed, over, tangled, window, loose>>

SetSession(r) ==
    LET readers == HeldBy(r, Verifying \cup {"destroySession"}) IN
    /\ Goto(r, "setSession", "setIndex")
    /\ record' = [send |-> mine[r], attempts |-> 0]
    /\ latest' = mine[r]
    /\ crossed' = crossed \cup readers \cup {k \in {mine[r]} : readers # {}}
    /\ UNCHANGED <<index, throttle, cold, sent, held, secret, count, mine, faults,
                   wins, failed, over, tangled, window, loose>>

SetIndex(r) ==
    /\ Goto(r, "setIndex", "setThrottle")
    /\ index' = index \cup {mine[r]}
    /\ UNCHANGED <<record, throttle, cold, sent, held, secret, count, mine, faults,
                   history>>

(* Bug: the send itself is not counted. *)
BugSetThrottleForgetsSend(r) ==
    /\ Return(r, "setThrottle")
    /\ throttle' = count[r]
    /\ UNCHANGED <<record, index, cold, sent, faults, history>>

(* sends + 1, with the sends this request read. *)
SetThrottle(r) ==
    /\ Return(r, "setThrottle")
    /\ throttle' = count[r] + 1
    /\ UNCHANGED <<record, index, cold, sent, faults, history>>

-------------------------------------------------------------------------------
(* verifyByCode *)

(* Bug: the attempts are counted and never looked at. *)
BugVerifyByCodeUncapped(r, k) ==
    /\ record # None
    /\ k \in {0, record.send}
    /\ Goto(r, "idle", "compare")
    /\ held' = [held EXCEPT ![r] = record]
    /\ secret' = [secret EXCEPT ![r] = k]
    /\ tangled' = tangled \cup ({record.send} \cap HeldBy(r, Verifying))
    /\ UNCHANGED <<redis, cold, sent, count, mine, faults, wins, failed, latest,
                   over, crossed, window, loose>>

(* The code is the one of the record (k is its send) or a wrong one (0): the *)
(* code of any other send is wrong too.  Without a record nothing changes. *)
VerifyByCode(r, k) ==
    /\ record # None
    /\ k \in {0, record.send}
    /\ Goto(r, "idle", IF record.attempts >= maxAttempts
                       THEN "capSession" ELSE "compare")
    /\ held' = [held EXCEPT ![r] = record]
    /\ secret' = [secret EXCEPT ![r] = k]
    /\ tangled' = tangled \cup ({record.send} \cap HeldBy(r, Verifying))
    /\ UNCHANGED <<redis, cold, sent, count, mine, faults, wins, failed, latest,
                   over, crossed, window, loose>>

(* bcrypt.compare says no: the record as read, one attempt more, is put    *)
(* back for the rest of its life.                                          *)
WrongCode(r) ==
    LET k == held[r].send IN
    /\ secret[r] # k
    /\ Return(r, "compare")
    /\ record' = [held[r] EXCEPT !.attempts = @ + 1]
    /\ failed' = [failed EXCEPT ![k] = IF @ > maxAttempts THEN @ ELSE @ + 1]
    /\ UNCHANGED <<index, throttle, cold, sent, faults, wins, latest, over,
                   tangled, crossed, window, loose>>

(* Bug: only the link's index is deleted, and the record stays. *)
BugRightCodeKeepsRecord(r) ==
    /\ secret[r] = held[r].send
    /\ Goto(r, "compare", "winIndex")
    /\ over' = over \cup {held[r].send}
    /\ UNCHANGED <<redis, cold, sent, held, secret, count, mine, faults,
                   wins, failed, latest, tangled, crossed, window, loose>>

(* bcrypt.compare says yes, and destroy(record) begins. *)
RightCode(r) ==
    /\ secret[r] = held[r].send
    /\ Goto(r, "compare", "winIndex")
    /\ record' = None
    /\ over' = over \cup {held[r].send}
    /\ UNCHANGED <<index, throttle, cold, sent, held, secret, count, mine, faults,
                   wins, failed, latest, tangled, crossed, window, loose>>

(* The rest of destroy(record), and the caller learns that it may go on. *)
Consumed(r) ==
    LET k == held[r].send IN
    /\ Return(r, "winIndex")
    /\ index' = index \ {k}
    /\ wins' = [wins EXCEPT ![k] = IF @ = 2 THEN 2 ELSE @ + 1]
    /\ UNCHANGED <<record, throttle, cold, sent, faults, failed, latest, over,
                   tangled, crossed, window, loose>>

(* attempts >= maxAttempts: destroy(record), 429. *)
CapSession(r) ==
    /\ Goto(r, "capSession", "capIndex")
    /\ record' = None
    /\ over' = over \cup {held[r].send}
    /\ UNCHANGED <<index, throttle, cold, sent, held, secret, count, mine, faults,
                   wins, failed, latest, tangled, crossed, window, loose>>

CapIndex(r) ==
    /\ Return(r, "capIndex")
    /\ index' = index \ {held[r].send}
    /\ UNCHANGED <<record, throttle, cold, sent, faults, history>>

-------------------------------------------------------------------------------
(* verifyByToken *)

(* A link that is not indexed is rejected, and nothing changes. *)
VerifyByToken(r, k) ==
    /\ k \in index
    /\ Goto(r, "idle", "lookup")
    /\ secret' = [secret EXCEPT ![r] = k]
    /\ UNCHANGED <<redis, cold, sent, held, count, mine, faults, history>>

Lookup(r) ==
    /\ record.send = secret[r]
    /\ Goto(r, "lookup", "winSession")
    /\ held' = [held EXCEPT ![r] = record]
    /\ tangled' = tangled \cup ({record.send} \cap HeldBy(r, Verifying))
    /\ UNCHANGED <<redis, cold, sent, secret, count, mine, faults, wins, failed,
                   latest, over, crossed, window, loose>>

(* Bug: a link that does not match destroys the challenge that is there. *)
BugLookupFailsDestroys(r) ==
    /\ record.send # secret[r]
    /\ Goto(r, "lookup", "dropIndex")
    /\ record' = None
    /\ UNCHANGED <<index, throttle, cold, sent, held, secret, count, mine, faults,
                   history>>

(* No record, or the record of another send: the index entry is dropped. *)
LookupFails(r) ==
    /\ record.send # secret[r]
    /\ Goto(r, "lookup", "dropIndex")
    /\ UNCHANGED <<redis, cold, sent, held, secret, count, mine, faults, history>>

DropIndex(r) ==
    /\ Return(r, "dropIndex")
    /\ index' = index \ {secret[r]}
    /\ UNCHANGED <<record, throttle, cold, sent, faults, history>>

WinSession(r) ==
    /\ Goto(r, "winSession", "winIndex")
    /\ record' = None
    /\ over' = over \cup {held[r].send}
    /\ UNCHANGED <<index, throttle, cold, sent, held, secret, count, mine, faults,
                   wins, failed, latest, tangled, crossed, window, loose>>

-------------------------------------------------------------------------------
(* Time.  The cooldown is shorter than every TTL of the registry, and the  *)
(* throttle window longer.                                                 *)

Cool(k) ==
    /\ k \in 1..sent /\ k \notin cold
    /\ cold' = cold \cup {k}
    /\ UNCHANGED <<redis, sent, locals, faults, history>>

Expire ==
    /\ record.send \in cold
    /\ record' = None
    /\ over' = over \cup {record.send}
    /\ UNCHANGED <<index, throttle, cold, sent, locals, faults, wins, failed,
                   latest, tangled, crossed, window, loose>>

ExpireIndex(k) ==
    /\ k \in index \cap over
    /\ index' = index \ {k}
    /\ UNCHANGED <<record, throttle, cold, sent, locals, faults, history>>

ExpireThrottle ==
    /\ throttle > 0 /\ record = None
    /\ throttle' = 0 /\ window' = 0
    /\ UNCHANGED <<record, index, cold, sent, locals, faults, wins, failed, latest,
                   over, tangled, crossed, loose>>

(* The process is killed, or Redis or the mail queue rejects a call. *)
Fault(r) ==
    /\ faults < MaxFaults
    /\ faults' = faults + 1
    /\ pc[r] # "idle"
    /\ Return(r, pc[r])
    /\ loose' = (loose \/ pc[r] \in Issuing)
    /\ UNCHANGED <<redis, cold, sent, wins, failed, latest, over, tangled, crossed,
                   window>>

Handler(r) ==
    \/ Issue(r) \/ Reissue(r) \/ DestroySession(r) \/ DestroyIndex(r)
    \/ GetThrottle(r) \/ Throttled(r) \/ Dispatch(r)
    \/ SetSession(r) \/ SetIndex(r) \/ SetThrottle(r)
    \/ \E k \in 0..MaxDispatch : VerifyByCode(r, k)
    \/ \E k \in Send : VerifyByToken(r, k)
    \/ WrongCode(r) \/ RightCode(r) \/ Consumed(r)
    \/ CapSession(r) \/ CapIndex(r)
    \/ Lookup(r) \/ LookupFails(r) \/ DropIndex(r) \/ WinSession(r)

Environment ==
    \/ \E k \in Send : Cool(k) \/ ExpireIndex(k)
    \/ Expire \/ ExpireThrottle

Next ==
    \/ \E r \in Requests : Handler(r) \/ Fault(r)
    \/ Environment

Spec == Init /\ [][Next]_vars

-------------------------------------------------------------------------------
(* A send is accepted more than once only if two verifications held its    *)
(* record together: without that overlap code and link exclude each other, *)
(* whatever resends, crashes, expiries and caps happen in between.         *)
WinsNeedOverlap ==
    \A k \in Send : wins[k] > 1 => k \in tangled

(* More wrong codes than maxAttempts are compared with one send only if    *)
(* two verifications held its record together: the counter that is read    *)
(* and written back loses nothing else.                                    *)
GuessesNeedOverlap ==
    \A k \in Send : failed[k] > maxAttempts => k \in tangled

(* The record of an earlier send is stored again after a later one only if *)
(* the two sends crossed, or a verification of the earlier one was in      *)
(* flight when the later one was stored.                                   *)
SupersededStaysDead ==
    record.send # 0 /\ record.send # latest => record.send \in crossed

(* The code of the last message works until it is accepted, exhausted,     *)
(* expired or asked for again, unless its storing crossed another request: *)
(* no stale handler deletes it.                                            *)
LatestCodeWorks ==
    latest # 0 => latest \in over \cup crossed \/ record.send = latest

(* While no issue is under way, the throttle has counted every message of  *)
(* its window, unless two issues overlapped or one died between the        *)
(* message and the counter.                                                *)
ThrottleCountsSends ==
    (\A r \in Requests : pc[r] \notin Issuing) => loose \/ window <= throttle

-------------------------------------------------------------------------------
(* otp-session.service.ts: "Consuming either secret destroys the session   *)
(* ('one send, one winner')".                                              *)
OneSendOneWinner ==
    \A k \in Send : wins[k] <= 1
===============================================================================

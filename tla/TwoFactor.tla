------------------------------ MODULE TwoFactor ------------------------------
(***************************************************************************)
(* TwoFactorService and TotpService for one user: the methods and backup   *)
(* codes in PostgreSQL, the challenges in Redis.                           *)
(*                                                                         *)
(* Rows of two_factor_methods and TOTP secrets are numbered as they are    *)
(* made; a batch of backup codes stands for one of its codes.  One-time    *)
(* codes are OtpSession's: here any check may come out right or wrong.     *)
(***************************************************************************)
EXTENDS Handlers

CONSTANTS MaxRows,        \* bound: rows of two_factor_methods created
          MaxSecrets,     \* bound: TOTP secrets generated
          MaxBatches,     \* bound: batches of backup codes
          MaxChallenges,  \* bound: challenges issued
          MaxMade         \* bound: rows and challenges together

ASSUME TwoFactorAssumption ==
    {MaxRows, MaxSecrets, MaxBatches, MaxChallenges, MaxMade} \subseteq Nat

ByMessage == {"EMAIL_OTP", "SMS_OTP"}
Method    == ByMessage \cup {"TOTP"}
Batch     == 1..MaxBatches
Challenge == 1..MaxChallenges

Row   == [id : 0..MaxRows, secret : 0..MaxSecrets, enabled : BOOLEAN]
NoRow == [id |-> 0, secret |-> 0, enabled |-> FALSE]

(* What a handler has read: one method, and either the ids a challenge is  *)
(* going to offer or the codes its transaction deletes.                    *)
Local == [type : Method \cup {"none"}, id : 0..MaxRows, secret : 0..MaxSecrets,
          challenge : 0..MaxChallenges, code : 0..MaxBatches,
          ids : SUBSET (1..MaxRows), old : SUBSET Batch]
Blank == [type |-> "none", id |-> 0, secret |-> 0, challenge |-> 0, code |-> 0,
          ids |-> {}, old |-> {}]

VARIABLES
    method,     \* two_factor_methods: a row or NoRow for each type
    codes,      \* two_factor_backup_codes: absent, unused or used
    offered,    \* Redis 2FA challenges: the method ids of each, none when it
                \* is absent
    rowCount, secretCount, batchCount, challengeCount,   \* made so far
    held,       \* local: what each handler has read
    opened,     \* history: sessions opened through each challenge
    admitted,   \* history: sessions opened with each backup code
    vouched,    \* history: the stored secret was verified by a confirmation, or
                \* stored while one was in flight
    mixed       \* history: two changes of methods or codes overlapped, or died

counters     == <<rowCount, secretCount, batchCount, challengeCount>>
methodRows   == <<method, codes>>
factorHistory == <<opened, admitted, vouched, mixed>>
factorVars   == <<methodRows, offered, counters, held, factorHistory>>

Changing  == {"upsert", "enable", "countCodes", "deleteCodes",
              "createCodes", "deleteMethod", "findRemaining", "clearCodes"}
Verifying == {"check", "takeChallenge", "touch", "issue"}
FactorLabel == Changing \cup Verifying
                 \cup {"idle", "setChallenge"}

FactorTypeOK ==
    /\ pc \in [Requests -> FactorLabel]
    /\ faults \in 0..MaxFaults
    /\ method \in [Method -> Row]
    /\ codes \in [Batch -> {"absent", "unused", "used"}]
    /\ offered \in [Challenge -> SUBSET (1..MaxRows)]
    /\ rowCount \in 0..MaxRows /\ secretCount \in 0..MaxSecrets
    /\ batchCount \in 0..MaxBatches /\ challengeCount \in 0..MaxChallenges
    /\ held \in [Requests -> Local]
    /\ opened \in [Challenge -> 0..2] /\ admitted \in [Batch -> 0..2]
    /\ vouched \in BOOLEAN /\ mixed \in BOOLEAN

FactorInit ==
    /\ HandlersInit
    /\ method = [t \in Method |-> NoRow]
    /\ codes = [b \in Batch |-> "absent"]
    /\ offered = [c \in Challenge |-> {}]
    /\ rowCount = 0 /\ secretCount = 0 /\ batchCount = 0 /\ challengeCount = 0
    /\ held = [r \in Requests |-> Blank]
    /\ opened = [c \in Challenge |-> 0] /\ admitted = [b \in Batch |-> 0]
    /\ vouched = FALSE /\ mixed = FALSE

Enabled == {t \in Method : method[t].enabled}
Ids(types) == {method[t].id : t \in types}
Existing == Ids(Method) \ {0}
Open == {c \in Challenge : offered[c] # {}}

FactorEnds(r, from) ==
    /\ Goto(r, from, "idle")
    /\ held' = [held EXCEPT ![r] = Blank]

(* A handler that changes methods or codes starts. *)
StartChange(r, label, local) ==
    /\ Goto(r, "idle", label)
    /\ held' = [held EXCEPT ![r] = local]
    /\ mixed' = (mixed \/ At(Changing) # {})
    /\ UNCHANGED <<methodRows, offered, counters, opened, admitted,
                   vouched, faults>>

Read(t) == [Blank EXCEPT !.type = t, !.id = method[t].id, !.secret = method[t].secret]

-------------------------------------------------------------------------------
(* Enrolment *)

(* An enabled method is refused. *)
EnrollByType(r, t) ==
    /\ ~method[t].enabled
    /\ StartChange(r, "upsert", [Blank EXCEPT !.type = t])

EnrollTotp(r)     == EnrollByType(r, "TOTP")
EnrollEmailOtp(r) == EnrollByType(r, "EMAIL_OTP")
EnrollSmsOtp(r)   == EnrollByType(r, "SMS_OTP")

Upserted(t, on) ==
    LET id == IF method[t].id = 0 THEN rowCount + 1 ELSE method[t].id
        secret == IF t = "TOTP" THEN secretCount + 1 ELSE 0
    IN [id |-> id, secret |-> secret, enabled |-> on]

Made == rowCount + challengeCount + Cardinality(At({"setChallenge"}))

MayUpsert(t) ==
    /\ method[t].id = 0 => rowCount < MaxRows /\ Made < MaxMade
    /\ t = "TOTP" => secretCount < MaxSecrets

StoreUpsert(r, on) ==
    LET t == held[r].type
        new == Upserted(t, on)
    IN
    /\ pc[r] = "upsert"
    /\ MayUpsert(t)
    /\ FactorEnds(r, "upsert")
    /\ method' = [method EXCEPT ![t] = new]
    /\ rowCount' = IF new.id > rowCount THEN new.id ELSE rowCount
    /\ secretCount' = IF t = "TOTP" THEN new.secret ELSE secretCount
    /\ vouched' = IF t = "TOTP" THEN \E q \in At({"enable"}) : held[q].type = t ELSE vouched
    /\ UNCHANGED <<codes, offered, batchCount, challengeCount, opened, admitted,
                   mixed, faults>>

(* Bug: the update branch leaves isEnabled alone. *)
BugUpsertKeepsEnabled(r) == StoreUpsert(r, method[held[r].type].enabled)

Upsert(r) == StoreUpsert(r, FALSE)

(* The code is computed from the secret that was read, or is the live one. *)
ConfirmTotp(r) ==
    /\ method["TOTP"].id # 0 /\ ~method["TOTP"].enabled
    /\ StartChange(r, "enable", Read("TOTP"))

ConfirmByMessage(r, t) ==
    /\ method[t].id # 0 /\ ~method[t].enabled
    /\ StartChange(r, "enable", Read(t))

ConfirmEmailOtp(r) == ConfirmByMessage(r, "EMAIL_OTP")
ConfirmSmsOtp(r)   == ConfirmByMessage(r, "SMS_OTP")

(* By id: the row may hold another secret by now. *)
Enable(r) ==
    /\ Goto(r, "enable", "countCodes")
    /\ method[held[r].type].id = held[r].id
    /\ method' = [method EXCEPT ![held[r].type].enabled = TRUE]
    /\ vouched' = (vouched \/ (held[r].type = "TOTP" /\ held[r].secret = method["TOTP"].secret))
    /\ held' = [held EXCEPT ![r] = Blank]
    /\ UNCHANGED <<codes, offered, counters, opened, admitted, mixed, faults>>

EnableFails(r) ==
    /\ FactorEnds(r, "enable")
    /\ method[held[r].type].id # held[r].id
    /\ UNCHANGED <<methodRows, offered, counters, factorHistory, faults>>

-------------------------------------------------------------------------------
(* Backup codes *)

(* issueBackupCodesIfNone, which the controllers call after a confirmation *)
CountCodes(r) ==
    /\ IF \E b \in Batch : codes[b] = "unused"
       THEN FactorEnds(r, "countCodes")
       ELSE Goto(r, "countCodes", "deleteCodes") /\ UNCHANGED held
    /\ UNCHANGED <<methodRows, offered, counters, factorHistory, faults>>

Regenerate(r) ==
    /\ Enabled # {}
    /\ StartChange(r, "deleteCodes", Blank)

(* deleteMany in the transaction: READ COMMITTED, so it deletes the rows   *)
(* committed before it began, and its effect shows at the commit.          *)
DeleteCodes(r) ==
    /\ batchCount + Cardinality(At({"createCodes"})) < MaxBatches
    /\ Goto(r, "deleteCodes", "createCodes")
    /\ held' = [held EXCEPT ![r].old = {b \in Batch : codes[b] # "absent"}]
    /\ UNCHANGED <<methodRows, offered, counters, factorHistory, faults>>

(* createMany, commit, and the answer that shows the codes. *)
CreateCodes(r) ==
    LET new == batchCount + 1 IN
    /\ FactorEnds(r, "createCodes")
    /\ codes' = [b \in Batch |-> IF b = new THEN "unused"
                                 ELSE IF b \in held[r].old THEN "absent" ELSE codes[b]]
    /\ batchCount' = new
    /\ UNCHANGED <<method, offered, rowCount, secretCount, challengeCount, opened,
                   admitted, vouched, mixed, faults>>

-------------------------------------------------------------------------------
(* disable *)

Disable(r, t) ==
    /\ method[t].id # 0
    /\ StartChange(r, "deleteMethod", [Read(t) EXCEPT !.secret = 0])

DeleteMethod(r) ==
    LET t == held[r].type IN
    /\ pc[r] = "deleteMethod"
    /\ IF method[t].id = held[r].id
       THEN /\ Goto(r, "deleteMethod", "findRemaining")
            /\ method' = [method EXCEPT ![t] = NoRow]
            /\ vouched' = (vouched /\ t # "TOTP")
       ELSE Goto(r, "deleteMethod", "idle") /\ UNCHANGED <<method, vouched>>
    /\ held' = [held EXCEPT ![r] = Blank]
    /\ UNCHANGED <<codes, offered, counters, opened, admitted, mixed, faults>>

(* Bug: the codes of a user without methods are kept. *)
BugFindRemainingKeeps(r) ==
    /\ FactorEnds(r, "findRemaining")
    /\ UNCHANGED <<methodRows, offered, counters, factorHistory, faults>>

FindRemaining(r) ==
    /\ IF Enabled = {} THEN Goto(r, "findRemaining", "clearCodes") /\ UNCHANGED held
                       ELSE FactorEnds(r, "findRemaining")
    /\ UNCHANGED <<methodRows, offered, counters, factorHistory, faults>>

ClearCodes(r) ==
    /\ FactorEnds(r, "clearCodes")
    /\ codes' = [b \in Batch |-> "absent"]
    /\ UNCHANGED <<method, offered, counters, factorHistory, faults>>

-------------------------------------------------------------------------------
(* Challenges *)

(* login reads the enabled methods, and issueChallenge stores their ids.   *)
OfferMethods(r) ==
    /\ Enabled # {}
    /\ challengeCount + Cardinality(At({"setChallenge"})) < MaxChallenges
    /\ Made < MaxMade
    /\ Goto(r, "idle", "setChallenge")
    /\ held' = [held EXCEPT ![r].ids = Ids(Enabled)]
    /\ UNCHANGED <<methodRows, offered, counters, factorHistory, faults>>

IssueChallenge(r) ==
    LET c == challengeCount + 1 IN
    /\ FactorEnds(r, "setChallenge")
    /\ offered' = [offered EXCEPT ![c] = held[r].ids]
    /\ challengeCount' = c
    /\ UNCHANGED <<methodRows, rowCount, secretCount, batchCount,
                   factorHistory, faults>>

(* A method the challenge offers, and that is still there and enabled. *)
Usable(c, t) == method[t].enabled /\ method[t].id \in offered[c]

VerifyChallenge(r, c, t) ==
    /\ c \in Open /\ Usable(c, t)
    /\ Goto(r, "idle", "check")
    /\ held' = [held EXCEPT ![r].challenge = c, ![r].id = method[t].id]
    /\ UNCHANGED <<methodRows, offered, counters, factorHistory, faults>>

(* verifyEnrolled computes; verifyByCode deletes the code it accepted. *)
FactorRight(r) ==
    /\ Goto(r, "check", "takeChallenge")
    /\ UNCHANGED <<factorVars, faults>>

(* Bug: the claim does not ask for usedAt: null. *)
BugClaimUsedCode(r, b) ==
    /\ codes[b] # "absent"
    /\ Goto(r, "check", "takeChallenge")
    /\ codes' = [codes EXCEPT ![b] = "used"]
    /\ held' = [held EXCEPT ![r].code = b]
    /\ UNCHANGED <<method, offered, counters, factorHistory, faults>>

(* The code is not the factor's; an updateMany claims it as a backup code. *)
ClaimBackupCode(r, b) ==
    /\ codes[b] = "unused"
    /\ Goto(r, "check", "takeChallenge")
    /\ codes' = [codes EXCEPT ![b] = "used"]
    /\ held' = [held EXCEPT ![r].code = b]
    /\ UNCHANGED <<method, offered, counters, factorHistory, faults>>

(* SudoService takes a backup code for any factor; it opens no session. *)
ElevateWithCode(b) ==
    /\ codes[b] = "unused"
    /\ codes' = [codes EXCEPT ![b] = "used"]
    /\ UNCHANGED <<pc, faults, method, offered, counters, held, factorHistory>>

(* Neither: the challenge stays for another try. *)
InvalidCode(r) ==
    /\ FactorEnds(r, "check")
    /\ UNCHANGED <<methodRows, offered, counters, factorHistory, faults>>

(* Bug: GET instead of GETDEL. *)
BugTakeChallengeGets(r) ==
    /\ IF held[r].challenge \in Open
       THEN Goto(r, "takeChallenge", "touch") /\ UNCHANGED held
       ELSE FactorEnds(r, "takeChallenge")
    /\ UNCHANGED <<methodRows, offered, counters, factorHistory, faults>>

TakeFactorChallenge(r) ==
    /\ IF held[r].challenge \in Open
       THEN Goto(r, "takeChallenge", "touch") /\ UNCHANGED held
       ELSE FactorEnds(r, "takeChallenge")
    /\ offered' = [offered EXCEPT ![held[r].challenge] = {}]
    /\ UNCHANGED <<methodRows, counters, factorHistory, faults>>

(* An update by id: it throws if the method was disabled meanwhile. *)
TouchMethod(r) ==
    /\ IF held[r].id \in Existing
       THEN Goto(r, "touch", "issue") /\ held' = [held EXCEPT ![r].id = 0]
       ELSE FactorEnds(r, "touch")
    /\ UNCHANGED <<methodRows, offered, counters, factorHistory, faults>>

OpenSession(r) ==
    /\ FactorEnds(r, "issue")
    /\ opened' = [opened EXCEPT ![held[r].challenge] = @ + 1]
    /\ admitted' = [b \in Batch |-> IF b = held[r].code THEN admitted[b] + 1 ELSE admitted[b]]
    /\ UNCHANGED <<methodRows, offered, counters, vouched, mixed, faults>>

-------------------------------------------------------------------------------
ExpireFactorChallenge(c) ==
    /\ c \in Open
    /\ offered' = [offered EXCEPT ![c] = {}]
    /\ UNCHANGED <<pc, faults, methodRows, counters, held, factorHistory>>

FactorDies(r) ==
    /\ Die(r)
    /\ held' = [held EXCEPT ![r] = Blank]
    /\ mixed' = (mixed \/ pc[r] \in Changing)
    /\ UNCHANGED <<methodRows, offered, counters, opened, admitted, vouched>>

MethodStep(r) ==
    \/ EnrollTotp(r) \/ EnrollEmailOtp(r) \/ EnrollSmsOtp(r)
    \/ Upsert(r)
    \/ ConfirmTotp(r) \/ ConfirmEmailOtp(r) \/ ConfirmSmsOtp(r)
    \/ Enable(r) \/ EnableFails(r)
    \/ CountCodes(r) \/ Regenerate(r) \/ DeleteCodes(r) \/ CreateCodes(r)
    \/ \E t \in Method : Disable(r, t)
    \/ DeleteMethod(r) \/ FindRemaining(r) \/ ClearCodes(r)

ChallengeStep(r) ==
    \/ OfferMethods(r) \/ IssueChallenge(r)
    \/ \E c \in Open, t \in Method : VerifyChallenge(r, c, t)
    \/ FactorRight(r)
    \/ \E b \in Batch : ClaimBackupCode(r, b)
    \/ InvalidCode(r) \/ TakeFactorChallenge(r) \/ TouchMethod(r) \/ OpenSession(r)

FactorNext ==
    \/ \E r \in Requests : MethodStep(r) \/ ChallengeStep(r) \/ FactorDies(r)
    \/ \E c \in Open : ExpireFactorChallenge(c)
    \/ \E b \in Batch : ElevateWithCode(b)

FactorSpec == FactorInit /\ [][FactorNext]_<<pc, faults, factorVars>>

-------------------------------------------------------------------------------
(* An enabled authenticator app has proved the secret that is stored,      *)
(* unless an enrolment replaced the secret while a confirmation of the old *)
(* one was in flight: enable goes by the id of the row.                    *)
EnabledSecretIsProven ==
    method["TOTP"].enabled => vouched

(* The backup codes in the table are those the user was shown last, and    *)
(* there are none without an enabled method, unless two handlers that      *)
(* change methods or codes overlapped, or one died: each replaces what it  *)
(* has found, and nothing locks the user.                                  *)
BackupCodesAreThoseShown ==
    (~mixed /\ At(Changing) = {})
        => {b \in Batch : codes[b] # "absent"} = IF Enabled = {} THEN {} ELSE {batchCount}

(* Challenges and backup codes are one-time tickets: whatever overlaps,    *)
(* expires or dies, each opens at most one session.                        *)
Claiming(r) == pc[r] \in {"touch", "issue"}

ChallengeState ==
    [c \in Challenge |->
        IF c > challengeCount THEN "unissued"
        ELSE IF opened[c] > 0 THEN "served"
        ELSE IF c \in Open THEN "open"
        ELSE IF \E r \in Requests : Claiming(r) /\ held[r].challenge = c THEN "claimed"
        ELSE "void"]

CodeState ==
    [b \in Batch |->
        IF b > batchCount THEN "unissued"
        ELSE IF admitted[b] > 0 THEN "served"
        ELSE IF codes[b] = "unused" THEN "open"
        ELSE IF \E r \in Requests : held[r].code = b THEN "claimed"
        ELSE "void"]

ChallengeTickets == INSTANCE OneTimeTicket
    WITH Ticket <- Challenge, state <- ChallengeState, served <- opened

CodeTickets == INSTANCE OneTimeTicket
    WITH Ticket <- Batch, state <- CodeState, served <- admitted

ChallengeOpensOneSession == ChallengeTickets!Spec
BackupCodeOpensOneSession == CodeTickets!Spec
===============================================================================

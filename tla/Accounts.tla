------------------------------- MODULE Accounts -------------------------------
(***************************************************************************)
(* Who an account belongs to: RegisterService, EmailVerifyService,         *)
(* PhoneVerifyService, IdentifierService, ChangeContactService,            *)
(* OAuthService, PasswordChangeService.set and the two lifecycle calls     *)
(* that delete an account and reclaim its addresses.                       *)
(*                                                                         *)
(* A read is merged with the statement after it where moving it there      *)
(* changes nothing that is written; a transaction is one step.  A code is  *)
(* an address on its way to a user; OtpSession has its life.               *)
(***************************************************************************)
EXTENDS Handlers

CONSTANTS Users, Emails, Phones,
          GoogleIds, AppleIds,   \* subjects the providers vouch for
          None,                  \* no user, no credential, no code
          MaxRowIds,             \* bound: rows of user_identifiers created
          MaxCalls               \* bound: handlers started

ASSUME AccountsAssumption ==
    /\ {MaxRowIds, MaxCalls} \subseteq Nat
    /\ Emails \cap Phones = {}
    /\ None \notin Users \cup Emails \cup Phones \cup GoogleIds \cup AppleIds

Address   == Emails \cup Phones
Kind      == {"EMAIL", "PHONE"}
KindOf(a) == IF a \in Emails THEN "EMAIL" ELSE "PHONE"

OAuth     == {"GOOGLE", "APPLE"}
Provider  == OAuth \cup {"EMAIL"}
Subjects(p) == CASE p = "EMAIL"  -> Address
                 [] p = "GOOGLE" -> GoogleIds
                 [] p = "APPLE"  -> AppleIds

Identifier == [id : 1..MaxRowIds, user : Users, primary : BOOLEAN, verified : BOOLEAN]
NoRowHere  == [id |-> 0, user |-> None, primary |-> FALSE, verified |-> FALSE]

Purpose == {"verify", "add", "change"}

Call == [user : Users \cup {None}, wanted : SUBSET Address, provider : Provider,
         subject : Address \cup GoogleIds \cup AppleIds \cup {None},
         id : 0..MaxRowIds, old : SUBSET (1..MaxRowIds), primary : BOOLEAN]
NoCall == [user |-> None, wanted |-> {}, provider |-> "EMAIL", subject |-> None,
           id |-> 0, old |-> {}, primary |-> FALSE]

VARIABLES
    users,        \* each account: free (no row yet), live, deleted or stale
    address,      \* user_identifiers, unique by (type, value)
    credential,   \* credentials, unique by (user, provider)
    sent,         \* the address of the last code of a purpose and a kind
    rowIds,       \* rows of user_identifiers created so far
    call,         \* local: what each handler has read
    calls,        \* handlers started so far
    proven,       \* history: who has shown to control which address
    torn,         \* history: users whose primary was deleted for a new one
                  \* that does not exist yet
    marred        \* history: users whose handlers overlapped, or of whom one
                  \* stopped half-way

accountTables  == <<users, address, credential, rowIds>>
accountHistory == <<proven, torn, marred>>
accountVars    == <<accountTables, sent, call, calls, accountHistory>>

AccountWriting == {"findVerify", "mark", "findPrimary", "create", "owner", "delete",
                   "clear", "setPrimary", "sync", "createCredential"}
AccountLabel   == AccountWriting \cup {"idle", "createUser", "createOAuth"}

Live            == {u \in Users : users[u] = "live"}
Free(a)         == address[a] = NoRowHere
Own(u, k)       == {a \in Address : address[a].user = u /\ KindOf(a) = k}
PrimaryOf(u, k) == {a \in Own(u, k) : address[a].primary}
RowsById(id)    == {a \in Address : address[a].id = id}
Unlinked(p, s)  == \A u \in Users : credential[u][p] # s

AccountsTypeOK ==
    /\ pc \in [Requests -> AccountLabel]
    /\ faults \in 0..MaxFaults
    /\ users \in [Users -> {"free", "live", "deleted", "stale"}]
    /\ address \in [Address -> Identifier \cup {NoRowHere}]
    /\ \A u \in Users, p \in Provider : credential[u][p] \in Subjects(p) \cup {None}
    /\ \A u \in Users, p \in Purpose, k \in Kind : sent[u][<<p, k>>] \in Address \cup {None}
    /\ rowIds \in 0..MaxRowIds
    /\ call \in [Requests -> Call]
    /\ calls \in 0..MaxCalls
    /\ proven \subseteq Users \X Address
    /\ torn \subseteq Users /\ marred \subseteq Users

AccountsInit ==
    /\ HandlersInit
    /\ users = [u \in Users |-> "free"]
    /\ address = [a \in Address |-> NoRowHere]
    /\ credential = [u \in Users |-> [p \in Provider |-> None]]
    /\ sent = [u \in Users |-> [w \in Purpose \X Kind |-> None]]
    /\ rowIds = 0 /\ calls = 0
    /\ call = [r \in Requests |-> NoCall]
    /\ proven = {} /\ torn = {} /\ marred = {}

Caller(u) == {r \in At(AccountWriting) : call[r].user = u}

MoreCalls == calls < MaxCalls
CountCall == MoreCalls /\ calls' = calls + 1

MayStart(r) == MoreCalls /\ pc[r] = "idle"

(* A handler of user u starts with what it was sent. *)
StartCall(r, label, local) ==
    /\ CountCall
    /\ Goto(r, "idle", label)
    /\ call' = [call EXCEPT ![r] = local]
    /\ marred' = IF Caller(local.user) = {} THEN marred ELSE marred \cup {local.user}
    /\ UNCHANGED <<accountTables, torn, faults>>

(* A handler goes on, and forgets what it has read when it ends. *)
Proceed(r, from, to, local) ==
    /\ Goto(r, from, to)
    /\ call' = [call EXCEPT ![r] = IF to = "idle" THEN NoCall ELSE local]
    /\ UNCHANGED <<calls, faults>>

(* It ends, or fails; what it has written stays. *)
Ends(r, from, wrote) ==
    /\ Proceed(r, from, "idle", NoCall)
    /\ marred' = IF wrote THEN marred \cup {call[r].user} ELSE marred
    /\ UNCHANGED <<accountTables, sent, proven, torn>>

The(r) == CHOOSE a \in call[r].wanted : TRUE
CallFor(u, a) == [NoCall EXCEPT !.user = u, !.wanted = {a}]

-------------------------------------------------------------------------------
(* New accounts *)

AtMostOne(S) == \A a, b \in S : a = b

(* The password credential is named after the email, or else the phone. *)
Register(r) ==
    \E wanted \in SUBSET Address :
        /\ wanted # {}
        /\ AtMostOne(wanted \cap Emails) /\ AtMostOne(wanted \cap Phones)
        /\ \A a \in wanted : Free(a)
        /\ \E name \in wanted :
              /\ wanted \cap Emails # {} => name \in Emails
              /\ StartCall(r, "createUser",
                           [NoCall EXCEPT !.wanted = wanted, !.subject = name])
        /\ UNCHANGED <<sent, proven>>

(* A provider account of a live user signs that user in and ends here; an  *)
(* address in use and an unverified one are refused.                       *)
FirstLogin(r) ==
    \E p \in OAuth, wanted \in SUBSET Emails :
    \E s \in Subjects(p) :
        /\ AtMostOne(wanted)
        /\ \A u \in Live : credential[u][p] # s
        /\ \A a \in wanted : Free(a)
        /\ StartCall(r, "createOAuth",
                     [NoCall EXCEPT !.wanted = wanted, !.provider = p, !.subject = s])
        /\ UNCHANGED <<sent, proven>>

(* The transaction that creates the account checks the unique indexes. *)
MayCreate(r) ==
    /\ \A a \in call[r].wanted : Free(a)
    /\ Unlinked(call[r].provider, call[r].subject)

StoreUser(r, u, verified) ==
    LET c == call[r]
        IdFor(a) == rowIds + IF a \in Emails THEN 1 ELSE Cardinality(c.wanted)
    IN
    /\ rowIds + Cardinality(c.wanted) <= MaxRowIds
    /\ users' = [users EXCEPT ![u] = "live"]
    /\ address' = [a \in Address |->
          IF a \in c.wanted
          THEN [id |-> IdFor(a), user |-> u, primary |-> TRUE, verified |-> verified]
          ELSE address[a]]
    /\ credential' = [credential EXCEPT ![u][c.provider] = c.subject]
    /\ rowIds' = rowIds + Cardinality(c.wanted)

Codes(u, purpose, S) == [w \in Purpose \X Kind |->
    IF w[1] = purpose /\ \E a \in S : KindOf(a) = w[2]
    THEN CHOOSE a \in S : KindOf(a) = w[2] ELSE sent[u][w]]

(* Codes go to the new addresses; one that cannot be sent is swallowed. *)
CreateUser(r) ==
    \/ /\ Proceed(r, "createUser", "idle", NoCall)
       /\ MayCreate(r)
       /\ \E u \in Users, S \in SUBSET call[r].wanted :
            /\ users[u] = "free"
            /\ StoreUser(r, u, FALSE)
            /\ sent' = [sent EXCEPT ![u] = Codes(u, "verify", S)]
       /\ UNCHANGED accountHistory
    \/ Ends(r, "createUser", FALSE) /\ ~MayCreate(r)

CreateOAuthUser(r) ==
    \/ /\ Proceed(r, "createOAuth", "idle", NoCall)
       /\ MayCreate(r)
       /\ \E u \in Users :
            /\ users[u] = "free"
            /\ StoreUser(r, u, TRUE)
            /\ proven' = proven \cup ({u} \X call[r].wanted)
       /\ UNCHANGED <<sent, torn, marred>>
    \/ Ends(r, "createOAuth", FALSE) /\ ~MayCreate(r)

-------------------------------------------------------------------------------
(* Codes: a request reads and sends; what it checks is checked again when  *)
(* the code comes back, to a signed-in user or, for an email, by its link. *)

SendCode(u, purpose, a) ==
    /\ sent[u][<<purpose, KindOf(a)>>] # a   \* a resend to it changes nothing here
    /\ sent' = [sent EXCEPT ![u] = Codes(u, purpose, {a})]
    /\ CountCall
    /\ UNCHANGED <<accountTables, call, accountHistory, pc, faults>>

ResendVerify(u, a) ==
    /\ u \in Live /\ address[a].user = u /\ ~address[a].verified
    /\ SendCode(u, "verify", a)

RequestAdd(u, a) == u \in Live /\ Free(a) /\ SendCode(u, "add", a)

RequestChange(u, a) ==
    /\ u \in Live /\ address[a].user \in {u, None}
    /\ SendCode(u, "change", a)

ResendEmail(u)        == \E a \in Emails : ResendVerify(u, a)
ResendPhone(u)        == \E a \in Phones : ResendVerify(u, a)
RequestAddEmail(u)    == \E a \in Emails : RequestAdd(u, a)
RequestAddPhone(u)    == \E a \in Phones : RequestAdd(u, a)
RequestEmailChange(u) == \E a \in Emails : RequestChange(u, a)
RequestPhoneChange(u) == \E a \in Phones : RequestChange(u, a)

Consume(r, u, purpose, k, label, local) ==
    /\ u \in Live \/ (k = "EMAIL" /\ users[u] # "free")
    /\ sent[u][<<purpose, k>>] # None
    /\ StartCall(r, label, [local EXCEPT !.user = u, !.wanted = {sent[u][<<purpose, k>>]}])
    /\ sent' = [sent EXCEPT ![u][<<purpose, k>>] = None]
    /\ proven' = proven \cup {<<u, sent[u][<<purpose, k>>]>>}

ForChange == [NoCall EXCEPT !.primary = TRUE]

ConfirmEmail(r, u)       == Consume(r, u, "verify", "EMAIL", "findVerify", NoCall)
ConfirmPhone(r, u)       == Consume(r, u, "verify", "PHONE", "findVerify", NoCall)
ConfirmAddEmail(r, u)    == Consume(r, u, "add", "EMAIL", "findPrimary", NoCall)
ConfirmAddPhone(r, u)    == Consume(r, u, "add", "PHONE", "findPrimary", NoCall)
ConfirmEmailChange(r, u) == Consume(r, u, "change", "EMAIL", "owner", ForChange)
ConfirmPhoneChange(r, u) == Consume(r, u, "change", "PHONE", "owner", ForChange)

(* The address may have gone to another account since the code was sent. *)
FindVerify(r) ==
    LET row == address[The(r)]
        found == row.user = call[r].user
    IN
    /\ Proceed(r, "findVerify", IF found THEN "mark" ELSE "idle",
               [call[r] EXCEPT !.id = row.id])
    /\ UNCHANGED <<accountTables, sent, accountHistory>>

BugMarkVerifiedOfUser(r) ==
    /\ Proceed(r, "mark", IF call[r].primary THEN "sync" ELSE "idle", call[r])
    /\ address' = [a \in Address |-> IF address[a].user = call[r].user
                                     THEN [address[a] EXCEPT !.verified = TRUE]
                                     ELSE address[a]]
    /\ UNCHANGED <<users, credential, rowIds, sent, accountHistory>>

(* By id: fails when the row is gone.  A contact change goes on. *)
MarkVerified(r) ==
    \/ /\ Proceed(r, "mark", IF call[r].primary THEN "sync" ELSE "idle", call[r])
       /\ RowsById(call[r].id) # {}
       /\ address' = [a \in Address |-> IF address[a].id = call[r].id
                                        THEN [address[a] EXCEPT !.verified = TRUE]
                                        ELSE address[a]]
       /\ UNCHANGED <<users, credential, rowIds, sent, accountHistory>>
    \/ Ends(r, "mark", FALSE) /\ RowsById(call[r].id) = {}

-------------------------------------------------------------------------------
(* Identifiers *)

BugFindPrimaryIgnores(r) ==
    /\ Proceed(r, "findPrimary", "create", [call[r] EXCEPT !.primary = TRUE])
    /\ Free(The(r))
    /\ UNCHANGED <<accountTables, sent, accountHistory>>

(* commitIdentifier: the address is free, and becomes primary when there   *)
(* is no primary of its kind.                                              *)
FindPrimary(r) ==
    LET none == PrimaryOf(call[r].user, KindOf(The(r))) = {}
    IN
    \/ /\ Proceed(r, "findPrimary", "create", [call[r] EXCEPT !.primary = none])
       /\ Free(The(r))
       /\ UNCHANGED <<accountTables, sent, accountHistory>>
    \/ Ends(r, "findPrimary", FALSE) /\ ~Free(The(r))

BugCreateIdentifierEnds(r) ==
    LET c == call[r] IN
    /\ Proceed(r, "create", "idle", NoCall)
    /\ Free(The(r)) /\ rowIds < MaxRowIds
    /\ address' = [address EXCEPT ![The(r)] =
          [id |-> rowIds + 1, user |-> c.user, primary |-> c.primary, verified |-> TRUE]]
    /\ rowIds' = rowIds + 1
    /\ torn' = torn \ {c.user}
    /\ UNCHANGED <<users, credential, sent, proven, marred>>

(* The index refuses an address that anybody has, the user included. *)
CreateIdentifier(r) ==
    LET c == call[r] IN
    \/ /\ Proceed(r, "create", IF c.primary THEN "sync" ELSE "idle", c)
       /\ Free(The(r)) /\ rowIds < MaxRowIds
       /\ address' = [address EXCEPT ![The(r)] =
             [id |-> rowIds + 1, user |-> c.user, primary |-> c.primary, verified |-> TRUE]]
       /\ rowIds' = rowIds + 1
       /\ torn' = torn \ {c.user}
       /\ UNCHANGED <<users, credential, sent, proven, marred>>
    \/ Ends(r, "create", c.id # 0) /\ ~Free(The(r))

(* An address of another account is refused, the primary is replaced       *)
(* unless it is that address.                                              *)
FindOwner(r) ==
    LET c == call[r]
        old == PrimaryOf(c.user, KindOf(The(r)))
    IN
    \/ /\ address[The(r)].user \in {c.user, None}
       /\ \/ old = {} /\ Proceed(r, "owner", "create", c)
          \/ \E a \in old : Proceed(r, "owner", IF a = The(r) THEN "mark" ELSE "delete",
                                    [c EXCEPT !.id = address[a].id])
       /\ UNCHANGED <<accountTables, sent, accountHistory>>
    \/ Ends(r, "owner", FALSE) /\ address[The(r)].user \notin {c.user, None}

ApplyEmailChange(r) == r \in At({"owner"}) /\ The(r) \in Emails /\ FindOwner(r)
ApplyPhoneChange(r) == r \in At({"owner"}) /\ The(r) \in Phones /\ FindOwner(r)

DeletePrimary(r) ==
    \/ \E a \in RowsById(call[r].id) :
         /\ address' = [address EXCEPT ![a] = NoRowHere]
         /\ torn' = torn \cup {call[r].user}
         /\ Proceed(r, "delete", "create", call[r])
         /\ UNCHANGED <<users, credential, rowIds, sent, proven, marred>>
    \/ Ends(r, "delete", FALSE) /\ RowsById(call[r].id) = {}

(* The email credential takes the new primary's name, if the name is free. *)
SyncCredential(r) ==
    LET c == call[r]
        stale == /\ The(r) \in Emails
                 /\ credential[c.user]["EMAIL"] \notin {None, The(r)}
    IN
    \/ /\ Proceed(r, "sync", "idle", NoCall)
       /\ stale /\ Unlinked("EMAIL", The(r))
       /\ credential' = [credential EXCEPT ![c.user]["EMAIL"] = The(r)]
       /\ UNCHANGED <<users, address, rowIds, sent, accountHistory>>
    \/ Ends(r, "sync", TRUE) /\ stale /\ ~Unlinked("EMAIL", The(r))
    \/ Ends(r, "sync", FALSE) /\ ~stale

SetPrimary(r, u, a) ==
    /\ u \in Live /\ address[a].user = u
    /\ address[a].verified /\ ~address[a].primary
    /\ StartCall(r, "clear", [CallFor(u, a) EXCEPT !.id = address[a].id])
    /\ UNCHANGED <<sent, proven>>

(* The transaction's first statement sees the primaries there are then, it *)
(* commits after the second.                                               *)
ClearPrimary(r) ==
    LET c == call[r]
        old == {address[a].id : a \in PrimaryOf(c.user, KindOf(The(r)))}
    IN
    \/ /\ Proceed(r, "clear", "setPrimary", [c EXCEPT !.old = old])
       /\ RowsById(c.id) # {}
       /\ UNCHANGED <<accountTables, sent, accountHistory>>
    \/ Ends(r, "clear", FALSE) /\ RowsById(c.id) = {}

WithPrimary(id, old) ==
    [a \in Address |-> [address[a] EXCEPT !.primary =
        address[a].id = id \/ (address[a].primary /\ address[a].id \notin old)]]

CommitPrimary(r) ==
    \/ /\ Proceed(r, "setPrimary", "sync", call[r])
       /\ RowsById(call[r].id) # {}
       /\ address' = WithPrimary(call[r].id, call[r].old)
       /\ UNCHANGED <<users, credential, rowIds, sent, accountHistory>>
    \/ Ends(r, "setPrimary", FALSE) /\ RowsById(call[r].id) = {}

(* One call that reads and writes in a serializable transaction; a         *)
(* conflict is retried and at last reported, and leaves nothing.           *)
Serializable ==
    /\ CountCall
    /\ UNCHANGED <<users, rowIds, call, sent, accountHistory, pc, faults>>

BugRemoveSecondary(u, a) ==
    /\ u \in Live /\ address[a].user = u /\ ~address[a].primary
    /\ address' = [address EXCEPT ![a] = NoRowHere]
    /\ Serializable
    /\ UNCHANGED credential

VerifiedOf(u) == {a \in Address : address[a].user = u /\ address[a].verified}

RemoveIdentifier(u, a) ==
    /\ u \in Live /\ address[a].user = u /\ ~address[a].primary
    /\ address[a].verified => Cardinality(VerifiedOf(u)) > 1
    /\ address' = [address EXCEPT ![a] = NoRowHere]
    /\ Serializable
    /\ UNCHANGED credential

-------------------------------------------------------------------------------
(* Credentials *)

(* A subject of this user is already linked, of another one is refused,    *)
(* and so is a second subject of the provider.                             *)
Link(r, u, p) ==
    \E s \in Subjects(p) :
        /\ u \in Live
        /\ Unlinked(p, s) /\ credential[u][p] = None
        /\ StartCall(r, "createCredential",
                     [NoCall EXCEPT !.user = u, !.provider = p, !.subject = s])
        /\ UNCHANGED <<sent, proven>>

(* A password for an account that has none, under its verified email. *)
SetPassword(r, u) ==
    \E a \in PrimaryOf(u, "EMAIL") :
        /\ u \in Live
        /\ address[a].verified /\ credential[u]["EMAIL"] = None
        /\ StartCall(r, "createCredential", [NoCall EXCEPT !.user = u, !.subject = a])
        /\ UNCHANGED <<sent, proven>>

CreateCredential(r) ==
    LET c == call[r]
        unique == credential[c.user][c.provider] = None /\ Unlinked(c.provider, c.subject)
    IN
    \/ /\ Proceed(r, "createCredential", "idle", NoCall)
       /\ unique
       /\ credential' = [credential EXCEPT ![c.user][c.provider] = c.subject]
       /\ UNCHANGED <<users, address, rowIds, sent, accountHistory>>
    \/ Ends(r, "createCredential", FALSE) /\ ~unique

BugUnlinkCountsAll(u, p) ==
    /\ u \in Live /\ credential[u][p] # None
    /\ credential' = [credential EXCEPT ![u][p] = None]
    /\ Serializable
    /\ UNCHANGED address

LoginsOf(u) == {p \in Provider : credential[u][p] # None}

(* The password, or the other provider, remains. *)
Unlink(u, p) ==
    /\ u \in Live /\ p \in LoginsOf(u)
    /\ LoginsOf(u) \ {p} # {}
    /\ credential' = [credential EXCEPT ![u][p] = None]
    /\ Serializable
    /\ UNCHANGED address

-------------------------------------------------------------------------------
(* The end of an account *)

Ages(u, from, to) ==
    /\ users[u] = from
    /\ users' = [users EXCEPT ![u] = to]
    /\ UNCHANGED <<address, credential, rowIds, sent, call, accountHistory, pc, faults>>

Deactivate(u) == Ages(u, "live", "deleted") /\ CountCall

(* The grace period of the reclaim passes. *)
GracePasses(u) == Ages(u, "deleted", "stale") /\ UNCHANGED calls

Orphan(a) == ~Free(a) /\ users[address[a].user] = "stale"

Reclaim ==
    /\ CountCall
    /\ \E a \in Address : Orphan(a)
    /\ address' = [a \in Address |-> IF Orphan(a) THEN NoRowHere ELSE address[a]]
    /\ UNCHANGED <<users, credential, rowIds, sent, call, accountHistory, pc, faults>>

AccountDies(r) ==
    /\ Die(r)
    /\ call' = [call EXCEPT ![r] = NoCall]
    /\ marred' = IF pc[r] \in AccountWriting THEN marred \cup {call[r].user} ELSE marred
    /\ UNCHANGED <<accountTables, sent, calls, proven, torn>>

SignUpStep(r) ==
    \/ MayStart(r) /\ (Register(r) \/ FirstLogin(r))
    \/ CreateUser(r) \/ CreateOAuthUser(r)

LoginMethodStep(r, u) ==
    \/ SetPassword(r, u)
    \/ \E p \in OAuth : Link(r, u, p)

VerifyCall(u) == ResendEmail(u) \/ ResendPhone(u)

VerifyStep(r) ==
    \/ MayStart(r) /\ \E u \in Users : ConfirmEmail(r, u) \/ ConfirmPhone(r, u)
    \/ FindVerify(r) \/ MarkVerified(r)

IdentifierCall(u) ==
    \/ RequestAddEmail(u) \/ RequestEmailChange(u)
    \/ RequestAddPhone(u) \/ RequestPhoneChange(u)
    \/ \E a \in Address : RemoveIdentifier(u, a)

IdentifierStep(r, u) ==
    \/ ConfirmAddEmail(r, u) \/ ConfirmAddPhone(r, u)
    \/ ConfirmEmailChange(r, u) \/ ConfirmPhoneChange(r, u)
    \/ \E a \in Address : SetPrimary(r, u, a)

CommitStep(r) ==
    \/ FindPrimary(r) \/ CreateIdentifier(r)
    \/ ApplyEmailChange(r) \/ ApplyPhoneChange(r) \/ DeletePrimary(r)
    \/ ClearPrimary(r) \/ CommitPrimary(r) \/ SyncCredential(r)
    \/ CreateCredential(r) \/ AccountDies(r)

AccountsNext ==
    \/ Reclaim
    \/ \E u \in Users :
         \/ MoreCalls /\ (VerifyCall(u) \/ IdentifierCall(u))
         \/ MoreCalls /\ \E p \in OAuth : Unlink(u, p)
         \/ Deactivate(u) \/ GracePasses(u)
    \/ \E r \in Requests :
         \/ SignUpStep(r) \/ VerifyStep(r) \/ CommitStep(r)
         \/ MayStart(r) /\ \E u \in Users : LoginMethodStep(r, u) \/ IdentifierStep(r, u)

AccountsSpec == AccountsInit /\ [][AccountsNext]_<<pc, faults, accountVars>>

-------------------------------------------------------------------------------
(* A password needs an address to be asked for by; a provider does not. *)
WayIn(u) ==
    \/ credential[u]["EMAIL"] # None /\ \E k \in Kind : Own(u, k) # {}
    \/ \E p \in OAuth : credential[u][p] # None

(* Unlinking providers and removing addresses are guarded by a transaction *)
(* each; no order of the two, beside everything else, locks a live account *)
(* out.  Only a contact change does, between its delete and its create     *)
(* (change-contact.service.ts:149-150).                                    *)
NoLockout == \A u \in Live : WayIn(u) \/ u \in torn

Settled == {u \in Live \ marred : Caller(u) = {}}

(* An account with addresses of a kind has exactly one primary among them, *)
(* unless calls of the account overlapped or one stopped half-way, which a *)
(* contact change to an address the account already has does every time.   *)
OnePrimaryPerKind ==
    \A u \in Settled, k \in Kind :
        Own(u, k) # {} => Cardinality(PrimaryOf(u, k)) = 1

(* The password credential of such an account that is named after an email *)
(* is named after its primary one, so the name it blocks for others is one *)
(* that it has (the unique index of credential.prisma:24).                 *)
CredentialNamesPrimary ==
    \A u \in Settled :
        credential[u]["EMAIL"] \in Emails => credential[u]["EMAIL"] \in PrimaryOf(u, "EMAIL")

(* An address is verified only for an account that has shown to control    *)
(* it: a code that comes back after the address changed hands verifies     *)
(* nothing (email-verify.service.ts:116-122).                              *)
VerifiedIsProven ==
    \A a \in Address : address[a].verified => <<address[a].user, a>> \in proven

(* Only a contact change takes the last verified address of a live account *)
(* (identifier.repository.ts:146-150, "so parallel removes cannot both     *)
(* pass").                                                                 *)
RecoveryIsKept ==
    [][\A u \in Live : VerifiedOf(u) # {} /\ VerifiedOf(u)' = {} => u \in torn']_accountVars

(* identifier.repository.ts:190: the addresses of an account deleted       *)
(* before the grace cutoff are removed "so the value can be registered     *)
(* again": no registration of free addresses meets the credential of an    *)
(* account that was reclaimed.                                             *)
ReclaimedValueRegisters ==
    \A r \in At({"createUser"}), u \in Users :
        /\ users[u] = "stale" /\ \A k \in Kind : Own(u, k) = {}
        /\ \A a \in call[r].wanted : Free(a)
        => credential[u]["EMAIL"] # call[r].subject
===============================================================================

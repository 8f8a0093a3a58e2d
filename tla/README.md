# Verification of nestjs-production-starter

TLA+ models of the stateful components of the starter (sessions, sudo grants,
OTP challenges, the audit pipeline, login, password reset, the second factor,
identifiers and credentials, files, push tokens, pagination), the TLC
configurations that check them, and TLAPS proofs of the safety of all of them.
Paths are relative to the repository.

## 1. Inventory

The program is a NestJS HTTP API over PostgreSQL (Prisma) and Redis, with BullMQ
queues, meant to run in several instances (`README.md:14`). Handlers are async
functions: every `await` on PostgreSQL, Redis or a queue is a point where other
handlers, of this instance or another one, run. There are almost no
transactions across awaits and no locks, so the interesting behaviour is the
interleaving of those awaits, and what is left when one of them throws.

| Component | State | Operations | Hard parts | What makes it correct |
|---|---|---|---|---|
| Sessions (`token.service.ts`, `session.service.ts`) | `sessions` rows, Redis `session:{hash}` | issue, refresh/rotate, revoke, revokeOne, revokeAllForUser | concurrent rotations, sweeps racing logins, a crash between revoke and issue, tokens of the same second | one live successor per token, no live successor beside its parent, a closed session stays closed, a sweep misses nothing that was there |
| Account lifecycle | `users.status` | deactivate, setStatus | the status is read long before it is used | no session survives its account |
| Sudo (`sudo.service.ts`, guard, interceptor) | Redis `sudo:{user}:{session}` | elevate, require, consume, clear | check before and take after the handler, swallowed failures | one mutation per grant, no grant for a closed session |
| OTP challenges (`otp-session.service.ts`) | Redis `otp:session`, `otp:token`, `otp:throttle` | issue, verifyByCode, verifyByToken | read-modify-write of whole records | one send one winner, bounded guesses, old codes stay dead, the throttle counts |
| Login (`login.service.ts`) | Redis `login:fail` | login, recordFail | counter read at the start, written at the end | lockout after `loginMaxFails` |
| Two-factor | `two_factor_methods`, `backup_codes`, Redis `2fa-challenge` | enroll, confirm, disable, challenge, verify | claims and challenges taken in separate steps | a backup code and a challenge are used once |
| Identifiers, contact change, OAuth | `identifiers`, `credentials` | add, confirm, setPrimary, remove, change, link, unlink | delete-then-create without a transaction, serialization retries | at most one primary of a kind, never the last way in removed |
| Password change and reset | `credentials`, Redis `password-reset*` | change, set, forgot, send, reset | pickers written back, sweeps after the change | an old password opens no session afterwards |
| Audit (`core/audit`) | Redis list, BullMQ jobs, `activities` | record, recordMany, importBulk, flush | rows popped before they are stored, two kinds of flush | every row stored once, bounded loss |
| Files | `file_objects`, the bucket | create URL, confirm, delete | two stores without a transaction | a READY row has its object |
| Push tokens | `fcm_tokens` | register, remove | two unique keys | one row per token and per device |
| Pagination | none | keyset and offset pages | ties in the order | every row on one page |
| Mail and SMS queues, health, observability, configuration, HTTP shell | none or external | | pure I/O | not modelled |

How they interact: login, registration, OAuth and the second factor end in
`TokenService.issue`; password, primary-address and contact changes, block and
deactivation end in `TokenService.revokeAllForUser`, which also deletes sudo
grants, mirrors and push tokens. Access tokens are checked against the account
and never against the session row, so a closed session's client goes on calling
until its access token expires. OTP challenges admit verification, reset, 2FA
and elevation. Every handler records audit rows.

`PROJECT.json` lists every component with its status, and under `hazards` each
place where one of these hard parts bites, with the properties that cover it or
the reason why none does.

## 2. Modules

| Module | What it is |
|---|---|
| `SessionLifecycle` | abstract specification of the session table: open, succeed a retired session, retire |
| `Sessions` | the handlers of TokenService, SessionService and AccountLifecycleService, one await per action; implements `SessionLifecycle` |
| `SessionsProofs` | theorems about `Sessions` with TLAPS proofs |
| `Sudo` | extends `Sessions` with authenticated calls: elevation, one-shot mutations, clear, push registration |
| `SudoProofs` | theorems about `Sudo`, on those of `SessionsProofs` |
| `OtpSession` | OtpSessionService over its three kinds of Redis keys |
| `OtpProofs` | theorems about `OtpSession` |
| `AuditPipeline` | AuditService, AuditBufferService and AuditProcessor over a list and BullMQ jobs |
| `AuditPipelineProofs` | theorems about `AuditPipeline` |
| `Handlers` | what the modules below share: requests, their program counters, a handler that dies |
| `Login` | LoginService, the fail counter, and what ends the sessions it opens |
| `PasswordReset` | PasswordResetService: pickers, their index, the reset |
| `SignInProofs` | theorems about `Login` and `PasswordReset`, and that a behaviour of `MCSignIn` is one of its modules' |
| `TwoFactor` | TwoFactorService and TotpService: methods, backup codes, challenges |
| `TwoFactorProofs` | theorems about `TwoFactor`, with its two refinements |
| `OneTimeTicket` | abstract specification of a one-time secret; `TwoFactor` implements it twice |
| `Accounts` | identifiers and credentials: registration, verification, contact changes, OAuth, reclaim |
| `AccountsProofs` | theorems about `Accounts` |
| `Files` | rows of `file_objects`, the bucket, and the client's presigned write |
| `PushTokens` | registrations of `fcm_tokens` as READ COMMITTED transactions |
| `Pagination` | cursor and offset walks while rows are inserted |
| `RecordsProofs` | theorems about `Files`, `PushTokens` and `Pagination`, and that a behaviour of `MCRecords` is one of its modules' |
| `MCSignIn` | `Login`, `PasswordReset` and `TwoFactor` as one instance |
| `MCRecords` | `Accounts`, `Files`, `PushTokens` and `Pagination` as one instance |
| other `MC*` | an instance of the module they are named after |

The modules of `MCSignIn`, and those of `MCRecords`, have no row and no key in
common. A product of them would only multiply their states, so a behaviour of
an instance is one of one component, which the variable `component` names, and
the properties of the others hold of their initial states. That this is so is
proved (`SignInIsOneModule`, `RecordsAreOneModule`).

### Sessions

A request is a process with a program counter (`pc`, naming its next await) and
the local variables of the handler (`owner`, `subject`, `listed`, `todo`). The
shared state is `account`, `rows`, `mirrors`, `grants` and `push`; `delivered`
are the sessions whose tokens a client holds. The elements of `Promise.all` are
separate, unordered steps. A thrown error (`Fault`) ends a request at any await
and undoes nothing.

A session is identified by its user and the second of its issue, because a
refresh JWT is a function of these two (`signRefreshToken` has no `jti`):
`Issue` needs the unique row to be free, `IssueConflict` is P2002. Signing and
creating are one step; a clock tick between them gives no behaviour the
interleaving of two issues within one second lacks.

History variables record what a state alone does not show: `parent` (which
session a session was rotated from), `overlap` (tokens two rotations held
active together), `closed` (handed-out sessions whose closing reached Redis).

### Sudo

A call is an authenticated request with a session's access token. `OneShot` is
the guard, `Mutate` the handler's commit and `Take` the interceptor. The factor
an elevation checks is abstracted to "it was right". Grants of one session are
numbered by `mints`, so that a grant that replaced another one is told apart.
`SudoNext` interleaves the calls with all of `Sessions`.

`revokeOne` revokes the row, then deletes the mirror, then the grant, and a later
log-out of that session finds no active row and deletes nothing. `abandoned` are
the sessions whose `revokeOne` died in between. Every other handler that closes a
session deletes its grant first, so that its death cannot leave one: that is what
`ClosedSessionHasNoGrant` says at every moment, with handlers dying anywhere.

`ClosedSessionHasNoGrant` exempts sessions that have expired. `revoke` and
`revokeAllForUser` look for active rows, so the log-out or the sweep of an
expired session revokes its row and leaves the grant, until the grant's own TTL
(`token.service.ts`, `findActiveByHash` and `listActiveForUser`). No access token
of such a session is good any more unless `AccessTtl` exceeds `RefreshTtl`.

### OtpSession

One challenge key and its destination. Message *n* carries code *n* and link
*n*; the stored record is (send, attempts). `held`, `count` and `mine` are what
a handler has read and not yet written. Cooldown and TTLs are environment steps
(`Cool`, `Expire*`) in the order the policy constants give them: the cooldown is
shorter than any TTL, the throttle window longer. Code-only purposes are the
same machine without the link actions.

### AuditPipeline

Rows are pushed by requests (`Record`, `Length`, `AddFlush`), popped by workers
(`Drain`) and inserted (`Persist`). BullMQ is modelled from how it is configured:
an `add` under an existing id is ignored, failed jobs with a stable id stay, and
the scheduler's iterations have ids of their own. Left out: the trimming of
failed jobs after a hundred others, and retries of a scheduler iteration (the
next one does the same).

The insert and the end of the job are two awaits: after its last `createMany`
(or an empty list) a worker is at `finish`, after a failure at `fail`, and
BullMQ learns of it by `Complete` or `Fail`. A worker may die at either
(`Die`, which is also a completion that Redis does not get), or lose the lock of
its job and go on with its run (`Stall`). In both cases BullMQ hands the job to
another worker or fails it (`GiveAway`).

So a run of the import that has inserted, or still will, may be followed by
another, and `createMany` inserts the rows again: nothing in the job or in the
table tells the copies apart. `unsure` counts these runs, and `BulkIsComplete`
says that there is at most one copy more than they are, and at least one when
the job has left the queue. Listed rows are safe from it, because a second run
pops other rows (`EachRowInOnePlace`).

### Login

One user, one identity. Passwords are numbered by the order in which they were
stored, and a session or challenge is known by the password that was proved for
it. `LoginStart` reads the counter, `RecordFail` writes what was read plus one.
`StoreHash` and `SweepSessions` are the two steps of a password change and of a
reset, `BlockStart` and `SweepSessions` those of a block; the awaits inside the
sweep are in `Sessions`. A session is `late` if what it was asked with did not
hold any more when it was issued.

### PasswordReset

A picker is `open` after forgot and `sent` once a channel was chosen. Each write
of a picker (`SetPicker`, `RewritePicker`) is followed by the one of its index
(`SetPickerIndex`). A reset takes the index and deletes the picker it names.
That two forgot calls leave the first picker alive after a reset is what the
code does, although `auth-cache.service.ts` speaks of clearing "any open
forgot-password picker for the user"; `PickersDieWithReset` exempts exactly
those (`hidden`). A reset through it still needs a live code of the user.

### TwoFactor

Rows, secrets, batches of backup codes and challenges are numbered as they are
made. `Enable` goes by the id of the row and not by the secret that was
verified. `DeleteCodes` and `CreateCodes` are the two statements of one
READ COMMITTED transaction, which takes effect at its end. One-time codes belong
to `OtpSession`: here any check may turn out right or wrong. `ElevateWithCode`
is the other place that claims backup codes, `SudoService`.

### Accounts

`address` is `user_identifiers` by its unique value, `credential` is
`credentials` by (user, provider). A read is merged with the statement after it
where nothing that is written depends on the difference; a transaction is one
step, except that the one of `setPrimary` runs under READ COMMITTED and is two
(`ClearPrimary`, `CommitPrimary`). The serializable ones (`RemoveIdentifier`,
`Unlink`) are atomic, and a conflict they report leaves nothing. A code is the
address on its way to a user; `proven` collects what came back.

Facts the model shows that are not promised otherwise anywhere:

* A change to a secondary address the account has already deletes the primary
  and then always fails on the unique index
  (`change-contact.service.ts:147-156`). Between the delete and the create, and
  after a failure there, the account has no primary (`torn`, `marred`).
* `applyPhoneChange` does not rename a password credential that is named after
  the phone, so `CredentialNamesPrimary` is about emails.
* The credentials of a deleted account stay: its provider account cannot sign
  up again, nor can its reclaimed address (finding).

### Files, PushTokens, Pagination

A file stands for its row and its random key; `Put` is the client's write with
a URL that stays valid until it expires. A registration reads two rows in two
statements and commits its writes in one, or fails on the indexes. A walk asks
page after page while `Insert` and `Tick` go on; a query sorts rows its
`orderBy` does not tell apart as it likes, which matters for `activity.list`,
whose order has no tie-break.

## 3. Runs

| Run | Result | Shows |
|---|---|---|
| `sessions` | holds | `ForkNeedsOverlap`, `SuccessorRetiresParent`, `ClosedIsFinal`, and that `Sessions` implements `SessionLifecycle` |
| `sessions_live` | holds | a sweep revokes every session that was alive when it started |
| `sessions_reuse` | violated | reuse by two overlapping refreshes is not noticed (finding) |
| `sessions_second` | violated | a rotation in the second of its issue loses the session (finding) |
| `sudo` | holds | `ReuseNeedsSharing`, `ClosedSessionHasNoGrant` |
| `sudo_once` | violated | two parallel calls both commit with one grant (finding) |
| `otp` | holds | `WinsNeedOverlap`, `GuessesNeedOverlap`, `SupersededStaysDead`, `LatestCodeWorks`, `ThrottleCountsSends` |
| `otp_winner` | violated | two overlapping verifications are both accepted (finding) |
| `audit` | holds | `EachRowInOnePlace`, `FaultLosesOneBatch`, `BulkIsComplete`, and `RowsLand` |
| `signin` | holds | `FailsCountRejections`, `StaleSessionsAreLate`; `PickersDieWithReset`; `EnabledSecretIsProven`, `BackupCodesAreThoseShown`, and that challenges and backup codes implement `OneTimeTicket` |
| `records` | holds | `NoLockout`, `OnePrimaryPerKind`, `CredentialNamesPrimary`, `VerifiedIsProven`, `RecoveryIsKept`; `UploadedHasObject`, `OrphansArePutLate`; `RegistrationsStay`; `WalksAreComplete` |
| `accounts_reclaim` | violated | a reclaimed address cannot be registered (finding) |

The properties of the form "X only if two handlers overlapped" say exactly how
far the code's checks reach: the violated ones are what the comments promise,
the ones that hold are the strongest form that is true of the code. The history
variables in their premises (`raced`, `hidden`, `crossed`, `mixed`, `marred`,
...) name the overlap that breaks the promise, and every other interleaving,
death and expiry is quantified over.

Every property of a passing run has a mutant in the modules (`Bug...`): the
operation it mutates, with a plausible mistake, violates the property.

### Bounds

* Two handlers at a time (`Requests`), two calls, two workers. The races in
  this code are between a reader and a writer of one key or row; a third
  handler adds what a handler that ran in between adds, and those run
  sequentially here without a bound on their number.
* One user, except where rows of two compete for a unique value: two users in
  `Accounts` and two owners in `PushTokens`.
* `loginMaxFails` 2, `MaxVersions` 2, `MaxPickers` 2, and two of each counted
  thing in `TwoFactor` (`MaxMade` bounds rows and challenges together by 3): a
  lock and a counter below it, an old and a new password, a hidden picker, a
  method that was disabled and enrolled again, a replaced secret, a replaced
  batch, two challenges at once.
* `Accounts`: two emails, one phone, one subject of each provider, `MaxRowIds`
  4, `MaxCalls` 5 handlers: enough for two registrations, or for one followed by
  an addition, its confirmation, and two calls that race.
* `Files` two files; `PushTokens` two devices, two tokens, two rows; `Pagination`
  four rows of three instants on pages of two: ties inside a page, across its
  edge, and a second page.
* `MaxTime`: three seconds in `sessions`, so that tokens of the same second, of
  different seconds, and expired ones occur (`RefreshTtl` 2, `AccessTtl` 1).
  `sudo` fixes one second: expiry of a grant is a step of its own, and that the
  clock matters for nothing but the exemption of expired sessions is proved.
* `MaxFaults`: one failed handler at any await. `sudo` has one failure in all, of
  a handler or of a take (`MaxFailures`), and when it is a handler's, no grant
  was shared before and one call is in flight from then on (`MaxAfterDeath`):
  what a death leaves of a grant is about the closing handlers and one elevation.
* `MaxMints` 2, `MaxKept` 1: a replaced grant, and one failed take.
* `maxAttempts` 1, `maxSendsPerWindow` 1, `MaxDispatch` 2: the last allowed
  guess, the cap, a refused send, and a superseded message occur.
* `Rows` 3 with `batchSize` 2: a full batch followed by a short one, and a list
  that never reaches a batch. In `audit` there are two faults, so that an import is
  run a second time after an insert of unknown outcome, a death or a stall, and
  fails or stalls again; one listed row is recorded in a behaviour with an import
  (`MaxBeside`), and one fault happens in a behaviour without (`MaxWithout`),
  where a second one repeats the first on another batch. The proofs have none of
  these bounds.

`CHECK_DEADLOCK FALSE` in the OTP, `signin`, `records` and `accounts_reclaim`
configurations: once the messages, calls or rows of the bound are used up, nobody
has anything to do, and a client that has seen the last page stops.

Symmetry is used where requests, calls or workers are interchangeable, and
never in a run that checks a liveness property.

### Fairness

`Sessions!FairSpec`: weak fairness of `Continue(r)`, the steps of a request that
has started: Node runs the continuation of every settled promise. Starting a
request, the clock and faults are not fair. `AuditPipeline!Fairness`: weak
fairness of the scheduler (BullMQ's `every`) and of each worker's next step; the
requests' own steps and failures are not fair.

## 4. Proofs

`SessionsProofs` proves, for every set of users and requests and every bound:

* `TypeCorrect`: `Spec => []TypeOK`
* `Invariance`: `Spec => []IInv`
* `ForksNeedOverlap`, `SuccessorsRetireParents`, `ClosedSessionsAreFinal`: the
  safety invariants of the run `sessions`
* `Refinement`: `Spec => ImplementsLifecycle`

from `SessionsAssumption` alone. None of the three invariants is inductive:
that a successor's parent is revoked needs that a rotation past its revoke has
revoked its row (`RevokedBehind`), that handlers past a row's creation have
a row (`RowsExist`), and that rows never return; that a closed session's mirror
stays away needs that only one handler opens a session and that it does so
before the session is delivered (`OneOpener`); that forks need an overlap needs
that among the rotations past the find on one token all but one are in
`overlap` (`OneRedeemer`). `IInv` is their conjunction with the types of the
locals; TLC checked it first. The step lemma has one case per action of `Next`.

The refinement maps `rows` and `parent` to themselves: `Issue` is `Open` or
`Succeed`, every revoking step is `Retire` of the live rows it hits, the rest
stutters.

`SudoProofs` proves, for every set of users and requests, every finite set of
calls and every clock, from `SessionsAssumption` and `SudoAssumption`:

* `SudoTypes`: `SudoSpec => []SudoTypeOK`
* `SecondUseNeedsSharing`: `SudoSpec => []ReuseNeedsSharing`
* `ClosingTakesTheGrant`: `SudoSpec => []ClosedSessionHasNoGrant`
* `SessionsKeepTheirPromises`: the three safety invariants of `Sessions` hold of
  `SudoSpec` too, whose calls change the grants between the handlers' steps

`SudoInv` has two parts beside `IInv`. `CallInv`: a grant outside `shared` and
`kept` is held by one call, and once it was used, its holder is past the
mutation or it is not stored any more (`UnsharedIsUsedOnce`); nothing is known of
grants that are not minted yet, so a mint cannot bring a used one back.
`GrantInv` is what `ClosedSessionHasNoGrant` needs while handlers are in flight:
a session that is revoked with its grant still there has a `revokeOne` that owes
the delete, or is `abandoned` by one that died; and every other handler has deleted the grant, or has it on its list,
before it revokes (`HandlersTakeGrants`). A mint in between makes the session
`late`, because a handler only works on sessions of its owner
(`SubjectsAreOwned`).

`OtpProofs` proves, from `OtpAssumption`, for every finite set of requests and all
limits: `OtpTypes`, and `WinsNeedOverlap`, `GuessesNeedOverlap`,
`SupersededStaysDead`, `LatestCodeWorks`, `ThrottleCountsSends` as
`SendsAreAcceptedOnce`, `GuessesAreCapped`, `OldRecordsStayDead`, `LastCodeLives`
and `ThrottleIsExact`. The handlers of `otp-session.service.ts` write back what
they read, so each of these is about the copies that handlers hold. `OtpInv` says
of a send that no two verifications held together (`UntangledIsOne`) that one
handler reads it, that its counter has counted every wrong code, and that nothing
of it is left once it is won; of the record of an earlier send in a handler's
hands that it is in `crossed` (`ReadersAreCrossed`); and of the one issue under
way how much of the window it has counted (`IssuesAreCounted`).

`AuditPipelineProofs` proves, from `AuditAssumption`, for every finite set of
rows and of workers and all batch sizes: `AuditTypes`, and `EachRowInOnePlace`,
`FaultLosesOneBatch`, `BulkIsComplete` as `RowsAreNeitherCopiedNorForgotten`,
`LossIsBounded` and `ImportsAreComplete`. `EachRowInOnePlace` counts; the
invariant instead names the place of each row (`PlacesAreKept`) and adds that a
job with an id of its own is run by one worker that it is not taken from
(`JobsAreRun`) and that a worker has at most a batch in memory (`WorkersFit`).
`BulkIsComplete` is not inductive either: `ImportIsKept` counts, beside the copies
of a row that are stored, those that workers have yet to insert whose job was
given away (`Late`), and allows for the one run that ended well or is about to
(`Ended`).

`SignInProofs` proves, from `HandlersAssumption`, `PickersAssumption` and
`LoginAssumption`:

* `ResetClosesPickers`: `ResetSpec => []PickersDieWithReset`. Inductive with where
  an open picker can be found (`OpenIsIndexed`), what an index that was written
  behind a reset's back names (`IndexedIsCrossed`), and which handlers may still
  write a picker that a reset has doomed (`DoomedIsRead`).
* `FailsAreCounted`: `LoginSpec => []FailsCountRejections`. Inductive with what a
  login has read of the counter (`CounterIsRead`).
* `SweepsMissNothing`: `LoginSpec => []StaleSessionsAreLate`. Inductive with the
  versions that were proved before they are issued for (`ProofsAreVersions`).
* `SignInIsOneModule`, `SignInTypes`: a behaviour of `MCSignIn` is one of `LoginSpec`,
  `ResetSpec` or `FactorSpec`, and keeps every type.

`TwoFactorProofs` proves, from `HandlersAssumption` and `TwoFactorAssumption`:

* `EnabledSecretsAreProven`: `FactorSpec => []EnabledSecretIsProven`
* `CodesAreThoseShown`: `FactorSpec => []BackupCodesAreThoseShown`; `CodesInStep`
  says what the one handler that changes methods or codes finds at each label
* `ChallengesAreTickets`, `BackupCodesAreTickets`: `FactorSpec` implements
  `OneTimeTicket`, once for challenges and once for backup codes. A challenge is
  open, claimed by one handler, or has served (`ChallengeHasOneUse`), and so is a
  code (`CodeHasOneUse`): a GETDEL, and the `updateMany` that sets `usedAt`, are
  `Claim`; the answer with tokens, or with a grant, is `Serve`; an expiry, a
  regeneration or a claimant that ends is `Void`; every other step stutters.

`AccountsProofs` proves, from `AccountsAssumption` and `HandlersAssumption`, for
all users, addresses, provider accounts and handlers:

* `AccountsTypes`: `AccountsSpec => []AccountsTypeOK`
* `NobodyIsLockedOut`: `AccountsSpec => []NoLockout`
* `OnePrimaryStays`: `AccountsSpec => []OnePrimaryPerKind`
* `CredentialFollowsPrimary`: `AccountsSpec => []CredentialNamesPrimary`
* `OnlyProvenIsVerified`: `AccountsSpec => []VerifiedIsProven`
* `RecoveryStays`: `AccountsSpec => RecoveryIsKept`

Handlers here read a row, and write by its id awaits later. `CallsFit` says what
that is worth: a row a handler has read is as it was read, in what matters to
the handler, or is gone (`ReadStill`), because ids are not used again
(`Keys`), rows do not change hands and are not unverified. `VerifiedIsProven`
follows from it. A way in is kept by `Reachable`: an account has a login; with a
password among them it has an address; and when it has an address that may be
removed, it has a verified one, which `remove` leaves when it goes. That `link`
and `set` read the guard of their write earlier does no harm, since nothing takes
the last address of an account but a contact change (`torn`). For the primaries, an
account is in order when no handler of it is in flight, and its only handler
knows at each label how far the account is from that (`AloneFits`): no primary
between the delete and the create of a change (`Replacing`), the credential not
renamed yet before the sync (`Replaced`). Steps of other accounts' handlers
leave an account what it has (`Lessens`), which is why nothing about them is in
the premise of `OnePrimaryPerKind`. There is one lemma per action of the
specification (`...Keeps`), over two that are about any handler that goes on
(`HandlerGoes`) or starts (`HandlerStarts`).

`RecordsProofs` proves, for every set of files and requests, from
`FilesAssumption` and `HandlersAssumption`:

* `UploadsHaveObjects`: `FilesSpec => []UploadedHasObject`
* `OrphansAreLateWrites`: `FilesSpec => []OrphansArePutLate`

Neither is inductive: between the two stores a handler acts on what it has
seen in the other one. `FilesInv` says what that is worth: the creator of a row
has the file to itself (`CreatorIsAlone`), every other handler has found a row
(`RowWasFound`), what a confirmation saw in the bucket is there or a delete came
in between (`SeenIsThere`), and past the delete of an object only a late write
brings it back (`DeletedBehind`). `FilesInvariance` is its theorem.

It also proves, for all owners, devices and tokens, from
`PushAssumption` and `HandlersAssumption`:

* `RegistrationsAreKept`: `PushSpec => []RegistrationsStay`

`PushInv` adds that of two registrations in flight neither is alone
(`AloneMeansAlone`), and that a row read by its token, or by its device, has
that token or device still when the transaction writes, if the registration is
alone or the row is promised (`TokenStillRead`, `DeviceStillRead`): so a write
never takes a promised row of another device. Its step lemma is split by
statement; the commit has a case for the row that is in sync and one for the
others. `PushInvariance` is its theorem, with the unique keys in `PushTypeOK`.

And for every finite table, every size of a page and any insertions between two
pages, from `PaginationAssumption`:

* `PageTypes`: `PageSpec => []PageTypeOK`
* `WalksMissNothing`: `PageSpec => []WalksAreComplete`

`PageInv` says what a walk has shown before it ends. By cursor (`CursorWalk`) it
has shown each row that was there at the start once, unless it is in the keyset
that is still to come; a row created meanwhile may join the keyset, and moves no
other row into it or out of it. By offset
(`OffsetWalk`) a row that was not shown has at least as many rows created after
it as the pages so far hold; insertions only add to them, and a page skips that
many rows. `SkippedComeBefore` and `PageSplitsKeyset` are the two lemmas about
one page; `PagesHoldRows` is the arithmetic of the last one, whose count closes
the walk. No induction over a list of pages is needed, because the state holds
only what was shown.

`RecordsAreOneModule` and `RecordsTypes`: a behaviour of `MCRecords` is one of the
specification of the component it has chosen, and keeps every type.

The assumptions are the ones TLC evaluates on the runs: bounds and limits are
natural numbers, values that stand for nothing are not among the values,
`batchSize` and `attempts` are not 0 (`AuditAssumption`), and the handlers,
calls and workers, the recorded rows and those of a listed table are finite sets, which they are in any
process. Nothing is assumed of how handlers are scheduled.

Every inductive invariant was first checked by TLC as an invariant of the runs'
instances, `SudoInv` also with a clock that expires sessions.

Only model-checked: the liveness properties (`SweepReachesEverySession`,
`RowsLand`), since the prover knows no fairness.

## 5. Not modelled

Formatting, DTO validation, cookies, i18n, swagger, logging, tracing and
configuration have no state the properties could be about. The mail and SMS
processors make one external call per job. Cryptography is abstracted: secrets
are compared by identity. Rate limiting by `@Throttle` is left out; it bounds
how often the races here are tried, and excludes none.

Left out of modelled code: the destination of a 2FA method, which a contact
change retargets when it is no longer verified and which `remove` and
`setPrimary` leave alone; the notice to the old address; that a first password
is refused under an Apple relay address (the model allows it, which adds
behaviour); the HTTP response cache, which no route asks for; the awaits of
the session sweeps at the end of the handlers of `Accounts`, which are those of
`Sessions`; connection handling of Redis and Prisma.

## 6. Plan

1. `Accounts`: the destinations of 2FA methods.
2. Liveness of the retries in `AuditPipeline` under a longer outage.

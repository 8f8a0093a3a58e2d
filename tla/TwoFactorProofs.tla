---------------------------- MODULE TwoFactorProofs ----------------------------
(***************************************************************************)
(* Theorems about TwoFactor, for any requests and any bounds: what an      *)
(* enabled secret has proved, which backup codes are in the table, and     *)
(* that challenges and backup codes are one-time tickets.                  *)
(***************************************************************************)
EXTENDS TwoFactor, FiniteSetTheorems, TLAPS

(* Every batch and challenge that is going to be made has its number. *)
CountsAreBounded ==
    /\ batchCount + Cardinality(At({"createCodes"})) <= MaxBatches
    /\ challengeCount + Cardinality(At({"setChallenge"})) <= MaxChallenges

(* What a handler has read when it comes to a label. *)
LocalsFit ==
    \A r \in Requests :
        /\ pc[r] = "idle" => held[r] = Blank
        /\ pc[r] \in {"upsert", "enable", "deleteMethod"} => held[r].type \in Method
        /\ pc[r] \in {"enable", "deleteMethod"} => held[r].id # 0
        /\ pc[r] = "setChallenge" => held[r].ids # {}
        /\ pc[r] \in Verifying => held[r].challenge \in 1..challengeCount
        /\ held[r].code # 0 => /\ pc[r] \in {"takeChallenge", "touch", "issue"}
                               /\ held[r].code \in 1..batchCount

(* An enabled method has a row. *)
RowsHaveIds == \A t \in Method : method[t].enabled => method[t].id # 0

(* A confirmation that will enable the row checked its secret, or the      *)
(* secret was stored beside it.                                            *)
SecretIsRead ==
    \A r \in Requests :
        /\ pc[r] = "enable" /\ held[r].type = "TOTP" /\ held[r].id = method["TOTP"].id
        => held[r].secret = method["TOTP"].secret \/ vouched

(* A challenge is open, claimed by one handler, or has served. *)
ChallengeHasOneUse ==
    /\ \A c \in Open : c <= challengeCount /\ opened[c] = 0
    /\ \A c \in Challenge : opened[c] <= 1 /\ (opened[c] > 0 => c <= challengeCount)
    /\ \A r \in Requests : Claiming(r) =>
          /\ held[r].challenge \notin Open /\ opened[held[r].challenge] = 0
          /\ \A q \in Requests :
                Claiming(q) /\ held[q].challenge = held[r].challenge => q = r

(* And so is a backup code. *)
CodeHasOneUse ==
    /\ \A b \in Batch : codes[b] # "absent" => b <= batchCount
    /\ \A b \in Batch : codes[b] = "unused" => admitted[b] = 0
    /\ \A b \in Batch : admitted[b] <= 1 /\ (admitted[b] > 0 => b <= batchCount)
    /\ \A r \in Requests : held[r].code # 0 =>
          /\ codes[held[r].code] # "unused" /\ admitted[held[r].code] = 0
          /\ \A q \in Requests : held[q].code = held[r].code => q = r

(* The handler that changes methods or codes, if it is the only one: what  *)
(* it finds at each label.                                                 *)
Stored    == {b \in Batch : codes[b] # "absent"}
AsShown   == Stored = IF Enabled = {} THEN {} ELSE {batchCount}
AtMostOne == Stored = {} \/ Stored = {batchCount}

CodesInStep ==
    ~mixed =>
        /\ \A r, q \in Requests : pc[r] \in Changing /\ pc[q] \in Changing => r = q
        /\ (\A r \in Requests : pc[r] \notin Changing) => AsShown
        /\ \A r \in Requests :
              /\ pc[r] \in {"upsert", "enable"} => AsShown /\ held[r].type \notin Enabled
              /\ pc[r] = "deleteMethod" => AsShown
              /\ pc[r] \in {"countCodes", "deleteCodes"} => Enabled # {} /\ AtMostOne
              /\ pc[r] = "createCodes" => Enabled # {} /\ AtMostOne /\ held[r].old = Stored
              /\ pc[r] = "findRemaining" => AtMostOne /\ (Enabled # {} => AsShown)
              /\ pc[r] = "clearCodes" => Enabled = {}

FactorInv ==
    /\ FactorTypeOK /\ CountsAreBounded /\ LocalsFit
    /\ RowsHaveIds /\ SecretIsRead /\ EnabledSecretIsProven
    /\ ChallengeHasOneUse /\ CodeHasOneUse /\ CodesInStep

LEMMA Bounds ==
    /\ MaxRows \in Nat /\ MaxSecrets \in Nat /\ MaxBatches \in Nat /\ MaxChallenges \in Nat
    /\ MaxFaults \in Nat
  BY TwoFactorAssumption, HandlersAssumption

LEMMA FactorInitInv == FactorInit => FactorInv
<1> SUFFICES ASSUME FactorInit PROVE FactorInv
  OBVIOUS
<1> USE Bounds DEF FactorInit, HandlersInit
<1>1. Blank \in Local /\ NoRow \in Row /\ Blank.code = 0 /\ ~NoRow.enabled
  BY DEF Blank, Local, NoRow, Row
<1>2. FactorTypeOK
  <2>1. pc \in [Requests -> FactorLabel] /\ faults \in 0..MaxFaults
    BY DEF FactorLabel
  <2>2. method \in [Method -> Row] /\ held \in [Requests -> Local]
    BY <1>1
  <2>3. /\ rowCount \in 0..MaxRows /\ secretCount \in 0..MaxSecrets
        /\ batchCount \in 0..MaxBatches /\ challengeCount \in 0..MaxChallenges
    OBVIOUS
  <2>4. /\ codes \in [Batch -> {"absent", "unused", "used"}]
        /\ offered \in [Challenge -> SUBSET (1..MaxRows)]
        /\ opened \in [Challenge -> 0..2] /\ admitted \in [Batch -> 0..2]
    OBVIOUS
  <2>5. vouched \in BOOLEAN /\ mixed \in BOOLEAN
    OBVIOUS
  <2>6. QED
    BY <2>1, <2>2, <2>3, <2>4, <2>5 DEF FactorTypeOK
<1>3. CountsAreBounded
  <2>1. At({"createCodes"}) = {} /\ At({"setChallenge"}) = {}
    BY DEF At
  <2>2. Cardinality({}) = 0
    BY FS_EmptySet
  <2>3. Cardinality(At({"createCodes"})) = 0 /\ Cardinality(At({"setChallenge"})) = 0
    BY <2>1, <2>2, Zenon
  <2>4. QED
    BY <2>3 DEF CountsAreBounded
<1>4. LocalsFit
  BY <1>1 DEF LocalsFit, Verifying
<1>5. RowsHaveIds /\ SecretIsRead /\ EnabledSecretIsProven
  BY <1>1 DEF RowsHaveIds, SecretIsRead, EnabledSecretIsProven, Method
<1>6. ChallengeHasOneUse
  BY DEF ChallengeHasOneUse, Open, Claiming
<1>7. CodeHasOneUse
  BY <1>1 DEF CodeHasOneUse
<1>8. CodesInStep
  <2>1. Enabled = {} /\ Stored = {}
    BY <1>1 DEF Enabled, Stored
  <2>2. QED
    BY <2>1 DEF CodesInStep, AsShown, Changing
<1>9. QED
  BY <1>2, <1>3, <1>4, <1>5, <1>6, <1>7, <1>8 DEF FactorInv

-------------------------------------------------------------------------------
(* A handler that moves enters and leaves the sets of handlers at a label. *)

LEMMA AtMoves ==
    ASSUME NEW S, pc \in [Requests -> S], NEW r \in Requests, NEW from, NEW to,
           Goto(r, from, to), NEW labels
    PROVE  /\ At(labels)' = IF to \in labels THEN At(labels) \cup {r}
                                             ELSE At(labels) \ {r}
           /\ r \in At(labels) <=> from \in labels
  BY DEF At, Goto

LEMMA CountMoves ==
    ASSUME NEW S, pc \in [Requests -> S], NEW r \in Requests, NEW from, NEW to,
           Goto(r, from, to), NEW labels
    PROVE  /\ Cardinality(At(labels)) \in Nat
           /\ Cardinality(At(labels)') = Cardinality(At(labels))
                 + (IF to \in labels THEN 1 ELSE 0) - (IF from \in labels THEN 1 ELSE 0)
<1>1. IsFiniteSet(At(labels))
  BY HandlersAssumption, FS_Subset DEF At
<1>2. Cardinality(At(labels)) \in Nat
  BY <1>1, FS_CardinalityType
<1>3. At(labels)' = (IF to \in labels THEN At(labels) \cup {r} ELSE At(labels) \ {r})
      /\ (r \in At(labels) <=> from \in labels)
  BY AtMoves
<1>4. /\ Cardinality(At(labels) \cup {r}) =
           IF r \in At(labels) THEN Cardinality(At(labels)) ELSE Cardinality(At(labels)) + 1
      /\ Cardinality(At(labels) \ {r}) =
           IF r \in At(labels) THEN Cardinality(At(labels)) - 1 ELSE Cardinality(At(labels))
  BY <1>1, FS_AddElement, FS_RemoveElement
<1>5. CASE to \in labels
  BY <1>2, <1>3, <1>4, <1>5
<1>6. CASE to \notin labels
  BY <1>2, <1>3, <1>4, <1>6
<1>7. QED
  BY <1>2, <1>5, <1>6

LEMMA CreatingMoves ==
    ASSUME FactorTypeOK, NEW r \in Requests, NEW from, NEW to, Goto(r, from, to)
    PROVE  /\ Cardinality(At({"createCodes"})) \in Nat
           /\ Cardinality(At({"createCodes"})') = Cardinality(At({"createCodes"}))
                 + (IF to = "createCodes" THEN 1 ELSE 0) - (IF from = "createCodes" THEN 1 ELSE 0)
<1>1. pc \in [Requests -> FactorLabel]
  BY DEF FactorTypeOK
<1>2. /\ Cardinality(At({"createCodes"})) \in Nat
      /\ Cardinality(At({"createCodes"})') = Cardinality(At({"createCodes"}))
            + (IF to \in {"createCodes"} THEN 1 ELSE 0) - (IF from \in {"createCodes"} THEN 1 ELSE 0)
  BY <1>1, CountMoves
<1>3. QED
  BY <1>2

LEMMA OfferingMoves ==
    ASSUME FactorTypeOK, NEW r \in Requests, NEW from, NEW to, Goto(r, from, to)
    PROVE  /\ Cardinality(At({"setChallenge"})) \in Nat
           /\ Cardinality(At({"setChallenge"})') = Cardinality(At({"setChallenge"}))
                 + (IF to = "setChallenge" THEN 1 ELSE 0) - (IF from = "setChallenge" THEN 1 ELSE 0)
<1>1. pc \in [Requests -> FactorLabel]
  BY DEF FactorTypeOK
<1>2. /\ Cardinality(At({"setChallenge"})) \in Nat
      /\ Cardinality(At({"setChallenge"})') = Cardinality(At({"setChallenge"}))
            + (IF to \in {"setChallenge"} THEN 1 ELSE 0) - (IF from \in {"setChallenge"} THEN 1 ELSE 0)
  BY <1>1, CountMoves
<1>3. QED
  BY <1>2

(* A step of r that makes nothing keeps the bounds. *)
LEMMA CountsKept ==
    ASSUME FactorTypeOK, CountsAreBounded, NEW r \in Requests, NEW from, NEW to, Goto(r, from, to),
           to \notin {"createCodes", "setChallenge"}, UNCHANGED <<batchCount, challengeCount>>
    PROVE  CountsAreBounded'
  BY Bounds, CreatingMoves, OfferingMoves DEF CountsAreBounded, FactorTypeOK

(* A handler that ends, or dies. *)
LEMMA EndsFit ==
    ASSUME FactorTypeOK, LocalsFit, NEW r \in Requests, NEW from, FactorEnds(r, from),
           batchCount' >= batchCount, challengeCount' >= challengeCount,
           batchCount' \in Nat, challengeCount' \in Nat
    PROVE  LocalsFit' /\ pc' \in [Requests -> FactorLabel] /\ held' \in [Requests -> Local]
<1>1. Blank \in Local /\ Blank.code = 0
  BY TwoFactorAssumption DEF Blank, Local
<1>2. pc' = [pc EXCEPT ![r] = "idle"] /\ held' = [held EXCEPT ![r] = Blank]
  BY DEF FactorEnds, Goto
<1>3. pc' \in [Requests -> FactorLabel] /\ held' \in [Requests -> Local]
  BY <1>1, <1>2 DEF FactorTypeOK, FactorLabel
<1>4. LocalsFit'
  BY <1>1, <1>2 DEF LocalsFit, FactorTypeOK, Local, Verifying
<1>5. QED
  BY <1>3, <1>4

-------------------------------------------------------------------------------
(* The ways a change of methods or codes starts: what it has read then. *)

StartFits(label, local) ==
    /\ label \in {"upsert", "enable", "deleteCodes", "deleteMethod"}
    /\ local \in Local /\ local.code = 0
    /\ label \in {"upsert", "enable"} => local.type \in Method /\ ~method[local.type].enabled
    /\ label = "enable" => /\ local.id = method[local.type].id /\ local.id # 0
                           /\ local.secret = method[local.type].secret
    /\ label = "deleteMethod" => local.type \in Method /\ local.id # 0
    /\ label = "deleteCodes" => Enabled # {}

Starts(r) == \E label, local : StartFits(label, local) /\ StartChange(r, label, local)

LEMMA ReadFits ==
    ASSUME FactorTypeOK, NEW t \in Method
    PROVE  /\ Read(t) \in Local /\ Read(t).code = 0 /\ Read(t).type = t
           /\ Read(t).id = method[t].id /\ Read(t).secret = method[t].secret
<1>1. method[t].id \in 0..MaxRows /\ method[t].secret \in 0..MaxSecrets
  BY DEF FactorTypeOK, Row
<1> DEFINE a == [Blank EXCEPT !.type = t]
           b == [a EXCEPT !.id = method[t].id]
           c == [b EXCEPT !.secret = method[t].secret]
<1>2. a \in Local /\ a.code = 0 /\ a.type = t
  BY Bounds DEF Blank, Local
<1>3. b \in Local /\ b.code = 0 /\ b.type = t /\ b.id = method[t].id
  BY <1>1, <1>2 DEF Local
<1>4. c \in Local /\ c.code = 0 /\ c.type = t /\ c.id = method[t].id
      /\ c.secret = method[t].secret
  BY <1>1, <1>3 DEF Local
<1>5. Read(t) = c
  BY DEF Read
<1>6. QED
  BY <1>4, <1>5

LEMMA EnrollStarts ==
    ASSUME NEW r \in Requests, EnrollTotp(r) \/ EnrollEmailOtp(r) \/ EnrollSmsOtp(r)
    PROVE  Starts(r)
<1>1. PICK t \in Method : EnrollByType(r, t)
  BY DEF EnrollTotp, EnrollEmailOtp, EnrollSmsOtp, Method, ByMessage
<1> DEFINE local == [Blank EXCEPT !.type = t]
<1>2. local \in Local /\ local.code = 0 /\ local.type = t
  BY Bounds DEF Blank, Local
<1>3. StartFits("upsert", local)
  BY <1>1, <1>2 DEF StartFits, EnrollByType
<1>4. QED
  BY <1>1, <1>3 DEF EnrollByType, Starts

LEMMA ConfirmStarts ==
    ASSUME FactorTypeOK, NEW r \in Requests,
           ConfirmTotp(r) \/ ConfirmEmailOtp(r) \/ ConfirmSmsOtp(r)
    PROVE  Starts(r)
<1>1. PICK t \in Method : /\ method[t].id # 0 /\ ~method[t].enabled
                          /\ StartChange(r, "enable", Read(t))
  BY DEF ConfirmTotp, ConfirmEmailOtp, ConfirmSmsOtp, ConfirmByMessage, Method, ByMessage
<1>2. StartFits("enable", Read(t))
  BY <1>1, ReadFits DEF StartFits
<1>3. QED
  BY <1>1, <1>2 DEF Starts

LEMMA RegenerateStarts ==
    ASSUME NEW r \in Requests, Regenerate(r)
    PROVE  Starts(r)
<1>1. Blank \in Local /\ Blank.code = 0
  BY Bounds DEF Blank, Local
<1>2. StartFits("deleteCodes", Blank)
  BY <1>1 DEF StartFits, Regenerate
<1>3. QED
  BY <1>2 DEF Regenerate, Starts

LEMMA DisableStarts ==
    ASSUME FactorTypeOK, NEW r \in Requests, NEW t \in Method, Disable(r, t)
    PROVE  Starts(r)
<1> DEFINE local == [Read(t) EXCEPT !.secret = 0]
<1>1. local \in Local /\ local.code = 0 /\ local.type = t /\ local.id = method[t].id
  BY Bounds, ReadFits DEF Local
<1>2. StartFits("deleteMethod", local)
  BY <1>1 DEF StartFits, Disable
<1>3. QED
  BY <1>2 DEF Disable, Starts

(* The steps of the module, with those starts as one. *)
LEMMA FactorSteps ==
    ASSUME FactorTypeOK, [FactorNext]_<<pc, faults, factorVars>>
    PROVE  \/ \E r \in Requests :
                \/ Starts(r)
                \/ Upsert(r) \/ Enable(r) \/ EnableFails(r)
                \/ CountCodes(r) \/ DeleteCodes(r) \/ CreateCodes(r)
                \/ DeleteMethod(r) \/ FindRemaining(r) \/ ClearCodes(r)
                \/ OfferMethods(r) \/ IssueChallenge(r)
                \/ \E c \in Open, t \in Method : VerifyChallenge(r, c, t)
                \/ FactorRight(r) \/ \E b \in Batch : ClaimBackupCode(r, b)
                \/ InvalidCode(r) \/ TakeFactorChallenge(r) \/ TouchMethod(r)
                \/ OpenSession(r) \/ FactorDies(r)
           \/ \E c \in Open : ExpireFactorChallenge(c)
           \/ \E b \in Batch : ElevateWithCode(b)
           \/ UNCHANGED <<pc, faults, factorVars>>
<1>1. ASSUME NEW r \in Requests, MethodStep(r)
      PROVE  \/ Starts(r)
             \/ Upsert(r) \/ Enable(r) \/ EnableFails(r)
             \/ CountCodes(r) \/ DeleteCodes(r) \/ CreateCodes(r)
             \/ DeleteMethod(r) \/ FindRemaining(r) \/ ClearCodes(r)
  BY <1>1, EnrollStarts, ConfirmStarts, RegenerateStarts, DisableStarts DEF MethodStep
<1>2. QED
  BY <1>1 DEF FactorNext, ChallengeStep

-------------------------------------------------------------------------------
(* Types, bounds and locals. *)

FactorTypes == FactorTypeOK /\ CountsAreBounded /\ LocalsFit

(* A handler that moves with a new local, and makes nothing. *)
LEMMA MovesFit ==
    ASSUME FactorTypes, NEW r \in Requests, NEW from, NEW to, Goto(r, from, to),
           from \in FactorLabel, to \in FactorLabel, NEW local \in Local,
           held' = [held EXCEPT ![r] = local],
           UNCHANGED challengeCount,
           batchCount' \in {batchCount, batchCount + 1},
           to = "idle" => local = Blank,
           to \in {"upsert", "enable", "deleteMethod"} => local.type \in Method,
           to \in {"enable", "deleteMethod"} => local.id # 0,
           to = "setChallenge" => local.ids # {},
           to \in Verifying => local.challenge \in 1..challengeCount,
           local.code # 0 => /\ to \in {"takeChallenge", "touch", "issue"}
                             /\ local.code \in 1..batchCount
    PROVE  /\ pc' \in [Requests -> FactorLabel] /\ held' \in [Requests -> Local]
           /\ LocalsFit'
<1> USE Bounds DEF FactorTypes
<1>1. pc' = [pc EXCEPT ![r] = to]
  BY DEF Goto
<1>2. pc' \in [Requests -> FactorLabel] /\ held' \in [Requests -> Local]
  BY <1>1 DEF FactorTypeOK
<1>3. LocalsFit'
  <2>1. ASSUME NEW q \in Requests, q # r
        PROVE  pc'[q] = pc[q] /\ held'[q] = held[q]
    BY <1>1, <2>1 DEF FactorTypeOK
  <2>2. pc'[r] = to /\ held'[r] = local
    BY <1>1 DEF FactorTypeOK
  <2>3. batchCount \in Nat /\ batchCount <= batchCount' /\ batchCount' \in Nat
    BY DEF FactorTypeOK
  <2>4. QED
    BY <2>1, <2>2, <2>3 DEF LocalsFit
<1>4. QED
  BY <1>2, <1>3

(* Boolean-valued history is typed by the prover that keeps it Boolean. *)
LEMMA StartTypes ==
    ASSUME FactorInv, NEW r \in Requests, Starts(r)
    PROVE  FactorTypes'
<1> USE Bounds DEF FactorInv, FactorTypes
<1>1. PICK label, local : StartFits(label, local) /\ StartChange(r, label, local)
  BY DEF Starts
<1>2. /\ Goto(r, "idle", label) /\ held' = [held EXCEPT ![r] = local]
      /\ mixed' = (mixed \/ At(Changing) # {})
      /\ UNCHANGED <<method, codes, offered, rowCount, secretCount, batchCount, challengeCount,
                     opened, admitted, vouched, faults>>
  BY <1>1 DEF StartChange, methodRows, counters
<1>3. mixed' \in BOOLEAN
  BY <1>2, Zenon
<1>4. /\ pc' \in [Requests -> FactorLabel] /\ held' \in [Requests -> Local] /\ LocalsFit'
  <2>1. /\ label \in FactorLabel /\ "idle" \in FactorLabel
        /\ label \in {"upsert", "enable", "deleteCodes", "deleteMethod"} /\ label \notin Verifying
        /\ local \in Local /\ local.code = 0
        /\ label \in {"upsert", "enable", "deleteMethod"} => local.type \in Method
        /\ label \in {"enable", "deleteMethod"} => local.id # 0
    BY <1>1 DEF StartFits, FactorLabel, Changing, Verifying
  <2>2. QED
    BY <1>2, <2>1, MovesFit
<1>5. CountsAreBounded'
  BY <1>1, <1>2, CountsKept DEF StartFits
<1>6. QED
  BY <1>2, <1>3, <1>4, <1>5 DEF FactorTypeOK

(* Handlers that end without a change, and those that die. *)
LEMMA EndTypes ==
    ASSUME FactorInv, NEW r \in Requests, NEW from, FactorEnds(r, from),
           UNCHANGED <<methodRows, offered, counters, opened, admitted, vouched>>,
           mixed' \in BOOLEAN, faults' \in 0..MaxFaults
    PROVE  FactorTypes'
<1> USE Bounds DEF FactorInv, FactorTypes, methodRows, counters
<1>1. Goto(r, from, "idle")
  BY DEF FactorEnds
<1>2. CountsAreBounded'
  BY <1>1, CountsKept
<1>3. batchCount' = batchCount /\ challengeCount' = challengeCount /\ batchCount \in Nat
      /\ challengeCount \in Nat
  BY DEF FactorTypeOK
<1>4. /\ pc' \in [Requests -> FactorLabel] /\ held' \in [Requests -> Local] /\ LocalsFit'
  BY <1>3, EndsFit
<1>5. QED
  BY <1>2, <1>4 DEF FactorTypeOK

(* Handlers that move with what they have read, or with more. *)
LEMMA MoveTypes ==
    ASSUME FactorInv, NEW r \in Requests, NEW from, NEW to, Goto(r, from, to),
           from \in FactorLabel, to \in FactorLabel \ {"createCodes", "setChallenge", "idle"},
           to \notin {"upsert", "enable", "deleteMethod"},
           NEW local \in Local, held' = [held EXCEPT ![r] = local],
           to \in Verifying => local.challenge \in 1..challengeCount,
           local.code # 0 => /\ to \in {"takeChallenge", "touch", "issue"}
                             /\ local.code \in 1..batchCount,
           UNCHANGED <<counters, opened, admitted, mixed, faults>>,
           method' \in [Method -> Row], codes' \in [Batch -> {"absent", "unused", "used"}],
           offered' \in [Challenge -> SUBSET (1..MaxRows)], vouched' \in BOOLEAN
    PROVE  FactorTypes'
<1> USE Bounds DEF FactorInv, FactorTypes, counters
<1>1. CountsAreBounded'
  BY CountsKept
<1>2. batchCount' = batchCount /\ challengeCount' = challengeCount
  BY DEF FactorTypeOK
<1>3. /\ pc' \in [Requests -> FactorLabel] /\ held' \in [Requests -> Local] /\ LocalsFit'
  BY <1>2, MovesFit
<1>4. QED
  BY <1>1, <1>3 DEF FactorTypeOK

LEMMA UpsertTypes ==
    ASSUME FactorInv, NEW r \in Requests, Upsert(r)
    PROVE  FactorTypes'
<1> DEFINE t == held[r].type
           new == Upserted(t, FALSE)
<1> USE Bounds DEF FactorInv, FactorTypes
<1>1. /\ t \in Method /\ MayUpsert(t) /\ FactorEnds(r, "upsert") /\ Goto(r, "upsert", "idle")
      /\ method' = [method EXCEPT ![t] = new]
      /\ rowCount' = IF new.id > rowCount THEN new.id ELSE rowCount
      /\ secretCount' = IF t = "TOTP" THEN new.secret ELSE secretCount
      /\ UNCHANGED <<codes, offered, batchCount, challengeCount, opened, admitted, mixed, faults>>
  BY DEF Upsert, StoreUpsert, LocalsFit, FactorEnds, Goto
<1>2. vouched' \in BOOLEAN
  <2>1. vouched' = IF t = "TOTP" THEN \E q \in At({"enable"}) : held[q].type = t ELSE vouched
    BY DEF Upsert, StoreUpsert
  <2>2. QED
    BY <2>1, Zenon DEF FactorTypeOK
<1>3. new.id \in 0..MaxRows /\ new.secret \in 0..MaxSecrets /\ new.enabled = FALSE
      /\ new \in Row
  BY <1>1 DEF MayUpsert, Upserted, FactorTypeOK, Row
<1>4. method' \in [Method -> Row] /\ rowCount' \in 0..MaxRows /\ secretCount' \in 0..MaxSecrets
  BY <1>1, <1>3 DEF FactorTypeOK
<1>5. CountsAreBounded'
  BY <1>1, CountsKept
<1>6. batchCount' = batchCount /\ challengeCount' = challengeCount /\ batchCount \in Nat
      /\ challengeCount \in Nat
  BY <1>1 DEF FactorTypeOK
<1>7. /\ pc' \in [Requests -> FactorLabel] /\ held' \in [Requests -> Local] /\ LocalsFit'
  BY <1>1, <1>6, EndsFit
<1>8. QED
  BY <1>1, <1>2, <1>4, <1>5, <1>7 DEF FactorTypeOK

LEMMA EnableTypes ==
    ASSUME FactorInv, NEW r \in Requests, Enable(r)
    PROVE  FactorTypes'
<1> USE Bounds DEF FactorInv
<1>1. /\ Goto(r, "enable", "countCodes") /\ held' = [held EXCEPT ![r] = Blank]
      /\ method' = [method EXCEPT ![held[r].type].enabled = TRUE]
      /\ UNCHANGED <<codes, offered, counters, opened, admitted, mixed, faults>>
  BY DEF Enable
<1>2. vouched' \in BOOLEAN
  BY Zenon DEF Enable, FactorTypeOK
<1>3. Blank \in Local /\ Blank.code = 0
  BY DEF Blank, Local
<1>4. held[r].type \in Method
  BY <1>1 DEF LocalsFit, Goto
<1>5. method' \in [Method -> Row]
  BY <1>1, <1>4 DEF FactorTypeOK, Row
<1>6. "enable" \in FactorLabel /\ "countCodes" \in FactorLabel /\ "countCodes" \notin Verifying
  BY DEF FactorLabel, Changing, Verifying
<1>7. QED
  BY <1>1, <1>2, <1>3, <1>5, <1>6, MoveTypes DEF FactorTypeOK

(* Steps of a change that go on with what was read, or end. *)
LEMMA ChangeGoesOnTypes ==
    ASSUME FactorInv, NEW r \in Requests, NEW from, NEW to,
           from \in {"countCodes", "findRemaining"}, to \in {"deleteCodes", "clearCodes"},
           FactorEnds(r, from) \/ (Goto(r, from, to) /\ UNCHANGED held),
           UNCHANGED <<methodRows, offered, counters, factorHistory, faults>>
    PROVE  FactorTypes'
<1> USE Bounds DEF FactorInv, factorHistory, methodRows
<1>1. CASE FactorEnds(r, from)
  BY <1>1, EndTypes DEF FactorTypeOK
<1>2. CASE Goto(r, from, to) /\ UNCHANGED held
  <2>1. held' = [held EXCEPT ![r] = held[r]] /\ held[r] \in Local
    BY <1>2 DEF FactorTypeOK
  <2>2. held[r].code = 0
    BY <1>2 DEF LocalsFit, Goto
  <2>3. from \in FactorLabel /\ to \in FactorLabel /\ to \notin Verifying
    BY DEF FactorLabel, Changing, Verifying
  <2>4. QED
    BY <1>2, <2>1, <2>2, <2>3, MoveTypes DEF FactorTypeOK
<1>3. QED
  BY <1>1, <1>2

LEMMA DeleteCodesTypes ==
    ASSUME FactorInv, NEW r \in Requests, DeleteCodes(r)
    PROVE  FactorTypes'
<1> USE Bounds DEF FactorInv, FactorTypes, factorHistory, methodRows, counters
<1>1. /\ Goto(r, "deleteCodes", "createCodes")
      /\ held' = [held EXCEPT ![r].old = {b \in Batch : codes[b] # "absent"}]
      /\ batchCount + Cardinality(At({"createCodes"})) < MaxBatches
      /\ UNCHANGED <<method, codes, offered, rowCount, secretCount, batchCount, challengeCount,
                     opened, admitted, vouched, mixed, faults>>
  BY DEF DeleteCodes
<1>2. held[r] \in Local /\ held[r].code = 0
  BY <1>1 DEF LocalsFit, Goto, FactorTypeOK
<1>3. PICK local \in Local : local.code = 0 /\ held' = [held EXCEPT ![r] = local]
  <2> DEFINE read == [held[r] EXCEPT !.old = {b \in Batch : codes[b] # "absent"}]
  <2>1. read \in Local /\ read.code = 0 /\ held' = [held EXCEPT ![r] = read]
    BY <1>1, <1>2 DEF Local
  <2>2. QED
    BY <2>1
<1>4. "deleteCodes" \in FactorLabel /\ "createCodes" \in FactorLabel /\ "createCodes" \notin Verifying
  BY DEF FactorLabel, Changing, Verifying
<1>5. /\ pc' \in [Requests -> FactorLabel] /\ held' \in [Requests -> Local] /\ LocalsFit'
  <2>1. UNCHANGED challengeCount /\ batchCount' \in {batchCount, batchCount + 1}
    BY <1>1
  <2>2. QED
    BY <1>1, <1>3, <1>4, <2>1, MovesFit
<1>6. CountsAreBounded'
  BY <1>1, CreatingMoves, OfferingMoves DEF CountsAreBounded, FactorTypeOK
<1>7. QED
  BY <1>1, <1>5, <1>6 DEF FactorTypeOK

LEMMA CreateCodesTypes ==
    ASSUME FactorInv, NEW r \in Requests, CreateCodes(r)
    PROVE  FactorTypes'
<1> USE Bounds DEF FactorInv, FactorTypes
<1>1. /\ FactorEnds(r, "createCodes") /\ Goto(r, "createCodes", "idle")
      /\ codes' = [b \in Batch |-> IF b = batchCount + 1 THEN "unused"
                                   ELSE IF b \in held[r].old THEN "absent" ELSE codes[b]]
      /\ batchCount' = batchCount + 1
      /\ UNCHANGED <<method, offered, rowCount, secretCount, challengeCount, opened, admitted,
                     vouched, mixed, faults>>
  BY DEF CreateCodes, FactorEnds
<1>2. r \in At({"createCodes"})
  BY <1>1 DEF At, Goto
<1>3. batchCount + 1 \in 0..MaxBatches /\ CountsAreBounded'
  <2>1. Cardinality(At({"createCodes"})') \in Nat
    <3>1. IsFiniteSet(At({"createCodes"})')
      BY HandlersAssumption, FS_Subset DEF At
    <3>2. QED
      BY <3>1, FS_CardinalityType
  <2>2. QED
    BY <1>1, <2>1, CreatingMoves, OfferingMoves DEF CountsAreBounded, FactorTypeOK
<1>4. /\ pc' \in [Requests -> FactorLabel] /\ held' \in [Requests -> Local] /\ LocalsFit'
  BY <1>1, EndsFit DEF FactorTypeOK
<1>5. codes' \in [Batch -> {"absent", "unused", "used"}]
  BY <1>1 DEF FactorTypeOK
<1>6. QED
  BY <1>1, <1>3, <1>4, <1>5 DEF FactorTypeOK

LEMMA DeleteMethodTypes ==
    ASSUME FactorInv, NEW r \in Requests, DeleteMethod(r)
    PROVE  FactorTypes'
<1> USE Bounds DEF FactorInv
<1>1. Blank \in Local /\ Blank.code = 0 /\ NoRow \in Row
  BY DEF Blank, Local, NoRow, Row
<1>2. /\ held' = [held EXCEPT ![r] = Blank]
      /\ UNCHANGED <<codes, offered, counters, opened, admitted, mixed, faults>>
  BY DEF DeleteMethod
<1>3. CASE /\ Goto(r, "deleteMethod", "findRemaining")
           /\ method' = [method EXCEPT ![held[r].type] = NoRow]
           /\ vouched' = (vouched /\ held[r].type # "TOTP")
  <2>1. vouched' \in BOOLEAN
    BY <1>3, Zenon
  <2>2. method' \in [Method -> Row]
    BY <1>1, <1>3 DEF FactorTypeOK
  <2>3. /\ "deleteMethod" \in FactorLabel /\ "findRemaining" \in FactorLabel
        /\ "findRemaining" \notin Verifying
    BY DEF FactorLabel, Changing, Verifying
  <2>4. QED
    BY <1>1, <1>2, <1>3, <2>1, <2>2, <2>3, MoveTypes DEF FactorTypeOK
<1>4. CASE Goto(r, "deleteMethod", "idle") /\ UNCHANGED <<method, vouched>>
  BY <1>2, <1>4, EndTypes DEF FactorEnds, methodRows, FactorTypeOK
<1>5. QED
  BY <1>3, <1>4 DEF DeleteMethod

LEMMA ClearCodesTypes ==
    ASSUME FactorInv, NEW r \in Requests, ClearCodes(r)
    PROVE  FactorTypes'
<1> USE Bounds DEF FactorInv, FactorTypes, counters, factorHistory
<1>1. /\ FactorEnds(r, "clearCodes") /\ Goto(r, "clearCodes", "idle")
      /\ codes' = [b \in Batch |-> "absent"]
      /\ UNCHANGED <<method, offered, counters, factorHistory, faults>>
  BY DEF ClearCodes, FactorEnds
<1>2. CountsAreBounded'
  BY <1>1, CountsKept
<1>3. /\ pc' \in [Requests -> FactorLabel] /\ held' \in [Requests -> Local] /\ LocalsFit'
  BY <1>1, EndsFit DEF FactorTypeOK
<1>4. QED
  BY <1>1, <1>2, <1>3 DEF FactorTypeOK

LEMMA OfferMethodsTypes ==
    ASSUME FactorInv, NEW r \in Requests, OfferMethods(r)
    PROVE  FactorTypes'
<1> USE Bounds DEF FactorInv, FactorTypes, factorHistory, methodRows, counters
<1>1. /\ Goto(r, "idle", "setChallenge") /\ Enabled # {}
      /\ held' = [held EXCEPT ![r].ids = Ids(Enabled)]
      /\ challengeCount + Cardinality(At({"setChallenge"})) < MaxChallenges
      /\ UNCHANGED <<method, codes, offered, rowCount, secretCount, batchCount, challengeCount,
                     opened, admitted, vouched, mixed, faults>>
  BY DEF OfferMethods
<1>2. held[r] \in Local /\ held[r].code = 0
  BY <1>1 DEF LocalsFit, Goto, FactorTypeOK
<1>3. Ids(Enabled) \subseteq 1..MaxRows /\ Ids(Enabled) # {}
  <2>1. \A t \in Enabled : t \in Method /\ method[t].id \in 1..MaxRows
    BY DEF Enabled, RowsHaveIds, FactorTypeOK, Row
  <2>2. QED
    BY <1>1, <2>1 DEF Ids
<1>4. PICK local \in Local :
         local.code = 0 /\ local.ids # {} /\ held' = [held EXCEPT ![r] = local]
  <2> DEFINE read == [held[r] EXCEPT !.ids = Ids(Enabled)]
  <2>1. read \in Local /\ read.code = 0 /\ read.ids # {} /\ held' = [held EXCEPT ![r] = read]
    BY <1>1, <1>2, <1>3 DEF Local
  <2>2. QED
    BY <2>1
<1>5. "idle" \in FactorLabel /\ "setChallenge" \in FactorLabel /\ "setChallenge" \notin Verifying
  BY DEF FactorLabel, Changing, Verifying
<1>6. /\ pc' \in [Requests -> FactorLabel] /\ held' \in [Requests -> Local] /\ LocalsFit'
  <2>1. UNCHANGED challengeCount /\ batchCount' \in {batchCount, batchCount + 1}
    BY <1>1
  <2>2. "setChallenge" \notin {"idle", "upsert", "enable", "deleteMethod"}
    OBVIOUS
  <2> HIDE DEF FactorInv, FactorTypes, factorHistory, methodRows, counters
  <2>3. FactorTypes
    BY DEF FactorInv, FactorTypes
  <2>4. QED
    BY <1>1, <1>4, <1>5, <2>1, <2>2, <2>3, MovesFit
<1>7. CountsAreBounded'
  BY <1>1, CreatingMoves, OfferingMoves DEF CountsAreBounded, FactorTypeOK
<1>8. QED
  BY <1>1, <1>6, <1>7 DEF FactorTypeOK

LEMMA IssueChallengeTypes ==
    ASSUME FactorInv, NEW r \in Requests, IssueChallenge(r)
    PROVE  FactorTypes' /\ challengeCount + 1 \in Challenge
<1> USE Bounds DEF FactorInv, FactorTypes, factorHistory, methodRows
<1>1. /\ FactorEnds(r, "setChallenge") /\ Goto(r, "setChallenge", "idle")
      /\ offered' = [offered EXCEPT ![challengeCount + 1] = held[r].ids]
      /\ challengeCount' = challengeCount + 1
      /\ UNCHANGED <<method, codes, rowCount, secretCount, batchCount, opened, admitted,
                     vouched, mixed, faults>>
  BY DEF IssueChallenge, FactorEnds
<1>2. challengeCount + 1 \in Challenge /\ CountsAreBounded'
  <2>1. Cardinality(At({"setChallenge"})') \in Nat
    <3>1. IsFiniteSet(At({"setChallenge"})')
      BY HandlersAssumption, FS_Subset DEF At
    <3>2. QED
      BY <3>1, FS_CardinalityType
  <2>2. challengeCount + 1 <= MaxChallenges /\ CountsAreBounded'
    BY <1>1, <2>1, CreatingMoves, OfferingMoves DEF CountsAreBounded, FactorTypeOK
  <2>3. QED
    BY <2>2 DEF Challenge, FactorTypeOK
<1>3. /\ pc' \in [Requests -> FactorLabel] /\ held' \in [Requests -> Local] /\ LocalsFit'
  BY <1>1, EndsFit DEF FactorTypeOK
<1>4. offered' \in [Challenge -> SUBSET (1..MaxRows)]
  BY <1>1 DEF FactorTypeOK, Local
<1>5. challengeCount' \in 0..MaxChallenges
  BY <1>1, <1>2 DEF Challenge, FactorTypeOK
<1>6. QED
  BY <1>1, <1>2, <1>3, <1>4, <1>5 DEF FactorTypeOK

LEMMA VerifyTypes ==
    ASSUME FactorInv, NEW r \in Requests, NEW c \in Open, NEW t \in Method,
           VerifyChallenge(r, c, t)
    PROVE  FactorTypes'
<1> USE Bounds DEF FactorInv, factorHistory, methodRows
<1> DEFINE local == [held[r] EXCEPT !.challenge = c, !.id = method[t].id]
<1>1. /\ Goto(r, "idle", "check") /\ held' = [held EXCEPT ![r] = local]
      /\ UNCHANGED <<methodRows, offered, counters, factorHistory, faults>>
  BY DEF VerifyChallenge, FactorTypeOK
<1>2. held[r] \in Local /\ held[r].code = 0
  BY <1>1 DEF LocalsFit, Goto, FactorTypeOK
<1>3. c \in 1..challengeCount /\ c \in 0..MaxChallenges /\ method[t].id \in 0..MaxRows
  BY DEF Open, Challenge, ChallengeHasOneUse, FactorTypeOK, Row
<1>4. local \in Local /\ local.code = 0 /\ local.challenge = c
  BY <1>2, <1>3 DEF Local
<1>5. "idle" \in FactorLabel /\ "check" \in FactorLabel
  BY DEF FactorLabel, Verifying
<1>6. QED
  BY <1>1, <1>3, <1>4, <1>5, MoveTypes DEF FactorTypeOK

LEMMA ClaimTypes ==
    ASSUME FactorInv, NEW r \in Requests, NEW b \in Batch, ClaimBackupCode(r, b)
    PROVE  FactorTypes'
<1> USE Bounds DEF FactorInv, factorHistory, methodRows
<1> DEFINE local == [held[r] EXCEPT !.code = b]
<1>1. /\ Goto(r, "check", "takeChallenge") /\ held' = [held EXCEPT ![r] = local]
      /\ codes[b] = "unused" /\ codes' = [codes EXCEPT ![b] = "used"]
      /\ UNCHANGED <<method, offered, counters, factorHistory, faults>>
  BY DEF ClaimBackupCode, FactorTypeOK
<1>2. held[r] \in Local /\ held[r].challenge \in 1..challengeCount
  BY <1>1 DEF LocalsFit, Goto, FactorTypeOK, Verifying
<1>3. b \in 1..batchCount /\ b \in 0..MaxBatches
  BY <1>1 DEF Batch, CodeHasOneUse, FactorTypeOK
<1>4. local \in Local /\ local.code = b /\ local.challenge = held[r].challenge
  BY <1>2, <1>3 DEF Local
<1>5. "takeChallenge" \in FactorLabel /\ "check" \in FactorLabel
  BY DEF FactorLabel, Verifying
<1>6. codes' \in [Batch -> {"absent", "unused", "used"}]
  BY <1>1 DEF FactorTypeOK
<1>7. QED
  BY <1>1, <1>2, <1>3, <1>4, <1>5, <1>6, MoveTypes DEF FactorTypeOK

(* A handler that verifies goes on with what it has read. *)
LEMMA VerifyingGoesOnTypes ==
    ASSUME FactorInv, NEW r \in Requests, NEW from, NEW to, Goto(r, from, to),
           from \in {"check", "takeChallenge", "touch"}, to \in {"takeChallenge", "touch", "issue"},
           NEW local, held' = [held EXCEPT ![r] = local],
           local = held[r] \/ local = [held[r] EXCEPT !.id = 0],
           offered' \in [Challenge -> SUBSET (1..MaxRows)],
           UNCHANGED <<methodRows, counters, factorHistory, faults>>
    PROVE  FactorTypes'
<1> USE Bounds DEF FactorInv, factorHistory, methodRows
<1>1. /\ held[r] \in Local /\ held[r].challenge \in 1..challengeCount
      /\ held[r].code # 0 => held[r].code \in 1..batchCount
  BY DEF LocalsFit, Goto, FactorTypeOK, Verifying
<1>2. local \in Local /\ local.challenge = held[r].challenge /\ local.code = held[r].code
  BY <1>1 DEF Local
<1>3. from \in FactorLabel /\ to \in FactorLabel
  BY DEF FactorLabel, Verifying
<1>4. QED
  BY <1>1, <1>2, <1>3, MoveTypes DEF FactorTypeOK

LEMMA TakeChallengeTypes ==
    ASSUME FactorInv, NEW r \in Requests, TakeFactorChallenge(r)
    PROVE  FactorTypes'
<1> USE Bounds DEF FactorInv, factorHistory, methodRows
<1>1. /\ pc[r] = "takeChallenge" /\ offered' = [offered EXCEPT ![held[r].challenge] = {}]
      /\ UNCHANGED <<methodRows, counters, factorHistory, faults>>
  BY DEF TakeFactorChallenge, Goto, FactorEnds
<1>2. CASE held[r].challenge \in Open
  <2>1. Goto(r, "takeChallenge", "touch") /\ held' = [held EXCEPT ![r] = held[r]]
    BY <1>2 DEF TakeFactorChallenge, FactorTypeOK
  <2>2. offered' \in [Challenge -> SUBSET (1..MaxRows)]
    BY <1>1 DEF FactorTypeOK
  <2>3. QED
    BY <1>1, <2>1, <2>2, VerifyingGoesOnTypes
<1>3. CASE held[r].challenge \notin Open
  <2>1. held[r].challenge \in Challenge
    BY <1>1 DEF LocalsFit, Verifying, Challenge, FactorTypeOK
  <2>2. UNCHANGED offered
    BY <1>1, <1>3, <2>1 DEF Open, FactorTypeOK
  <2>3. QED
    BY <1>1, <1>3, <2>2, EndTypes DEF TakeFactorChallenge, FactorTypeOK
<1>4. QED
  BY <1>2, <1>3

LEMMA TouchTypes ==
    ASSUME FactorInv, NEW r \in Requests, TouchMethod(r)
    PROVE  FactorTypes'
<1> USE Bounds DEF FactorInv, factorHistory, methodRows
<1>1. UNCHANGED <<methodRows, offered, counters, factorHistory, faults>>
  BY DEF TouchMethod
<1>2. CASE Goto(r, "touch", "issue") /\ held' = [held EXCEPT ![r].id = 0]
  <2>1. held' = [held EXCEPT ![r] = [held[r] EXCEPT !.id = 0]]
    BY <1>2 DEF FactorTypeOK
  <2>2. QED
    BY <1>1, <1>2, <2>1, VerifyingGoesOnTypes DEF FactorTypeOK
<1>3. CASE FactorEnds(r, "touch")
  BY <1>1, <1>3, EndTypes DEF FactorTypeOK
<1>4. QED
  BY <1>2, <1>3 DEF TouchMethod

LEMMA OpenSessionTypes ==
    ASSUME FactorInv, NEW r \in Requests, OpenSession(r)
    PROVE  FactorTypes'
<1> USE Bounds DEF FactorInv, FactorTypes, counters, methodRows
<1>1. /\ FactorEnds(r, "issue") /\ Goto(r, "issue", "idle")
      /\ opened' = [opened EXCEPT ![held[r].challenge] = @ + 1]
      /\ admitted' = [b \in Batch |-> IF b = held[r].code THEN admitted[b] + 1 ELSE admitted[b]]
      /\ UNCHANGED <<methodRows, offered, counters, vouched, mixed, faults>>
  BY DEF OpenSession, FactorEnds
<1>2. opened' \in [Challenge -> 0..2]
  <2>1. held[r].challenge \in Challenge /\ opened[held[r].challenge] = 0
    BY <1>1 DEF ChallengeHasOneUse, Claiming, Goto, LocalsFit, Verifying, FactorTypeOK, Challenge
  <2>2. QED
    BY <1>1, <2>1 DEF FactorTypeOK
<1>3. admitted' \in [Batch -> 0..2]
  BY <1>1 DEF CodeHasOneUse, FactorTypeOK
<1>4. CountsAreBounded'
  BY <1>1, CountsKept
<1>5. /\ pc' \in [Requests -> FactorLabel] /\ held' \in [Requests -> Local] /\ LocalsFit'
  BY <1>1, EndsFit DEF FactorTypeOK
<1>6. QED
  BY <1>1, <1>2, <1>3, <1>4, <1>5 DEF FactorTypeOK

LEMMA FactorDiesTypes ==
    ASSUME FactorInv, NEW r \in Requests, FactorDies(r)
    PROVE  FactorTypes'
<1> USE Bounds DEF FactorInv
<1>1. FactorEnds(r, pc[r]) /\ faults' \in 0..MaxFaults
  BY DEF FactorDies, Die, FactorEnds, Goto, FactorTypeOK
<1>2. mixed' \in BOOLEAN
  BY Zenon DEF FactorDies, FactorTypeOK
<1>3. QED
  BY <1>1, <1>2, EndTypes DEF FactorDies

LEMMA EnvironmentTypes ==
    ASSUME FactorInv,
           \/ \E c \in Open : ExpireFactorChallenge(c)
           \/ \E b \in Batch : ElevateWithCode(b)
           \/ UNCHANGED <<pc, faults, factorVars>>
    PROVE  FactorTypes'
<1> USE DEF FactorInv, FactorTypes
<1>1. /\ UNCHANGED <<pc, faults, method, counters, held, factorHistory>>
      /\ codes' \in [Batch -> {"absent", "unused", "used"}]
      /\ offered' \in [Challenge -> SUBSET (1..MaxRows)]
  BY DEF ExpireFactorChallenge, ElevateWithCode, FactorTypeOK, factorVars, methodRows
<1>2. QED
  BY <1>1 DEF FactorTypeOK, CountsAreBounded, LocalsFit, At, counters, factorHistory

LEMMA FactorTypesStep ==
    ASSUME FactorInv, [FactorNext]_<<pc, faults, factorVars>>
    PROVE  FactorTypes'
<1>1. FactorTypeOK
  BY DEF FactorInv
<1>2. ASSUME NEW r \in Requests, Starts(r) PROVE FactorTypes'
  BY <1>2, StartTypes
<1>3. ASSUME NEW r \in Requests, Upsert(r) \/ Enable(r) PROVE FactorTypes'
  BY <1>3, UpsertTypes, EnableTypes
<1>4. ASSUME NEW r \in Requests, EnableFails(r) PROVE FactorTypes'
  BY <1>4, EndTypes DEF EnableFails, factorHistory, FactorInv, FactorTypeOK
<1>5. ASSUME NEW r \in Requests, CountCodes(r) PROVE FactorTypes'
  <2>1. /\ FactorEnds(r, "countCodes") \/ (Goto(r, "countCodes", "deleteCodes") /\ UNCHANGED held)
        /\ UNCHANGED <<methodRows, offered, counters, factorHistory, faults>>
    BY <1>5 DEF CountCodes
  <2>2. QED
    BY <2>1, ChangeGoesOnTypes
<1>6. ASSUME NEW r \in Requests, FindRemaining(r) PROVE FactorTypes'
  <2>1. /\ FactorEnds(r, "findRemaining") \/ (Goto(r, "findRemaining", "clearCodes") /\ UNCHANGED held)
        /\ UNCHANGED <<methodRows, offered, counters, factorHistory, faults>>
    BY <1>6 DEF FindRemaining
  <2>2. QED
    BY <2>1, ChangeGoesOnTypes
<1>7. ASSUME NEW r \in Requests,
             DeleteCodes(r) \/ CreateCodes(r) \/ DeleteMethod(r) \/ ClearCodes(r)
      PROVE  FactorTypes'
  BY <1>7, DeleteCodesTypes, CreateCodesTypes, DeleteMethodTypes, ClearCodesTypes
<1>8. ASSUME NEW r \in Requests, OfferMethods(r) \/ IssueChallenge(r) PROVE FactorTypes'
  BY <1>8, OfferMethodsTypes, IssueChallengeTypes
<1>9. ASSUME NEW r \in Requests, NEW c \in Open, NEW t \in Method, VerifyChallenge(r, c, t)
      PROVE  FactorTypes'
  BY <1>9, VerifyTypes
<1>10. ASSUME NEW r \in Requests, FactorRight(r) PROVE FactorTypes'
  <2>1. Goto(r, "check", "takeChallenge") /\ UNCHANGED <<factorVars, faults>>
    BY <1>10 DEF FactorRight
  <2>2. held' = [held EXCEPT ![r] = held[r]] /\ offered' \in [Challenge -> SUBSET (1..MaxRows)]
    BY <1>1, <2>1 DEF factorVars, FactorTypeOK
  <2>3. QED
    BY <2>1, <2>2, VerifyingGoesOnTypes DEF factorVars
<1>11. ASSUME NEW r \in Requests, NEW b \in Batch, ClaimBackupCode(r, b) PROVE FactorTypes'
  BY <1>11, ClaimTypes
<1>12. ASSUME NEW r \in Requests, InvalidCode(r) PROVE FactorTypes'
  BY <1>12, EndTypes DEF InvalidCode, factorHistory, FactorInv, FactorTypeOK
<1>13. ASSUME NEW r \in Requests,
              TakeFactorChallenge(r) \/ TouchMethod(r) \/ OpenSession(r) \/ FactorDies(r)
       PROVE  FactorTypes'
  BY <1>13, TakeChallengeTypes, TouchTypes, OpenSessionTypes, FactorDiesTypes
<1>14. QED
  BY <1>1, <1>2, <1>3, <1>4, <1>5, <1>6, <1>7, <1>8, <1>9, <1>10, <1>11, <1>12, <1>13,
     FactorSteps, EnvironmentTypes
-------------------------------------------------------------------------------
(* The steps one handler makes: the others keep what they have. *)

Moves(r, from, to) ==
    /\ pc[r] = from
    /\ pc' = [pc EXCEPT ![r] = to]
    /\ pc' \in [Requests -> FactorLabel]
    /\ pc'[r] = to
    /\ \A q \in Requests \ {r} : pc'[q] = pc[q] /\ held'[q] = held[q]

LEMMA GotoMoves ==
    ASSUME FactorTypeOK, FactorTypes', NEW r \in Requests, NEW from, NEW to, Goto(r, from, to),
           NEW local, held' = [held EXCEPT ![r] = local]
    PROVE  Moves(r, from, to) /\ held'[r] = local
  BY DEF Moves, Goto, FactorTypeOK, FactorTypes

LEMMA EndMoves ==
    ASSUME FactorTypeOK, FactorTypes', NEW r \in Requests, NEW from, FactorEnds(r, from)
    PROVE  Moves(r, from, "idle") /\ held'[r] = Blank
  BY GotoMoves DEF FactorEnds

LEMMA KeepMoves ==
    ASSUME FactorTypeOK, FactorTypes', NEW r \in Requests, NEW from, NEW to, Goto(r, from, to),
           UNCHANGED held
    PROVE  Moves(r, from, to) /\ held'[r] = held[r]
  BY DEF Moves, Goto, FactorTypeOK, FactorTypes

-------------------------------------------------------------------------------
(* What an enabled method has. *)

FactorSecrets == RowsHaveIds /\ SecretIsRead /\ EnabledSecretIsProven

LEMMA SecretsKept ==
    ASSUME FactorInv, NEW r \in Requests, NEW from, NEW to, Moves(r, from, to), to # "enable",
           UNCHANGED <<method, vouched>>
    PROVE  FactorSecrets'
  BY DEF FactorInv, FactorSecrets, RowsHaveIds, SecretIsRead, EnabledSecretIsProven, Moves

LEMMA StartSecrets ==
    ASSUME FactorInv, FactorTypes', NEW r \in Requests, Starts(r)
    PROVE  FactorSecrets'
<1> USE DEF FactorInv
<1>1. PICK label, local : StartFits(label, local) /\ StartChange(r, label, local)
  BY DEF Starts
<1>2. /\ Moves(r, "idle", label) /\ held'[r] = local /\ UNCHANGED <<method, vouched>>
  BY <1>1, GotoMoves DEF StartChange, methodRows
<1>3. label = "enable" => local.secret = method[local.type].secret
  BY <1>1 DEF StartFits
<1>4. QED
  BY <1>2, <1>3 DEF FactorSecrets, RowsHaveIds, SecretIsRead, EnabledSecretIsProven, Moves

LEMMA UpsertSecrets ==
    ASSUME FactorInv, FactorTypes', NEW r \in Requests, Upsert(r)
    PROVE  FactorSecrets'
<1> DEFINE t == held[r].type
           new == Upserted(t, FALSE)
<1> USE DEF FactorInv
<1>1. /\ FactorEnds(r, "upsert") /\ method' = [method EXCEPT ![t] = new] /\ ~new.enabled
      /\ vouched' = IF t = "TOTP" THEN \E q \in At({"enable"}) : held[q].type = t ELSE vouched
  BY DEF Upsert, StoreUpsert, Upserted
<1>2. Moves(r, "upsert", "idle")
  BY <1>1, EndMoves
<1>3. /\ \A u \in Method : u # t => method'[u] = method[u]
      /\ t \in Method => ~method'[t].enabled
  BY <1>1 DEF FactorTypeOK
<1>4. RowsHaveIds'
  BY <1>3 DEF RowsHaveIds
<1>5. "TOTP" \in Method
  BY DEF Method
<1>6. CASE t = "TOTP"
  <2>1. EnabledSecretIsProven'
    BY <1>3, <1>5, <1>6 DEF EnabledSecretIsProven
  <2>2. ASSUME NEW q \in Requests, pc'[q] = "enable", held'[q].type = "TOTP"
        PROVE  vouched'
    <3>1. q \in At({"enable"}) /\ held[q].type = "TOTP"
      BY <1>2, <2>2 DEF Moves, At
    <3>2. QED
      BY <1>1, <1>6, <3>1, Zenon
  <2>3. SecretIsRead'
    BY <2>2 DEF SecretIsRead
  <2>4. QED
    BY <1>4, <2>1, <2>3 DEF FactorSecrets
<1>7. CASE t # "TOTP"
  <2>1. vouched' = vouched
    BY <1>1, <1>7, Zenon
  <2>2. method'["TOTP"] = method["TOTP"]
    BY <1>3, <1>5, <1>7
  <2>3. SecretIsRead' /\ EnabledSecretIsProven'
    BY <1>2, <2>1, <2>2 DEF Moves, SecretIsRead, EnabledSecretIsProven
  <2>4. QED
    BY <1>4, <2>3 DEF FactorSecrets
<1>8. QED
  BY <1>6, <1>7

LEMMA EnableSecrets ==
    ASSUME FactorInv, FactorTypes', NEW r \in Requests, Enable(r)
    PROVE  FactorSecrets'
<1> DEFINE t == held[r].type
<1> USE DEF FactorInv
<1>1. /\ Goto(r, "enable", "countCodes") /\ pc[r] = "enable" /\ held' = [held EXCEPT ![r] = Blank]
      /\ method[t].id = held[r].id
      /\ method' = [method EXCEPT ![t].enabled = TRUE]
      /\ vouched' = (vouched \/ (t = "TOTP" /\ held[r].secret = method["TOTP"].secret))
  BY DEF Enable, Goto
<1>2. Moves(r, "enable", "countCodes")
  BY <1>1, GotoMoves
<1>3. t \in Method /\ method[t].id # 0
  BY <1>1 DEF LocalsFit
<1>4. \A u \in Method :
         /\ method'[u].id = method[u].id /\ method'[u].secret = method[u].secret
         /\ u # t => method'[u] = method[u]
  BY <1>1, <1>3 DEF FactorTypeOK, Row
<1>5. RowsHaveIds'
  BY <1>3, <1>4 DEF RowsHaveIds
<1>6. "TOTP" \in Method
  BY DEF Method
<1>7. vouched => vouched'
  BY <1>1, Zenon
<1>8. t = "TOTP" => vouched'
  <2>1. t = "TOTP" => held[r].secret = method["TOTP"].secret \/ vouched
    BY <1>1 DEF SecretIsRead
  <2>2. QED
    BY <1>1, <2>1, Zenon
<1>9. EnabledSecretIsProven'
  BY <1>4, <1>6, <1>7, <1>8 DEF EnabledSecretIsProven
<1>10. SecretIsRead'
  BY <1>2, <1>4, <1>6, <1>7 DEF SecretIsRead, Moves
<1>11. QED
  BY <1>5, <1>9, <1>10 DEF FactorSecrets

LEMMA DeleteMethodSecrets ==
    ASSUME FactorInv, FactorTypes', NEW r \in Requests, DeleteMethod(r)
    PROVE  FactorSecrets'
<1> DEFINE t == held[r].type
<1> USE DEF FactorInv
<1>1. CASE Goto(r, "deleteMethod", "idle") /\ UNCHANGED <<method, vouched>>
  <2>1. Moves(r, "deleteMethod", "idle")
    BY <1>1, GotoMoves DEF DeleteMethod
  <2>2. QED
    BY <1>1, <2>1, SecretsKept
<1>2. CASE /\ Goto(r, "deleteMethod", "findRemaining")
           /\ method' = [method EXCEPT ![t] = NoRow]
           /\ vouched' = (vouched /\ t # "TOTP")
  <2>1. Moves(r, "deleteMethod", "findRemaining")
    BY <1>2, GotoMoves DEF DeleteMethod
  <2>2. /\ \A u \in Method : u # t => method'[u] = method[u]
        /\ t \in Method => ~method'[t].enabled /\ method'[t].id = 0
    BY <1>2 DEF FactorTypeOK, NoRow
  <2>3. RowsHaveIds'
    BY <2>2 DEF RowsHaveIds
  <2>4. "TOTP" \in Method
    BY DEF Method
  <2>5. t # "TOTP" => vouched' = vouched
    BY <1>2, Zenon DEF FactorTypeOK
  <2>6. EnabledSecretIsProven'
    BY <2>2, <2>4, <2>5 DEF EnabledSecretIsProven
  <2>7. \A q \in Requests : pc'[q] = "enable" =>
           pc[q] = "enable" /\ held'[q] = held[q] /\ held[q].id # 0
    BY <2>1 DEF Moves, LocalsFit
  <2>8. SecretIsRead'
    BY <2>2, <2>4, <2>5, <2>7 DEF SecretIsRead
  <2>9. QED
    BY <2>3, <2>6, <2>8 DEF FactorSecrets
<1>3. QED
  BY <1>1, <1>2 DEF DeleteMethod

(* Every other step of a handler leaves the methods alone. *)
LEMMA OtherSteps ==
    ASSUME FactorInv, FactorTypes', NEW r \in Requests,
           \/ EnableFails(r)
           \/ CountCodes(r) \/ DeleteCodes(r) \/ CreateCodes(r)
           \/ FindRemaining(r) \/ ClearCodes(r)
           \/ OfferMethods(r) \/ IssueChallenge(r)
           \/ \E c \in Open, t \in Method : VerifyChallenge(r, c, t)
           \/ FactorRight(r) \/ \E b \in Batch : ClaimBackupCode(r, b)
           \/ InvalidCode(r) \/ TakeFactorChallenge(r) \/ TouchMethod(r)
           \/ OpenSession(r) \/ FactorDies(r)
    PROVE  /\ \E to : Moves(r, pc[r], to) /\ to # "enable"
           /\ UNCHANGED <<method, vouched>>
<1> USE DEF FactorInv, methodRows, factorHistory
<1>1. CASE EnableFails(r) \/ InvalidCode(r) \/ ClearCodes(r) \/ CreateCodes(r)
           \/ IssueChallenge(r) \/ OpenSession(r)
  BY <1>1, EndMoves DEF EnableFails, InvalidCode, ClearCodes, CreateCodes, IssueChallenge,
     OpenSession, Moves
<1>2. CASE CountCodes(r)
  BY <1>2, EndMoves, KeepMoves DEF CountCodes, Moves
<1>3. CASE FindRemaining(r)
  BY <1>3, EndMoves, KeepMoves DEF FindRemaining, Moves
<1>4. CASE DeleteCodes(r)
  <2>1. /\ Goto(r, "deleteCodes", "createCodes") /\ UNCHANGED <<method, vouched>>
        /\ held' = [held EXCEPT ![r].old = {b \in Batch : codes[b] # "absent"}]
    BY <1>4 DEF DeleteCodes
  <2>2. Moves(r, "deleteCodes", "createCodes")
    BY <2>1, GotoMoves DEF FactorTypeOK
  <2>3. QED
    BY <2>1, <2>2 DEF Moves
<1>5. CASE OfferMethods(r)
  <2>1. /\ Goto(r, "idle", "setChallenge") /\ UNCHANGED <<method, vouched>>
        /\ held' = [held EXCEPT ![r].ids = Ids(Enabled)]
    BY <1>5 DEF OfferMethods
  <2>2. Moves(r, "idle", "setChallenge")
    BY <2>1, GotoMoves DEF FactorTypeOK
  <2>3. QED
    BY <2>1, <2>2 DEF Moves
<1>6. ASSUME NEW c \in Open, NEW t \in Method, VerifyChallenge(r, c, t)
      PROVE  Moves(r, "idle", "check") /\ UNCHANGED <<method, vouched>>
  <2>1. /\ Goto(r, "idle", "check") /\ UNCHANGED <<method, vouched>>
        /\ held' = [held EXCEPT ![r].challenge = c, ![r].id = method[t].id]
    BY <1>6 DEF VerifyChallenge
  <2>2. Moves(r, "idle", "check")
    BY <2>1 DEF FactorTypeOK, Goto, Moves, FactorTypes
  <2>3. QED
    BY <2>1, <2>2
<1>7. CASE FactorRight(r)
  BY <1>7, KeepMoves DEF FactorRight, factorVars, Moves
<1>8. ASSUME NEW b \in Batch, ClaimBackupCode(r, b)
      PROVE  Moves(r, "check", "takeChallenge") /\ UNCHANGED <<method, vouched>>
  <2>1. /\ Goto(r, "check", "takeChallenge") /\ UNCHANGED <<method, vouched>>
        /\ held' = [held EXCEPT ![r].code = b]
    BY <1>8 DEF ClaimBackupCode
  <2>2. Moves(r, "check", "takeChallenge")
    BY <2>1, GotoMoves DEF FactorTypeOK
  <2>3. QED
    BY <2>1, <2>2
<1>9. CASE TakeFactorChallenge(r)
  BY <1>9, EndMoves, KeepMoves DEF TakeFactorChallenge, Moves
<1>10. CASE TouchMethod(r)
  <2>1. /\ UNCHANGED <<method, vouched>>
        /\ \/ Goto(r, "touch", "issue") /\ held' = [held EXCEPT ![r].id = 0]
           \/ FactorEnds(r, "touch")
    BY <1>10 DEF TouchMethod
  <2>2. Moves(r, "touch", "issue") \/ Moves(r, "touch", "idle")
    BY <2>1, GotoMoves, EndMoves DEF FactorTypeOK
  <2>3. QED
    BY <2>1, <2>2 DEF Moves
<1>11. CASE FactorDies(r)
  <2>1. FactorEnds(r, pc[r]) /\ UNCHANGED <<method, vouched>>
    BY <1>11 DEF FactorDies, Die, FactorEnds, Goto
  <2>2. QED
    BY <2>1, EndMoves
<1>12. QED
  <2>1. CASE \E c \in Open, t \in Method : VerifyChallenge(r, c, t)
    BY <1>6, <2>1 DEF Moves
  <2>2. CASE \E b \in Batch : ClaimBackupCode(r, b)
    BY <1>8, <2>2 DEF Moves
  <2>3. QED
    BY <1>1, <1>2, <1>3, <1>4, <1>5, <1>7, <1>9, <1>10, <1>11, <2>1, <2>2

LEMMA SecretsStep ==
    ASSUME FactorInv, FactorTypes', [FactorNext]_<<pc, faults, factorVars>>
    PROVE  FactorSecrets'
<1>1. FactorTypeOK
  BY DEF FactorInv
<1>2. ASSUME NEW r \in Requests, Starts(r) \/ Upsert(r) \/ Enable(r) \/ DeleteMethod(r)
      PROVE  FactorSecrets'
  BY <1>2, StartSecrets, UpsertSecrets, EnableSecrets, DeleteMethodSecrets
<1>3. ASSUME NEW r \in Requests, NEW to, Moves(r, pc[r], to), to # "enable",
             UNCHANGED <<method, vouched>>
      PROVE  FactorSecrets'
  BY <1>3, SecretsKept
<1>4. ASSUME \/ \E c \in Open : ExpireFactorChallenge(c)
             \/ \E b \in Batch : ElevateWithCode(b)
             \/ UNCHANGED <<pc, faults, factorVars>>
      PROVE  FactorSecrets'
  <2>1. UNCHANGED <<pc, held, method, vouched>>
    BY <1>4 DEF ExpireFactorChallenge, ElevateWithCode, factorVars, methodRows, factorHistory
  <2>2. QED
    BY <2>1 DEF FactorInv, FactorSecrets, RowsHaveIds, SecretIsRead, EnabledSecretIsProven
<1>5. QED
  BY <1>1, <1>2, <1>3, <1>4, FactorSteps, OtherSteps
-------------------------------------------------------------------------------
(* One use of a challenge. *)

(* The steps before a claim of the challenge, and after it is dropped. *)
ChallengeRests(r) ==
    /\ \E to : Moves(r, pc[r], to) /\ to \notin {"touch", "issue"}
    /\ UNCHANGED <<offered, opened, challengeCount>>

LEMMA ChallengeRestsWhen ==
    ASSUME FactorInv, FactorTypes', NEW r \in Requests,
           \/ Starts(r) \/ Upsert(r) \/ Enable(r) \/ EnableFails(r)
           \/ CountCodes(r) \/ DeleteCodes(r) \/ CreateCodes(r)
           \/ DeleteMethod(r) \/ FindRemaining(r) \/ ClearCodes(r) \/ OfferMethods(r)
           \/ \E c \in Open, t \in Method : VerifyChallenge(r, c, t)
           \/ FactorRight(r) \/ \E b \in Batch : ClaimBackupCode(r, b)
           \/ InvalidCode(r) \/ FactorDies(r)
    PROVE  ChallengeRests(r)
<1> USE DEF FactorInv, methodRows, factorHistory, counters, ChallengeRests
<1>1. CASE EnableFails(r) \/ InvalidCode(r) \/ ClearCodes(r) \/ CreateCodes(r)
  BY <1>1, EndMoves DEF EnableFails, InvalidCode, ClearCodes, CreateCodes, Moves
<1>2. CASE CountCodes(r)
  BY <1>2, EndMoves, KeepMoves DEF CountCodes, Moves
<1>3. CASE FindRemaining(r)
  BY <1>3, EndMoves, KeepMoves DEF FindRemaining, Moves
<1>4. CASE DeleteCodes(r)
  <2>1. /\ Goto(r, "deleteCodes", "createCodes") /\ UNCHANGED <<offered, opened, challengeCount>>
        /\ held' = [held EXCEPT ![r].old = {b \in Batch : codes[b] # "absent"}]
    BY <1>4 DEF DeleteCodes
  <2>2. Moves(r, "deleteCodes", "createCodes")
    BY <2>1, GotoMoves DEF FactorTypeOK
  <2>3. QED
    BY <2>1, <2>2 DEF Moves
<1>5. CASE OfferMethods(r)
  <2>1. /\ Goto(r, "idle", "setChallenge") /\ UNCHANGED <<offered, opened, challengeCount>>
        /\ held' = [held EXCEPT ![r].ids = Ids(Enabled)]
    BY <1>5 DEF OfferMethods
  <2>2. Moves(r, "idle", "setChallenge")
    BY <2>1, GotoMoves DEF FactorTypeOK
  <2>3. QED
    BY <2>1, <2>2 DEF Moves
<1>6. ASSUME NEW c \in Open, NEW t \in Method, VerifyChallenge(r, c, t)
      PROVE  ChallengeRests(r)
  <2>1. /\ Goto(r, "idle", "check") /\ UNCHANGED <<offered, opened, challengeCount>>
        /\ held' = [held EXCEPT ![r].challenge = c, ![r].id = method[t].id]
    BY <1>6 DEF VerifyChallenge
  <2>2. Moves(r, "idle", "check")
    BY <2>1 DEF FactorTypeOK, Goto, Moves, FactorTypes
  <2>3. QED
    BY <2>1, <2>2 DEF Moves
<1>7. CASE FactorRight(r)
  BY <1>7, KeepMoves DEF FactorRight, factorVars, Moves
<1>8. ASSUME NEW b \in Batch, ClaimBackupCode(r, b)
      PROVE  ChallengeRests(r)
  <2>1. /\ Goto(r, "check", "takeChallenge") /\ UNCHANGED <<offered, opened, challengeCount>>
        /\ held' = [held EXCEPT ![r].code = b]
    BY <1>8 DEF ClaimBackupCode
  <2>2. Moves(r, "check", "takeChallenge")
    BY <2>1, GotoMoves DEF FactorTypeOK
  <2>3. QED
    BY <2>1, <2>2 DEF Moves
<1>9. CASE FactorDies(r)
  <2>1. FactorEnds(r, pc[r]) /\ UNCHANGED <<offered, opened, challengeCount>>
    BY <1>9 DEF FactorDies, Die, FactorEnds, Goto
  <2>2. QED
    BY <2>1, EndMoves
<1>10. CASE Starts(r)
  <2>1. PICK label, local : StartFits(label, local) /\ StartChange(r, label, local)
    BY <1>10 DEF Starts
  <2>2. Moves(r, "idle", label) /\ UNCHANGED <<offered, opened, challengeCount>>
    BY <2>1, GotoMoves DEF StartChange
  <2>3. QED
    BY <2>1, <2>2 DEF Moves, StartFits
<1>11. CASE Upsert(r)
  BY <1>11, EndMoves DEF Upsert, StoreUpsert, Moves
<1>12. CASE Enable(r)
  <2>1. /\ Goto(r, "enable", "countCodes") /\ held' = [held EXCEPT ![r] = Blank]
        /\ UNCHANGED <<offered, opened, challengeCount>>
    BY <1>12 DEF Enable
  <2>2. Moves(r, "enable", "countCodes")
    BY <2>1, GotoMoves
  <2>3. QED
    BY <2>1, <2>2 DEF Moves
<1>13. CASE DeleteMethod(r)
  <2>1. /\ Goto(r, "deleteMethod", "findRemaining") \/ Goto(r, "deleteMethod", "idle")
        /\ held' = [held EXCEPT ![r] = Blank] /\ UNCHANGED <<offered, opened, challengeCount>>
    BY <1>13 DEF DeleteMethod
  <2>2. Moves(r, "deleteMethod", "findRemaining") \/ Moves(r, "deleteMethod", "idle")
    BY <2>1, GotoMoves
  <2>3. QED
    BY <2>1, <2>2 DEF Moves
<1>14. QED
  BY <1>1, <1>2, <1>3, <1>4, <1>5, <1>6, <1>7, <1>8, <1>9, <1>10, <1>11, <1>12, <1>13

LEMMA ChallengeRestsKeeps ==
    ASSUME FactorInv, NEW r \in Requests, ChallengeRests(r)
    PROVE  ChallengeHasOneUse'
<1>1. PICK to : Moves(r, pc[r], to) /\ to \notin {"touch", "issue"}
  BY DEF ChallengeRests
<1>2. \A q \in Requests : Claiming(q)' => Claiming(q) /\ held'[q] = held[q]
  BY <1>1 DEF Moves, Claiming
<1>3. Open' = Open
  BY DEF Open, ChallengeRests
<1>4. QED
  BY <1>2, <1>3 DEF ChallengeHasOneUse, FactorInv, ChallengeRests

LEMMA VerifiedIsIssued ==
    ASSUME FactorInv, NEW r \in Requests, pc[r] \in Verifying
    PROVE  held[r].challenge \in Challenge /\ held[r].challenge <= challengeCount
<1>1. held[r].challenge \in 1..challengeCount /\ challengeCount \in 0..MaxChallenges
  BY DEF FactorInv, LocalsFit, FactorTypeOK
<1>2. QED
  BY <1>1, Bounds DEF Challenge

LEMMA TakeChallengeOnce ==
    ASSUME FactorInv, FactorTypes', NEW r \in Requests, TakeFactorChallenge(r)
    PROVE  /\ held[r].challenge \in Challenge
           /\ Open' = Open \ {held[r].challenge} /\ UNCHANGED <<opened, challengeCount>>
           /\ IF held[r].challenge \in Open
              THEN Moves(r, "takeChallenge", "touch") /\ held'[r] = held[r]
              ELSE Moves(r, "takeChallenge", "idle") /\ held'[r] = Blank
           /\ ChallengeHasOneUse'
<1> DEFINE c == held[r].challenge
<1> USE DEF FactorInv
<1>1. /\ pc[r] = "takeChallenge" /\ offered' = [offered EXCEPT ![c] = {}]
      /\ UNCHANGED <<opened, challengeCount>>
  BY DEF TakeFactorChallenge, Goto, FactorEnds, counters, factorHistory
<1>2. c \in Challenge
  BY <1>1, VerifiedIsIssued DEF Verifying
<1>3. Open' = Open \ {c}
  BY <1>1, <1>2 DEF Open, FactorTypeOK
<1>4. IF c \in Open THEN Moves(r, "takeChallenge", "touch") /\ held'[r] = held[r]
      ELSE Moves(r, "takeChallenge", "idle") /\ held'[r] = Blank
  BY KeepMoves, EndMoves DEF TakeFactorChallenge
<1>5. CASE c \in Open
  <2>1. \A q \in Requests : Claiming(q) => held[q].challenge # c
    BY <1>5 DEF ChallengeHasOneUse
  <2>2. \A q \in Requests : Claiming(q)' <=> Claiming(q) \/ q = r
    BY <1>4, <1>5 DEF Moves, Claiming
  <2>3. \A q \in Requests : Claiming(q)' => held'[q] = held[q]
    BY <1>4, <1>5 DEF Moves
  <2>4. opened[c] = 0
    BY <1>5 DEF ChallengeHasOneUse
  <2>5. QED
    BY <1>1, <1>2, <1>3, <1>4, <2>1, <2>2, <2>3, <2>4 DEF ChallengeHasOneUse
<1>6. CASE c \notin Open
  <2>1. \A q \in Requests : Claiming(q)' => Claiming(q) /\ held'[q] = held[q]
    BY <1>4, <1>6 DEF Moves, Claiming
  <2>2. QED
    BY <1>1, <1>2, <1>3, <1>4, <2>1 DEF ChallengeHasOneUse
<1>7. QED
  BY <1>1, <1>2, <1>3, <1>4, <1>5, <1>6

LEMMA TouchKeepsChallenge ==
    ASSUME FactorInv, FactorTypes', NEW r \in Requests, TouchMethod(r)
    PROVE  /\ UNCHANGED <<offered, opened, challengeCount>>
           /\ \/ /\ Moves(r, "touch", "issue")
                 /\ held'[r].challenge = held[r].challenge /\ held'[r].code = held[r].code
              \/ Moves(r, "touch", "idle") /\ held'[r] = Blank
           /\ ChallengeHasOneUse'
<1> USE DEF FactorInv
<1>1. UNCHANGED <<offered, opened, challengeCount>>
  BY DEF TouchMethod, counters, factorHistory
<1>2. \/ /\ Moves(r, "touch", "issue")
         /\ held'[r].challenge = held[r].challenge /\ held'[r].code = held[r].code
      \/ Moves(r, "touch", "idle") /\ held'[r] = Blank
  <2>1. CASE Goto(r, "touch", "issue") /\ held' = [held EXCEPT ![r].id = 0]
    <3>1. held' = [held EXCEPT ![r] = [held[r] EXCEPT !.id = 0]] /\ held[r] \in Local
      BY <2>1 DEF FactorTypeOK
    <3>2. Moves(r, "touch", "issue") /\ held'[r] = [held[r] EXCEPT !.id = 0]
      BY <2>1, <3>1, GotoMoves
    <3>3. QED
      BY <3>1, <3>2 DEF Local
  <2>2. CASE FactorEnds(r, "touch")
    BY <2>2, EndMoves
  <2>3. QED
    BY <2>1, <2>2 DEF TouchMethod
<1>3. \A q \in Requests : Claiming(q)' =>
         Claiming(q) /\ held'[q].challenge = held[q].challenge
  BY <1>2 DEF Moves, Claiming
<1>4. Open' = Open
  BY <1>1 DEF Open
<1>5. ChallengeHasOneUse'
  BY <1>1, <1>3, <1>4 DEF ChallengeHasOneUse
<1>6. QED
  BY <1>1, <1>2, <1>5

LEMMA OpenSessionUses ==
    ASSUME FactorInv, FactorTypes', NEW r \in Requests, OpenSession(r)
    PROVE  /\ held[r].challenge \in Challenge /\ opened[held[r].challenge] = 0
           /\ opened' = [opened EXCEPT ![held[r].challenge] = @ + 1]
           /\ UNCHANGED <<offered, challengeCount>>
           /\ Moves(r, "issue", "idle") /\ held'[r] = Blank
           /\ ChallengeHasOneUse'
<1> DEFINE c == held[r].challenge
<1> USE DEF FactorInv
<1>1. /\ FactorEnds(r, "issue") /\ opened' = [opened EXCEPT ![c] = @ + 1]
      /\ UNCHANGED <<offered, challengeCount>>
  BY DEF OpenSession, counters
<1>2. Moves(r, "issue", "idle") /\ held'[r] = Blank
  BY <1>1, EndMoves
<1>3. c \in Challenge /\ c <= challengeCount
  BY <1>2, VerifiedIsIssued DEF Moves, Verifying
<1>4. c \notin Open /\ opened[c] = 0 /\ Claiming(r)
  BY <1>2 DEF Moves, ChallengeHasOneUse, Claiming
<1>5. opened'[c] = 1 /\ \A d \in Challenge : d # c => opened'[d] = opened[d]
  BY <1>1, <1>3, <1>4 DEF FactorTypeOK
<1>6. \A q \in Requests : Claiming(q)' =>
         Claiming(q) /\ held'[q] = held[q] /\ held[q].challenge # c
  BY <1>2, <1>4 DEF Moves, Claiming, ChallengeHasOneUse
<1>7. Open' = Open
  BY <1>1 DEF Open
<1>8. \A q \in Requests : Claiming(q) => held[q].challenge \in Challenge
  BY VerifiedIsIssued DEF Claiming, Verifying
<1>9. ChallengeHasOneUse'
  <2>1. Open \subseteq Challenge
    BY DEF Open
  <2>2. QED
    BY <1>1, <1>3, <1>4, <1>5, <1>6, <1>7, <1>8, <2>1 DEF ChallengeHasOneUse
<1>10. QED
  BY <1>1, <1>2, <1>3, <1>4, <1>9

LEMMA IssueChallengeOpens ==
    ASSUME FactorInv, FactorTypes', NEW r \in Requests, IssueChallenge(r)
    PROVE  /\ challengeCount + 1 \in Challenge /\ challengeCount' = challengeCount + 1
           /\ Open' = Open \cup {challengeCount + 1} /\ UNCHANGED opened
           /\ Moves(r, "setChallenge", "idle")
           /\ ChallengeHasOneUse'
<1> DEFINE c == challengeCount + 1
<1> USE DEF FactorInv
<1>1. /\ FactorEnds(r, "setChallenge") /\ offered' = [offered EXCEPT ![c] = held[r].ids]
      /\ challengeCount' = c /\ UNCHANGED opened
  BY DEF IssueChallenge, factorHistory
<1>2. Moves(r, "setChallenge", "idle")
  BY <1>1, EndMoves
<1>3. c \in Challenge
  BY IssueChallengeTypes
<1>4. held[r].ids # {}
  BY <1>2 DEF Moves, LocalsFit
<1>5. Open' = Open \cup {c}
  BY <1>1, <1>3, <1>4 DEF Open, FactorTypeOK
<1>6. challengeCount \in Nat /\ \A d \in Challenge : d \in Nat /\ opened[d] \in 0..2
  BY DEF FactorTypeOK, Challenge
<1>7. c \notin Open /\ opened[c] = 0
  BY <1>3, <1>6 DEF ChallengeHasOneUse
<1>8. \A q \in Requests : Claiming(q)' =>
         /\ Claiming(q) /\ held'[q] = held[q]
         /\ held[q].challenge \in Challenge /\ held[q].challenge <= challengeCount
  BY <1>2, VerifiedIsIssued DEF Moves, Claiming, Verifying
<1>9. \A d \in Challenge : d <= challengeCount => d <= c
  BY <1>6
<1>10. ChallengeHasOneUse'
  <2>1. \A d \in Open' : d <= challengeCount' /\ opened'[d] = 0
    BY <1>1, <1>5, <1>6, <1>7, <1>9 DEF ChallengeHasOneUse, Open
  <2>2. \A d \in Challenge : opened'[d] <= 1 /\ (opened'[d] > 0 => d <= challengeCount')
    BY <1>1, <1>9 DEF ChallengeHasOneUse
  <2>3. \A q \in Requests : Claiming(q)' => held'[q].challenge \notin Open'
    BY <1>5, <1>6, <1>8 DEF ChallengeHasOneUse
  <2>4. QED
    BY <1>1, <1>8, <2>1, <2>2, <2>3 DEF ChallengeHasOneUse
<1>11. QED
  BY <1>1, <1>2, <1>3, <1>5, <1>10

LEMMA ExpiryCloses ==
    ASSUME FactorInv, NEW c \in Open, ExpireFactorChallenge(c)
    PROVE  /\ Open' = Open \ {c} /\ UNCHANGED <<pc, held, opened, challengeCount>>
           /\ ChallengeHasOneUse'
<1> USE DEF FactorInv
<1>1. Open' = Open \ {c} /\ UNCHANGED <<pc, held, opened, challengeCount>>
  BY DEF ExpireFactorChallenge, Open, FactorTypeOK, counters, factorHistory
<1>2. ChallengeHasOneUse'
  BY <1>1 DEF ChallengeHasOneUse, Claiming
<1>3. QED
  BY <1>1, <1>2

LEMMA ChallengesStep ==
    ASSUME FactorInv, FactorTypes', [FactorNext]_<<pc, faults, factorVars>>
    PROVE  ChallengeHasOneUse'
<1>1. FactorTypeOK
  BY DEF FactorInv
<1>2. ASSUME NEW r \in Requests, ChallengeRests(r) PROVE ChallengeHasOneUse'
  BY <1>2, ChallengeRestsKeeps
<1>3. ASSUME NEW r \in Requests,
             IssueChallenge(r) \/ TakeFactorChallenge(r) \/ TouchMethod(r) \/ OpenSession(r)
      PROVE  ChallengeHasOneUse'
  BY <1>3, IssueChallengeOpens, TakeChallengeOnce, TouchKeepsChallenge, OpenSessionUses
<1>4. ASSUME NEW c \in Open, ExpireFactorChallenge(c) PROVE ChallengeHasOneUse'
  BY <1>4, ExpiryCloses
<1>5. ASSUME (\E b \in Batch : ElevateWithCode(b)) \/ UNCHANGED <<pc, faults, factorVars>>
      PROVE  ChallengeHasOneUse'
  <2>1. UNCHANGED <<pc, held, offered, opened, challengeCount>>
    BY <1>5 DEF ElevateWithCode, factorVars, factorHistory, counters
  <2>2. QED
    BY <2>1 DEF FactorInv, ChallengeHasOneUse, Claiming, Open
<1>6. QED
  BY <1>1, <1>2, <1>3, <1>4, <1>5, FactorSteps, ChallengeRestsWhen
-------------------------------------------------------------------------------
(* One use of a backup code. *)

(* The steps that keep the code the handler has claimed, or drop it. *)
CodeRests(r) ==
    /\ \E to : Moves(r, pc[r], to)
    /\ held'[r].code \in {0, held[r].code}
    /\ UNCHANGED <<codes, admitted, batchCount>>

LEMMA BlankFits == Blank \in Local /\ Blank.code = 0
  BY Bounds DEF Blank, Local

LEMMA CodeRestsWhen ==
    ASSUME FactorInv, FactorTypes', NEW r \in Requests,
           \/ Starts(r) \/ Upsert(r) \/ Enable(r) \/ EnableFails(r)
           \/ CountCodes(r) \/ DeleteCodes(r)
           \/ DeleteMethod(r) \/ FindRemaining(r) \/ OfferMethods(r) \/ IssueChallenge(r)
           \/ \E c \in Open, t \in Method : VerifyChallenge(r, c, t)
           \/ FactorRight(r) \/ InvalidCode(r) \/ TakeFactorChallenge(r) \/ TouchMethod(r)
           \/ FactorDies(r)
    PROVE  CodeRests(r)
<1> USE BlankFits DEF FactorInv, methodRows, factorHistory, counters, CodeRests
<1>1. CASE EnableFails(r) \/ InvalidCode(r) \/ IssueChallenge(r) \/ Upsert(r)
  BY <1>1, EndMoves DEF EnableFails, InvalidCode, IssueChallenge, Upsert, StoreUpsert, Moves
<1>2. CASE CountCodes(r)
  BY <1>2, EndMoves, KeepMoves DEF CountCodes, Moves
<1>3. CASE FindRemaining(r)
  BY <1>3, EndMoves, KeepMoves DEF FindRemaining, Moves
<1>4. CASE DeleteCodes(r)
  <2>1. /\ Goto(r, "deleteCodes", "createCodes") /\ UNCHANGED <<codes, admitted, batchCount>>
        /\ held' = [held EXCEPT ![r].old = {b \in Batch : codes[b] # "absent"}]
    BY <1>4 DEF DeleteCodes
  <2> DEFINE local == [held[r] EXCEPT !.old = {b \in Batch : codes[b] # "absent"}]
  <2>2. Moves(r, "deleteCodes", "createCodes") /\ held'[r] = local
    BY <2>1, GotoMoves DEF FactorTypeOK
  <2>3. local.code = held[r].code
    BY DEF Local, FactorTypeOK
  <2>4. QED
    BY <2>1, <2>2, <2>3 DEF Moves
<1>5. CASE OfferMethods(r)
  <2>1. /\ Goto(r, "idle", "setChallenge") /\ UNCHANGED <<codes, admitted, batchCount>>
        /\ held' = [held EXCEPT ![r].ids = Ids(Enabled)]
    BY <1>5 DEF OfferMethods
  <2> DEFINE local == [held[r] EXCEPT !.ids = Ids(Enabled)]
  <2>2. Moves(r, "idle", "setChallenge") /\ held'[r] = local
    BY <2>1, GotoMoves DEF FactorTypeOK
  <2>3. local.code = held[r].code
    BY DEF Local, FactorTypeOK
  <2>4. QED
    BY <2>1, <2>2, <2>3 DEF Moves
<1>6. ASSUME NEW c \in Open, NEW t \in Method, VerifyChallenge(r, c, t)
      PROVE  CodeRests(r)
  <2> DEFINE local == [held[r] EXCEPT !.challenge = c, !.id = method[t].id]
  <2>1. /\ Goto(r, "idle", "check") /\ UNCHANGED <<codes, admitted, batchCount>>
        /\ held' = [held EXCEPT ![r] = local]
    BY <1>6 DEF VerifyChallenge, FactorTypeOK
  <2>2. Moves(r, "idle", "check") /\ held'[r] = local
    BY <2>1, GotoMoves
  <2>3. local.code = held[r].code
    BY DEF Local, FactorTypeOK
  <2>4. QED
    BY <2>1, <2>2, <2>3 DEF Moves
<1>7. CASE FactorRight(r)
  BY <1>7, KeepMoves DEF FactorRight, factorVars, Moves
<1>8. CASE TakeFactorChallenge(r)
  <2>1. \/ Moves(r, "takeChallenge", "touch") /\ held'[r] = held[r]
        \/ Moves(r, "takeChallenge", "idle") /\ held'[r] = Blank
    BY <1>8, TakeChallengeOnce
  <2>2. QED
    BY <1>8, <2>1 DEF TakeFactorChallenge, Moves
<1>9. CASE TouchMethod(r)
  BY <1>9, TouchKeepsChallenge DEF TouchMethod, Moves
<1>10. CASE FactorDies(r)
  <2>1. FactorEnds(r, pc[r]) /\ UNCHANGED <<codes, admitted, batchCount>>
    BY <1>10 DEF FactorDies, Die, FactorEnds, Goto
  <2>2. QED
    BY <2>1, EndMoves
<1>11. CASE Starts(r)
  <2>1. PICK label, local : StartFits(label, local) /\ StartChange(r, label, local)
    BY <1>11 DEF Starts
  <2>2. /\ Moves(r, "idle", label) /\ UNCHANGED <<codes, admitted, batchCount>>
        /\ held'[r].code = 0
    BY <2>1, GotoMoves DEF StartChange, StartFits
  <2>3. QED
    BY <2>2 DEF Moves
<1>12. CASE Enable(r)
  <2>1. /\ Goto(r, "enable", "countCodes") /\ held' = [held EXCEPT ![r] = Blank]
        /\ UNCHANGED <<codes, admitted, batchCount>>
    BY <1>12 DEF Enable
  <2>2. Moves(r, "enable", "countCodes") /\ held'[r] = Blank
    BY <2>1, GotoMoves
  <2>3. QED
    BY <2>1, <2>2 DEF Moves
<1>13. CASE DeleteMethod(r)
  <2>1. /\ Goto(r, "deleteMethod", "findRemaining") \/ Goto(r, "deleteMethod", "idle")
        /\ held' = [held EXCEPT ![r] = Blank] /\ UNCHANGED <<codes, admitted, batchCount>>
    BY <1>13 DEF DeleteMethod
  <2>2. /\ Moves(r, "deleteMethod", "findRemaining") \/ Moves(r, "deleteMethod", "idle")
        /\ held'[r] = Blank
    BY <2>1, GotoMoves
  <2>3. QED
    BY <2>1, <2>2 DEF Moves
<1>14. QED
  BY <1>1, <1>2, <1>3, <1>4, <1>5, <1>6, <1>7, <1>8, <1>9, <1>10, <1>11, <1>12, <1>13

(* Codes that are held, before and after. *)
LEMMA CodeRestsKeeps ==
    ASSUME FactorInv, NEW r \in Requests, CodeRests(r)
    PROVE  CodeHasOneUse'
<1>1. \A q \in Requests : held'[q].code # 0 => held'[q].code = held[q].code
  BY DEF CodeRests, Moves
<1>2. QED
  BY <1>1 DEF CodeHasOneUse, FactorInv, CodeRests

LEMMA HeldIsMade ==
    ASSUME FactorInv, NEW r \in Requests, held[r].code # 0
    PROVE  held[r].code \in Batch /\ held[r].code <= batchCount
<1>1. held[r].code \in 1..batchCount /\ batchCount \in 0..MaxBatches
  BY DEF FactorInv, LocalsFit, FactorTypeOK
<1>2. QED
  BY <1>1, Bounds DEF Batch

LEMMA CreateCodesOnce ==
    ASSUME FactorInv, FactorTypes', NEW r \in Requests, CreateCodes(r)
    PROVE  /\ batchCount + 1 \in Batch /\ batchCount' = batchCount + 1 /\ UNCHANGED admitted
           /\ codes' = [b \in Batch |-> IF b = batchCount + 1 THEN "unused"
                                        ELSE IF b \in held[r].old THEN "absent" ELSE codes[b]]
           /\ Moves(r, "createCodes", "idle")
           /\ \A q \in Requests : held'[q].code = held[q].code
           /\ CodeHasOneUse'
<1> DEFINE new == batchCount + 1
<1> USE DEF FactorInv
<1>1. /\ FactorEnds(r, "createCodes") /\ batchCount' = new /\ UNCHANGED admitted
      /\ codes' = [b \in Batch |-> IF b = new THEN "unused"
                                   ELSE IF b \in held[r].old THEN "absent" ELSE codes[b]]
  BY DEF CreateCodes
<1>2. Moves(r, "createCodes", "idle") /\ held'[r] = Blank
  BY <1>1, EndMoves
<1>3. new \in Batch /\ batchCount \in Nat
  <2>1. batchCount' \in 0..MaxBatches /\ batchCount \in Nat
    BY DEF FactorTypes, FactorTypeOK
  <2>2. QED
    BY <1>1, <2>1, Bounds DEF Batch
<1>4. held[r].code = 0
  BY <1>2 DEF Moves, LocalsFit
<1>5. \A q \in Requests : held'[q].code = held[q].code
  BY <1>2, <1>4, BlankFits DEF Moves
<1>6. \A b \in Batch : b \in Nat /\ admitted[b] \in 0..2
  BY DEF Batch, FactorTypeOK
<1>7. codes'[new] = "unused" /\ admitted[new] = 0
  BY <1>1, <1>3, <1>6 DEF CodeHasOneUse
<1>8. \A b \in Batch : b # new => codes'[b] = codes[b] \/ codes'[b] = "absent"
  BY <1>1
<1>9. CodeHasOneUse'
  <2>1. \A b \in Batch : codes'[b] # "absent" => b <= batchCount'
    BY <1>1, <1>3, <1>6, <1>8 DEF CodeHasOneUse
  <2>2. \A b \in Batch : codes'[b] = "unused" => admitted'[b] = 0
    BY <1>1, <1>7, <1>8 DEF CodeHasOneUse
  <2>3. \A b \in Batch : admitted'[b] <= 1 /\ (admitted'[b] > 0 => b <= batchCount')
    BY <1>1, <1>3, <1>6 DEF CodeHasOneUse
  <2>4. \A q \in Requests : held[q].code # 0 => held[q].code \in Batch /\ held[q].code # new
    BY <1>3, <1>6, HeldIsMade
  <2>5. \A q \in Requests : held'[q].code # 0 =>
           /\ codes'[held'[q].code] # "unused" /\ admitted'[held'[q].code] = 0
           /\ \A p \in Requests : held'[p].code = held'[q].code => p = q
    BY <1>1, <1>5, <1>8, <2>4 DEF CodeHasOneUse
  <2>6. QED
    BY <2>1, <2>2, <2>3, <2>5 DEF CodeHasOneUse
<1>10. QED
  BY <1>1, <1>2, <1>3, <1>5, <1>9

LEMMA ClearCodesOnce ==
    ASSUME FactorInv, FactorTypes', NEW r \in Requests, ClearCodes(r)
    PROVE  /\ codes' = [b \in Batch |-> "absent"] /\ UNCHANGED <<admitted, batchCount>>
           /\ \A q \in Requests : held'[q].code = held[q].code
           /\ CodeHasOneUse'
<1> USE DEF FactorInv
<1>1. /\ FactorEnds(r, "clearCodes") /\ codes' = [b \in Batch |-> "absent"]
      /\ UNCHANGED <<admitted, batchCount>>
  BY DEF ClearCodes, counters, factorHistory
<1>2. Moves(r, "clearCodes", "idle") /\ held'[r] = Blank
  BY <1>1, EndMoves
<1>3. held[r].code = 0
  BY <1>2 DEF Moves, LocalsFit
<1>4. \A q \in Requests : held'[q].code = held[q].code
  BY <1>2, <1>3, BlankFits DEF Moves
<1>5. CodeHasOneUse'
  BY <1>1, <1>4, HeldIsMade DEF CodeHasOneUse
<1>6. QED
  BY <1>1, <1>4, <1>5

(* updateMany with usedAt: null: from unused to used, whoever asks. *)
LEMMA UsedCode ==
    ASSUME FactorInv, NEW b \in Batch, codes[b] = "unused", codes' = [codes EXCEPT ![b] = "used"]
    PROVE  /\ codes'[b] = "used" /\ \A d \in Batch : d # b => codes'[d] = codes[d]
           /\ b # 0 /\ b <= batchCount /\ admitted[b] = 0
           /\ \A q \in Requests : held[q].code # b
  BY DEF FactorInv, CodeHasOneUse, FactorTypeOK, Batch

LEMMA ClaimCodeOnce ==
    ASSUME FactorInv, FactorTypes', NEW r \in Requests, NEW b \in Batch, ClaimBackupCode(r, b)
    PROVE  /\ codes[b] = "unused" /\ codes' = [codes EXCEPT ![b] = "used"]
           /\ UNCHANGED <<admitted, batchCount>>
           /\ Moves(r, "check", "takeChallenge") /\ held'[r].code = b
           /\ CodeHasOneUse'
<1> USE DEF FactorInv
<1>1. /\ Goto(r, "check", "takeChallenge") /\ held' = [held EXCEPT ![r].code = b]
      /\ codes[b] = "unused" /\ codes' = [codes EXCEPT ![b] = "used"]
      /\ UNCHANGED <<admitted, batchCount>>
  BY DEF ClaimBackupCode, counters, factorHistory
<1>2. Moves(r, "check", "takeChallenge") /\ held'[r].code = b
  <2>1. held[r] \in Local /\ held' = [held EXCEPT ![r] = [held[r] EXCEPT !.code = b]]
    BY <1>1 DEF FactorTypeOK
  <2>2. Moves(r, "check", "takeChallenge") /\ held'[r] = [held[r] EXCEPT !.code = b]
    BY <1>1, <2>1, GotoMoves
  <2>3. QED
    BY <2>1, <2>2 DEF Local
<1>3. \A q \in Requests : q # r => held'[q] = held[q]
  BY <1>2 DEF Moves
<1>4. CodeHasOneUse'
  <2>1. \A q \in Requests : held'[q].code # 0 => held'[q].code \in Batch
    BY <1>2, <1>3, HeldIsMade
  <2>2. \A q \in Requests : held'[q].code # 0 =>
           /\ codes'[held'[q].code] # "unused" /\ admitted'[held'[q].code] = 0
           /\ \A p \in Requests : held'[p].code = held'[q].code => p = q
    <3>1. ASSUME NEW q \in Requests, held'[q].code # 0, q # r
          PROVE  /\ codes'[held'[q].code] # "unused" /\ admitted'[held'[q].code] = 0
                 /\ \A p \in Requests : held'[p].code = held'[q].code => p = q
      BY <1>1, <1>2, <1>3, <2>1, <3>1, UsedCode DEF CodeHasOneUse
    <3>2. /\ codes'[held'[r].code] # "unused" /\ admitted'[held'[r].code] = 0
          /\ \A p \in Requests : held'[p].code = held'[r].code => p = r
      <4>1. codes'[b] = "used" /\ admitted[b] = 0 /\ \A q \in Requests : held[q].code # b
        BY <1>1, UsedCode
      <4>2. \A p \in Requests : held'[p].code = b => p = r
        BY <1>3, <4>1
      <4>3. QED
        BY <1>1, <1>2, <4>1, <4>2
    <3>3. QED
      BY <3>1, <3>2
  <2>3. \A d \in Batch : codes'[d] = "unused" => codes[d] = "unused"
    BY <1>1, UsedCode
  <2>4. \A d \in Batch : codes'[d] # "absent" => codes[d] # "absent"
    BY <1>1, UsedCode
  <2>5. QED
    BY <1>1, <2>2, <2>3, <2>4 DEF CodeHasOneUse
<1>5. QED
  BY <1>1, <1>2, <1>4

LEMMA ElevateOnce ==
    ASSUME FactorInv, NEW b \in Batch, ElevateWithCode(b)
    PROVE  /\ codes[b] = "unused" /\ codes' = [codes EXCEPT ![b] = "used"]
           /\ UNCHANGED <<admitted, batchCount, held>>
           /\ CodeHasOneUse'
<1>1. /\ codes[b] = "unused" /\ codes' = [codes EXCEPT ![b] = "used"]
      /\ UNCHANGED <<admitted, batchCount, held>>
  BY DEF ElevateWithCode, counters, factorHistory
<1>2. \A d \in Batch : /\ codes'[d] = "unused" => codes[d] = "unused"
                       /\ codes'[d] # "absent" => codes[d] # "absent"
  BY <1>1, UsedCode
<1>3. CodeHasOneUse'
  BY <1>1, <1>2, HeldIsMade DEF FactorInv, CodeHasOneUse
<1>4. QED
  BY <1>1, <1>3

LEMMA OpenSessionAdmits ==
    ASSUME FactorInv, FactorTypes', NEW r \in Requests, OpenSession(r)
    PROVE  /\ UNCHANGED <<codes, batchCount>>
           /\ IF held[r].code = 0 THEN UNCHANGED admitted
              ELSE /\ held[r].code \in Batch /\ admitted[held[r].code] = 0
                   /\ admitted' = [admitted EXCEPT ![held[r].code] = @ + 1]
           /\ Moves(r, "issue", "idle") /\ held'[r].code = 0
           /\ CodeHasOneUse'
<1> DEFINE b == held[r].code
<1> USE DEF FactorInv
<1>1. /\ FactorEnds(r, "issue") /\ UNCHANGED <<codes, batchCount>>
      /\ admitted' = [d \in Batch |-> IF d = b THEN admitted[d] + 1 ELSE admitted[d]]
  BY DEF OpenSession, methodRows, counters
<1>2. Moves(r, "issue", "idle") /\ held'[r].code = 0
  BY <1>1, EndMoves, BlankFits
<1>3. CASE b = 0
  <2>1. UNCHANGED admitted
    BY <1>1, <1>3 DEF FactorTypeOK, Batch
  <2>2. CodeHasOneUse'
    BY <1>1, <1>2, <2>1 DEF CodeHasOneUse, Moves
  <2>3. QED
    BY <1>1, <1>2, <1>3, <2>1, <2>2
<1>4. CASE b # 0
  <2>1. b \in Batch /\ b <= batchCount
    BY <1>4, HeldIsMade
  <2>2. admitted[b] = 0 /\ codes[b] # "unused"
    BY <1>4 DEF CodeHasOneUse
  <2>3. admitted' = [admitted EXCEPT ![b] = @ + 1] /\ admitted'[b] = 1
    <3>1. admitted' = [admitted EXCEPT ![b] = @ + 1]
      BY <1>1, <2>1 DEF FactorTypeOK
    <3>2. QED
      BY <2>1, <2>2, <3>1 DEF FactorTypeOK
  <2>4. \A d \in Batch : d # b => admitted'[d] = admitted[d]
    BY <1>1
  <2>5. \A q \in Requests : held'[q].code # 0 =>
           /\ held'[q].code = held[q].code /\ held[q].code \in Batch /\ held[q].code # b
    BY <1>2, <1>4, HeldIsMade DEF Moves, CodeHasOneUse
  <2>6. CodeHasOneUse'
    BY <1>1, <2>1, <2>2, <2>3, <2>4, <2>5 DEF CodeHasOneUse
  <2>7. QED
    BY <1>1, <1>2, <1>4, <2>1, <2>2, <2>3, <2>6
<1>5. QED
  BY <1>3, <1>4

LEMMA CodesStep ==
    ASSUME FactorInv, FactorTypes', [FactorNext]_<<pc, faults, factorVars>>
    PROVE  CodeHasOneUse'
<1>1. FactorTypeOK
  BY DEF FactorInv
<1>2. ASSUME NEW r \in Requests, CodeRests(r) PROVE CodeHasOneUse'
  BY <1>2, CodeRestsKeeps
<1>3. ASSUME NEW r \in Requests, CreateCodes(r) \/ ClearCodes(r) \/ OpenSession(r)
      PROVE  CodeHasOneUse'
  BY <1>3, CreateCodesOnce, ClearCodesOnce, OpenSessionAdmits
<1>4. ASSUME NEW r \in Requests, NEW b \in Batch, ClaimBackupCode(r, b) PROVE CodeHasOneUse'
  BY <1>4, ClaimCodeOnce
<1>5. ASSUME NEW b \in Batch, ElevateWithCode(b) PROVE CodeHasOneUse'
  BY <1>5, ElevateOnce
<1>6. ASSUME (\E c \in Open : ExpireFactorChallenge(c)) \/ UNCHANGED <<pc, faults, factorVars>>
      PROVE  CodeHasOneUse'
  <2>1. UNCHANGED <<pc, held, codes, admitted, batchCount>>
    BY <1>6 DEF ExpireFactorChallenge, factorVars, factorHistory, counters, methodRows
  <2>2. QED
    BY <2>1 DEF FactorInv, CodeHasOneUse
<1>7. QED
  BY <1>1, <1>2, <1>3, <1>4, <1>5, <1>6, FactorSteps, CodeRestsWhen
-------------------------------------------------------------------------------
(* The codes in the table and the handler that changes them. *)

(* What the handler at a label finds. *)
Finds(r) ==
    /\ pc[r] \in {"upsert", "enable"} => AsShown /\ held[r].type \notin Enabled
    /\ pc[r] = "deleteMethod" => AsShown
    /\ pc[r] \in {"countCodes", "deleteCodes"} => Enabled # {} /\ AtMostOne
    /\ pc[r] = "createCodes" => Enabled # {} /\ AtMostOne /\ held[r].old = Stored
    /\ pc[r] = "findRemaining" => AtMostOne /\ (Enabled # {} => AsShown)
    /\ pc[r] = "clearCodes" => Enabled = {}

LEMMA InStepIs ==
    CodesInStep <=>
      (~mixed =>
        /\ \A r, q \in Requests : pc[r] \in Changing /\ pc[q] \in Changing => r = q
        /\ (\A r \in Requests : pc[r] \notin Changing) => AsShown
        /\ \A r \in Requests : Finds(r))
  BY DEF CodesInStep, Finds

LEMMA InStepWas ==
    ASSUME FactorInv, ~mixed, NEW r \in Requests, pc[r] \in Changing
    PROVE  Finds(r) /\ \A q \in Requests : q # r => pc[q] \notin Changing
  BY InStepIs DEF FactorInv

(* Nothing is asked of a handler that is not at such a label. *)
LEMMA FindsNothing ==
    ASSUME NEW r \in Requests, pc[r] \notin Changing
    PROVE  Finds(r)
  BY DEF Finds, Changing

(* The only handler that changes anything moves. *)
LEMMA InStepMoves ==
    ASSUME FactorInv, NEW r \in Requests, NEW from \in Changing, NEW to, Moves(r, from, to),
           mixed' = mixed,
           ~mixed => IF to \in Changing THEN Finds(r)' ELSE AsShown'
    PROVE  CodesInStep'
<1> SUFFICES ASSUME ~mixed PROVE CodesInStep'
  BY DEF CodesInStep
<1>1. \A q \in Requests : q # r => pc[q] \notin Changing
  BY InStepWas DEF Moves
<1>2. \A q \in Requests : q # r => pc'[q] \notin Changing
  BY <1>1 DEF Moves
<1>3. pc'[r] = to
  BY DEF Moves
<1>4. \A q \in Requests : pc'[q] \notin Changing => Finds(q)'
  BY DEF Finds, Changing
<1>5. CASE to \in Changing
  BY <1>2, <1>3, <1>4, <1>5 DEF CodesInStep, Finds
<1>6. CASE to \notin Changing
  BY <1>2, <1>3, <1>4, <1>6 DEF CodesInStep, Finds
<1>7. QED
  BY <1>5, <1>6

(* A handler that changes neither moves. *)
ChangesRest(r) ==
    /\ \E to : Moves(r, pc[r], to) /\ pc[r] \notin Changing /\ to \notin Changing
    /\ UNCHANGED <<method, batchCount, mixed>> /\ Stored' = Stored

LEMMA InStepRests ==
    ASSUME FactorInv, NEW r \in Requests, ChangesRest(r)
    PROVE  CodesInStep'
<1>1. /\ Enabled' = Enabled /\ (AsShown' <=> AsShown) /\ (AtMostOne' <=> AtMostOne)
      /\ mixed' = mixed /\ Stored' = Stored
  BY DEF ChangesRest, Enabled, AsShown, AtMostOne
<1>2. /\ pc'[r] \notin Changing /\ pc[r] \notin Changing
      /\ \A q \in Requests : q # r => pc'[q] = pc[q] /\ held'[q] = held[q]
  BY DEF ChangesRest, Moves
<1>3. SUFFICES ASSUME ~mixed PROVE CodesInStep'
  BY <1>1 DEF CodesInStep
<1>4. ASSUME NEW q \in Requests PROVE Finds(q)'
  <2>1. CASE q = r
    BY <1>2, <2>1 DEF Finds, Changing
  <2>2. CASE q # r
    <3>1. Finds(q)
      BY <1>3, InStepIs DEF FactorInv
    <3>2. QED
      BY <1>1, <1>2, <2>2, <3>1 DEF Finds
  <2>3. QED
    BY <2>1, <2>2
<1>5. \A q, p \in Requests : pc'[q] \in Changing /\ pc'[p] \in Changing => q = p
  BY <1>2, <1>3 DEF FactorInv, CodesInStep
<1>6. (\A q \in Requests : pc'[q] \notin Changing) => AsShown'
  BY <1>1, <1>2, <1>3 DEF FactorInv, CodesInStep
<1>7. QED
  BY <1>4, <1>5, <1>6 DEF CodesInStep, Finds

LEMMA StartInStep ==
    ASSUME FactorInv, FactorTypes', NEW r \in Requests, Starts(r)
    PROVE  CodesInStep'
<1> USE DEF FactorInv
<1>1. PICK label, local : StartFits(label, local) /\ StartChange(r, label, local)
  BY DEF Starts
<1>2. /\ Moves(r, "idle", label) /\ held'[r] = local /\ UNCHANGED <<method, codes, batchCount>>
      /\ mixed' = (mixed \/ At(Changing) # {})
  BY <1>1, GotoMoves DEF StartChange, methodRows, counters
<1>3. CASE mixed'
  BY <1>3 DEF CodesInStep
<1>4. CASE ~mixed'
  <2>1. ~mixed /\ At(Changing) = {}
    BY <1>2, <1>4, Zenon
  <2>2. \A q \in Requests : pc[q] \notin Changing
    BY <2>1 DEF At
  <2>3. AsShown
    BY <2>1, <2>2 DEF CodesInStep
  <2>4. /\ Enabled' = Enabled /\ AsShown' /\ AtMostOne' /\ Stored' = Stored
    BY <1>2, <2>3 DEF AsShown, AtMostOne, Enabled, Stored
  <2>5. /\ \A q \in Requests : q # r => pc'[q] \notin Changing
        /\ pc'[r] = label
    BY <1>2, <2>2 DEF Moves
  <2>6. \A q \in Requests : pc'[q] \notin Changing => Finds(q)'
    BY DEF Finds, Changing
  <2>7. Finds(r)'
    BY <1>1, <1>2, <2>4, <2>5 DEF Finds, StartFits, Enabled
  <2>8. QED
    BY <2>4, <2>5, <2>6, <2>7 DEF CodesInStep, Finds
<1>5. QED
  BY <1>3, <1>4

LEMMA UpsertInStep ==
    ASSUME FactorInv, FactorTypes', NEW r \in Requests, Upsert(r)
    PROVE  CodesInStep'
<1> DEFINE t == held[r].type
           new == Upserted(t, FALSE)
<1> USE DEF FactorInv
<1>1. /\ FactorEnds(r, "upsert") /\ method' = [method EXCEPT ![t] = new] /\ ~new.enabled
      /\ UNCHANGED <<codes, batchCount, mixed>>
  BY DEF Upsert, StoreUpsert, Upserted
<1>2. Moves(r, "upsert", "idle")
  BY <1>1, EndMoves
<1>3. "upsert" \in Changing /\ "idle" \notin Changing
  BY DEF Changing
<1>4. ASSUME ~mixed PROVE AsShown'
  <2>1. AsShown /\ t \notin Enabled
    BY <1>2, <1>3, <1>4, InStepWas DEF Moves, Finds
  <2>2. Enabled' = Enabled /\ Stored' = Stored
    BY <1>1, <2>1 DEF Enabled, Stored, FactorTypeOK
  <2>3. QED
    BY <1>1, <2>1, <2>2 DEF AsShown
<1>5. QED
  BY <1>1, <1>2, <1>3, <1>4, InStepMoves

LEMMA EnableInStep ==
    ASSUME FactorInv, FactorTypes', NEW r \in Requests, Enable(r) \/ EnableFails(r)
    PROVE  CodesInStep'
<1> DEFINE t == held[r].type
<1> USE DEF FactorInv
<1>1. "enable" \in Changing /\ "countCodes" \in Changing /\ "idle" \notin Changing
  BY DEF Changing
<1>2. CASE Enable(r)
  <2>1. /\ Goto(r, "enable", "countCodes") /\ pc[r] = "enable"
        /\ held' = [held EXCEPT ![r] = Blank]
        /\ method' = [method EXCEPT ![t].enabled = TRUE]
        /\ UNCHANGED <<codes, batchCount, mixed>>
    BY <1>2 DEF Enable, Goto, counters
  <2>2. Moves(r, "enable", "countCodes")
    BY <2>1, GotoMoves
  <2>3. ASSUME ~mixed PROVE Finds(r)'
    <3>1. AsShown
      BY <1>1, <2>1, <2>3, InStepWas DEF Finds
    <3>2. t \in Method
      BY <2>1 DEF LocalsFit
    <3>3. t \in Enabled'
      BY <2>1, <3>2 DEF Enabled, FactorTypeOK, Row
    <3>4. AtMostOne'
      BY <2>1, <3>1 DEF AsShown, AtMostOne, Stored
    <3>5. QED
      BY <2>2, <3>3, <3>4 DEF Finds, Moves
  <2>4. QED
    BY <1>1, <2>1, <2>2, <2>3, InStepMoves
<1>3. CASE EnableFails(r)
  <2>1. /\ Moves(r, "enable", "idle") /\ UNCHANGED <<method, codes, batchCount, mixed>>
    BY <1>3, EndMoves DEF EnableFails, methodRows, counters, factorHistory
  <2>2. ASSUME ~mixed PROVE AsShown'
    <3>1. AsShown
      BY <1>1, <2>1, <2>2, InStepWas DEF Moves, Finds
    <3>2. QED
      BY <2>1, <3>1 DEF AsShown, Enabled, Stored
  <2>3. QED
    BY <1>1, <2>1, <2>2, InStepMoves
<1>4. QED
  BY <1>2, <1>3

LEMMA CountCodesInStep ==
    ASSUME FactorInv, FactorTypes', NEW r \in Requests, CountCodes(r)
    PROVE  CodesInStep'
<1> USE DEF FactorInv
<1>1. "countCodes" \in Changing /\ "deleteCodes" \in Changing /\ "idle" \notin Changing
  BY DEF Changing
<1>2. UNCHANGED <<method, codes, batchCount, mixed>>
  BY DEF CountCodes, methodRows, counters, factorHistory
<1>3. Enabled' = Enabled /\ Stored' = Stored
  BY <1>2 DEF Enabled, Stored
<1>4. CASE (\E b \in Batch : codes[b] = "unused") /\ FactorEnds(r, "countCodes")
  <2>1. Moves(r, "countCodes", "idle")
    BY <1>4, EndMoves
  <2>2. ASSUME ~mixed PROVE AsShown'
    <3>1. Enabled # {} /\ AtMostOne
      BY <1>1, <2>1, <2>2, InStepWas DEF Moves, Finds
    <3>2. Stored # {}
      BY <1>4 DEF Stored
    <3>3. QED
      BY <1>2, <1>3, <3>1, <3>2 DEF AsShown, AtMostOne
  <2>3. QED
    BY <1>1, <1>2, <2>1, <2>2, InStepMoves
<1>5. CASE Goto(r, "countCodes", "deleteCodes") /\ UNCHANGED held
  <2>1. Moves(r, "countCodes", "deleteCodes")
    BY <1>5, KeepMoves
  <2>2. ASSUME ~mixed PROVE Finds(r)'
    <3>1. Enabled # {} /\ AtMostOne
      BY <1>1, <2>1, <2>2, InStepWas DEF Moves, Finds
    <3>2. QED
      BY <1>2, <1>3, <2>1, <3>1 DEF AtMostOne, Finds, Moves
  <2>3. QED
    BY <1>1, <1>2, <2>1, <2>2, InStepMoves
<1>6. QED
  BY <1>4, <1>5 DEF CountCodes

LEMMA DeleteCodesInStep ==
    ASSUME FactorInv, FactorTypes', NEW r \in Requests, DeleteCodes(r)
    PROVE  CodesInStep'
<1> USE DEF FactorInv
<1>1. "deleteCodes" \in Changing /\ "createCodes" \in Changing
  BY DEF Changing
<1>2. /\ Goto(r, "deleteCodes", "createCodes") /\ UNCHANGED <<method, codes, batchCount, mixed>>
      /\ held' = [held EXCEPT ![r].old = Stored]
  BY DEF DeleteCodes, Stored, methodRows, counters, factorHistory
<1>3. Moves(r, "deleteCodes", "createCodes") /\ held'[r].old = Stored
  <2>1. held' = [held EXCEPT ![r] = [held[r] EXCEPT !.old = Stored]] /\ held[r] \in Local
    BY <1>2 DEF FactorTypeOK
  <2>2. Moves(r, "deleteCodes", "createCodes") /\ held'[r] = [held[r] EXCEPT !.old = Stored]
    BY <1>2, <2>1, GotoMoves
  <2>3. QED
    BY <2>1, <2>2 DEF Local
<1>4. ASSUME ~mixed PROVE Finds(r)'
  <2>1. Enabled # {} /\ AtMostOne
    BY <1>1, <1>3, <1>4, InStepWas DEF Moves, Finds
  <2>2. Enabled' = Enabled /\ Stored' = Stored
    BY <1>2 DEF Enabled, Stored
  <2>3. QED
    BY <1>2, <1>3, <2>1, <2>2 DEF AtMostOne, Finds, Moves
<1>5. QED
  BY <1>1, <1>2, <1>3, <1>4, InStepMoves

LEMMA CreateCodesInStep ==
    ASSUME FactorInv, FactorTypes', NEW r \in Requests, CreateCodes(r)
    PROVE  CodesInStep'
<1> DEFINE new == batchCount + 1
<1> USE DEF FactorInv
<1>1. "createCodes" \in Changing /\ "idle" \notin Changing
  BY DEF Changing
<1>2. /\ new \in Batch /\ batchCount' = new /\ Moves(r, "createCodes", "idle")
      /\ codes' = [b \in Batch |-> IF b = new THEN "unused"
                                   ELSE IF b \in held[r].old THEN "absent" ELSE codes[b]]
      /\ UNCHANGED <<method, mixed>>
  BY CreateCodesOnce DEF CreateCodes
<1>3. ASSUME ~mixed PROVE AsShown'
  <2>1. Enabled # {} /\ held[r].old = Stored
    BY <1>1, <1>2, <1>3, InStepWas DEF Moves, Finds
  <2>2. Stored' = {new}
    BY <1>2, <2>1 DEF Stored
  <2>3. QED
    BY <1>2, <2>1, <2>2 DEF AsShown, Enabled
<1>4. QED
  BY <1>1, <1>2, <1>3, InStepMoves

LEMMA DeleteMethodInStep ==
    ASSUME FactorInv, FactorTypes', NEW r \in Requests, DeleteMethod(r)
    PROVE  CodesInStep'
<1> DEFINE t == held[r].type
<1> USE DEF FactorInv
<1>1. "deleteMethod" \in Changing /\ "findRemaining" \in Changing /\ "idle" \notin Changing
  BY DEF Changing
<1>2. held' = [held EXCEPT ![r] = Blank] /\ UNCHANGED <<codes, batchCount, mixed>>
  BY DEF DeleteMethod, counters
<1>3. ASSUME ~mixed, pc[r] = "deleteMethod" PROVE AsShown
  BY <1>1, <1>3, InStepWas DEF Finds
<1>4. CASE Goto(r, "deleteMethod", "idle") /\ UNCHANGED <<method, vouched>>
  <2>1. Moves(r, "deleteMethod", "idle")
    BY <1>2, <1>4, GotoMoves
  <2>2. ASSUME ~mixed PROVE AsShown'
    BY <1>2, <1>3, <1>4, <2>1, <2>2 DEF Moves, AsShown, Enabled, Stored
  <2>3. QED
    BY <1>1, <1>2, <2>1, <2>2, InStepMoves
<1>5. CASE /\ Goto(r, "deleteMethod", "findRemaining")
           /\ method' = [method EXCEPT ![t] = NoRow]
  <2>1. Moves(r, "deleteMethod", "findRemaining")
    BY <1>2, <1>5, GotoMoves
  <2>2. Enabled' \subseteq Enabled /\ Stored' = Stored
    BY <1>2, <1>5 DEF Enabled, Stored, NoRow, FactorTypeOK
  <2>3. ASSUME ~mixed PROVE Finds(r)'
    <3>1. AsShown
      BY <1>3, <2>1, <2>3 DEF Moves
    <3>2. AtMostOne' /\ (Enabled' # {} => AsShown')
      BY <1>2, <2>2, <3>1 DEF AsShown, AtMostOne
    <3>3. QED
      BY <2>1, <3>2 DEF Finds, Moves
  <2>4. QED
    BY <1>1, <1>2, <2>1, <2>3, InStepMoves
<1>6. QED
  BY <1>4, <1>5 DEF DeleteMethod

LEMMA ClearInStep ==
    ASSUME FactorInv, FactorTypes', NEW r \in Requests, FindRemaining(r) \/ ClearCodes(r)
    PROVE  CodesInStep'
<1> USE DEF FactorInv
<1>1. "findRemaining" \in Changing /\ "clearCodes" \in Changing /\ "idle" \notin Changing
  BY DEF Changing
<1>2. CASE FindRemaining(r)
  <2>1. UNCHANGED <<method, codes, batchCount, mixed>>
    BY <1>2 DEF FindRemaining, methodRows, counters, factorHistory
  <2>2. Enabled' = Enabled /\ Stored' = Stored
    BY <2>1 DEF Enabled, Stored
  <2>3. CASE Enabled = {}
    <3>1. Moves(r, "findRemaining", "clearCodes")
      BY <1>2, <2>3, KeepMoves DEF FindRemaining
    <3>2. Finds(r)'
      BY <2>2, <2>3, <3>1 DEF Finds, Moves
    <3>3. QED
      BY <1>1, <2>1, <3>1, <3>2, InStepMoves
  <2>4. CASE Enabled # {}
    <3>1. Moves(r, "findRemaining", "idle")
      BY <1>2, <2>4, EndMoves DEF FindRemaining
    <3>2. ASSUME ~mixed PROVE AsShown'
      <4>1. AsShown
        BY <1>1, <2>4, <3>1, <3>2, InStepWas DEF Moves, Finds
      <4>2. QED
        BY <2>1, <2>2, <4>1 DEF AsShown
    <3>3. QED
      BY <1>1, <2>1, <3>1, <3>2, InStepMoves
  <2>5. QED
    BY <2>3, <2>4
<1>3. CASE ClearCodes(r)
  <2>1. /\ Moves(r, "clearCodes", "idle") /\ codes' = [b \in Batch |-> "absent"]
        /\ UNCHANGED <<method, mixed>>
    BY <1>3, EndMoves DEF ClearCodes, factorHistory
  <2>2. ASSUME ~mixed PROVE AsShown'
    <3>1. Enabled = {}
      BY <1>1, <2>1, <2>2, InStepWas DEF Moves, Finds
    <3>2. Stored' = {} /\ Enabled' = Enabled
      BY <2>1 DEF Stored, Enabled
    <3>3. QED
      BY <3>1, <3>2 DEF AsShown
  <2>3. QED
    BY <1>1, <2>1, <2>2, InStepMoves
<1>4. QED
  BY <1>2, <1>3

LEMMA ChallengeStepInStep ==
    ASSUME FactorInv, FactorTypes', NEW r \in Requests, ChallengeStep(r)
    PROVE  CodesInStep'
<1> USE DEF FactorInv, methodRows, counters, factorHistory
<1>1. {"idle", "setChallenge", "check", "takeChallenge", "touch", "issue"} \cap Changing = {}
  BY DEF Changing
<1>2. ASSUME NEW to, UNCHANGED <<method, codes, batchCount, mixed>>,
             pc[r] \in {"idle", "setChallenge", "check", "takeChallenge", "touch", "issue"},
             Moves(r, pc[r], to), to \notin Changing
      PROVE  ChangesRest(r)
  BY <1>1, <1>2 DEF ChangesRest, Stored
<1>3. ASSUME OfferMethods(r) PROVE ChangesRest(r)
  <2>1. /\ Goto(r, "idle", "setChallenge") /\ UNCHANGED <<method, codes, batchCount, mixed>>
        /\ held' = [held EXCEPT ![r].ids = Ids(Enabled)]
    BY <1>3 DEF OfferMethods
  <2>2. Moves(r, "idle", "setChallenge")
    BY <2>1, GotoMoves DEF FactorTypeOK
  <2>3. QED
    BY <1>1, <1>2, <2>1, <2>2 DEF Moves
<1>4. ASSUME NEW c \in Open, NEW t \in Method, VerifyChallenge(r, c, t) PROVE ChangesRest(r)
  <2>1. /\ Goto(r, "idle", "check") /\ UNCHANGED <<method, codes, batchCount, mixed>>
        /\ held' = [held EXCEPT ![r] = [held[r] EXCEPT !.challenge = c, !.id = method[t].id]]
    BY <1>4 DEF VerifyChallenge, FactorTypeOK
  <2>2. Moves(r, "idle", "check")
    BY <2>1, GotoMoves
  <2>3. QED
    BY <1>1, <1>2, <2>1, <2>2 DEF Moves
<1>5. ASSUME FactorRight(r) \/ InvalidCode(r) PROVE ChangesRest(r)
  <2>1. /\ Moves(r, "check", "takeChallenge") \/ Moves(r, "check", "idle")
        /\ UNCHANGED <<method, codes, batchCount, mixed>>
    BY <1>5, KeepMoves, EndMoves DEF FactorRight, InvalidCode, factorVars
  <2>2. QED
    BY <1>1, <1>2, <2>1 DEF Moves
<1>6. ASSUME NEW b \in Batch, ClaimBackupCode(r, b) PROVE ChangesRest(r)
  <2>1. /\ Moves(r, "check", "takeChallenge") /\ UNCHANGED <<method, batchCount, mixed>>
        /\ codes[b] = "unused" /\ codes' = [codes EXCEPT ![b] = "used"]
    BY <1>6, ClaimCodeOnce DEF ClaimBackupCode
  <2>2. Stored' = Stored
    BY <2>1 DEF Stored, FactorTypeOK
  <2>3. QED
    BY <1>1, <2>1, <2>2 DEF Moves, ChangesRest
<1>7. ASSUME IssueChallenge(r) \/ TakeFactorChallenge(r) \/ TouchMethod(r) \/ OpenSession(r)
      PROVE  ChangesRest(r)
  <2>1. UNCHANGED <<method, codes, batchCount, mixed>>
    BY <1>7 DEF IssueChallenge, TakeFactorChallenge, TouchMethod, OpenSession
  <2>2. \/ Moves(r, "setChallenge", "idle") \/ Moves(r, "takeChallenge", "touch")
        \/ Moves(r, "takeChallenge", "idle") \/ Moves(r, "touch", "issue")
        \/ Moves(r, "touch", "idle") \/ Moves(r, "issue", "idle")
    BY <1>7, IssueChallengeOpens, TakeChallengeOnce, TouchKeepsChallenge, OpenSessionUses
  <2>3. QED
    BY <1>1, <1>2, <2>1, <2>2 DEF Moves
<1>8. ChangesRest(r)
  BY <1>3, <1>4, <1>5, <1>6, <1>7 DEF ChallengeStep
<1>9. QED
  BY <1>8, InStepRests

LEMMA DiesInStep ==
    ASSUME FactorInv, FactorTypes', NEW r \in Requests, FactorDies(r)
    PROVE  CodesInStep'
<1> USE DEF FactorInv
<1>1. /\ FactorEnds(r, pc[r]) /\ UNCHANGED <<method, codes, batchCount>>
      /\ mixed' = (mixed \/ pc[r] \in Changing)
  BY DEF FactorDies, Die, FactorEnds, Goto, methodRows, counters
<1>2. Moves(r, pc[r], "idle")
  BY <1>1, EndMoves
<1>3. CASE pc[r] \in Changing
  <2>1. mixed'
    BY <1>1, <1>3, Zenon
  <2>2. QED
    BY <2>1 DEF CodesInStep
<1>4. CASE pc[r] \notin Changing
  <2>1. mixed' = mixed
    BY <1>1, <1>4, Zenon DEF FactorTypeOK
  <2>2. "idle" \notin Changing /\ Stored' = Stored
    BY <1>1 DEF Changing, Stored
  <2>3. QED
    BY <1>1, <1>2, <1>4, <2>1, <2>2, InStepRests DEF ChangesRest
<1>5. QED
  BY <1>3, <1>4

LEMMA InStepStep ==
    ASSUME FactorInv, FactorTypes', [FactorNext]_<<pc, faults, factorVars>>
    PROVE  CodesInStep'
<1>1. FactorTypeOK
  BY DEF FactorInv
<1>2. ASSUME NEW r \in Requests,
             \/ Starts(r) \/ Upsert(r) \/ Enable(r) \/ EnableFails(r)
             \/ CountCodes(r) \/ DeleteCodes(r) \/ CreateCodes(r)
             \/ DeleteMethod(r) \/ FindRemaining(r) \/ ClearCodes(r)
      PROVE  CodesInStep'
  BY <1>2, StartInStep, UpsertInStep, EnableInStep, CountCodesInStep, DeleteCodesInStep,
     CreateCodesInStep, DeleteMethodInStep, ClearInStep
<1>3. ASSUME NEW r \in Requests,
             \/ OfferMethods(r) \/ IssueChallenge(r)
             \/ \E c \in Open, t \in Method : VerifyChallenge(r, c, t)
             \/ FactorRight(r) \/ \E b \in Batch : ClaimBackupCode(r, b)
             \/ InvalidCode(r) \/ TakeFactorChallenge(r) \/ TouchMethod(r) \/ OpenSession(r)
      PROVE  CodesInStep'
  BY <1>3, ChallengeStepInStep DEF ChallengeStep
<1>4. ASSUME NEW r \in Requests, FactorDies(r) PROVE CodesInStep'
  BY <1>4, DiesInStep
<1>5. ASSUME \/ \E c \in Open : ExpireFactorChallenge(c)
             \/ \E b \in Batch : ElevateWithCode(b)
             \/ UNCHANGED <<pc, faults, factorVars>>
      PROVE  CodesInStep'
  <2>1. UNCHANGED <<pc, held, method, batchCount, mixed>> /\ Stored' = Stored
    BY <1>1, <1>5 DEF ExpireFactorChallenge, ElevateWithCode, factorVars, methodRows,
       factorHistory, counters, Stored, FactorTypeOK
  <2>2. Enabled' = Enabled /\ (AsShown' <=> AsShown) /\ (AtMostOne' <=> AtMostOne)
    BY <2>1 DEF Enabled, AsShown, AtMostOne
  <2>3. QED
    BY <2>1, <2>2 DEF FactorInv, CodesInStep
<1>6. QED
  BY <1>1, <1>2, <1>3, <1>4, <1>5, FactorSteps
-------------------------------------------------------------------------------
(* Every step keeps the types, what enabled methods have proved, one use   *)
(* of each challenge and code, and the codes in step with the methods.     *)
LEMMA FactorStep ==
    ASSUME FactorInv, [FactorNext]_<<pc, faults, factorVars>>
    PROVE  FactorInv'
<1>1. FactorTypes'
  BY FactorTypesStep
<1>2. FactorSecrets' /\ ChallengeHasOneUse' /\ CodeHasOneUse' /\ CodesInStep'
  BY <1>1, SecretsStep, ChallengesStep, CodesStep, InStepStep
<1>3. QED
  BY <1>1, <1>2 DEF FactorInv, FactorTypes, FactorSecrets

(* The inductive invariant holds in every reachable state, however the     *)
(* handlers of TwoFactorService overlap, fail or die.                      *)
THEOREM FactorInvariance == FactorSpec => []FactorInv
<1>1. FactorInit => FactorInv
  BY FactorInitInv
<1>2. FactorInv /\ [FactorNext]_<<pc, faults, factorVars>> => FactorInv'
  BY FactorStep
<1>3. QED
  BY <1>1, <1>2, PTL DEF FactorSpec

(* An enabled authenticator app has proved the secret that is stored, or   *)
(* the secret was stored while a confirmation of another was in flight.    *)
THEOREM EnabledSecretsAreProven == FactorSpec => []EnabledSecretIsProven
<1>1. FactorInv => EnabledSecretIsProven
  BY DEF FactorInv
<1>2. QED
  BY <1>1, FactorInvariance, PTL

(* While the changes of methods and codes come one after the other, the    *)
(* backup codes in the table are those the user was shown last, and there  *)
(* are none without an enabled method.                                     *)
THEOREM CodesAreThoseShown == FactorSpec => []BackupCodesAreThoseShown
<1>1. ASSUME FactorInv PROVE BackupCodesAreThoseShown
  <2>1. ASSUME ~mixed, At(Changing) = {} PROVE AsShown
    BY <1>1, <2>1 DEF FactorInv, CodesInStep, At
  <2>2. QED
    BY <2>1 DEF BackupCodesAreThoseShown, AsShown, Stored
<1>2. QED
  BY <1>1, FactorInvariance, PTL

-------------------------------------------------------------------------------
(* Challenges are one-time tickets. *)

Claimed(c) == \E r \in Requests : Claiming(r) /\ held[r].challenge = c

LEMMA ChallengeStateIs ==
    ASSUME NEW c \in Challenge
    PROVE  ChallengeState[c] = IF c > challengeCount THEN "unissued"
                               ELSE IF opened[c] > 0 THEN "served"
                               ELSE IF c \in Open THEN "open"
                               ELSE IF Claimed(c) THEN "claimed" ELSE "void"
  BY DEF ChallengeState, Claimed

LEMMA ChallengeStateKept ==
    ASSUME UNCHANGED <<challengeCount, opened>>, Open' = Open,
           \A c \in Challenge : Claimed(c)' <=> Claimed(c)
    PROVE  UNCHANGED <<ChallengeState, opened>>
  BY DEF ChallengeState, Claimed

LEMMA ChallengeStateBecomes ==
    ASSUME NEW c \in Challenge, NEW new,
           \A d \in Challenge : ChallengeState'[d] = IF d = c THEN new ELSE ChallengeState[d]
    PROVE  ChallengeState' = [ChallengeState EXCEPT ![c] = new]
<1>1. /\ ChallengeState = [d \in Challenge |-> ChallengeState[d]]
      /\ ChallengeState' = [d \in Challenge |-> ChallengeState'[d]]
  BY DEF ChallengeState
<1>2. QED
  BY <1>1

(* A challenge, open or claimed, that no handler can take any more. *)
LEMMA ChallengeVoided ==
    ASSUME FactorInv, NEW c \in Challenge, UNCHANGED <<challengeCount, opened>>,
           c \in Open \/ Claimed(c), c \notin Open', ~Claimed(c)',
           \A d \in Challenge : d # c => (d \in Open' <=> d \in Open) /\ (Claimed(d)' <=> Claimed(d))
    PROVE  ChallengeTickets!Next
<1>1. c <= challengeCount /\ opened[c] = 0
  <2>1. CASE c \in Open
    BY <2>1 DEF FactorInv, ChallengeHasOneUse
  <2>2. CASE Claimed(c)
    BY <2>2, VerifiedIsIssued DEF FactorInv, ChallengeHasOneUse, Claimed, Claiming, Verifying
  <2>3. QED
    BY <2>1, <2>2
<1>2. c \in Nat /\ challengeCount \in Nat
  BY Bounds DEF Challenge, FactorInv, FactorTypeOK
<1>3. ChallengeState[c] \in {"open", "claimed"}
  BY <1>1, <1>2, ChallengeStateIs
<1>4. ChallengeState' = [d \in Challenge |-> IF d \in {c} THEN "void" ELSE ChallengeState[d]]
  BY <1>1, <1>2, ChallengeStateIs DEF ChallengeState, Claimed
<1>5. {c} \in SUBSET ChallengeTickets!In({"open", "claimed"})
  BY <1>3 DEF ChallengeTickets!In
<1>6. ChallengeTickets!Void({c})
  BY <1>4 DEF ChallengeTickets!Void
<1>7. QED
  BY <1>5, <1>6 DEF ChallengeTickets!Next

LEMMA OnlyClaimant ==
    ASSUME FactorInv, NEW r \in Requests, Claiming(r)
    PROVE  /\ Claimed(held[r].challenge) /\ held[r].challenge \in Challenge
           /\ \A q \in Requests : Claiming(q) /\ held[q].challenge = held[r].challenge => q = r
<1>1. held[r].challenge \in Challenge
  BY VerifiedIsIssued DEF Claiming, Verifying
<1>2. QED
  BY <1>1 DEF FactorInv, ChallengeHasOneUse, Claimed

(* A handler that ends, or that has claimed nothing. *)
LEMMA RestIsTicketStep ==
    ASSUME FactorInv, NEW r \in Requests, ChallengeRests(r)
    PROVE  [ChallengeTickets!Next]_<<ChallengeState, opened>>
<1>1. PICK to : Moves(r, pc[r], to) /\ to \notin {"touch", "issue"}
  BY DEF ChallengeRests
<1>2. Open' = Open /\ UNCHANGED <<challengeCount, opened>>
  BY DEF ChallengeRests, Open
<1>3. /\ ~Claiming(r)'
      /\ \A q \in Requests : q # r => (Claiming(q)' <=> Claiming(q)) /\ held'[q] = held[q]
  BY <1>1 DEF Moves, Claiming
<1>4. CASE Claiming(r)
  <2>1. PICK c \in Challenge : c = held[r].challenge /\ Claimed(c)
    BY <1>4, OnlyClaimant
  <2>5. ~Claimed(c)'
    <3>1. \A q \in Requests : Claiming(q) /\ held[q].challenge = c => q = r
      BY <1>4, <2>1, OnlyClaimant
    <3>2. QED
      BY <1>3, <3>1 DEF Claimed
  <2>2. c \notin Open'
    BY <1>2, <1>4, <2>1 DEF FactorInv, ChallengeHasOneUse
  <2>3. \A d \in Challenge : d # c => (Claimed(d)' <=> Claimed(d))
    BY <1>3, <2>1 DEF Claimed
  <2>4. QED
    BY <1>2, <2>1, <2>2, <2>3, <2>5, ChallengeVoided
<1>5. CASE ~Claiming(r)
  <2>1. \A d \in Challenge : Claimed(d)' <=> Claimed(d)
    BY <1>3, <1>5 DEF Claimed
  <2>2. QED
    BY <1>2, <2>1, ChallengeStateKept
<1>6. QED
  BY <1>4, <1>5

LEMMA IssueIsTicketStep ==
    ASSUME FactorInv, FactorTypes', NEW r \in Requests, IssueChallenge(r)
    PROVE  ChallengeTickets!Next
<1> DEFINE c == challengeCount + 1
<1>1. /\ c \in Challenge /\ challengeCount' = c /\ Open' = Open \cup {c} /\ UNCHANGED opened
      /\ Moves(r, "setChallenge", "idle")
  BY IssueChallengeOpens
<1>2. challengeCount \in Nat /\ \A d \in Challenge : d \in Nat /\ opened[d] \in 0..2
  BY Bounds DEF FactorInv, FactorTypeOK, Challenge
<1>3. \A d \in Challenge : Claimed(d)' <=> Claimed(d)
  <2>1. \A q \in Requests :
           /\ Claiming(q)' <=> Claiming(q)
           /\ Claiming(q) => held'[q] = held[q]
    BY <1>1 DEF Moves, Claiming
  <2>2. QED
    BY <2>1 DEF Claimed
<1>4. opened[c] = 0
  BY <1>1, <1>2 DEF FactorInv, ChallengeHasOneUse
<1>5. ChallengeState[c] = "unissued"
  BY <1>1, <1>2, ChallengeStateIs
<1>6. ASSUME NEW d \in Challenge
      PROVE  ChallengeState'[d] = IF d = c THEN "open"
                                  ELSE IF d \in {} THEN "void" ELSE ChallengeState[d]
  <2>1. d > c <=> d > challengeCount /\ d # c
    BY <1>2
  <2>2. ChallengeState'[d] = IF d > c THEN "unissued"
                             ELSE IF opened[d] > 0 THEN "served"
                             ELSE IF d \in Open' THEN "open"
                             ELSE IF Claimed(d)' THEN "claimed" ELSE "void"
    BY <1>1 DEF ChallengeState, Claimed
  <2>3. CASE d = c
    BY <1>1, <1>2, <1>4, <2>2, <2>3
  <2>4. CASE d # c
    BY <1>1, <1>2, <1>3, <2>1, <2>2, <2>4, ChallengeStateIs
  <2>5. QED
    BY <2>3, <2>4
<1>7. ChallengeState' = [d \in Challenge |-> IF d = c THEN "open"
                                 ELSE IF d \in {} THEN "void" ELSE ChallengeState[d]]
  BY <1>6 DEF ChallengeState
<1>8. ChallengeTickets!Issue(c, {})
  BY <1>1, <1>5, <1>7 DEF ChallengeTickets!Issue
<1>9. QED
  BY <1>1, <1>8 DEF ChallengeTickets!Next

LEMMA TakeIsTicketStep ==
    ASSUME FactorInv, FactorTypes', NEW r \in Requests, TakeFactorChallenge(r)
    PROVE  [ChallengeTickets!Next]_<<ChallengeState, opened>>
<1>0. PICK c \in Challenge : c = held[r].challenge
  BY TakeChallengeOnce
<1>1. /\ Open' = Open \ {c} /\ UNCHANGED <<opened, challengeCount>>
      /\ IF c \in Open THEN Moves(r, "takeChallenge", "touch") /\ held'[r] = held[r]
         ELSE Moves(r, "takeChallenge", "idle") /\ held'[r] = Blank
  BY <1>0, TakeChallengeOnce
<1>2. CASE c \in Open
  <2>1. c <= challengeCount /\ opened[c] = 0
    BY <1>2 DEF FactorInv, ChallengeHasOneUse
  <2>2. c \in Nat /\ challengeCount \in Nat
    BY Bounds DEF Challenge, FactorInv, FactorTypeOK
  <2>3. ChallengeState[c] = "open"
    BY <1>2, <2>1, <2>2, ChallengeStateIs
  <2>4. \A q \in Requests : (Claiming(q)' <=> Claiming(q) \/ q = r) /\ held'[q] = held[q]
    BY <1>1, <1>2 DEF Moves, Claiming
  <2>5. ~Claiming(r)
    BY <1>1, <1>2 DEF Moves, Claiming
  <2>6. Claimed(c)' /\ \A d \in Challenge : d # c => (Claimed(d)' <=> Claimed(d))
    BY <1>0, <2>4, <2>5 DEF Claimed
  <2>7. ASSUME NEW d \in Challenge
        PROVE  ChallengeState'[d] = IF d = c THEN "claimed" ELSE ChallengeState[d]
    <3>1. ChallengeState'[d] = IF d > challengeCount THEN "unissued"
                               ELSE IF opened[d] > 0 THEN "served"
                               ELSE IF d \in Open' THEN "open"
                               ELSE IF Claimed(d)' THEN "claimed" ELSE "void"
      BY <1>1 DEF ChallengeState, Claimed
    <3>2. QED
      <4>1. CASE d = c
        BY <1>1, <2>1, <2>2, <2>6, <3>1, <4>1
      <4>2. CASE d # c
        BY <1>1, <2>6, <3>1, <4>2, ChallengeStateIs
      <4>3. QED
        BY <4>1, <4>2
  <2>8. ChallengeState' = [ChallengeState EXCEPT ![c] = "claimed"]
    BY <2>7, ChallengeStateBecomes
  <2>9. ChallengeTickets!Claim(c)
    BY <1>1, <2>3, <2>8 DEF ChallengeTickets!Claim
  <2>10. QED
    BY <1>1, <2>9 DEF ChallengeTickets!Next
<1>3. CASE c \notin Open
  <2>1. Open' = Open
    BY <1>1, <1>3
  <2>2. \A q \in Requests : (Claiming(q)' <=> Claiming(q)) /\ (Claiming(q) => held'[q] = held[q])
    BY <1>1, <1>3 DEF Moves, Claiming
  <2>3. \A d \in Challenge : Claimed(d)' <=> Claimed(d)
    BY <2>2 DEF Claimed
  <2>4. QED
    BY <1>1, <2>1, <2>3, ChallengeStateKept
<1>4. QED
  BY <1>2, <1>3

LEMMA TouchIsTicketStep ==
    ASSUME FactorInv, FactorTypes', NEW r \in Requests, TouchMethod(r)
    PROVE  [ChallengeTickets!Next]_<<ChallengeState, opened>>
<1>1. /\ UNCHANGED <<offered, opened, challengeCount>>
      /\ \/ Moves(r, "touch", "issue") /\ held'[r].challenge = held[r].challenge
         \/ Moves(r, "touch", "idle") /\ held'[r] = Blank
  BY TouchKeepsChallenge
<1>2. CASE Moves(r, "touch", "issue") /\ held'[r].challenge = held[r].challenge
  <2>1. \A q \in Requests :
           (Claiming(q)' <=> Claiming(q)) /\ held'[q].challenge = held[q].challenge
    BY <1>2 DEF Moves, Claiming
  <2>2. \A d \in Challenge : Claimed(d)' <=> Claimed(d)
    BY <2>1 DEF Claimed
  <2>3. Open' = Open
    BY <1>1 DEF Open
  <2>4. QED
    BY <1>1, <2>2, <2>3, ChallengeStateKept
<1>3. CASE Moves(r, "touch", "idle")
  <2>1. ChallengeRests(r)
    BY <1>1, <1>3 DEF ChallengeRests, Moves
  <2>2. QED
    BY <2>1, RestIsTicketStep
<1>4. QED
  BY <1>1, <1>2, <1>3

LEMMA OpenSessionIsTicketStep ==
    ASSUME FactorInv, FactorTypes', NEW r \in Requests, OpenSession(r)
    PROVE  ChallengeTickets!Next
<1> DEFINE c == held[r].challenge
<1>1. /\ c \in Challenge /\ opened[c] = 0 /\ opened' = [opened EXCEPT ![c] = @ + 1]
      /\ UNCHANGED <<offered, challengeCount>>
      /\ Moves(r, "issue", "idle")
  BY OpenSessionUses
<1>2. Claiming(r) /\ c \notin Open /\ c <= challengeCount
  <2>1. Claiming(r) /\ pc[r] \in Verifying
    BY <1>1 DEF Moves, Claiming, Verifying
  <2>2. QED
    BY <2>1, VerifiedIsIssued DEF FactorInv, ChallengeHasOneUse
<1>3. Claimed(c) /\ c \in Nat /\ challengeCount \in Nat
  BY <1>2, OnlyClaimant, Bounds DEF Challenge, FactorInv, FactorTypeOK
<1>4. ChallengeState[c] = "claimed"
  BY <1>1, <1>2, <1>3, ChallengeStateIs
<1>5. \A d \in Challenge : d # c => (Claimed(d)' <=> Claimed(d))
  <2>1. \A q \in Requests : q # r => (Claiming(q)' <=> Claiming(q)) /\ held'[q] = held[q]
    BY <1>1 DEF Moves, Claiming
  <2>2. ~Claiming(r)'
    BY <1>1 DEF Moves, Claiming
  <2>3. QED
    BY <2>1, <2>2 DEF Claimed
<1>6. Open' = Open
  BY <1>1 DEF Open
<1>7. opened'[c] = 1 /\ \A d \in Challenge : d # c => opened'[d] = opened[d]
  BY <1>1 DEF FactorInv, FactorTypeOK
<1>8. ASSUME NEW d \in Challenge
      PROVE  ChallengeState'[d] = IF d = c THEN "served" ELSE ChallengeState[d]
  <2>1. ChallengeState'[d] = IF d > challengeCount THEN "unissued"
                             ELSE IF opened'[d] > 0 THEN "served"
                             ELSE IF d \in Open' THEN "open"
                             ELSE IF Claimed(d)' THEN "claimed" ELSE "void"
    BY <1>1 DEF ChallengeState, Claimed
  <2>2. QED
    BY <1>1, <1>2, <1>3, <1>5, <1>6, <1>7, <2>1, ChallengeStateIs
<1>9. ChallengeState' = [ChallengeState EXCEPT ![c] = "served"]
  BY <1>1, <1>8, ChallengeStateBecomes
<1>10. ChallengeTickets!Serve(c)
  BY <1>1, <1>4, <1>9 DEF ChallengeTickets!Serve
<1>11. QED
  BY <1>1, <1>10 DEF ChallengeTickets!Next

LEMMA ExpiryIsTicketStep ==
    ASSUME FactorInv, NEW c \in Open, ExpireFactorChallenge(c)
    PROVE  ChallengeTickets!Next
<1>1. Open' = Open \ {c} /\ UNCHANGED <<pc, held, opened, challengeCount>>
  BY ExpiryCloses
<1>2. \A d \in Challenge : Claimed(d)' <=> Claimed(d)
  BY <1>1 DEF Claimed, Claiming
<1>3. c \in Challenge /\ ~Claimed(c)
  BY DEF Open, FactorInv, ChallengeHasOneUse, Claimed
<1>4. QED
  BY <1>1, <1>2, <1>3, ChallengeVoided

(* The handlers of verifyChallenge implement a one-time ticket: a          *)
(* challenge is claimed by one handler at most (GETDEL) and opens at most  *)
(* one session; it is void once it has expired, or its claimant ended.     *)
THEOREM ChallengesAreTickets == FactorSpec => ChallengeOpensOneSession
<1>1. FactorInit => ChallengeTickets!Init
  <2> SUFFICES ASSUME FactorInit PROVE ChallengeTickets!Init
    OBVIOUS
  <2>1. \A c \in Challenge : c > challengeCount
    BY Bounds DEF FactorInit, Challenge
  <2>2. ChallengeState = [c \in Challenge |-> "unissued"]
    BY <2>1 DEF ChallengeState
  <2>3. QED
    BY <2>2 DEF FactorInit, ChallengeTickets!Init
<1>2. ASSUME FactorInv, FactorInv', [FactorNext]_<<pc, faults, factorVars>>
      PROVE  [ChallengeTickets!Next]_<<ChallengeState, opened>>
  <2>1. FactorTypeOK /\ FactorTypes'
    BY <1>2 DEF FactorInv, FactorTypes
  <2>2. ASSUME NEW r \in Requests, ChallengeRests(r)
        PROVE  [ChallengeTickets!Next]_<<ChallengeState, opened>>
    BY <1>2, <2>2, RestIsTicketStep
  <2>3. ASSUME NEW r \in Requests,
               IssueChallenge(r) \/ TakeFactorChallenge(r) \/ TouchMethod(r) \/ OpenSession(r)
        PROVE  [ChallengeTickets!Next]_<<ChallengeState, opened>>
    BY <1>2, <2>1, <2>3, IssueIsTicketStep, TakeIsTicketStep, TouchIsTicketStep,
       OpenSessionIsTicketStep
  <2>4. ASSUME NEW c \in Open, ExpireFactorChallenge(c)
        PROVE  [ChallengeTickets!Next]_<<ChallengeState, opened>>
    BY <1>2, <2>4, ExpiryIsTicketStep
  <2>5. ASSUME (\E b \in Batch : ElevateWithCode(b)) \/ UNCHANGED <<pc, faults, factorVars>>
        PROVE  [ChallengeTickets!Next]_<<ChallengeState, opened>>
    <3>1. UNCHANGED <<pc, held, offered, opened, challengeCount>>
      BY <2>5 DEF ElevateWithCode, factorVars, factorHistory, counters
    <3>2. Open' = Open /\ \A d \in Challenge : Claimed(d)' <=> Claimed(d)
      BY <3>1 DEF Open, Claimed, Claiming
    <3>3. QED
      BY <3>1, <3>2, ChallengeStateKept
  <2>6. QED
    BY <1>2, <2>1, <2>2, <2>3, <2>4, <2>5, FactorSteps, ChallengeRestsWhen
<1>3. QED
  BY <1>1, <1>2, FactorInvariance, PTL
     DEF FactorSpec, ChallengeOpensOneSession, ChallengeTickets!Spec
-------------------------------------------------------------------------------
(* Backup codes are one-time tickets. *)

HeldCode(b) == \E r \in Requests : held[r].code = b

LEMMA CodeStateIs ==
    ASSUME NEW b \in Batch
    PROVE  CodeState[b] = IF b > batchCount THEN "unissued"
                          ELSE IF admitted[b] > 0 THEN "served"
                          ELSE IF codes[b] = "unused" THEN "open"
                          ELSE IF HeldCode(b) THEN "claimed" ELSE "void"
  BY DEF CodeState, HeldCode

LEMMA CodeStateBecomes ==
    ASSUME NEW b \in Batch, NEW new,
           \A d \in Batch : CodeState'[d] = IF d = b THEN new ELSE CodeState[d]
    PROVE  CodeState' = [CodeState EXCEPT ![b] = new]
<1>1. /\ CodeState = [d \in Batch |-> CodeState[d]] /\ CodeState' = [d \in Batch |-> CodeState'[d]]
  BY DEF CodeState
<1>2. QED
  BY <1>1

LEMMA CodesVoided ==
    ASSUME NEW old \in SUBSET Batch, UNCHANGED admitted,
           \A b \in old : CodeState[b] \in {"open", "claimed"},
           \A b \in Batch : CodeState'[b] = IF b \in old THEN "void" ELSE CodeState[b]
    PROVE  CodeTickets!Next
<1>1. CodeState' = [b \in Batch |-> IF b \in old THEN "void" ELSE CodeState[b]]
  <2>1. CodeState' = [b \in Batch |-> CodeState'[b]]
    BY DEF CodeState
  <2>2. QED
    BY <2>1
<1>2. CodeTickets!Void(old)
  BY <1>1 DEF CodeTickets!Void
<1>3. old \in SUBSET CodeTickets!In({"open", "claimed"})
  BY DEF CodeTickets!In
<1>4. QED
  BY <1>2, <1>3 DEF CodeTickets!Next

LEMMA BatchTypes ==
    ASSUME FactorInv
    PROVE  batchCount \in Nat /\ \A b \in Batch : b \in Nat /\ b # 0 /\ admitted[b] \in 0..2
  BY Bounds DEF FactorInv, FactorTypeOK, Batch

LEMMA CodeRestIsTicketStep ==
    ASSUME FactorInv, NEW r \in Requests, CodeRests(r)
    PROVE  [CodeTickets!Next]_<<CodeState, admitted>>
<1>1. /\ UNCHANGED <<codes, admitted, batchCount>>
      /\ \A q \in Requests : q # r => held'[q].code = held[q].code
  BY DEF CodeRests, Moves
<1>2. CASE held'[r].code = held[r].code
  <2>1. \A b \in Batch : HeldCode(b)' <=> HeldCode(b)
    BY <1>1, <1>2 DEF HeldCode
  <2>2. UNCHANGED CodeState
    BY <1>1, <2>1 DEF CodeState, HeldCode
  <2>3. QED
    BY <1>1, <2>2
<1>3. CASE held'[r].code = 0 /\ held[r].code # 0
  <2>1. PICK b \in Batch : b = held[r].code /\ b <= batchCount
    BY <1>3, HeldIsMade
  <2>2. /\ codes[b] # "unused" /\ admitted[b] = 0
        /\ \A q \in Requests : held[q].code = b => q = r
    BY <1>3, <2>1 DEF FactorInv, CodeHasOneUse
  <2>3. HeldCode(b) /\ ~HeldCode(b)'
    BY <1>1, <1>3, <2>1, <2>2, BatchTypes DEF HeldCode
  <2>4. \A d \in Batch : d # b => (HeldCode(d)' <=> HeldCode(d))
    BY <1>1, <1>3, <2>1, BatchTypes DEF HeldCode
  <2>5. CodeState[b] = "claimed"
    BY <2>1, <2>2, <2>3, BatchTypes, CodeStateIs
  <2>6. ASSUME NEW d \in Batch
        PROVE  CodeState'[d] = IF d \in {b} THEN "void" ELSE CodeState[d]
    <3>1. CodeState'[d] = IF d > batchCount THEN "unissued"
                          ELSE IF admitted[d] > 0 THEN "served"
                          ELSE IF codes[d] = "unused" THEN "open"
                          ELSE IF HeldCode(d)' THEN "claimed" ELSE "void"
      BY <1>1 DEF CodeState, HeldCode
    <3>2. CASE d = b
      BY <2>1, <2>2, <2>3, <3>1, <3>2, BatchTypes
    <3>3. CASE d # b
      BY <2>4, <3>1, <3>3, CodeStateIs
    <3>4. QED
      BY <3>2, <3>3
  <2>7. QED
    BY <1>1, <2>5, <2>6, CodesVoided
<1>4. QED
  BY <1>2, <1>3 DEF CodeRests

LEMMA CreateIsTicketStep ==
    ASSUME FactorInv, FactorTypes', NEW r \in Requests, CreateCodes(r)
    PROVE  CodeTickets!Next
<1>1. PICK new \in Batch : new = batchCount + 1
  BY CreateCodesOnce
<1>2. /\ batchCount' = new /\ UNCHANGED admitted
      /\ codes' = [b \in Batch |-> IF b = new THEN "unused"
                                   ELSE IF b \in held[r].old THEN "absent" ELSE codes[b]]
      /\ \A q \in Requests : held'[q].code = held[q].code
  BY <1>1, CreateCodesOnce
<1> DEFINE old == {b \in held[r].old \cap Batch : CodeState[b] = "open"}
<1>3. admitted[new] = 0 /\ CodeState[new] = "unissued"
  BY <1>1, BatchTypes, CodeStateIs DEF FactorInv, CodeHasOneUse
<1>4. \A b \in Batch : HeldCode(b)' <=> HeldCode(b)
  BY <1>2 DEF HeldCode
<1>5. \A b \in Batch : codes[b] = "unused" => ~HeldCode(b)
  BY BatchTypes DEF HeldCode, FactorInv, CodeHasOneUse
<1>6. ASSUME NEW d \in Batch
      PROVE  CodeState'[d] = IF d = new THEN "open" ELSE IF d \in old THEN "void" ELSE CodeState[d]
  <2>1. CodeState'[d] = IF d > new THEN "unissued"
                        ELSE IF admitted[d] > 0 THEN "served"
                        ELSE IF codes'[d] = "unused" THEN "open"
                        ELSE IF HeldCode(d)' THEN "claimed" ELSE "void"
    BY <1>2 DEF CodeState, HeldCode
  <2>2. d > new <=> d > batchCount /\ d # new
    BY <1>1, BatchTypes
  <2>3. CASE d = new
    BY <1>2, <1>3, <2>1, <2>2, <2>3
  <2>4. CASE d # new /\ d \in held[r].old /\ codes[d] = "unused"
    <3>1. codes'[d] = "absent" /\ ~HeldCode(d)'
      BY <1>2, <1>4, <1>5, <2>4
    <3>2. admitted[d] = 0 /\ d <= batchCount
      BY <2>4 DEF FactorInv, CodeHasOneUse
    <3>3. CodeState[d] = "open" /\ CodeState'[d] = "void"
      BY <2>1, <2>2, <2>4, <3>1, <3>2, BatchTypes, CodeStateIs
    <3>4. QED
      BY <2>4, <3>3
  <2>5. CASE d # new /\ ~(d \in held[r].old /\ codes[d] = "unused")
    <3>1. codes'[d] = "unused" <=> codes[d] = "unused"
      BY <1>2, <2>5
    <3>2. CodeState'[d] = CodeState[d]
      BY <1>4, <2>1, <2>2, <2>5, <3>1, CodeStateIs
    <3>3. d \notin old
      BY <2>5, CodeStateIs
    <3>4. QED
      BY <2>5, <3>2, <3>3
  <2>6. QED
    BY <2>3, <2>4, <2>5
<1>7. CodeState' = [d \in Batch |-> IF d = new THEN "open"
                                    ELSE IF d \in old THEN "void" ELSE CodeState[d]]
  <2>1. CodeState' = [d \in Batch |-> CodeState'[d]]
    BY DEF CodeState
  <2>2. QED
    BY <1>6, <2>1
<1>8. CodeTickets!Issue(new, old)
  BY <1>2, <1>3, <1>7 DEF CodeTickets!Issue
<1>9. old \in SUBSET CodeTickets!In({"open", "claimed"})
  BY DEF CodeTickets!In
<1>10. QED
  BY <1>8, <1>9 DEF CodeTickets!Next

(* A code that was unused: no handler holds it, and it has admitted none. *)
LEMMA UnusedIsOpen ==
    ASSUME FactorInv, NEW b \in Batch, codes[b] = "unused"
    PROVE  CodeState[b] = "open" /\ ~HeldCode(b) /\ b <= batchCount /\ admitted[b] = 0
<1>1. b <= batchCount /\ admitted[b] = 0
  BY DEF FactorInv, CodeHasOneUse
<1>2. ~HeldCode(b)
  BY BatchTypes DEF HeldCode, FactorInv, CodeHasOneUse
<1>3. QED
  BY <1>1, <1>2, BatchTypes, CodeStateIs

LEMMA ClaimIsTicketStep ==
    ASSUME FactorInv, FactorTypes', NEW r \in Requests, NEW b \in Batch, ClaimBackupCode(r, b)
    PROVE  CodeTickets!Next
<1>1. /\ codes[b] = "unused" /\ codes' = [codes EXCEPT ![b] = "used"]
      /\ UNCHANGED <<admitted, batchCount>>
      /\ Moves(r, "check", "takeChallenge") /\ held'[r].code = b
  BY ClaimCodeOnce
<1>2. CodeState[b] = "open" /\ ~HeldCode(b) /\ b <= batchCount /\ admitted[b] = 0
  BY <1>1, UnusedIsOpen
<1>3. codes'[b] = "used" /\ \A d \in Batch : d # b => codes'[d] = codes[d]
  BY <1>1, UsedCode
<1>4. held[r].code = 0
  BY <1>1 DEF Moves, FactorInv, LocalsFit
<1>5. HeldCode(b)' /\ \A d \in Batch : d # b => (HeldCode(d)' <=> HeldCode(d))
  BY <1>1, <1>4, BatchTypes DEF HeldCode, Moves
<1>6. ASSUME NEW d \in Batch
      PROVE  CodeState'[d] = IF d = b THEN "claimed" ELSE CodeState[d]
  <2>1. CodeState'[d] = IF d > batchCount THEN "unissued"
                        ELSE IF admitted[d] > 0 THEN "served"
                        ELSE IF codes'[d] = "unused" THEN "open"
                        ELSE IF HeldCode(d)' THEN "claimed" ELSE "void"
    BY <1>1 DEF CodeState, HeldCode
  <2>2. CASE d = b
    BY <1>2, <1>3, <1>5, <2>1, <2>2, BatchTypes
  <2>3. CASE d # b
    BY <1>3, <1>5, <2>1, <2>3, CodeStateIs
  <2>4. QED
    BY <2>2, <2>3
<1>7. CodeTickets!Claim(b)
  BY <1>1, <1>2, <1>6, CodeStateBecomes DEF CodeTickets!Claim
<1>8. QED
  BY <1>7 DEF CodeTickets!Next

LEMMA ElevateIsTicketStep ==
    ASSUME FactorInv, NEW b \in Batch, ElevateWithCode(b)
    PROVE  CodeTickets!Next
<1>1. /\ codes[b] = "unused" /\ codes' = [codes EXCEPT ![b] = "used"]
      /\ UNCHANGED <<admitted, batchCount, held>>
  BY ElevateOnce
<1>2. CodeState[b] = "open" /\ ~HeldCode(b) /\ b <= batchCount /\ admitted[b] = 0
  BY <1>1, UnusedIsOpen
<1>3. codes'[b] = "used" /\ \A d \in Batch : d # b => codes'[d] = codes[d]
  BY <1>1, UsedCode
<1>4. ASSUME NEW d \in Batch
      PROVE  CodeState'[d] = IF d \in {b} THEN "void" ELSE CodeState[d]
  <2>1. CodeState'[d] = IF d > batchCount THEN "unissued"
                        ELSE IF admitted[d] > 0 THEN "served"
                        ELSE IF codes'[d] = "unused" THEN "open"
                        ELSE IF HeldCode(d) THEN "claimed" ELSE "void"
    BY <1>1 DEF CodeState, HeldCode
  <2>2. CASE d = b
    BY <1>2, <1>3, <2>1, <2>2, BatchTypes
  <2>3. CASE d # b
    BY <1>3, <2>1, <2>3, CodeStateIs
  <2>4. QED
    BY <2>2, <2>3
<1>5. QED
  BY <1>1, <1>2, <1>4, CodesVoided

LEMMA ClearIsTicketStep ==
    ASSUME FactorInv, FactorTypes', NEW r \in Requests, ClearCodes(r)
    PROVE  CodeTickets!Next
<1>1. /\ codes' = [b \in Batch |-> "absent"] /\ UNCHANGED <<admitted, batchCount>>
      /\ \A q \in Requests : held'[q].code = held[q].code
  BY ClearCodesOnce
<1> DEFINE old == {b \in Batch : codes[b] = "unused"}
<1>2. \A b \in old : CodeState[b] = "open"
  BY UnusedIsOpen
<1>3. ASSUME NEW d \in Batch
      PROVE  CodeState'[d] = IF d \in old THEN "void" ELSE CodeState[d]
  <2>1. HeldCode(d)' <=> HeldCode(d)
    BY <1>1 DEF HeldCode
  <2>2. CodeState'[d] = IF d > batchCount THEN "unissued"
                        ELSE IF admitted[d] > 0 THEN "served"
                        ELSE IF HeldCode(d) THEN "claimed" ELSE "void"
    BY <1>1, <2>1 DEF CodeState, HeldCode
  <2>3. CASE d \in old
    BY <2>2, <2>3, UnusedIsOpen, BatchTypes
  <2>4. CASE d \notin old
    BY <2>2, <2>4, CodeStateIs
  <2>5. QED
    BY <2>3, <2>4
<1>4. QED
  BY <1>1, <1>2, <1>3, CodesVoided

LEMMA AdmissionIsTicketStep ==
    ASSUME FactorInv, FactorTypes', NEW r \in Requests, OpenSession(r)
    PROVE  [CodeTickets!Next]_<<CodeState, admitted>>
<1>1. /\ UNCHANGED <<codes, batchCount>>
      /\ Moves(r, "issue", "idle") /\ held'[r].code = 0
  BY OpenSessionAdmits
<1>2. CASE held[r].code = 0
  <2>1. CodeRests(r)
    BY <1>1, <1>2, OpenSessionAdmits DEF CodeRests, Moves
  <2>2. QED
    BY <2>1, CodeRestIsTicketStep
<1>3. CASE held[r].code # 0
  <2>1. PICK b \in Batch : b = held[r].code /\ b <= batchCount
    BY <1>3, HeldIsMade
  <2>2. admitted[b] = 0 /\ admitted' = [admitted EXCEPT ![b] = @ + 1]
    BY <1>3, <2>1, OpenSessionAdmits
  <2>3. codes[b] # "unused" /\ HeldCode(b)
    BY <1>3, <2>1 DEF FactorInv, CodeHasOneUse, HeldCode
  <2>4. CodeState[b] = "claimed"
    BY <2>1, <2>2, <2>3, BatchTypes, CodeStateIs
  <2>5. \A d \in Batch : d # b => (HeldCode(d)' <=> HeldCode(d))
    BY <1>1, <2>1, BatchTypes DEF HeldCode, Moves
  <2>6. admitted'[b] = 1 /\ \A d \in Batch : d # b => admitted'[d] = admitted[d]
    BY <2>2 DEF FactorInv, FactorTypeOK
  <2>7. ASSUME NEW d \in Batch
        PROVE  CodeState'[d] = IF d = b THEN "served" ELSE CodeState[d]
    <3>1. CodeState'[d] = IF d > batchCount THEN "unissued"
                          ELSE IF admitted'[d] > 0 THEN "served"
                          ELSE IF codes[d] = "unused" THEN "open"
                          ELSE IF HeldCode(d)' THEN "claimed" ELSE "void"
      BY <1>1 DEF CodeState, HeldCode
    <3>2. CASE d = b
      BY <2>1, <2>6, <3>1, <3>2, BatchTypes
    <3>3. CASE d # b
      BY <2>5, <2>6, <3>1, <3>3, CodeStateIs
    <3>4. QED
      BY <3>2, <3>3
  <2>8. CodeTickets!Serve(b)
    BY <2>2, <2>4, <2>7, CodeStateBecomes DEF CodeTickets!Serve
  <2>9. QED
    BY <2>8 DEF CodeTickets!Next
<1>4. QED
  BY <1>2, <1>3

(* Backup codes implement one-time tickets too: the updateMany that sets   *)
(* usedAt lets one handler have a code, and regenerating the codes voids   *)
(* those that are left, whatever overlaps it.                              *)
THEOREM BackupCodesAreTickets == FactorSpec => BackupCodeOpensOneSession
<1>1. FactorInit => CodeTickets!Init
  <2> SUFFICES ASSUME FactorInit PROVE CodeTickets!Init
    OBVIOUS
  <2>1. \A b \in Batch : b > batchCount
    BY Bounds DEF FactorInit, Batch
  <2>2. CodeState = [b \in Batch |-> "unissued"]
    BY <2>1 DEF CodeState
  <2>3. QED
    BY <2>2 DEF FactorInit, CodeTickets!Init
<1>2. ASSUME FactorInv, FactorInv', [FactorNext]_<<pc, faults, factorVars>>
      PROVE  [CodeTickets!Next]_<<CodeState, admitted>>
  <2>1. FactorTypeOK /\ FactorTypes'
    BY <1>2 DEF FactorInv, FactorTypes
  <2>2. ASSUME NEW r \in Requests, CodeRests(r)
        PROVE  [CodeTickets!Next]_<<CodeState, admitted>>
    BY <1>2, <2>2, CodeRestIsTicketStep
  <2>3. ASSUME NEW r \in Requests, CreateCodes(r) \/ ClearCodes(r) \/ OpenSession(r)
        PROVE  [CodeTickets!Next]_<<CodeState, admitted>>
    BY <1>2, <2>1, <2>3, CreateIsTicketStep, ClearIsTicketStep, AdmissionIsTicketStep
  <2>4. ASSUME NEW r \in Requests, NEW b \in Batch, ClaimBackupCode(r, b)
        PROVE  [CodeTickets!Next]_<<CodeState, admitted>>
    BY <1>2, <2>1, <2>4, ClaimIsTicketStep
  <2>5. ASSUME NEW b \in Batch, ElevateWithCode(b)
        PROVE  [CodeTickets!Next]_<<CodeState, admitted>>
    BY <1>2, <2>5, ElevateIsTicketStep
  <2>6. ASSUME (\E c \in Open : ExpireFactorChallenge(c)) \/ UNCHANGED <<pc, faults, factorVars>>
        PROVE  [CodeTickets!Next]_<<CodeState, admitted>>
    <3>1. UNCHANGED <<held, codes, admitted, batchCount>>
      BY <2>6 DEF ExpireFactorChallenge, factorVars, factorHistory, counters, methodRows
    <3>2. UNCHANGED CodeState
      BY <3>1 DEF CodeState
    <3>3. QED
      BY <3>1, <3>2
  <2>7. QED
    BY <1>2, <2>1, <2>2, <2>3, <2>4, <2>5, <2>6, FactorSteps, CodeRestsWhen
<1>3. QED
  BY <1>1, <1>2, FactorInvariance, PTL
     DEF FactorSpec, BackupCodeOpensOneSession, CodeTickets!Spec
===============================================================================

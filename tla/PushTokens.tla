------------------------------ MODULE PushTokens ------------------------------
(***************************************************************************)
(* RegisterFcmTokenService and RemoveFcmTokenService.  A registration is a *)
(* transaction under READ COMMITTED: it reads the row of the token and the *)
(* row of the device, each as committed at that moment, and then writes;   *)
(* its writes and its commit are one step, and fail on a row that is gone  *)
(* or on the unique indexes.                                               *)
(***************************************************************************)
EXTENDS Handlers

CONSTANTS Owners, Devices, Tokens, MaxPushRows,
          Nobody    \* the owner of an idle registration

ASSUME PushAssumption == MaxPushRows \in Nat /\ Nobody \notin Owners

PushData == [owner : Owners, device : Devices, token : Tokens]
PushRow  == [id : 1..MaxPushRows, data : PushData]

VARIABLES
    registered,   \* fcm_tokens
    pushIds,      \* rows created so far
    reading,      \* local: a registration and the row ids it has read, 0 is none
    promised      \* history: registrations that succeeded with no other in
                  \* flight, and that nothing has replaced or removed

pushVars == <<registered, pushIds, reading, promised>>

Idle    == [owner |-> Nobody, alone |-> FALSE]
Reading == [owner : Owners, alone : BOOLEAN, data : PushData,
            byToken : 0..MaxPushRows, byDevice : 0..MaxPushRows]
Registering == {"byDevice", "write"}

PushTypeOK ==
    /\ pc \in [Requests -> Registering \cup {"idle"}]
    /\ faults \in 0..MaxFaults
    /\ registered \subseteq PushRow
    /\ \A x, y \in registered : x # y =>
          /\ x.id # y.id /\ x.data.token # y.data.token
          /\ <<x.data.owner, x.data.device>> # <<y.data.owner, y.data.device>>
    /\ pushIds \in 0..MaxPushRows
    /\ reading \in [Requests -> Reading \cup {Idle}]
    /\ promised \subseteq PushData

PushInit ==
    /\ HandlersInit
    /\ registered = {} /\ pushIds = 0 /\ promised = {}
    /\ reading = [r \in Requests |-> Idle]

SameDevice(d, e) == d.owner = e.owner /\ d.device = e.device
IdOf(S) == IF S = {} THEN 0 ELSE (CHOOSE x \in S : TRUE).id

ReadByToken(r, d) ==
    /\ Goto(r, "idle", "byDevice")
    /\ reading' = [q \in Requests |-> IF q # r THEN [reading[q] EXCEPT !.alone = FALSE] ELSE
          [owner |-> d.owner, alone |-> At(Registering) = {}, data |-> d, byDevice |-> 0,
           byToken |-> IdOf({x \in registered : x.data.token = d.token})]]
    /\ UNCHANGED <<registered, pushIds, promised, faults>>

ReadByDevice(r) ==
    /\ Goto(r, "byDevice", "write")
    /\ reading' = [reading EXCEPT ![r].byDevice =
          IdOf({x \in registered : SameDevice(x.data, reading[r].data)})]
    /\ UNCHANGED <<registered, pushIds, promised, faults>>

(* The token's row is kept before the device's, and takes all the data,    *)
(* unless it was read as this device's already; without either a row is    *)
(* created.                                                                *)
Kept(c) == IF c.byToken # 0 THEN c.byToken
           ELSE IF c.byDevice # 0 THEN c.byDevice ELSE pushIds + 1

Dropped(c) == {c.byDevice} \ {0, Kept(c)}

Synced(c)  == c.byToken # 0 /\ c.byToken = c.byDevice

Written(c) ==
    IF Synced(c) THEN registered ELSE
    {x \in registered : x.id \notin Dropped(c) \cup {Kept(c)}}
        \cup {[id |-> Kept(c), data |-> c.data]}

Touched(c) == ({Kept(c)} \cup Dropped(c)) \ {pushIds + 1}

BugSucceedsWithoutIndex(c) == Touched(c) \subseteq {x.id : x \in registered}

Succeeds(c) ==
    /\ Touched(c) \subseteq {x.id : x \in registered}
    /\ \A x, y \in Written(c) : x # y =>
          /\ x.data.token # y.data.token
          /\ ~SameDevice(x.data, y.data)

Commit(r) ==
    LET c == reading[r] IN
    /\ Kept(c) <= MaxPushRows /\ Succeeds(c)
    /\ registered' = Written(c)
    /\ pushIds' = IF Kept(c) > pushIds THEN Kept(c) ELSE pushIds
    /\ promised' =
          {d \in promised : d.token # c.data.token /\ ~SameDevice(d, c.data)}
             \cup IF c.alone THEN {c.data} ELSE {}

WriteToken(r) ==
    /\ Goto(r, "write", "idle")
    /\ reading' = [reading EXCEPT ![r] = Idle]
    /\ \/ Commit(r)
       \/ ~Succeeds(reading[r]) /\ UNCHANGED <<registered, pushIds, promised>>
    /\ UNCHANGED faults

DeletePush(S, P) ==
    /\ S # {}
    /\ registered' = registered \ S
    /\ promised' = promised \ P
    /\ UNCHANGED <<pushIds, reading, pc, faults>>

BugRemoveAnyOwner(u, t) ==
    DeletePush({x \in registered : x.data.token = t},
               {d \in promised : d.owner = u /\ d.token = t})

(* Only the caller's own token. *)
RemoveToken(u, t) ==
    DeletePush({x \in registered : x.data.owner = u /\ x.data.token = t},
               {d \in promised : d.owner = u /\ d.token = t})

(* Every sweep of a user's sessions ends with it. *)
SweepTokens(u) ==
    DeletePush({x \in registered : x.data.owner = u}, {d \in promised : d.owner = u})

PushDies(r) ==
    /\ Die(r)
    /\ reading' = [reading EXCEPT ![r] = Idle]
    /\ UNCHANGED <<registered, pushIds, promised>>

PushNext ==
    \/ \E u \in Owners : SweepTokens(u) \/ \E t \in Tokens : RemoveToken(u, t)
    \/ \E r \in Requests :
         \/ \E d \in PushData : ReadByToken(r, d)
         \/ ReadByDevice(r) \/ WriteToken(r) \/ PushDies(r)

PushSpec == PushInit /\ [][PushNext]_<<pc, faults, pushVars>>

-------------------------------------------------------------------------------
(* A registration that succeeded keeps its row, with its owner and its     *)
(* device, until the same device or the same token registers again, or the *)
(* owner removes it or is swept; unless another registration was in flight *)
(* beside it, which may then write over the row it had read                *)
(* (register-fcm-token.service.ts:25-61).                                  *)
RegistrationsStay ==
    \A d \in promised : \E x \in registered : x.data = d
===============================================================================

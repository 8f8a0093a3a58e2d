------------------------------- MODULE OtpProofs -------------------------------
(***************************************************************************)
(* Theorems about OtpSession, for any requests, limits and bounds: what    *)
(* accepts a send twice, what lets a code be guessed more often than its   *)
(* limit, which record can come back, and what the throttle has counted.   *)
(***************************************************************************)
EXTENDS OtpSession, FiniteSetTheorems, TLAPS

(* Every message that is going to be sent has its number. *)
Pending == {q \in Requests : pc[q] \in Issuing /\ mine[q] = 0}

DispatchesFit == sent + Cardinality(Pending) <= MaxDispatch

(* What a handler has read, sent and counted when it comes to a label. *)
Holding == Verifying \cup {"winIndex", "capIndex", "destroySession", "destroyIndex"}
Storing == {"setSession", "setIndex", "setThrottle"}

Fits(label, h, s, c, m, made) ==
    /\ IF label \in Holding THEN h.send \in 1..made ELSE h = None
    /\ IF label \in Storing THEN m \in 1..made ELSE m = 0
    /\ label = "compare" => h.attempts < maxAttempts
    /\ label \in Storing \cup {"dispatch"} => c < maxSendsPerWindow
    /\ label = "lookup" => s # 0

LocalsFit ==
    \A r \in Requests : Fits(pc[r], held[r], secret[r], count[r], mine[r], sent)

(* Nothing is known of a send that has not been made. *)
SendsAreMade ==
    /\ record.send <= sent /\ (record = None \/ record.send # 0)
    /\ latest <= sent /\ window <= sent
    /\ \A k \in Send : k > sent => wins[k] = 0 /\ failed[k] = 0

(* A send that is not stored yet is nobody's but its sender's. *)
UnstoredIsFresh ==
    /\ \A q, r \in Requests : mine[q] = mine[r] /\ mine[r] # 0 => q = r
    /\ \A r \in Requests : pc[r] = "setSession" =>
          /\ record.send # mine[r] /\ latest # mine[r]
          /\ wins[mine[r]] = 0 /\ failed[mine[r]] = 0
          /\ \A q \in Requests : held[q].send # mine[r]

(* A send whose record no two verifications held together: one handler at  *)
(* most holds it, its counter has counted every wrong code, and once it is *)
(* won, nothing of it is left.                                             *)
Reads(k, r)   == pc[r] \in Verifying /\ held[r].send = k
Winning(k, r) == pc[r] = "winIndex" /\ held[r].send = k

OneReader(k) ==
    \A q, r \in Requests : Reads(k, q) /\ Reads(k, r) => q = r

AllCounted(k) ==
    /\ failed[k] <= maxAttempts
    /\ record.send = k => failed[k] = record.attempts
    /\ \A r \in Requests : Reads(k, r) => failed[k] = held[r].attempts

WonOnce(k) ==
    /\ wins[k] <= 1
    /\ wins[k] = 1 => record.send # k /\ \A r \in Requests : ~Reads(k, r) /\ ~Winning(k, r)
    /\ \A r \in Requests : Winning(k, r) =>
          /\ wins[k] = 0 /\ record.send # k
          /\ \A q \in Requests : ~Reads(k, q) /\ (Winning(k, q) => q = r)

UntangledIsOne ==
    \A k \in Send \ tangled : OneReader(k) /\ AllCounted(k) /\ WonOnce(k)

(* The record of an earlier send in a handler's hands. *)
ReadersAreCrossed ==
    /\ SupersededStaysDead
    /\ \A r \in Requests : pc[r] \in Verifying => held[r].send \in crossed \cup {latest}

DestroyersAreCrossed ==
    /\ LatestCodeWorks
    /\ \A r \in Requests :
          pc[r] \in Verifying \cup {"destroySession"} /\ latest \notin over \cup crossed
          => latest = 0 \/ held[r].send = latest

(* The messages of the window, and the one issue that is under way. *)
IssueCounts(r) ==
    /\ pc[r] \in {"destroySession", "destroyIndex", "getThrottle"} => window <= throttle
    /\ pc[r] = "dispatch" => window <= count[r]
    /\ pc[r] \in Storing => window <= count[r] + 1

IssuesAreCounted ==
    ~loose => /\ \A q, r \in Requests : pc[q] \in Issuing /\ pc[r] \in Issuing => q = r
              /\ (\A r \in Requests : pc[r] \notin Issuing) => window <= throttle
              /\ \A r \in Requests : IssueCounts(r)

OtpInv ==
    /\ TypeOK /\ DispatchesFit /\ LocalsFit /\ SendsAreMade /\ UnstoredIsFresh
    /\ UntangledIsOne /\ ReadersAreCrossed /\ DestroyersAreCrossed /\ IssuesAreCounted

-------------------------------------------------------------------------------
LEMMA Bounds ==
    /\ maxAttempts \in Nat /\ maxSendsPerWindow \in Nat
    /\ MaxDispatch \in Nat /\ MaxFaults \in Nat
  BY OtpAssumption

(* The parts of the invariant. *)
LocalTypes ==
    /\ pc \in [Requests -> Label]
    /\ held \in [Requests -> Record]
    /\ secret \in [Requests -> 0..MaxDispatch]
    /\ count \in [Requests -> 0..maxSendsPerWindow]
    /\ mine \in [Requests -> 0..MaxDispatch]

StoreTypes ==
    /\ record \in Record
    /\ index \subseteq Send /\ cold \subseteq Send
    /\ throttle \in 0..maxSendsPerWindow
    /\ sent \in 0..MaxDispatch
    /\ faults \in 0..MaxFaults
    /\ wins \in [Send -> 0..2]
    /\ failed \in [Send -> 0..maxAttempts + 1]
    /\ latest \in 0..MaxDispatch
    /\ over \subseteq Send /\ tangled \subseteq Send /\ crossed \subseteq Send
    /\ window \in 0..MaxDispatch
    /\ loose \in BOOLEAN

SendInv ==
    /\ SendsAreMade /\ UnstoredIsFresh
    /\ UntangledIsOne /\ ReadersAreCrossed /\ DestroyersAreCrossed

LEMMA InvParts ==
    OtpInv <=> /\ LocalTypes /\ StoreTypes /\ DispatchesFit /\ LocalsFit
               /\ SendInv /\ IssuesAreCounted
<1>1. TypeOK <=> LocalTypes /\ StoreTypes
  BY DEF TypeOK, LocalTypes, StoreTypes
<1>2. QED
  BY <1>1 DEF OtpInv, SendInv

LEMMA NoneFits == None \in Record /\ None.send = 0 /\ None.attempts = 0
  BY Bounds DEF None, Record

LEMMA OtpInitInv == Init => OtpInv
<1> SUFFICES ASSUME Init PROVE OtpInv
  OBVIOUS
<1> USE Bounds, NoneFits DEF Init
<1>1. LocalTypes
  BY DEF LocalTypes, Label
<1>2. StoreTypes
  <2>1. /\ record \in Record /\ throttle \in 0..maxSendsPerWindow /\ sent \in 0..MaxDispatch
        /\ faults \in 0..MaxFaults /\ latest \in 0..MaxDispatch /\ window \in 0..MaxDispatch
    OBVIOUS
  <2>2. wins \in [Send -> 0..2] /\ failed \in [Send -> 0..maxAttempts + 1]
    OBVIOUS
  <2>3. loose \in BOOLEAN /\ index \subseteq Send /\ cold \subseteq Send
        /\ over \subseteq Send /\ tangled \subseteq Send /\ crossed \subseteq Send
    OBVIOUS
  <2>4. QED
    BY <2>1, <2>2, <2>3 DEF StoreTypes
<1>3. DispatchesFit
  <2>1. Pending = {}
    BY DEF Pending, Issuing
  <2>2. Cardinality({}) = 0
    BY FS_EmptySet
  <2>3. Cardinality(Pending) = 0
    BY <2>1, <2>2, Zenon
  <2>4. QED
    BY <2>3 DEF DispatchesFit
<1>4. LocalsFit
  BY DEF LocalsFit, Fits, Holding, Verifying, Storing
<1>5. SendInv
  <2>1. SendsAreMade
    BY DEF SendsAreMade
  <2>2. UnstoredIsFresh
    BY DEF UnstoredIsFresh
  <2>3. UntangledIsOne
    BY DEF UntangledIsOne, OneReader, AllCounted, WonOnce, Reads, Winning, Verifying, Send
  <2>4. ReadersAreCrossed /\ DestroyersAreCrossed
    BY DEF ReadersAreCrossed, DestroyersAreCrossed, SupersededStaysDead, LatestCodeWorks,
           Verifying
  <2>5. QED
    BY <2>1, <2>2, <2>3, <2>4 DEF SendInv
<1>6. IssuesAreCounted
  BY DEF IssuesAreCounted, IssueCounts, Issuing, Storing
<1>7. QED
  BY <1>1, <1>2, <1>3, <1>4, <1>5, <1>6, InvParts

-------------------------------------------------------------------------------
(* A step of one handler, with what it holds after it. *)

Moves(r, from, to, h, s, c, m) ==
    /\ pc[r] = from /\ pc' = [pc EXCEPT ![r] = to]
    /\ held' = [held EXCEPT ![r] = h] /\ secret' = [secret EXCEPT ![r] = s]
    /\ count' = [count EXCEPT ![r] = c] /\ mine' = [mine EXCEPT ![r] = m]

Others(r) ==
    \A q \in Requests \ {r} :
        /\ pc'[q] = pc[q] /\ held'[q] = held[q] /\ secret'[q] = secret[q]
        /\ count'[q] = count[q] /\ mine'[q] = mine[q]

LEMMA MovesAre ==
    ASSUME LocalTypes, NEW r \in Requests, NEW from, NEW to, NEW h, NEW s, NEW c, NEW m,
           Moves(r, from, to, h, s, c, m)
    PROVE  /\ pc'[r] = to /\ held'[r] = h /\ secret'[r] = s /\ count'[r] = c /\ mine'[r] = m
           /\ Others(r)
  BY DEF LocalTypes, Moves, Others

LEMMA LocalsStep ==
    ASSUME LocalTypes, LocalsFit, StoreTypes, NEW r \in Requests,
           NEW from, NEW to \in Label, NEW h \in Record, NEW s \in 0..MaxDispatch,
           NEW c \in 0..maxSendsPerWindow, NEW m \in 0..MaxDispatch,
           Moves(r, from, to, h, s, c, m),
           sent' \in Nat, sent <= sent', Fits(to, h, s, c, m, sent')
    PROVE  LocalTypes' /\ LocalsFit'
<1>1. LocalTypes'
  BY DEF LocalTypes, Moves
<1>2. ASSUME NEW q \in Requests
      PROVE  Fits(pc[q], held[q], secret[q], count[q], mine[q], sent)'
  <2>1. CASE q = r
    BY <2>1, MovesAre DEF Fits
  <2>2. CASE q # r
    <3>1. /\ pc'[q] = pc[q] /\ held'[q] = held[q] /\ secret'[q] = secret[q]
          /\ count'[q] = count[q] /\ mine'[q] = mine[q]
      BY <2>2, MovesAre DEF Others
    <3>2. sent \in Nat
      BY Bounds DEF StoreTypes
    <3>3. Fits(pc[q], held[q], secret[q], count[q], mine[q], sent)
      BY DEF LocalsFit
    <3>4. QED
      BY <3>1, <3>2, <3>3 DEF Fits
  <2>3. QED
    BY <2>1, <2>2
<1>3. QED
  BY <1>1, <1>2 DEF LocalsFit

LEMMA PendingMoves ==
    ASSUME LocalTypes, NEW r \in Requests, NEW from, NEW to, NEW h, NEW s, NEW c, NEW m,
           Moves(r, from, to, h, s, c, m)
    PROVE  /\ Cardinality(Pending) \in Nat /\ Cardinality(Pending)' \in Nat
           /\ Cardinality(Pending)' = Cardinality(Pending)
                 + (IF to \in Issuing /\ m = 0 THEN 1 ELSE 0)
                 - (IF from \in Issuing /\ mine[r] = 0 THEN 1 ELSE 0)
<1>1. IsFiniteSet(Pending)
  BY OtpAssumption, FS_Subset DEF Pending
<1>2. Cardinality(Pending) \in Nat
  BY <1>1, FS_CardinalityType
<1>3. /\ Pending' = (IF to \in Issuing /\ m = 0 THEN Pending \cup {r} ELSE Pending \ {r})
      /\ r \in Pending <=> (from \in Issuing /\ mine[r] = 0)
  <2>1. /\ pc'[r] = to /\ mine'[r] = m /\ pc[r] = from
        /\ \A q \in Requests : q # r => pc'[q] = pc[q] /\ mine'[q] = mine[q]
    <3>1. pc'[r] = to /\ mine'[r] = m /\ Others(r)
      BY MovesAre
    <3>2. QED
      BY <3>1 DEF Others, Moves
  <2>2. r \in Pending' <=> (to \in Issuing /\ m = 0)
    BY <2>1 DEF Pending
  <2>3. \A q \in Requests : q # r => (q \in Pending' <=> q \in Pending)
    BY <2>1 DEF Pending
  <2>4. Pending \subseteq Requests /\ Pending' \subseteq Requests
    BY DEF Pending
  <2>5. r \in Pending <=> (from \in Issuing /\ mine[r] = 0)
    BY <2>1 DEF Pending
  <2>6. CASE to \in Issuing /\ m = 0
    BY <2>2, <2>3, <2>4, <2>5, <2>6
  <2>7. CASE ~(to \in Issuing /\ m = 0)
    BY <2>2, <2>3, <2>4, <2>5, <2>7
  <2>8. QED
    BY <2>6, <2>7
<1>4. /\ Cardinality(Pending \cup {r}) =
           IF r \in Pending THEN Cardinality(Pending) ELSE Cardinality(Pending) + 1
      /\ Cardinality(Pending \ {r}) =
           IF r \in Pending THEN Cardinality(Pending) - 1 ELSE Cardinality(Pending)
  BY <1>1, FS_AddElement, FS_RemoveElement
<1>5. IsFiniteSet(Pending') /\ Cardinality(Pending)' = Cardinality(Pending')
  BY OtpAssumption, FS_Subset DEF Pending
<1>6. Cardinality(Pending') \in Nat
  BY <1>5, FS_CardinalityType
<1>7. CASE to \in Issuing /\ m = 0
  BY <1>2, <1>3, <1>4, <1>5, <1>6, <1>7
<1>8. CASE ~(to \in Issuing /\ m = 0)
  BY <1>2, <1>3, <1>4, <1>5, <1>6, <1>8
<1>9. QED
  BY <1>7, <1>8

(* A step that starts no issue keeps the bound on messages. *)
LEMMA DispatchesKept ==
    ASSUME LocalTypes, StoreTypes, DispatchesFit, NEW r \in Requests,
           NEW from, NEW to, NEW h, NEW s, NEW c, NEW m,
           Moves(r, from, to, h, s, c, m), UNCHANGED sent,
           to \in Issuing /\ m = 0 => from \in Issuing /\ mine[r] = 0
    PROVE  DispatchesFit'
<1>1. sent \in Nat
  BY Bounds DEF StoreTypes
<1>2. QED
  BY <1>1, PendingMoves, Bounds DEF DispatchesFit

(* An issue begins only when there is room for its message. *)
LEMMA DispatchesBegin ==
    ASSUME LocalTypes, StoreTypes, NEW r \in Requests,
           NEW from, NEW to, NEW h, NEW s, NEW c, NEW m,
           Moves(r, from, to, h, s, c, m), UNCHANGED sent, MayDispatch
    PROVE  DispatchesFit'
<1>1. sent \in Nat
  BY Bounds DEF StoreTypes
<1>2. sent + Cardinality(Pending) < MaxDispatch
  BY DEF MayDispatch, Pending
<1>3. QED
  BY <1>1, <1>2, PendingMoves, Bounds DEF DispatchesFit
-------------------------------------------------------------------------------
(* Steps that neither verify a secret nor store a send: they drop the      *)
(* record or leave it, and no handler starts to hold it but to destroy it. *)
Rests ==
    /\ \A q \in Requests :
          /\ pc'[q] \in Verifying \cup {"winIndex", "setSession"} =>
                pc'[q] = pc[q] /\ held'[q] = held[q] /\ mine'[q] = mine[q]
          /\ pc'[q] = "destroySession" =>
                held'[q] = record \/ (pc[q] = "destroySession" /\ held'[q] = held[q])
          /\ held'[q].send \in {0, held[q].send, record.send}
          /\ mine'[q] \in {0, mine[q]}
    /\ record' \in {None, record}
    /\ latest # 0 /\ latest \notin over' \cup crossed => record' = record
    /\ UNCHANGED <<sent, wins, failed, tangled, latest, crossed>>
    /\ over \subseteq over' /\ window' \in {0, window}

LEMMA NumbersAre ==
    ASSUME LocalTypes, StoreTypes
    PROVE  /\ sent \in Nat /\ latest \in Nat /\ window \in Nat /\ record.send \in Nat
           /\ record.attempts \in Nat
           /\ \A k \in Send : k \in Nat /\ k # 0 /\ wins[k] \in 0..2 /\ failed[k] \in Nat
           /\ \A r \in Requests : held[r].send \in Nat /\ mine[r] \in Nat /\ held[r].attempts \in Nat
  BY Bounds DEF LocalTypes, StoreTypes, Record, Send

LEMMA SendingIsFit ==
    ASSUME LocalTypes, StoreTypes, LocalsFit, NEW r \in Requests, pc[r] = "setSession"
    PROVE  mine[r] \in Send /\ mine[r] # 0 /\ mine[r] <= sent
<1>1. mine[r] \in 1..sent /\ sent \in 0..MaxDispatch
  BY DEF LocalsFit, Fits, Storing, StoreTypes
<1>2. QED
  BY <1>1, Bounds DEF Send

LEMMA RestsKeep ==
    ASSUME OtpInv, Rests
    PROVE  SendInv'
<1> USE NoneFits
<1>0. LocalTypes /\ StoreTypes /\ LocalsFit /\ SendInv
  BY InvParts
<1>1. SendsAreMade'
  BY <1>0, NumbersAre DEF Rests, SendsAreMade, SendInv
<1>2. UnstoredIsFresh'
  <2>1. \A q, r \in Requests : mine'[q] = mine'[r] /\ mine'[r] # 0 => q = r
    BY <1>0 DEF Rests, UnstoredIsFresh, SendInv
  <2>2. ASSUME NEW r \in Requests, pc'[r] = "setSession"
        PROVE  /\ record'.send # mine'[r] /\ latest' # mine'[r]
               /\ wins'[mine'[r]] = 0 /\ failed'[mine'[r]] = 0
               /\ \A q \in Requests : held'[q].send # mine'[r]
    <3>1. pc[r] = "setSession" /\ mine'[r] = mine[r] /\ mine[r] # 0
      BY <1>0, <2>2, SendingIsFit DEF Rests
    <3>2. QED
      BY <1>0, <3>1 DEF Rests, UnstoredIsFresh, SendInv
  <2>3. QED
    BY <2>1, <2>2 DEF UnstoredIsFresh
<1>3. UntangledIsOne'
  <2>1. ASSUME NEW k \in Send \ tangled
        PROVE  OneReader(k)' /\ AllCounted(k)' /\ WonOnce(k)'
    <3>1. OneReader(k) /\ AllCounted(k) /\ WonOnce(k) /\ k # 0
      BY <1>0, NumbersAre DEF SendInv, UntangledIsOne
    <3>2. ASSUME NEW q \in Requests
          PROVE  /\ Reads(k, q)' => Reads(k, q) /\ held'[q] = held[q]
                 /\ Winning(k, q)' => Winning(k, q)
      BY DEF Rests, Reads, Winning
    <3>3. OneReader(k)'
      BY <3>1, <3>2 DEF OneReader
    <3>4. AllCounted(k)'
      BY <3>1, <3>2 DEF Rests, AllCounted
    <3>5. WonOnce(k)'
      BY <3>1, <3>2 DEF Rests, WonOnce
    <3>6. QED
      BY <3>3, <3>4, <3>5
  <2>2. QED
    BY <2>1 DEF UntangledIsOne, Rests
<1>4. ReadersAreCrossed'
  BY <1>0 DEF Rests, SendInv, ReadersAreCrossed, SupersededStaysDead
<1>5. DestroyersAreCrossed'
  <2>1. LatestCodeWorks'
    BY <1>0 DEF Rests, SendInv, DestroyersAreCrossed, LatestCodeWorks
  <2>2. ASSUME NEW r \in Requests, pc'[r] \in Verifying \cup {"destroySession"},
               latest' \notin over' \cup crossed'
        PROVE  latest' = 0 \/ held'[r].send = latest'
    <3>1. /\ latest' = latest /\ latest \notin over \cup crossed
          /\ \/ pc[r] \in Verifying \cup {"destroySession"} /\ held'[r] = held[r]
             \/ held'[r] = record
      BY <2>2 DEF Rests
    <3>2. QED
      BY <1>0, <3>1 DEF SendInv, DestroyersAreCrossed, LatestCodeWorks
  <2>3. QED
    BY <2>1, <2>2 DEF DestroyersAreCrossed
<1>6. QED
  BY <1>1, <1>2, <1>3, <1>4, <1>5 DEF SendInv

-------------------------------------------------------------------------------
(* Steps of a verification. *)

(* A handler takes the record to verify a secret. *)
Takes(r) ==
    /\ Others(r) /\ pc[r] \notin Verifying \cup {"winIndex"} /\ record.send # 0
    /\ pc'[r] \in Verifying /\ held'[r] = record /\ mine'[r] = mine[r]
    /\ tangled' = tangled \cup ({record.send} \cap HeldBy(r, Verifying))
    /\ UNCHANGED <<record, sent, wins, failed, latest, over, crossed, window>>

LEMMA TakesKeeps ==
    ASSUME OtpInv, NEW r \in Requests, Takes(r)
    PROVE  SendInv'
<1>0. LocalTypes /\ StoreTypes /\ LocalsFit /\ SendInv
  BY InvParts
<1>1. SendsAreMade'
  BY <1>0 DEF Takes, SendsAreMade, SendInv
<1>2. \A q \in Requests : q # r =>
         pc'[q] = pc[q] /\ held'[q] = held[q] /\ mine'[q] = mine[q]
  BY DEF Takes, Others
<1>3. UnstoredIsFresh'
  <2>1. \A q \in Requests : mine'[q] = mine[q] /\ held'[q].send \in {held[q].send, record.send}
    BY <1>2 DEF Takes
  <2>2. \A q \in Requests : pc'[q] = "setSession" => pc[q] = "setSession"
    BY <1>2 DEF Takes, Verifying
  <2>3. QED
    BY <1>0, <2>1, <2>2 DEF Takes, UnstoredIsFresh, SendInv
<1>4. UntangledIsOne'
  <2>1. ASSUME NEW k \in Send \ tangled'
        PROVE  OneReader(k)' /\ AllCounted(k)' /\ WonOnce(k)'
    <3>1. OneReader(k) /\ AllCounted(k) /\ WonOnce(k)
      BY <1>0, <2>1 DEF SendInv, UntangledIsOne, Takes
    <3>2. ~Reads(k, r) /\ ~Winning(k, r) /\ ~Winning(k, r)'
      BY DEF Takes, Reads, Winning, Verifying
    <3>3. \A q \in Requests : q # r => /\ Reads(k, q)' <=> Reads(k, q)
                                       /\ Winning(k, q)' <=> Winning(k, q)
                                       /\ held'[q] = held[q]
      BY <1>2 DEF Reads, Winning
    <3>4. CASE k = record.send
      <4>1. \A q \in Requests : ~Reads(k, q)
        BY <2>1, <3>2, <3>4 DEF Takes, HeldBy, Reads
      <4>2. \A q \in Requests : ~Winning(k, q)
        BY <3>1, <3>4 DEF WonOnce
      <4>3. \A q \in Requests : Reads(k, q)' => q = r
        BY <3>3, <4>1
      <4>4. wins[k] = 0
        BY <1>0, <3>1, <3>4, NumbersAre DEF WonOnce
      <4>5. AllCounted(k)'
        BY <3>1, <3>4, <4>3 DEF AllCounted, Takes
      <4>6. OneReader(k)' /\ WonOnce(k)'
        BY <3>2, <3>3, <4>2, <4>3, <4>4 DEF OneReader, WonOnce, Takes
      <4>7. QED
        BY <4>5, <4>6
    <3>5. CASE k # record.send
      <4>1. ~Reads(k, r)'
        BY <3>5 DEF Takes, Reads
      <4>2. \A q \in Requests : /\ Reads(k, q)' => Reads(k, q) /\ held'[q] = held[q]
                                /\ Winning(k, q)' => Winning(k, q)
        BY <3>2, <3>3, <4>1
      <4>3. QED
        BY <3>1, <4>2 DEF OneReader, AllCounted, WonOnce, Takes
    <3>6. QED
      BY <3>4, <3>5
  <2>2. QED
    BY <2>1 DEF UntangledIsOne
<1>5. ReadersAreCrossed'
  <2>2. record.send \in crossed \cup {latest}
    BY <1>0 DEF Takes, SendInv, ReadersAreCrossed, SupersededStaysDead
  <2>3. QED
    BY <1>0, <1>2, <2>2 DEF Takes, SendInv, ReadersAreCrossed, SupersededStaysDead
<1>6. DestroyersAreCrossed'
  BY <1>0, <1>2 DEF Takes, SendInv, DestroyersAreCrossed, LatestCodeWorks
<1>7. QED
  BY <1>1, <1>3, <1>4, <1>5, <1>6 DEF SendInv

(* The right code or link: destroy(record) begins. *)
Accepts(r) ==
    /\ Others(r) /\ pc[r] \in Verifying
    /\ pc'[r] = "winIndex" /\ held'[r] = held[r] /\ mine'[r] = mine[r]
    /\ record' = None /\ over' = over \cup {held[r].send}
    /\ UNCHANGED <<sent, wins, failed, tangled, latest, crossed, window>>

LEMMA AcceptsKeeps ==
    ASSUME OtpInv, NEW r \in Requests, Accepts(r)
    PROVE  SendInv'
<1> USE NoneFits
<1>0. LocalTypes /\ StoreTypes /\ LocalsFit /\ SendInv
  BY InvParts
<1>1. SendsAreMade'
  BY <1>0, NumbersAre DEF Accepts, SendsAreMade, SendInv
<1>2. \A q \in Requests :
         /\ q # r => pc'[q] = pc[q]
         /\ held'[q] = held[q] /\ mine'[q] = mine[q]
  BY DEF Accepts, Others
<1>3. UnstoredIsFresh'
  <2>1. \A q \in Requests : pc'[q] = "setSession" => pc[q] = "setSession" /\ mine[q] # 0
    BY <1>0, <1>2, SendingIsFit DEF Accepts
  <2>2. QED
    BY <1>0, <1>2, <2>1 DEF Accepts, UnstoredIsFresh, SendInv
<1>4. UntangledIsOne'
  <2>1. ASSUME NEW k \in Send \ tangled
        PROVE  OneReader(k)' /\ AllCounted(k)' /\ WonOnce(k)'
    <3>1. OneReader(k) /\ AllCounted(k) /\ WonOnce(k) /\ k # 0
      BY <1>0, NumbersAre DEF SendInv, UntangledIsOne
    <3>2. ~Reads(k, r)' /\ ~Winning(k, r)
      BY DEF Accepts, Reads, Winning, Verifying
    <3>3. \A q \in Requests : q # r => /\ Reads(k, q)' <=> Reads(k, q)
                                       /\ Winning(k, q)' <=> Winning(k, q)
      BY <1>2 DEF Reads, Winning
    <3>4. OneReader(k)' /\ AllCounted(k)'
      BY <1>2, <3>1, <3>2, <3>3 DEF OneReader, AllCounted, Accepts
    <3>5. CASE held[r].send = k
      <4>1. Reads(k, r) /\ Winning(k, r)'
        BY <3>5 DEF Accepts, Reads, Winning
      <4>2. wins[k] = 0 /\ \A q \in Requests : ~Winning(k, q)
        BY <1>0, <3>1, <4>1, NumbersAre DEF WonOnce
      <4>3. \A q \in Requests : ~Reads(k, q)' /\ (Winning(k, q)' => q = r)
        BY <3>1, <3>2, <3>3, <4>1, <4>2 DEF OneReader
      <4>4. QED
        BY <3>1, <3>4, <4>2, <4>3 DEF WonOnce, Accepts
    <3>6. CASE held[r].send # k
      <4>1. ~Winning(k, r)'
        BY <1>2, <3>6 DEF Winning
      <4>2. QED
        BY <3>1, <3>2, <3>3, <3>4, <4>1 DEF WonOnce, Accepts
    <3>7. QED
      BY <3>5, <3>6
  <2>2. QED
    BY <2>1 DEF UntangledIsOne, Accepts
<1>5. ReadersAreCrossed'
  <2>1. \A q \in Requests : pc'[q] \in Verifying => pc[q] \in Verifying
    BY <1>2 DEF Accepts
  <2>2. QED
    BY <1>0, <1>2, <2>1 DEF Accepts, SendInv, ReadersAreCrossed, SupersededStaysDead
<1>6. DestroyersAreCrossed'
  <2>1. \A q \in Requests : pc'[q] \in Verifying \cup {"destroySession"} =>
           pc[q] \in Verifying \cup {"destroySession"}
    BY <1>2 DEF Accepts
  <2>2. LatestCodeWorks'
    BY <1>0 DEF Accepts, SendInv, DestroyersAreCrossed, LatestCodeWorks
  <2>3. QED
    BY <1>0, <1>2, <2>1, <2>2 DEF Accepts, SendInv, DestroyersAreCrossed
<1>7. QED
  BY <1>1, <1>3, <1>4, <1>5, <1>6 DEF SendInv

(* What a verification has read is the record of a send that was made. *)
LEMMA HeldIsMade ==
    ASSUME LocalTypes, StoreTypes, LocalsFit, NEW r \in Requests, pc[r] \in Holding
    PROVE  held[r].send \in Send /\ held[r].send # 0 /\ held[r].send <= sent
<1>1. held[r].send \in 1..sent /\ sent \in 0..MaxDispatch
  BY DEF LocalsFit, Fits, StoreTypes
<1>2. QED
  BY <1>1, Bounds DEF Send

LEMMA HeldIsOld ==
    ASSUME LocalTypes, StoreTypes, LocalsFit, NEW r \in Requests
    PROVE  held[r].send <= sent /\ mine[r] <= sent
<1>1. held[r].send \in 1..sent \/ held[r].send = 0
  BY NoneFits DEF LocalsFit, Fits
<1>2. mine[r] \in 1..sent \/ mine[r] = 0
  BY DEF LocalsFit, Fits
<1>3. QED
  BY <1>1, <1>2, NumbersAre

(* A wrong code: the record as read, with one attempt more, is put back. *)
Rejects(r) ==
    /\ Others(r) /\ pc[r] = "compare"
    /\ pc'[r] = "idle" /\ held'[r] = None /\ mine'[r] = 0
    /\ record' = [held[r] EXCEPT !.attempts = @ + 1]
    /\ failed' = [failed EXCEPT ![held[r].send] = IF @ > maxAttempts THEN @ ELSE @ + 1]
    /\ UNCHANGED <<sent, wins, latest, over, tangled, crossed, window>>

LEMMA RejectsKeeps ==
    ASSUME OtpInv, NEW r \in Requests, Rejects(r)
    PROVE  SendInv'
<1> USE NoneFits
<1>0. LocalTypes /\ StoreTypes /\ LocalsFit /\ SendInv
  BY InvParts
<1>1. PICK j \in Send : j = held[r].send /\ j # 0 /\ j <= sent
  BY <1>0, HeldIsMade DEF Rejects, Holding, Verifying
<1>2. record'.send = j /\ record'.attempts = held[r].attempts + 1
  BY <1>0, <1>1 DEF Rejects, LocalTypes, Record
<1>3. /\ failed'[j] = IF failed[j] > maxAttempts THEN failed[j] ELSE failed[j] + 1
      /\ \A k \in Send : k # j => failed'[k] = failed[k]
  BY <1>0, <1>1 DEF Rejects, StoreTypes
<1>4. \A q \in Requests :
         /\ q # r => pc'[q] = pc[q] /\ held'[q] = held[q] /\ mine'[q] = mine[q]
         /\ held'[q] \in {None, held[q]} /\ mine'[q] \in {0, mine[q]}
         /\ pc'[q] # "idle" => q # r
  BY DEF Rejects, Others
<1>5. SendsAreMade'
  BY <1>0, <1>1, <1>2, <1>3, NumbersAre DEF Rejects, SendsAreMade, SendInv
<1>6. UnstoredIsFresh'
  <2>1. \A q, p \in Requests : mine'[q] = mine'[p] /\ mine'[p] # 0 => q = p
    BY <1>0, <1>4 DEF UnstoredIsFresh, SendInv
  <2>2. ASSUME NEW p \in Requests, pc'[p] = "setSession"
        PROVE  /\ record'.send # mine'[p] /\ latest' # mine'[p]
               /\ wins'[mine'[p]] = 0 /\ failed'[mine'[p]] = 0
               /\ \A q \in Requests : held'[q].send # mine'[p]
    <3>1. p # r /\ pc[p] = "setSession" /\ mine'[p] = mine[p] /\ mine[p] # 0 /\ mine[p] \in Send
      BY <1>0, <1>4, <2>2, SendingIsFit
    <3>2. mine[p] # j
      BY <1>0, <1>1, <3>1 DEF UnstoredIsFresh, SendInv
    <3>3. QED
      BY <1>0, <1>2, <1>3, <1>4, <3>1, <3>2 DEF Rejects, UnstoredIsFresh, SendInv
  <2>3. QED
    BY <2>1, <2>2 DEF UnstoredIsFresh
<1>7. UntangledIsOne'
  <2>1. ASSUME NEW k \in Send \ tangled
        PROVE  OneReader(k)' /\ AllCounted(k)' /\ WonOnce(k)'
    <3>1. OneReader(k) /\ AllCounted(k) /\ WonOnce(k)
      BY <1>0 DEF SendInv, UntangledIsOne
    <3>2. \A q \in Requests : /\ Reads(k, q)' => Reads(k, q) /\ q # r /\ held'[q] = held[q]
                              /\ Winning(k, q)' => Winning(k, q)
      BY <1>4 DEF Reads, Winning, Verifying
    <3>3. CASE k = j
      <4>1. Reads(k, r)
        BY <1>1, <3>3 DEF Rejects, Reads, Verifying
      <4>2. \A q \in Requests : ~Reads(k, q)' /\ ~Winning(k, q)'
        BY <3>1, <3>2, <4>1 DEF OneReader, WonOnce
      <4>3. wins[k] = 0
        BY <1>0, <3>1, <4>1, NumbersAre DEF WonOnce
      <4>4. failed[k] = held[r].attempts /\ held[r].attempts < maxAttempts
        <5>1. held[r].attempts < maxAttempts
          BY <1>0 DEF Rejects, LocalsFit, Fits
        <5>2. QED
          BY <3>1, <4>1, <5>1 DEF AllCounted
      <4>5. AllCounted(k)'
        BY <1>0, <1>2, <1>3, <3>3, <4>2, <4>4, Bounds, NumbersAre DEF AllCounted
      <4>6. QED
        BY <4>2, <4>3, <4>5 DEF OneReader, WonOnce, Rejects
    <3>4. CASE k # j
      BY <1>2, <1>3, <3>1, <3>2, <3>4 DEF OneReader, AllCounted, WonOnce, Rejects
    <3>5. QED
      BY <3>3, <3>4
  <2>2. QED
    BY <2>1 DEF UntangledIsOne, Rejects
<1>8. ReadersAreCrossed'
  <2>1. j \in crossed \cup {latest}
    BY <1>0, <1>1 DEF Rejects, SendInv, ReadersAreCrossed, Verifying
  <2>2. \A q \in Requests : pc'[q] \in Verifying => pc[q] \in Verifying /\ held'[q] = held[q]
    BY <1>4 DEF Verifying
  <2>3. QED
    BY <1>0, <1>2, <2>1, <2>2 DEF Rejects, SendInv, ReadersAreCrossed, SupersededStaysDead
<1>9. DestroyersAreCrossed'
  <2>1. latest \notin over \cup crossed => latest = 0 \/ j = latest
    BY <1>0, <1>1 DEF Rejects, SendInv, DestroyersAreCrossed, Verifying
  <2>2. \A q \in Requests : pc'[q] \in Verifying \cup {"destroySession"} =>
           pc[q] \in Verifying \cup {"destroySession"} /\ held'[q] = held[q]
    BY <1>4 DEF Verifying
  <2>3. LatestCodeWorks'
    BY <1>2, <2>1 DEF Rejects, LatestCodeWorks
  <2>4. QED
    BY <1>0, <2>2, <2>3 DEF Rejects, SendInv, DestroyersAreCrossed
<1>10. QED
  BY <1>5, <1>6, <1>7, <1>8, <1>9 DEF SendInv

(* The caller learns that its code or link was accepted. *)
Wins(r) ==
    /\ Others(r) /\ pc[r] = "winIndex"
    /\ pc'[r] = "idle" /\ held'[r] = None /\ mine'[r] = 0
    /\ wins' = [wins EXCEPT ![held[r].send] = IF @ = 2 THEN 2 ELSE @ + 1]
    /\ UNCHANGED <<record, sent, failed, latest, over, tangled, crossed, window>>

LEMMA WinsKeeps ==
    ASSUME OtpInv, NEW r \in Requests, Wins(r)
    PROVE  SendInv'
<1> USE NoneFits
<1>0. LocalTypes /\ StoreTypes /\ LocalsFit /\ SendInv
  BY InvParts
<1>1. PICK j \in Send : j = held[r].send /\ j # 0 /\ j <= sent
  BY <1>0, HeldIsMade DEF Wins, Holding
<1>2. /\ wins'[j] = IF wins[j] = 2 THEN 2 ELSE wins[j] + 1
      /\ \A k \in Send : k # j => wins'[k] = wins[k]
  BY <1>0, <1>1 DEF Wins, StoreTypes
<1>3. \A q \in Requests :
         /\ q # r => pc'[q] = pc[q] /\ held'[q] = held[q] /\ mine'[q] = mine[q]
         /\ held'[q] \in {None, held[q]} /\ mine'[q] \in {0, mine[q]}
         /\ pc'[q] # "idle" => q # r
  BY DEF Wins, Others
<1>4. SendsAreMade'
  BY <1>0, <1>1, <1>2, NumbersAre DEF Wins, SendsAreMade, SendInv
<1>5. UnstoredIsFresh'
  <2>1. \A q, p \in Requests : mine'[q] = mine'[p] /\ mine'[p] # 0 => q = p
    BY <1>0, <1>3 DEF UnstoredIsFresh, SendInv
  <2>2. ASSUME NEW p \in Requests, pc'[p] = "setSession"
        PROVE  /\ record'.send # mine'[p] /\ latest' # mine'[p]
               /\ wins'[mine'[p]] = 0 /\ failed'[mine'[p]] = 0
               /\ \A q \in Requests : held'[q].send # mine'[p]
    <3>1. p # r /\ pc[p] = "setSession" /\ mine'[p] = mine[p] /\ mine[p] # 0 /\ mine[p] \in Send
      BY <1>0, <1>3, <2>2, SendingIsFit
    <3>2. mine[p] # j
      BY <1>0, <1>1, <3>1 DEF UnstoredIsFresh, SendInv
    <3>3. QED
      BY <1>0, <1>2, <1>3, <3>1, <3>2 DEF Wins, UnstoredIsFresh, SendInv
  <2>3. QED
    BY <2>1, <2>2 DEF UnstoredIsFresh
<1>6. UntangledIsOne'
  <2>1. ASSUME NEW k \in Send \ tangled
        PROVE  OneReader(k)' /\ AllCounted(k)' /\ WonOnce(k)'
    <3>1. OneReader(k) /\ AllCounted(k) /\ WonOnce(k)
      BY <1>0 DEF SendInv, UntangledIsOne
    <3>2. \A q \in Requests : /\ Reads(k, q)' => Reads(k, q) /\ held'[q] = held[q]
                              /\ Winning(k, q)' => Winning(k, q) /\ q # r
      BY <1>3 DEF Reads, Winning, Verifying
    <3>3. OneReader(k)' /\ AllCounted(k)'
      BY <3>1, <3>2 DEF OneReader, AllCounted, Wins
    <3>4. CASE k = j
      <4>1. Winning(k, r)
        BY <1>1, <3>4 DEF Wins, Winning
      <4>2. /\ wins[k] = 0 /\ record.send # k
            /\ \A q \in Requests : ~Reads(k, q)' /\ ~Winning(k, q)'
        BY <3>1, <3>2, <4>1 DEF WonOnce
      <4>3. QED
        BY <1>2, <3>3, <3>4, <4>2 DEF WonOnce, Wins
    <3>5. CASE k # j
      BY <1>2, <3>1, <3>2, <3>3, <3>5 DEF WonOnce, Wins
    <3>6. QED
      BY <3>4, <3>5
  <2>2. QED
    BY <2>1 DEF UntangledIsOne, Wins
<1>7. \A q \in Requests : pc'[q] \in Verifying \cup {"destroySession"} =>
         pc'[q] = pc[q] /\ held'[q] = held[q]
  BY <1>3 DEF Verifying
<1>8. ReadersAreCrossed' /\ DestroyersAreCrossed'
  BY <1>0, <1>7 DEF Wins, SendInv, ReadersAreCrossed, SupersededStaysDead,
     DestroyersAreCrossed, LatestCodeWorks
<1>9. QED
  BY <1>4, <1>5, <1>6, <1>8 DEF SendInv

-------------------------------------------------------------------------------
(* Steps of an issue. *)

(* The message goes out; its hashes are not stored yet. *)
Sends(r) ==
    /\ Others(r) /\ pc[r] = "dispatch"
    /\ pc'[r] = "setSession" /\ held'[r] = None /\ mine'[r] = sent + 1
    /\ sent' = sent + 1 /\ window' = window + 1 /\ sent + 1 \in Send
    /\ crossed \subseteq crossed'
    /\ UNCHANGED <<record, wins, failed, latest, over, tangled>>

LEMMA SendsKeeps ==
    ASSUME OtpInv, NEW r \in Requests, Sends(r)
    PROVE  SendInv'
<1> USE NoneFits
<1>0. LocalTypes /\ StoreTypes /\ LocalsFit /\ SendInv
  BY InvParts
<1>1. \A q \in Requests :
         /\ q # r => pc'[q] = pc[q] /\ held'[q] = held[q] /\ mine'[q] = mine[q]
         /\ held'[q].send <= sent /\ mine[q] <= sent
         /\ held'[q].send \in {held[q].send, 0}
  BY <1>0, HeldIsOld, NumbersAre DEF Sends, Others
<1>2. SendsAreMade'
  BY <1>0, NumbersAre DEF Sends, SendsAreMade, SendInv
<1>3. UnstoredIsFresh'
  <2>1. \A q, p \in Requests : mine'[q] = mine'[p] /\ mine'[p] # 0 => q = p
    BY <1>0, <1>1, NumbersAre DEF Sends, UnstoredIsFresh, SendInv
  <2>2. ASSUME NEW p \in Requests, pc'[p] = "setSession"
        PROVE  /\ record'.send # mine'[p] /\ latest' # mine'[p]
               /\ wins'[mine'[p]] = 0 /\ failed'[mine'[p]] = 0
               /\ \A q \in Requests : held'[q].send # mine'[p]
    <3>1. CASE p = r
      <4>1. wins[sent + 1] = 0 /\ failed[sent + 1] = 0 /\ record.send <= sent /\ latest <= sent
        BY <1>0, NumbersAre DEF Sends, SendsAreMade, SendInv
      <4>2. QED
        BY <1>0, <1>1, <3>1, <4>1, NumbersAre DEF Sends
    <3>2. CASE p # r
      <4>1. pc[p] = "setSession" /\ mine'[p] = mine[p] /\ mine[p] # 0
        BY <1>0, <1>1, <2>2, <3>2, SendingIsFit
      <4>2. QED
        BY <1>0, <1>1, <4>1 DEF Sends, UnstoredIsFresh, SendInv
    <3>3. QED
      BY <3>1, <3>2
  <2>3. QED
    BY <2>1, <2>2 DEF UnstoredIsFresh
<1>4. \A q \in Requests : pc'[q] \in Verifying \cup {"winIndex", "destroySession"} =>
         pc'[q] = pc[q] /\ held'[q] = held[q]
  BY <1>1 DEF Sends, Verifying
<1>5. UntangledIsOne'
  <2>1. ASSUME NEW k \in Send \ tangled
        PROVE  OneReader(k)' /\ AllCounted(k)' /\ WonOnce(k)'
    <3>1. OneReader(k) /\ AllCounted(k) /\ WonOnce(k)
      BY <1>0 DEF SendInv, UntangledIsOne
    <3>2. \A q \in Requests : /\ Reads(k, q)' => Reads(k, q) /\ held'[q] = held[q]
                              /\ Winning(k, q)' => Winning(k, q)
      BY <1>4 DEF Reads, Winning
    <3>3. QED
      BY <3>1, <3>2 DEF OneReader, AllCounted, WonOnce, Sends
  <2>2. QED
    BY <2>1 DEF UntangledIsOne, Sends
<1>6. ReadersAreCrossed' /\ DestroyersAreCrossed'
  BY <1>0, <1>4 DEF Sends, SendInv, ReadersAreCrossed, SupersededStaysDead,
     DestroyersAreCrossed, LatestCodeWorks
<1>7. QED
  BY <1>2, <1>3, <1>5, <1>6 DEF SendInv

(* Its hashes are stored, over whatever is there. *)
StoresSend(r) ==
    LET readers == HeldBy(r, Verifying \cup {"destroySession"}) IN
    /\ Others(r) /\ pc[r] = "setSession"
    /\ pc'[r] = "setIndex" /\ held'[r] = held[r] /\ mine'[r] = mine[r]
    /\ record' = [send |-> mine[r], attempts |-> 0] /\ latest' = mine[r]
    /\ crossed' = crossed \cup readers \cup {k \in {mine[r]} : readers # {}}
    /\ UNCHANGED <<sent, wins, failed, over, tangled, window>>

LEMMA StoresSendKeeps ==
    ASSUME OtpInv, NEW r \in Requests, StoresSend(r)
    PROVE  SendInv'
<1> USE NoneFits
<1>0. LocalTypes /\ StoreTypes /\ LocalsFit /\ SendInv
  BY InvParts
<1> DEFINE readers == HeldBy(r, Verifying \cup {"destroySession"})
<1>1. PICK j \in Send : j = mine[r] /\ j # 0 /\ j <= sent
  BY <1>0, SendingIsFit DEF StoresSend
<1>2. /\ record'.send = j /\ record'.attempts = 0 /\ latest' = j
      /\ crossed \cup readers \subseteq crossed' /\ (readers # {} => j \in crossed')
  BY <1>1 DEF StoresSend
<1>3. \A q \in Requests :
         /\ q # r => pc'[q] = pc[q]
         /\ held'[q] = held[q] /\ mine'[q] = mine[q]
  BY DEF StoresSend, Others
<1>4. /\ wins[j] = 0 /\ failed[j] = 0
      /\ \A q \in Requests : held[q].send # j
  BY <1>0, <1>1 DEF StoresSend, UnstoredIsFresh, SendInv
<1>5. SendsAreMade'
  BY <1>0, <1>1, <1>2, NumbersAre DEF StoresSend, SendsAreMade, SendInv
<1>6. UnstoredIsFresh'
  <2>1. ASSUME NEW p \in Requests, pc'[p] = "setSession"
        PROVE  /\ record'.send # mine'[p] /\ latest' # mine'[p]
               /\ wins'[mine'[p]] = 0 /\ failed'[mine'[p]] = 0
               /\ \A q \in Requests : held'[q].send # mine'[p]
    <3>1. p # r /\ pc[p] = "setSession" /\ mine'[p] = mine[p]
      BY <1>3, <2>1 DEF StoresSend
    <3>2. mine[p] # j
      BY <1>0, <1>1, <3>1 DEF UnstoredIsFresh, SendInv
    <3>3. QED
      BY <1>0, <1>2, <1>3, <3>1, <3>2 DEF StoresSend, UnstoredIsFresh, SendInv
  <2>2. QED
    BY <1>0, <1>3, <2>1 DEF UnstoredIsFresh, SendInv
<1>7. \A q \in Requests : pc'[q] \in Verifying \cup {"winIndex", "destroySession"} =>
         pc'[q] = pc[q] /\ held'[q] = held[q] /\ q # r
  BY <1>3 DEF StoresSend, Verifying
<1>8. UntangledIsOne'
  <2>1. ASSUME NEW k \in Send \ tangled
        PROVE  OneReader(k)' /\ AllCounted(k)' /\ WonOnce(k)'
    <3>1. OneReader(k) /\ AllCounted(k) /\ WonOnce(k)
      BY <1>0 DEF SendInv, UntangledIsOne
    <3>2. \A q \in Requests : /\ Reads(k, q)' => Reads(k, q) /\ held'[q] = held[q]
                              /\ Winning(k, q)' => Winning(k, q)
      BY <1>7 DEF Reads, Winning
    <3>3. CASE k = j
      <4>1. \A q \in Requests : ~Reads(k, q)' /\ ~Winning(k, q)'
        BY <1>4, <3>2, <3>3 DEF Reads, Winning
      <4>2. QED
        BY <1>2, <1>4, <3>1, <3>3, <4>1, Bounds DEF OneReader, AllCounted, WonOnce, StoresSend
    <3>4. CASE k # j
      BY <1>2, <3>1, <3>2, <3>4 DEF OneReader, AllCounted, WonOnce, StoresSend
    <3>5. QED
      BY <3>3, <3>4
  <2>2. QED
    BY <2>1 DEF UntangledIsOne, StoresSend
<1>9. \A q \in Requests : pc'[q] \in Verifying \cup {"destroySession"} => held[q].send \in readers
  BY <1>7 DEF HeldBy
<1>10. ReadersAreCrossed'
  BY <1>2, <1>3, <1>9 DEF ReadersAreCrossed, SupersededStaysDead
<1>11. DestroyersAreCrossed'
  BY <1>2, <1>9 DEF DestroyersAreCrossed, LatestCodeWorks
<1>12. QED
  BY <1>5, <1>6, <1>8, <1>10, <1>11 DEF SendInv

-------------------------------------------------------------------------------
(* The throttle and the one issue under way. *)

LEMMA IssueRests ==
    ASSUME OtpInv, NEW r \in Requests,
           NEW from, NEW to, NEW h, NEW s, NEW c, NEW m, Moves(r, from, to, h, s, c, m),
           from \notin Issuing, to \notin Issuing, UNCHANGED <<throttle, window, loose>>
    PROVE  IssuesAreCounted'
<1>0. LocalTypes /\ IssuesAreCounted
  BY InvParts
<1>1. pc'[r] = to /\ pc[r] = from /\ Others(r)
  BY <1>0, MovesAre DEF Moves
<1>2. \A q \in Requests : /\ q # r => pc'[q] = pc[q] /\ count'[q] = count[q]
                          /\ pc'[q] \in Issuing => q # r
                          /\ pc[q] \in Issuing => q # r
  BY <1>1 DEF Others
<1>3. \A q \in Requests : IssueCounts(q) => IssueCounts(q)'
  BY <1>1, <1>2 DEF IssueCounts, Issuing, Storing
<1>4. QED
  BY <1>0, <1>2, <1>3 DEF IssuesAreCounted

LEMMA IssueMoves ==
    ASSUME OtpInv, NEW r \in Requests,
           NEW from, NEW to, NEW h, NEW s, NEW c, NEW m, Moves(r, from, to, h, s, c, m),
           from \in Issuing, UNCHANGED loose,
           ~loose /\ to \in Issuing => IssueCounts(r)',
           ~loose /\ to \notin Issuing => window' <= throttle'
    PROVE  IssuesAreCounted'
<1>0. LocalTypes /\ IssuesAreCounted
  BY InvParts
<1>1. pc'[r] = to /\ pc[r] = from /\ Others(r)
  BY <1>0, MovesAre DEF Moves
<1>2. SUFFICES ASSUME ~loose PROVE IssuesAreCounted'
  BY DEF IssuesAreCounted
<1>3. \A q \in Requests : q # r => pc[q] \notin Issuing /\ pc'[q] \notin Issuing
  BY <1>0, <1>1, <1>2 DEF IssuesAreCounted, Others
<1>4. \A q \in Requests : q # r => IssueCounts(q)'
  BY <1>3 DEF IssueCounts, Issuing, Storing
<1>5. to \notin Issuing => IssueCounts(r)'
  BY <1>1 DEF IssueCounts, Issuing, Storing
<1>6. QED
  BY <1>1, <1>2, <1>3, <1>4, <1>5 DEF IssuesAreCounted

(* An issue that finds no other one begins in step with the throttle. *)
LEMMA IssueBegins ==
    ASSUME OtpInv, NEW r \in Requests,
           NEW from, NEW to, NEW h, NEW s, NEW c, NEW m, Moves(r, from, to, h, s, c, m),
           from \notin Issuing, to \in {"destroySession", "getThrottle"},
           loose' = (loose \/ \E q \in Requests : pc[q] \in Issuing),
           UNCHANGED <<throttle, window>>
    PROVE  IssuesAreCounted'
<1>0. LocalTypes /\ IssuesAreCounted
  BY InvParts
<1>1. pc'[r] = to /\ pc[r] = from /\ Others(r)
  <2>1. pc'[r] = to /\ Others(r)
    BY <1>0, MovesAre
  <2>2. QED
    BY <2>1 DEF Moves
<1>2. loose' \/ (~loose /\ \A q \in Requests : pc[q] \notin Issuing)
  BY Zenon
<1>3. CASE loose'
  BY <1>3 DEF IssuesAreCounted
<1>4. CASE ~loose /\ \A q \in Requests : pc[q] \notin Issuing
  <2>1. window <= throttle
    BY <1>0, <1>4 DEF IssuesAreCounted
  <2>2. \A q \in Requests : q # r => pc'[q] \notin Issuing
    BY <1>1, <1>4 DEF Others
  <2>3. \A q \in Requests : IssueCounts(q)'
    BY <1>1, <2>1, <2>2 DEF IssueCounts, Issuing, Storing
  <2>4. to \in Issuing
    BY DEF Issuing
  <2>5. QED
    BY <1>1, <2>2, <2>3, <2>4 DEF IssuesAreCounted
<1>5. QED
  BY <1>2, <1>3, <1>4

(* What is left to show of a step of a handler that sends no message. *)
LEMMA StepKeeps ==
    ASSUME OtpInv, NEW r \in Requests,
           NEW from, NEW to \in Label, NEW h \in Record, NEW s \in 0..MaxDispatch,
           NEW c \in 0..maxSendsPerWindow, NEW m \in 0..MaxDispatch,
           Moves(r, from, to, h, s, c, m), UNCHANGED sent, Fits(to, h, s, c, m, sent),
           DispatchesFit', StoreTypes', SendInv', IssuesAreCounted'
    PROVE  OtpInv'
<1>0. LocalTypes /\ StoreTypes /\ LocalsFit
  BY InvParts
<1>1. sent \in Nat
  BY <1>0, NumbersAre
<1>2. LocalTypes' /\ LocalsFit'
  BY <1>0, <1>1, LocalsStep
<1>3. OtpInv' <=> /\ LocalTypes' /\ StoreTypes' /\ DispatchesFit' /\ LocalsFit'
                  /\ SendInv' /\ IssuesAreCounted'
  BY InvParts, PTL
<1>4. QED
  BY <1>2, <1>3

(* What a handler holds, and what it knows of it at its label. *)
LEMMA Own ==
    ASSUME OtpInv, NEW r \in Requests
    PROVE  /\ pc[r] \in Label /\ held[r] \in Record /\ secret[r] \in 0..MaxDispatch
           /\ count[r] \in 0..maxSendsPerWindow /\ mine[r] \in 0..MaxDispatch
           /\ Fits(pc[r], held[r], secret[r], count[r], mine[r], sent)
           /\ LocalTypes /\ StoreTypes /\ SendInv /\ DispatchesFit
<1>1. LocalTypes /\ LocalsFit /\ StoreTypes /\ SendInv /\ DispatchesFit
  BY InvParts
<1>2. QED
  BY <1>1 DEF LocalTypes, LocalsFit

LEMMA RestsStep ==
    ASSUME LocalTypes, NEW r \in Requests,
           NEW from, NEW to, NEW h, NEW s, NEW c, NEW m, Moves(r, from, to, h, s, c, m),
           to \notin Verifying \cup {"winIndex", "setSession"},
           to = "destroySession" => h = record,
           h.send \in {0, held[r].send, record.send}, m \in {0, mine[r]},
           record' \in {None, record},
           latest # 0 /\ latest \notin over' \cup crossed => record' = record,
           UNCHANGED <<sent, wins, failed, tangled, latest, crossed>>,
           over \subseteq over', window' \in {0, window}
    PROVE  Rests
<1>1. pc'[r] = to /\ held'[r] = h /\ mine'[r] = m /\ Others(r)
  BY MovesAre
<1>2. \A q \in Requests : q # r => pc'[q] = pc[q] /\ held'[q] = held[q] /\ mine'[q] = mine[q]
  BY <1>1 DEF Others
<1>3. ASSUME NEW q \in Requests
      PROVE  /\ pc'[q] \in Verifying \cup {"winIndex", "setSession"} =>
                   pc'[q] = pc[q] /\ held'[q] = held[q] /\ mine'[q] = mine[q]
             /\ pc'[q] = "destroySession" =>
                   held'[q] = record \/ (pc[q] = "destroySession" /\ held'[q] = held[q])
             /\ held'[q].send \in {0, held[q].send, record.send}
             /\ mine'[q] \in {0, mine[q]}
  BY <1>1, <1>2
<1>4. QED
  BY <1>3 DEF Rests

(* Deleting what one has read to destroy is no loss of the latest code. *)
LEMMA DestroysItsOwn ==
    ASSUME SendInv, NEW r \in Requests, pc[r] \in Verifying \cup {"destroySession"},
           over' = over \cup {held[r].send}
    PROVE  latest # 0 => latest \in over' \cup crossed
  BY DEF SendInv, DestroyersAreCrossed

LEMMA StoresStay == ASSUME StoreTypes, UNCHANGED <<redis, cold, sent, faults, history>>
                    PROVE  StoreTypes'
  BY DEF StoreTypes, redis, history

-------------------------------------------------------------------------------
(* Each step of a handler. *)

LEMMA DestroySessionKeeps ==
    ASSUME OtpInv, NEW r \in Requests, DestroySession(r)
    PROVE  OtpInv'
<1> USE NoneFits
<1>0. /\ pc[r] = "destroySession" /\ LocalTypes /\ StoreTypes /\ SendInv /\ DispatchesFit
      /\ held[r] \in Record /\ secret[r] \in 0..MaxDispatch
      /\ count[r] \in 0..maxSendsPerWindow /\ mine[r] \in 0..MaxDispatch
      /\ Fits(pc[r], held[r], secret[r], count[r], mine[r], sent)
  BY Own DEF DestroySession, Goto
<1>1. Moves(r, "destroySession", "destroyIndex", held[r], secret[r], count[r], mine[r])
  BY <1>0 DEF DestroySession, Goto, Moves, LocalTypes, locals
<1>2. UNCHANGED sent
  BY DEF DestroySession
<1>3. /\ "destroyIndex" \in Label /\ held[r] \in Record /\ secret[r] \in 0..MaxDispatch
      /\ count[r] \in 0..maxSendsPerWindow /\ mine[r] \in 0..MaxDispatch
  BY <1>0, Bounds DEF Label, Verifying, Issuing, StoreTypes
<1>4. Fits("destroyIndex", held[r], secret[r], count[r], mine[r], sent)
  BY <1>0 DEF DestroySession, Fits, Holding, Verifying, Storing, Goto
<1>5. DispatchesFit'
  <2>1. "destroyIndex" \in Issuing /\ mine[r] = 0 => "destroySession" \in Issuing /\ mine[r] = 0
    BY <1>0 DEF Issuing, Fits, Storing
  <2>2. QED
    BY <1>0, <1>1, <1>2, <2>1, DispatchesKept
<1>6. StoreTypes'
  <2>1. over' \subseteq Send
    BY <1>0, HeldIsMade, InvParts DEF DestroySession, StoreTypes, Holding, Verifying
  <2>2. QED
    BY <1>0, <2>1 DEF DestroySession, StoreTypes
<1>7. SendInv'
  <2>1. latest # 0 => latest \in over' \cup crossed
    BY <1>0, DestroysItsOwn DEF DestroySession, Verifying
  <2>2. /\ record' \in {None, record} /\ over \subseteq over' /\ window' \in {0, window}
        /\ UNCHANGED <<sent, wins, failed, tangled, latest, crossed>>
    BY DEF DestroySession, redis, history
  <2>3. Rests
    BY <1>0, <1>1, <2>1, <2>2, RestsStep DEF Verifying
  <2>4. QED
    BY <2>3, RestsKeep
<1>8. IssuesAreCounted'
  <2>1. ~loose => IssueCounts(r)
    BY <1>0, InvParts DEF IssuesAreCounted
  <2>2. UNCHANGED loose /\ pc'[r] = "destroyIndex" /\ count'[r] = count[r]
    BY <1>0, <1>1, MovesAre DEF DestroySession, history
  <2>3. ~loose => IssueCounts(r)'
    BY <1>0, <2>1, <2>2, NumbersAre, Bounds DEF DestroySession, IssueCounts, Storing, redis, history
  <2>4. QED
    BY <1>1, <2>2, <2>3, IssueMoves DEF Issuing
<1>9. QED
  BY <1>1, <1>2, <1>3, <1>4, <1>5, <1>6, <1>7, <1>8, StepKeeps

LEMMA DestroyIndexKeeps ==
    ASSUME OtpInv, NEW r \in Requests, DestroyIndex(r)
    PROVE  OtpInv'
<1> USE NoneFits
<1>0. /\ pc[r] = "destroyIndex" /\ LocalTypes /\ StoreTypes /\ SendInv /\ DispatchesFit
      /\ held[r] \in Record /\ secret[r] \in 0..MaxDispatch
      /\ count[r] \in 0..maxSendsPerWindow /\ mine[r] \in 0..MaxDispatch
      /\ Fits(pc[r], held[r], secret[r], count[r], mine[r], sent)
  BY Own DEF DestroyIndex, Goto
<1>1. Moves(r, "destroyIndex", "getThrottle", None, secret[r], count[r], mine[r])
  BY <1>0 DEF DestroyIndex, Goto, Moves, LocalTypes, locals
<1>2. UNCHANGED sent
  BY DEF DestroyIndex
<1>3. /\ "getThrottle" \in Label /\ None \in Record /\ secret[r] \in 0..MaxDispatch
      /\ count[r] \in 0..maxSendsPerWindow /\ mine[r] \in 0..MaxDispatch
  BY <1>0, Bounds DEF Label, Verifying, Issuing, StoreTypes
<1>4. Fits("getThrottle", None, secret[r], count[r], mine[r], sent)
  BY <1>0 DEF DestroyIndex, Fits, Holding, Verifying, Storing, Goto
<1>5. DispatchesFit'
  <2>1. "getThrottle" \in Issuing /\ mine[r] = 0 => "destroyIndex" \in Issuing /\ mine[r] = 0
    BY <1>0 DEF Issuing, Fits, Storing
  <2>2. QED
    BY <1>0, <1>1, <1>2, <2>1, DispatchesKept
<1>6. StoreTypes'
  BY <1>0, Bounds, NumbersAre DEF DestroyIndex, StoreTypes, redis, history, Send
<1>7. SendInv'
  <2>1. UNCHANGED <<record, over>>
    BY DEF DestroyIndex, redis, history
  <2>2. /\ record' \in {None, record} /\ over \subseteq over' /\ window' \in {0, window}
        /\ UNCHANGED <<sent, wins, failed, tangled, latest, crossed>>
    BY DEF DestroyIndex, redis, history
  <2>3. Rests
    BY <1>0, <1>1, <2>1, <2>2, RestsStep DEF Verifying
  <2>4. QED
    BY <2>3, RestsKeep
<1>8. IssuesAreCounted'
  <2>1. ~loose => IssueCounts(r)
    BY <1>0, InvParts DEF IssuesAreCounted
  <2>2. UNCHANGED loose /\ pc'[r] = "getThrottle" /\ count'[r] = count[r]
    BY <1>0, <1>1, MovesAre DEF DestroyIndex, history
  <2>3. ~loose => IssueCounts(r)'
    BY <1>0, <2>1, <2>2, NumbersAre, Bounds DEF DestroyIndex, IssueCounts, Storing, redis, history
  <2>4. QED
    BY <1>1, <2>2, <2>3, IssueMoves DEF Issuing
<1>9. QED
  BY <1>1, <1>2, <1>3, <1>4, <1>5, <1>6, <1>7, <1>8, StepKeeps

LEMMA GetThrottleKeeps ==
    ASSUME OtpInv, NEW r \in Requests, GetThrottle(r)
    PROVE  OtpInv'
<1> USE NoneFits
<1>0. /\ pc[r] = "getThrottle" /\ LocalTypes /\ StoreTypes /\ SendInv /\ DispatchesFit
      /\ held[r] \in Record /\ secret[r] \in 0..MaxDispatch
      /\ count[r] \in 0..maxSendsPerWindow /\ mine[r] \in 0..MaxDispatch
      /\ Fits(pc[r], held[r], secret[r], count[r], mine[r], sent)
  BY Own DEF GetThrottle, Goto
<1>1. Moves(r, "getThrottle", "dispatch", held[r], secret[r], throttle, mine[r])
  BY <1>0 DEF GetThrottle, Goto, Moves, LocalTypes, locals
<1>2. UNCHANGED sent
  BY DEF GetThrottle
<1>3. /\ "dispatch" \in Label /\ held[r] \in Record /\ secret[r] \in 0..MaxDispatch
      /\ throttle \in 0..maxSendsPerWindow /\ mine[r] \in 0..MaxDispatch
  BY <1>0, Bounds DEF Label, Verifying, Issuing, StoreTypes
<1>4. Fits("dispatch", held[r], secret[r], throttle, mine[r], sent)
  BY <1>0 DEF GetThrottle, Fits, Holding, Verifying, Storing, Goto
<1>5. DispatchesFit'
  <2>1. "dispatch" \in Issuing /\ mine[r] = 0 => "getThrottle" \in Issuing /\ mine[r] = 0
    BY <1>0 DEF Issuing, Fits, Storing
  <2>2. QED
    BY <1>0, <1>1, <1>2, <2>1, DispatchesKept
<1>6. StoreTypes'
  BY <1>0, StoresStay DEF GetThrottle, redis, history
<1>7. SendInv'
  <2>1. UNCHANGED <<record, over>>
    BY DEF GetThrottle, redis, history
  <2>2. /\ record' \in {None, record} /\ over \subseteq over' /\ window' \in {0, window}
        /\ UNCHANGED <<sent, wins, failed, tangled, latest, crossed>>
    BY DEF GetThrottle, redis, history
  <2>3. Rests
    BY <1>0, <1>1, <2>1, <2>2, RestsStep DEF Verifying
  <2>4. QED
    BY <2>3, RestsKeep
<1>8. IssuesAreCounted'
  <2>1. ~loose => IssueCounts(r)
    BY <1>0, InvParts DEF IssuesAreCounted
  <2>2. UNCHANGED loose /\ pc'[r] = "dispatch" /\ count'[r] = throttle
    BY <1>0, <1>1, MovesAre DEF GetThrottle, history
  <2>3. ~loose => IssueCounts(r)'
    BY <1>0, <2>1, <2>2, NumbersAre, Bounds DEF GetThrottle, IssueCounts, Storing, redis, history
  <2>4. QED
    BY <1>1, <2>2, <2>3, IssueMoves DEF Issuing
<1>9. QED
  BY <1>1, <1>2, <1>3, <1>4, <1>5, <1>6, <1>7, <1>8, StepKeeps

LEMMA ThrottledKeeps ==
    ASSUME OtpInv, NEW r \in Requests, Throttled(r)
    PROVE  OtpInv'
<1> USE NoneFits
<1>0. /\ pc[r] = "getThrottle" /\ LocalTypes /\ StoreTypes /\ SendInv /\ DispatchesFit
      /\ held[r] \in Record /\ secret[r] \in 0..MaxDispatch
      /\ count[r] \in 0..maxSendsPerWindow /\ mine[r] \in 0..MaxDispatch
      /\ Fits(pc[r], held[r], secret[r], count[r], mine[r], sent)
  BY Own DEF Throttled, Goto, Return
<1>1. Moves(r, "getThrottle", "idle", None, 0, 0, 0)
  BY <1>0 DEF Throttled, Goto, Return, Moves, LocalTypes, locals
<1>2. UNCHANGED sent
  BY DEF Throttled
<1>3. /\ "idle" \in Label /\ None \in Record /\ 0 \in 0..MaxDispatch
      /\ 0 \in 0..maxSendsPerWindow /\ 0 \in 0..MaxDispatch
  BY <1>0, Bounds DEF Label, Verifying, Issuing, StoreTypes
<1>4. Fits("idle", None, 0, 0, 0, sent)
  BY <1>0 DEF Throttled, Fits, Holding, Verifying, Storing, Goto
<1>5. DispatchesFit'
  <2>1. "idle" \in Issuing /\ 0 = 0 => "getThrottle" \in Issuing /\ mine[r] = 0
    BY <1>0 DEF Issuing, Fits, Storing
  <2>2. QED
    BY <1>0, <1>1, <1>2, <2>1, DispatchesKept
<1>6. StoreTypes'
  BY <1>0, StoresStay DEF Throttled, redis, history
<1>7. SendInv'
  <2>1. UNCHANGED <<record, over>>
    BY DEF Throttled, redis, history
  <2>2. /\ record' \in {None, record} /\ over \subseteq over' /\ window' \in {0, window}
        /\ UNCHANGED <<sent, wins, failed, tangled, latest, crossed>>
    BY DEF Throttled, redis, history
  <2>3. Rests
    BY <1>0, <1>1, <2>1, <2>2, RestsStep DEF Verifying
  <2>4. QED
    BY <2>3, RestsKeep
<1>8. IssuesAreCounted'
  <2>1. ~loose => IssueCounts(r)
    BY <1>0, InvParts DEF IssuesAreCounted
  <2>2. UNCHANGED loose
    BY DEF Throttled, history
  <2>3. ~loose => window' <= throttle'
    BY <1>0, <2>1, NumbersAre, Bounds DEF Throttled, IssueCounts, Storing, redis, history
  <2>4. QED
    BY <1>1, <2>2, <2>3, IssueMoves DEF Issuing
<1>9. QED
  BY <1>1, <1>2, <1>3, <1>4, <1>5, <1>6, <1>7, <1>8, StepKeeps

LEMMA SetSessionKeeps ==
    ASSUME OtpInv, NEW r \in Requests, SetSession(r)
    PROVE  OtpInv'
<1> USE NoneFits
<1>0. /\ pc[r] = "setSession" /\ LocalTypes /\ StoreTypes /\ SendInv /\ DispatchesFit
      /\ held[r] \in Record /\ secret[r] \in 0..MaxDispatch
      /\ count[r] \in 0..maxSendsPerWindow /\ mine[r] \in 0..MaxDispatch
      /\ Fits(pc[r], held[r], secret[r], count[r], mine[r], sent)
  BY Own DEF SetSession, Goto
<1>1. Moves(r, "setSession", "setIndex", held[r], secret[r], count[r], mine[r])
  BY <1>0 DEF SetSession, Goto, Moves, LocalTypes, locals
<1>2. UNCHANGED sent
  BY DEF SetSession
<1>3. /\ "setIndex" \in Label /\ held[r] \in Record /\ secret[r] \in 0..MaxDispatch
      /\ count[r] \in 0..maxSendsPerWindow /\ mine[r] \in 0..MaxDispatch
  BY <1>0, Bounds DEF Label, Verifying, Issuing, StoreTypes
<1>4. Fits("setIndex", held[r], secret[r], count[r], mine[r], sent)
  BY <1>0 DEF SetSession, Fits, Holding, Verifying, Storing, Goto
<1>5. DispatchesFit'
  <2>1. "setIndex" \in Issuing /\ mine[r] = 0 => "setSession" \in Issuing /\ mine[r] = 0
    BY <1>0 DEF Issuing, Fits, Storing
  <2>2. QED
    BY <1>0, <1>1, <1>2, <2>1, DispatchesKept
<1>6. StoreTypes'
  <2>1. mine[r] \in Send /\ record' \in Record /\ latest' \in 0..MaxDispatch
    BY <1>0, Bounds DEF Fits, Storing, SetSession, Record, StoreTypes, Send
  <2>2. HeldBy(r, Verifying \cup {"destroySession"}) \subseteq Send
    <3>1. \A q \in Requests : pc[q] \in Holding => held[q].send \in Send
      BY HeldIsMade, InvParts
    <3>2. QED
      BY <3>1 DEF HeldBy, Holding
  <2>3. crossed' \subseteq Send
    BY <1>0, <2>1, <2>2 DEF SetSession, StoreTypes
  <2>4. QED
    BY <1>0, <2>1, <2>3 DEF SetSession, StoreTypes
<1>7. SendInv'
  <2>1. Others(r) /\ pc'[r] = "setIndex" /\ held'[r] = held[r] /\ mine'[r] = mine[r]
    BY <1>0, <1>1, MovesAre
  <2>2. StoresSend(r)
    BY <1>0, <2>1 DEF SetSession, StoresSend, Verifying
  <2>3. QED
    BY <2>2, StoresSendKeeps
<1>8. IssuesAreCounted'
  <2>1. ~loose => IssueCounts(r)
    BY <1>0, InvParts DEF IssuesAreCounted
  <2>2. UNCHANGED loose /\ pc'[r] = "setIndex" /\ count'[r] = count[r]
    BY <1>0, <1>1, MovesAre DEF SetSession, history
  <2>3. ~loose => IssueCounts(r)'
    BY <1>0, <2>1, <2>2, NumbersAre, Bounds DEF SetSession, IssueCounts, Storing, redis, history
  <2>4. QED
    BY <1>1, <2>2, <2>3, IssueMoves DEF Issuing
<1>9. QED
  BY <1>1, <1>2, <1>3, <1>4, <1>5, <1>6, <1>7, <1>8, StepKeeps

LEMMA SetIndexKeeps ==
    ASSUME OtpInv, NEW r \in Requests, SetIndex(r)
    PROVE  OtpInv'
<1> USE NoneFits
<1>0. /\ pc[r] = "setIndex" /\ LocalTypes /\ StoreTypes /\ SendInv /\ DispatchesFit
      /\ held[r] \in Record /\ secret[r] \in 0..MaxDispatch
      /\ count[r] \in 0..maxSendsPerWindow /\ mine[r] \in 0..MaxDispatch
      /\ Fits(pc[r], held[r], secret[r], count[r], mine[r], sent)
  BY Own DEF SetIndex, Goto
<1>1. Moves(r, "setIndex", "setThrottle", held[r], secret[r], count[r], mine[r])
  BY <1>0 DEF SetIndex, Goto, Moves, LocalTypes, locals
<1>2. UNCHANGED sent
  BY DEF SetIndex
<1>3. /\ "setThrottle" \in Label /\ held[r] \in Record /\ secret[r] \in 0..MaxDispatch
      /\ count[r] \in 0..maxSendsPerWindow /\ mine[r] \in 0..MaxDispatch
  BY <1>0, Bounds DEF Label, Verifying, Issuing, StoreTypes
<1>4. Fits("setThrottle", held[r], secret[r], count[r], mine[r], sent)
  BY <1>0 DEF SetIndex, Fits, Holding, Verifying, Storing, Goto
<1>5. DispatchesFit'
  <2>1. "setThrottle" \in Issuing /\ mine[r] = 0 => "setIndex" \in Issuing /\ mine[r] = 0
    BY <1>0 DEF Issuing, Fits, Storing
  <2>2. QED
    BY <1>0, <1>1, <1>2, <2>1, DispatchesKept
<1>6. StoreTypes'
  <2>1. mine[r] \in Send
    BY <1>0, Bounds DEF Fits, Storing, StoreTypes, Send
  <2>2. QED
    BY <1>0, <2>1 DEF SetIndex, StoreTypes, history
<1>7. SendInv'
  <2>1. UNCHANGED <<record, over>>
    BY DEF SetIndex, redis, history
  <2>2. /\ record' \in {None, record} /\ over \subseteq over' /\ window' \in {0, window}
        /\ UNCHANGED <<sent, wins, failed, tangled, latest, crossed>>
    BY DEF SetIndex, redis, history
  <2>3. Rests
    BY <1>0, <1>1, <2>1, <2>2, RestsStep DEF Verifying
  <2>4. QED
    BY <2>3, RestsKeep
<1>8. IssuesAreCounted'
  <2>1. ~loose => IssueCounts(r)
    BY <1>0, InvParts DEF IssuesAreCounted
  <2>2. UNCHANGED loose /\ pc'[r] = "setThrottle" /\ count'[r] = count[r]
    BY <1>0, <1>1, MovesAre DEF SetIndex, history
  <2>3. ~loose => IssueCounts(r)'
    BY <1>0, <2>1, <2>2, NumbersAre, Bounds DEF SetIndex, IssueCounts, Storing, redis, history
  <2>4. QED
    BY <1>1, <2>2, <2>3, IssueMoves DEF Issuing
<1>9. QED
  BY <1>1, <1>2, <1>3, <1>4, <1>5, <1>6, <1>7, <1>8, StepKeeps

LEMMA SetThrottleKeeps ==
    ASSUME OtpInv, NEW r \in Requests, SetThrottle(r)
    PROVE  OtpInv'
<1> USE NoneFits
<1>0. /\ pc[r] = "setThrottle" /\ LocalTypes /\ StoreTypes /\ SendInv /\ DispatchesFit
      /\ held[r] \in Record /\ secret[r] \in 0..MaxDispatch
      /\ count[r] \in 0..maxSendsPerWindow /\ mine[r] \in 0..MaxDispatch
      /\ Fits(pc[r], held[r], secret[r], count[r], mine[r], sent)
  BY Own DEF SetThrottle, Goto, Return
<1>1. Moves(r, "setThrottle", "idle", None, 0, 0, 0)
  BY <1>0 DEF SetThrottle, Goto, Return, Moves, LocalTypes, locals
<1>2. UNCHANGED sent
  BY DEF SetThrottle
<1>3. /\ "idle" \in Label /\ None \in Record /\ 0 \in 0..MaxDispatch
      /\ 0 \in 0..maxSendsPerWindow /\ 0 \in 0..MaxDispatch
  BY <1>0, Bounds DEF Label, Verifying, Issuing, StoreTypes
<1>4. Fits("idle", None, 0, 0, 0, sent)
  BY <1>0 DEF SetThrottle, Fits, Holding, Verifying, Storing, Goto
<1>5. DispatchesFit'
  <2>1. "idle" \in Issuing /\ 0 = 0 => "setThrottle" \in Issuing /\ mine[r] = 0
    BY <1>0 DEF Issuing, Fits, Storing
  <2>2. QED
    BY <1>0, <1>1, <1>2, <2>1, DispatchesKept
<1>6. StoreTypes'
  <2>1. throttle' \in 0..maxSendsPerWindow
    BY <1>0, Bounds DEF SetThrottle, Fits, Storing
  <2>2. QED
    BY <1>0, <2>1 DEF SetThrottle, StoreTypes, history
<1>7. SendInv'
  <2>1. UNCHANGED <<record, over>>
    BY DEF SetThrottle, redis, history
  <2>2. /\ record' \in {None, record} /\ over \subseteq over' /\ window' \in {0, window}
        /\ UNCHANGED <<sent, wins, failed, tangled, latest, crossed>>
    BY DEF SetThrottle, redis, history
  <2>3. Rests
    BY <1>0, <1>1, <2>1, <2>2, RestsStep DEF Verifying
  <2>4. QED
    BY <2>3, RestsKeep
<1>8. IssuesAreCounted'
  <2>1. ~loose => IssueCounts(r)
    BY <1>0, InvParts DEF IssuesAreCounted
  <2>2. UNCHANGED loose
    BY DEF SetThrottle, history
  <2>3. ~loose => window' <= throttle'
    BY <1>0, <2>1, NumbersAre, Bounds DEF SetThrottle, IssueCounts, Storing, redis, history
  <2>4. QED
    BY <1>1, <2>2, <2>3, IssueMoves DEF Issuing
<1>9. QED
  BY <1>1, <1>2, <1>3, <1>4, <1>5, <1>6, <1>7, <1>8, StepKeeps

LEMMA CapSessionKeeps ==
    ASSUME OtpInv, NEW r \in Requests, CapSession(r)
    PROVE  OtpInv'
<1> USE NoneFits
<1>0. /\ pc[r] = "capSession" /\ LocalTypes /\ StoreTypes /\ SendInv /\ DispatchesFit
      /\ held[r] \in Record /\ secret[r] \in 0..MaxDispatch
      /\ count[r] \in 0..maxSendsPerWindow /\ mine[r] \in 0..MaxDispatch
      /\ Fits(pc[r], held[r], secret[r], count[r], mine[r], sent)
  BY Own DEF CapSession, Goto
<1>1. Moves(r, "capSession", "capIndex", held[r], secret[r], count[r], mine[r])
  BY <1>0 DEF CapSession, Goto, Moves, LocalTypes, locals
<1>2. UNCHANGED sent
  BY DEF CapSession
<1>3. /\ "capIndex" \in Label /\ held[r] \in Record /\ secret[r] \in 0..MaxDispatch
      /\ count[r] \in 0..maxSendsPerWindow /\ mine[r] \in 0..MaxDispatch
  BY <1>0, Bounds DEF Label, Verifying, Issuing, StoreTypes
<1>4. Fits("capIndex", held[r], secret[r], count[r], mine[r], sent)
  BY <1>0 DEF CapSession, Fits, Holding, Verifying, Storing, Goto
<1>5. DispatchesFit'
  <2>1. "capIndex" \in Issuing /\ mine[r] = 0 => "capSession" \in Issuing /\ mine[r] = 0
    BY <1>0 DEF Issuing, Fits, Storing
  <2>2. QED
    BY <1>0, <1>1, <1>2, <2>1, DispatchesKept
<1>6. StoreTypes'
  <2>1. over' \subseteq Send
    BY <1>0, HeldIsMade, InvParts DEF CapSession, StoreTypes, Holding, Verifying
  <2>2. QED
    BY <1>0, <2>1 DEF CapSession, StoreTypes
<1>7. SendInv'
  <2>1. latest # 0 => latest \in over' \cup crossed
    BY <1>0, DestroysItsOwn DEF CapSession, Verifying
  <2>2. /\ record' \in {None, record} /\ over \subseteq over' /\ window' \in {0, window}
        /\ UNCHANGED <<sent, wins, failed, tangled, latest, crossed>>
    BY DEF CapSession, redis, history
  <2>3. Rests
    BY <1>0, <1>1, <2>1, <2>2, RestsStep DEF Verifying
  <2>4. QED
    BY <2>3, RestsKeep
<1>8. IssuesAreCounted'
  BY <1>1, IssueRests DEF CapSession, Issuing, redis, history
<1>9. QED
  BY <1>1, <1>2, <1>3, <1>4, <1>5, <1>6, <1>7, <1>8, StepKeeps

LEMMA CapIndexKeeps ==
    ASSUME OtpInv, NEW r \in Requests, CapIndex(r)
    PROVE  OtpInv'
<1> USE NoneFits
<1>0. /\ pc[r] = "capIndex" /\ LocalTypes /\ StoreTypes /\ SendInv /\ DispatchesFit
      /\ held[r] \in Record /\ secret[r] \in 0..MaxDispatch
      /\ count[r] \in 0..maxSendsPerWindow /\ mine[r] \in 0..MaxDispatch
      /\ Fits(pc[r], held[r], secret[r], count[r], mine[r], sent)
  BY Own DEF CapIndex, Goto, Return
<1>1. Moves(r, "capIndex", "idle", None, 0, 0, 0)
  BY <1>0 DEF CapIndex, Goto, Return, Moves, LocalTypes, locals
<1>2. UNCHANGED sent
  BY DEF CapIndex
<1>3. /\ "idle" \in Label /\ None \in Record /\ 0 \in 0..MaxDispatch
      /\ 0 \in 0..maxSendsPerWindow /\ 0 \in 0..MaxDispatch
  BY <1>0, Bounds DEF Label, Verifying, Issuing, StoreTypes
<1>4. Fits("idle", None, 0, 0, 0, sent)
  BY <1>0 DEF CapIndex, Fits, Holding, Verifying, Storing, Goto
<1>5. DispatchesFit'
  <2>1. "idle" \in Issuing /\ 0 = 0 => "capIndex" \in Issuing /\ mine[r] = 0
    BY <1>0 DEF Issuing, Fits, Storing
  <2>2. QED
    BY <1>0, <1>1, <1>2, <2>1, DispatchesKept
<1>6. StoreTypes'
  BY <1>0, Bounds, NumbersAre DEF CapIndex, StoreTypes, redis, history, Send
<1>7. SendInv'
  <2>1. UNCHANGED <<record, over>>
    BY DEF CapIndex, redis, history
  <2>2. /\ record' \in {None, record} /\ over \subseteq over' /\ window' \in {0, window}
        /\ UNCHANGED <<sent, wins, failed, tangled, latest, crossed>>
    BY DEF CapIndex, redis, history
  <2>3. Rests
    BY <1>0, <1>1, <2>1, <2>2, RestsStep DEF Verifying
  <2>4. QED
    BY <2>3, RestsKeep
<1>8. IssuesAreCounted'
  BY <1>1, IssueRests DEF CapIndex, Issuing, redis, history
<1>9. QED
  BY <1>1, <1>2, <1>3, <1>4, <1>5, <1>6, <1>7, <1>8, StepKeeps

LEMMA VerifyByTokenKeeps ==
    ASSUME OtpInv, NEW r \in Requests, NEW k \in Send, VerifyByToken(r, k)
    PROVE  OtpInv'
<1> USE NoneFits
<1>0. /\ pc[r] = "idle" /\ LocalTypes /\ StoreTypes /\ SendInv /\ DispatchesFit
      /\ held[r] \in Record /\ secret[r] \in 0..MaxDispatch
      /\ count[r] \in 0..maxSendsPerWindow /\ mine[r] \in 0..MaxDispatch
      /\ Fits(pc[r], held[r], secret[r], count[r], mine[r], sent)
  BY Own DEF VerifyByToken, Goto
<1>1. Moves(r, "idle", "lookup", held[r], k, count[r], mine[r])
  BY <1>0 DEF VerifyByToken, Goto, Moves, LocalTypes, locals
<1>2. UNCHANGED sent
  BY DEF VerifyByToken
<1>3. /\ "lookup" \in Label /\ held[r] \in Record /\ k \in 0..MaxDispatch
      /\ count[r] \in 0..maxSendsPerWindow /\ mine[r] \in 0..MaxDispatch
  BY <1>0, Bounds DEF Label, Verifying, Issuing, StoreTypes, Send
<1>4. Fits("lookup", held[r], k, count[r], mine[r], sent)
  BY <1>0 DEF VerifyByToken, Fits, Holding, Verifying, Storing, Goto, Send
<1>5. DispatchesFit'
  <2>1. "lookup" \in Issuing /\ mine[r] = 0 => "idle" \in Issuing /\ mine[r] = 0
    BY <1>0 DEF Issuing, Fits, Storing
  <2>2. QED
    BY <1>0, <1>1, <1>2, <2>1, DispatchesKept
<1>6. StoreTypes'
  BY <1>0, StoresStay DEF VerifyByToken, redis, history
<1>7. SendInv'
  <2>1. UNCHANGED <<record, over>>
    BY DEF VerifyByToken, redis, history
  <2>2. /\ record' \in {None, record} /\ over \subseteq over' /\ window' \in {0, window}
        /\ UNCHANGED <<sent, wins, failed, tangled, latest, crossed>>
    BY DEF VerifyByToken, redis, history
  <2>3. Rests
    BY <1>0, <1>1, <2>1, <2>2, RestsStep DEF Verifying
  <2>4. QED
    BY <2>3, RestsKeep
<1>8. IssuesAreCounted'
  BY <1>1, IssueRests DEF VerifyByToken, Issuing, redis, history
<1>9. QED
  BY <1>1, <1>2, <1>3, <1>4, <1>5, <1>6, <1>7, <1>8, StepKeeps

LEMMA LookupKeeps ==
    ASSUME OtpInv, NEW r \in Requests, Lookup(r)
    PROVE  OtpInv'
<1> USE NoneFits
<1>0. /\ pc[r] = "lookup" /\ LocalTypes /\ StoreTypes /\ SendInv /\ DispatchesFit
      /\ held[r] \in Record /\ secret[r] \in 0..MaxDispatch
      /\ count[r] \in 0..maxSendsPerWindow /\ mine[r] \in 0..MaxDispatch
      /\ Fits(pc[r], held[r], secret[r], count[r], mine[r], sent)
  BY Own DEF Lookup, Goto
<1>1. Moves(r, "lookup", "winSession", record, secret[r], count[r], mine[r])
  BY <1>0 DEF Lookup, Goto, Moves, LocalTypes, locals
<1>2. UNCHANGED sent
  BY DEF Lookup
<1>3. /\ "winSession" \in Label /\ record \in Record /\ secret[r] \in 0..MaxDispatch
      /\ count[r] \in 0..maxSendsPerWindow /\ mine[r] \in 0..MaxDispatch
  BY <1>0, Bounds DEF Label, Verifying, Issuing, StoreTypes
<1>4. Fits("winSession", record, secret[r], count[r], mine[r], sent)
  <2>1. record.send # 0 => record.send \in 1..sent
    BY <1>0, NumbersAre DEF SendInv, SendsAreMade
  <2>2. record.send # 0
    BY <1>0 DEF Lookup, Goto, Fits
  <2>3. QED
    BY <1>0, <2>1, <2>2 DEF Fits, Holding, Verifying, Storing
<1>5. DispatchesFit'
  <2>1. "winSession" \in Issuing /\ mine[r] = 0 => "lookup" \in Issuing /\ mine[r] = 0
    BY <1>0 DEF Issuing, Fits, Storing
  <2>2. QED
    BY <1>0, <1>1, <1>2, <2>1, DispatchesKept
<1>6. StoreTypes'
  <2>1. record.send \in Send
    BY <1>0, <1>4, NumbersAre, Bounds DEF Fits, Holding, Verifying, StoreTypes, Send
  <2>2. tangled' \subseteq Send
    BY <1>0, <2>1 DEF Lookup, StoreTypes
  <2>3. QED
    BY <1>0, <2>2 DEF Lookup, StoreTypes, redis
<1>7. SendInv'
  <2>0. record.send # 0
    BY <1>0 DEF Lookup, Goto, Fits
  <2>1. Others(r) /\ pc'[r] = "winSession" /\ held'[r] = record /\ mine'[r] = mine[r]
    BY <1>0, <1>1, MovesAre
  <2>2. Takes(r)
    BY <1>0, <2>1, <2>0 DEF Lookup, Takes, Verifying, redis
  <2>3. QED
    BY <2>2, TakesKeeps
<1>8. IssuesAreCounted'
  BY <1>1, IssueRests DEF Lookup, Issuing, redis, history
<1>9. QED
  BY <1>1, <1>2, <1>3, <1>4, <1>5, <1>6, <1>7, <1>8, StepKeeps

LEMMA LookupFailsKeeps ==
    ASSUME OtpInv, NEW r \in Requests, LookupFails(r)
    PROVE  OtpInv'
<1> USE NoneFits
<1>0. /\ pc[r] = "lookup" /\ LocalTypes /\ StoreTypes /\ SendInv /\ DispatchesFit
      /\ held[r] \in Record /\ secret[r] \in 0..MaxDispatch
      /\ count[r] \in 0..maxSendsPerWindow /\ mine[r] \in 0..MaxDispatch
      /\ Fits(pc[r], held[r], secret[r], count[r], mine[r], sent)
  BY Own DEF LookupFails, Goto
<1>1. Moves(r, "lookup", "dropIndex", held[r], secret[r], count[r], mine[r])
  BY <1>0 DEF LookupFails, Goto, Moves, LocalTypes, locals
<1>2. UNCHANGED sent
  BY DEF LookupFails
<1>3. /\ "dropIndex" \in Label /\ held[r] \in Record /\ secret[r] \in 0..MaxDispatch
      /\ count[r] \in 0..maxSendsPerWindow /\ mine[r] \in 0..MaxDispatch
  BY <1>0, Bounds DEF Label, Verifying, Issuing, StoreTypes
<1>4. Fits("dropIndex", held[r], secret[r], count[r], mine[r], sent)
  BY <1>0 DEF LookupFails, Fits, Holding, Verifying, Storing, Goto
<1>5. DispatchesFit'
  <2>1. "dropIndex" \in Issuing /\ mine[r] = 0 => "lookup" \in Issuing /\ mine[r] = 0
    BY <1>0 DEF Issuing, Fits, Storing
  <2>2. QED
    BY <1>0, <1>1, <1>2, <2>1, DispatchesKept
<1>6. StoreTypes'
  BY <1>0, StoresStay DEF LookupFails, redis, history
<1>7. SendInv'
  <2>1. UNCHANGED <<record, over>>
    BY DEF LookupFails, redis, history
  <2>2. /\ record' \in {None, record} /\ over \subseteq over' /\ window' \in {0, window}
        /\ UNCHANGED <<sent, wins, failed, tangled, latest, crossed>>
    BY DEF LookupFails, redis, history
  <2>3. Rests
    BY <1>0, <1>1, <2>1, <2>2, RestsStep DEF Verifying
  <2>4. QED
    BY <2>3, RestsKeep
<1>8. IssuesAreCounted'
  BY <1>1, IssueRests DEF LookupFails, Issuing, redis, history
<1>9. QED
  BY <1>1, <1>2, <1>3, <1>4, <1>5, <1>6, <1>7, <1>8, StepKeeps

LEMMA DropIndexKeeps ==
    ASSUME OtpInv, NEW r \in Requests, DropIndex(r)
    PROVE  OtpInv'
<1> USE NoneFits
<1>0. /\ pc[r] = "dropIndex" /\ LocalTypes /\ StoreTypes /\ SendInv /\ DispatchesFit
      /\ held[r] \in Record /\ secret[r] \in 0..MaxDispatch
      /\ count[r] \in 0..maxSendsPerWindow /\ mine[r] \in 0..MaxDispatch
      /\ Fits(pc[r], held[r], secret[r], count[r], mine[r], sent)
  BY Own DEF DropIndex, Goto, Return
<1>1. Moves(r, "dropIndex", "idle", None, 0, 0, 0)
  BY <1>0 DEF DropIndex, Goto, Return, Moves, LocalTypes, locals
<1>2. UNCHANGED sent
  BY DEF DropIndex
<1>3. /\ "idle" \in Label /\ None \in Record /\ 0 \in 0..MaxDispatch
      /\ 0 \in 0..maxSendsPerWindow /\ 0 \in 0..MaxDispatch
  BY <1>0, Bounds DEF Label, Verifying, Issuing, StoreTypes
<1>4. Fits("idle", None, 0, 0, 0, sent)
  BY <1>0 DEF DropIndex, Fits, Holding, Verifying, Storing, Goto
<1>5. DispatchesFit'
  <2>1. "idle" \in Issuing /\ 0 = 0 => "dropIndex" \in Issuing /\ mine[r] = 0
    BY <1>0 DEF Issuing, Fits, Storing
  <2>2. QED
    BY <1>0, <1>1, <1>2, <2>1, DispatchesKept
<1>6. StoreTypes'
  BY <1>0, Bounds, NumbersAre DEF DropIndex, StoreTypes, redis, history, Send
<1>7. SendInv'
  <2>1. UNCHANGED <<record, over>>
    BY DEF DropIndex, redis, history
  <2>2. /\ record' \in {None, record} /\ over \subseteq over' /\ window' \in {0, window}
        /\ UNCHANGED <<sent, wins, failed, tangled, latest, crossed>>
    BY DEF DropIndex, redis, history
  <2>3. Rests
    BY <1>0, <1>1, <2>1, <2>2, RestsStep DEF Verifying
  <2>4. QED
    BY <2>3, RestsKeep
<1>8. IssuesAreCounted'
  BY <1>1, IssueRests DEF DropIndex, Issuing, redis, history
<1>9. QED
  BY <1>1, <1>2, <1>3, <1>4, <1>5, <1>6, <1>7, <1>8, StepKeeps

LEMMA WinSessionKeeps ==
    ASSUME OtpInv, NEW r \in Requests, WinSession(r)
    PROVE  OtpInv'
<1> USE NoneFits
<1>0. /\ pc[r] = "winSession" /\ LocalTypes /\ StoreTypes /\ SendInv /\ DispatchesFit
      /\ held[r] \in Record /\ secret[r] \in 0..MaxDispatch
      /\ count[r] \in 0..maxSendsPerWindow /\ mine[r] \in 0..MaxDispatch
      /\ Fits(pc[r], held[r], secret[r], count[r], mine[r], sent)
  BY Own DEF WinSession, Goto
<1>1. Moves(r, "winSession", "winIndex", held[r], secret[r], count[r], mine[r])
  BY <1>0 DEF WinSession, Goto, Moves, LocalTypes, locals
<1>2. UNCHANGED sent
  BY DEF WinSession
<1>3. /\ "winIndex" \in Label /\ held[r] \in Record /\ secret[r] \in 0..MaxDispatch
      /\ count[r] \in 0..maxSendsPerWindow /\ mine[r] \in 0..MaxDispatch
  BY <1>0, Bounds DEF Label, Verifying, Issuing, StoreTypes
<1>4. Fits("winIndex", held[r], secret[r], count[r], mine[r], sent)
  BY <1>0 DEF WinSession, Fits, Holding, Verifying, Storing, Goto
<1>5. DispatchesFit'
  <2>1. "winIndex" \in Issuing /\ mine[r] = 0 => "winSession" \in Issuing /\ mine[r] = 0
    BY <1>0 DEF Issuing, Fits, Storing
  <2>2. QED
    BY <1>0, <1>1, <1>2, <2>1, DispatchesKept
<1>6. StoreTypes'
  <2>1. over' \subseteq Send
    BY <1>0, HeldIsMade, InvParts DEF WinSession, StoreTypes, Holding, Verifying
  <2>2. QED
    BY <1>0, <2>1 DEF WinSession, StoreTypes
<1>7. SendInv'
  <2>1. Others(r) /\ pc'[r] = "winIndex" /\ held'[r] = held[r] /\ mine'[r] = mine[r]
    BY <1>0, <1>1, MovesAre
  <2>2. Accepts(r)
    BY <1>0, <2>1 DEF WinSession, Accepts, Verifying
  <2>3. QED
    BY <2>2, AcceptsKeeps
<1>8. IssuesAreCounted'
  BY <1>1, IssueRests DEF WinSession, Issuing, redis, history
<1>9. QED
  BY <1>1, <1>2, <1>3, <1>4, <1>5, <1>6, <1>7, <1>8, StepKeeps

LEMMA RightCodeKeeps ==
    ASSUME OtpInv, NEW r \in Requests, RightCode(r)
    PROVE  OtpInv'
<1> USE NoneFits
<1>0. /\ pc[r] = "compare" /\ LocalTypes /\ StoreTypes /\ SendInv /\ DispatchesFit
      /\ held[r] \in Record /\ secret[r] \in 0..MaxDispatch
      /\ count[r] \in 0..maxSendsPerWindow /\ mine[r] \in 0..MaxDispatch
      /\ Fits(pc[r], held[r], secret[r], count[r], mine[r], sent)
  BY Own DEF RightCode, Goto
<1>1. Moves(r, "compare", "winIndex", held[r], secret[r], count[r], mine[r])
  BY <1>0 DEF RightCode, Goto, Moves, LocalTypes, locals
<1>2. UNCHANGED sent
  BY DEF RightCode
<1>3. /\ "winIndex" \in Label /\ held[r] \in Record /\ secret[r] \in 0..MaxDispatch
      /\ count[r] \in 0..maxSendsPerWindow /\ mine[r] \in 0..MaxDispatch
  BY <1>0, Bounds DEF Label, Verifying, Issuing, StoreTypes
<1>4. Fits("winIndex", held[r], secret[r], count[r], mine[r], sent)
  BY <1>0 DEF RightCode, Fits, Holding, Verifying, Storing, Goto
<1>5. DispatchesFit'
  <2>1. "winIndex" \in Issuing /\ mine[r] = 0 => "compare" \in Issuing /\ mine[r] = 0
    BY <1>0 DEF Issuing, Fits, Storing
  <2>2. QED
    BY <1>0, <1>1, <1>2, <2>1, DispatchesKept
<1>6. StoreTypes'
  <2>1. over' \subseteq Send
    BY <1>0, HeldIsMade, InvParts DEF RightCode, StoreTypes, Holding, Verifying
  <2>2. QED
    BY <1>0, <2>1 DEF RightCode, StoreTypes
<1>7. SendInv'
  <2>1. Others(r) /\ pc'[r] = "winIndex" /\ held'[r] = held[r] /\ mine'[r] = mine[r]
    BY <1>0, <1>1, MovesAre
  <2>2. Accepts(r)
    BY <1>0, <2>1 DEF RightCode, Accepts, Verifying
  <2>3. QED
    BY <2>2, AcceptsKeeps
<1>8. IssuesAreCounted'
  BY <1>1, IssueRests DEF RightCode, Issuing, redis, history
<1>9. QED
  BY <1>1, <1>2, <1>3, <1>4, <1>5, <1>6, <1>7, <1>8, StepKeeps

LEMMA ConsumedKeeps ==
    ASSUME OtpInv, NEW r \in Requests, Consumed(r)
    PROVE  OtpInv'
<1> USE NoneFits
<1>0. /\ pc[r] = "winIndex" /\ LocalTypes /\ StoreTypes /\ SendInv /\ DispatchesFit
      /\ held[r] \in Record /\ secret[r] \in 0..MaxDispatch
      /\ count[r] \in 0..maxSendsPerWindow /\ mine[r] \in 0..MaxDispatch
      /\ Fits(pc[r], held[r], secret[r], count[r], mine[r], sent)
  BY Own DEF Consumed, Goto, Return
<1>1. Moves(r, "winIndex", "idle", None, 0, 0, 0)
  BY <1>0 DEF Consumed, Goto, Return, Moves, LocalTypes, locals
<1>2. UNCHANGED sent
  BY DEF Consumed
<1>3. /\ "idle" \in Label /\ None \in Record /\ 0 \in 0..MaxDispatch
      /\ 0 \in 0..maxSendsPerWindow /\ 0 \in 0..MaxDispatch
  BY <1>0, Bounds DEF Label, Verifying, Issuing, StoreTypes
<1>4. Fits("idle", None, 0, 0, 0, sent)
  BY <1>0 DEF Consumed, Fits, Holding, Verifying, Storing, Goto
<1>5. DispatchesFit'
  <2>1. "idle" \in Issuing /\ 0 = 0 => "winIndex" \in Issuing /\ mine[r] = 0
    BY <1>0 DEF Issuing, Fits, Storing
  <2>2. QED
    BY <1>0, <1>1, <1>2, <2>1, DispatchesKept
<1>6. StoreTypes'
  <2>1. PICK j \in Send : j = held[r].send
    BY <1>0, HeldIsMade, InvParts DEF Holding
  <2>2. wins' = [wins EXCEPT ![j] = IF wins[j] = 2 THEN 2 ELSE wins[j] + 1]
    BY <2>1 DEF Consumed
  <2>3. wins[j] \in 0..2 /\ wins \in [Send -> 0..2]
    BY <1>0 DEF StoreTypes
  <2>4. wins' \in [Send -> 0..2]
    BY <2>2, <2>3
  <2>5. QED
    BY <1>0, <2>4 DEF Consumed, StoreTypes
<1>7. SendInv'
  <2>1. Others(r) /\ pc'[r] = "idle" /\ held'[r] = None /\ mine'[r] = 0
    BY <1>0, <1>1, MovesAre
  <2>2. Wins(r)
    BY <1>0, <2>1 DEF Consumed, Wins, Verifying
  <2>3. QED
    BY <2>2, WinsKeeps
<1>8. IssuesAreCounted'
  BY <1>1, IssueRests DEF Consumed, Issuing, redis, history
<1>9. QED
  BY <1>1, <1>2, <1>3, <1>4, <1>5, <1>6, <1>7, <1>8, StepKeeps

LEMMA WrongCodeKeeps ==
    ASSUME OtpInv, NEW r \in Requests, WrongCode(r)
    PROVE  OtpInv'
<1> USE NoneFits
<1>0. /\ pc[r] = "compare" /\ LocalTypes /\ StoreTypes /\ SendInv /\ DispatchesFit
      /\ held[r] \in Record /\ secret[r] \in 0..MaxDispatch
      /\ count[r] \in 0..maxSendsPerWindow /\ mine[r] \in 0..MaxDispatch
      /\ Fits(pc[r], held[r], secret[r], count[r], mine[r], sent)
  BY Own DEF WrongCode, Goto, Return
<1>1. Moves(r, "compare", "idle", None, 0, 0, 0)
  BY <1>0 DEF WrongCode, Goto, Return, Moves, LocalTypes, locals
<1>2. UNCHANGED sent
  BY DEF WrongCode
<1>3. /\ "idle" \in Label /\ None \in Record /\ 0 \in 0..MaxDispatch
      /\ 0 \in 0..maxSendsPerWindow /\ 0 \in 0..MaxDispatch
  BY <1>0, Bounds DEF Label, Verifying, Issuing, StoreTypes
<1>4. Fits("idle", None, 0, 0, 0, sent)
  BY <1>0 DEF WrongCode, Fits, Holding, Verifying, Storing, Goto
<1>5. DispatchesFit'
  <2>1. "idle" \in Issuing /\ 0 = 0 => "compare" \in Issuing /\ mine[r] = 0
    BY <1>0 DEF Issuing, Fits, Storing
  <2>2. QED
    BY <1>0, <1>1, <1>2, <2>1, DispatchesKept
<1>6. StoreTypes'
  <2>1. record' \in Record
    BY <1>0, Bounds DEF WrongCode, Fits, Record
  <2>2. PICK j \in Send : j = held[r].send
    BY <1>0, HeldIsMade, InvParts DEF Holding, Verifying
  <2>3. failed' = [failed EXCEPT ![j] = IF failed[j] > maxAttempts THEN failed[j] ELSE failed[j] + 1]
    BY <2>2 DEF WrongCode
  <2>4. failed[j] \in 0..maxAttempts + 1 /\ failed \in [Send -> 0..maxAttempts + 1]
    BY <1>0 DEF StoreTypes
  <2>5. failed' \in [Send -> 0..maxAttempts + 1]
    BY <2>3, <2>4, Bounds
  <2>6. QED
    BY <1>0, <2>1, <2>5 DEF WrongCode, StoreTypes
<1>7. SendInv'
  <2>1. Others(r) /\ pc'[r] = "idle" /\ held'[r] = None /\ mine'[r] = 0
    BY <1>0, <1>1, MovesAre
  <2>2. Rejects(r)
    BY <1>0, <2>1 DEF WrongCode, Rejects, Verifying
  <2>3. QED
    BY <2>2, RejectsKeeps
<1>8. IssuesAreCounted'
  BY <1>1, IssueRests DEF WrongCode, Issuing, redis, history
<1>9. QED
  BY <1>1, <1>2, <1>3, <1>4, <1>5, <1>6, <1>7, <1>8, StepKeeps

LEMMA IssueKeeps ==
    ASSUME OtpInv, NEW r \in Requests, Issue(r)
    PROVE  OtpInv'
<1> USE NoneFits
<1>0. /\ pc[r] = "idle" /\ LocalTypes /\ StoreTypes /\ SendInv /\ DispatchesFit
      /\ held[r] \in Record /\ secret[r] \in 0..MaxDispatch
      /\ count[r] \in 0..maxSendsPerWindow /\ mine[r] \in 0..MaxDispatch
      /\ Fits(pc[r], held[r], secret[r], count[r], mine[r], sent)
  BY Own DEF Issue, Goto
<1>1. Moves(r, "idle", "getThrottle", held[r], secret[r], count[r], mine[r])
  BY <1>0 DEF Issue, Goto, Moves, LocalTypes, locals
<1>2. UNCHANGED sent
  BY DEF Issue
<1>3. /\ "getThrottle" \in Label /\ held[r] \in Record /\ secret[r] \in 0..MaxDispatch
      /\ count[r] \in 0..maxSendsPerWindow /\ mine[r] \in 0..MaxDispatch
  BY <1>0, Bounds DEF Label, Verifying, Issuing, StoreTypes
<1>4. Fits("getThrottle", held[r], secret[r], count[r], mine[r], sent)
  BY <1>0 DEF Issue, Fits, Holding, Verifying, Storing, Goto
<1>5. DispatchesFit'
  BY <1>0, <1>1, <1>2, DispatchesBegin DEF Issue
<1>6. StoreTypes'
  <2>1. loose' \in BOOLEAN
    BY <1>0, Zenon DEF Issue, StoreTypes
  <2>2. QED
    BY <1>0, <2>1 DEF Issue, StoreTypes, redis
<1>7. SendInv'
  <2>1. UNCHANGED <<record, over>>
    BY DEF Issue, redis, history
  <2>2. /\ record' \in {None, record} /\ over \subseteq over' /\ window' \in {0, window}
        /\ UNCHANGED <<sent, wins, failed, tangled, latest, crossed>>
    BY DEF Issue, redis, history
  <2>3. Rests
    BY <1>0, <1>1, <2>1, <2>2, RestsStep DEF Verifying
  <2>4. QED
    BY <2>3, RestsKeep
<1>8. IssuesAreCounted'
  BY <1>1, IssueBegins DEF Issue, Issuing, redis
<1>9. QED
  BY <1>1, <1>2, <1>3, <1>4, <1>5, <1>6, <1>7, <1>8, StepKeeps

LEMMA ReissueKeeps ==
    ASSUME OtpInv, NEW r \in Requests, Reissue(r)
    PROVE  OtpInv'
<1> USE NoneFits
<1>0. /\ pc[r] = "idle" /\ LocalTypes /\ StoreTypes /\ SendInv /\ DispatchesFit
      /\ held[r] \in Record /\ secret[r] \in 0..MaxDispatch
      /\ count[r] \in 0..maxSendsPerWindow /\ mine[r] \in 0..MaxDispatch
      /\ Fits(pc[r], held[r], secret[r], count[r], mine[r], sent)
  BY Own DEF Reissue, Goto
<1>1. Moves(r, "idle", "destroySession", record, secret[r], count[r], mine[r])
  BY <1>0 DEF Reissue, Goto, Moves, LocalTypes, locals
<1>2. UNCHANGED sent
  BY DEF Reissue
<1>3. /\ "destroySession" \in Label /\ record \in Record /\ secret[r] \in 0..MaxDispatch
      /\ count[r] \in 0..maxSendsPerWindow /\ mine[r] \in 0..MaxDispatch
  BY <1>0, Bounds DEF Label, Verifying, Issuing, StoreTypes
<1>4. Fits("destroySession", record, secret[r], count[r], mine[r], sent)
  <2>1. record.send # 0 => record.send \in 1..sent
    BY <1>0, NumbersAre DEF SendInv, SendsAreMade
  <2>2. record.send # 0
    BY <1>0 DEF Reissue, StoreTypes, Send
  <2>3. QED
    BY <1>0, <2>1, <2>2 DEF Fits, Holding, Verifying, Storing
<1>5. DispatchesFit'
  BY <1>0, <1>1, <1>2, DispatchesBegin DEF Reissue
<1>6. StoreTypes'
  <2>1. loose' \in BOOLEAN
    BY <1>0, Zenon DEF Reissue, StoreTypes
  <2>2. QED
    BY <1>0, <2>1 DEF Reissue, StoreTypes, redis
<1>7. SendInv'
  <2>1. UNCHANGED <<record, over>>
    BY DEF Reissue, redis, history
  <2>2. /\ record' \in {None, record} /\ over \subseteq over' /\ window' \in {0, window}
        /\ UNCHANGED <<sent, wins, failed, tangled, latest, crossed>>
    BY DEF Reissue, redis, history
  <2>3. Rests
    BY <1>0, <1>1, <2>1, <2>2, RestsStep DEF Verifying
  <2>4. QED
    BY <2>3, RestsKeep
<1>8. IssuesAreCounted'
  BY <1>1, IssueBegins DEF Reissue, Issuing, redis
<1>9. QED
  BY <1>1, <1>2, <1>3, <1>4, <1>5, <1>6, <1>7, <1>8, StepKeeps

LEMMA VerifyByCodeKeeps ==
    ASSUME OtpInv, NEW r \in Requests, NEW k \in 0..MaxDispatch, VerifyByCode(r, k)
    PROVE  OtpInv'
<1> USE NoneFits
<1>0. /\ pc[r] = "idle" /\ LocalTypes /\ StoreTypes /\ SendInv /\ DispatchesFit
      /\ held[r] \in Record /\ secret[r] \in 0..MaxDispatch
      /\ count[r] \in 0..maxSendsPerWindow /\ mine[r] \in 0..MaxDispatch
      /\ Fits(pc[r], held[r], secret[r], count[r], mine[r], sent)
  BY Own DEF VerifyByCode, Goto
<1>1. PICK to \in {"capSession", "compare"} :
         /\ Goto(r, "idle", to)
         /\ to = "compare" => record.attempts < maxAttempts
  <2>1. record.attempts >= maxAttempts \/ record.attempts < maxAttempts
    BY <1>0, NumbersAre, Bounds
  <2>2. QED
    BY <2>1 DEF VerifyByCode
<1>2. Moves(r, "idle", to, record, k, count[r], mine[r])
  BY <1>0, <1>1 DEF VerifyByCode, Goto, Moves, LocalTypes
<1>3. record.send # 0 /\ record.send \in 1..sent
  BY <1>0, NumbersAre DEF SendInv, SendsAreMade, VerifyByCode
<1>4. Fits(to, record, k, count[r], mine[r], sent)
  BY <1>0, <1>1, <1>3 DEF Fits, Holding, Verifying, Storing
<1>5. to \in Label /\ record \in Record
  BY <1>0 DEF Label, Verifying, StoreTypes
<1>6. to \notin Issuing
  BY DEF Issuing
<1>7. DispatchesFit'
  BY <1>0, <1>2, <1>6, DispatchesKept DEF VerifyByCode
<1>8. StoreTypes'
  <2>1. record.send \in Send
    BY <1>0, <1>3, NumbersAre, Bounds DEF StoreTypes, Send
  <2>2. tangled' \subseteq Send
    BY <1>0, <2>1 DEF VerifyByCode, StoreTypes
  <2>3. QED
    BY <1>0, <2>2 DEF VerifyByCode, StoreTypes, redis
<1>9. SendInv'
  <2>1. Others(r) /\ pc'[r] = to /\ held'[r] = record /\ mine'[r] = mine[r]
    BY <1>0, <1>2, MovesAre
  <2>2. Takes(r)
    BY <1>0, <1>3, <2>1 DEF VerifyByCode, Takes, Verifying, redis
  <2>3. QED
    BY <2>2, TakesKeeps
<1>10. IssuesAreCounted'
  <2>1. "idle" \notin Issuing /\ UNCHANGED <<throttle, window, loose>>
    BY DEF VerifyByCode, Issuing, redis
  <2>2. QED
    BY <1>2, <1>6, <2>1, IssueRests
<1>11. QED
  BY <1>0, <1>2, <1>4, <1>5, <1>7, <1>8, <1>9, <1>10, StepKeeps DEF VerifyByCode

LEMMA DispatchKeeps ==
    ASSUME OtpInv, NEW r \in Requests, Dispatch(r)
    PROVE  OtpInv'
<1> USE NoneFits
<1>0. /\ pc[r] = "dispatch" /\ LocalTypes /\ StoreTypes /\ SendInv /\ DispatchesFit
      /\ held[r] \in Record /\ secret[r] \in 0..MaxDispatch
      /\ count[r] \in 0..maxSendsPerWindow /\ mine[r] \in 0..MaxDispatch
      /\ Fits(pc[r], held[r], secret[r], count[r], mine[r], sent)
  BY Own DEF Dispatch, Goto
<1>1. Moves(r, "dispatch", "setSession", held[r], secret[r], count[r], sent + 1)
  BY <1>0 DEF Dispatch, Goto, Moves, LocalTypes
<1>2. mine[r] = 0 /\ held[r] = None /\ count[r] < maxSendsPerWindow
  BY <1>0 DEF Fits, Holding, Verifying, Storing
<1>3. /\ DispatchesFit' /\ sent + 1 \in Send /\ sent' = sent + 1
      /\ sent \in Nat /\ sent' \in 0..MaxDispatch
  <2>1. /\ Cardinality(Pending) \in Nat /\ Cardinality(Pending)' \in Nat
        /\ Cardinality(Pending)' = Cardinality(Pending)
              + (IF "setSession" \in Issuing /\ sent + 1 = 0 THEN 1 ELSE 0)
              - (IF "dispatch" \in Issuing /\ mine[r] = 0 THEN 1 ELSE 0)
    BY <1>0, <1>1, PendingMoves
  <2>2. sent \in Nat /\ sent' = sent + 1
    BY <1>0, NumbersAre DEF Dispatch
  <2>3. Cardinality(Pending)' = Cardinality(Pending) - 1
    BY <1>2, <2>1, <2>2 DEF Issuing
  <2>4. QED
    BY <1>0, <2>1, <2>2, <2>3, Bounds DEF DispatchesFit, Send
<1>4. LocalTypes' /\ LocalsFit'
  <2>1. /\ "setSession" \in Label /\ held[r] \in Record /\ sent + 1 \in 0..MaxDispatch
        /\ sent' \in Nat /\ sent <= sent'
    BY <1>0, <1>3, Bounds DEF Label, Issuing
  <2>2. Fits("setSession", held[r], secret[r], count[r], sent + 1, sent')
    BY <1>2, <1>3 DEF Fits, Holding, Verifying, Storing
  <2>3. LocalsFit
    BY InvParts
  <2>4. QED
    BY <1>0, <1>1, <2>1, <2>2, <2>3, LocalsStep
<1>5. StoreTypes'
  <2>1. \A q \in Requests : pc[q] = "setSession" => mine[q] \in Send
    BY SendingIsFit, InvParts
  <2>2. crossed' \subseteq Send
    BY <1>0, <1>3, <2>1 DEF Dispatch, StoreTypes
  <2>3. window' \in 0..MaxDispatch
    BY <1>0, <1>3, NumbersAre, Bounds DEF Dispatch, SendInv, SendsAreMade
  <2>4. QED
    BY <1>0, <1>3, <2>2, <2>3 DEF Dispatch, StoreTypes, redis
<1>6. SendInv'
  <2>1. Others(r) /\ pc'[r] = "setSession" /\ held'[r] = held[r] /\ mine'[r] = sent + 1
    BY <1>0, <1>1, MovesAre
  <2>2. Sends(r)
    BY <1>0, <1>2, <1>3, <2>1 DEF Dispatch, Sends, redis
  <2>3. QED
    BY <2>2, SendsKeeps
<1>7. IssuesAreCounted'
  <2>1. ~loose => IssueCounts(r)
    BY <1>0, InvParts DEF IssuesAreCounted
  <2>2. UNCHANGED loose /\ pc'[r] = "setSession" /\ count'[r] = count[r]
    BY <1>0, <1>1, MovesAre DEF Dispatch
  <2>3. ~loose => IssueCounts(r)'
    BY <1>0, <2>1, <2>2, NumbersAre, Bounds DEF Dispatch, IssueCounts, Storing
  <2>4. QED
    BY <1>1, <2>2, <2>3, IssueMoves DEF Issuing
<1>8. OtpInv' <=> /\ LocalTypes' /\ StoreTypes' /\ DispatchesFit' /\ LocalsFit'
                  /\ SendInv' /\ IssuesAreCounted'
  BY InvParts, PTL
<1>9. QED
  BY <1>3, <1>4, <1>5, <1>6, <1>7, <1>8

LEMMA FaultKeeps ==
    ASSUME OtpInv, NEW r \in Requests, Fault(r)
    PROVE  OtpInv'
<1> USE NoneFits
<1>0. /\ LocalTypes /\ StoreTypes /\ SendInv /\ DispatchesFit
      /\ Fits(pc[r], held[r], secret[r], count[r], mine[r], sent)
  BY Own
<1>1. Moves(r, pc[r], "idle", None, 0, 0, 0)
  BY <1>0 DEF Fault, Return, Goto, Moves
<1>2. UNCHANGED <<record, over, sent, wins, failed, tangled, latest, crossed, window, throttle>>
  BY DEF Fault, redis
<1>3. "idle" \in Label /\ Fits("idle", None, 0, 0, 0, sent) /\ 0 \in 0..MaxDispatch
      /\ 0 \in 0..maxSendsPerWindow
  BY Bounds DEF Label, Fits, Holding, Verifying, Storing
<1>4. DispatchesFit'
  BY <1>0, <1>1, <1>2, DispatchesKept DEF Issuing
<1>5. StoreTypes'
  <2>1. loose' \in BOOLEAN
    BY <1>0, Zenon DEF Fault, StoreTypes
  <2>2. faults' \in 0..MaxFaults
    BY <1>0, Bounds DEF Fault, StoreTypes
  <2>3. QED
    BY <1>0, <2>1, <2>2 DEF Fault, StoreTypes, redis
<1>6. SendInv'
  <2>1. Rests
    BY <1>0, <1>1, <1>2, RestsStep DEF Verifying
  <2>2. QED
    BY <2>1, RestsKeep
<1>7. IssuesAreCounted'
  <2>1. loose' \/ (UNCHANGED loose /\ pc[r] \notin Issuing)
    BY <1>0, Zenon DEF Fault, StoreTypes
  <2>2. CASE loose'
    BY <2>2 DEF IssuesAreCounted
  <2>3. CASE UNCHANGED loose /\ pc[r] \notin Issuing
    BY <1>1, <1>2, <2>3, IssueRests DEF Issuing
  <2>4. QED
    BY <2>1, <2>2, <2>3
<1>8. QED
  BY <1>1, <1>2, <1>3, <1>4, <1>5, <1>6, <1>7, StepKeeps

LEMMA HandlerKeeps ==
    ASSUME OtpInv, NEW r \in Requests, Handler(r)
    PROVE  OtpInv'
  BY IssueKeeps, ReissueKeeps, DestroySessionKeeps, DestroyIndexKeeps, GetThrottleKeeps,
     ThrottledKeeps, DispatchKeeps, SetSessionKeeps, SetIndexKeeps, SetThrottleKeeps,
     VerifyByCodeKeeps, VerifyByTokenKeeps, WrongCodeKeeps, RightCodeKeeps, ConsumedKeeps,
     CapSessionKeeps, CapIndexKeeps, LookupKeeps, LookupFailsKeeps, DropIndexKeeps,
     WinSessionKeeps DEF Handler

-------------------------------------------------------------------------------
(* Time: no handler moves. *)

LEMMA TimeKeeps ==
    ASSUME OtpInv, UNCHANGED <<locals, sent>>, StoreTypes', Rests, IssuesAreCounted'
    PROVE  OtpInv'
<1>1. LocalTypes /\ DispatchesFit /\ LocalsFit
  BY InvParts
<1>2. LocalTypes' /\ DispatchesFit' /\ LocalsFit'
  BY <1>1 DEF LocalTypes, DispatchesFit, Pending, LocalsFit, locals
<1>3. SendInv'
  BY RestsKeep
<1>4. OtpInv' <=> /\ LocalTypes' /\ StoreTypes' /\ DispatchesFit' /\ LocalsFit'
                  /\ SendInv' /\ IssuesAreCounted'
  BY InvParts, PTL
<1>5. QED
  BY <1>2, <1>3, <1>4

LEMMA EnvironmentKeeps ==
    ASSUME OtpInv, Environment
    PROVE  OtpInv'
<1> USE NoneFits
<1>0. LocalTypes /\ StoreTypes /\ SendInv /\ IssuesAreCounted
  BY InvParts
<1>1. ASSUME NEW k \in Send, Cool(k) PROVE OtpInv'
  <2>1. UNCHANGED <<locals, redis, sent, history>>
    BY <1>1 DEF Cool
  <2>2. StoreTypes'
    BY <1>0, <1>1 DEF Cool, StoreTypes, redis, history
  <2>3. Rests
    BY <1>0, <2>1 DEF Rests, locals, redis, history
  <2>4. IssuesAreCounted'
    BY <1>0, <2>1 DEF IssuesAreCounted, IssueCounts, locals, redis, history
  <2>5. QED
    BY <2>1, <2>2, <2>3, <2>4, TimeKeeps
<1>2. ASSUME NEW k \in Send, ExpireIndex(k) PROVE OtpInv'
  <2>1. UNCHANGED <<locals, record, throttle, sent, history>>
    BY <1>2 DEF ExpireIndex
  <2>2. StoreTypes'
    BY <1>0, <1>2 DEF ExpireIndex, StoreTypes, history
  <2>3. Rests
    BY <1>0, <2>1 DEF Rests, locals, history
  <2>4. IssuesAreCounted'
    BY <1>0, <2>1 DEF IssuesAreCounted, IssueCounts, locals, history
  <2>5. QED
    BY <2>1, <2>2, <2>3, <2>4, TimeKeeps
<1>3. CASE Expire
  <2>1. /\ UNCHANGED <<locals, throttle, sent, wins, failed, tangled, latest, crossed,
                       window, loose>>
        /\ record' = None /\ over' = over \cup {record.send}
    BY <1>3 DEF Expire
  <2>2. StoreTypes'
    BY <1>0, <1>3, <2>1 DEF Expire, StoreTypes
  <2>3. latest # 0 => latest \in over' \cup crossed
    BY <1>0, <2>1 DEF SendInv, DestroyersAreCrossed, LatestCodeWorks
  <2>4. Rests
    BY <1>0, <2>1, <2>3 DEF Rests, locals
  <2>5. IssuesAreCounted'
    BY <1>0, <2>1 DEF IssuesAreCounted, IssueCounts, locals
  <2>6. QED
    BY <2>1, <2>2, <2>4, <2>5, TimeKeeps
<1>4. CASE ExpireThrottle
  <2>1. /\ UNCHANGED <<locals, record, sent, wins, failed, over, tangled, latest, crossed, loose>>
        /\ throttle' = 0 /\ window' = 0
    BY <1>4 DEF ExpireThrottle
  <2>2. StoreTypes'
    BY <1>0, <1>4, <2>1, Bounds DEF ExpireThrottle, StoreTypes
  <2>3. Rests
    BY <1>0, <2>1 DEF Rests, locals
  <2>4. \A q \in Requests : count[q] \in Nat /\ IssueCounts(q)'
    BY <1>0, <2>1, Bounds DEF LocalTypes, IssueCounts, locals
  <2>5. IssuesAreCounted'
    BY <1>0, <2>1, <2>4 DEF IssuesAreCounted, locals
  <2>6. QED
    BY <2>1, <2>2, <2>3, <2>5, TimeKeeps
<1>5. QED
  BY <1>1, <1>2, <1>3, <1>4 DEF Environment

LEMMA OtpStep == OtpInv /\ [Next]_vars => OtpInv'
<1> SUFFICES ASSUME OtpInv, [Next]_vars PROVE OtpInv'
  OBVIOUS
<1>2. ASSUME NEW r \in Requests, Handler(r) \/ Fault(r) PROVE OtpInv'
  BY <1>2, HandlerKeeps, FaultKeeps
<1>3. CASE Environment
  BY <1>3, EnvironmentKeeps
<1>4. CASE UNCHANGED vars
  <2>1. UNCHANGED <<redis, cold, sent, locals, faults, history>>
    BY <1>4 DEF vars
  <2>2. LocalTypes /\ StoreTypes /\ IssuesAreCounted
    BY InvParts
  <2>3. StoreTypes'
    BY <2>1, <2>2, StoresStay
  <2>4. Rests
    BY <2>1, <2>2, NoneFits DEF Rests, locals, redis, history
  <2>5. IssuesAreCounted'
    BY <2>1, <2>2 DEF IssuesAreCounted, IssueCounts, locals, redis, history
  <2>6. QED
    BY <2>1, <2>3, <2>4, <2>5, TimeKeeps
<1>5. QED
  BY <1>2, <1>3, <1>4 DEF Next

-------------------------------------------------------------------------------
(* The invariant holds in every state of the service. *)
THEOREM OtpInvariance == Spec => []OtpInv
  BY OtpInitInv, OtpStep, PTL DEF Spec

(* What the service stores and what its handlers hold is of its kind: the  *)
(* attempts never pass their limit, nor the throttle its own.              *)
THEOREM OtpTypes == Spec => []TypeOK
<1>1. OtpInv => TypeOK
  BY DEF OtpInv
<1>2. QED
  BY <1>1, OtpInvariance, PTL

(* verifyByCode and verifyByToken accept a send once: a second acceptance  *)
(* needs two verifications that read the record of that send before either *)
(* of them had put it back or deleted it.  Resends, expiries, caps and     *)
(* handlers that die never open a second one.                              *)
THEOREM SendsAreAcceptedOnce == Spec => []WinsNeedOverlap
<1>1. OtpInv => WinsNeedOverlap
  <2>1. SUFFICES ASSUME OtpInv, NEW k \in Send, k \notin tangled PROVE ~(wins[k] > 1)
    BY DEF WinsNeedOverlap
  <2>2. wins[k] <= 1 /\ wins[k] \in Nat
    BY <2>1, InvParts, NumbersAre DEF SendInv, UntangledIsOne, WonOnce
  <2>3. QED
    BY <2>2
<1>2. QED
  BY <1>1, OtpInvariance, PTL

(* The attempts counter is read, compared and written back in three steps  *)
(* of verifyByCode; only verifications of the same send that hold its      *)
(* record at the same time let more than maxAttempts wrong codes pass.     *)
THEOREM GuessesAreCapped == Spec => []GuessesNeedOverlap
<1>1. OtpInv => GuessesNeedOverlap
  <2>1. SUFFICES ASSUME OtpInv, NEW k \in Send, k \notin tangled
                 PROVE ~(failed[k] > maxAttempts)
    BY DEF GuessesNeedOverlap
  <2>2. failed[k] <= maxAttempts /\ failed[k] \in Nat
    BY <2>1, InvParts, NumbersAre DEF SendInv, UntangledIsOne, AllCounted
  <2>3. QED
    BY <2>2, Bounds
<1>2. QED
  BY <1>1, OtpInvariance, PTL

(* issue replaces the record of the send before it, and verifyByCode puts  *)
(* back what it read: an old record is back only if it was in a handler's  *)
(* hands when the new one was stored, or two issues were in flight.        *)
THEOREM OldRecordsStayDead == Spec => []SupersededStaysDead
<1>1. OtpInv => SupersededStaysDead
  BY DEF OtpInv, ReadersAreCrossed
<1>2. QED
  BY <1>1, OtpInvariance, PTL

(* destroy deletes whatever record is there: it takes the code of the last *)
(* message only from a handler that had read this very send, unless the    *)
(* send was stored in between.                                             *)
THEOREM LastCodeLives == Spec => []LatestCodeWorks
<1>1. OtpInv => LatestCodeWorks
  BY DEF OtpInv, DestroyersAreCrossed
<1>2. QED
  BY <1>1, OtpInvariance, PTL

(* issue reads the throttle, sends, and writes the count back: with one    *)
(* issue at a time that runs to its end, no message goes uncounted.        *)
THEOREM ThrottleIsExact == Spec => []ThrottleCountsSends
<1>1. OtpInv => ThrottleCountsSends
  <2>1. SUFFICES ASSUME OtpInv, \A r \in Requests : pc[r] \notin Issuing, ~loose
                 PROVE  window <= throttle
    BY DEF ThrottleCountsSends
  <2>2. QED
    BY <2>1 DEF OtpInv, IssuesAreCounted
<1>2. QED
  BY <1>1, OtpInvariance, PTL
===============================================================================

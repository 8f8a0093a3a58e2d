---------------------------- MODULE AccountsProofs ----------------------------
(***************************************************************************)
(* Theorems about Accounts, for any users, addresses, provider accounts    *)
(* and handlers: no live account is locked out or loses its last verified  *)
(* address by removing things, verified addresses are proven ones, and a   *)
(* settled account has one primary of a kind, after which its password     *)
(* credential is named.                                                    *)
(***************************************************************************)
EXTENDS Accounts, FiniteSetTheorems, TLAPS

Subject == Address \cup GoogleIds \cup AppleIds

(* The tables with their domains, and the primary keys. *)
Tables ==
    /\ users \in [Users -> {"free", "live", "deleted", "stale"}]
    /\ address \in [Address -> Identifier \cup {NoRowHere}]
    /\ credential \in [Users -> [Provider -> Subject \cup {None}]]
    /\ \A u \in Users, p \in Provider : credential[u][p] \in Subjects(p) \cup {None}
    /\ rowIds \in 0..MaxRowIds

Codings == sent \in [Users -> [Purpose \X Kind -> Address \cup {None}]]

Keys ==
    /\ \A a \in Address : address[a].id <= rowIds
    /\ \A a, b \in Address : address[a].id = address[b].id /\ address[a].id # 0 => a = b

(* What a handler has been sent and has read when it comes to a label. *)
OnAddress == AccountWriting \ {"createCredential"}
SigningUp == {"createUser", "createOAuth"}

CallFits(label, c) ==
    /\ label = "idle" => c = NoCall
    /\ IF label \in AccountWriting THEN c.user \in Users ELSE c.user = None
    /\ label \in OnAddress => \E a \in Address : c.wanted = {a}
    /\ label \in SigningUp \cup {"createCredential"} => c.subject \in Subjects(c.provider)
    /\ label \in SigningUp => AtMostOne(c.wanted \cap Emails) /\ AtMostOne(c.wanted \cap Phones)
    /\ label = "createUser" =>
          /\ c.provider = "EMAIL" /\ c.subject \in c.wanted
          /\ c.wanted \cap Emails # {} => c.subject \in Emails
    /\ label = "createOAuth" => c.provider \in OAuth
    /\ label \in {"mark", "delete", "clear", "setPrimary"} => c.id # 0
    /\ label \in {"owner", "findPrimary"} => c.id = 0
    /\ label = "findVerify" => ~c.primary
    /\ label \in {"owner", "delete"} => c.primary
    /\ label = "create" /\ c.id # 0 => c.primary

(* What it has read is so still, or the row is gone: rows do not change    *)
(* their owner, and are not unverified again.                              *)
Proving == {"findVerify", "mark", "findPrimary", "create", "owner", "delete"}

HasAddress(u) == u \in torn \/ \E a \in Address : address[a].user = u

ReadStill(label, c) ==
    /\ c.id <= rowIds /\ \A i \in c.old : i <= rowIds
    /\ label \in AccountWriting => users[c.user] # "free"
    /\ label \in Proving => \A a \in c.wanted : <<c.user, a>> \in proven
    /\ label = "mark" => \A a \in RowsById(c.id) : c.wanted = {a} /\ address[a].user = c.user
    /\ label = "delete" => \A a \in RowsById(c.id) : address[a].user = c.user
    /\ label \in {"clear", "setPrimary"} => \A a \in RowsById(c.id) :
          c.wanted = {a} /\ address[a].user = c.user /\ address[a].verified
    /\ label = "setPrimary" =>
          \A a \in Address : address[a].id \in c.old => address[a].user = c.user
    /\ label = "createCredential" /\ c.provider = "EMAIL" /\ c.user \in Live => HasAddress(c.user)

CallsFit == \A r \in Requests : CallFits(pc[r], call[r]) /\ ReadStill(pc[r], call[r])

(* What keeps an account reachable: a login, an address for its password,  *)
(* and a verified address as soon as one of its addresses can be removed.  *)
Removable(u) == {a \in Address : address[a].user = u /\ ~address[a].primary}

Reachable(u) ==
    /\ LoginsOf(u) # {}
    /\ credential[u]["EMAIL"] # None => HasAddress(u)
    /\ Removable(u) # {} => u \in torn \/ VerifiedOf(u) # {}

FreeHaveNothing ==
    \A u \in Users : users[u] = "free" =>
        /\ \A p \in Provider : credential[u][p] = None
        /\ \A a \in Address : address[a].user # u

AccountsReachable == \A u \in Live : Reachable(u)

(* An account without a handler is in order; the one handler of an account *)
(* knows how far it is from that.                                          *)
OnePrimary(u, k) == Own(u, k) = {} \/ \E a \in Address : PrimaryOf(u, k) = {a}
Named(u) == credential[u]["EMAIL"] \in Emails => credential[u]["EMAIL"] \in PrimaryOf(u, "EMAIL")

InOrder(u) == Named(u) /\ \A k \in Kind : OnePrimary(u, k)

Replacing(u, k) ==    \* no primary of this kind until the create
    /\ PrimaryOf(u, k) = {}
    /\ \A l \in Kind \ {k} : OnePrimary(u, l)
    /\ k = "PHONE" => Named(u)

Replaced(u, a) ==     \* a is the new primary, the credential still to follow
    /\ PrimaryOf(u, KindOf(a)) = {a}
    /\ \A l \in Kind : OnePrimary(u, l)
    /\ a \in Phones => Named(u)

AloneFits(u, label, c) ==
    /\ label \notin {"create", "sync"} => InOrder(u)
    /\ label \in {"mark", "delete", "setPrimary", "sync", "create"} =>
          \A a \in c.wanted :
              /\ label = "mark" /\ c.primary => PrimaryOf(u, KindOf(a)) = {a}
              /\ label = "delete" =>
                    \E b \in Address : PrimaryOf(u, KindOf(a)) = {b} /\ address[b].id = c.id
              /\ label = "setPrimary" =>
                    c.old = {address[b].id : b \in PrimaryOf(u, KindOf(a))}
              /\ label = "sync" => Replaced(u, a)
              /\ label = "create" =>
                    IF c.id # 0 THEN Replacing(u, KindOf(a))
                    ELSE InOrder(u) /\ (c.primary <=> PrimaryOf(u, KindOf(a)) = {})
    /\ label = "createCredential" /\ c.provider = "EMAIL" =>
          c.subject \in PrimaryOf(u, "EMAIL")

Alone(u) ==
    /\ \A q, r \in Caller(u) : q = r
    /\ Caller(u) = {} => InOrder(u)
    /\ \A r \in Caller(u) : AloneFits(u, pc[r], call[r])

AloneInOrder == \A u \in Live \ marred : Alone(u)

AccountsInv ==
    /\ AccountsTypeOK /\ Tables /\ Codings /\ Keys /\ CallsFit
    /\ VerifiedIsProven /\ FreeHaveNothing /\ AccountsReachable /\ AloneInOrder

-------------------------------------------------------------------------------
(* The assumptions, as the provers need them. *)
LEMMA Bounds ==
    /\ MaxRowIds \in Nat /\ MaxCalls \in Nat /\ MaxFaults \in Nat
    /\ Emails \cap Phones = {}
    /\ None \notin Users \cup Address \cup GoogleIds \cup AppleIds
  BY AccountsAssumption, HandlersAssumption DEF Address

(* What the handlers keep in memory, and the histories. *)
LocalTypes ==
    /\ pc \in [Requests -> AccountLabel]
    /\ faults \in 0..MaxFaults
    /\ call \in [Requests -> Call]
    /\ calls \in 0..MaxCalls
    /\ proven \subseteq Users \X Address
    /\ torn \subseteq Users /\ marred \subseteq Users

TablesInv ==
    /\ Tables /\ Keys /\ VerifiedIsProven
    /\ FreeHaveNothing /\ AccountsReachable

(* The declared types follow from the tables' and the handlers' own. *)
LEMMA TypesFollow ==
    ASSUME Tables, Codings, LocalTypes PROVE AccountsTypeOK
<1>1. \A u \in Users, p \in Purpose, k \in Kind : sent[u][<<p, k>>] \in Address \cup {None}
  BY DEF Codings
<1>2. QED
  BY <1>1 DEF Tables, LocalTypes, AccountsTypeOK

(* The invariant in the parts a step is shown to preserve. *)
LEMMA PartsOfInv ==
    AccountsInv <=> TablesInv /\ Codings /\ LocalTypes /\ CallsFit /\ AloneInOrder
<1>1. AccountsTypeOK => LocalTypes
  BY DEF AccountsTypeOK, LocalTypes
<1>2. QED
  BY <1>1, TypesFollow DEF AccountsInv, TablesInv

LEMMA PartsAfter ==
    TablesInv' /\ Codings' /\ LocalTypes' /\ CallsFit' /\ AloneInOrder' => AccountsInv'
  BY PartsOfInv, PTL

(* What a handler that has ended remembers. *)
LEMMA NoCallIsCall == NoCall \in Call /\ NoCall.user = None /\ NoCall.wanted = {}
                      /\ NoCall.id = 0 /\ NoCall.old = {} /\ NoCall.subject = None
                      /\ NoCall.provider = "EMAIL" /\ ~NoCall.primary
  BY Bounds DEF NoCall, Call, Provider

(* A row is empty, or has a user and a number. *)
LEMMA RowTypes ==
    ASSUME Tables, NEW a \in Address
    PROVE  /\ address[a] = NoRowHere \/ address[a] \in Identifier
           /\ address[a].id \in 0..MaxRowIds /\ address[a].user \in Users \cup {None}
           /\ address[a].primary \in BOOLEAN /\ address[a].verified \in BOOLEAN
           /\ address[a] = NoRowHere <=> address[a].id = 0
           /\ address[a] = NoRowHere <=> address[a].user = None
           /\ address[a] = NoRowHere => ~address[a].primary /\ ~address[a].verified
<1>1. address[a] = NoRowHere \/ address[a] \in Identifier
  BY DEF Tables
<1>2. CASE address[a] = NoRowHere
  BY <1>2, Bounds DEF NoRowHere
<1>3. CASE address[a] \in Identifier
  <2>1. address[a].id \in 1..MaxRowIds /\ address[a].user \in Users
        /\ address[a].primary \in BOOLEAN /\ address[a].verified \in BOOLEAN
    BY <1>3 DEF Identifier
  <2>2. address[a] # NoRowHere /\ address[a].id # 0 /\ address[a].user # None
    BY <2>1, Bounds DEF NoRowHere
  <2>3. QED
    BY <1>1, <2>1, <2>2, Bounds
<1>4. QED
  BY <1>1, <1>2, <1>3

-------------------------------------------------------------------------------
(* What every step leaves to the handlers that have read something.        *)
Steady ==
    /\ rowIds <= rowIds' /\ proven \subseteq proven'
    /\ \A a \in Address : address'[a].id # 0 =>
          \/ address'[a].id > rowIds
          \/ /\ address'[a].id = address[a].id /\ address'[a].user = address[a].user
             /\ address[a].verified => address'[a].verified
    /\ \A u \in Users : users[u] # "free" =>
          users'[u] # "free" /\ (users'[u] = "live" => users[u] = "live")
    /\ \A u \in Live : u \in Live' /\ HasAddress(u) => HasAddress(u)'

(* What a handler has read survives a steady step of anybody. *)
LEMMA ReadStillKeeps ==
    ASSUME Tables, Tables', Steady, NEW label, NEW c \in Call, c.user \in Users \cup {None},
           CallFits(label, c), ReadStill(label, c)
    PROVE  ReadStill(label, c)'
<1>1. rowIds \in Nat /\ rowIds' \in Nat /\ rowIds <= rowIds'
  BY Bounds DEF Tables, Steady
<1>2. c.id \in Nat /\ c.old \subseteq Nat \ {0}
  BY Bounds DEF Call
<1>3. c.id <= rowIds' /\ \A i \in c.old : i <= rowIds'
  BY <1>1, <1>2 DEF ReadStill
<1>4. \A a \in Address : address'[a].id \in Nat /\ address[a].id \in Nat
  BY Bounds DEF Tables, Identifier, NoRowHere
<1>5. ASSUME NEW a \in Address, address'[a].id # 0,
             address'[a].id = c.id \/ address'[a].id \in c.old
      PROVE  /\ address'[a].id = address[a].id /\ address'[a].user = address[a].user
             /\ address[a].verified => address'[a].verified
  BY <1>1, <1>2, <1>4, <1>5 DEF Steady, ReadStill
<1>6. label \in {"mark", "delete", "clear", "setPrimary"} => c.id # 0
  BY DEF CallFits
<1>7. label \in AccountWriting => users'[c.user] # "free"
  BY DEF ReadStill, Steady, CallFits
<1>8. label \in Proving => \A a \in c.wanted : <<c.user, a>> \in proven'
  BY DEF ReadStill, Steady
<1>9. /\ label = "mark" => \A a \in RowsById(c.id)' : c.wanted = {a} /\ address'[a].user = c.user
      /\ label = "delete" => \A a \in RowsById(c.id)' : address'[a].user = c.user
      /\ label \in {"clear", "setPrimary"} => \A a \in RowsById(c.id)' :
            c.wanted = {a} /\ address'[a].user = c.user /\ address'[a].verified
  BY <1>5, <1>6 DEF ReadStill, RowsById
<1>10. label = "setPrimary" =>
          \A a \in Address : address'[a].id \in c.old => address'[a].user = c.user
  BY <1>2, <1>5 DEF ReadStill
<1>11. label = "createCredential" /\ c.provider = "EMAIL" /\ c.user \in Live' => HasAddress(c.user)'
  <2>1. label = "createCredential" => c.user \in Users /\ users[c.user] # "free"
    BY DEF CallFits, ReadStill, AccountWriting
  <2>2. QED
    BY <2>1 DEF ReadStill, Steady, Live
<1>12. QED
  BY <1>3, <1>7, <1>8, <1>9, <1>10, <1>11 DEF ReadStill

(* A handler fits by its label and its call, however these are written. *)
LEMMA FitsAfter ==
    ASSUME NEW q, NEW label, NEW c, pc'[q] = label, call'[q] = c,
           CallFits(label, c), ReadStill(label, c)'
    PROVE  CallFits(pc[q], call[q])' /\ ReadStill(pc[q], call[q])'
  BY DEF CallFits, ReadStill, RowsById, HasAddress, Live

(* One handler moves: the others have read what they have read. *)
LEMMA CallsFitStep ==
    ASSUME AccountsInv, NEW r \in Requests, NEW to, NEW l,
           pc' = [pc EXCEPT ![r] = to], call' = [call EXCEPT ![r] = l],
           Tables', Steady, CallFits(to, l), ReadStill(to, l)'
    PROVE  CallsFit'
<1>1. Tables /\ LocalTypes /\ CallsFit
  BY PartsOfInv DEF TablesInv
<1>2. pc'[r] = to /\ call'[r] = l
  BY <1>1 DEF LocalTypes
<1>3. CallFits(pc[r], call[r])' /\ ReadStill(pc[r], call[r])'
  BY <1>2, FitsAfter
<1>4. ASSUME NEW q \in Requests \ {r}
      PROVE  CallFits(pc[q], call[q])' /\ ReadStill(pc[q], call[q])'
  <2>1. PICK label, c : label = pc[q] /\ c = call[q]
    OBVIOUS
  <2>2. c \in Call /\ c.user \in Users \cup {None} /\ CallFits(label, c) /\ ReadStill(label, c)
    BY <1>1, <2>1 DEF LocalTypes, CallsFit, Call
  <2>3. ReadStill(label, c)'
    BY <1>1, <2>2, ReadStillKeeps
  <2>4. pc'[q] = label /\ call'[q] = c
    BY <1>1, <2>1 DEF LocalTypes
  <2>5. QED
    BY <2>2, <2>3, <2>4, FitsAfter
<1>5. QED
  BY <1>3, <1>4 DEF CallsFit

(* No handler moves. *)
LEMMA CallsFitStand ==
    ASSUME AccountsInv, UNCHANGED <<pc, call>>, Tables', Steady
    PROVE  CallsFit'
<1>1. Tables /\ LocalTypes /\ CallsFit
  BY PartsOfInv DEF TablesInv
<1>2. ASSUME NEW q \in Requests
      PROVE  CallFits(pc[q], call[q])' /\ ReadStill(pc[q], call[q])'
  <2>1. PICK label, c : label = pc[q] /\ c = call[q]
    OBVIOUS
  <2>2. c \in Call /\ c.user \in Users \cup {None} /\ CallFits(label, c) /\ ReadStill(label, c)
    BY <1>1, <2>1 DEF LocalTypes, CallsFit, Call
  <2>3. ReadStill(label, c)'
    BY <1>1, <2>2, ReadStillKeeps
  <2>4. pc'[q] = label /\ call'[q] = c
    BY <2>1
  <2>5. QED
    BY <2>2, <2>3, <2>4, FitsAfter
<1>3. QED
  BY <1>2 DEF CallsFit

-------------------------------------------------------------------------------
(* A step takes nothing from v but secondary addresses and logins. *)
Lessens(v) ==
    /\ credential'[v]["EMAIL"] \in {credential[v]["EMAIL"], None}
    /\ \A a \in Address :
          /\ address'[a].user = v => address[a].user = v
          /\ (address'[a].user = v /\ address'[a].primary)
                 <=> (address[a].user = v /\ address[a].primary)
          /\ address[a].user = v /\ address[a].primary => address'[a].id = address[a].id

(* An account that only loses secondary addresses stays in order. *)
LEMMA LessensOrder ==
    ASSUME NEW v, Lessens(v)
    PROVE  /\ \A k : PrimaryOf(v, k)' = PrimaryOf(v, k)
           /\ \A k : OnePrimary(v, k) => OnePrimary(v, k)'
           /\ Named(v) => Named(v)'
           /\ InOrder(v) => InOrder(v)'
<1>1. \A k : PrimaryOf(v, k)' = PrimaryOf(v, k)
  BY DEF PrimaryOf, Own, Lessens
<1>2. \A k : Own(v, k)' \subseteq Own(v, k)
  BY DEF Own, Lessens
<1>3. \A k : OnePrimary(v, k) => OnePrimary(v, k)'
  BY <1>1, <1>2 DEF OnePrimary
<1>4. Named(v) => Named(v)'
  <2>1. None \notin Emails
    BY Bounds DEF Address
  <2>2. QED
    BY <1>1, <2>1 DEF Named, Lessens
<1>5. QED
  BY <1>1, <1>3, <1>4 DEF InOrder

(* ... and its handler still knows how far it is from order. *)
LEMMA LessensFits ==
    ASSUME NEW v, Lessens(v), NEW label, NEW c, AloneFits(v, label, c)
    PROVE  AloneFits(v, label, c)'
<1>1. /\ \A k : PrimaryOf(v, k)' = PrimaryOf(v, k)
      /\ \A k : OnePrimary(v, k) => OnePrimary(v, k)'
      /\ Named(v) => Named(v)'
      /\ InOrder(v) => InOrder(v)'
  BY LessensOrder
<1>2. label \notin {"create", "sync"} => InOrder(v)'
  BY <1>1 DEF AloneFits
<1>3. \A k : \A b \in PrimaryOf(v, k) : address'[b].id = address[b].id
  BY DEF PrimaryOf, Own, Lessens
<1>4. \A a : Replaced(v, a) => Replaced(v, a)'
  BY <1>1 DEF Replaced
<1>5. \A k : Replacing(v, k) => Replacing(v, k)'
  BY <1>1 DEF Replacing
<1>6. ASSUME NEW a \in c.wanted
      PROVE  /\ label = "mark" /\ c.primary => PrimaryOf(v, KindOf(a))' = {a}
             /\ label = "sync" => Replaced(v, a)'
             /\ label = "create" =>
                   IF c.id # 0 THEN Replacing(v, KindOf(a))'
                   ELSE InOrder(v)' /\ (c.primary <=> PrimaryOf(v, KindOf(a))' = {})
  BY <1>1, <1>4, <1>5, <1>6 DEF AloneFits
<1>7. ASSUME NEW a \in c.wanted, label = "delete"
      PROVE  \E b \in Address : PrimaryOf(v, KindOf(a))' = {b} /\ address'[b].id = c.id
  <2>1. PICK b \in Address : PrimaryOf(v, KindOf(a)) = {b} /\ address[b].id = c.id
    BY <1>7 DEF AloneFits
  <2>2. QED
    BY <1>1, <1>3, <2>1
<1>8. ASSUME NEW a \in c.wanted, label = "setPrimary"
      PROVE  c.old = {address'[b].id : b \in PrimaryOf(v, KindOf(a))'}
  <2>1. c.old = {address[b].id : b \in PrimaryOf(v, KindOf(a))}
    BY <1>8 DEF AloneFits
  <2>2. QED
    BY <1>1, <1>3, <2>1
<1>9. label = "createCredential" /\ c.provider = "EMAIL" => c.subject \in PrimaryOf(v, "EMAIL")'
  BY <1>1 DEF AloneFits
<1>10. QED
  BY <1>2, <1>6, <1>7, <1>8, <1>9 DEF AloneFits

(* The same for a handler given by its label and its call. *)
LEMMA AloneAfter ==
    ASSUME NEW v, NEW q, NEW label, NEW c, pc'[q] = label, call'[q] = c,
           AloneFits(v, label, c)'
    PROVE  AloneFits(v, pc[q], call[q])'
  BY DEF AloneFits, InOrder, Named, OnePrimary, Replaced, Replacing, PrimaryOf, Own

(* Nobody's handlers come or go for v. *)
LEMMA AloneKeeps ==
    ASSUME LocalTypes, NEW v, Alone(v), Lessens(v), Caller(v)' = Caller(v),
           \A q \in Caller(v) : pc'[q] = pc[q] /\ call'[q] = call[q]
    PROVE  Alone(v)'
<1>1. \A q, r \in Caller(v)' : q = r
  BY DEF Alone
<1>2. Caller(v)' = {} => InOrder(v)'
  BY LessensOrder DEF Alone
<1>3. ASSUME NEW q \in Caller(v) PROVE AloneFits(v, pc[q], call[q])'
  <2>1. PICK label, c : label = pc[q] /\ c = call[q]
    OBVIOUS
  <2>2. AloneFits(v, label, c)'
    BY <1>3, <2>1, LessensFits DEF Alone
  <2>3. QED
    BY <1>3, <2>1, <2>2, AloneAfter
<1>4. QED
  BY <1>1, <1>2, <1>3 DEF Alone

(* A step that moves no handler. *)
LEMMA AloneStand ==
    ASSUME AccountsInv, UNCHANGED <<pc, call>>, marred \subseteq marred',
           \A v \in Users : users'[v] = "live" => users[v] = "live",
           \A v \in Live : Lessens(v)
    PROVE  AloneInOrder'
<1>1. LocalTypes /\ AloneInOrder
  BY PartsOfInv
<1>2. ASSUME NEW v \in Users, users'[v] = "live", v \notin marred' PROVE Alone(v)'
  <2>1. Alone(v)
    BY <1>1, <1>2 DEF AloneInOrder, Live
  <2>2. Caller(v)' = Caller(v)
    BY DEF Caller, At
  <2>3. QED
    BY <1>1, <1>2, <2>1, <2>2, AloneKeeps DEF Live
<1>3. QED
  BY <1>2 DEF AloneInOrder, Live

(* A handler moves: whose it was and whose it is. *)
LEMMA CallersMove ==
    ASSUME LocalTypes, NEW r \in Requests, NEW to, NEW l,
           pc' = [pc EXCEPT ![r] = to], call' = [call EXCEPT ![r] = l], NEW v
    PROVE  /\ Caller(v)' = IF to \in AccountWriting /\ l.user = v THEN Caller(v) \cup {r}
                                                                ELSE Caller(v) \ {r}
           /\ r \in Caller(v) <=> pc[r] \in AccountWriting /\ call[r].user = v
           /\ \A q \in Requests \ {r} : pc'[q] = pc[q] /\ call'[q] = call[q]
           /\ pc'[r] = to /\ call'[r] = l
           /\ Caller(v) \subseteq Requests
  BY DEF Caller, At, LocalTypes

(* A handler of u goes on or ends.  If it is the only one of a live and    *)
(* unmarred u, it knows what it leaves.                                    *)
LEMMA AloneProceed ==
    ASSUME AccountsInv, NEW r \in Requests, NEW to, NEW l, NEW u, u = call[r].user,
           pc[r] \in AccountWriting,
           pc' = [pc EXCEPT ![r] = to], call' = [call EXCEPT ![r] = l],
           to = "idle" \/ (to \in AccountWriting /\ l.user = u),
           marred \subseteq marred',
           \A v \in Users : users'[v] = "live" => users[v] = "live",
           \A v \in Live \ {u} : Lessens(v),
           u \in Live /\ u \notin marred /\ u \notin marred' /\ AloneFits(u, pc[r], call[r])
               => IF to = "idle" THEN InOrder(u)' ELSE AloneFits(u, to, l)'
    PROVE  AloneInOrder'
<1>1. LocalTypes /\ AloneInOrder
  BY PartsOfInv
<1>2. ASSUME NEW v \in Users, users'[v] = "live", v \notin marred' PROVE Alone(v)'
  <2>1. Alone(v)
    BY <1>1, <1>2 DEF AloneInOrder, Live
  <2>2. /\ Caller(v)' = IF to \in AccountWriting /\ l.user = v THEN Caller(v) \cup {r}
                                                              ELSE Caller(v) \ {r}
        /\ r \in Caller(v) <=> pc[r] \in AccountWriting /\ call[r].user = v
        /\ \A q \in Requests \ {r} : pc'[q] = pc[q] /\ call'[q] = call[q]
        /\ pc'[r] = to /\ call'[r] = l
        /\ Caller(v) \subseteq Requests
    BY <1>1, CallersMove
  <2>3. "idle" \notin AccountWriting
    BY DEF AccountWriting
  <2>4. CASE v # u
    <3>1. r \notin Caller(v) /\ Caller(v)' = Caller(v)
      BY <2>2, <2>3, <2>4
    <3>2. \A q \in Caller(v) : pc'[q] = pc[q] /\ call'[q] = call[q]
      BY <2>2, <3>1 DEF Caller, At
    <3>3. QED
      BY <1>1, <1>2, <2>1, <2>4, <3>1, <3>2, AloneKeeps DEF Live
  <2>5. CASE v = u
    <3>1. Caller(u) = {r} /\ AloneFits(u, pc[r], call[r])
      BY <2>1, <2>2, <2>5 DEF Alone
    <3>2. IF to = "idle" THEN InOrder(u)' ELSE AloneFits(u, to, l)'
      BY <1>2, <2>5, <3>1 DEF Live
    <3>3. CASE to = "idle"
      <4>1. Caller(u)' = {}
        BY <2>2, <2>3, <2>5, <3>1, <3>3
      <4>2. QED
        BY <2>5, <3>2, <3>3, <4>1 DEF Alone
    <3>4. CASE to # "idle"
      <4>1. Caller(u)' = {r}
        BY <2>2, <2>5, <3>1, <3>4
      <4>2. AloneFits(u, pc[r], call[r])'
        BY <2>2, <3>2, <3>4, AloneAfter
      <4>3. QED
        BY <2>5, <4>1, <4>2 DEF Alone
    <3>5. QED
      BY <3>3, <3>4
  <2>6. QED
    BY <2>4, <2>5
<1>3. QED
  BY <1>2 DEF AloneInOrder, Live

(* A handler of u starts: beside another one of u, u is marred. *)
LEMMA AloneStart ==
    ASSUME AccountsInv, NEW r \in Requests, NEW to, NEW l, NEW u \in Users, u = l.user,
           pc[r] = "idle", to \in AccountWriting,
           pc' = [pc EXCEPT ![r] = to], call' = [call EXCEPT ![r] = l],
           marred \subseteq marred', Caller(u) # {} => u \in marred',
           UNCHANGED <<users, address, credential>>,
           InOrder(u) => AloneFits(u, to, l)
    PROVE  AloneInOrder'
<1>1. LocalTypes /\ AloneInOrder
  BY PartsOfInv
<1>2. ASSUME NEW v \in Users, users'[v] = "live", v \notin marred' PROVE Alone(v)'
  <2>1. Alone(v)
    BY <1>1, <1>2 DEF AloneInOrder, Live
  <2>2. /\ Caller(v)' = IF to \in AccountWriting /\ l.user = v THEN Caller(v) \cup {r}
                                                              ELSE Caller(v) \ {r}
        /\ r \in Caller(v) <=> pc[r] \in AccountWriting /\ call[r].user = v
        /\ \A q \in Requests \ {r} : pc'[q] = pc[q] /\ call'[q] = call[q]
        /\ pc'[r] = to /\ call'[r] = l
        /\ Caller(v) \subseteq Requests
    BY <1>1, CallersMove
  <2>3. "idle" \notin AccountWriting
    BY DEF AccountWriting
  <2>4. Lessens(v)
    BY DEF Lessens
  <2>5. CASE v # u
    <3>1. r \notin Caller(v) /\ Caller(v)' = Caller(v)
      BY <2>2, <2>3, <2>5
    <3>2. \A q \in Caller(v) : pc'[q] = pc[q] /\ call'[q] = call[q]
      BY <2>2, <3>1
    <3>3. QED
      BY <1>1, <2>1, <2>4, <3>1, <3>2, AloneKeeps
  <2>6. CASE v = u
    <3>1. Caller(u) = {} /\ InOrder(u)
      BY <1>2, <2>1, <2>6 DEF Alone
    <3>2. AloneFits(u, to, l)'
      BY <2>4, <2>6, <3>1, LessensFits
    <3>3. AloneFits(u, pc[r], call[r])'
      BY <2>2, <3>2, AloneAfter
    <3>4. Caller(u)' = {r}
      BY <2>2, <2>6, <3>1
    <3>5. QED
      BY <2>6, <3>3, <3>4 DEF Alone
  <2>7. QED
    BY <2>5, <2>6
<1>3. QED
  BY <1>2 DEF AloneInOrder, Live

(* A handler that signs somebody up is nobody's. *)
LEMMA AloneSignUp ==
    ASSUME AccountsInv, NEW r \in Requests, NEW to, NEW l,
           pc[r] \notin AccountWriting, to \notin AccountWriting,
           pc' = [pc EXCEPT ![r] = to], call' = [call EXCEPT ![r] = l],
           marred \subseteq marred',
           \A v \in Users : users'[v] = "live" => \/ users[v] = "live" /\ Lessens(v)
                                                  \/ Caller(v) = {} /\ InOrder(v)'
    PROVE  AloneInOrder'
<1>1. LocalTypes /\ AloneInOrder
  BY PartsOfInv
<1>2. ASSUME NEW v \in Users, users'[v] = "live", v \notin marred' PROVE Alone(v)'
  <2>1. /\ Caller(v)' = IF to \in AccountWriting /\ l.user = v THEN Caller(v) \cup {r}
                                                              ELSE Caller(v) \ {r}
        /\ r \in Caller(v) <=> pc[r] \in AccountWriting /\ call[r].user = v
        /\ \A q \in Requests \ {r} : pc'[q] = pc[q] /\ call'[q] = call[q]
        /\ Caller(v) \subseteq Requests
    BY <1>1, CallersMove
  <2>2. Caller(v)' = Caller(v) /\ \A q \in Caller(v) : pc'[q] = pc[q] /\ call'[q] = call[q]
    BY <2>1
  <2>3. CASE users[v] = "live" /\ Lessens(v)
    <3>1. Alone(v)
      BY <1>1, <1>2, <2>3 DEF AloneInOrder, Live
    <3>2. QED
      BY <1>1, <2>2, <2>3, <3>1, AloneKeeps
  <2>4. CASE Caller(v) = {} /\ InOrder(v)'
    BY <2>2, <2>4 DEF Alone
  <2>5. QED
    BY <1>2, <2>3, <2>4
<1>3. QED
  BY <1>2 DEF AloneInOrder, Live

-------------------------------------------------------------------------------
(* A live account that loses its last verified address has lost its        *)
(* primary to a contact change.                                            *)
Recovers == \A u \in Live : VerifiedOf(u) # {} /\ VerifiedOf(u)' = {} => u \in torn'

(* A step that reads only keeps the tables as they fit. *)
LEMMA Untouched ==
    ASSUME AccountsInv, UNCHANGED <<accountTables, torn>>, proven \subseteq proven'
    PROVE  TablesInv' /\ Steady /\ Recovers /\ \A v : Lessens(v)
<1>1. TablesInv
  BY PartsOfInv
<1>2. UNCHANGED <<users, address, credential, rowIds, torn>>
  BY DEF accountTables
<1>3. Tables' /\ Keys'
  BY <1>1, <1>2 DEF TablesInv, Tables, Keys
<1>4. VerifiedIsProven'
  BY <1>1, <1>2 DEF TablesInv, VerifiedIsProven
<1>5. FreeHaveNothing' /\ AccountsReachable'
  BY <1>1, <1>2 DEF TablesInv, FreeHaveNothing, AccountsReachable, Reachable, Live, LoginsOf,
                    HasAddress, Removable, VerifiedOf
<1>6. rowIds <= rowIds'
  BY <1>1, <1>2, Bounds DEF TablesInv, Tables
<1>7. Steady
  BY <1>2, <1>6 DEF Steady, HasAddress, Live
<1>8. QED
  BY <1>2, <1>3, <1>4, <1>5, <1>7 DEF TablesInv, Recovers, VerifiedOf, Lessens

(* A handler that has ended fits. *)
LEMMA IdleFits ==
    ASSUME Tables' PROVE CallFits("idle", NoCall) /\ ReadStill("idle", NoCall)'
<1>1. rowIds' \in Nat
  BY Bounds DEF Tables
<1>2. QED
  BY <1>1, NoCallIsCall DEF CallFits, ReadStill, AccountWriting, OnAddress, SigningUp, Proving

(* A handler of an account goes on or ends. *)
LEMMA HandlerGoes ==
    ASSUME AccountsInv, NEW r \in Requests, NEW from \in AccountWriting,
           NEW to \in AccountWriting \cup {"idle"}, NEW local, NEW u, u = call[r].user,
           Proceed(r, from, to, local), TablesInv', Steady,
           UNCHANGED <<sent, users, proven>>, torn' \subseteq Users,
           marred \subseteq marred', marred' \subseteq Users,
           to # "idle" => /\ local \in Call /\ local.user = u
                          /\ CallFits(to, local) /\ ReadStill(to, local)',
           \A v \in Live \ {u} : Lessens(v),
           u \in Live /\ u \notin marred /\ u \notin marred' /\ AloneFits(u, from, call[r])
               => IF to = "idle" THEN InOrder(u)' ELSE AloneFits(u, to, local)'
    PROVE  AccountsInv'
<1>1. TablesInv /\ Codings /\ LocalTypes /\ Tables'
  BY PartsOfInv DEF TablesInv
<1>2. PICK l : l = IF to = "idle" THEN NoCall ELSE local
  OBVIOUS
<1>3. pc[r] = from /\ pc' = [pc EXCEPT ![r] = to] /\ call' = [call EXCEPT ![r] = l]
      /\ UNCHANGED <<calls, faults>>
  BY <1>2 DEF Proceed, Goto
<1>4. l \in Call /\ to \in AccountLabel
  BY <1>2, NoCallIsCall DEF AccountLabel
<1>5. LocalTypes'
  BY <1>1, <1>3, <1>4 DEF LocalTypes
<1>6. CallFits(to, l) /\ ReadStill(to, l)'
  <2>1. CASE to = "idle"
    <3>1. CallFits("idle", NoCall) /\ ReadStill("idle", NoCall)'
      BY <1>1, IdleFits
    <3>2. l = NoCall
      BY <1>2, <2>1
    <3>3. QED
      BY <2>1, <3>1, <3>2 DEF CallFits, ReadStill, AccountWriting, OnAddress, SigningUp, Proving,
                              RowsById, HasAddress, Live
  <2>2. CASE to # "idle"
    <3>1. l = local
      BY <1>2, <2>2
    <3>2. CallFits(to, local) /\ ReadStill(to, local)'
      BY <2>2
    <3>3. QED
      BY <3>1, <3>2 DEF ReadStill, RowsById, HasAddress, Live
  <2>3. QED
    BY <2>1, <2>2
<1>7. CallsFit'
  BY <1>1, <1>3, <1>6, CallsFitStep
<1>8. Codings'
  BY <1>1 DEF Codings
<1>9. AloneInOrder'
  <2>1. to = "idle" \/ (to \in AccountWriting /\ l.user = u)
    BY <1>2
  <2>2. u \in Live /\ u \notin marred /\ u \notin marred' /\ AloneFits(u, pc[r], call[r])
               => IF to = "idle" THEN InOrder(u)' ELSE AloneFits(u, to, l)'
    <3>1. SUFFICES ASSUME u \in Live, u \notin marred, u \notin marred',
                          AloneFits(u, pc[r], call[r])
                   PROVE  IF to = "idle" THEN InOrder(u)' ELSE AloneFits(u, to, l)'
      OBVIOUS
    <3>2. IF to = "idle" THEN InOrder(u)' ELSE AloneFits(u, to, local)'
      BY <1>3, <3>1
    <3>3. CASE to = "idle"
      BY <3>2, <3>3
    <3>4. CASE to # "idle"
      <4>1. l = local /\ AloneFits(u, to, local)'
        BY <1>2, <3>2, <3>4
      <4>2. AloneFits(u, to, l)'
        BY <4>1 DEF AloneFits, InOrder, Named, OnePrimary, Replaced, Replacing, PrimaryOf, Own
      <4>3. QED
        BY <3>4, <4>2
    <3>5. QED
      BY <3>3, <3>4
  <2>3. \A v \in Users : users'[v] = "live" => users[v] = "live"
    OBVIOUS
  <2>4. QED
    BY <1>3, <2>1, <2>2, <2>3, AloneProceed
<1>10. QED
  BY <1>5, <1>7, <1>1, <1>8, <1>9, PartsAfter

(* It ends where it has written nothing it must follow up, or is marred. *)
LEMMA HandlerEnds ==
    ASSUME AccountsInv, NEW r \in Requests, NEW from \in AccountWriting, NEW wrote,
           Ends(r, from, wrote),
           ~wrote /\ AloneFits(call[r].user, from, call[r]) => InOrder(call[r].user)
    PROVE  AccountsInv' /\ Recovers
<1>1. Proceed(r, from, "idle", NoCall) /\ UNCHANGED <<accountTables, sent, proven, torn>>
      /\ marred' = IF wrote THEN marred \cup {call[r].user} ELSE marred
  BY DEF Ends
<1>2. TablesInv' /\ Steady /\ Recovers /\ \A v : Lessens(v)
  BY <1>1, Untouched
<1>3. PICK u : u = call[r].user
  OBVIOUS
<1>4. u \in Users /\ pc[r] = from
  BY <1>1, <1>3, PartsOfInv DEF CallsFit, CallFits, Proceed, Goto
<1>5. LocalTypes /\ users' = users
  BY <1>1, PartsOfInv DEF accountTables
<1>6. marred \subseteq marred' /\ marred' \subseteq Users /\ torn' \subseteq Users
  BY <1>1, <1>3, <1>4, <1>5 DEF LocalTypes
<1>7. u \in Live /\ u \notin marred /\ u \notin marred' /\ AloneFits(u, from, call[r])
        => InOrder(u)'
  BY <1>1, <1>2, <1>3, LessensOrder
<1>8. AccountsInv'
  BY <1>1, <1>2, <1>3, <1>5, <1>6, <1>7, HandlerGoes
<1>9. QED
  BY <1>2, <1>8

(* A handler of u starts. *)
LEMMA HandlerStarts ==
    ASSUME AccountsInv, NEW r \in Requests, NEW to \in AccountWriting,
           NEW local \in Call, NEW u \in Users, u = local.user,
           StartCall(r, to, local), Codings', proven \subseteq proven',
           proven' \subseteq Users \X Address,
           CallFits(to, local), ReadStill(to, local)',
           InOrder(u) => AloneFits(u, to, local)
    PROVE  AccountsInv' /\ Recovers
<1>1. TablesInv /\ Codings /\ LocalTypes
  BY PartsOfInv
<1>2. /\ UNCHANGED <<accountTables, torn, faults>>
      /\ pc[r] = "idle" /\ pc' = [pc EXCEPT ![r] = to]
      /\ call' = [call EXCEPT ![r] = local]
      /\ marred' = IF Caller(u) = {} THEN marred ELSE marred \cup {u}
      /\ calls < MaxCalls /\ calls' = calls + 1
  BY DEF StartCall, Goto, CountCall, MoreCalls
<1>3. TablesInv' /\ Steady /\ Recovers
  BY <1>2, Untouched
<1>4. calls' \in 0..MaxCalls
  BY <1>1, <1>2, Bounds DEF LocalTypes
<1>5. LocalTypes'
  BY <1>1, <1>2, <1>4 DEF LocalTypes, AccountLabel
<1>6. CallsFit'
  BY <1>2, <1>3, CallsFitStep DEF TablesInv
<1>7. AloneInOrder'
  <2>1. UNCHANGED <<users, address, credential>>
    BY <1>2 DEF accountTables
  <2>2. QED
    BY <1>2, <2>1, AloneStart
<1>8. QED
  BY <1>3, <1>5, <1>6, <1>7, PartsAfter

(* A call without a handler. *)
LEMMA CallStands ==
    ASSUME AccountsInv, TablesInv', Codings', Steady,
           UNCHANGED <<pc, faults, call, accountHistory>>, calls' \in 0..MaxCalls,
           \A v \in Users : users'[v] = "live" => users[v] = "live",
           \A v \in Live : Lessens(v)
    PROVE  AccountsInv'
<1>1. LocalTypes
  BY PartsOfInv
<1>2. LocalTypes'
  BY <1>1 DEF LocalTypes, accountHistory
<1>3. CallsFit'
  BY CallsFitStand DEF TablesInv
<1>4. AloneInOrder'
  BY AloneStand DEF accountHistory
<1>5. QED
  BY <1>2, <1>3, <1>4, PartsAfter

-------------------------------------------------------------------------------
(* The steps of a handler. *)
LEMMA TheAddress ==
    ASSUME AccountsInv, NEW r \in Requests, pc[r] \in OnAddress
    PROVE  /\ The(r) \in Address /\ call[r].wanted = {The(r)}
           /\ call[r] \in Call /\ call[r].user \in Users
           /\ CallFits(pc[r], call[r]) /\ ReadStill(pc[r], call[r])
           /\ TablesInv /\ Tables /\ Keys /\ LocalTypes
<1>1. CallFits(pc[r], call[r]) /\ ReadStill(pc[r], call[r]) /\ TablesInv /\ LocalTypes
  BY PartsOfInv DEF CallsFit
<1>2. PICK a \in Address : call[r].wanted = {a}
  BY <1>1 DEF CallFits
<1>3. The(r) = a
  BY <1>2 DEF The
<1>4. call[r].user \in Users
  BY <1>1 DEF CallFits, OnAddress
<1>5. QED
  BY <1>1, <1>2, <1>3, <1>4 DEF LocalTypes, TablesInv

(* The row found is the user's, has a number, and is not another's again. *)
LEMMA FindVerifyKeeps ==
    ASSUME AccountsInv, NEW r \in Requests, FindVerify(r)
    PROVE  AccountsInv' /\ Recovers
<1>1. PICK a, c, u : a = The(r) /\ c = call[r] /\ u = c.user
  OBVIOUS
<1>2. PICK to, l : /\ to = IF address[a].user = u THEN "mark" ELSE "idle"
                   /\ l = [c EXCEPT !.id = address[a].id]
  OBVIOUS
<1>3. Proceed(r, "findVerify", to, l) /\ UNCHANGED <<accountTables, sent, accountHistory>>
  BY <1>1, <1>2 DEF FindVerify
<1>4. pc[r] = "findVerify"
  BY <1>3 DEF Proceed, Goto
<1>5. /\ a \in Address /\ c.wanted = {a} /\ c \in Call /\ u \in Users
      /\ CallFits("findVerify", c) /\ ReadStill("findVerify", c)
      /\ TablesInv /\ Tables /\ Keys /\ LocalTypes
  BY <1>1, <1>4, TheAddress DEF OnAddress, AccountWriting
<1>6. UNCHANGED <<users, address, credential, rowIds, proven, torn, marred>>
  BY <1>3 DEF accountTables, accountHistory
<1>7. TablesInv' /\ Steady /\ Recovers /\ \A v : Lessens(v)
  BY <1>3, <1>6, Untouched
<1>8. CASE to = "idle"
  <2>1. AloneFits(u, "findVerify", c) => InOrder(u)'
    BY <1>7, LessensOrder DEF AloneFits
  <2>2. AccountsInv'
    BY <1>1, <1>3, <1>5, <1>6, <1>7, <1>8, <2>1, HandlerGoes DEF AccountWriting, LocalTypes
  <2>3. QED
    BY <1>7, <2>2
<1>9. CASE to # "idle"
  <2>1. to = "mark" /\ address[a].user = u
    BY <1>2, <1>9
  <2>2. address[a].id \in 1..MaxRowIds
    BY <1>5, <2>1, RowTypes, Bounds
  <2>3. /\ l \in Call /\ l.user = u /\ l.id = address[a].id /\ l.wanted = {a}
        /\ l.old = c.old /\ l.primary = c.primary /\ l.provider = c.provider
    BY <1>1, <1>2, <1>5, <2>2 DEF Call
  <2>4. CallFits("mark", l)
    BY <1>5, <2>2, <2>3 DEF CallFits, AccountWriting, SigningUp, OnAddress
  <2>5. \A b \in RowsById(l.id) : b = a
    BY <1>5, <2>2, <2>3 DEF RowsById, Keys
  <2>6. ReadStill("mark", l)
    BY <1>1, <1>5, <2>1, <2>3, <2>5 DEF ReadStill, Keys, AccountWriting, Proving
  <2>7. ReadStill("mark", l)'
    BY <1>5, <1>6, <2>6 DEF ReadStill, RowsById, HasAddress, Live
  <2>8. AloneFits(u, "findVerify", c) => AloneFits(u, "mark", l)'
    <3>1. ~l.primary
      BY <1>5, <2>3 DEF CallFits
    <3>2. AloneFits(u, "findVerify", c) => InOrder(u)'
      BY <1>7, LessensOrder DEF AloneFits
    <3>3. QED
      BY <3>1, <3>2 DEF AloneFits
  <2>9. AccountsInv'
    BY <1>1, <1>3, <1>5, <1>6, <1>7, <2>1, <2>3, <2>4, <2>7, <2>8, HandlerGoes
       DEF AccountWriting, LocalTypes
  <2>10. QED
    BY <1>7, <2>9
<1>10. QED
  BY <1>8, <1>9

(* The address becomes primary just when there is none of its kind. *)
LEMMA FindPrimaryKeeps ==
    ASSUME AccountsInv, NEW r \in Requests, FindPrimary(r)
    PROVE  AccountsInv' /\ Recovers
<1>1. PICK a, c, u : a = The(r) /\ c = call[r] /\ u = c.user
  OBVIOUS
<1>2. CASE Ends(r, "findPrimary", FALSE)
  BY <1>2, HandlerEnds DEF AccountWriting, AloneFits
<1>3. CASE ~Ends(r, "findPrimary", FALSE)
  <2>1. PICK l : l = [c EXCEPT !.primary = PrimaryOf(u, KindOf(a)) = {}]
    OBVIOUS
  <2>2. Proceed(r, "findPrimary", "create", l)
        /\ UNCHANGED <<accountTables, sent, accountHistory>>
    BY <1>1, <1>3, <2>1 DEF FindPrimary
  <2>3. pc[r] = "findPrimary"
    BY <2>2 DEF Proceed, Goto
  <2>4. /\ a \in Address /\ c.wanted = {a} /\ c \in Call /\ u \in Users
        /\ CallFits("findPrimary", c) /\ ReadStill("findPrimary", c)
        /\ TablesInv /\ Tables /\ Keys /\ LocalTypes
    BY <1>1, <2>3, TheAddress DEF OnAddress, AccountWriting
  <2>5. UNCHANGED <<users, address, credential, rowIds, proven, torn, marred>>
    BY <2>2 DEF accountTables, accountHistory
  <2>6. TablesInv' /\ Steady /\ Recovers /\ \A v : Lessens(v)
    BY <2>2, <2>5, Untouched
  <2>7. /\ l \in Call /\ l.user = u /\ l.id = c.id /\ l.wanted = {a} /\ l.old = c.old
        /\ l.primary <=> PrimaryOf(u, KindOf(a)) = {}
    BY <1>1, <2>1, <2>4 DEF Call
  <2>8. CallFits("create", l)
    BY <2>4, <2>7 DEF CallFits, AccountWriting, SigningUp, OnAddress
  <2>9. ReadStill("create", l)
    BY <1>1, <2>4, <2>7 DEF ReadStill, AccountWriting, Proving
  <2>10. ReadStill("create", l)'
    BY <2>5, <2>9 DEF ReadStill, RowsById, HasAddress, Live
  <2>11. AloneFits(u, "findPrimary", c) => AloneFits(u, "create", l)'
    <3>1. l.id = 0
      BY <2>4, <2>7 DEF CallFits
    <3>2. AloneFits(u, "findPrimary", c) => InOrder(u)'
      BY <2>6, LessensOrder DEF AloneFits
    <3>3. l.primary <=> PrimaryOf(u, KindOf(a))' = {}
      BY <2>6, <2>7, LessensOrder
    <3>4. QED
      BY <2>7, <3>1, <3>2, <3>3 DEF AloneFits
  <2>12. AccountsInv'
    BY <1>1, <2>2, <2>4, <2>5, <2>6, <2>7, <2>8, <2>10, <2>11, HandlerGoes
       DEF AccountWriting, LocalTypes
  <2>13. QED
    BY <2>6, <2>12
<1>4. QED
  BY <1>2, <1>3

(* The row to replace is the one primary of the kind. *)
LEMMA FindOwnerKeeps ==
    ASSUME AccountsInv, NEW r \in Requests, FindOwner(r)
    PROVE  AccountsInv' /\ Recovers
<1>1. PICK a, c, u : a = The(r) /\ c = call[r] /\ u = c.user
  OBVIOUS
<1>2. CASE Ends(r, "owner", FALSE)
  BY <1>2, HandlerEnds DEF AccountWriting, AloneFits
<1>3. CASE ~Ends(r, "owner", FALSE)
  <2>1. /\ UNCHANGED <<accountTables, sent, accountHistory>>
        /\ \/ PrimaryOf(u, KindOf(a)) = {} /\ Proceed(r, "owner", "create", c)
           \/ \E b \in PrimaryOf(u, KindOf(a)) :
                 Proceed(r, "owner", IF b = a THEN "mark" ELSE "delete",
                         [c EXCEPT !.id = address[b].id])
    BY <1>1, <1>3 DEF FindOwner
  <2>2. pc[r] = "owner"
    BY <2>1 DEF Proceed, Goto
  <2>3. /\ a \in Address /\ c.wanted = {a} /\ c \in Call /\ u \in Users
        /\ CallFits("owner", c) /\ ReadStill("owner", c)
        /\ TablesInv /\ Tables /\ Keys /\ LocalTypes
    BY <1>1, <2>2, TheAddress DEF OnAddress, AccountWriting
  <2>4. UNCHANGED <<users, address, credential, rowIds, proven, torn, marred>>
    BY <2>1 DEF accountTables, accountHistory
  <2>5. TablesInv' /\ Steady /\ Recovers /\ \A v : Lessens(v)
    BY <2>1, <2>4, Untouched
  <2>6. c.id = 0 /\ c.primary
    BY <2>3 DEF CallFits
  <2>7. CASE PrimaryOf(u, KindOf(a)) = {} /\ Proceed(r, "owner", "create", c)
    <3>1. CallFits("create", c)
      BY <2>3, <2>6 DEF CallFits, AccountWriting, SigningUp, OnAddress
    <3>2. ReadStill("create", c)
      BY <1>1, <2>3 DEF ReadStill, AccountWriting, Proving
    <3>3. ReadStill("create", c)'
      BY <2>4, <3>2 DEF ReadStill, RowsById, HasAddress, Live
    <3>4. AloneFits(u, "owner", c) => AloneFits(u, "create", c)'
      <4>1. AloneFits(u, "owner", c) => InOrder(u)'
        BY <2>5, LessensOrder DEF AloneFits
      <4>2. PrimaryOf(u, KindOf(a))' = {}
        BY <2>5, <2>7, LessensOrder
      <4>3. QED
        BY <2>3, <2>6, <4>1, <4>2 DEF AloneFits
    <3>5. AccountsInv'
      BY <1>1, <2>1, <2>3, <2>4, <2>5, <2>7, <3>1, <3>3, <3>4, HandlerGoes
         DEF AccountWriting, LocalTypes
    <3>6. QED
      BY <2>5, <3>5
  <2>8. ASSUME NEW b \in PrimaryOf(u, KindOf(a)), NEW to, NEW l,
               to = IF b = a THEN "mark" ELSE "delete",
               l = [c EXCEPT !.id = address[b].id],
               Proceed(r, "owner", to, l)
        PROVE  AccountsInv' /\ Recovers
    <3>1. b \in Address /\ address[b].user = u
      BY DEF PrimaryOf, Own
    <3>2. address[b].id \in 1..MaxRowIds
      BY <2>3, <3>1, RowTypes, Bounds
    <3>3. /\ l \in Call /\ l.user = u /\ l.id = address[b].id /\ l.wanted = {a}
          /\ l.old = c.old /\ l.primary = c.primary /\ l.provider = c.provider
      BY <1>1, <2>3, <2>8, <3>2 DEF Call
    <3>4. CallFits(to, l)
      BY <2>3, <2>6, <2>8, <3>2, <3>3 DEF CallFits, AccountWriting, SigningUp, OnAddress
    <3>5. \A x \in RowsById(l.id) : x = b
      BY <2>3, <3>1, <3>2, <3>3 DEF RowsById, Keys
    <3>6. ReadStill(to, l)
      BY <1>1, <2>3, <2>8, <3>1, <3>3, <3>5 DEF ReadStill, Keys, AccountWriting, Proving
    <3>7. ReadStill(to, l)'
      BY <2>4, <3>6 DEF ReadStill, RowsById, HasAddress, Live
    <3>8. ASSUME AloneFits(u, "owner", c) PROVE AloneFits(u, to, l)'
      <4>1. InOrder(u) /\ InOrder(u)'
        BY <2>5, <3>8, LessensOrder DEF AloneFits
      <4>2. PrimaryOf(u, KindOf(a)) = {b}
        <5>1. KindOf(a) \in Kind
          BY DEF KindOf, Kind
        <5>2. PrimaryOf(u, KindOf(a)) \subseteq Own(u, KindOf(a))
          BY DEF PrimaryOf
        <5>3. OnePrimary(u, KindOf(a))
          BY <4>1, <5>1 DEF InOrder
        <5>4. QED
          BY <2>8, <5>2, <5>3 DEF OnePrimary
      <4>3. PrimaryOf(u, KindOf(a))' = {b} /\ address'[b].id = l.id
        BY <2>4, <2>5, <3>3, <4>2, LessensOrder
      <4>4. QED
        BY <2>8, <3>1, <3>3, <4>1, <4>3 DEF AloneFits
    <3>9. AccountsInv'
      BY <1>1, <2>1, <2>3, <2>4, <2>5, <2>8, <3>3, <3>4, <3>7, <3>8, HandlerGoes
         DEF AccountWriting, LocalTypes
    <3>10. QED
      BY <2>5, <3>9
  <2>9. QED
    BY <2>1, <2>7, <2>8
<1>4. QED
  BY <1>2, <1>3

(* The primaries cleared are the user's rows. *)
LEMMA ClearPrimaryKeeps ==
    ASSUME AccountsInv, NEW r \in Requests, ClearPrimary(r)
    PROVE  AccountsInv' /\ Recovers
<1>1. PICK a, c, u : a = The(r) /\ c = call[r] /\ u = c.user
  OBVIOUS
<1>2. CASE Ends(r, "clear", FALSE)
  BY <1>2, HandlerEnds DEF AccountWriting, AloneFits
<1>3. CASE ~Ends(r, "clear", FALSE)
  <2>1. PICK old, l : /\ old = {address[b].id : b \in PrimaryOf(u, KindOf(a))}
                      /\ l = [c EXCEPT !.old = old]
    OBVIOUS
  <2>2. Proceed(r, "clear", "setPrimary", l)
        /\ UNCHANGED <<accountTables, sent, accountHistory>>
    BY <1>1, <1>3, <2>1 DEF ClearPrimary
  <2>3. pc[r] = "clear"
    BY <2>2 DEF Proceed, Goto
  <2>4. /\ a \in Address /\ c.wanted = {a} /\ c \in Call /\ u \in Users
        /\ CallFits("clear", c) /\ ReadStill("clear", c)
        /\ TablesInv /\ Tables /\ Keys /\ LocalTypes
    BY <1>1, <2>3, TheAddress DEF OnAddress, AccountWriting
  <2>5. UNCHANGED <<users, address, credential, rowIds, proven, torn, marred>>
    BY <2>2 DEF accountTables, accountHistory
  <2>6. TablesInv' /\ Steady /\ Recovers /\ \A v : Lessens(v)
    BY <2>2, <2>5, Untouched
  <2>7. \A b \in PrimaryOf(u, KindOf(a)) :
           b \in Address /\ address[b].user = u /\ address[b].id \in 1..MaxRowIds
           /\ address[b].id <= rowIds
    <3>1. ASSUME NEW b \in PrimaryOf(u, KindOf(a))
          PROVE  b \in Address /\ address[b].user = u /\ address[b].id \in 1..MaxRowIds
                 /\ address[b].id <= rowIds
      <4>1. b \in Address /\ address[b].user = u
        BY DEF PrimaryOf, Own
      <4>2. QED
        BY <2>4, <4>1, RowTypes, Bounds DEF Keys
    <3>2. QED
      BY <3>1
  <2>8. old \subseteq 1..MaxRowIds /\ \A i \in old : i <= rowIds
    BY <2>1, <2>7
  <2>9. /\ l \in Call /\ l.user = u /\ l.id = c.id /\ l.wanted = {a} /\ l.old = old
    BY <1>1, <2>1, <2>4, <2>8 DEF Call
  <2>10. CallFits("setPrimary", l)
    BY <2>4, <2>9 DEF CallFits, AccountWriting, SigningUp, OnAddress
  <2>11. \A b \in Address : address[b].id \in old => address[b].user = u
    BY <2>1, <2>4, <2>7 DEF Keys
  <2>12. ReadStill("setPrimary", l)
    BY <1>1, <2>4, <2>8, <2>9, <2>11 DEF ReadStill, AccountWriting, Proving
  <2>13. ReadStill("setPrimary", l)'
    BY <2>5, <2>12 DEF ReadStill, RowsById, HasAddress, Live
  <2>14. AloneFits(u, "clear", c) => AloneFits(u, "setPrimary", l)'
    <3>1. AloneFits(u, "clear", c) => InOrder(u)'
      BY <2>6, LessensOrder DEF AloneFits
    <3>2. old = {address'[b].id : b \in PrimaryOf(u, KindOf(a))'}
      BY <2>1, <2>5, <2>6, LessensOrder
    <3>3. QED
      BY <2>9, <3>1, <3>2 DEF AloneFits
  <2>15. AccountsInv'
    BY <1>1, <2>2, <2>4, <2>5, <2>6, <2>9, <2>10, <2>13, <2>14, HandlerGoes
       DEF AccountWriting, LocalTypes
  <2>16. QED
    BY <2>6, <2>15
<1>4. QED
  BY <1>2, <1>3

(* The row marked by id is still the one whose code was consumed. *)
LEMMA MarkVerifiedKeeps ==
    ASSUME AccountsInv, NEW r \in Requests, MarkVerified(r)
    PROVE  AccountsInv' /\ Recovers
<1>1. PICK a, c, u : a = The(r) /\ c = call[r] /\ u = c.user
  OBVIOUS
<1>2. CASE Ends(r, "mark", FALSE)
  BY <1>2, HandlerEnds DEF AccountWriting, AloneFits
<1>3. CASE ~Ends(r, "mark", FALSE)
  <2>1. PICK to : to = IF c.primary THEN "sync" ELSE "idle"
    OBVIOUS
  <2>2. /\ Proceed(r, "mark", to, c)
        /\ RowsById(c.id) # {}
        /\ address' = [x \in Address |-> IF address[x].id = c.id
                                         THEN [address[x] EXCEPT !.verified = TRUE]
                                         ELSE address[x]]
        /\ UNCHANGED <<users, credential, rowIds, sent, proven, torn, marred>>
    BY <1>1, <1>3, <2>1 DEF MarkVerified, accountHistory
  <2>3. pc[r] = "mark"
    BY <2>2 DEF Proceed, Goto
  <2>4. /\ a \in Address /\ c.wanted = {a} /\ c \in Call /\ u \in Users
        /\ CallFits("mark", c) /\ ReadStill("mark", c)
        /\ TablesInv /\ Tables /\ Keys /\ LocalTypes
    BY <1>1, <2>3, TheAddress DEF OnAddress, AccountWriting
  <2>5. address[a].id = c.id /\ address[a].user = u /\ address[a] \in Identifier
    <3>1. PICK x \in Address : address[x].id = c.id /\ c.wanted = {x} /\ address[x].user = u
      BY <1>1, <2>2, <2>4 DEF ReadStill, RowsById
    <3>2. QED
      BY <2>4, <3>1, RowTypes, Bounds
  <2>6. \A x \in Address \ {a} : address[x].id # c.id
    BY <2>4, <2>5 DEF Keys, CallFits
  <2>7. \A x \in Address : address'[x] = IF x = a THEN [address[x] EXCEPT !.verified = TRUE]
                                                 ELSE address[x]
    BY <2>2, <2>5, <2>6
  <2>8. \A x \in Address : /\ address'[x].id = address[x].id /\ address'[x].user = address[x].user
                           /\ address'[x].primary = address[x].primary
                           /\ address'[x].verified = (address[x].verified \/ x = a)
    BY <2>4, <2>5, <2>7, RowTypes DEF Identifier
  <2>9. Tables'
    <3>1. [address[a] EXCEPT !.verified = TRUE] \in Identifier
      BY <2>5 DEF Identifier
    <3>2. QED
      BY <2>2, <2>4, <2>7, <3>1 DEF Tables
  <2>10. Keys'
    BY <2>2, <2>4, <2>8 DEF Keys
  <2>11. VerifiedIsProven'
    <3>1. <<u, a>> \in proven
      BY <1>1, <2>4 DEF ReadStill, Proving
    <3>2. ASSUME NEW x \in Address, address'[x].verified
          PROVE  <<address'[x].user, x>> \in proven'
      <4>1. address'[x].user = address[x].user /\ (address[x].verified \/ x = a)
        BY <2>8, <3>2
      <4>2. CASE x = a
        BY <2>2, <2>5, <3>1, <4>1, <4>2
      <4>3. CASE x # a
        BY <2>2, <2>4, <4>1, <4>3 DEF TablesInv, VerifiedIsProven
      <4>4. QED
        BY <4>2, <4>3
    <3>3. QED
      BY <3>2 DEF VerifiedIsProven
  <2>12. FreeHaveNothing'
    BY <2>2, <2>4, <2>8 DEF TablesInv, FreeHaveNothing
  <2>13. \A v : /\ LoginsOf(v)' = LoginsOf(v) /\ Removable(v)' = Removable(v)
                /\ HasAddress(v)' <=> HasAddress(v)
                /\ VerifiedOf(v) \subseteq VerifiedOf(v)'
    BY <2>2, <2>8 DEF LoginsOf, Removable, HasAddress, VerifiedOf
  <2>14. AccountsReachable'
    BY <2>2, <2>4, <2>13 DEF TablesInv, AccountsReachable, Reachable, Live
  <2>15. Steady
    <3>1. rowIds <= rowIds'
      BY <2>2, <2>4, Bounds DEF Tables
    <3>2. QED
      BY <2>2, <2>8, <2>13, <3>1 DEF Steady, Live
  <2>16. Recovers /\ \A v : Lessens(v)
    BY <2>2, <2>8, <2>13 DEF Recovers, Lessens
  <2>17. ASSUME AloneFits(u, "mark", c)
         PROVE  IF to = "idle" THEN InOrder(u)' ELSE AloneFits(u, to, c)'
    <3>1. InOrder(u)' /\ PrimaryOf(u, KindOf(a))' = PrimaryOf(u, KindOf(a))
      BY <2>16, <2>17, LessensOrder DEF AloneFits
    <3>2. CASE c.primary
      <4>1. PrimaryOf(u, KindOf(a))' = {a}
        BY <2>4, <2>17, <3>1, <3>2 DEF AloneFits
      <4>2. Replaced(u, a)'
        BY <3>1, <4>1 DEF Replaced, InOrder
      <4>3. QED
        BY <2>1, <2>4, <3>2, <4>2 DEF AloneFits
    <3>3. CASE ~c.primary
      BY <2>1, <3>1, <3>3
    <3>4. QED
      BY <3>2, <3>3
  <2>18. to # "idle" => CallFits(to, c) /\ ReadStill(to, c)'
    <3>1. to # "idle" => CallFits(to, c)
      BY <2>1, <2>4 DEF CallFits, AccountWriting, SigningUp, OnAddress
    <3>2. to # "idle" => ReadStill(to, c)'
      BY <1>1, <2>1, <2>2, <2>4 DEF ReadStill, AccountWriting, Proving
    <3>3. QED
      BY <3>1, <3>2
  <2>19. AccountsInv'
    BY <1>1, <2>1, <2>2, <2>4, <2>9, <2>10, <2>11, <2>12, <2>14, <2>15, <2>16, <2>17, <2>18,
       HandlerGoes DEF AccountWriting, LocalTypes, TablesInv
  <2>20. QED
    BY <2>16, <2>19
<1>4. QED
  BY <1>2, <1>3

(* The new row is verified, and ends the time without a primary. *)
LEMMA CreateIdentifierKeeps ==
    ASSUME AccountsInv, NEW r \in Requests, CreateIdentifier(r)
    PROVE  AccountsInv' /\ Recovers
<1>1. PICK a, c, u : a = The(r) /\ c = call[r] /\ u = c.user
  OBVIOUS
<1>2. pc[r] = "create"
  BY DEF CreateIdentifier, Ends, Proceed, Goto
<1>3. /\ a \in Address /\ c.wanted = {a} /\ c \in Call /\ u \in Users
      /\ CallFits("create", c) /\ ReadStill("create", c)
      /\ TablesInv /\ Tables /\ Keys /\ LocalTypes
  BY <1>1, <1>2, TheAddress DEF OnAddress, AccountWriting
<1>4. CASE Ends(r, "create", c.id # 0)
  <2>1. c.id = 0 /\ AloneFits(u, "create", c) => InOrder(u)
    BY <1>3 DEF AloneFits
  <2>2. QED
    BY <1>1, <1>4, <2>1, HandlerEnds DEF AccountWriting
<1>5. CASE ~Ends(r, "create", c.id # 0)
  <2>1. PICK to, row : /\ to = IF c.primary THEN "sync" ELSE "idle"
                       /\ row = [id |-> rowIds + 1, user |-> u, primary |-> c.primary,
                                 verified |-> TRUE]
    OBVIOUS
  <2>2. /\ Proceed(r, "create", to, c)
        /\ address[a] = NoRowHere /\ rowIds < MaxRowIds
        /\ address' = [address EXCEPT ![a] = row]
        /\ rowIds' = rowIds + 1 /\ torn' = torn \ {u}
        /\ UNCHANGED <<users, credential, sent, proven, marred>>
    BY <1>1, <1>5, <2>1 DEF CreateIdentifier, Free
  <2>3. rowIds \in Nat /\ rowIds' \in 1..MaxRowIds /\ rowIds <= rowIds'
    BY <1>3, <2>2, Bounds DEF Tables
  <2>4. row \in Identifier
    BY <1>3, <2>1, <2>2, <2>3 DEF Identifier, Call
  <2>5. \A x \in Address : address'[x] = IF x = a THEN row ELSE address[x]
    BY <1>3, <2>2 DEF Tables
  <2>6. Tables'
    BY <1>3, <2>2, <2>3, <2>4, <2>5 DEF Tables
  <2>7. \A x \in Address : address[x].id \in 0..MaxRowIds /\ address[x].id <= rowIds
    BY <1>3, RowTypes DEF Keys
  <2>8. row.id = rowIds' /\ row.id > rowIds /\ row.user = u /\ row.verified /\ row.primary = c.primary
    BY <2>1, <2>2, <2>3
  <2>9. address[a].user = None /\ ~address[a].primary /\ ~address[a].verified /\ u # None
    BY <1>3, <2>2, RowTypes, Bounds
  <2>10. Keys'
    <3>1. \A x \in Address : address'[x].id <= rowIds'
      BY <2>2, <2>3, <2>5, <2>7, <2>8, Bounds
    <3>2. \A x, y \in Address : address'[x].id = address'[y].id /\ address'[x].id # 0 => x = y
      BY <1>3, <2>2, <2>3, <2>5, <2>7, <2>8, Bounds DEF Keys
    <3>3. QED
      BY <3>1, <3>2 DEF Keys
  <2>11. VerifiedIsProven'
    <3>1. <<u, a>> \in proven
      BY <1>1, <1>3 DEF ReadStill, Proving
    <3>2. QED
      BY <1>3, <2>2, <2>5, <2>8, <3>1 DEF TablesInv, VerifiedIsProven
  <2>12. FreeHaveNothing'
    <3>1. users[u] # "free"
      BY <1>1, <1>3 DEF ReadStill, AccountWriting
    <3>2. QED
      BY <1>3, <2>2, <2>5, <2>8, <3>1 DEF TablesInv, FreeHaveNothing
  <2>13. /\ \A v : LoginsOf(v)' = LoginsOf(v)
         /\ HasAddress(u)' /\ a \in VerifiedOf(u)'
         /\ \A v \in Users \ {u} : /\ Removable(v)' = Removable(v)
                                   /\ HasAddress(v)' <=> HasAddress(v)
                                   /\ v \in torn <=> v \in torn'
         /\ \A v \in Users : VerifiedOf(v) \subseteq VerifiedOf(v)'
    BY <1>3, <2>2, <2>5, <2>8, <2>9, Bounds DEF LoginsOf, Removable, HasAddress, VerifiedOf
  <2>14. AccountsReachable'
    BY <1>3, <2>2, <2>13 DEF TablesInv, AccountsReachable, Reachable, Live
  <2>15. Steady
    BY <2>2, <2>3, <2>5, <2>8, <2>13 DEF Steady, Live
  <2>16. Recovers
    BY <2>13 DEF Recovers, Live
  <2>17. \A v \in Live \ {u} : Lessens(v)
    BY <1>3, <2>2, <2>5, <2>8, <2>9, Bounds DEF Lessens, Live
  <2>18. /\ \A k : k # KindOf(a) => Own(u, k)' = Own(u, k) /\ PrimaryOf(u, k)' = PrimaryOf(u, k)
         /\ PrimaryOf(u, KindOf(a))' = IF c.primary THEN PrimaryOf(u, KindOf(a)) \cup {a}
                                                    ELSE PrimaryOf(u, KindOf(a))
    BY <1>3, <2>2, <2>5, <2>8, <2>9 DEF Own, PrimaryOf
  <2>19. ASSUME AloneFits(u, "create", c)
         PROVE  IF to = "idle" THEN InOrder(u)' ELSE AloneFits(u, to, c)'
    <3>1. KindOf(a) \in Kind /\ (a \in Phones => KindOf(a) = "PHONE")
          /\ (a \in Emails => KindOf(a) = "EMAIL")
      BY Bounds DEF KindOf, Kind
    <3>2. IF c.id # 0 THEN Replacing(u, KindOf(a))
          ELSE InOrder(u) /\ (c.primary <=> PrimaryOf(u, KindOf(a)) = {})
      BY <1>3, <2>19 DEF AloneFits
    <3>3. CASE c.primary
      <4>1. PrimaryOf(u, KindOf(a)) = {} /\ \A l \in Kind \ {KindOf(a)} : OnePrimary(u, l)
        BY <3>2, <3>3 DEF Replacing, InOrder
      <4>2. PrimaryOf(u, KindOf(a))' = {a}
        BY <2>18, <3>3, <4>1
      <4>3. \A l \in Kind : OnePrimary(u, l)'
        BY <1>3, <2>18, <4>1, <4>2 DEF OnePrimary
      <4>4. a \in Phones => Named(u)'
        <5>1. a \in Phones => Named(u)
          BY <3>1, <3>2 DEF Replacing, InOrder
        <5>2. a \in Phones => PrimaryOf(u, "EMAIL")' = PrimaryOf(u, "EMAIL")
          BY <2>18, <3>1
        <5>3. QED
          BY <2>2, <5>1, <5>2 DEF Named
      <4>5. Replaced(u, a)'
        BY <4>2, <4>3, <4>4 DEF Replaced
      <4>6. QED
        BY <1>3, <2>1, <3>3, <4>5 DEF AloneFits
    <3>4. CASE ~c.primary
      <4>1. InOrder(u) /\ PrimaryOf(u, KindOf(a)) # {}
        BY <1>3, <3>2, <3>4 DEF CallFits
      <4>2. \A l : PrimaryOf(u, l)' = PrimaryOf(u, l)
        BY <2>18, <3>4
      <4>3. Named(u)'
        BY <2>2, <4>1, <4>2 DEF Named, InOrder
      <4>4. \A l \in Kind : OnePrimary(u, l)'
        <5>1. Own(u, KindOf(a)) # {}
          BY <4>1 DEF PrimaryOf
        <5>2. QED
          BY <2>18, <3>1, <4>1, <4>2, <5>1 DEF InOrder, OnePrimary
      <4>5. QED
        BY <2>1, <3>4, <4>3, <4>4 DEF InOrder
    <3>5. QED
      BY <3>3, <3>4
  <2>20. to # "idle" => CallFits(to, c) /\ ReadStill(to, c)'
    <3>1. to # "idle" => CallFits(to, c)
      BY <1>3, <2>1 DEF CallFits, AccountWriting, SigningUp, OnAddress
    <3>2. c.id <= rowIds' /\ \A i \in c.old : i <= rowIds'
      BY <1>3, <2>3, Bounds DEF ReadStill, Call
    <3>3. to # "idle" => ReadStill(to, c)'
      BY <1>1, <1>3, <2>1, <2>2, <3>2 DEF ReadStill, AccountWriting, Proving
    <3>4. QED
      BY <3>1, <3>3
  <2>21. AccountsInv'
    BY <1>1, <1>3, <2>1, <2>2, <2>6, <2>10, <2>11, <2>12, <2>14, <2>15, <2>17, <2>19, <2>20,
       HandlerGoes DEF AccountWriting, LocalTypes, TablesInv
  <2>22. QED
    BY <2>16, <2>21
<1>6. QED
  BY <1>4, <1>5

(* Only the primary goes, and the user is torn until the create. *)
LEMMA DeletePrimaryKeeps ==
    ASSUME AccountsInv, NEW r \in Requests, DeletePrimary(r)
    PROVE  AccountsInv' /\ Recovers
<1>1. PICK w, c, u : w = The(r) /\ c = call[r] /\ u = c.user
  OBVIOUS
<1>2. CASE Ends(r, "delete", FALSE)
  BY <1>2, HandlerEnds DEF AccountWriting, AloneFits
<1>3. ASSUME NEW a \in RowsById(c.id),
             address' = [address EXCEPT ![a] = NoRowHere],
             torn' = torn \cup {u}, Proceed(r, "delete", "create", c),
             UNCHANGED <<users, credential, rowIds, sent, proven, marred>>
      PROVE  AccountsInv' /\ Recovers
  <2>1. pc[r] = "delete"
    BY <1>3 DEF Proceed, Goto
  <2>2. /\ w \in Address /\ c.wanted = {w} /\ c \in Call /\ u \in Users
        /\ CallFits("delete", c) /\ ReadStill("delete", c)
        /\ TablesInv /\ Tables /\ Keys /\ LocalTypes
    BY <1>1, <2>1, TheAddress DEF OnAddress, AccountWriting
  <2>3. a \in Address /\ address[a].id = c.id /\ address[a].user = u /\ c.id # 0
    BY <1>1, <2>2 DEF RowsById, ReadStill, CallFits
  <2>4. \A x \in Address : address'[x] = IF x = a THEN NoRowHere ELSE address[x]
    BY <1>3, <2>2 DEF Tables
  <2>5. NoRowHere.id = 0 /\ NoRowHere.user = None /\ ~NoRowHere.primary /\ ~NoRowHere.verified
    BY DEF NoRowHere
  <2>6. Tables'
    BY <1>3, <2>2, <2>3, <2>4 DEF Tables
  <2>7. rowIds \in Nat
    BY <2>2, Bounds DEF Tables
  <2>8. Keys'
    BY <1>3, <2>2, <2>4, <2>5, <2>7 DEF Keys
  <2>9. VerifiedIsProven'
    BY <1>3, <2>2, <2>4, <2>5 DEF TablesInv, VerifiedIsProven
  <2>10. FreeHaveNothing'
    BY <1>3, <2>2, <2>4, <2>5, Bounds DEF TablesInv, FreeHaveNothing
  <2>11. /\ \A v : LoginsOf(v)' = LoginsOf(v)
         /\ \A v \in Users : Removable(v)' \subseteq Removable(v)
         /\ \A v \in Users \ {u} : /\ HasAddress(v) => HasAddress(v)'
                                   /\ v \in torn => v \in torn'
                                   /\ VerifiedOf(v)' = VerifiedOf(v)
         /\ u \in torn' /\ HasAddress(u)'
    BY <1>3, <2>2, <2>3, <2>4, <2>5, Bounds DEF LoginsOf, Removable, HasAddress, VerifiedOf
  <2>12. AccountsReachable'
    BY <1>3, <2>2, <2>11 DEF TablesInv, AccountsReachable, Reachable, Live
  <2>13. Steady
    BY <1>3, <2>3, <2>4, <2>5, <2>7, <2>11 DEF Steady, Live
  <2>14. Recovers
    BY <2>11 DEF Recovers, Live
  <2>15. \A v \in Live \ {u} : Lessens(v)
    BY <1>3, <2>3, <2>4, <2>5, Bounds DEF Lessens, Live
  <2>16. /\ \A k : k # KindOf(a) => Own(u, k)' = Own(u, k) /\ PrimaryOf(u, k)' = PrimaryOf(u, k)
         /\ PrimaryOf(u, KindOf(a))' = PrimaryOf(u, KindOf(a)) \ {a}
    BY <2>2, <2>3, <2>4, <2>5, Bounds DEF Own, PrimaryOf
  <2>17. c.primary
    BY <2>2 DEF CallFits
  <2>18. ASSUME AloneFits(u, "delete", c) PROVE AloneFits(u, "create", c)'
    <3>1. PICK b \in Address : PrimaryOf(u, KindOf(w)) = {b} /\ address[b].id = c.id
      BY <2>2, <2>18 DEF AloneFits
    <3>2. a = b
      BY <2>2, <2>3, <3>1 DEF Keys
    <3>3. KindOf(a) = KindOf(w)
      BY <3>1, <3>2 DEF PrimaryOf, Own
    <3>4. InOrder(u)
      BY <2>18 DEF AloneFits
    <3>5. PrimaryOf(u, KindOf(w))' = {}
      BY <2>16, <3>1, <3>2, <3>3
    <3>6. \A l \in Kind \ {KindOf(w)} : OnePrimary(u, l)'
      BY <2>16, <3>3, <3>4 DEF InOrder, OnePrimary
    <3>7. KindOf(w) = "PHONE" => Named(u)'
      BY <1>3, <2>16, <3>3, <3>4 DEF InOrder, Named
    <3>8. Replacing(u, KindOf(w))'
      BY <3>5, <3>6, <3>7 DEF Replacing
    <3>9. QED
      BY <2>2, <2>3, <3>8 DEF AloneFits
  <2>19. CallFits("create", c)
    BY <2>2, <2>17 DEF CallFits, AccountWriting, SigningUp, OnAddress
  <2>20. ReadStill("create", c)'
    BY <1>1, <1>3, <2>2 DEF ReadStill, AccountWriting, Proving
  <2>21. AccountsInv'
    BY <1>1, <1>3, <2>2, <2>6, <2>8, <2>9, <2>10, <2>12, <2>13, <2>15, <2>18, <2>19, <2>20,
       HandlerGoes DEF AccountWriting, LocalTypes, TablesInv
  <2>22. QED
    BY <2>14, <2>21
<1>4. QED
  BY <1>1, <1>2, <1>3 DEF DeletePrimary

(* The old primaries and the new one change places. *)
LEMMA CommitPrimaryKeeps ==
    ASSUME AccountsInv, NEW r \in Requests, CommitPrimary(r)
    PROVE  AccountsInv' /\ Recovers
<1>1. PICK a, c, u : a = The(r) /\ c = call[r] /\ u = c.user
  OBVIOUS
<1>2. CASE Ends(r, "setPrimary", FALSE)
  BY <1>2, HandlerEnds DEF AccountWriting, AloneFits
<1>3. CASE ~Ends(r, "setPrimary", FALSE)
  <2>1. /\ Proceed(r, "setPrimary", "sync", c)
        /\ RowsById(c.id) # {}
        /\ address' = WithPrimary(c.id, c.old)
        /\ UNCHANGED <<users, credential, rowIds, sent, proven, torn, marred>>
    BY <1>1, <1>3 DEF CommitPrimary, accountHistory
  <2>2. pc[r] = "setPrimary"
    BY <2>1 DEF Proceed, Goto
  <2>3. /\ a \in Address /\ c.wanted = {a} /\ c \in Call /\ u \in Users
        /\ CallFits("setPrimary", c) /\ ReadStill("setPrimary", c)
        /\ TablesInv /\ Tables /\ Keys /\ LocalTypes
    BY <1>1, <2>2, TheAddress DEF OnAddress, AccountWriting
  <2>4. address[a].id = c.id /\ address[a].user = u /\ address[a].verified /\ c.id # 0
    <3>1. PICK x \in Address : /\ address[x].id = c.id /\ c.wanted = {x}
                               /\ address[x].user = u /\ address[x].verified
      BY <1>1, <2>1, <2>3 DEF ReadStill, RowsById
    <3>2. QED
      BY <2>3, <3>1 DEF CallFits
  <2>5. \A x \in Address : address[x].id = c.id <=> x = a
    BY <2>3, <2>4 DEF Keys
  <2>6. \A x \in Address : address'[x] = [address[x] EXCEPT !.primary =
                               x = a \/ (address[x].primary /\ address[x].id \notin c.old)]
    BY <2>1, <2>5 DEF WithPrimary
  <2>7. \A x \in Address :
           /\ address'[x] \in Identifier \cup {NoRowHere}
           /\ address'[x].id = address[x].id /\ address'[x].user = address[x].user
           /\ address'[x].verified = address[x].verified
           /\ address'[x].primary <=>
                 x = a \/ (address[x].primary /\ address[x].id \notin c.old)
    <3>1. SUFFICES ASSUME NEW x \in Address
                   PROVE /\ address'[x] \in Identifier \cup {NoRowHere}
                         /\ address'[x].id = address[x].id /\ address'[x].user = address[x].user
                         /\ address'[x].verified = address[x].verified
                         /\ address'[x].primary <=>
                               x = a \/ (address[x].primary /\ address[x].id \notin c.old)
      OBVIOUS
    <3>2. CASE address[x] \in Identifier
      BY <2>6, <3>2 DEF Identifier
    <3>3. CASE address[x] = NoRowHere
      <4>1. x # a /\ ~address[x].primary
        BY <2>4, <3>3 DEF NoRowHere
      <4>2. address'[x] = NoRowHere
        <5>1. (x = a \/ (address[x].primary /\ address[x].id \notin c.old)) = FALSE
          BY <4>1
        <5>2. address'[x] = [NoRowHere EXCEPT !.primary = FALSE]
          BY <2>6, <3>3, <5>1
        <5>3. QED
          BY <5>2 DEF NoRowHere
      <4>3. QED
        BY <3>3, <4>1, <4>2
    <3>4. QED
      BY <2>3, <3>2, <3>3, RowTypes
  <2>8. Tables'
    <3>1. address' = [x \in Address |-> address'[x]]
      BY <2>1 DEF WithPrimary
    <3>2. address' \in [Address -> Identifier \cup {NoRowHere}]
      BY <2>7, <3>1
    <3>3. QED
      BY <2>1, <2>3, <3>2 DEF Tables
  <2>9. Keys'
    BY <2>1, <2>3, <2>7 DEF Keys
  <2>10. VerifiedIsProven'
    BY <2>1, <2>3, <2>7 DEF TablesInv, VerifiedIsProven
  <2>11. FreeHaveNothing'
    BY <2>1, <2>3, <2>7 DEF TablesInv, FreeHaveNothing
  <2>12. \A x \in Address : address[x].id \in c.old => address[x].user = u
    BY <1>1, <2>3 DEF ReadStill
  <2>13. /\ \A v : /\ LoginsOf(v)' = LoginsOf(v) /\ VerifiedOf(v)' = VerifiedOf(v)
                   /\ HasAddress(v)' <=> HasAddress(v)
         /\ \A v : v # u => Removable(v)' = Removable(v)
         /\ a \in VerifiedOf(u)'
    BY <2>1, <2>3, <2>4, <2>7, <2>12 DEF LoginsOf, Removable, HasAddress, VerifiedOf
  <2>14. AccountsReachable'
    BY <2>1, <2>3, <2>13 DEF TablesInv, AccountsReachable, Reachable, Live
  <2>15. rowIds <= rowIds'
    BY <2>1, <2>3, Bounds DEF Tables
  <2>16. Steady
    BY <2>1, <2>7, <2>13, <2>15 DEF Steady, Live
  <2>17. Recovers
    BY <2>13 DEF Recovers
  <2>18. \A v \in Live \ {u} : Lessens(v)
    BY <2>1, <2>4, <2>7, <2>12 DEF Lessens
  <2>19. ASSUME AloneFits(u, "setPrimary", c) PROVE AloneFits(u, "sync", c)'
    <3>1. InOrder(u) /\ c.old = {address[b].id : b \in PrimaryOf(u, KindOf(a))}
      BY <2>3, <2>19 DEF AloneFits
    <3>2. KindOf(a) \in Kind /\ (a \in Phones => KindOf(a) = "PHONE")
      BY Bounds DEF KindOf, Kind
    <3>3. \A x \in PrimaryOf(u, KindOf(a)) : address[x].id \in c.old
      BY <3>1
    <3>4. \A x \in Address : address[x].id \in c.old =>
             x \in PrimaryOf(u, KindOf(a)) /\ KindOf(x) = KindOf(a)
      <4>1. ASSUME NEW x \in Address, address[x].id \in c.old
            PROVE  x \in PrimaryOf(u, KindOf(a)) /\ KindOf(x) = KindOf(a)
        <5>1. PICK b \in PrimaryOf(u, KindOf(a)) : address[b].id = address[x].id
          BY <3>1, <4>1
        <5>2. b \in Address /\ address[b].user = u /\ KindOf(b) = KindOf(a)
          BY DEF PrimaryOf, Own
        <5>3. address[b].id # 0
          BY <2>3, <5>2, RowTypes, Bounds
        <5>4. x = b
          BY <2>3, <5>1, <5>2, <5>3 DEF Keys
        <5>5. QED
          BY <5>2, <5>4
      <4>2. QED
        BY <4>1
    <3>5. \A k : Own(u, k)' = Own(u, k)
      BY <2>7 DEF Own
    <3>6. \A k : k # KindOf(a) => PrimaryOf(u, k)' = PrimaryOf(u, k)
      BY <2>7, <3>4 DEF Own, PrimaryOf
    <3>7. PrimaryOf(u, KindOf(a))' = {a}
      <4>1. a \in PrimaryOf(u, KindOf(a))'
        BY <2>3, <2>4, <2>7 DEF Own, PrimaryOf
      <4>2. ASSUME NEW x \in PrimaryOf(u, KindOf(a))', x # a PROVE FALSE
        <5>1. x \in Address /\ address[x].primary /\ address[x].id \notin c.old
              /\ address[x].user = u /\ KindOf(x) = KindOf(a)
          BY <2>7, <4>2 DEF Own, PrimaryOf
        <5>2. x \in PrimaryOf(u, KindOf(a))
          BY <5>1 DEF Own, PrimaryOf
        <5>3. QED
          BY <3>3, <5>1, <5>2
      <4>3. QED
        BY <4>1, <4>2
    <3>8. \A l \in Kind : OnePrimary(u, l)'
      BY <2>3, <3>1, <3>5, <3>6, <3>7 DEF OnePrimary, InOrder
    <3>9. a \in Phones => Named(u)'
      BY <2>1, <3>1, <3>2, <3>6 DEF Named, InOrder
    <3>10. Replaced(u, a)'
      BY <3>7, <3>8, <3>9 DEF Replaced
    <3>11. QED
      BY <2>3, <3>10 DEF AloneFits
  <2>20. CallFits("sync", c)
    BY <2>3 DEF CallFits, AccountWriting, SigningUp, OnAddress
  <2>21. ReadStill("sync", c)'
    BY <1>1, <2>1, <2>3 DEF ReadStill, AccountWriting, Proving
  <2>22. AccountsInv'
    BY <1>1, <2>1, <2>3, <2>8, <2>9, <2>10, <2>11, <2>14, <2>16, <2>18, <2>19, <2>20, <2>21,
       HandlerGoes DEF AccountWriting, LocalTypes, TablesInv
  <2>23. QED
    BY <2>17, <2>22
<1>4. QED
  BY <1>2, <1>3

(* The credential follows the new primary, or the user is marred. *)
LEMMA SyncCredentialKeeps ==
    ASSUME AccountsInv, NEW r \in Requests, SyncCredential(r)
    PROVE  AccountsInv' /\ Recovers
<1>1. PICK a, c, u : a = The(r) /\ c = call[r] /\ u = c.user
  OBVIOUS
<1>2. pc[r] = "sync"
  BY DEF SyncCredential, Ends, Proceed, Goto
<1>3. /\ a \in Address /\ c.wanted = {a} /\ c \in Call /\ u \in Users
      /\ CallFits("sync", c) /\ ReadStill("sync", c)
      /\ TablesInv /\ Tables /\ Keys /\ LocalTypes
  BY <1>1, <1>2, TheAddress DEF OnAddress, AccountWriting
<1>4. KindOf(a) \in Kind /\ (a \in Phones => KindOf(a) = "PHONE")
      /\ (a \in Emails => KindOf(a) = "EMAIL") /\ (a \notin Emails => a \in Phones)
  BY <1>3, Bounds DEF KindOf, Kind, Address
<1>5. CASE Ends(r, "sync", TRUE)
  BY <1>5, HandlerEnds DEF AccountWriting
<1>6. CASE Ends(r, "sync", FALSE) /\ ~(a \in Emails /\ credential[u]["EMAIL"] \notin {None, a})
  <2>1. ASSUME AloneFits(u, "sync", c) PROVE InOrder(u)
    <3>1. Replaced(u, a)
      BY <1>3, <2>1 DEF AloneFits
    <3>2. Named(u)
      BY <1>4, <1>6, <3>1, Bounds DEF Replaced, Named, Address
    <3>3. QED
      BY <3>1, <3>2 DEF Replaced, InOrder
  <2>2. QED
    BY <1>1, <1>6, <2>1, HandlerEnds DEF AccountWriting
<1>7. CASE /\ Proceed(r, "sync", "idle", NoCall)
           /\ a \in Emails /\ credential[u]["EMAIL"] \notin {None, a}
           /\ credential' = [credential EXCEPT ![u]["EMAIL"] = a]
           /\ UNCHANGED <<users, address, rowIds, sent, accountHistory>>
  <2>1. UNCHANGED <<users, address, rowIds, sent, proven, torn, marred>>
    BY <1>7 DEF accountHistory
  <2>2. "EMAIL" \in Provider /\ Subjects("EMAIL") = Address
    BY DEF Provider, Subjects
  <2>3. /\ credential' \in [Users -> [Provider -> Subject \cup {None}]]
        /\ \A v \in Users, p \in Provider :
              credential'[v][p] = IF v = u /\ p = "EMAIL" THEN a ELSE credential[v][p]
    BY <1>3, <1>7, <2>2 DEF Tables, Subject
  <2>4. Tables' /\ Keys'
    BY <1>3, <2>1, <2>2, <2>3 DEF Tables, Keys
  <2>5. VerifiedIsProven'
    BY <1>3, <2>1 DEF TablesInv, VerifiedIsProven
  <2>6. users[u] # "free"
    BY <1>1, <1>3 DEF ReadStill, AccountWriting
  <2>7. FreeHaveNothing'
    BY <1>3, <2>1, <2>3, <2>6 DEF TablesInv, FreeHaveNothing
  <2>8. /\ \A v \in Users : LoginsOf(v)' = LoginsOf(v)
        /\ \A v : /\ Removable(v)' = Removable(v) /\ (HasAddress(v)' <=> HasAddress(v))
                  /\ VerifiedOf(v)' = VerifiedOf(v)
    BY <1>3, <1>7, <2>1, <2>2, <2>3, Bounds DEF LoginsOf, Removable, HasAddress, VerifiedOf
  <2>9. \A v \in Users : credential'[v]["EMAIL"] # None => credential[v]["EMAIL"] # None
    BY <1>7, <2>2, <2>3
  <2>10. AccountsReachable'
    BY <1>3, <2>1, <2>8, <2>9 DEF TablesInv, AccountsReachable, Reachable, Live
  <2>11. rowIds <= rowIds'
    BY <1>3, <2>1, Bounds DEF Tables
  <2>12. Steady /\ Recovers
    BY <2>1, <2>8, <2>11 DEF Steady, Recovers, Live
  <2>13. \A v \in Live \ {u} : Lessens(v)
    BY <2>1, <2>2, <2>3 DEF Lessens, Live
  <2>14. ASSUME AloneFits(u, "sync", c) PROVE InOrder(u)'
    <3>1. Replaced(u, a)
      BY <1>3, <2>14 DEF AloneFits
    <3>2. \A k : PrimaryOf(u, k)' = PrimaryOf(u, k) /\ OnePrimary(u, k)' = OnePrimary(u, k)
      BY <2>1 DEF PrimaryOf, Own, OnePrimary
    <3>3. credential'[u]["EMAIL"] = a
      BY <1>3, <2>2, <2>3
    <3>4. Named(u)'
      BY <1>4, <1>7, <3>1, <3>2, <3>3 DEF Replaced, Named
    <3>5. QED
      BY <3>1, <3>2, <3>4 DEF Replaced, InOrder
  <2>15. AccountsInv'
    BY <1>1, <1>3, <1>7, <2>1, <2>4, <2>5, <2>7, <2>10, <2>12, <2>13, <2>14,
       HandlerGoes DEF AccountWriting, LocalTypes, TablesInv
  <2>16. QED
    BY <2>12, <2>15
<1>8. QED
  BY <1>1, <1>5, <1>6, <1>7 DEF SyncCredential

(* A password is stored only beside an address that is still there. *)
LEMMA CreateCredentialKeeps ==
    ASSUME AccountsInv, NEW r \in Requests, CreateCredential(r)
    PROVE  AccountsInv' /\ Recovers
<1>1. PICK c, u, p, s : c = call[r] /\ u = c.user /\ p = c.provider /\ s = c.subject
  OBVIOUS
<1>2. CASE Ends(r, "createCredential", FALSE)
  BY <1>2, HandlerEnds DEF AccountWriting, AloneFits
<1>3. CASE /\ Proceed(r, "createCredential", "idle", NoCall)
           /\ credential[u][p] = None
           /\ credential' = [credential EXCEPT ![u][p] = s]
           /\ UNCHANGED <<users, address, rowIds, sent, accountHistory>>
  <2>1. UNCHANGED <<users, address, rowIds, sent, proven, torn, marred>>
    BY <1>3 DEF accountHistory
  <2>2. pc[r] = "createCredential"
    BY <1>3 DEF Proceed, Goto
  <2>3. /\ CallFits("createCredential", c) /\ ReadStill("createCredential", c)
        /\ c \in Call /\ TablesInv /\ Tables /\ Keys /\ LocalTypes
    BY <1>1, <2>2, PartsOfInv DEF CallsFit, TablesInv, LocalTypes
  <2>4. u \in Users /\ users[u] # "free" /\ p \in Provider /\ s \in Subjects(p)
    BY <1>1, <2>3 DEF CallFits, ReadStill, Call, AccountWriting
  <2>5. s \in Subject /\ s # None
    BY <2>4, Bounds DEF Subjects, Subject, Provider, OAuth
  <2>6. /\ credential' \in [Users -> [Provider -> Subject \cup {None}]]
        /\ \A v \in Users, x \in Provider :
              credential'[v][x] = IF v = u /\ x = p THEN s ELSE credential[v][x]
    BY <1>3, <2>3, <2>4, <2>5 DEF Tables
  <2>7. Tables' /\ Keys'
    BY <2>1, <2>3, <2>4, <2>6 DEF Tables, Keys
  <2>8. VerifiedIsProven'
    BY <2>1, <2>3 DEF TablesInv, VerifiedIsProven
  <2>9. FreeHaveNothing'
    BY <2>1, <2>3, <2>4, <2>6 DEF TablesInv, FreeHaveNothing
  <2>10. /\ \A v \in Users : LoginsOf(v) \subseteq LoginsOf(v)'
         /\ \A v : /\ Removable(v)' = Removable(v) /\ (HasAddress(v)' <=> HasAddress(v))
                   /\ VerifiedOf(v)' = VerifiedOf(v)
    BY <1>3, <2>1, <2>6 DEF LoginsOf, Removable, HasAddress, VerifiedOf
  <2>11. "EMAIL" \in Provider
    BY DEF Provider
  <2>12. \A v \in Live : credential'[v]["EMAIL"] # None => HasAddress(v)
    BY <1>1, <2>3, <2>4, <2>6, <2>11
       DEF TablesInv, AccountsReachable, Reachable, ReadStill, Live
  <2>13. AccountsReachable'
    BY <2>1, <2>3, <2>10, <2>12 DEF TablesInv, AccountsReachable, Reachable, Live
  <2>14. rowIds <= rowIds'
    BY <2>1, <2>3, Bounds DEF Tables
  <2>15. Steady /\ Recovers
    BY <2>1, <2>10, <2>14 DEF Steady, Recovers, Live
  <2>16. \A v \in Live \ {u} : Lessens(v)
    BY <2>1, <2>6, <2>11 DEF Lessens, Live
  <2>17. ASSUME AloneFits(u, "createCredential", c) PROVE InOrder(u)'
    <3>1. InOrder(u) /\ (p = "EMAIL" => s \in PrimaryOf(u, "EMAIL"))
      BY <1>1, <2>17 DEF AloneFits
    <3>2. \A k : PrimaryOf(u, k)' = PrimaryOf(u, k) /\ OnePrimary(u, k)' = OnePrimary(u, k)
      BY <2>1 DEF PrimaryOf, Own, OnePrimary
    <3>3. Named(u)'
      BY <2>4, <2>6, <2>11, <3>1, <3>2 DEF InOrder, Named
    <3>4. QED
      BY <3>1, <3>2, <3>3 DEF InOrder
  <2>18. AccountsInv'
    BY <1>1, <1>3, <2>1, <2>3, <2>7, <2>8, <2>9, <2>13, <2>15, <2>16, <2>17,
       HandlerGoes DEF AccountWriting, LocalTypes, TablesInv
  <2>19. QED
    BY <2>15, <2>18
<1>4. QED
  BY <1>1, <1>2, <1>3 DEF CreateCredential

(* A handler that dies mars its user and changes no row. *)
LEMMA DiesKeeps ==
    ASSUME AccountsInv, NEW r \in Requests, AccountDies(r)
    PROVE  AccountsInv' /\ Recovers
<1>1. /\ pc[r] # "idle" /\ pc' = [pc EXCEPT ![r] = "idle"]
      /\ faults' \in 0..MaxFaults /\ call' = [call EXCEPT ![r] = NoCall]
      /\ marred' = IF pc[r] \in AccountWriting THEN marred \cup {call[r].user} ELSE marred
      /\ UNCHANGED <<accountTables, sent, calls, proven, torn>>
  BY PartsOfInv, Bounds DEF AccountDies, Die, LocalTypes
<1>2. TablesInv' /\ Steady /\ Recovers /\ \A v : Lessens(v)
  BY <1>1, Untouched
<1>3. LocalTypes /\ Codings /\ CallFits(pc[r], call[r]) /\ users' = users
  BY <1>1, PartsOfInv DEF CallsFit, accountTables
<1>4. marred \subseteq marred' /\ marred' \subseteq Users
  BY <1>1, <1>3 DEF CallFits, LocalTypes
<1>5. LocalTypes' /\ Codings'
  BY <1>1, <1>3, <1>4, NoCallIsCall DEF LocalTypes, AccountLabel, Codings
<1>6. CallFits("idle", NoCall) /\ ReadStill("idle", NoCall)'
  BY <1>2, IdleFits DEF TablesInv
<1>7. CallsFit'
  BY <1>1, <1>2, <1>6, CallsFitStep DEF TablesInv
<1>8. AloneInOrder'
  <2>1. CASE pc[r] \in AccountWriting
    <3>1. call[r].user \in marred'
      BY <1>1, <2>1
    <3>2. PICK u : u = call[r].user
      OBVIOUS
    <3>3. QED
      BY <1>1, <1>2, <1>3, <1>4, <2>1, <3>1, <3>2, AloneProceed
  <2>2. CASE pc[r] \notin AccountWriting
    <3>1. "idle" \notin AccountWriting
      BY DEF AccountWriting
    <3>2. QED
      BY <1>1, <1>2, <1>3, <1>4, <2>2, <3>1, AloneSignUp
  <2>3. QED
    BY <2>1, <2>2
<1>9. QED
  BY <1>2, <1>5, <1>7, <1>8, PartsAfter

-------------------------------------------------------------------------------
(* The handlers that start for a user. *)
LEMMA ConsumeKeeps ==
    ASSUME AccountsInv, NEW r \in Requests, NEW u \in Users, NEW purpose \in Purpose,
           NEW k \in Kind, NEW label \in {"findVerify", "findPrimary", "owner"}, NEW local,
           local = IF label = "owner" THEN ForChange ELSE NoCall,
           Consume(r, u, purpose, k, label, local)
    PROVE  AccountsInv' /\ Recovers
<1>1. PICK a, l : /\ a = sent[u][<<purpose, k>>]
                  /\ l = [local EXCEPT !.user = u, !.wanted = {a}]
  OBVIOUS
<1>2. /\ u \in Live \/ users[u] # "free"
      /\ a # None /\ StartCall(r, label, l)
      /\ sent' = [sent EXCEPT ![u][<<purpose, k>>] = None]
      /\ proven' = proven \cup {<<u, a>>}
  BY <1>1 DEF Consume
<1>3. TablesInv /\ Tables /\ Codings /\ LocalTypes
  BY PartsOfInv DEF TablesInv
<1>4. a \in Address
  <2>1. <<purpose, k>> \in Purpose \X Kind
    OBVIOUS
  <2>2. QED
    BY <1>1, <1>2, <1>3, <2>1 DEF Codings
<1>5. /\ l \in Call /\ l.user = u /\ l.wanted = {a} /\ l.id = 0 /\ l.old = {}
      /\ l.primary = (label = "owner") /\ l.provider = "EMAIL"
  BY <1>1, <1>4, NoCallIsCall DEF Call, ForChange, NoCall
<1>6. users[u] # "free"
  BY <1>2 DEF Live
<1>7. Codings'
  BY <1>2, <1>3 DEF Codings
<1>8. proven \subseteq proven' /\ proven' \subseteq Users \X Address
  BY <1>2, <1>3, <1>4 DEF LocalTypes
<1>9. CallFits(label, l)
  BY <1>4, <1>5 DEF CallFits, AccountWriting, SigningUp, OnAddress
<1>10. UNCHANGED <<users, address, credential, rowIds, torn>>
  BY <1>2 DEF StartCall, accountTables
<1>11. rowIds \in Nat
  BY <1>3, Bounds DEF Tables
<1>12. ReadStill(label, l)'
  BY <1>2, <1>5, <1>6, <1>10, <1>11 DEF ReadStill, AccountWriting, Proving
<1>13. InOrder(u) => AloneFits(u, label, l)
  BY DEF AloneFits
<1>14. label \in AccountWriting
  BY DEF AccountWriting
<1>15. QED
  BY <1>2, <1>5, <1>7, <1>8, <1>9, <1>12, <1>13, <1>14, HandlerStarts

(* A call that starts with a verified row of the user. *)
LEMMA SetPrimaryKeeps ==
    ASSUME AccountsInv, NEW r \in Requests, NEW u \in Users, NEW a \in Address,
           SetPrimary(r, u, a)
    PROVE  AccountsInv' /\ Recovers
<1>1. PICK l : l = [CallFor(u, a) EXCEPT !.id = address[a].id]
  OBVIOUS
<1>2. /\ u \in Live /\ address[a].user = u /\ address[a].verified
      /\ StartCall(r, "clear", l) /\ UNCHANGED <<sent, proven>>
  BY <1>1 DEF SetPrimary
<1>3. TablesInv /\ Tables /\ Keys /\ Codings /\ LocalTypes
  BY PartsOfInv DEF TablesInv
<1>4. address[a].id \in 1..MaxRowIds
  BY <1>2, <1>3, RowTypes, Bounds
<1>5. l \in Call /\ l.user = u /\ l.wanted = {a} /\ l.id = address[a].id /\ l.old = {}
  <2>1. /\ CallFor(u, a) \in Call /\ CallFor(u, a).user = u
        /\ CallFor(u, a).wanted = {a} /\ CallFor(u, a).old = {}
    BY NoCallIsCall DEF Call, CallFor, NoCall
  <2>2. QED
    BY <1>1, <1>4, <2>1, Bounds DEF Call
<1>6. Codings' /\ proven \subseteq proven' /\ proven' \subseteq Users \X Address
  BY <1>2, <1>3 DEF Codings, LocalTypes
<1>7. CallFits("clear", l)
  BY <1>4, <1>5 DEF CallFits, AccountWriting, SigningUp, OnAddress
<1>8. UNCHANGED <<users, address, credential, rowIds, torn>>
  BY <1>2 DEF StartCall, accountTables
<1>9. \A b \in RowsById(l.id) : b = a
  BY <1>3, <1>4, <1>5 DEF RowsById, Keys
<1>10. ReadStill("clear", l)
  BY <1>2, <1>3, <1>5, <1>9 DEF ReadStill, AccountWriting, Proving, Keys, Live
<1>11. ReadStill("clear", l)'
  BY <1>2, <1>8, <1>10 DEF ReadStill, RowsById, HasAddress, Live
<1>12. InOrder(u) => AloneFits(u, "clear", l)
  BY DEF AloneFits
<1>13. QED
  BY <1>2, <1>5, <1>6, <1>7, <1>11, <1>12, HandlerStarts DEF AccountWriting

(* A new login starts from a live user; a password from a primary email. *)
LEMMA LinkKeeps ==
    ASSUME AccountsInv, NEW r \in Requests, NEW u \in Users, NEW p \in Provider,
           NEW s \in Subjects(p), NEW l \in Call,
           l.user = u, l.provider = p, l.subject = s, l.id = 0, l.old = {},
           u \in Live, p = "EMAIL" => s \in PrimaryOf(u, "EMAIL"),
           StartCall(r, "createCredential", l), UNCHANGED <<sent, proven>>
    PROVE  AccountsInv' /\ Recovers
<1>1. TablesInv /\ Tables /\ Codings /\ LocalTypes
  BY PartsOfInv DEF TablesInv
<1>2. Codings' /\ proven \subseteq proven' /\ proven' \subseteq Users \X Address
  BY <1>1 DEF Codings, LocalTypes
<1>3. CallFits("createCredential", l)
  BY DEF CallFits, AccountWriting, SigningUp, OnAddress
<1>4. UNCHANGED <<users, address, credential, rowIds, torn>>
  BY DEF StartCall, accountTables
<1>5. p = "EMAIL" => HasAddress(u)
  BY DEF HasAddress, PrimaryOf, Own
<1>6. rowIds \in Nat
  BY <1>1, Bounds DEF Tables
<1>7. ReadStill("createCredential", l)
  BY <1>5, <1>6 DEF ReadStill, AccountWriting, Proving, Live
<1>8. ReadStill("createCredential", l)'
  BY <1>4, <1>7 DEF ReadStill, RowsById, HasAddress, Live, Proving
<1>9. InOrder(u) => AloneFits(u, "createCredential", l)
  BY DEF AloneFits
<1>10. QED
  BY <1>2, <1>3, <1>8, <1>9, HandlerStarts DEF AccountWriting

(* The two calls that start so. *)
LEMMA LoginMethodKeeps ==
    ASSUME AccountsInv, NEW r \in Requests, NEW u \in Users, LoginMethodStep(r, u)
    PROVE  AccountsInv' /\ Recovers
<1>1. CASE SetPassword(r, u)
  <2>1. PICK a \in PrimaryOf(u, "EMAIL") :
           /\ u \in Live
           /\ StartCall(r, "createCredential", [NoCall EXCEPT !.user = u, !.subject = a])
           /\ UNCHANGED <<sent, proven>>
    BY <1>1 DEF SetPassword
  <2>2. a \in Subjects("EMAIL")
    BY DEF PrimaryOf, Own, Subjects
  <2>3. PICK l : l = [NoCall EXCEPT !.user = u, !.subject = a]
    OBVIOUS
  <2>4. /\ l \in Call /\ l.user = u /\ l.id = 0 /\ l.old = {}
        /\ l.provider = "EMAIL" /\ l.subject = a
    BY <2>2, <2>3, NoCallIsCall DEF Call, NoCall, Subjects
  <2>5. QED
    BY <2>1, <2>2, <2>3, <2>4, LinkKeeps DEF Provider
<1>2. ASSUME NEW p \in OAuth, Link(r, u, p) PROVE AccountsInv' /\ Recovers
  <2>1. PICK s \in Subjects(p) :
           /\ u \in Live
           /\ StartCall(r, "createCredential",
                        [NoCall EXCEPT !.user = u, !.provider = p, !.subject = s])
           /\ UNCHANGED <<sent, proven>>
    BY <1>2 DEF Link
  <2>2. p \in Provider /\ p # "EMAIL"
    BY DEF OAuth, Provider
  <2>3. PICK l : l = [NoCall EXCEPT !.user = u, !.provider = p, !.subject = s]
    OBVIOUS
  <2>4. s \in GoogleIds \cup AppleIds
    BY DEF Subjects, OAuth
  <2>5. /\ l \in Call /\ l.user = u /\ l.id = 0 /\ l.old = {}
        /\ l.provider = p /\ l.subject = s
    BY <2>2, <2>3, <2>4, NoCallIsCall DEF Call, NoCall
  <2>6. QED
    BY <2>1, <2>2, <2>3, <2>5, LinkKeeps
<1>3. QED
  BY <1>1, <1>2 DEF LoginMethodStep

-------------------------------------------------------------------------------
(* The calls that are one step. *)
LEMMA SendCodeKeeps ==
    ASSUME AccountsInv, NEW u \in Users, NEW purpose, NEW a \in Address,
           SendCode(u, purpose, a)
    PROVE  AccountsInv' /\ Recovers
<1>1. /\ sent' = [sent EXCEPT ![u] = Codes(u, purpose, {a})]
      /\ UNCHANGED <<accountTables, call, accountHistory, pc, faults>>
  BY DEF SendCode
<1>2. Codings /\ LocalTypes /\ TablesInv
  BY PartsOfInv
<1>3. Codes(u, purpose, {a}) \in [Purpose \X Kind -> Address \cup {None}]
  <2>1. ASSUME NEW w \in Purpose \X Kind, \E b \in {a} : KindOf(b) = w[2]
        PROVE  (CHOOSE b \in {a} : KindOf(b) = w[2]) \in Address
    BY <2>1
  <2>2. QED
    BY <1>2, <2>1 DEF Codes, Codings
<1>4. Codings'
  BY <1>1, <1>2, <1>3 DEF Codings
<1>5. calls' \in 0..MaxCalls
  BY <1>2, Bounds DEF SendCode, CountCall, MoreCalls, LocalTypes
<1>6. UNCHANGED <<users, proven, torn>>
  BY <1>1 DEF accountTables, accountHistory
<1>7. TablesInv' /\ Steady /\ Recovers /\ \A v : Lessens(v)
  BY <1>1, <1>6, Untouched
<1>8. QED
  BY <1>1, <1>4, <1>5, <1>6, <1>7, CallStands

(* A verified address goes only when another one stays. *)
LEMMA RemoveIdentifierKeeps ==
    ASSUME AccountsInv, NEW u \in Users, NEW a \in Address, RemoveIdentifier(u, a)
    PROVE  AccountsInv' /\ Recovers
<1>1. /\ u \in Live /\ address[a].user = u /\ ~address[a].primary
      /\ address[a].verified => Cardinality(VerifiedOf(u)) > 1
      /\ address' = [address EXCEPT ![a] = NoRowHere]
      /\ UNCHANGED <<users, credential, rowIds, call, sent, accountHistory, pc, faults>>
  BY DEF RemoveIdentifier, Serializable
<1>2. TablesInv /\ Tables /\ Keys /\ Codings /\ LocalTypes
  BY PartsOfInv DEF TablesInv
<1>3. UNCHANGED <<proven, torn, marred>>
  BY <1>1 DEF accountHistory
<1>4. calls' \in 0..MaxCalls
  BY <1>2, Bounds DEF RemoveIdentifier, Serializable, CountCall, MoreCalls, LocalTypes
<1>5. \A x \in Address : address'[x] = IF x = a THEN NoRowHere ELSE address[x]
  BY <1>1, <1>2 DEF Tables
<1>6. NoRowHere.id = 0 /\ NoRowHere.user = None /\ ~NoRowHere.primary /\ ~NoRowHere.verified
  BY DEF NoRowHere
<1>7. Tables'
  BY <1>1, <1>2, <1>5 DEF Tables
<1>8. rowIds \in Nat
  BY <1>2, Bounds DEF Tables
<1>9. Keys'
  BY <1>1, <1>2, <1>5, <1>6, <1>8 DEF Keys
<1>10. VerifiedIsProven'
  BY <1>2, <1>3, <1>5, <1>6 DEF TablesInv, VerifiedIsProven
<1>11. FreeHaveNothing'
  BY <1>1, <1>2, <1>5, <1>6, Bounds DEF TablesInv, FreeHaveNothing
<1>12. a \in Removable(u)
  BY <1>1 DEF Removable
<1>13. u \in torn \/ VerifiedOf(u)' # {}
  <2>1. VerifiedOf(u)' = VerifiedOf(u) \ {a}
    BY <1>1, <1>5, <1>6, Bounds DEF VerifiedOf
  <2>2. CASE address[a].verified
    <3>1. VerifiedOf(u) # {a}
      BY <1>1, <2>2, FS_Singleton
    <3>2. a \in VerifiedOf(u)
      BY <1>1, <2>2 DEF VerifiedOf
    <3>3. QED
      BY <2>1, <3>1, <3>2
  <2>3. CASE ~address[a].verified
    <3>1. a \notin VerifiedOf(u)
      BY <2>3 DEF VerifiedOf
    <3>2. u \in torn \/ VerifiedOf(u) # {}
      BY <1>1, <1>2, <1>12 DEF TablesInv, AccountsReachable, Reachable
    <3>3. QED
      BY <2>1, <3>1, <3>2
  <2>4. QED
    BY <2>2, <2>3
<1>14. HasAddress(u)'
  BY <1>3, <1>13 DEF HasAddress, VerifiedOf
<1>15. /\ \A v : LoginsOf(v)' = LoginsOf(v)
       /\ \A v \in Users \ {u} : /\ HasAddress(v)' <=> HasAddress(v)
                                 /\ VerifiedOf(v)' = VerifiedOf(v)
                                 /\ Removable(v)' = Removable(v)
  BY <1>1, <1>3, <1>5, <1>6, Bounds DEF LoginsOf, Removable, HasAddress, VerifiedOf
<1>16. AccountsReachable'
  <2>1. ASSUME NEW v \in Live PROVE Reachable(v)'
    <3>1. CASE v = u
      BY <1>1, <1>2, <1>3, <1>13, <1>14, <1>15, <3>1
         DEF TablesInv, AccountsReachable, Reachable
    <3>2. CASE v # u
      BY <1>1, <1>2, <1>3, <1>15, <3>2 DEF TablesInv, AccountsReachable, Reachable, Live
    <3>3. QED
      BY <3>1, <3>2
  <2>2. QED
    BY <1>1, <2>1 DEF AccountsReachable, Live
<1>17. Steady
  BY <1>1, <1>3, <1>5, <1>6, <1>8, <1>14, <1>15 DEF Steady, Live
<1>18. Recovers
  BY <1>3, <1>13, <1>15 DEF Recovers, Live
<1>19. \A v \in Live : Lessens(v)
  BY <1>1, <1>5, <1>6, Bounds DEF Lessens, Live
<1>20. Codings'
  BY <1>1, <1>2 DEF Codings
<1>21. QED
  BY <1>1, <1>4, <1>7, <1>9, <1>10, <1>11, <1>16, <1>17, <1>18, <1>19, <1>20, CallStands
     DEF TablesInv

(* A login goes only when another one stays. *)
LEMMA UnlinkKeeps ==
    ASSUME AccountsInv, NEW u \in Users, NEW p \in OAuth, Unlink(u, p)
    PROVE  AccountsInv' /\ Recovers
<1>1. /\ u \in Live /\ LoginsOf(u) \ {p} # {}
      /\ credential' = [credential EXCEPT ![u][p] = None]
      /\ UNCHANGED <<users, address, rowIds, call, sent, accountHistory, pc, faults>>
  BY DEF Unlink, Serializable
<1>2. TablesInv /\ Tables /\ Keys /\ Codings /\ LocalTypes
  BY PartsOfInv DEF TablesInv
<1>3. UNCHANGED <<proven, torn, marred>>
  BY <1>1 DEF accountHistory
<1>4. calls' \in 0..MaxCalls
  BY <1>2, Bounds DEF Unlink, Serializable, CountCall, MoreCalls, LocalTypes
<1>5. p \in Provider /\ p # "EMAIL" /\ "EMAIL" \in Provider
  BY DEF OAuth, Provider
<1>6. /\ credential' \in [Users -> [Provider -> Subject \cup {None}]]
      /\ \A v \in Users, x \in Provider :
            credential'[v][x] = IF v = u /\ x = p THEN None ELSE credential[v][x]
  BY <1>1, <1>2, <1>5 DEF Tables
<1>7. Tables' /\ Keys'
  BY <1>1, <1>2, <1>6 DEF Tables, Keys
<1>8. VerifiedIsProven'
  BY <1>1, <1>2, <1>3 DEF TablesInv, VerifiedIsProven
<1>9. FreeHaveNothing'
  BY <1>1, <1>2, <1>6 DEF TablesInv, FreeHaveNothing
<1>10. /\ LoginsOf(u)' = LoginsOf(u) \ {p}
       /\ \A v \in Users \ {u} : LoginsOf(v)' = LoginsOf(v)
       /\ \A v : /\ HasAddress(v)' <=> HasAddress(v)
                 /\ VerifiedOf(v)' = VerifiedOf(v)
                 /\ Removable(v)' = Removable(v)
       /\ \A v \in Users : credential'[v]["EMAIL"] = credential[v]["EMAIL"]
  BY <1>1, <1>3, <1>5, <1>6 DEF LoginsOf, Removable, HasAddress, VerifiedOf
<1>11. AccountsReachable'
  BY <1>1, <1>2, <1>3, <1>10 DEF TablesInv, AccountsReachable, Reachable, Live
<1>12. rowIds <= rowIds'
  BY <1>1, <1>2, Bounds DEF Tables
<1>13. Steady /\ Recovers
  BY <1>1, <1>3, <1>10, <1>12 DEF Steady, Recovers, Live
<1>14. \A v \in Live : Lessens(v)
  BY <1>1, <1>10 DEF Lessens, Live
<1>15. Codings'
  BY <1>1, <1>2 DEF Codings
<1>16. QED
  BY <1>1, <1>4, <1>7, <1>8, <1>9, <1>11, <1>13, <1>14, <1>15, CallStands DEF TablesInv

(* An account that is deleted, or stale, promises nothing any more. *)
LEMMA AgesKeeps ==
    ASSUME AccountsInv, NEW u \in Users, NEW from, NEW to,
           from # "free", to \in {"deleted", "stale"}, Ages(u, from, to),
           calls' \in 0..MaxCalls
    PROVE  AccountsInv' /\ Recovers
<1>1. /\ users[u] # "free" /\ users' = [users EXCEPT ![u] = to]
      /\ UNCHANGED <<address, credential, rowIds, sent, call, accountHistory, pc, faults>>
  BY DEF Ages
<1>2. TablesInv /\ Tables /\ Keys /\ Codings /\ LocalTypes
  BY PartsOfInv DEF TablesInv
<1>3. UNCHANGED <<proven, torn, marred>>
  BY <1>1 DEF accountHistory
<1>4. \A v \in Users : users'[v] = IF v = u THEN to ELSE users[v]
  BY <1>1, <1>2 DEF Tables
<1>5. Tables' /\ Keys'
  BY <1>1, <1>2 DEF Tables, Keys
<1>6. VerifiedIsProven'
  BY <1>1, <1>2, <1>3 DEF TablesInv, VerifiedIsProven
<1>7. FreeHaveNothing'
  BY <1>1, <1>2, <1>4 DEF TablesInv, FreeHaveNothing
<1>8. \A v : /\ LoginsOf(v)' = LoginsOf(v) /\ Removable(v)' = Removable(v)
             /\ VerifiedOf(v)' = VerifiedOf(v)
             /\ HasAddress(v)' <=> HasAddress(v)
  BY <1>1, <1>3 DEF LoginsOf, Removable, HasAddress, VerifiedOf
<1>9. Live' \subseteq Live
  BY <1>4 DEF Live
<1>10. AccountsReachable'
  BY <1>1, <1>2, <1>3, <1>8, <1>9 DEF TablesInv, AccountsReachable, Reachable
<1>11. rowIds <= rowIds'
  BY <1>1, <1>2, Bounds DEF Tables
<1>12. Steady /\ Recovers
  BY <1>1, <1>3, <1>4, <1>8, <1>11 DEF Steady, Recovers, Live
<1>13. \A v : Lessens(v)
  BY <1>1 DEF Lessens
<1>14. Codings'
  BY <1>1, <1>2 DEF Codings
<1>15. QED
  BY <1>1, <1>4, <1>5, <1>6, <1>7, <1>10, <1>12, <1>13, <1>14, CallStands DEF TablesInv

(* Only rows of stale accounts go. *)
LEMMA ReclaimKeeps ==
    ASSUME AccountsInv, Reclaim
    PROVE  AccountsInv' /\ Recovers
<1>1. /\ address' = [a \in Address |-> IF Orphan(a) THEN NoRowHere ELSE address[a]]
      /\ UNCHANGED <<users, credential, rowIds, sent, call, accountHistory, pc, faults>>
  BY DEF Reclaim
<1>2. TablesInv /\ Tables /\ Keys /\ Codings /\ LocalTypes
  BY PartsOfInv DEF TablesInv
<1>3. UNCHANGED <<proven, torn, marred>>
  BY <1>1 DEF accountHistory
<1>4. calls' \in 0..MaxCalls
  BY <1>2, Bounds DEF Reclaim, CountCall, MoreCalls, LocalTypes
<1>5. \A x \in Address : \/ address'[x] = address[x]
                         \/ address'[x] = NoRowHere /\ users[address[x].user] = "stale"
  BY <1>1 DEF Orphan
<1>6. NoRowHere.id = 0 /\ NoRowHere.user = None /\ ~NoRowHere.primary /\ ~NoRowHere.verified
  BY DEF NoRowHere
<1>7. Tables'
  BY <1>1, <1>2 DEF Tables
<1>8. rowIds \in Nat
  BY <1>2, Bounds DEF Tables
<1>9. Keys'
  BY <1>1, <1>2, <1>5, <1>6, <1>8 DEF Keys
<1>10. VerifiedIsProven'
  BY <1>2, <1>3, <1>5, <1>6 DEF TablesInv, VerifiedIsProven
<1>11. FreeHaveNothing'
  BY <1>1, <1>2, <1>5, <1>6, Bounds DEF TablesInv, FreeHaveNothing
<1>12. \A v \in Live, x \in Address :
          (address'[x].user = v <=> address[x].user = v)
          /\ (address[x].user = v => address'[x] = address[x])
  BY <1>5, <1>6, Bounds DEF Live
<1>13. \A v \in Live : /\ LoginsOf(v)' = LoginsOf(v) /\ Removable(v)' = Removable(v)
                       /\ VerifiedOf(v)' = VerifiedOf(v)
                       /\ HasAddress(v)' <=> HasAddress(v)
  BY <1>1, <1>3, <1>12 DEF LoginsOf, Removable, HasAddress, VerifiedOf
<1>14. AccountsReachable'
  BY <1>1, <1>2, <1>3, <1>13 DEF TablesInv, AccountsReachable, Reachable, Live
<1>15. Steady
  BY <1>1, <1>3, <1>5, <1>6, <1>8, <1>13 DEF Steady, Live
<1>16. Recovers
  BY <1>13 DEF Recovers
<1>17. \A v \in Live : Lessens(v)
  BY <1>1, <1>12 DEF Lessens
<1>18. Codings'
  BY <1>1, <1>2 DEF Codings
<1>19. QED
  BY <1>1, <1>4, <1>7, <1>9, <1>10, <1>11, <1>14, <1>15, <1>16, <1>17, <1>18, CallStands
     DEF TablesInv

-------------------------------------------------------------------------------
(* New accounts. *)
LEMMA SignUpStarts ==
    ASSUME AccountsInv, NEW r \in Requests, NEW to \in SigningUp, NEW l \in Call,
           l.user = None, l.id = 0, l.old = {}, CallFits(to, l),
           StartCall(r, to, l), UNCHANGED <<sent, proven>>
    PROVE  AccountsInv' /\ Recovers
<1>1. TablesInv /\ Tables /\ Codings /\ LocalTypes /\ CallsFit
  BY PartsOfInv DEF TablesInv
<1>2. Caller(None) = {}
  BY <1>1, Bounds DEF Caller, At, CallsFit, CallFits
<1>3. /\ UNCHANGED <<accountTables, torn, faults, marred>>
      /\ pc[r] = "idle" /\ pc' = [pc EXCEPT ![r] = to]
      /\ call' = [call EXCEPT ![r] = l]
      /\ calls < MaxCalls /\ calls' = calls + 1
  BY <1>2 DEF StartCall, Goto, CountCall, MoreCalls
<1>4. TablesInv' /\ Tables' /\ Steady /\ Recovers /\ \A v : Lessens(v)
  BY <1>3, Untouched DEF TablesInv
<1>5. calls' \in 0..MaxCalls
  BY <1>1, <1>3, Bounds DEF LocalTypes
<1>6. to \notin AccountWriting /\ "idle" \notin AccountWriting /\ to \in AccountLabel
  BY DEF SigningUp, AccountWriting, AccountLabel
<1>7. LocalTypes' /\ Codings'
  BY <1>1, <1>3, <1>5, <1>6 DEF LocalTypes, Codings
<1>8. rowIds' \in Nat
  BY <1>4, Bounds DEF Tables
<1>9. ReadStill(to, l)'
  BY <1>6, <1>8 DEF ReadStill, SigningUp, Proving
<1>10. CallsFit'
  BY <1>3, <1>4, <1>9, CallsFitStep
<1>11. users' = users
  BY <1>3 DEF accountTables
<1>12. AloneInOrder'
  BY <1>3, <1>4, <1>6, <1>11, AloneSignUp
<1>13. QED
  BY <1>4, <1>7, <1>10, <1>12, PartsAfter

(* Registration and first login start for nobody. *)
LEMMA RegisterKeeps ==
    ASSUME AccountsInv, NEW r \in Requests, Register(r) \/ FirstLogin(r)
    PROVE  AccountsInv' /\ Recovers
<1>1. CASE Register(r)
  <2>1. PICK wanted \in SUBSET Address, name \in Address :
           /\ name \in wanted
           /\ AtMostOne(wanted \cap Emails) /\ AtMostOne(wanted \cap Phones)
           /\ wanted \cap Emails # {} => name \in Emails
           /\ StartCall(r, "createUser", [NoCall EXCEPT !.wanted = wanted, !.subject = name])
           /\ UNCHANGED <<sent, proven>>
    BY <1>1 DEF Register
  <2>2. PICK l : l = [NoCall EXCEPT !.wanted = wanted, !.subject = name]
    OBVIOUS
  <2>3. /\ l \in Call /\ l.user = None /\ l.id = 0 /\ l.old = {}
        /\ l.wanted = wanted /\ l.subject = name /\ l.provider = "EMAIL"
    BY <2>2, NoCallIsCall DEF Call, NoCall
  <2>4. CallFits("createUser", l)
    BY <2>1, <2>3 DEF CallFits, AccountWriting, OnAddress, SigningUp, Subjects
  <2>5. QED
    BY <2>1, <2>2, <2>3, <2>4, SignUpStarts DEF SigningUp
<1>2. CASE FirstLogin(r)
  <2>1. PICK p \in OAuth, wanted \in SUBSET Emails, s \in GoogleIds \cup AppleIds :
           /\ s \in Subjects(p)
           /\ AtMostOne(wanted)
           /\ StartCall(r, "createOAuth",
                        [NoCall EXCEPT !.wanted = wanted, !.provider = p, !.subject = s])
           /\ UNCHANGED <<sent, proven>>
    BY <1>2 DEF FirstLogin, Subjects, OAuth
  <2>2. PICK l : l = [NoCall EXCEPT !.wanted = wanted, !.provider = p, !.subject = s]
    OBVIOUS
  <2>3. s \in GoogleIds \cup AppleIds /\ wanted \subseteq Address /\ p \in Provider
    BY DEF Subjects, OAuth, Address, Provider
  <2>4. /\ l \in Call /\ l.user = None /\ l.id = 0 /\ l.old = {}
        /\ l.wanted = wanted /\ l.subject = s /\ l.provider = p
    BY <2>2, <2>3, NoCallIsCall DEF Call, NoCall
  <2>5. AtMostOne(wanted \cap Emails) /\ AtMostOne(wanted \cap Phones)
    BY <2>1 DEF AtMostOne
  <2>6. CallFits("createOAuth", l)
    BY <2>1, <2>4, <2>5 DEF CallFits, AccountWriting, OnAddress, SigningUp
  <2>7. QED
    BY <2>1, <2>2, <2>4, <2>6, SignUpStarts DEF SigningUp
<1>3. QED
  BY <1>1, <1>2

(* An account starts with at most one address of each kind. *)
LEMMA WantedCounts ==
    ASSUME NEW S \in SUBSET Address, AtMostOne(S \cap Emails), AtMostOne(S \cap Phones)
    PROVE  /\ Cardinality(S) \in Nat
           /\ S # {} => Cardinality(S) >= 1
           /\ \A a, b \in S : a \in Emails /\ b \notin Emails => Cardinality(S) = 2
           /\ \A a, b \in S : (a \in Emails <=> b \in Emails) => a = b
<1>1. \A a, b \in S : (a \in Emails <=> b \in Emails) => a = b
  BY DEF AtMostOne, Address
<1>2. CASE S = {}
  BY <1>2, FS_EmptySet
<1>3. ASSUME NEW a \in S, NEW b \in S, a \in Emails, b \notin Emails
      PROVE  Cardinality(S) = 2
  <2>1. S = {a} \cup {b} /\ b \notin {a}
    BY <1>1, <1>3
  <2>2. IsFiniteSet({a}) /\ Cardinality({a}) = 1
    BY FS_Singleton
  <2>3. Cardinality({a} \cup {b}) = 2
    BY <2>1, <2>2, FS_AddElement
  <2>4. QED
    BY <2>1, <2>3
<1>4. ASSUME NEW a \in S, S = {a} PROVE Cardinality(S) = 1
  BY <1>4, FS_Singleton
<1>5. S = {} \/ (\E a \in S : S = {a}) \/ (\E a, b \in S : a \in Emails /\ b \notin Emails)
  BY <1>1
<1>6. Cardinality(S) \in Nat /\ (S # {} => Cardinality(S) >= 1)
  BY <1>2, <1>3, <1>4, <1>5
<1>7. QED
  BY <1>1, <1>3, <1>6

(* The rows of a new account: fresh numbers, primary, and named after. *)
LEMMA StoreUserKeeps ==
    ASSUME AccountsInv, NEW r \in Requests, NEW u \in Users, NEW verified \in BOOLEAN,
           NEW from \in SigningUp, Proceed(r, from, "idle", NoCall), MayCreate(r),
           users[u] = "free", StoreUser(r, u, verified), Codings',
           UNCHANGED <<torn, marred>>, proven \subseteq proven',
           proven' \subseteq Users \X Address,
           verified => \A a \in call[r].wanted : <<u, a>> \in proven'
    PROVE  AccountsInv' /\ Recovers
<1>1. PICK c, W, n, p, s : /\ c = call[r] /\ W = c.wanted /\ n = Cardinality(c.wanted)
                           /\ p = c.provider /\ s = c.subject
  OBVIOUS
<1>2. PICK id : id = [x \in Address |-> rowIds + IF x \in Emails THEN 1 ELSE n]
  OBVIOUS
<1>3. /\ rowIds + n <= MaxRowIds
      /\ users' = [users EXCEPT ![u] = "live"]
      /\ address' = [x \in Address |->
            IF x \in W THEN [id |-> id[x], user |-> u, primary |-> TRUE, verified |-> verified]
            ELSE address[x]]
      /\ credential' = [credential EXCEPT ![u][p] = s]
      /\ rowIds' = rowIds + n
  BY <1>1, <1>2 DEF StoreUser
<1>4. /\ pc[r] = from /\ pc' = [pc EXCEPT ![r] = "idle"]
      /\ call' = [call EXCEPT ![r] = NoCall] /\ UNCHANGED <<calls, faults>>
  BY DEF Proceed, Goto
<1>5. TablesInv /\ Tables /\ Keys /\ LocalTypes /\ CallsFit /\ CallFits(from, c) /\ c \in Call
  BY <1>1, <1>4, PartsOfInv DEF TablesInv, CallsFit, LocalTypes
<1>6. /\ W \subseteq Address /\ p \in Provider /\ s \in Subjects(p)
      /\ AtMostOne(W \cap Emails) /\ AtMostOne(W \cap Phones)
      /\ p = "EMAIL" => s \in W /\ (W \cap Emails # {} => s \in Emails)
  BY <1>1, <1>5 DEF CallFits, SigningUp, OAuth, Call
<1>7. /\ n \in Nat /\ (W # {} => n >= 1)
      /\ \A a, b \in W : a \in Emails /\ b \notin Emails => n = 2
      /\ \A a, b \in W : (a \in Emails <=> b \in Emails) => a = b
  BY <1>1, <1>6, WantedCounts
<1>8. rowIds \in Nat /\ rowIds' \in 0..MaxRowIds /\ rowIds <= rowIds'
  BY <1>3, <1>5, <1>7, Bounds DEF Tables
<1>9. /\ \A x \in W : id[x] \in 1..MaxRowIds /\ id[x] > rowIds /\ id[x] <= rowIds'
      /\ \A x, y \in W : id[x] = id[y] => x = y
  BY <1>2, <1>3, <1>6, <1>7, <1>8, Bounds
<1>10. \A x \in Address :
          /\ x \notin W => address'[x] = address[x]
          /\ x \in W =>
                /\ address'[x] \in Identifier
                /\ address'[x].id = id[x] /\ address'[x].user = u
                /\ address'[x].primary /\ address'[x].verified = verified
                /\ address[x] = NoRowHere
  BY <1>1, <1>3, <1>9 DEF Identifier, MayCreate, Free
<1>11. \A x \in Address : /\ address[x].id \in 0..MaxRowIds /\ address[x].id <= rowIds
                          /\ address[x] = NoRowHere => address[x].user = None
  BY <1>5, RowTypes DEF Keys
<1>12. s \in Subject /\ s # None /\ "EMAIL" \in Provider
  BY <1>6, Bounds DEF Subjects, Subject, Provider, OAuth
<1>13. /\ credential' \in [Users -> [Provider -> Subject \cup {None}]]
       /\ \A v \in Users, x \in Provider :
             credential'[v][x] = IF v = u /\ x = p THEN s ELSE credential[v][x]
  BY <1>3, <1>5, <1>6, <1>12 DEF Tables
<1>14. \A v \in Users : users'[v] = IF v = u THEN "live" ELSE users[v]
  BY <1>3, <1>5 DEF Tables
<1>15. Tables'
  <2>1. address' \in [Address -> Identifier \cup {NoRowHere}]
    <3>1. address' = [x \in Address |-> address'[x]]
      BY <1>3
    <3>2. \A x \in Address : address'[x] \in Identifier \cup {NoRowHere}
      BY <1>5, <1>10 DEF Tables
    <3>3. QED
      BY <3>1, <3>2
  <2>2. users' \in [Users -> {"free", "live", "deleted", "stale"}]
    BY <1>3, <1>5 DEF Tables
  <2>3. \A v \in Users, x \in Provider : credential'[v][x] \in Subjects(x) \cup {None}
    BY <1>5, <1>6, <1>13 DEF Tables
  <2>4. QED
    BY <1>8, <1>13, <2>1, <2>2, <2>3 DEF Tables
<1>16. Keys'
  <2>1. \A x \in Address : address'[x].id <= rowIds' /\ (x \in W <=> address'[x].id > rowIds)
    BY <1>8, <1>9, <1>10, <1>11, Bounds
  <2>2. \A x, y \in Address : address'[x].id = address'[y].id /\ address'[x].id # 0 => x = y
    BY <1>5, <1>9, <1>10, <2>1 DEF Keys
  <2>3. QED
    BY <2>1, <2>2 DEF Keys
<1>17. VerifiedIsProven'
  <2>1. ASSUME NEW x \in Address, address'[x].verified
        PROVE  <<address'[x].user, x>> \in proven'
    <3>1. CASE x \in W
      BY <1>1, <1>10, <2>1, <3>1
    <3>2. CASE x \notin W
      BY <1>5, <1>10, <2>1, <3>2 DEF TablesInv, VerifiedIsProven
    <3>3. QED
      BY <3>1, <3>2
  <2>2. QED
    BY <2>1 DEF VerifiedIsProven
<1>18. /\ \A x \in Provider : credential[u][x] = None
       /\ \A x \in Address : address[x].user # u
  BY <1>5 DEF TablesInv, FreeHaveNothing
<1>19. \A x \in Address : /\ address'[x].user = u <=> x \in W
                          /\ address'[x].user = u => address'[x].primary
  BY <1>10, <1>18
<1>20. \A v \in Users \ {u}, x \in Address :
          /\ address'[x].user = v <=> address[x].user = v
          /\ address[x].user = v => address'[x] = address[x]
  BY <1>10, <1>11, Bounds
<1>21. FreeHaveNothing'
  BY <1>5, <1>13, <1>14, <1>20 DEF TablesInv, FreeHaveNothing
<1>22. \A v \in Users \ {u} : /\ LoginsOf(v)' = LoginsOf(v) /\ Removable(v)' = Removable(v)
                              /\ VerifiedOf(v)' = VerifiedOf(v)
                              /\ HasAddress(v)' <=> HasAddress(v)
                              /\ credential'[v]["EMAIL"] = credential[v]["EMAIL"]
  BY <1>12, <1>13, <1>20 DEF LoginsOf, Removable, HasAddress, VerifiedOf
<1>23. credential'[u]["EMAIL"] = IF p = "EMAIL" THEN s ELSE None
  BY <1>12, <1>13, <1>18
<1>24. Reachable(u)'
  <2>1. p \in LoginsOf(u)'
    BY <1>6, <1>12, <1>13 DEF LoginsOf
  <2>2. Removable(u)' = {}
    BY <1>19 DEF Removable
  <2>3. credential'[u]["EMAIL"] # None => HasAddress(u)'
    BY <1>6, <1>19, <1>23 DEF HasAddress
  <2>4. QED
    BY <2>1, <2>2, <2>3 DEF Reachable
<1>25. AccountsReachable'
  <2>1. ASSUME NEW v \in Users \ {u}, users'[v] = "live" PROVE Reachable(v)'
    BY <1>5, <1>14, <1>22, <2>1 DEF TablesInv, AccountsReachable, Reachable, Live
  <2>2. QED
    BY <1>24, <2>1 DEF AccountsReachable, Live
<1>26. TablesInv'
  BY <1>15, <1>16, <1>17, <1>21, <1>25 DEF TablesInv
<1>27. Steady
  <2>1. \A x \in Address : address'[x].id # 0 => \/ address'[x].id > rowIds
                                                 \/ address'[x] = address[x]
    BY <1>9, <1>10
  <2>2. \A v \in Live : v \in Users \ {u}
    BY DEF Live
  <2>3. QED
    BY <1>8, <1>14, <1>22, <2>1, <2>2 DEF Steady
<1>28. Recovers
  BY <1>22 DEF Recovers, Live
<1>29. LocalTypes'
  BY <1>4, <1>5, NoCallIsCall DEF LocalTypes, AccountLabel
<1>30. CallFits("idle", NoCall) /\ ReadStill("idle", NoCall)'
  BY <1>15, IdleFits
<1>31. CallsFit'
  BY <1>4, <1>15, <1>27, <1>30, CallsFitStep
<1>32. Caller(u) = {}
  BY <1>5 DEF Caller, At, CallsFit, ReadStill
<1>33. InOrder(u)'
  <2>1. \A k : /\ Own(u, k)' = {x \in W : KindOf(x) = k}
               /\ PrimaryOf(u, k)' = {x \in W : KindOf(x) = k}
    BY <1>6, <1>19 DEF Own, PrimaryOf
  <2>2. \A k \in Kind, x, y \in W : KindOf(x) = k /\ KindOf(y) = k => x = y
    BY <1>7 DEF KindOf, Kind
  <2>3. \A k \in Kind : OnePrimary(u, k)'
    BY <1>6, <2>1, <2>2 DEF OnePrimary
  <2>4. ASSUME credential'[u]["EMAIL"] \in Emails
        PROVE  credential'[u]["EMAIL"] \in PrimaryOf(u, "EMAIL")'
    <3>1. None \notin Emails
      BY Bounds DEF Address
    <3>2. p = "EMAIL" /\ credential'[u]["EMAIL"] = s /\ s \in W /\ s \in Emails
      BY <1>6, <1>23, <2>4, <3>1
    <3>3. QED
      BY <2>1, <3>2 DEF KindOf
  <2>5. QED
    BY <2>3, <2>4 DEF InOrder, Named
<1>34. \A v \in Users \ {u} : Lessens(v)
  BY <1>20, <1>22 DEF Lessens
<1>35. AloneInOrder'
  <2>1. from \notin AccountWriting /\ "idle" \notin AccountWriting
    BY DEF SigningUp, AccountWriting
  <2>2. \A v \in Users : users'[v] = "live" => \/ users[v] = "live" /\ Lessens(v)
                                               \/ Caller(v) = {} /\ InOrder(v)'
    BY <1>14, <1>32, <1>33, <1>34
  <2>3. QED
    BY <1>4, <2>1, <2>2, AloneSignUp
<1>36. QED
  BY <1>26, <1>28, <1>29, <1>31, <1>35, PartsAfter

(* A registration refused by an index leaves nothing. *)
LEMMA SignUpEnds ==
    ASSUME AccountsInv, NEW r \in Requests, NEW from \in SigningUp, Ends(r, from, FALSE)
    PROVE  AccountsInv' /\ Recovers
<1>1. /\ pc[r] = from /\ pc' = [pc EXCEPT ![r] = "idle"]
      /\ call' = [call EXCEPT ![r] = NoCall]
      /\ UNCHANGED <<accountTables, sent, calls, faults, proven, torn, marred>>
  BY DEF Ends, Proceed, Goto
<1>2. TablesInv' /\ Steady /\ Recovers /\ \A v : Lessens(v)
  BY <1>1, Untouched
<1>3. LocalTypes /\ Codings /\ users' = users
  BY <1>1, PartsOfInv DEF accountTables
<1>4. LocalTypes' /\ Codings'
  BY <1>1, <1>3, NoCallIsCall DEF LocalTypes, AccountLabel, Codings
<1>5. CallFits("idle", NoCall) /\ ReadStill("idle", NoCall)'
  BY <1>2, IdleFits DEF TablesInv
<1>6. CallsFit'
  BY <1>1, <1>2, <1>5, CallsFitStep DEF TablesInv
<1>7. from \notin AccountWriting /\ "idle" \notin AccountWriting
  BY DEF SigningUp, AccountWriting
<1>8. AloneInOrder'
  BY <1>1, <1>2, <1>3, <1>7, AloneSignUp
<1>9. QED
  BY <1>2, <1>4, <1>6, <1>8, PartsAfter

(* A new account is unverified. *)
LEMMA CreateUserKeeps ==
    ASSUME AccountsInv, NEW r \in Requests, CreateUser(r)
    PROVE  AccountsInv' /\ Recovers
<1>1. CASE Ends(r, "createUser", FALSE)
  BY <1>1, SignUpEnds DEF SigningUp
<1>2. CASE ~Ends(r, "createUser", FALSE)
  <2>1. PICK u \in Users, S \in SUBSET call[r].wanted :
           /\ Proceed(r, "createUser", "idle", NoCall) /\ MayCreate(r)
           /\ users[u] = "free" /\ StoreUser(r, u, FALSE)
           /\ sent' = [sent EXCEPT ![u] = Codes(u, "verify", S)]
           /\ UNCHANGED accountHistory
    BY <1>2 DEF CreateUser
  <2>2. Codings /\ LocalTypes
    BY PartsOfInv
  <2>3. S \subseteq Address
    BY <2>2 DEF LocalTypes, Call
  <2>4. Codes(u, "verify", S) \in [Purpose \X Kind -> Address \cup {None}]
    <3>1. ASSUME NEW w \in Purpose \X Kind, \E a \in S : KindOf(a) = w[2]
          PROVE  (CHOOSE a \in S : KindOf(a) = w[2]) \in Address
      BY <2>3, <3>1
    <3>2. QED
      BY <2>2, <3>1 DEF Codes, Codings
  <2>5. Codings'
    BY <2>1, <2>2, <2>4 DEF Codings
  <2>6. UNCHANGED <<proven, torn, marred>>
    BY <2>1 DEF accountHistory
  <2>7. proven' \subseteq Users \X Address /\ proven \subseteq proven'
    BY <2>2, <2>6 DEF LocalTypes
  <2>8. QED
    BY <2>1, <2>5, <2>6, <2>7, StoreUserKeeps DEF SigningUp
<1>3. QED
  BY <1>1, <1>2

(* One by a provider is verified by what the provider vouches for. *)
LEMMA CreateOAuthUserKeeps ==
    ASSUME AccountsInv, NEW r \in Requests, CreateOAuthUser(r)
    PROVE  AccountsInv' /\ Recovers
<1>1. CASE Ends(r, "createOAuth", FALSE)
  BY <1>1, SignUpEnds DEF SigningUp
<1>2. CASE ~Ends(r, "createOAuth", FALSE)
  <2>1. PICK u \in Users :
           /\ Proceed(r, "createOAuth", "idle", NoCall) /\ MayCreate(r)
           /\ users[u] = "free" /\ StoreUser(r, u, TRUE)
           /\ proven' = proven \cup ({u} \X call[r].wanted)
           /\ UNCHANGED <<sent, torn, marred>>
    BY <1>2 DEF CreateOAuthUser
  <2>2. Codings /\ LocalTypes
    BY PartsOfInv
  <2>3. call[r].wanted \subseteq Address
    BY <2>2 DEF LocalTypes, Call
  <2>4. Codings' /\ proven \subseteq proven' /\ proven' \subseteq Users \X Address
    BY <2>1, <2>2, <2>3 DEF Codings, LocalTypes
  <2>5. \A a \in call[r].wanted : <<u, a>> \in proven'
    BY <2>1
  <2>6. QED
    BY <2>1, <2>4, <2>5, StoreUserKeeps DEF SigningUp
<1>3. QED
  BY <1>1, <1>2

-------------------------------------------------------------------------------
(* All calls without a handler. *)
LEMMA CallsKeep ==
    ASSUME AccountsInv, NEW u \in Users,
           \/ VerifyCall(u) \/ IdentifierCall(u) \/ \E p \in OAuth : Unlink(u, p)
           \/ Deactivate(u) \/ GracePasses(u)
    PROVE  AccountsInv' /\ Recovers
<1>1. Emails \subseteq Address /\ Phones \subseteq Address
  BY DEF Address
<1>2. CASE VerifyCall(u)
  BY <1>1, <1>2, SendCodeKeeps DEF VerifyCall, ResendEmail, ResendPhone, ResendVerify
<1>3. CASE IdentifierCall(u)
  <2>1. CASE \E a \in Address : RemoveIdentifier(u, a)
    BY <2>1, RemoveIdentifierKeeps
  <2>2. CASE RequestAddEmail(u) \/ RequestAddPhone(u)
    BY <1>1, <2>2, SendCodeKeeps DEF RequestAddEmail, RequestAddPhone, RequestAdd
  <2>3. CASE RequestEmailChange(u) \/ RequestPhoneChange(u)
    BY <1>1, <2>3, SendCodeKeeps DEF RequestEmailChange, RequestPhoneChange, RequestChange
  <2>4. QED
    BY <1>3, <2>1, <2>2, <2>3 DEF IdentifierCall
<1>4. CASE \E p \in OAuth : Unlink(u, p)
  BY <1>4, UnlinkKeeps
<1>5. calls \in 0..MaxCalls
  BY PartsOfInv DEF LocalTypes
<1>6. CASE Deactivate(u)
  <2>1. calls' \in 0..MaxCalls
    BY <1>5, <1>6, Bounds DEF Deactivate, CountCall, MoreCalls
  <2>2. QED
    BY <1>6, <2>1, AgesKeeps DEF Deactivate
<1>7. CASE GracePasses(u)
  BY <1>5, <1>7, AgesKeeps DEF GracePasses
<1>8. QED
  BY <1>2, <1>3, <1>4, <1>6, <1>7

(* All handlers that start for a user. *)
LEMMA StartsKeep ==
    ASSUME AccountsInv, NEW r \in Requests, NEW u \in Users,
           ConfirmEmail(r, u) \/ ConfirmPhone(r, u) \/ IdentifierStep(r, u)
    PROVE  AccountsInv' /\ Recovers
<1>1. {"verify", "add", "change"} \subseteq Purpose /\ {"EMAIL", "PHONE"} \subseteq Kind
  BY DEF Purpose, Kind
<1>2. CASE ConfirmEmail(r, u) \/ ConfirmPhone(r, u)
  BY <1>1, <1>2, ConsumeKeeps DEF ConfirmEmail, ConfirmPhone
<1>3. CASE ConfirmAddEmail(r, u) \/ ConfirmAddPhone(r, u)
  BY <1>1, <1>3, ConsumeKeeps DEF ConfirmAddEmail, ConfirmAddPhone
<1>4. CASE ConfirmEmailChange(r, u) \/ ConfirmPhoneChange(r, u)
  BY <1>1, <1>4, ConsumeKeeps DEF ConfirmEmailChange, ConfirmPhoneChange
<1>5. CASE \E a \in Address : SetPrimary(r, u, a)
  BY <1>5, SetPrimaryKeeps
<1>6. QED
  BY <1>2, <1>3, <1>4, <1>5 DEF IdentifierStep

(* All steps. *)
LEMMA AccountsStep ==
    ASSUME AccountsInv, AccountsNext PROVE AccountsInv' /\ Recovers
<1>1. CASE Reclaim
  BY <1>1, ReclaimKeeps
<1>2. ASSUME NEW u \in Users,
             \/ VerifyCall(u) \/ IdentifierCall(u) \/ \E p \in OAuth : Unlink(u, p)
             \/ Deactivate(u) \/ GracePasses(u)
      PROVE  AccountsInv' /\ Recovers
  BY <1>2, CallsKeep
<1>3. ASSUME NEW r \in Requests, SignUpStep(r) PROVE AccountsInv' /\ Recovers
  BY <1>3, RegisterKeeps, CreateUserKeeps, CreateOAuthUserKeeps DEF SignUpStep
<1>4. ASSUME NEW r \in Requests, VerifyStep(r) PROVE AccountsInv' /\ Recovers
  BY <1>4, StartsKeep, FindVerifyKeeps, MarkVerifiedKeeps DEF VerifyStep
<1>5. ASSUME NEW r \in Requests, CommitStep(r) PROVE AccountsInv' /\ Recovers
  BY <1>5, FindPrimaryKeeps, CreateIdentifierKeeps, FindOwnerKeeps, DeletePrimaryKeeps,
     ClearPrimaryKeeps, CommitPrimaryKeeps, SyncCredentialKeeps, CreateCredentialKeeps,
     DiesKeeps DEF CommitStep, ApplyEmailChange, ApplyPhoneChange
<1>6. ASSUME NEW r \in Requests, NEW u \in Users, LoginMethodStep(r, u) \/ IdentifierStep(r, u)
      PROVE  AccountsInv' /\ Recovers
  BY <1>6, LoginMethodKeeps, StartsKeep
<1>7. QED
  BY <1>1, <1>2, <1>3, <1>4, <1>5, <1>6 DEF AccountsNext

(* Nobody, and no row. *)
LEMMA AccountsStart == AccountsInit => AccountsInv
<1>1. SUFFICES ASSUME AccountsInit PROVE AccountsInv
  OBVIOUS
<1>2. /\ pc = [r \in Requests |-> "idle"] /\ faults = 0
      /\ users = [u \in Users |-> "free"]
      /\ address = [a \in Address |-> NoRowHere]
      /\ credential = [u \in Users |-> [p \in Provider |-> None]]
      /\ sent = [u \in Users |-> [w \in Purpose \X Kind |-> None]]
      /\ rowIds = 0 /\ calls = 0
      /\ call = [r \in Requests |-> NoCall]
      /\ proven = {} /\ torn = {} /\ marred = {}
  BY <1>1 DEF AccountsInit, HandlersInit
<1>3. \A a \in Address : address[a].id = 0 /\ address[a].user = None /\ ~address[a].verified
  BY <1>2 DEF NoRowHere
<1>4. Tables /\ Codings /\ LocalTypes
  BY <1>2, Bounds, NoCallIsCall DEF Tables, Codings, LocalTypes, AccountLabel
<1>5. Keys /\ VerifiedIsProven
  BY <1>2, <1>3 DEF Keys, VerifiedIsProven
<1>6. FreeHaveNothing /\ AccountsReachable /\ AloneInOrder
  BY <1>2, <1>3, Bounds DEF FreeHaveNothing, AccountsReachable, AloneInOrder, Live
<1>7. CallsFit
  BY <1>2, NoCallIsCall DEF CallsFit, CallFits, ReadStill, AccountWriting, OnAddress,
                            SigningUp, Proving
<1>8. QED
  BY <1>4, <1>5, <1>6, <1>7, PartsOfInv DEF TablesInv

(* A step of another component changes nothing here. *)
LEMMA AccountsStands ==
    ASSUME AccountsInv, UNCHANGED <<pc, faults, accountVars>> PROVE AccountsInv'
<1>1. /\ UNCHANGED <<pc, faults, call, calls, sent, accountHistory>>
      /\ UNCHANGED <<accountTables, torn, proven, users>>
  BY DEF accountVars, accountHistory, accountTables
<1>2. TablesInv' /\ Steady /\ \A v : Lessens(v)
  BY <1>1, Untouched
<1>3. Codings' /\ calls' \in 0..MaxCalls
  BY <1>1, PartsOfInv DEF Codings, LocalTypes
<1>4. QED
  BY <1>1, <1>2, <1>3, CallStands

-------------------------------------------------------------------------------
(* The invariant of the account's handlers: every table row, every code    *)
(* and everything a handler remembers of them fits together in every       *)
(* reachable state, however many handlers there are and wherever they die. *)
THEOREM AccountsInvariance == AccountsSpec => []AccountsInv
<1>1. AccountsInv /\ [AccountsNext]_<<pc, faults, accountVars>> => AccountsInv'
  BY AccountsStep, AccountsStands
<1>2. QED
  BY <1>1, AccountsStart, PTL DEF AccountsSpec

(* The type invariant the runs check. *)
THEOREM AccountsTypes == AccountsSpec => []AccountsTypeOK
<1>1. AccountsInv => AccountsTypeOK
  BY DEF AccountsInv
<1>2. QED
  BY <1>1, AccountsInvariance, PTL

(* No order of unlinking providers, removing addresses, linking, setting a *)
(* password, changing contacts and dying half-way locks a live account     *)
(* out, unless a contact change deleted its primary: an account keeps a    *)
(* login (oauth.service.ts, unlink) and, when the password is among them,  *)
(* an address (identifier.repository.ts, remove).                          *)
THEOREM NobodyIsLockedOut == AccountsSpec => []NoLockout
<1>1. AccountsInv => NoLockout
  <2>1. SUFFICES ASSUME AccountsInv, NEW u \in Live, u \notin torn PROVE WayIn(u)
    BY DEF NoLockout
  <2>2. TablesInv /\ Reachable(u)
    BY <2>1, PartsOfInv DEF TablesInv, AccountsReachable
  <2>3. CASE credential[u]["EMAIL"] # None
    <3>1. PICK a \in Address : address[a].user = u
      BY <2>1, <2>2, <2>3 DEF Reachable, HasAddress
    <3>2. KindOf(a) \in Kind /\ a \in Own(u, KindOf(a))
      BY <3>1 DEF KindOf, Kind, Own
    <3>3. QED
      BY <2>3, <3>2 DEF WayIn
  <2>4. CASE credential[u]["EMAIL"] = None
    BY <2>2, <2>4 DEF Reachable, LoginsOf, Provider, WayIn
  <2>5. QED
    BY <2>3, <2>4
<1>2. QED
  BY <1>1, AccountsInvariance, PTL

(* A settled account is in order. *)
LEMMA SettledInOrder ==
    ASSUME AccountsInv, NEW u \in Settled PROVE InOrder(u)
  BY PartsOfInv DEF Settled, AloneInOrder, Alone

(* An account with addresses of a kind has one primary of it whenever its  *)
(* handlers have run one at a time and to their end, whatever the handlers *)
(* of all other accounts were doing meanwhile.                             *)
THEOREM OnePrimaryStays == AccountsSpec => []OnePrimaryPerKind
<1>1. AccountsInv => OnePrimaryPerKind
  <2>1. SUFFICES ASSUME AccountsInv, NEW u \in Settled, NEW k \in Kind, Own(u, k) # {}
                 PROVE  Cardinality(PrimaryOf(u, k)) = 1
    BY DEF OnePrimaryPerKind
  <2>2. PICK a \in Address : PrimaryOf(u, k) = {a}
    BY <2>1, SettledInOrder DEF InOrder, OnePrimary
  <2>3. QED
    BY <2>2, FS_Singleton
<1>2. QED
  BY <1>1, AccountsInvariance, PTL

(* ... and its password credential is not left named after an email that   *)
(* is no longer its primary one, which would keep that email from others.  *)
THEOREM CredentialFollowsPrimary == AccountsSpec => []CredentialNamesPrimary
<1>1. AccountsInv => CredentialNamesPrimary
  BY SettledInOrder DEF CredentialNamesPrimary, InOrder, Named
<1>2. QED
  BY <1>1, AccountsInvariance, PTL

(* No code verifies an address for an account that has not shown to have   *)
(* it, though the row may be gone, or somebody else's, by the time the     *)
(* handler that consumed the code writes it.                               *)
THEOREM OnlyProvenIsVerified == AccountsSpec => []VerifiedIsProven
<1>1. AccountsInv => VerifiedIsProven
  BY DEF AccountsInv
<1>2. QED
  BY <1>1, AccountsInvariance, PTL

(* A live account that has a verified address keeps one through every step *)
(* but the delete of a contact change.                                     *)
THEOREM RecoveryStays == AccountsSpec => RecoveryIsKept
<1>1. AccountsInv /\ [AccountsNext]_<<pc, faults, accountVars>> =>
        [\A u \in Live : VerifiedOf(u) # {} /\ VerifiedOf(u)' = {} => u \in torn']_accountVars
  <2>1. AccountsInv /\ AccountsNext => Recovers
    BY AccountsStep
  <2>2. QED
    BY <2>1 DEF Recovers
<1>2. QED
  BY <1>1, AccountsInvariance, PTL DEF AccountsSpec, RecoveryIsKept
===============================================================================

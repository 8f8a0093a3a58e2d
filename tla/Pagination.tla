------------------------------ MODULE Pagination ------------------------------
(***************************************************************************)
(* prismaPaginate under a client that walks from the first page to the     *)
(* last while rows are inserted.  Rows are sorted by the time of their     *)
(* creation, newest first; ids are random, so their order says nothing     *)
(* about time.  A query sorts rows that its orderBy does not tell apart as *)
(* it likes.  ActivityRepository.list gives an orderBy of its own, by time *)
(* alone; the one prismaPaginate makes goes on to the id.                  *)
(***************************************************************************)
EXTENDS Integers, FiniteSets

CONSTANTS Ids,       \* ids of rows, in their order
          Limit,     \* rows of a page
          MaxTime    \* bound: instants at which rows are created

ASSUME PaginationAssumption ==
    /\ Ids \subseteq Nat \ {0} /\ IsFiniteSet(Ids)
    /\ {Limit, MaxTime} \subseteq Nat \ {0} /\ Limit <= 150

VARIABLES
    created,   \* each row's createdAt, 0 if there is none yet
    now,
    walk,      \* the client: what it asks next, how, and what it was given
    seen,      \* how often each row was on a page, 2 is more than once
    there,     \* history: the rows when the walk began
    edges      \* history: the last rows of its pages

pageVars == <<created, now, walk, seen, there, edges>>

Walk == [next : {"start", "cursor", "offset", "count", "done"},
         order : {"caller", "made"}, page : 1..Cardinality(Ids) + 1, cursor : Ids \cup {0}]

PageTypeOK ==
    /\ created \in [Ids -> 0..MaxTime] /\ now \in 1..MaxTime
    /\ walk \in Walk
    /\ seen \in [Ids -> 0..2]
    /\ there \subseteq Ids /\ edges \subseteq Ids

PageInit ==
    /\ created = [i \in Ids |-> 0] /\ now = 1
    /\ walk = [next |-> "start", order |-> "made", page |-> 1, cursor |-> 0]
    /\ seen = [i \in Ids |-> 0]
    /\ there = {} /\ edges = {}

Rows == {i \in Ids : created[i] # 0}

(* Row i comes before row j in every answer. *)
Before(i, j) ==
    \/ created[i] > created[j]
    \/ walk.order = "made" /\ created[i] = created[j] /\ i > j

(* The first n rows of S, in any answer. *)
Tops(S, n) ==
    {T \in SUBSET S : /\ Cardinality(T) = IF n < Cardinality(S) THEN n ELSE Cardinality(S)
                      /\ \A i \in T, j \in S \ T : ~Before(j, i)}

Show(D) == seen' = [i \in Ids |-> IF i \in D /\ seen[i] < 2 THEN seen[i] + 1 ELSE seen[i]]

Insert(i) ==
    /\ created[i] = 0
    /\ created' = [created EXCEPT ![i] = now]
    /\ UNCHANGED <<now, walk, seen, there, edges>>

Tick ==
    /\ now < MaxTime
    /\ now' = now + 1
    /\ UNCHANGED <<created, walk, seen, there, edges>>

(* A query that names a page goes by offset, any other by cursor. *)
StartWalk(next, order) ==
    /\ walk.next = "start"
    /\ walk' = [walk EXCEPT !.next = next, !.order = order]
    /\ there' = Rows
    /\ UNCHANGED <<created, now, seen, edges>>

(* The page of S, which has one row more behind it if there is a next one. *)
Page(S) ==
    \E D \in Tops(S, Limit) :
        /\ Show(D)
        /\ IF Cardinality(S) <= Limit
           THEN walk' = [walk EXCEPT !.next = "done"] /\ UNCHANGED edges
           ELSE \E last \in D :
                  /\ \A i \in D : ~Before(last, i)
                  /\ walk' = [walk EXCEPT !.cursor = last]
                  /\ edges' = edges \cup {last}

Older(c)  == {i \in Rows : created[i] < created[c]}
Keyset(c) == Older(c) \cup {i \in Rows : created[i] = created[c] /\ i < c}

BugCursorPageByTime ==
    /\ walk.next = "cursor"
    /\ Page(IF walk.cursor = 0 THEN Rows ELSE Older(walk.cursor))
    /\ UNCHANGED <<created, now, there>>

CursorPage ==
    /\ walk.next = "cursor"
    /\ Page(IF walk.cursor = 0 THEN Rows ELSE Keyset(walk.cursor))
    /\ UNCHANGED <<created, now, there>>

(* An offset page and the number of pages are two queries. *)
OffsetPage ==
    /\ walk.next = "offset"
    /\ \E A \in Tops(Rows, (walk.page - 1) * Limit) :
       \E D \in Tops(Rows \ A, Limit) : Show(D)
    /\ walk' = [walk EXCEPT !.next = "count"]
    /\ UNCHANGED <<created, now, there, edges>>

OffsetCount ==
    LET pages == (Cardinality(Rows) + Limit - 1) \div Limit IN
    /\ walk.next = "count"
    /\ walk' = IF walk.page < pages
               THEN [walk EXCEPT !.next = "offset", !.page = walk.page + 1]
               ELSE [walk EXCEPT !.next = "done"]
    /\ UNCHANGED <<created, now, seen, there, edges>>

PageNext ==
    \/ Tick \/ CursorPage \/ OffsetPage \/ OffsetCount
    \/ \E i \in Ids : Insert(i)
    \/ \E order \in {"caller", "made"} : StartWalk("cursor", order)
    \/ StartWalk("offset", "caller")

PageSpec == PageInit /\ [][PageNext]_pageVars

-------------------------------------------------------------------------------
Tied(i, S) == \E j \in S \ {i} : created[i] = created[j]

(* A walk by cursor shows every row that was there when it began exactly   *)
(* once, whatever is inserted meanwhile, and a walk by offset shows it at  *)
(* least once.  A caller's orderBy without the id (activity.repository.ts: *)
(* 85) makes an exception of rows created together: by cursor of those     *)
(* tied with the last row of a page, by offset of all that are tied.       *)
WalksAreComplete ==
    walk.next = "done" =>
        \A i \in there :
            IF walk.page = 1 /\ walk.order = "made"
            THEN seen[i] = 1
            ELSE \/ seen[i] = 1
                 \/ seen[i] = 2 /\ walk.page > 1
                 \/ Tied(i, IF walk.page > 1 THEN Rows ELSE edges)
===============================================================================

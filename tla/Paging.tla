------------------------------- MODULE Paging --------------------------------
(***************************************************************************)
(* A client that walks through a list page by page while the list changes. *)
(*  - server/internal/roomengine/engine.go, PageSnapshot: the members of a *)
(*    room, sorted; the cursor is the last member of the page;             *)
(*  - server/internal/admin/service.go, paginateThreads: the threads that  *)
(*    match, oldest first; the cursor is an offset;                        *)
(*  - server/internal/cluster/redis.go, ListInboxNotifications and         *)
(*    ListRoomSubscriptionSettings: newest first; the cursor is an offset; *)
(*  - listRooms and ListRooms of the two: the rooms that match, by the     *)
(*    batches of a Redis SCAN, whose cursor it hands on.                   *)
(* Items are numbers in the order of their names. A number is also a       *)
(* cursor, and 0 is none. The limit is at least 1 (parseListLimit); a      *)
(* request for threads without limit and cursor gets them all at once.     *)
(***************************************************************************)
EXTENDS Naturals, Sequences, SequencesExt, FiniteSets, FiniteSetsExt

CONSTANTS
    Items,        \* 1..n: members, threads, notifications, settings, rooms
    Matching,     \* rooms that match the query
    BatchOf,      \* BatchOf[i]: the batch of a SCAN that room i is in, from 1
    MaxChanges    \* bound: changes of the list

ASSUME PagingAssumption ==
    /\ Items = 1..Cardinality(Items)
    /\ Matching \subseteq Items /\ BatchOf \in [Items -> Items]
    /\ MaxChanges \in Nat

VARIABLES
    listing,   \* the items there are, in the order of the list
    walk,      \* [list, limit, cursor, got, stage]
    changes,   \* counter for MaxChanges
    shown,     \* history: the pages' items, in the order they were shown
    steady,    \* history: items there, and not moved, since the walk began
    shifted,   \* history: an item in front of the offset was removed
    trimmed    \* history: matches of a batch beyond the limit of their page

pagingVars == <<listing, walk, changes, shown, steady, shifted, trimmed>>

Lists == {"snapshot", "threads", "inbox", "settings", "allRooms", "rooms"}
Offsets == {"threads", "inbox", "settings"}

\* A list there is at first, and the limit of its walk.
PagingInit(start, lists, limits) ==
    /\ listing \in start
    /\ walk \in [list : lists, limit : limits, cursor : {0}, got : {<< >>}, stage : {"walking"}]
    /\ changes = 0
    /\ shown = << >> /\ steady = ToSet(listing)
    /\ shifted = FALSE /\ trimmed = {}

-----------------------------------------------------------------------------
(* A page is its items and the cursor of the next one.                     *)

Page(items, next) == [items |-> items, next |-> next]

Slice(list, from, to) == SubSeq(list, from + 1, IF to < Len(list) THEN to ELSE Len(list))

\* A cursor that is no member any more starts from the beginning.
PageSnapshot(list, cursor, limit) ==
    LET sorted == SortSeq(list, <)
        start == SelectInSeq(sorted, LAMBDA m : m = cursor)
        end == IF start + limit < Len(sorted) THEN start + limit ELSE Len(sorted)
    IN  Page(Slice(sorted, start, end), IF end < Len(sorted) THEN sorted[end] ELSE 0)

paginateThreads(list, cursor, limit) ==
    IF cursor >= Len(list) THEN Page(<< >>, 0)
    ELSE IF cursor + limit >= Len(list) THEN Page(Slice(list, cursor, Len(list)), 0)
    ELSE Page(Slice(list, cursor, cursor + limit), cursor + limit)

\* Faulty variant: the extra item that ZREVRANGE's inclusive end reads is
\* counted in the next cursor.
ListRangePastEnd(list, cursor, limit) ==
    LET ids == Slice(list, cursor, cursor + limit + 1) IN
    IF Len(ids) > limit THEN Page(Slice(ids, 0, limit), cursor + limit + 1) ELSE Page(ids, 0)

\* ZREVRANGE cursor (cursor + limit), an inclusive end: one item more than
\* the page holds tells that there is another page.
ListRange(list, cursor, limit) ==
    LET ids == Slice(list, cursor, cursor + limit + 1) IN
    IF Len(ids) > limit THEN Page(Slice(ids, 0, limit), cursor + limit) ELSE Page(ids, 0)

-----------------------------------------------------------------------------
\* Redis: SCAN gives out one batch after the other, 0 after the last.
Scan(cursor) ==
    LET batch == cursor + 1 IN
    [items |-> SetToSortSeq({i \in ToSet(listing) : BatchOf[i] = batch}, <),
     next |-> IF batch < Max({BatchOf[i] : i \in Items}) THEN batch ELSE 0]

\* A page that is put together at once. Without a query a page of rooms is a
\* batch, whatever the limit is.
FetchPage ==
    LET page == CASE walk.list = "snapshot" -> PageSnapshot(listing, walk.cursor, walk.limit)
                  [] walk.list = "threads" -> paginateThreads(listing, walk.cursor, walk.limit)
                  [] walk.list = "allRooms" -> Scan(walk.cursor)
                  [] OTHER -> ListRange(listing, walk.cursor, walk.limit)
    IN
    /\ walk.stage = "walking" /\ walk.list # "rooms"
    /\ shown' = shown \o page.items
    /\ walk' = [walk EXCEPT !.cursor = page.next, !.stage = IF page.next = 0 THEN "ended" ELSE @]
    /\ UNCHANGED <<listing, changes, steady, shifted, trimmed>>

\* The page is full, or nothing is left to scan.
PageEnds(got, scanned) == Len(got) >= walk.limit \/ scanned.next \in {0, walk.cursor}

\* One ListRooms call of listRooms' loop. The cursor of the page is the one
\* behind the batch it ended in.
listRooms ==
    LET scanned == Scan(walk.cursor)
        matches == SelectSeq(scanned.items, LAMBDA i : i \in Matching)
        got == walk.got \o Slice(matches, 0, walk.limit - Len(walk.got))
        ends == PageEnds(got, scanned)
    IN
    /\ walk.stage = "walking" /\ walk.list = "rooms"
    /\ walk' = [walk EXCEPT !.cursor = scanned.next,
                            !.got = IF ends THEN << >> ELSE got,
                            !.stage = IF scanned.next = 0 THEN "ended" ELSE @]
    /\ shown' = IF ends THEN shown \o got ELSE shown
    /\ trimmed' = trimmed \cup (ToSet(matches) \ ToSet(got))
    /\ UNCHANGED <<listing, changes, steady, shifted>>

-----------------------------------------------------------------------------
(* The list changes between two pages.                                     *)

CanChange == walk.stage = "walking" /\ changes < MaxChanges

\* The newest item is first or last. A subscription setting that is written
\* again moves to the front.
PutItem(i) ==
    /\ CanChange
    /\ i \notin ToSet(listing) \/ walk.list = "settings"
    /\ listing' = IF walk.list \in {"inbox", "settings"} THEN <<i>> \o Remove(listing, i)
                  ELSE Append(listing, i)
    /\ changes' = changes + 1
    /\ steady' = steady \ {i}
    /\ UNCHANGED <<walk, shown, shifted, trimmed>>

\* An item is deleted, or no longer matches.
RemoveItem(i) ==
    /\ CanChange /\ i \in ToSet(listing)
    /\ listing' = Remove(listing, i)
    /\ changes' = changes + 1
    /\ steady' = steady \ {i}
    /\ shifted' = (shifted \/ (walk.list \in Offsets
                               /\ SelectInSeq(listing, LAMBDA x : x = i) <= walk.cursor))
    /\ UNCHANGED <<walk, shown, trimmed>>

PagingNext ==
    \/ FetchPage \/ listRooms
    \/ \E i \in Items : PutItem(i) \/ RemoveItem(i)

-----------------------------------------------------------------------------
\* A walk that has ended has shown every item that was there all the time,
\* whatever came and went in between. Left out are lists with an offset in
\* front of which an item was removed, which moves another one past the
\* cursor, and filtered rooms of a batch that held more than its page.
PagesComplete ==
    walk.stage = "ended" /\ ~shifted =>
        (IF walk.list = "rooms" THEN (steady \cap Matching) \ trimmed ELSE steady) \subseteq ToSet(shown)

\* A walk shows an item twice only if the list changed under it.
PagesDistinct == changes = 0 => IsInjective(shown)

\* The pages of a list cover what was there all the time, and those of a list
\* that stayed as it was show nothing twice.
PagesCover == PagesComplete /\ PagesDistinct
=============================================================================

------------------------------ MODULE RoomList ------------------------------
(***************************************************************************)
(* The reading side of the rooms: GET /rooms page by page and              *)
(* GET /rooms/{id}.  Every answer is put together from two or three        *)
(* queries with no transaction around them, while the tables are written   *)
(* by others (the service's own operations that write rooms answer "not    *)
(* implemented", so every writer is outside src/).  One client walks       *)
(* through the pages and opens rooms on the way; requests only read, so    *)
(* more clients would not disturb one another.                             *)
(***************************************************************************)
EXTENDS Integers, FiniteSets, Functions

CONSTANTS
  Rooms,
  Times,       \* the start times
  MaxMembers,  \* bound: joined members of a room
  Sizes,       \* the page sizes clients ask for
  DefaultSize, \* 20 in the code
  MaxWrites    \* bound: writes by others

ASSUME RoomsAssumption ==
  /\ IsFiniteSet(Rooms) /\ Times \subseteq Int /\ MaxMembers \in Nat /\ MaxWrites \in Nat
  /\ Sizes \subseteq Int /\ DefaultSize \in Nat \ {0}

VARIABLES
  shelf,  \* of a room: "listed" (public, and recruiting, full or ongoing), "closed" (public), "private", "gone"
  start,  \* start_time of each room
  joined, \* its members with status joined
  writes, \* writes done by others so far
  stage,  \* the query the open request is about to make, or "none"
  walk,   \* "off", "on" or "over"
  page,   \* the page the walk asks for next
  size,   \* the page size it asks for
  total,  \* read by the first query of List
  items,  \* the rooms its second query read, or the room being opened
  answer, \* the answer of the last request
  seen,   \* how many pages of this walk have shown a room
  steady, \* history: the rooms whose place in the list is unshared and unchanged since the walk began
  since   \* history: what the tables held during the open, or the last, request

tables  == <<shelf, start, joined, writes>>
request == <<stage, total, items>>
client  == <<walk, page, size, seen>>
vars == <<tables, request, client, answer, steady, since>>

Shelves == {"listed", "closed", "private", "gone"}

\* What List selects.  The client's filter (keyword, sport, date, ...) is the
\* same in both queries and is part of what "listed" stands for.
Listed == {r \in Rooms : shelf[r] = "listed"}

\* The place of r among the listed rooms, by start_time, when no other one starts with it.
Place(r)   == Cardinality({q \in Listed : start[q] < start[r]}) + 1
Alone(r)   == r \in Listed /\ \A q \in Listed : start[q] = start[r] => q = r
Fixed      == {r \in Rooms : Alone(r)}
Content    == {[shelf |-> shelf, joined |-> joined]}

Nothing == [kind |-> "none"]

Init ==
  /\ shelf \in [Rooms -> Shelves \ {"gone"}]
  /\ start \in [Rooms -> Times]
  /\ joined = [r \in Rooms |-> 0]
  /\ writes = 0
  /\ stage = "none" /\ total = 0 /\ items = {}
  /\ walk = "off" /\ page = 1 /\ size \in Sizes
  /\ seen = [r \in Rooms |-> 0]
  /\ answer = Nothing
  /\ steady = {} /\ since = {}

-----------------------------------------------------------------------------
\* The writers.

Write ==
  /\ writes < MaxWrites /\ writes' = writes + 1
  /\ since' = IF stage = "none" THEN since ELSE since \cup Content'
  /\ steady' = {r \in steady \cap Fixed' : Place(r)' = Place(r)}
  /\ UNCHANGED <<request, client, answer>>

Publish(r, s) ==
  /\ shelf[r] # "gone" /\ s # shelf[r]
  /\ shelf' = [shelf EXCEPT ![r] = s]
  /\ joined' = [joined EXCEPT ![r] = IF s = "gone" THEN 0 ELSE @]
  /\ UNCHANGED start
  /\ Write

Reschedule(r, t) ==
  /\ shelf[r] # "gone" /\ t # start[r]
  /\ start' = [start EXCEPT ![r] = t]
  /\ UNCHANGED <<shelf, joined>>
  /\ Write

Members(r, n) ==
  /\ shelf[r] # "gone" /\ n # joined[r]
  /\ joined' = [joined EXCEPT ![r] = n]
  /\ UNCHANGED <<shelf, start>>
  /\ Write

-----------------------------------------------------------------------------
\* GET /rooms.

\* The lists the database may return: rooms that start together in any order.
Orders ==
  {o \in Bijection(1..Cardinality(Listed), Listed) :
     \A i, j \in DOMAIN o : i < j => start[o[i]] <= start[o[j]]}

\* Wrong variant: the page number taken as an offset in pages.
Offset_FromZero(p, n) == p * n
Offset(p, n) == ((IF p < 1 THEN 1 ELSE p) - 1) * n

Limit(n) == IF n < 1 THEN DefaultSize ELSE n

\* Offset and Limit applied to an order o.  (The handler computes a size of at
\* most 100 and passes on the other one, so there is no cap.)
Page(o) ==
  LET offset == Offset(page, Limit(size))
  IN  {o[i] : i \in DOMAIN o \cap (offset + 1)..(offset + Limit(size))}

\* A new walk, from its first page, or the next request of one.
BeginWalk ==
  /\ stage = "none" /\ walk = "off"
  /\ walk' = "on" /\ steady' = Fixed
  /\ stage' = "count" /\ since' = Content /\ answer' = Nothing
  /\ UNCHANGED <<tables, page, size, seen, total, items>>

NextPage ==
  /\ stage = "none" /\ walk = "on"
  /\ stage' = "count" /\ since' = Content /\ answer' = Nothing
  /\ UNCHANGED <<tables, client, steady, total, items>>

Count ==
  /\ stage = "count"
  /\ total' = Cardinality(Listed) /\ stage' = "find"
  /\ UNCHANGED <<tables, client, answer, steady, since, items>>

Find ==
  /\ stage = "find"
  /\ \E o \in Orders : items' = Page(o)
  /\ stage' = "cards"
  /\ UNCHANGED <<tables, client, answer, steady, since, total>>

\* The client stops at an empty page, or where the total it was told says so.
Last(n) == items = {} \/ page * n >= total

Counted(r) == joined[r]

\* CountMembersByRoomIDs (asked only when there are rooms; a room without a
\* row counts 0) and the answer.  It repeats the size the client asked for.
Cards ==
  /\ stage = "cards"
  /\ answer' = [kind |-> "page", size |-> size, total |-> total, cards |-> [r \in items |-> Counted(r)]]
  /\ seen' = [r \in Rooms |-> IF r \in items THEN seen[r] + 1 ELSE seen[r]]
  /\ page' = page + 1
  /\ walk' = IF Last(size) THEN "over" ELSE "on"
  /\ stage' = "none" /\ total' = 0 /\ items' = {}
  /\ UNCHANGED <<tables, size, steady, since>>

-----------------------------------------------------------------------------
\* GET /rooms/{id}.

Open(r) ==
  /\ stage = "none"
  /\ items' = {r} /\ stage' = "room" /\ since' = Content /\ answer' = Nothing
  /\ UNCHANGED <<tables, client, steady, total>>

Reply(a) ==
  /\ answer' = a /\ stage' = "none" /\ items' = {} /\ total' = 0
  /\ UNCHANGED <<tables, client, steady, since>>

\* GetByPublicID: the room...
ReadRoom(r) ==
  /\ stage = "room" /\ items = {r}
  /\ \/ shelf[r] = "gone" /\ Reply([kind |-> "notfound", room |-> r])
     \/ /\ shelf[r] # "gone"
        /\ stage' = IF shelf[r] = "private" THEN "private members" ELSE "members"
        /\ UNCHANGED <<tables, client, answer, steady, since, total, items>>

\* Wrong variant: a missing user passes for the owner.
MayRead_NoUser(st) == TRUE
MayRead(st) == st = "members"

\* ... its members, and the answer.  There is no current user (GetCurrent
\* always fails), so a private room is shown to nobody, and a detail never has
\* the invitation code.
ReadMembers(r) ==
  /\ stage \in {"members", "private members"} /\ items = {r}
  /\ IF MayRead(stage)
     THEN Reply([kind |-> "detail", room |-> r, joined |-> joined[r]])
     ELSE Reply([kind |-> "forbidden", room |-> r])

\* A query fails: 500, and the client may ask again.
Fail ==
  /\ stage # "none"
  /\ answer' = [kind |-> "error"] /\ stage' = "none" /\ items' = {} /\ total' = 0 /\ since' = {}
  /\ UNCHANGED <<tables, client, steady>>

-----------------------------------------------------------------------------
Others ==
  \E r \in Rooms :
    \/ \E s \in Shelves : Publish(r, s)
    \/ \E t \in Times : Reschedule(r, t)
    \/ \E n \in 0..MaxMembers : Members(r, n)

Requests ==
  \/ BeginWalk \/ NextPage \/ Count \/ Find \/ Cards \/ Fail
  \/ \E r \in Rooms : Open(r) \/ ReadRoom(r) \/ ReadMembers(r)

Next == Others \/ Requests

Spec == Init /\ [][Next]_vars

-----------------------------------------------------------------------------
Stages == {"none", "count", "find", "cards", "room", "members", "private members"}

Replies ==
  {Nothing, [kind |-> "error"]}
    \cup [kind : {"notfound", "forbidden"}, room : Rooms]
    \cup [kind : {"detail"}, room : Rooms, joined : 0..MaxMembers]
    \cup [kind : {"page"}, size : Sizes, total : Nat, cards : UNION {[S -> 0..MaxMembers] : S \in SUBSET Rooms}]

TypeOK ==
  /\ shelf \in [Rooms -> Shelves] /\ start \in [Rooms -> Times]
  /\ joined \in [Rooms -> 0..MaxMembers] /\ writes \in 0..MaxWrites
  /\ stage \in Stages /\ walk \in {"off", "on", "over"}
  /\ page \in Nat \ {0} /\ size \in Sizes /\ total \in Nat
  /\ items \subseteq Rooms /\ answer \in Replies
  /\ seen \in [Rooms -> Nat]
  /\ steady \subseteq Rooms
  /\ since \subseteq [shelf : [Rooms -> Shelves], joined : [Rooms -> 0..MaxMembers]]

\* At some instant of the request:
Was(r, S)   == \E then \in since : then.shelf[r] \in S
Had(r, n)   == \E then \in since : then.joined[r] = n
Totalled(n) == \E then \in since : n = Cardinality({r \in Rooms : then.shelf[r] = "listed"})

\* The three queries of List (and the two of GetRoomById) see different
\* tables, yet an answer never tells of a room what was not so at some instant of the
\* request: a card shows a room that was listed and a count of members it had,
\* the total was the number of listed rooms, and a room that was private
\* throughout is refused, one that was public throughout is not.
AnswerTrue ==
  /\ answer.kind = "page" =>
       /\ Totalled(answer.total)
       /\ \A r \in DOMAIN answer.cards : Was(r, {"listed"}) /\ Had(r, answer.cards[r])
  /\ answer.kind = "detail" => Was(answer.room, {"listed", "closed"}) /\ Had(answer.room, answer.joined)
  /\ answer.kind = "forbidden" => Was(answer.room, {"private"})
  /\ answer.kind = "notfound" => Was(answer.room, {"gone"})

\* Paging with an order that ties are free to change and a table that is
\* written meanwhile loses or repeats rooms, but only those: a room that starts
\* when no other listed room does, and whose place in the list nobody moved,
\* is never shown twice, and a walk that is over has shown it, also with a
\* page size List replaces and repeats to the client unreplaced.
SteadySeenOnce ==
  \A r \in steady : seen[r] <= 1 /\ (walk = "over" => seen[r] = 1)

=============================================================================

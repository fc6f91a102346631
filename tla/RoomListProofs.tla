-------------------------- MODULE RoomListProofs --------------------------
(***************************************************************************)
(* For any rooms, page sizes and writers: what an answer tells of a room   *)
(* was so during its request, and a walk shows a room that keeps its place *)
(* exactly once.                                                           *)
(***************************************************************************)
EXTENDS RoomList, FiniteSetTheorems, TLAPS

\* The open request has seen the tables as they are, and what its queries read.
SinceInv ==
  /\ stage # "none" => answer = Nothing /\ Content \subseteq since
  /\ stage \in {"find", "cards"} => Totalled(total)
  /\ stage = "cards" => \A r \in items : Was(r, {"listed"})
  /\ stage = "members" => \A r \in items : Was(r, {"listed", "closed"})
  /\ stage = "private members" => \A r \in items : Was(r, {"private"})

\* The places the pages before page p cover.
Covered(p) == (p - 1) * Limit(size)

\* The pages so far have shown the steady rooms up to where they reach.
WalkInv ==
  /\ steady \subseteq Fixed
  /\ walk = "off" => page = 1 /\ steady = {} /\ \A r \in Rooms : seen[r] = 0
  /\ stage \in {"count", "find", "cards"} => walk = "on"
  /\ walk = "on" => \A r \in steady : seen[r] = IF Place(r) <= Covered(page) THEN 1 ELSE 0
  /\ walk = "over" => \A r \in steady : seen[r] = 1

\* What the open request has read agrees with the places of the steady rooms,
\* whatever is written since.
FoundInv ==
  /\ stage \in {"find", "cards"} => \A r \in steady : Place(r) <= total
  /\ stage = "cards" =>
       \A r \in steady :
         /\ r \in items <=> Covered(page) < Place(r) /\ Place(r) <= Covered(page + 1)
         /\ items = {} => Place(r) <= Covered(page)

IInv == TypeOK /\ SinceInv /\ AnswerTrue /\ WalkInv /\ FoundInv

-----------------------------------------------------------------------------
LEMMA Sets ==
  \A S \in SUBSET Rooms : IsFiniteSet(S) /\ Cardinality(S) \in Nat /\ (S # {} => Cardinality(S) # 0)
  BY RoomsAssumption, FS_Subset, FS_CardinalityType, FS_EmptySet

LEMMA Limits == \A n \in Sizes : Limit(n) \in Nat \ {0}
  BY RoomsAssumption DEF Limit

\* A sum of pages, as the prover needs it.
LEMMA Pages ==
  ASSUME NEW p \in Nat \ {0}, NEW n \in Nat \ {0}
  PROVE  /\ (p - 1) * n \in Nat /\ p * n \in Nat
         /\ ((p + 1) - 1) * n = (p - 1) * n + n
         /\ p * n = (p - 1) * n + n
<1>1. (p - 1) * n \in Nat /\ p * n \in Nat
  OBVIOUS
<1>2. p * n = (p - 1) * n + n
  OBVIOUS
<1> QED BY <1>1, <1>2

Starts == start \in [Rooms -> Times]

\* Places are counted from 1 up to the number of listed rooms.
LEMMA Places ==
  ASSUME Starts, NEW r \in Listed
  PROVE  Place(r) \in 1..Cardinality(Listed)
<1> DEFINE Before == {q \in Listed : start[q] < start[r]}
<1>1. Listed \in SUBSET Rooms /\ Before \in SUBSET Listed /\ start[r] \in Int
  BY RoomsAssumption DEF Listed, Starts
<1>2. r \notin Before
  BY <1>1
<1>3. IsFiniteSet(Listed) /\ IsFiniteSet(Before) /\ Cardinality(Listed) \in Nat /\ Cardinality(Before) \in Nat
  BY <1>1, Sets
<1>4. Cardinality(Before) <= Cardinality(Listed) /\ (Cardinality(Listed) = Cardinality(Before) => Listed = Before)
  BY <1>1, <1>3, FS_Subset
<1>5. Cardinality(Before) # Cardinality(Listed)
  BY <1>2, <1>4
<1>6. Place(r) = Cardinality(Before) + 1
  BY DEF Place
<1> QED BY <1>3, <1>4, <1>5, <1>6

\* However ties are ordered, a room that shares its start with no other stands
\* at its place.
LEMMA Index ==
  ASSUME Starts, NEW o \in Orders, NEW r, Alone(r), NEW i \in DOMAIN o
  PROVE  o[i] = r <=> i = Place(r)
<1> DEFINE n == Cardinality(Listed)
           Before == {q \in Listed : start[q] < start[r]}
<1>1. Listed \in SUBSET Rooms /\ n \in Nat /\ r \in Listed
  BY Sets DEF Listed, Alone
<1>2. /\ o \in [1..n -> Listed] /\ \A a, b \in 1..n : o[a] = o[b] => a = b
      /\ \A q \in Listed : \E a \in 1..n : o[a] = q
      /\ \A a, b \in 1..n : a < b => start[o[a]] <= start[o[b]]
  BY DEF Orders, Bijection, Injection, Surjection, IsInjective
<1>3. \A q \in Listed : start[q] \in Int
  BY <1>1, RoomsAssumption DEF Starts
<1>4. PICK k \in 1..n : o[k] = r
  BY <1>1, <1>2
<1> DEFINE f == [a \in 1..(k - 1) |-> o[a]]
<1>5. \A a \in 1..(k - 1) : a \in 1..n /\ a < k /\ o[a] \in Before
  <2> SUFFICES ASSUME NEW a \in 1..(k - 1) PROVE a \in 1..n /\ a < k /\ o[a] \in Before
    OBVIOUS
  <2>1. a \in 1..n /\ a < k
    BY <1>1
  <2>2. o[a] \in Listed /\ start[o[a]] <= start[r] /\ o[a] # r
    BY <2>1, <1>2, <1>4
  <2>3. start[o[a]] # start[r]
    BY <2>2 DEF Alone
  <2> QED BY <2>1, <2>2, <2>3, <1>1, <1>3
<1>6. \A q \in Before : \E a \in 1..(k - 1) : o[a] = q
  <2> SUFFICES ASSUME NEW q \in Before PROVE \E a \in 1..(k - 1) : o[a] = q
    OBVIOUS
  <2>1. PICK a \in 1..n : o[a] = q
    BY <1>2
  <2>2. ~(k < a) /\ a # k
    BY <2>1, <1>1, <1>2, <1>3, <1>4
  <2> QED BY <2>1, <2>2, <1>1
<1>7. f \in Bijection(1..(k - 1), Before)
  <2>1. f \in [1..(k - 1) -> Before]
    BY <1>5
  <2>2. IsInjective(f)
    BY <1>2, <1>5 DEF IsInjective
  <2>3. \A q \in Before : \E a \in 1..(k - 1) : f[a] = q
    BY <1>6
  <2> QED BY <2>1, <2>2, <2>3 DEF Bijection, Injection, Surjection
<1>8. Cardinality(Before) = Cardinality(1..(k - 1)) /\ Cardinality(1..(k - 1)) = k - 1
  <2> HIDE DEF f, Before
  <2>0. k \in Int /\ k >= 1
    BY <1>1
  <2>1. IsFiniteSet(1..(k - 1)) /\ Cardinality(1..(k - 1)) = k - 1
    BY <2>0, FS_Interval
  <2>2. ExistsBijection(1..(k - 1), Before)
    BY <1>7 DEF ExistsBijection
  <2> QED BY <2>1, <2>2, FS_Bijection
<1>9. Place(r) = k
  BY <1>8, <1>1 DEF Place
<1> QED BY <1>9, <1>2, <1>4

\* So a page has exactly the rooms whose places it covers, and an empty one is
\* behind all of them.
LEMMA PageOf ==
  ASSUME Starts, size \in Sizes, page \in Nat \ {0}, NEW o \in Orders, NEW r, Alone(r)
  PROVE  /\ r \in Page(o) <=> Covered(page) < Place(r) /\ Place(r) <= Covered(page + 1)
         /\ Page(o) = {} => Place(r) <= Covered(page)
<1> DEFINE L == Limit(size)
           n == Cardinality(Listed)
<1>1. L \in Nat \ {0} /\ Covered(page) \in Nat /\ Covered(page + 1) = Covered(page) + L
  BY Limits, Pages DEF Covered
<1>2. Offset(page, L) = Covered(page)
  BY DEF Offset, Covered
<1>3. n \in Nat /\ r \in Listed /\ Place(r) \in 1..n
  BY Sets, Places DEF Listed, Alone
<1>4. DOMAIN o = 1..n
  BY DEF Orders, Bijection, Injection
<1>5. Page(o) = {o[i] : i \in (1..n) \cap (Covered(page) + 1)..(Covered(page) + L)}
  BY <1>2, <1>4 DEF Page
<1>6. \A i \in 1..n : o[i] = r <=> i = Place(r)
  BY <1>4, Index
<1> HIDE DEF L, n
<1>7. r \in Page(o) <=> Place(r) \in (Covered(page) + 1)..(Covered(page) + L)
  BY <1>3, <1>5, <1>6
<1>8. Page(o) = {} => Place(r) <= Covered(page)
  <2> SUFFICES ASSUME Covered(page) < Place(r) PROVE Page(o) # {}
    BY <1>1, <1>3
  <2>1. Covered(page) + 1 \in 1..n /\ Covered(page) + 1 \in (Covered(page) + 1)..(Covered(page) + L)
    BY <1>1, <1>3
  <2> QED BY <2>1, <1>5
<1> QED BY <1>1, <1>3, <1>7, <1>8

-----------------------------------------------------------------------------
LEMMA Initially == Init => IInv
<1> SUFFICES ASSUME Init PROVE IInv
  OBVIOUS
<1>1. TypeOK
  BY RoomsAssumption DEF Init, TypeOK, Shelves, Stages, Replies, Nothing
<1>2. SinceInv /\ AnswerTrue
  BY DEF Init, SinceInv, AnswerTrue, Nothing
<1>3. WalkInv /\ FoundInv
  BY DEF Init, WalkInv, FoundInv
<1> QED BY <1>1, <1>2, <1>3 DEF IInv

\* What was so stays so while the request collects more.
LEMMA Kept ==
  ASSUME since \subseteq since'
  PROVE  /\ \A r, S : Was(r, S) => Was(r, S)'
         /\ \A r, n : Had(r, n) => Had(r, n)'
         /\ \A n : Totalled(n) => Totalled(n)'
  BY DEF Was, Had, Totalled

\* The tables as they are have been seen.
LEMMA Now ==
  ASSUME Content \subseteq since
  PROVE  /\ \A r, S : shelf[r] \in S => Was(r, S)
         /\ \A r : Had(r, joined[r])
         /\ Totalled(Cardinality(Listed))
  BY DEF Content, Was, Had, Totalled, Listed

\* A write by others leaves the walk what it knew of the rooms it did not move.
LEMMA ByOthers ==
  ASSUME IInv, Others
  PROVE  IInv'
<1>1. /\ Write
      /\ shelf' \in [Rooms -> Shelves] /\ start' \in [Rooms -> Times] /\ joined' \in [Rooms -> 0..MaxMembers]
  BY RoomsAssumption DEF Others, Publish, Reschedule, Members, IInv, TypeOK
<1>2. /\ UNCHANGED <<stage, total, items, walk, page, size, seen, answer>>
      /\ writes < MaxWrites /\ writes' = writes + 1
      /\ since' = IF stage = "none" THEN since ELSE since \cup Content'
      /\ steady' = {r \in steady \cap Fixed' : Place(r)' = Place(r)}
  BY <1>1 DEF Write, request, client
<1>3. since \subseteq since' /\ (stage # "none" => Content' \subseteq since')
  BY <1>2
<1>4. Content' \subseteq [shelf : [Rooms -> Shelves], joined : [Rooms -> 0..MaxMembers]]
  BY <1>1 DEF Content
<1>5. TypeOK'
  <2>1. writes' \in 0..MaxWrites
    BY <1>2, RoomsAssumption DEF IInv, TypeOK
  <2>2. steady' \subseteq Rooms /\ since' \subseteq [shelf : [Rooms -> Shelves], joined : [Rooms -> 0..MaxMembers]]
    BY <1>2, <1>4 DEF IInv, TypeOK
  <2> QED BY <1>1, <1>2, <2>1, <2>2 DEF IInv, TypeOK
<1>6. SinceInv'
  BY <1>2, <1>3, Kept DEF IInv, SinceInv
<1>7. AnswerTrue'
  BY <1>2, <1>3, Kept DEF IInv, AnswerTrue
<1>8. \A r \in steady' : r \in steady /\ r \in Fixed' /\ Place(r)' = Place(r)
  BY <1>2
<1>9. Covered(page)' = Covered(page) /\ Covered(page + 1)' = Covered(page + 1)
  BY <1>2 DEF Covered
<1>10. WalkInv'
  <2>1. steady' \subseteq Fixed'
    BY <1>8
  <2> QED BY <1>2, <1>8, <1>9, <2>1 DEF IInv, WalkInv
<1>11. FoundInv'
  BY <1>2, <1>8, <1>9 DEF IInv, FoundInv
<1> QED BY <1>5, <1>6, <1>7, <1>10, <1>11 DEF IInv

\* A request leaves the tables, and the places in them, alone.
LEMMA Still ==
  ASSUME UNCHANGED tables
  PROVE  /\ Listed' = Listed /\ Fixed' = Fixed /\ Content' = Content
         /\ \A r : Place(r)' = Place(r)
         /\ UNCHANGED <<shelf, start, joined, writes>>
  BY DEF tables, Listed, Fixed, Alone, Content, Place

\* Requests that do not touch the walk.
LEMMA WalkKept ==
  ASSUME IInv, UNCHANGED <<tables, client, steady>>, stage' \notin {"count", "find", "cards"}
  PROVE  WalkInv' /\ FoundInv'
<1>1. UNCHANGED <<walk, page, size, seen, steady>> /\ Covered(page)' = Covered(page)
  BY DEF client, Covered
<1>2. WalkInv'
  BY <1>1, Still DEF IInv, WalkInv
<1> QED BY <1>2 DEF FoundInv

LEMMA BeginWalkStep ==
  ASSUME IInv, BeginWalk
  PROVE  IInv'
<1> USE DEF BeginWalk
<1>1. UNCHANGED <<shelf, start, joined, writes>> /\ Listed' = Listed /\ Fixed' = Fixed /\ Content' = Content
      /\ \A r : Place(r)' = Place(r)
  BY Still
<1>2. TypeOK'
  <2>1. /\ Content \subseteq [shelf : [Rooms -> Shelves], joined : [Rooms -> 0..MaxMembers]]
        /\ Fixed \subseteq Rooms /\ Nothing \in Replies
    BY DEF IInv, TypeOK, Content, Fixed, Replies
  <2>2. UNCHANGED <<page, size, seen, total, items>> /\ steady' = Fixed /\ since' = Content
    OBVIOUS
  <2> QED BY <1>1, <2>1, <2>2 DEF IInv, TypeOK, Stages
<1>3. SinceInv' /\ AnswerTrue'
  BY <1>1 DEF SinceInv, AnswerTrue, Nothing
<1>4. \A r \in Fixed : seen'[r] = 0 /\ ~(Place(r)' <= Covered(page)')
  <2> SUFFICES ASSUME NEW r \in Fixed PROVE seen[r] = 0 /\ ~(Place(r) <= Covered(page)')
    BY <1>1
  <2>1. page = 1 /\ page' = 1 /\ size' = size /\ seen[r] = 0 /\ Limit(size) \in Nat
    BY Limits DEF IInv, WalkInv, Fixed, TypeOK
  <2>2. Place(r) \in 1..Cardinality(Listed) /\ Cardinality(Listed) \in Nat
    BY Places, Sets DEF Fixed, Alone, IInv, TypeOK, Starts, Listed
  <2>3. Covered(page)' = 0
    BY <2>1, SMT DEF Covered, Limit
  <2> QED BY <2>1, <2>2, <2>3
<1>6. WalkInv'
  BY <1>1, <1>4 DEF WalkInv
<1>7. FoundInv'
  BY DEF FoundInv
<1> QED BY <1>2, <1>3, <1>6, <1>7 DEF IInv

LEMMA NextPageStep ==
  ASSUME IInv, NextPage
  PROVE  IInv'
<1> USE DEF NextPage
<1>1. UNCHANGED <<shelf, start, joined, writes>> /\ Fixed' = Fixed /\ Content' = Content
      /\ \A r : Place(r)' = Place(r)
  BY Still
<1>2. UNCHANGED <<walk, page, size, seen, steady>> /\ Covered(page)' = Covered(page)
  BY DEF client, Covered
<1>3. TypeOK'
  BY <1>1, <1>2 DEF IInv, TypeOK, Stages, Replies, Content
<1>4. SinceInv' /\ AnswerTrue'
  BY <1>1 DEF SinceInv, AnswerTrue, Nothing
<1>5. WalkInv'
  BY <1>1, <1>2 DEF IInv, WalkInv
<1>6. FoundInv'
  BY DEF FoundInv
<1> QED BY <1>3, <1>4, <1>5, <1>6 DEF IInv

LEMMA CountStep ==
  ASSUME IInv, Count
  PROVE  IInv'
<1> USE DEF Count
<1>1. UNCHANGED <<shelf, start, joined, writes>> /\ Fixed' = Fixed /\ Content' = Content
      /\ \A r : Place(r)' = Place(r)
  BY Still
<1>2. UNCHANGED <<walk, page, size, seen, steady>> /\ Covered(page)' = Covered(page)
  BY DEF client, Covered
<1>3. Cardinality(Listed) \in Nat
  BY Sets DEF Listed
<1>4. TypeOK'
  BY <1>1, <1>2, <1>3 DEF IInv, TypeOK, Stages
<1>5. Content \subseteq since /\ answer = Nothing
  BY DEF IInv, SinceInv
<1>6. Totalled(total)'
  BY <1>5, Now DEF Totalled
<1>7. SinceInv' /\ AnswerTrue'
  BY <1>1, <1>5, <1>6 DEF SinceInv, AnswerTrue, Nothing
<1>8. WalkInv'
  BY <1>1, <1>2 DEF IInv, WalkInv
<1>9. \A r \in steady : Place(r) <= total'
  <2> SUFFICES ASSUME NEW r \in steady PROVE Place(r) <= Cardinality(Listed)
    OBVIOUS
  <2>1. r \in Listed
    BY DEF IInv, WalkInv, Fixed, Alone
  <2>2. Starts
    BY DEF Starts, IInv, TypeOK
  <2> QED BY <2>1, <2>2, <1>3, Places
<1>10. FoundInv'
  BY <1>1, <1>9 DEF FoundInv
<1> QED BY <1>4, <1>7, <1>8, <1>10 DEF IInv

LEMMA FindStep ==
  ASSUME IInv, Find
  PROVE  IInv'
<1> USE DEF Find
<1>1. UNCHANGED <<shelf, start, joined, writes>> /\ Fixed' = Fixed /\ Content' = Content
      /\ \A r : Place(r)' = Place(r)
  BY Still
<1>2. UNCHANGED <<walk, page, size, seen, steady>> /\ Covered(page)' = Covered(page)
      /\ Covered(page + 1)' = Covered(page + 1)
  BY DEF client, Covered
<1>3. PICK o \in Orders : items' = Page(o)
  OBVIOUS
<1>4. Page(o) \subseteq Listed
  BY DEF Page, Orders, Bijection, Injection
<1>5. TypeOK'
  BY <1>1, <1>2, <1>3, <1>4 DEF IInv, TypeOK, Stages, Listed
<1>6. Content \subseteq since /\ answer = Nothing /\ Totalled(total)
  BY DEF IInv, SinceInv
<1>7. \A r \in items' : Was(r, {"listed"})
  BY <1>3, <1>4, <1>6, Now DEF Listed
<1>8. SinceInv' /\ AnswerTrue'
  BY <1>1, <1>6, <1>7, Kept DEF SinceInv, AnswerTrue, Nothing
<1>9. WalkInv'
  BY <1>1, <1>2 DEF IInv, WalkInv
<1>10. ASSUME NEW r \in steady
       PROVE  /\ r \in Page(o) <=> Covered(page) < Place(r) /\ Place(r) <= Covered(page + 1)
              /\ Page(o) = {} => Place(r) <= Covered(page)
  <2>1. Alone(r) /\ Starts /\ size \in Sizes /\ page \in Nat \ {0}
    BY DEF IInv, TypeOK, WalkInv, Fixed, Starts
  <2> QED BY <2>1, PageOf
<1>11. FoundInv'
  <2>1. \A r \in steady : Place(r) <= total
    BY DEF IInv, FoundInv
  <2> QED BY <1>1, <1>2, <1>3, <1>10, <2>1 DEF FoundInv
<1> QED BY <1>5, <1>8, <1>9, <1>11 DEF IInv

\* A walk that stops has reached past every steady room.
LEMMA CardsStep ==
  ASSUME IInv, Cards
  PROVE  IInv'
<1> USE DEF Cards
<1> DEFINE L == Limit(size)
<1>1. UNCHANGED <<shelf, start, joined, writes>> /\ Fixed' = Fixed /\ Content' = Content
      /\ \A r : Place(r)' = Place(r)
  BY Still
<1>2. /\ size \in Int /\ size \in Sizes /\ L \in Nat \ {0} /\ page \in Nat \ {0} /\ total \in Nat
      /\ steady' = steady /\ since' = since /\ size' = size
  BY Limits, RoomsAssumption DEF IInv, TypeOK
<1>3. /\ Covered(page) \in Nat /\ Covered(page + 1) = Covered(page) + L
      /\ Covered(page)' = Covered(page + 1)
      /\ page * L = Covered(page) + L
  BY <1>2, Pages DEF Covered
<1>4. ASSUME NEW r \in steady
      PROVE  Place(r) \in Nat \ {0} /\ Place(r) <= total /\ r \in Rooms
  <2>1. r \in Listed /\ Starts /\ r \in Rooms
    BY DEF IInv, TypeOK, WalkInv, Fixed, Alone, Starts, Listed
  <2>2. Cardinality(Listed) \in Nat
    BY Sets DEF Listed
  <2>3. Place(r) <= total
    BY DEF IInv, FoundInv
  <2> QED BY <2>1, <2>2, <2>3, Places
<1>5. ASSUME NEW r \in steady
      PROVE  seen'[r] = IF Place(r) <= Covered(page + 1) THEN 1 ELSE 0
  <2>1. /\ seen[r] = IF Place(r) <= Covered(page) THEN 1 ELSE 0
        /\ r \in items <=> Covered(page) < Place(r) /\ Place(r) <= Covered(page + 1)
    BY DEF IInv, WalkInv, FoundInv
  <2>2. seen'[r] = IF r \in items THEN seen[r] + 1 ELSE seen[r]
    BY <1>4
  <2> HIDE DEF L, Cards
  <2> QED BY <2>1, <2>2, <1>2, <1>3, <1>4
<1>6. ASSUME NEW r \in steady, Last(size)
      PROVE  Place(r) <= Covered(page + 1)
  <2>1. CASE items = {}
    <3>1. Place(r) <= Covered(page)
      BY <2>1 DEF IInv, FoundInv
    <3> HIDE DEF L
    <3> QED BY <3>1, <1>2, <1>3, <1>4
  <2>2. CASE page * size >= total /\ size < 1
    <3>1. page * size <= 0
      BY <2>2, <1>2
    <3> QED BY <3>1, <2>2, <1>2, <1>4
  <2>3. CASE page * size >= total /\ ~(size < 1)
    <3>1. L = size
      BY <2>3 DEF Limit
    <3> HIDE DEF L
    <3> QED BY <3>1, <2>3, <1>2, <1>3, <1>4
  <2> QED BY <1>6, <2>1, <2>2, <2>3 DEF Last
<1>7. answer' \in Replies
  <2>1. [r \in items |-> Counted(r)] \in [items -> 0..MaxMembers] /\ items \in SUBSET Rooms
    BY DEF Counted, IInv, TypeOK
  <2>2. [r \in items |-> Counted(r)] \in UNION {[S -> 0..MaxMembers] : S \in SUBSET Rooms}
    BY <2>1
  <2> QED BY <2>2, <1>2 DEF Replies
<1>8. TypeOK'
  BY <1>1, <1>2, <1>7 DEF IInv, TypeOK, Stages
<1>9. SinceInv'
  BY DEF SinceInv
<1>10. AnswerTrue'
  <2> DEFINE counts == [r \in items |-> Counted(r)]
  <2>1. Content \subseteq since /\ Totalled(total) /\ \A r \in items : Was(r, {"listed"})
    BY DEF IInv, SinceInv
  <2>2. \A r \in items : Had(r, Counted(r))
    BY <2>1, Now DEF Counted
  <2>3. /\ \E then \in since' : total = Cardinality({r \in Rooms : then.shelf[r] = "listed"})
        /\ \A r \in items : \E then \in since' : then.shelf[r] \in {"listed"}
        /\ \A r \in items : \E then \in since' : then.joined[r] = counts[r]
    BY <1>2, <2>1, <2>2 DEF Totalled, Was, Had
  <2>4. answer'.kind = "page" /\ answer'.total = total /\ answer'.cards = counts
    OBVIOUS
  <2>5. DOMAIN counts = items
    OBVIOUS
  <2> HIDE DEF Cards, counts
  <2> QED BY <2>3, <2>4, <2>5 DEF AnswerTrue, Totalled, Was, Had
<1>11. WalkInv'
  <2> HIDE DEF L
  <2> QED BY <1>1, <1>2, <1>3, <1>5, <1>6 DEF IInv, WalkInv
<1>12. FoundInv'
  BY DEF FoundInv
<1> QED BY <1>8, <1>9, <1>10, <1>11, <1>12 DEF IInv

LEMMA OpenStep ==
  ASSUME IInv, NEW r \in Rooms, Open(r)
  PROVE  IInv'
<1> USE DEF Open
<1>1. UNCHANGED <<shelf, start, joined, writes>> /\ Content' = Content
  BY Still
<1>2. UNCHANGED <<walk, page, size, seen, steady>>
  BY DEF client
<1>3. Content \subseteq [shelf : [Rooms -> Shelves], joined : [Rooms -> 0..MaxMembers]]
  BY DEF IInv, TypeOK, Content
<1>4. TypeOK'
  BY <1>1, <1>2, <1>3 DEF IInv, TypeOK, Stages, Replies
<1>5. SinceInv' /\ AnswerTrue'
  BY <1>1 DEF SinceInv, AnswerTrue, Nothing
<1> QED BY <1>4, <1>5, WalkKept DEF IInv

LEMMA ReadRoomStep ==
  ASSUME IInv, NEW r \in Rooms, ReadRoom(r)
  PROVE  IInv'
<1>1. Content \subseteq since /\ answer = Nothing /\ stage = "room" /\ items = {r}
  BY DEF ReadRoom, IInv, SinceInv
<1>2. CASE shelf[r] = "gone" /\ Reply([kind |-> "notfound", room |-> r])
  <2> USE <1>2 DEF Reply
  <2>1. TypeOK'
    BY DEF IInv, TypeOK, Stages, Replies, tables, client
  <2>2. Was(r, {"gone"})
    BY <1>1, Now
  <2>3. SinceInv' /\ AnswerTrue'
    BY <2>2, Kept DEF SinceInv, AnswerTrue
  <2> QED BY <2>1, <2>3, WalkKept DEF IInv
<1>3. CASE /\ shelf[r] # "gone"
           /\ stage' = IF shelf[r] = "private" THEN "private members" ELSE "members"
           /\ UNCHANGED <<tables, client, answer, steady, since, total, items>>
  <2> USE <1>3
  <2>1. TypeOK'
    BY DEF IInv, TypeOK, Stages, tables, client
  <2>2. shelf[r] \in Shelves
    BY DEF IInv, TypeOK
  <2>3. /\ shelf[r] = "private" => Was(r, {"private"})
        /\ shelf[r] # "private" => Was(r, {"listed", "closed"})
    BY <1>1, <2>2, Now DEF Shelves
  <2>4. SinceInv'
    BY <1>1, <2>3, Kept, Still DEF SinceInv
  <2>5. AnswerTrue'
    BY <1>1 DEF AnswerTrue, Nothing
  <2> QED BY <2>1, <2>4, <2>5, WalkKept DEF IInv
<1> QED BY <1>2, <1>3 DEF ReadRoom

LEMMA ReadMembersStep ==
  ASSUME IInv, NEW r \in Rooms, ReadMembers(r)
  PROVE  IInv'
<1>1. Content \subseteq since /\ items = {r} /\ stage \in {"members", "private members"}
  BY DEF ReadMembers, IInv, SinceInv
<1>2. joined[r] \in 0..MaxMembers
  BY DEF IInv, TypeOK
<1>3. CASE stage = "members" /\ Reply([kind |-> "detail", room |-> r, joined |-> joined[r]])
  <2> USE <1>3 DEF Reply
  <2>1. TypeOK'
    BY <1>2 DEF IInv, TypeOK, Stages, Replies, tables, client
  <2>2. Was(r, {"listed", "closed"}) /\ Had(r, joined[r])
    BY <1>1, Now DEF IInv, SinceInv
  <2>3. SinceInv' /\ AnswerTrue'
    BY <2>2 DEF SinceInv, AnswerTrue, Was, Had
  <2> QED BY <2>1, <2>3, WalkKept DEF IInv
<1>4. CASE stage = "private members" /\ Reply([kind |-> "forbidden", room |-> r])
  <2> USE <1>4 DEF Reply
  <2>1. TypeOK'
    BY DEF IInv, TypeOK, Stages, Replies, tables, client
  <2>2. Was(r, {"private"})
    BY <1>1 DEF IInv, SinceInv
  <2>3. SinceInv' /\ AnswerTrue'
    BY <2>2 DEF SinceInv, AnswerTrue, Was
  <2> QED BY <2>1, <2>3, WalkKept DEF IInv
<1> QED BY <1>1, <1>3, <1>4 DEF ReadMembers, MayRead

LEMMA FailStep ==
  ASSUME IInv, Fail
  PROVE  IInv'
<1> USE DEF Fail
<1>1. TypeOK'
  BY DEF IInv, TypeOK, Stages, Replies, tables, client
<1>2. SinceInv' /\ AnswerTrue'
  BY DEF SinceInv, AnswerTrue
<1> QED BY <1>1, <1>2, WalkKept DEF IInv

LEMMA Stutters ==
  ASSUME IInv, UNCHANGED vars
  PROVE  IInv'
<1> USE DEF vars, tables, request, client
<1>1. TypeOK' /\ UNCHANGED tables
  BY DEF IInv, TypeOK
<1>2. SinceInv' /\ AnswerTrue'
  BY <1>1, Still, Kept DEF IInv, SinceInv, AnswerTrue
<1>3. WalkInv' /\ FoundInv'
  BY <1>1, Still DEF IInv, WalkInv, FoundInv, Covered
<1> QED BY <1>1, <1>2, <1>3 DEF IInv

\* Every action keeps the invariant, so do steps of nobody.
THEOREM Inductive == IInv /\ [Next]_vars => IInv'
<1> SUFFICES ASSUME IInv, [Next]_vars PROVE IInv'
  OBVIOUS
<1>1. CASE Others
  BY <1>1, ByOthers
<1>2. CASE Requests
  BY <1>2, BeginWalkStep, NextPageStep, CountStep, FindStep, CardsStep, FailStep,
     OpenStep, ReadRoomStep, ReadMembersStep DEF Requests
<1>3. CASE UNCHANGED vars
  BY <1>3, Stutters
<1> QED BY <1>1, <1>2, <1>3 DEF Next

\* The types of the tables and of an answer, for any number of rooms and writers.
THEOREM Typing == Spec => []TypeOK
<1>1. IInv => TypeOK
  BY DEF IInv
<1> QED BY <1>1, Initially, Inductive, PTL DEF Spec

\* No answer put together from several queries tells what was never so.
THEOREM AnswersTrue == Spec => []AnswerTrue
<1>1. IInv => AnswerTrue
  BY DEF IInv
<1> QED BY <1>1, Initially, Inductive, PTL DEF Spec

\* A walk through the pages shows a room that keeps its own place exactly once.
THEOREM SteadyShown == Spec => []SteadySeenOnce
<1>1. IInv => SteadySeenOnce
  <2> SUFFICES ASSUME IInv, NEW r \in steady
               PROVE  seen[r] <= 1 /\ (walk = "over" => seen[r] = 1)
    BY DEF SteadySeenOnce
  <2>1. CASE walk = "off"
    BY <2>1 DEF IInv, WalkInv
  <2>2. CASE walk = "on"
    BY <2>2 DEF IInv, WalkInv
  <2>3. CASE walk = "over"
    BY <2>3 DEF IInv, WalkInv
  <2> QED BY <2>1, <2>2, <2>3 DEF IInv, TypeOK
<1> QED BY <1>1, Initially, Inductive, PTL DEF Spec

=============================================================================

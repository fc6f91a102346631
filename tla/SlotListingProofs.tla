------------------------- MODULE SlotListingProofs -------------------------
(***************************************************************************)
(* However many listings run and however deep the template nests, the      *)
(* venues are fetched by one listing at a time, and an answer offers only  *)
(* slots of the date asked for, in its booking window.                     *)
(***************************************************************************)
EXTENDS SlotListing, Integers, TLAPS

\* The holder of the mutex is the one call that fetches, on a stale cache.
LockInv ==
  /\ \A c \in Calls : pc[c] = "fetch" <=> lock = c
  /\ lock # Nobody => ~Fresh

\* An available slot is of the innermost frame's date, whose window is open.
Honest(c) ==
  /\ pc[c] = "day" => frames[c] # <<>> /\ WindowOpen(Head(frames[c]))
  /\ \A s \in result[c].slots : s[2] = "free" => s[1] = Head(frames[c]) /\ WindowOpen(s[1])
  /\ pc[c] \notin {"return", "done"} => result[c].slots = {}

IInv == TypeOK /\ LockInv /\ \A c \in Calls : Honest(c)

LEMMA PushType ==
  ASSUME NEW f \in Seq(Dates)
  PROVE  /\ <<Tomorrow>> \o f \in Seq(Dates)
         /\ Head(<<Tomorrow>> \o f) = Tomorrow
  BY DatesAssumption

LEMMA AnswerTypes ==
  /\ Error \in Answers
  /\ \A slots \in SUBSET (Dates \X Availability) : Answer(slots) \in Answers
  BY DEF Error, Answer, Answers

LEMMA TailType ==
  ASSUME NEW f \in Seq(Dates), Len(f) > 1
  PROVE  f # <<>> /\ Tail(f) \in Seq(Dates)
  OBVIOUS

LEMMA TypeInit == Init => TypeOK
  BY MarksAssumption, AnswerTypes DEF Init, TypeOK, States

LEMMA TemplateType ==
  ASSUME NEW a \in Answers
  PROVE  /\ Template(a) \in Answers
         /\ \A s \in Template(a).slots : s[2] = "taken"
<1> DEFINE stripped == {<<s[1], "taken">> : s \in a.slots}
<1>1. a.slots \in SUBSET (Dates \X Availability)
  BY DEF Answers
<1>2. stripped \in SUBSET (Dates \X Availability)
  <2>1. \A s \in Dates \X Availability : <<s[1], "taken">> \in Dates \X Availability
    BY DEF Availability
  <2> QED BY <1>1, <2>1
<1>3. Template(a) = Answer(stripped) /\ Template(a).slots = stripped
  BY DEF Template, Answer
<1>4. \A s \in stripped : s[2] = "taken"
  OBVIOUS
<1> QED BY <1>2, <1>3, <1>4, AnswerTypes

\* DayInfo is only reached within a listing.
InDay == \A c \in Calls : pc[c] = "day" => frames[c] # <<>>

LEMMA TypeStep ==
  ASSUME TypeOK, InDay, NEW c \in Calls, Step(c)
  PROVE  TypeOK'
<1> USE DEF TypeOK, Goto, Return, States
<1>1. CASE ReadCache(c)
  BY <1>1 DEF ReadCache
<1>2. CASE FetchVenues(c)
  BY <1>2, AnswerTypes DEF FetchVenues, Released
<1>3. CASE FromTemplate(c) /\ UNCHANGED <<now, fetched, lock, result, cancelled>>
  <2>1. <<Tomorrow>> \o frames[c] \in Seq(Dates)
    BY PushType
  <2>2. frames' \in [Calls -> Seq(Dates)]
    BY <1>3, <2>1 DEF FromTemplate
  <2>3. pc' \in [Calls -> States] /\ process' \in {"running", "dead"}
    BY <1>3 DEF FromTemplate
  <2> QED BY <1>3, <2>2, <2>3
<1>4. CASE Window(c)
  <2>1. CASE /\ Return(c, IF frames[c] = <<>> THEN Answer({}) ELSE Error)
             /\ UNCHANGED <<now, fetched, lock, frames, cancelled, process>>
    BY <2>1, AnswerTypes
  <2>2. CASE Goto(c, "day") /\ UNCHANGED <<now, fetched, lock, frames, result, cancelled, process>>
    BY <2>2
  <2> QED BY <1>4, <2>1, <2>2, <1>3 DEF Window
<1>5. CASE DayInfo(c)
  <2>1. ASSUME NEW slots \in SUBSET ({Head(frames[c])} \X Availability),
               Return(c, Answer(slots)),
               UNCHANGED <<now, fetched, lock, frames, cancelled, process>>
        PROVE  TypeOK'
    <3>1. Head(frames[c]) \in Dates
      BY <1>5 DEF DayInfo, InDay
    <3>2. Answer(slots) \in Answers
      BY <3>1, AnswerTypes
    <3> QED BY <2>1, <3>2
  <2> QED BY <1>5, <2>1, <1>3 DEF DayInfo
<1>6. CASE Unwind(c)
  <2>0. frames[c] \in Seq(Dates)
    OBVIOUS
  <2>1. Len(frames[c]) > 1 => Tail(frames[c]) \in Seq(Dates)
    BY <2>0, TailType
  <2>2. result' \in [Calls -> Answers]
    <3>1. Template(result[c]) \in Answers
      BY TemplateType
    <3> QED BY <1>6, <3>1 DEF Unwind
  <2>3. frames' \in [Calls -> Seq(Dates)]
    BY <1>6, <2>1 DEF Unwind
  <2> QED BY <1>6, <2>2, <2>3 DEF Unwind
<1> QED BY <1>1, <1>2, <1>4, <1>5, <1>6 DEF Step

\* A step of one listing leaves the others where they are.
LEMMA StepsAreLocal ==
  ASSUME TypeOK, NEW c \in Calls, Step(c), NEW d \in Calls \ {c}
  PROVE  pc'[d] = pc[d] /\ frames'[d] = frames[d] /\ result'[d] = result[d]
<1> USE DEF TypeOK, Goto, Return, FromTemplate
<1>1. CASE ReadCache(c)
  BY <1>1 DEF ReadCache
<1>2. CASE FetchVenues(c)
  BY <1>2 DEF FetchVenues
<1>3. CASE Window(c)
  BY <1>3 DEF Window
<1>4. CASE DayInfo(c)
  BY <1>4 DEF DayInfo
<1>5. CASE Unwind(c)
  BY <1>5 DEF Unwind
<1> QED BY <1>1, <1>2, <1>3, <1>4, <1>5 DEF Step

LEMMA LockStep ==
  ASSUME TypeOK, LockInv, NEW c \in Calls, Step(c)
  PROVE  LockInv'
<1> USE MarksAssumption DEF TypeOK, LockInv, Goto, Return, Fresh
<1>1. CASE ReadCache(c)
  BY <1>1 DEF ReadCache, Unlocked
<1>2. CASE FetchVenues(c)
  BY <1>2 DEF FetchVenues, Released
<1>3. CASE Window(c)
  BY <1>3 DEF Window, FromTemplate
<1>4. CASE DayInfo(c)
  BY <1>4 DEF DayInfo, FromTemplate
<1>5. CASE Unwind(c)
  BY <1>5 DEF Unwind
<1> QED BY <1>1, <1>2, <1>3, <1>4, <1>5 DEF Step

LEMMA HonestStep ==
  ASSUME IInv, NEW c \in Calls, Step(c)
  PROVE  Honest(c)'
<1> USE DEF IInv, TypeOK, Honest, Goto, WindowOpen
<1>1. CASE ReadCache(c)
  BY <1>1 DEF ReadCache
<1>2. CASE FetchVenues(c)
  <2>1. CASE Goto(c, "window") /\ UNCHANGED <<now, frames, result>>
    BY <1>2, <2>1 DEF FetchVenues
  <2>2. CASE Return(c, Error) /\ UNCHANGED <<now, frames>>
    BY <2>2 DEF Return, Error
  <2> QED BY <1>2, <2>1, <2>2 DEF FetchVenues
<1>3. CASE FromTemplate(c) /\ pc[c] \in {"window", "day"} /\ UNCHANGED <<now, result>>
  BY <1>3 DEF FromTemplate
<1>4. CASE Window(c)
  <2>1. CASE Return(c, IF frames[c] = <<>> THEN Answer({}) ELSE Error)
    BY <1>4, <2>1 DEF Window, Return, Answer, Error
  <2>2. CASE frames[c] # <<>> /\ WindowOpen(Head(frames[c])) /\ Goto(c, "day")
             /\ UNCHANGED <<now, frames, result>>
    BY <1>4, <2>2 DEF Window
  <2> QED BY <1>3, <1>4, <2>1, <2>2 DEF Window
<1>5. CASE DayInfo(c)
  <2>1. ASSUME NEW slots \in SUBSET ({Head(frames[c])} \X Availability),
               Return(c, Answer(slots)), UNCHANGED frames
        PROVE  Honest(c)'
    <3>1. \A s \in slots : s[1] = Head(frames[c])
      OBVIOUS
    <3>2. result'[c].slots = slots /\ pc'[c] = "return"
      BY <2>1 DEF Return, Answer
    <3> QED BY <1>5, <2>1, <3>1, <3>2 DEF DayInfo
  <2> QED BY <1>3, <1>5, <2>1 DEF DayInfo
<1>6. CASE Unwind(c)
  <2>1. CASE Len(frames[c]) > 1
    <3>1. result'[c] = Template(result[c]) /\ pc'[c] = "return"
      BY <1>6, <2>1 DEF Unwind
    <3>2. \A s \in result'[c].slots : s[2] = "taken"
      BY <3>1, TemplateType
    <3> QED BY <3>1, <3>2
  <2>2. CASE ~(Len(frames[c]) > 1)
    BY <1>6, <2>2 DEF Unwind
  <2> QED BY <2>1, <2>2
<1> QED BY <1>1, <1>2, <1>4, <1>5, <1>6 DEF Step

LEMMA Invariance ==
  ASSUME IInv, [Next]_vars
  PROVE  IInv'
<1>1. ASSUME NEW c \in Calls, Step(c) PROVE IInv'
  <2>1. TypeOK'
    BY <1>1, TypeStep DEF IInv, Honest, InDay
  <2>2. LockInv'
    BY <1>1, LockStep DEF IInv
  <2>3. now' = now
    BY <1>1 DEF Step, ReadCache, FetchVenues, Window, DayInfo, Unwind
  <2>4. ASSUME NEW d \in Calls \ {c} PROVE Honest(d)'
    BY <1>1, <2>3, <2>4, StepsAreLocal DEF IInv, Honest, WindowOpen
  <2> QED BY <1>1, <2>1, <2>2, <2>4, HonestStep DEF IInv
<1>2. ASSUME NEW c \in Calls, Request(c) PROVE IInv'
  <2>1. TypeOK'
    <3>1. CASE ListVenues(c)
      BY <3>1 DEF IInv, TypeOK, ListVenues, Goto, States
    <3>2. ASSUME NEW d \in Dates, ListSlots(c, d) PROVE TypeOK'
      <4>1. <<d>> \in Seq(Dates)
        OBVIOUS
      <4> QED BY <3>2, <4>1 DEF IInv, TypeOK, ListSlots, Goto, States
    <3> QED BY <1>2, <3>1, <3>2 DEF Request
  <2>2. LockInv'
    BY <1>2 DEF IInv, TypeOK, LockInv, Fresh, Request, ListVenues, ListSlots, Goto
  <2>3. ASSUME NEW d \in Calls PROVE Honest(d)'
    BY <1>2 DEF IInv, TypeOK, Honest, WindowOpen, Request, ListVenues, ListSlots, Goto
  <2> QED BY <2>1, <2>2, <2>3 DEF IInv
<1>3. CASE Tick
  <2>1. TypeOK'
    BY <1>3 DEF IInv, TypeOK, Tick
  <2>2. LockInv'
    BY <1>3, BoundsAssumption, MarksAssumption DEF IInv, TypeOK, LockInv, Fresh, Tick
  <2>3. ASSUME NEW d \in Calls PROVE Honest(d)'
    <3>1. \A s \in result[d].slots : s[1] \in Dates
      BY DEF IInv, TypeOK, Answers
    <3>2. pc[d] = "day" => Head(frames[d]) \in Dates
      BY DEF IInv, TypeOK, Honest
    <3>3. \A e \in Dates : WindowOpen(e) => WindowOpen(e)'
      BY <1>3, DatesAssumption DEF IInv, TypeOK, WindowOpen, Tick
    <3> QED BY <1>3, <3>1, <3>2, <3>3 DEF IInv, Honest, Tick
  <2> QED BY <2>1, <2>2, <2>3 DEF IInv
<1>4. ASSUME NEW c \in Calls, Cancel(c) PROVE IInv'
  <2>1. TypeOK' /\ LockInv'
    BY <1>4 DEF IInv, TypeOK, LockInv, Fresh, Cancel
  <2>2. ASSUME NEW d \in Calls PROVE Honest(d)'
    BY <1>4 DEF IInv, Honest, WindowOpen, Cancel
  <2> QED BY <2>1, <2>2 DEF IInv
<1>5. CASE UNCHANGED vars
  BY <1>5 DEF vars, IInv, TypeOK, LockInv, Honest, Fresh, WindowOpen
<1> QED BY <1>1, <1>2, <1>3, <1>4, <1>5 DEF Next

LEMMA Invariant == Spec => []IInv
<1>1. Init => IInv
  BY TypeInit, MarksAssumption DEF Init, IInv, LockInv, Honest, Fresh, Answer
<1> QED BY <1>1, Invariance, PTL DEF Spec

\* The nesting of template lookups, the cache's stamps and the days listed stay
\* within their bounds.
THEOREM TypeCorrect == Spec => []TypeOK
<1>1. IInv => TypeOK
  BY DEF IInv
<1> QED BY <1>1, Invariant, PTL

\* cachedVenueInfo asks TYYS for the venues on behalf of one listing at a time,
\* and never while the cache still holds them.
THEOREM VenuesFetchedOnce == Spec => []SingleFetch
<1>1. IInv => SingleFetch
  BY MarksAssumption DEF IInv, LockInv, SingleFetch
<1> QED BY <1>1, Invariant, PTL

\* At whatever depth the template was reached, ListSlots offers as available
\* only slots of the date it was asked for, once their window is open.
THEOREM OffersAreHonest == Spec => []OfferedForTheDate
<1>1. IInv => OfferedForTheDate
  BY DEF IInv, Honest, OfferedForTheDate, WindowOpen
<1> QED BY <1>1, Invariant, PTL

-----------------------------------------------------------------------------
(* Why a listing is answered, or the process dies. *)

\* The template nests no deeper than the stack, and an idle call has no frame.
DepthInv ==
  \A c \in Calls : Len(frames[c]) <= MaxDepth /\ (pc[c] = "idle" => frames[c] = <<>>)

\* What is left to do at a level of the nesting, before it returns.
Distance == [idle |-> 5, venue |-> 4, fetch |-> 3, window |-> 2, day |-> 1]

\* A bound on the steps the call has still to take: the levels the template may
\* still go down, then those it has to return from.
Left(c) ==
  IF process = "dead" \/ pc[c] = "done" THEN 0
  ELSE IF pc[c] = "return" THEN Len(frames[c]) + 1
  ELSE 6 * (MaxDepth - Len(frames[c])) + Distance[pc[c]] + MaxDepth + 1

\* A step of a call brings it nearer to its answer, though the template may go
\* one level down at each call that fails; the others do not set it back.
ListingsShrink ==
  [][\A c \in Calls : /\ Step(c) \/ Request(c) => Left(c)' < Left(c)
                      /\ Left(c)' <= Left(c)]_vars

\* A listing that waits for the mutex waits for one that is fetching the venues.
WaitsForAFetch == \A c \in Calls : pc[c] = "venue" /\ ~Unlocked => \E d \in Calls : pc[d] = "fetch"

DeepInv == IInv /\ DepthInv

LEMMA DepthStep ==
  ASSUME DeepInv, IInv', NEW c \in Calls, Step(c)
  PROVE  DepthInv'
<1> USE DEF DeepInv, DepthInv, IInv, TypeOK, Goto, Return
<1>1. ASSUME NEW d \in Calls \ {c}
      PROVE  Len(frames'[d]) <= MaxDepth /\ (pc'[d] = "idle" => frames'[d] = <<>>)
  BY StepsAreLocal
<1>2. pc'[c] # "idle"
  BY DEF Step, ReadCache, FetchVenues, Window, DayInfo, FromTemplate, Unwind
<1>3. Len(frames'[c]) <= MaxDepth
  <2>0. frames[c] \in Seq(Dates) /\ Len(frames[c]) \in Nat /\ MaxDepth \in Nat
    BY BoundsAssumption
  <2>1. CASE FromTemplate(c)
    <3>1. Len(<<Tomorrow>> \o frames[c]) = Len(frames[c]) + 1
      BY <2>0, DatesAssumption
    <3> QED
      BY <2>0, <2>1, <3>1 DEF FromTemplate
  <2>2. CASE Unwind(c)
    <3>1. Len(frames[c]) > 1 => Len(Tail(frames[c])) = Len(frames[c]) - 1
      BY <2>0
    <3> QED
      BY <2>0, <2>2, <3>1 DEF Unwind
  <2>3. CASE UNCHANGED frames
    BY <2>3
  <2> QED
    BY <2>1, <2>2, <2>3 DEF Step, ReadCache, FetchVenues, Window, DayInfo
<1> QED
  BY <1>1, <1>2, <1>3

LEMMA DeepStep ==
  ASSUME DeepInv, [Next]_vars
  PROVE  DeepInv'
<1> USE DEF DeepInv
<1>1. IInv'
  BY Invariance
<1>2. ASSUME NEW c \in Calls, Request(c) PROVE DepthInv'
  <2>1. ASSUME NEW d \in Dates, ListSlots(c, d) PROVE DepthInv'
    <3>1. Len(<<d>>) = 1
      OBVIOUS
    <3> QED
      BY <2>1, <3>1, BoundsAssumption DEF DepthInv, IInv, TypeOK, ListSlots, Goto
  <2>2. CASE ListVenues(c)
    BY <2>2 DEF DepthInv, IInv, TypeOK, ListVenues, Goto
  <2> QED
    BY <1>2, <2>1, <2>2 DEF Request
<1>3. CASE Tick \/ (\E c \in Calls : Cancel(c)) \/ UNCHANGED vars
  BY <1>1, <1>3 DEF DepthInv, Tick, Cancel, vars
<1> QED
  BY <1>1, <1>2, <1>3, DepthStep DEF Next

LEMMA LeftType ==
  ASSUME DeepInv, NEW c \in Calls
  PROVE  Left(c) \in 0..7 * MaxDepth + 6
<1> USE DEF DeepInv, DepthInv, IInv, TypeOK, States
<1>1. MaxDepth \in Nat /\ Len(frames[c]) \in 0..MaxDepth /\ pc[c] \in States
  BY BoundsAssumption
<1>2. pc[c] \notin {"return", "done"} => Distance[pc[c]] \in 0..5
  BY <1>1 DEF Distance
<1> HIDE DEF Distance
<1> QED
  BY <1>1, <1>2 DEF Left

LEMMA LeftShrinks ==
  ASSUME DeepInv, DeepInv', NEW c \in Calls, Step(c) \/ Request(c)
  PROVE  Left(c)' < Left(c)
<1> USE DEF DeepInv, DepthInv, IInv, TypeOK, Goto, Return
<1> DEFINE n == Len(frames[c])
           m == Len(frames'[c])
<1>0. /\ MaxDepth \in Nat /\ n \in 0..MaxDepth /\ m \in 0..MaxDepth
      /\ frames[c] \in Seq(Dates) /\ process = "running"
  BY BoundsAssumption DEF Step, Request
<1>d. /\ Distance["idle"] = 5 /\ Distance["venue"] = 4 /\ Distance["fetch"] = 3
      /\ Distance["window"] = 2 /\ Distance["day"] = 1
  BY DEF Distance
<1>1. CASE Request(c)
  <2>1. pc[c] = "idle" /\ pc'[c] = "venue" /\ n = 0 /\ process' = process
    BY <1>1 DEF Request, ListVenues, ListSlots
  <2> QED
    BY <1>0, <1>d, <2>1 DEF Left
<1>2. CASE ReadCache(c) \/ FetchVenues(c)
  <2>1. /\ pc'[c] \in {"fetch", "window", "return"} /\ m = n /\ process' = process
        /\ \/ pc[c] = "venue" /\ pc'[c] # "return"
           \/ pc[c] = "fetch" /\ pc'[c] # "fetch"
    BY <1>2 DEF ReadCache, FetchVenues
  <2>2. pc'[c] # "return" => Distance[pc'[c]] < Distance[pc[c]] /\ Distance[pc'[c]] \in Nat
    BY <1>d, <2>1
  <2>3. Distance[pc[c]] \in Nat \ {0} /\ pc[c] \notin {"return", "done"} /\ pc'[c] # "done"
    BY <1>d, <2>1
  <2>4. CASE pc'[c] = "return"
    <3> HIDE DEF DeepInv, DepthInv, IInv, TypeOK, n, m
    <3>1. Left(c) = 6 * (MaxDepth - n) + Distance[pc[c]] + MaxDepth + 1
      BY <1>0, <2>1, <2>3 DEF Left, n
    <3>2. Left(c)' = m + 1
      BY <1>0, <2>1, <2>4 DEF Left, m
    <3> QED
      BY <1>0, <2>1, <2>3, <3>1, <3>2
  <2>5. CASE pc'[c] # "return"
    BY <1>0, <2>1, <2>2, <2>3, <2>5 DEF Left
  <2> QED
    BY <2>4, <2>5
<1>3. CASE pc[c] \in {"window", "day"} /\ FromTemplate(c)
  <2>1. CASE process' = "dead"
    BY <1>0, <1>d, <1>3, <2>1 DEF Left
  <2>2. CASE process' = process
    <3>1. Len(<<Tomorrow>> \o frames[c]) = n + 1
      BY <1>0, DatesAssumption
    <3>2. pc'[c] = "venue" /\ m = n + 1
      BY <1>0, <1>3, <2>2, <3>1 DEF FromTemplate
    <3>3. Distance[pc[c]] \in Nat /\ Distance[pc'[c]] = 4
      BY <1>d, <1>3, <3>2
    <3> QED
      BY <1>0, <1>3, <2>2, <3>2, <3>3 DEF Left
  <2> QED
    BY <1>0, <1>3, <2>1, <2>2 DEF FromTemplate
<1>4. CASE (Window(c) \/ DayInfo(c)) /\ ~FromTemplate(c)
  <2>1. /\ m = n /\ process' = process
        /\ \/ pc[c] = "window" /\ pc'[c] \in {"day", "return"}
           \/ pc[c] = "day" /\ pc'[c] = "return"
    BY <1>4 DEF Window, DayInfo
  <2>2. pc'[c] # "return" => Distance[pc'[c]] < Distance[pc[c]] /\ Distance[pc'[c]] \in Nat
    BY <1>d, <2>1
  <2>3. Distance[pc[c]] \in Nat \ {0} /\ pc[c] \notin {"return", "done"} /\ pc'[c] # "done"
    BY <1>d, <2>1
  <2>4. CASE pc'[c] = "return"
    <3> HIDE DEF DeepInv, DepthInv, IInv, TypeOK, n, m
    <3>1. Left(c) = 6 * (MaxDepth - n) + Distance[pc[c]] + MaxDepth + 1
      BY <1>0, <2>1, <2>3 DEF Left, n
    <3>2. Left(c)' = m + 1
      BY <1>0, <2>1, <2>4 DEF Left, m
    <3> QED
      BY <1>0, <2>1, <2>3, <3>1, <3>2
  <2>5. CASE pc'[c] # "return"
    BY <1>0, <2>1, <2>2, <2>3, <2>5 DEF Left
  <2> QED
    BY <2>4, <2>5
<1>5. CASE Unwind(c)
  <2>1. CASE n > 1
    <3>1. Len(Tail(frames[c])) = n - 1
      BY <1>0, <2>1
    <3>2. pc[c] = "return" /\ pc'[c] = "return" /\ m = n - 1 /\ process' = process
      BY <1>5, <2>1, <3>1 DEF Unwind
    <3> QED
      BY <1>0, <3>2 DEF Left
  <2>2. CASE ~(n > 1)
    <3>1. pc[c] = "return" /\ pc'[c] = "done" /\ process' = process
      BY <1>5, <2>2 DEF Unwind
    <3> QED
      BY <1>0, <3>1 DEF Left
  <2> QED
    BY <2>1, <2>2
<1>6. (Window(c) \/ DayInfo(c)) => pc[c] \in {"window", "day"}
  BY DEF Window, DayInfo
<1> QED
  BY <1>1, <1>2, <1>3, <1>4, <1>5, <1>6 DEF Step

\* Any other call has what it had left, or nothing: the process may have died.
LEMMA OthersKeep ==
  ASSUME DeepInv, NEW c \in Calls, Step(c) \/ Request(c), NEW d \in Calls \ {c}
  PROVE  Left(d)' <= Left(d)
<1>1. pc'[d] = pc[d] /\ frames'[d] = frames[d]
  <2>1. CASE Step(c)
    BY <2>1, StepsAreLocal DEF DeepInv, IInv
  <2>2. CASE Request(c)
    BY <2>2 DEF DeepInv, IInv, TypeOK, Request, ListVenues, ListSlots, Goto
  <2> QED
    BY <2>1, <2>2
<1>2. Left(d) \in Nat
  BY LeftType, BoundsAssumption
<1>3. process = "running" /\ process' \in {"running", "dead"}
  BY DEF DeepInv, IInv, Step, Request, ListVenues, ListSlots, ReadCache, FetchVenues, Window,
         DayInfo, FromTemplate, Unwind
<1> QED
  BY <1>1, <1>2, <1>3 DEF Left

\* A listing is answered after at most 7 * MaxDepth + 6 steps of its own, and
\* waits at the venue cache only while another one is fetching.
THEOREM ListingsRunOut ==
  Spec => /\ [](\A c \in Calls : Left(c) \in 0..7 * MaxDepth + 6)
          /\ []WaitsForAFetch
          /\ ListingsShrink
<1>1. Init => DeepInv
  <2>1. Init => IInv
    BY TypeInit, MarksAssumption DEF Init, IInv, LockInv, Honest, Fresh, Answer
  <2> QED
    BY <2>1, BoundsAssumption DEF Init, DeepInv, DepthInv
<1>2. DeepInv /\ [Next]_vars => DeepInv'
  BY DeepStep
<1>3. DeepInv => \A c \in Calls : Left(c) \in 0..7 * MaxDepth + 6
  BY LeftType
<1>4. DeepInv => WaitsForAFetch
  BY MarksAssumption DEF DeepInv, IInv, TypeOK, LockInv, WaitsForAFetch, Unlocked
<1>5. ASSUME DeepInv, DeepInv', [Next]_vars, NEW c \in Calls
      PROVE  /\ Step(c) \/ Request(c) => Left(c)' < Left(c)
             /\ Left(c)' <= Left(c)
  <2>1. Left(c) \in Nat
    BY <1>5, LeftType, BoundsAssumption
  <2>2. ASSUME NEW d \in Calls, Step(d) \/ Request(d) PROVE Left(c)' <= Left(c)
    <3>1. CASE d = c
      <4>1. Left(c)' < Left(c)
        BY <1>5, <2>2, <3>1, LeftShrinks
      <4>2. Left(c)' \in Int
        <5>1. /\ Len(frames'[c]) \in 0..MaxDepth /\ MaxDepth \in Nat /\ pc'[c] \in States
          BY <1>5, BoundsAssumption DEF DeepInv, DepthInv, IInv, TypeOK
        <5>2. pc'[c] \notin {"return", "done"} => Distance[pc'[c]] \in 0..5
          BY <5>1 DEF Distance, States
        <5> HIDE DEF Distance
        <5>3. CASE pc'[c] \in {"return", "done"}
          BY <5>1, <5>3 DEF Left
        <5>4. CASE pc'[c] \notin {"return", "done"}
          <6>1. 6 * (MaxDepth - Len(frames'[c])) + Distance[pc'[c]] + MaxDepth + 1 \in Int
            BY <5>1, <5>2, <5>4
          <6> QED
            BY <5>4, <6>1 DEF Left
        <5> QED
          BY <5>3, <5>4
      <4> QED
        BY <2>1, <4>1, <4>2
    <3>2. CASE d # c
      BY <1>5, <2>2, <3>2, OthersKeep
    <3> QED
      BY <3>1, <3>2
  <2>3. ASSUME Tick \/ (\E d \in Calls : Cancel(d)) \/ UNCHANGED vars
        PROVE  Left(c)' <= Left(c)
    <3>1. Left(c)' = Left(c)
      BY <2>3 DEF Tick, Cancel, vars, Left
    <3> QED
      BY <2>1, <3>1
  <2> QED
    BY <1>5, <2>2, <2>3, LeftShrinks DEF Next
<1>6. DeepInv /\ DeepInv' /\ [Next]_vars
        => [\A c \in Calls : /\ Step(c) \/ Request(c) => Left(c)' < Left(c)
                             /\ Left(c)' <= Left(c)]_vars
  BY <1>5
<1> QED
  BY <1>1, <1>2, <1>3, <1>4, <1>6, PTL DEF Spec, ListingsShrink

=============================================================================

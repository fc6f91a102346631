---------------------------- MODULE SlotListing ----------------------------
(***************************************************************************)
(* ListSlots, ListTemplates and ListVenues of internal/service/            *)
(* reservation_service.go, run by concurrent requests over the one cache of*)
(* TYYS's venues.  ListSlots asks TYYS for the day; before the booking     *)
(* window opens, and when that call fails, it answers with a template,     *)
(* which is the listing of tomorrow with its live fields removed: ListSlots*)
(* calls ListTemplates, and ListTemplates calls ListSlots.                 *)
(***************************************************************************)
EXTENDS Naturals, Sequences

CONSTANTS
  Calls,     \* requests being served
  Dates,     \* reservation dates they may ask for
  Tomorrow,  \* the date ListTemplates asks for
  OpensAt,   \* date -> instant its booking window opens
  TTL,       \* venueInfoCacheTTL, 15 minutes in the code
  MaxTime,   \* bound on the clock
  MaxDepth,  \* nested ListSlots a goroutine's stack (1 GB) has room for
  Faults,    \* calls that may fail: "venue", "day"; "cancel": a client may leave
  Nobody, Null

ASSUME DatesAssumption ==
  /\ Tomorrow \in Dates /\ OpensAt \in [Dates -> Nat] /\ OpensAt[Tomorrow] = 0
ASSUME BoundsAssumption == TTL \in Nat /\ MaxTime \in Nat /\ MaxDepth \in Nat \ {0}
ASSUME MarksAssumption == Nobody \notin Calls /\ Null \notin Nat
ASSUME FaultsAssumption == Faults \subseteq {"venue", "day", "cancel"}

VARIABLES
  now,        \* the clock
  fetched,    \* when the cached venues arrived; expiresAt is TTL later
  lock,       \* who holds venueCache.mu over a fetch
  pc,         \* what each call is doing
  frames,     \* call -> the dates of its nested ListSlots, the innermost first
  result,     \* call -> what the innermost ListSlots returns
  cancelled,  \* calls whose context is cancelled
  process     \* "running", or "dead" of a stack overflow

vars == <<now, fetched, lock, pc, frames, result, cancelled, process>>

\* A slot of an answer: the date it was read for, and whether it is Available.
Availability == {"free", "taken"}
Answers == [err : BOOLEAN, slots : SUBSET (Dates \X Availability)]
Answer(slots) == [err |-> FALSE, slots |-> slots]
Error == [err |-> TRUE, slots |-> {}]

Init ==
  /\ now = 0 /\ fetched = Null /\ lock = Nobody /\ process = "running"
  /\ pc = [c \in Calls |-> "idle"]
  /\ frames = [c \in Calls |-> <<>>]
  /\ result = [c \in Calls |-> Answer({})]
  /\ cancelled = {}

Goto(c, label) == pc' = [pc EXCEPT ![c] = label]

Return(c, answer) ==
  /\ Goto(c, "return")
  /\ result' = [result EXCEPT ![c] = answer]

\* A call over the network succeeds, or fails and returns what it must.
Reaches(c) == c \notin cancelled
Breaks(c, kind) == c \in cancelled \/ kind \in Faults

\* ListTemplates is ListSlots for tomorrow, whose answer it strips.
ListSlots(c, d) ==
  /\ pc[c] = "idle"
  /\ Goto(c, "venue")
  /\ frames' = [frames EXCEPT ![c] = <<d>>]
  /\ UNCHANGED <<now, fetched, lock, result, cancelled, process>>

\* ListVenues reads the cache and nothing else.
ListVenues(c) ==
  /\ pc[c] = "idle"
  /\ Goto(c, "venue")
  /\ UNCHANGED <<now, fetched, lock, frames, result, cancelled, process>>

-----------------------------------------------------------------------------
(* cachedVenueInfo holds the mutex over the fetch. *)

Fresh == fetched # Null /\ now < fetched + TTL

\* Wrong variant: the cache is read and filled without the mutex.
Unlocked_Always == TRUE
Unlocked == lock = Nobody

ReadCache(c) ==
  /\ pc[c] = "venue" /\ Unlocked
  /\ \/ Fresh /\ Goto(c, "window") /\ UNCHANGED lock
     \/ ~Fresh /\ Goto(c, "fetch") /\ lock' = c
  /\ UNCHANGED <<now, fetched, frames, result, cancelled, process>>

\* Wrong variant: an early return that forgets to unlock.
Released_OnSuccess(ok) == IF ok THEN Nobody ELSE lock
Released(ok) == Nobody

FetchVenues(c) ==
  /\ pc[c] = "fetch"
  /\ \/ /\ Reaches(c)
        /\ fetched' = now /\ lock' = Released(TRUE)
        /\ Goto(c, "window") /\ UNCHANGED result
     \/ /\ Breaks(c, "venue")
        /\ lock' = Released(FALSE)
        /\ Return(c, Error) /\ UNCHANGED fetched
  /\ UNCHANGED <<now, frames, cancelled, process>>

-----------------------------------------------------------------------------
(* The rest of ListSlots. *)

\* listSlotsFromTemplate: one more ListSlots, for tomorrow, on the same stack.
\* A stack that is full ends the process and all its goroutines.
FromTemplate(c) ==
  IF Len(frames[c]) < MaxDepth
    THEN /\ frames' = [frames EXCEPT ![c] = <<Tomorrow>> \o @]
         /\ Goto(c, "venue") /\ UNCHANGED process
    ELSE /\ process' = "dead" /\ UNCHANGED <<frames, pc>>

WindowOpen(d) == now >= OpensAt[d]

\* The venue may be unknown, and the window of the date may be closed.
Window(c) ==
  /\ pc[c] = "window"
  /\ \/ Return(c, IF frames[c] = <<>> THEN Answer({}) ELSE Error)
        /\ UNCHANGED <<frames, process>>
     \/ /\ frames[c] # <<>> /\ UNCHANGED result
        /\ \/ ~WindowOpen(Head(frames[c])) /\ FromTemplate(c)
           \/ WindowOpen(Head(frames[c])) /\ Goto(c, "day") /\ UNCHANGED <<frames, process>>
  /\ UNCHANGED <<now, fetched, lock, cancelled>>

DayInfo(c) ==
  /\ pc[c] = "day"
  /\ \/ /\ Reaches(c)
        /\ \E slots \in SUBSET ({Head(frames[c])} \X Availability) : Return(c, Answer(slots))
        /\ UNCHANGED <<frames, process>>
     \/ Breaks(c, "day") /\ FromTemplate(c) /\ UNCHANGED result
  /\ UNCHANGED <<now, fetched, lock, cancelled>>

\* Wrong variant: the template keeps the live fields of tomorrow's slots.
Template_Live(answer) == [answer EXCEPT !.err = FALSE]
\* listSlotsFromTemplate drops the error and marks every slot unavailable.
Template(answer) == Answer({<<s[1], "taken">> : s \in answer.slots})

\* An inner ListSlots returns through ListTemplates to the one that called it.
Unwind(c) ==
  /\ pc[c] = "return"
  /\ IF Len(frames[c]) > 1
       THEN /\ frames' = [frames EXCEPT ![c] = Tail(@)]
            /\ result' = [result EXCEPT ![c] = Template(@)]
            /\ UNCHANGED pc
       ELSE Goto(c, "done") /\ UNCHANGED <<frames, result>>
  /\ UNCHANGED <<now, fetched, lock, cancelled, process>>

Tick ==
  /\ now < MaxTime /\ now' = now + 1
  /\ UNCHANGED <<fetched, lock, pc, frames, result, cancelled, process>>

Cancel(c) ==
  /\ "cancel" \in Faults /\ pc[c] \notin {"idle", "done"} /\ c \notin cancelled
  /\ cancelled' = cancelled \cup {c}
  /\ UNCHANGED <<now, fetched, lock, pc, frames, result, process>>

Step(c) ==
  process = "running" /\ (ReadCache(c) \/ FetchVenues(c) \/ Window(c) \/ DayInfo(c) \/ Unwind(c))

Request(c) == process = "running" /\ (ListVenues(c) \/ (\E d \in Dates : ListSlots(c, d)))

Next == Tick \/ \E c \in Calls : Request(c) \/ Step(c) \/ Cancel(c)

Spec == Init /\ [][Next]_vars

\* A goroutine is scheduled, Go's mutex starves nobody, and TYYS answers or
\* times out after 20s.  Nothing obliges a client to send a request.
FairSpec == Spec /\ \A c \in Calls : WF_vars(Step(c))

-----------------------------------------------------------------------------
States == {"idle", "venue", "fetch", "window", "day", "return", "done"}

TypeOK ==
  /\ now \in Nat /\ fetched \in Nat \cup {Null} /\ lock \in Calls \cup {Nobody}
  /\ pc \in [Calls -> States]
  /\ frames \in [Calls -> Seq(Dates)]
  /\ result \in [Calls -> Answers]
  /\ cancelled \subseteq Calls /\ process \in {"running", "dead"}

\* The venues are fetched by one request at a time, and by none while the cache
\* is fresh: requests that waited for the fetch use its data.
SingleFetch ==
  \A c \in Calls : pc[c] = "fetch" =>
    /\ \A d \in Calls : pc[d] = "fetch" => d = c
    /\ ~Fresh

\* However deep the fallback nests, ListSlots never offers a slot of another day
\* as available, nor one whose booking window is closed.
OfferedForTheDate ==
  \A c \in Calls : pc[c] = "done" =>
    \A s \in result[c].slots : s[2] = "free" => s[1] = Head(frames[c]) /\ now >= OpensAt[s[1]]

\* No listing waits for ever at the venue cache, whoever fails or leaves while it
\* holds the mutex: each is answered, unless the process died of a full stack.
Answered ==
  \A c \in Calls : pc[c] = "venue" ~> pc[c] = "done" \/ process = "dead"

\* "If dayInfo fails, degrade to template data" (ListSlots, Step 4).
DegradesToTemplate == \A c \in Calls : pc[c] = "day" ~> pc[c] = "done"

=============================================================================

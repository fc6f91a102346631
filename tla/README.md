# A verification project for SRTP-Backend

TLA+ specifications of the reservation back end in `src/`, the TLC
configurations that check them on small instances, and TLAPS proofs of the
properties that matter most for every value of the constants. Each definition
that models code is tied to its lines in `PROJECT.json` ("map").

Contents: 1 the system; 2 the modules; 3 correspondence to the code; 4 runs and
bounds; 5 fairness; 6 proofs; 7 findings; 8 limits of the models; 9 plan.

## 1. The system

A Go service (gin, gorm over PostgreSQL) that books sports courts at the
university's booking system TYYS on behalf of a room of players. A request goes

    HTTP -> internal/api/handler.go -> internal/service -> internal/repository -> PostgreSQL
                                            |
                                            +-> internal/zjulogin -> ZJUAM (sign-on), TYYS

Every request runs in its own goroutine with a context that gin cancels when the
client leaves. An external scheduler calls the internal tasks over HTTP.
Nothing in the process survives a restart; the table and TYYS do.

| component | state | operations | how it interacts |
|---|---|---|---|
| Reservation engine (`reservation_service.go`, `reservation_repository.go`) | rows of `room_reservations`, rows of `reservation_attempt_logs`; in memory a private copy of a row per goroutine | SubmitOrPlan, Submit, CreatePlan (users); MaterializePlans with one goroutine `materializeOne` per due row, TriggerReservation (scheduler) | repository calls that may fail; ListSlots to find slots; `executeReservation` to book |
| Execution at TYYS (`tyys_reservation_v2.go`, `tyys_api.go`, `tyys_captcha.go`) | none of its own; TYYS's orders | order info, buddy, captcha get / solve / check, order submit, in a loop of five attempts | called by `executeReservation`; a python process solves the captcha |
| Listing (`ListVenues`, `ListSlots`, `ListTemplates`) | the venue cache and its mutex | three reads | `ListSlots` and `ListTemplates` call each other |
| Preview | a slice, a channel used as semaphore, a WaitGroup | one | a goroutine per candidate asks TYYS |
| TYYS session (`service.go`, `tyys.go`, `zjuam.go`) | `loggedIn`, `token`, cookies, one mutex | ensureLogin, signed API calls | every call of the three components above |
| Slot selection and opening hours | none of its own; TYYS's days | names matched by containment, the walk over a day, venueOpenHour, reserveOpenAt, CreatePlan's opening time, resolvePreferredSlots | used by the engine and by the listings |
| Rooms (`room_service.go`, `room_repository.go`) | tables `rooms`, `room_members` | listing in pages and details; the writing operations answer "not implemented" | read only; written by others |
| Users | table `users` | every operation answers "not implemented" | GetRoomById asks for the current user, in vain |
| Start-up (`cmd/server/main.go`, config, `postgres.go`) | schema, public ids | Load, Connect, AutoMigrate, backfill, serving, graceful shutdown | several instances may start together |
| Handlers, middleware, generated API, models, debugging programs | none | decoding, encoding, wiring | - |

**What is hard.** Workers write their private copy of a row back as a whole, so a
stale copy can undo another's write; the claim of a row is an atomic UPDATE, but
the copy is from before it. A booking at TYYS cannot be rolled back and its
answer can be lost (a 20 s client timeout, a client that leaves). Database errors
are ignored where a result is written. A process may end at any point. All
requests share one login and one cache. A failed listing falls back to itself.
`PROJECT.json` lists every such hazard at its line.

**What makes each component correct.** *Engine*: no row is worked on twice at a
time, a row says "success" only if TYYS booked its slot, success is final, an
order is written back and logged, no order is unasked for or early, every
plan settles, every request is answered truthfully. *Execution*: an order goes
out only with a captcha verified in the same attempt, a submission is never
repeated blindly, the loop ends, and its answer is the truth. *Listing*: one
fetch at a time, no slot of another day is offered, every listing is answered.
*Preview*: bounded calls, complete answers, it returns, also while it shares the
login with others. *Session*: one login at a
time, every request is signed, every caller gets its turn. *Rooms*: answers put
together from several queries are true, pages neither lose nor repeat rooms.
*Selection*: a plan's candidates are distinct, were asked for and are found when they
can be had, and the plan is due in time. *Start-up*: nobody serves a row without a
public id, an id clients know stays, a server that can start comes up again.

## 2. The modules

    Reservation ........ the engine          MCReservation, ReservationProofs
    RowLife ............ what the engine promises of a row (abstract); Reservation implements it
    Submission ......... what executeReservation promises (abstract)
    ReserveV2 .......... the captcha loop, implements Submission   MCReserveV2, ReserveV2Proofs
    SlotListing ........ listing and venue cache     MCSlotListing, SlotListingProofs
    SlotSelection ...... from picked slots to a plan's candidates  MCSlotSelection, SlotSelectionProofs
    Session ............ login and signing           SessionProofs
    Preview ............ semaphore and WaitGroup over Session      PreviewProofs
    RoomList ........... rooms in pages, one room    MCRoomList, RoomListProofs
    Startup ............ instances over one database MCStartup, StartupProofs

`Preview` EXTENDS `Session`: its goroutines are callers of the session beside those of
other requests, and it is proved to implement it. `Reservation` uses other components
through what they promise: its action `Execute` is `Submission` in one step (the order,
then the answer, which may be lost), its operator `Offered` is what `SlotListing`
establishes with `OfferedForTheDate` (a listing offers slots whose window is open, or
nothing), and its candidates are distinct and asked for as `SlotSelection` establishes
with `Distinct` and `OnlyAsked`. `ReserveV2` and `SlotListing` call TYYS through the
session, whose calls succeed or fail as `Session` shows.

## 3. Correspondence to the code

**Reservation.** `db` is the table (row -> status, slot, order, plan, openAt),
`mem` the private copies, `pc` the position of each goroutine, `hpc` that of each
handler, `orders` what TYYS accepted, `log` the attempt logs, `todo` the
candidates `trySlots` has left. One action is one call that other goroutines can
interleave with: a statement of the repository or a call of TYYS.

| action | code |
|---|---|
| PostSubmit, CreateLive, SubmitDone, Fallback | SubmitOrPlan and Submit: split by the window, create, try, fall back |
| PostPlan | CreatePlan called by its own handler |
| BatchList, Sweep | MaterializePlans: ListDueScheduled; wg.Wait and MarkExpiredFailed |
| ClaimScheduled, ClaimFailed | materializeOne: the two AtomicTransitionStatus |
| Resolve, Abort, AbortLog | materializeOne: resolvePreferredSlots, failReservation |
| TrySlot, Execute, SaveResult, WriteLog | trySlots and executeReservation: context saved, TYYS called, result saved, attempt logged |
| TriggerClaim, TriggerReload, TriggerReturn | TriggerReservation |
| Tick, Cancel, Crash | the clock, the client's context, the process |

A database call with a cancelled context never commits; one that fails for
another reason may or may not have committed (`FailedWrite`). A result of which
the code ignores the error is `IgnoredWrite`. A row is created by its request,
except for `Legacy` rows: rows with the column default "pending", which only the
trigger looks at and nothing in this code stores.

**RowLife.** `state` is what a row says to its readers (`Says`: no row is "absent",
"success" is "booked", "expired" is itself, any other status is "waiting"), `hands` the
workers between their claim and their last write (`Writing`), `orders` is the same. A
write of a worker is `Keep` or `Succeed`, a claim `Take`, a stored row `Enter`. Two
things of the code show in it: the clean-up may expire a row between two
candidates of its worker, whose next save brings it back (`Keep`), and a process
that ends drops every row (`Vanish`).

**ReserveV2.** `booked` is what TYYS accepted and `lost` the part of it whose answer
did not arrive. `stage` is the call an execution is about to make, `attempt` the
loop variable, `err` whether the text of the last error speaks of a captcha,
`verified` the attempt whose captcha TYYS verified. The kinds of error a step may
end with follow from the text the code would build: errors of `/api/captcha/...`
name their path, errors of TYYS carry TYYS's words. `Submission` has two actions,
`Book` and `Answer`, and answers "success" exactly for an order that was accepted and
not lost; the refinement maps `answer` to the returned stage.

**SlotListing.** `frames` is the stack of nested `ListSlots`, the innermost first:
`listSlotsFromTemplate` -> `ListTemplates` -> `ListSlots(tomorrow)` pushes a frame,
`Unwind` pops one and strips the live fields. `lock` and `fetched` are the venue
cache. `ListTemplates` alone is `ListSlots` for tomorrow whose answer is stripped
at the end, so it has no action of its own.

**Session.** `lock` is `serviceCore.mu`, held over a whole login; `token` numbers
the login it is from. `Sign` reads the token outside the mutex, as the code does.
TYYS may end the session at any time; the code does not notice (`Send` leaves
`loggedIn` alone whatever the answer), so that needs no action.

**Preview.** `sem` is the number of tokens in the channel, `wg` the counter, `stage`
the goroutines; the deferred calls run in their order, `Release` then `Finish`. The call of
TYYS is `Session!Call` and its answer `Return`, with everything the session does in
between: a goroutine keeps its token of the semaphore while it waits for the login mutex
or logs in for all the others. `Leave` cancels every call of the preview that is out;
`Others` are callers of other requests, who come, leave and hold the mutex as they like.

**SlotSelection.** A name is the set of its words, so that one may contain another
(`TextMatches`). `Kids` is the tree of a day's data and `Visited` the walk over it, which
stops at a space and goes on below an area. `Pick` chooses a slot of any listing
`ListSlots` can answer with (a day, or a template, which is asked for without its sport),
with or without insisting on its time; `CreatePlan` computes the earliest opening;
`Resolve`, `ResolveGroup` and `Resolved` are `resolvePreferredSlots`, venue by venue
in any order (Go's map order), while `Others` book and give back courts and a
day cannot be read. `Retry` is the next batch that takes the plan up. `steady` is history:
the courts listed, open and free since the plan's turn began.

**Startup.** `pc` goes through `main` stage by stage and `at` table by table: `Load`,
`Connect`, `Inspect` and `Apply` (AutoMigrate, which looks first and changes by what it
saw), `Prepare` (ADD COLUMN IF NOT EXISTS), `Select`, `Fill` and `Filled` (the backfill),
`Wire` (the credentials), then requests (`Begin`, `Create`, `Show`, `End`) and the
shutdown (`Signal`, `Stop`). An instance may end between any two of them (`Crash`) and is
booted again. AutoMigrate and PostgreSQL are outside `src/`. A public id is a number,
0 for NULL, each new one different from the last; `handed` is the one clients were given.

**RoomList.** `shelf`, `start` and `joined` are what the two tables hold that the
answers depend on: whether List selects a room, where it sorts, how many members it
shows. Each query is an action (`Count`, `Find`, `Cards`; `ReadRoom`, `ReadMembers`)
and others write between any two of them. `Find` returns any order that sorts by
start time, as the ORDER BY has no second key. A page size below 1 is replaced
(`Limit`), the answer repeats the client's. The client and the writers are outside
`src/`: the client asks for the pages in turn, from page 1, and stops at an empty one
or where `total` tells it to. `steady` and `since` are history for the properties.

Every module has operators named `X_Something` beside some `X`: the wrong variant
of one line (a dropped guard, a missing unlock). `PROJECT.json` ("mutants") pairs
each property with one that breaks it, so that a property that could not fail
would show.

## 4. Runs and bounds

| run | instance | shows |
|---|---|---|
| one_batch | 1 request, 1 batch, 1 trigger, 1 legacy row, no faults, fairness | NoRowForgotten, OneOrderPerRow, OrderWrittenBack, NoRowStuck, PlanSettles, SubmitAnswered |
| overlap | 1 request, 2 batches, database errors | SuccessBacked, OrderWasAsked, NoEarlyOrder, ReplyMatchesOrders, although batches overlap |
| race | 1 request, 1 batch, 1 trigger, 1 legacy row, a slot without a token; database errors, clients that leave, restarts | OneWorkerPerRow, SubmitBooksOnce, PlansKept, KeepsLife |
| double_trigger, not_written | smallest that shows it | findings 1 and 2 |
| reserve | 2 executions of one court, 5 attempts, every fault, fairness | TypeOK, SubmitsVerified, NoBlindRetry, KeepsPromise, Returns |
| listing | 2 listings, 2 dates, every fault, fairness | SingleFetch, OfferedForTheDate, Answered |
| listing_recursion | 1 listing, a client that leaves | finding 3 |
| preview | 3 candidates, 1 of them closed, 1 token, 1 caller of another request, 2 logins; network errors and clients that leave, fairness | OneLogin, SignedIn, CallEnds (of Session); NoDeadlock, AtMostLimit, ReturnsAll, Returns |
| selection | 5 sites, 5 spaces, 2 times, the hours 0, 9 and 12, plans of 2 slots, days that cannot be read | TypeOK, Distinct, OnlyAsked, FoundWhenFree, DueWhenOpen |
| startup | 2 instances, 2 tables, 2 rows, 2 crashes, databases of any age, 4 environments, fairness | ServesSound, KnownIdsStay, StartableStays, ComesUp |
| rooms | 3 rooms, 3 start times, pages of 1 and of the default 2, 2 writes, database errors | AnswerTrue, SteadySeenOnce |

The other type invariants (`TypeOK` of Reservation, SlotListing, Session, RoomList and
Startup, `PreviewTypeOK`) are proved and no longer run.

What fails under which fault is part of the result, and with it what a property leaves out
of the hazard it is near to:

| property | stated | because otherwise |
|---|---|---|
| OneOrderPerRow, OrderWrittenBack | without faults | after a lost answer or a lost save the next attempt orders again |
| ReplyMatchesOrders | without lost answers, clients that leave and restarts; failing statements do no harm | a lost answer counts as a refusal, and who has left or was cut off gets no answer |
| SubmitBooksOnce | without lost answers; everything else may happen | a lost answer counts as a refusal |
| NoRowForgotten | without failing statements, clients that leave and restarts; lost answers and overlapping batches do no harm (proved) | a result is not stored, or nobody is left to store it |
| OneWorkerPerRow, KeepsLife | with one scheduler, under every fault | finding 1 |
| SuccessBacked, PlansKept | under every fault, any number of batches | - |
| OfferedForTheDate, Answered | for every `MaxDepth` (OfferedForTheDate is proved, Answered run with 4); nothing is said of the depth itself | finding 3 |
| FoundWhenFree | for venues that share their names with no other site | the first match in a random order is taken |
| SteadySeenOnce | for rooms that share their start with no other listed room | ties are sorted anew by every query |
| KnownIdsStay | while no two backfills have found the same row | the second replaces the id |

**Why the bounds are enough.** *Reservation*: two slots that open at instants 1
and 2 give every shape that matters: a selection that is open, closed or split,
a plan that becomes due before all its slots are open, and a second candidate
after a failed one. The date passes at 3 (`DayAfter`), so every row sees the time
before, between and after the windows and the clean-up (in overlap the clock stops
once both are open: none of its properties is about an expired row). Two batches are enough
for a race on a claim, and two rows of one request for the interplay of live
order and plan. A batch may run again and again: only the clock is bounded.
*ReserveV2*: five attempts, the code's own number; two executions of one court
are enough for one to find it taken. *SlotListing*: `TTL` 1 with a clock of 2 lets the
cache expire under a request; `MaxDepth` 4 stands for the goroutine stack's limit
and is deeper than the two levels at which a template of a template appears.
*Preview*, which is also the run of the session: more candidates than tokens, so that
goroutines queue, and one that returns without a token; one token and another caller,
so that a goroutine waits with the token while somebody else logs in, and the other
way round; two logins so that one can follow one whose answer was lost.
*SlotSelection*: a venue with names of its own, two sites told by the same names that
differ in their sport, one whose name is contained in another's, and one whose spaces
stand below an area are the ways names and trees can mislead the search; their opening
hours differ (9 and 12), so a plan of two slots may become due while one of them is closed.
*Startup*: two instances are enough for a race on every statement; both rows belong to
the second table, so that a backfill can stop before a table or within one; two
crashes so that a restart can die as well. *RoomList*: three rooms so that two can
tie beside one that does not, and that there are two or three pages; two writes so that a room
can leave and another take its place, or a room move and move back.

`CHECK_DEADLOCK FALSE` stands where a run is meant to end: the clocks and hours are
bounded, a request is served once, a preview returns, and an instance without a valid
environment only starts and ends. `rooms` is checked for deadlock.

## 5. Fairness

Goroutines are scheduled by the Go runtime, and each call they make over the
network ends: the HTTP client of TYYS has a timeout of 20 s. That is weak
fairness on a worker's or call's next step. Beyond it:

- `Reservation!Tick`, `BatchList`: the clock runs and the scheduler calls
  materialize again and again (every hour, says the comment of `materializeOne`).
  Nothing obliges a user or a trigger.
- `Session`, and `Preview`'s `Progress` and `InSession` (strong): Go's `sync.Mutex` hands
  itself to a waiter that has waited for more than 1 ms, so a caller cannot be overtaken
  for ever, and a channel serves blocked senders in their order. Nothing obliges other
  requests to call, or a client to leave.
- `Startup!Step` (weak): an instance that is down is started again, the database answers
  its statements, and the timer of the shutdown (5 s) runs out. No request need end, so
  that a server comes up again although requests hang; no signal need come.

Assumed and not in the code: the captcha solver's process ends, and a chain of
redirects ends (`MaxHops`). Neither has a limit of its own; both are hazards.

## 6. Proofs

| theorem | states | holds |
|---|---|---|
| ReservationProofs!TypeCorrect | TypeOK | always |
| ReservationProofs!SuccessIsBacked | SuccessBacked | under every fault, any number of batches and triggers |
| ReservationProofs!OrdersWereAsked, OrdersAreInTime | OrderWasAsked, NoEarlyOrder | likewise |
| ReservationProofs!RepliesAreTrue | ReplyMatchesOrders | while no answer is lost (`NoAnswerLost`: `Faults` is at most {"db"}) |
| ReservationProofs!MutualExclusion, SuccessIsFinal | OneWorkerPerRow, SuccessFinal | with at most one scheduler (`SingleScheduler`), under every fault |
| ReservationProofs!RowsKeepTheirLife | Spec => KeepsLife, the refinement of RowLife | likewise |
| ReservationProofs!RowsOrderOnce, OrdersAreRecorded | OneOrderPerRow, OrderWrittenBack | with one scheduler and no fault (`Faultless`) |
| ReservationProofs!PlansAreKept | PlansKept | under every fault, any number of batches and triggers |
| ReservationProofs!SubmitsBookOnce | SubmitBooksOnce | while no answer times out (`NoTimeout`: "lost" is not in `Faults`) |
| ReservationProofs!RowsAreInHand | NoRowForgotten | while nothing fails but answers of TYYS (`OnlyAnswersLost`), any number of batches |
| ReservationProofs!WorkersRunOut | NobodyStrands and WorkersShrink: a worker takes at most 5 steps per slot and 10 besides | under every fault |
| ReserveV2Proofs!TypeCorrect, NoDoubleSubmission, SubmissionsAreVerified | TypeOK, NoBlindRetry, SubmitsVerified | always |
| ReserveV2Proofs!KeepsItsPromise | Spec => KeepsPromise, the refinement of Submission | always |
| ReserveV2Proofs!AttemptsRunOut | RunsOut: at most 8 steps per attempt | always |
| SlotListingProofs!TypeCorrect, VenuesFetchedOnce, OffersAreHonest | TypeOK, SingleFetch, OfferedForTheDate | always |
| SlotListingProofs!ListingsRunOut | WaitsForAFetch and ListingsShrink: at most 7 steps per level and 6 besides | always |
| SlotSelectionProofs!SelectionTypeCorrect, CandidatesAreDistinct, CandidatesWereAsked, FreeCourtsAreFound, PlansAreDue | TypeOK, Distinct, OnlyAsked, FoundWhenFree, DueWhenOpen | always |
| SessionProofs!TypeCorrect, LoginsAreExclusive, RequestsAreSigned | TypeOK, OneLogin, SignedIn | always |
| SessionProofs!CallsRunOut | WaitsForALogin and CallsShrink: at most MaxHops + 8 steps | always |
| PreviewProofs!PreviewKeepsSession | PreviewSpec => Session's Spec | always |
| PreviewProofs!PreviewSharesLogin, PreviewTypeCorrect, CallsAreBounded, AnswersAreComplete | OneLogin and SignedIn, PreviewTypeOK, AtMostLimit, ReturnsAll | always |
| PreviewProofs!PreviewNeverStalls | NoDeadlock | always |
| PreviewProofs!PreviewsRunOut | PreviewShrinks: a goroutine takes at most MaxHops + 14 steps | always |
| RoomListProofs!Typing, AnswersTrue, SteadyShown | TypeOK, AnswerTrue, SteadySeenOnce | always |
| StartupProofs!StartsTypeCorrect, ServedRowsAreNamed, KnownIdsAreKept | TypeOK, ServesSound, KnownIdsStay | always |
| StartupProofs!StartsAreSafe | StartableStays | always |

"Always" means for every value of the constants that satisfies the module's named
assumptions, which say no more than that counters are natural numbers, the sets
of actors do not overlap and the marks (`Null`, `Nobody`) are no ordinary values; two
say something of TYYS's data and stand in `SlotSelection` (`DayAssumption`: a day lists spaces of
its own site; `HoursOfNamesAssumption`: names that contain one another belong to sites
that open at the same hour, as the table of `venueOpenHour` has it for the real
names), and one says who calls (`CallersAssumption` of `Preview`: its goroutines are callers of the session).

**Reservation.** `SuccessBacked` is an argument about the copies (`BackedInv`): every
copy, stale or not, says only true things of its order; a worker in "won" holds its
slot's order; a copy that goes back to trying slots is not marked "success"; and
orders only grow, so what was true when a row was read is true when it is written
back, whoever wrote in between. No hypothesis on the scheduler is needed.

`OneWorkerPerRow` is not inductive. `LaneInv` divides the rows: a live row belongs to
the request that stored it, a plan to the batches (only plans have a
`reserve_open_at`), a legacy row to the trigger that took it out of "pending", a
status no code writes. Within a lane batches exclude each other by `SingleScheduler`
(a batch lists rows only after its last worker has ended) and triggers by the
atomic UPDATE. Note that the UPDATE plays no part in the batches' lane: a worker's
first save puts the claimable status back, so the hypothesis cannot be dropped
(run double_trigger). `SuccessFinal` needs two more conjuncts: `RequestInv`, that the
rows of a request in its first stages are nobody else's, and `WriterInv`, that a
worker that will still write works on a row that is not yet a success.

`KeepsLife` (`LifeStep`) takes one lemma per action and the invariants of the two
theorems before it. What was missing is `CopyInv`: the copy a worker claims with, resolves
or saves before a try says "scheduled", "submitting" or "failed", so that such a save
neither removes a row nor makes it a success; that a row a worker has just taken is in nobody else's hands is
`OneWorkerPerRow` after the step.

`OrderWasAsked` and `NoEarlyOrder` (`AskedInv`): the slots a row, a copy or a list of
candidates names lie in the request's selection, in the live or the planned part of it
by the row's own name, and candidates still to be tried have opened - time only goes on.
`ReplyMatchesOrders` (`ReplyInv`): as no answer is lost, a handler that has not "won"
has no order for its live row, whatever the table says of it. For `OneOrderPerRow` and
`OrderWrittenBack` (`WrittenInv`): without faults the order of a row is in its worker's
hand or on record in the row, and a row with neither has none (`NoOrderYet`), so a
claimed plan begins without an order.

`SubmitBooksOnce` (`SubmitInv`) needs more than `ReplyInv`: an order of a live row is in its
worker's hand, or its handler has answered, or its client is gone, so that neither another
attempt (a cancelled call does not reach TYYS) nor the fallback to a plan (a cancelled
INSERT does not commit) comes through any more. `PlansKept` (`KeptInv`) says of every copy, as
`BackedInv` does, that whoever writes it writes the plan it was read with. `NoRowForgotten`
(`HeldInv`): a claim puts a row into a worker's hands, and the worker lets go of it only by
writing "failed" or "success", over whatever the row says. A refused worker with candidates left
does not count as a holder: its row says "failed", or is in the hands of whoever claimed it since.

**ReserveV2.** The invariant adds to `NoBlindRetry` that an execution whose
order stands did not end with a captcha error, so that `EndAttempt` cannot begin
another attempt. `SubmitsVerified` needs that an execution at a stage behind the check has
verified in this very attempt. The refinement splits each step into the step of `Submission` it is
(`Book` when an order is accepted, `Answer` when the loop ends) or a stutter.

**SlotListing.** `LockInv`: whoever fetches holds the mutex, and the cache is not
fresh meanwhile (only the holder refreshes it, and time only makes it older).
`Honest`: an available slot of a result is of the innermost frame's date, whose window
is open; `Template` removes availability before a frame is popped.

**Session.** `LockInv` as above, for the login, and that there is no session while
somebody logs in. `TokenInv`: a caller past `ensureLogin` implies a session, a session
has a token, and a request about to be sent carries it; as a session is never
unset, no login can replace the token under a caller that has signed with it.

**Preview.** Each step is a step of `Session` or leaves it alone (`PreviewKeepsSession`), so
the session's theorems hold of the composition by citing them. `SemInv` and `WgInv` equate
the two counters with the cardinality of the goroutines between acquire and release, and
between Add and Done; `LinkInv` says that a goroutine is in the session exactly while it is
"calling", hence within the semaphore; `MainInv`, who has been started.

**SlotSelection.** `NamesInv`: every pick carries the names of the site its space belongs
to, whichever listing it came from. Hence (`FoundInv`) a court is found by the group of its
own names only, and never twice, although several groups may be answered by one venue.
`DoneInv` is `FoundWhenFree` group by group, for the courts still in `steady`.

**Startup.** `FillInv`: an instance behind the backfill of a table leaves no row of it
without an id, and a row it has found still missing is in its `todo`; rows created since
have an id from the start. `OnceInv`: while no two backfills have found the same row, a row
in somebody's `todo` has no id yet and is in nobody else's, so filling it replaces nothing
a client knows. `StartableStays` (`ColumnInv`): who is through with a table leaves its column
there, and rows are inserted only by who is through with all of them, so that no row without
an id comes into a table that enforces one.

**RoomList.** `SinceInv`: the open request has seen the tables as they are now and
everything its queries read. For the walk: in every order the database may return, a
room that shares its start with no other stands at its place (lemma Index, a bijection
between the indexes before it and the rooms that start earlier), so a page has
exactly the rooms whose places it covers (PageOf). `WalkInv` says that the pages so far
have shown the steady rooms up to the place they reach, `FoundInv` that what the open
request read agrees with the places of the rooms still steady; hence a walk stops
only behind all of them, also when the page size it asked for is not the one used.

**The safety half of liveness.** The liveness properties themselves (NoRowStuck, PlanSettles,
SubmitAnswered, Returns of ReserveV2 and of Preview, Answered, CallEnds, ComesUp) are only
model-checked, as TLAPS has no ENABLED and no fairness reasoning to speak of. What they rest on
besides fairness is proved. A *measure* (`Left`, in Preview `Togo`) bounds the steps a worker,
an execution, a call, a listing or a goroutine has still to take: it is a natural number below a
bound of the constants alone, each step of the actor lowers it, whatever TYYS and the database
answer, and no step of anybody else raises it. It is made of the loops of the code (candidates
left, attempts left, redirects left, levels of the stack left) times the stages of one turn,
and a loop without a bound, like that of `followLoginRedirects`, would show as a measure that
does not exist (hence `MaxHops`). *Who waits, waits for somebody*: `WaitsForALogin`,
`WaitsForAFetch` and `NoDeadlock` say, by the guards instead of ENABLED, that a mutex or a
semaphore somebody waits for is held by one who can go on. In `NoDeadlock` the chain has
three links: a goroutine at a full semaphore waits for one that holds a token (`SemInv`), that
one may wait for the login mutex, and who has the mutex is in a login (`LockInv`), where nothing
waits. What stays unproved is the step from there to "eventually", for which the fairness of section 5
is needed, and for `PlanSettles` and `ComesUp` also that retries and restarts come to an end.

Every invariant and safety property of the runs is also a theorem.

## 7. Findings

Each is a run that TLC must find violated, against a sentence of the repository
(quoted in `PROJECT.json`).

1. **double_trigger** - a worker's first save undoes its own claim; a second,
   overlapping batch claims the row too and both submit it.
2. **not_written** - the result is saved with the request's context: a client that
   leaves at the wrong moment leaves an order no row names.
3. **listing_recursion** - the fallback of ListSlots calls ListSlots without bound
   while dayInfo fails.

More are hazards without a run of their own:

- A restart between a claim and the first save leaves a plan "submitting" for ever:
  neither the scheduler nor the clean-up selects that status
  (`openapi.yaml:655` promises that a plan is executed when its window opens).
- The handler of GET /rooms computes a page size of at most 100 ("enforced by the
  back end", handler.go:164) and passes on the uncapped one.
- A lost answer counts as a refusal, so a plan may be stored besides an order that
  stands (section 4, `ReplyMatchesOrders`).
- A session TYYS has ended is never renewed (`resetLogin` has no caller).
- Two backfills at the same row replace an id that is already served: `KnownIdsStay` holds
  only under its hypothesis that no two have found the same row.
- AutoMigrate runs before the backfill. If it makes an existing column NOT NULL
  (`enforces`), tables with rows that have no id, or no column for one, are refused
  there, and the backfill that would help is never reached; `ComesUp` therefore assumes
  a database it can take (`Startable`).
- `Validate`'s checks for blank texts can never fail, as `getEnv` has put a default in
  by then; the credentials of ZJUAM are looked at only after the migration.

- The handler of a plan checks no names (handler.go:575-587). A client that spells one venue
  in two ways, or leaves a name blank, gets two groups that resolve to the same site, and the
  same court is a candidate twice. A blank campus also has the
  plan's window judged by the hour 9, whatever venue answers. `Distinct` and the other properties of `SlotSelection` are
  about slots as the listings show them.
- Rooms that start together may change places between two pages: `SteadySeenOnce` leaves
  them out.

Four comments do not say what the code does; the models follow the code, and for the first
two a mutant with the comment's version breaks a property. `resolvePreferredSlots` is said not to filter by
time, and does; `CreatePlan` (line 605) is said to take the opening of the first slot,
and takes the earliest; a plan without slots (room_reservation.go:30) is said to
accept any slot, and fails; a blank name of a planned slot is said to be inherited from the
plan (reservation_service.go:90), which has no such fields: it matches every venue.

## 8. Limits of the models

- One reservation date per instance; the windows of several dates are independent.
- In `Reservation` the candidates of a row are a distinct set in any order (Go's map order)
  and opening times are data (`OpenAt`); `SlotSelection` shows why they are, and where
  they come from.
- In `SlotSelection` the hours are those of one day, and the order in which slots are
  tried within a group is left out: `Reservation` tries every order. A user picks what a listing
  shows, with the names it shows (service comments, `openapi.yaml`); names a client makes up
  (section 7) are not modelled.
- In `Startup` a `ListenAndServe` that fails (main.go:111-125) ends the instance as `Crash` does
  and counts as one; a port that stays taken, where no start ever succeeds, is left out.
- `Startup` leaves out tables without a public id, the pool's limits and the seconds of the
  timeouts. Whether AutoMigrate enforces NOT NULL on a column that exists depends on the
  version of the library, and is chosen once for a behaviour.
- TYYS books a court time once. Its refusals are arbitrary.
- The text of an error is reduced to whether it speaks of a captcha. The text of a
  lost answer is assumed not to, as its path and the transport's words do not.
- A listing that overflows the stack ends the process: in `Reservation` that is
  `Crash`. `MaxDepth` is a small number for what is, with a cancelled context that
  fails every call in microseconds, a question of the 1 GB stack against the 15
  minutes of the venue cache.
- The counters of tokens, redirects and time are bounded by constants whose names
  begin with `Max`; the proofs hold for every value of them.
- Signatures, encryption, cookies, JSON and HTML are opaque.
- The filters of a room listing (keyword, sport, date, ...) are one set of listed rooms, the
  same in both queries. A client that starts at page 0 gets page 1 twice; it is not modelled.
- Not modelled, see "components" in `PROJECT.json`: users (every operation answers "not
  implemented" or reads one row), the generated API code, password encryption and the
  request signature (arithmetic on opaque bytes), the deprecated `Reserve` and `LoginOAuth2`
  (no caller in the service), models nothing writes yet, the debugging programs.

## 9. Plan

What is left are two compositions, in this order, each with the proof that it keeps what the
composed modules are proved to promise:

1. **ReserveV2 over Session**, as `Preview` is: each of its calls may need a login first, a
   cancelled caller waits for the mutex all the same.
2. **Reservation over ReserveV2**: `Execute` split into its calls, so that the database's
   and TYYS's faults interleave within an attempt. The refinements to `RowLife` and
   `Submission` say what the composition has to keep.

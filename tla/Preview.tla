------------------------------ MODULE Preview ------------------------------
(***************************************************************************)
(* ReservationService.Preview (internal/service/reservation_service.go)    *)
(* over the session it shares with other requests (Session): one goroutine *)
(* per candidate slot asks TYYS whether the slot can be booked, at most    *)
(* Limit of them at a time (a channel used as a semaphore), and the caller *)
(* waits for all of them (a sync.WaitGroup).  A goroutine holds its token  *)
(* of the semaphore while it waits for the login mutex.                    *)
(***************************************************************************)
EXTENDS Session

CONSTANTS
  N,       \* the candidates are 1..N
  Closed,  \* those whose booking window was closed when Preview began
  Limit    \* maxConcurrent, 3 in the code

Candidates == 1..N

ASSUME SizeAssumption == N \in Nat \ {0} /\ Limit \in Nat \ {0} /\ Closed \subseteq Candidates
\* The goroutines are callers of the session, beside those of other requests.
ASSUME CallersAssumption == Candidates \subseteq Calls

VARIABLES
  main,    \* the caller: "starting" its goroutines, "waiting", or "returned"
  started, \* how many it has started
  sem,     \* the tokens in the channel
  wg,      \* the counter of the WaitGroup
  stage,   \* what each goroutine is doing
  items,   \* the answers, filled by the goroutines
  left     \* whether the client of the preview has left

preview == <<main, started, sem, wg, stage, items>>
allVars == <<vars, preview, left>>

Answers == {"available", "error", "closed"}

PreviewInit ==
  /\ Init
  /\ main = "starting" /\ started = 0 /\ sem = 0 /\ wg = 0
  /\ stage = [i \in Candidates |-> "none"]
  /\ items = [i \in Candidates |-> "none"]
  /\ left = FALSE

Enter(i, label) == stage' = [stage EXCEPT ![i] = label]
Fill(i, answer) == items' = [items EXCEPT ![i] = answer]

\* wg.Add comes before the goroutine.
Start ==
  /\ main = "starting" /\ started < N
  /\ started' = started + 1 /\ wg' = wg + 1
  /\ Enter(started + 1, "window")
  /\ main' = IF started + 1 = N THEN "waiting" ELSE main
  /\ UNCHANGED <<sem, items, left, vars>>

CheckWindow(i) ==
  /\ stage[i] = "window"
  /\ \/ i \in Closed /\ Fill(i, "closed") /\ Enter(i, "finish")
     \/ i \notin Closed /\ Enter(i, "queue") /\ UNCHANGED items
  /\ UNCHANGED <<main, started, sem, wg, left, vars>>

\* Wrong variant: a channel with room for one more.
Room_OffByOne == sem <= Limit
Room == sem < Limit

Acquire(i) ==
  /\ stage[i] = "queue" /\ Room
  /\ sem' = sem + 1
  /\ Enter(i, "call")
  /\ UNCHANGED <<main, started, wg, items, left, vars>>

\* ReservationOrderInfo, with the context of the request.
OrderInfo(i) ==
  /\ stage[i] = "call"
  /\ Call(i) /\ (i \in cancelled' <=> left)
  /\ Enter(i, "calling")
  /\ UNCHANGED <<main, started, sem, wg, items, left>>

\* Its answer, into the goroutine's own item.  A call that was never sent has
\* failed; one that was sent may have been refused.
OrderInfoAnswered(i) ==
  /\ stage[i] = "calling"
  /\ Return(i)
  /\ \/ sent[i] # 0 /\ Fill(i, "available")
     \/ Fill(i, "error")
  /\ Enter(i, "release")
  /\ UNCHANGED <<main, started, sem, wg, left>>

\* Wrong variant: the token is not taken out again.
Freed_Kept(n) == n
Freed(n) == n - 1

\* The deferred calls, the last deferred first.
Release(i) ==
  /\ stage[i] = "release"
  /\ sem' = Freed(sem)
  /\ Enter(i, "finish")
  /\ UNCHANGED <<main, started, wg, items, left, vars>>

Finish(i) ==
  /\ stage[i] = "finish"
  /\ wg' = wg - 1
  /\ Enter(i, "done")
  /\ UNCHANGED <<main, started, sem, items, left, vars>>

\* Wrong variant: the caller does not wait for the last goroutine.
Woken_Early == wg <= 1
Woken == wg = 0

Finished ==
  /\ main = "waiting" /\ Woken
  /\ main' = "returned"
  /\ UNCHANGED <<started, sem, wg, stage, items, left, vars>>

\* What a goroutine, or another request, does inside the session.
InSession(c) == (EnsureLogin(c) \/ LoginStep(c) \/ Sign(c) \/ Send(c)) /\ UNCHANGED <<preview, left>>

\* The client of the preview leaves: every call that is out is cancelled.
InFlight == {i \in Candidates : pc[i] \notin {"idle", "return"}}
Leave ==
  /\ ~left /\ main # "returned"
  /\ Cancel(InFlight)
  /\ left' = TRUE
  /\ UNCHANGED preview

Others == Calls \ Candidates
Other(c) == (Call(c) \/ Return(c) \/ Cancel({c})) /\ UNCHANGED <<preview, left>>

GoroutineStep(i) ==
  CheckWindow(i) \/ Acquire(i) \/ OrderInfo(i) \/ OrderInfoAnswered(i) \/ Release(i) \/ Finish(i)

PreviewNext ==
  \/ Start \/ Finished \/ Leave
  \/ \E i \in Candidates : GoroutineStep(i)
  \/ \E c \in Calls : InSession(c)
  \/ \E c \in Others : Other(c)

PreviewSpec == PreviewInit /\ [][PreviewNext]_allVars

\* Goroutines are scheduled, a channel and a mutex serve who has waited (Session),
\* and TYYS answers or times out after 20s.  Nothing obliges others to call.
Progress(i) == GoroutineStep(i) \/ InSession(i)
PreviewFairSpec ==
  /\ PreviewSpec
  /\ WF_allVars(Start \/ Finished)
  /\ \A i \in Candidates : SF_allVars(Progress(i))
  /\ \A c \in Others : SF_allVars(InSession(c)) /\ WF_allVars(Return(c) /\ UNCHANGED <<preview, left>>)

-----------------------------------------------------------------------------
Stages == {"none", "window", "queue", "call", "calling", "release", "finish", "done"}

PreviewTypeOK ==
  /\ TypeOK
  /\ main \in {"starting", "waiting", "returned"} /\ started \in 0..N
  /\ sem \in 0..Limit /\ wg \in 0..N
  /\ stage \in [Candidates -> Stages]
  /\ items \in [Candidates -> Answers \cup {"none"}]
  /\ left \in BOOLEAN

Calling == {i \in Candidates : pc[i] # "idle"}

\* "Concurrency is limited to 3, to spare TYYS": whatever the session does, a
\* preview never has more than Limit calls open, those that wait for a login or
\* for the mutex included.
AtMostLimit == Cardinality(Calling) <= Limit

\* Once Preview returns every candidate has its answer, and no goroutine is left
\* that could still write into the slice the caller now reads, or still be in
\* the session.
ReturnsAll ==
  main = "returned" =>
    \A i \in Candidates : items[i] \in Answers /\ stage[i] = "done" /\ pc[i] = "idle"

\* Waits(i): a goroutine of the preview that cannot go on before another one does.
Waits(i) == (stage[i] = "queue" /\ ~Room) \/ (pc[i] = "ensure" /\ ~Unlocked)

\* While the caller waits for the WaitGroup somebody can go on: not all goroutines
\* wait for the semaphore and for the login mutex, or another request is in the
\* login they wait for.  A token or a mutex that is not given back, by whichever
\* of the returns, stops them all.
NoDeadlock ==
  main = "waiting" =>
    \/ Woken
    \/ \E i \in Candidates : stage[i] \notin {"none", "done"} /\ ~Waits(i)
    \/ \E c \in Others : pc[c] \in LoginStates

\* Preview returns, although its goroutines keep their tokens while they wait for
\* the login mutex, whoever holds it and whether logins fail.
Returns == <>(main = "returned")

=============================================================================

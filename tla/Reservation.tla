---------------------------- MODULE Reservation ----------------------------
(***************************************************************************)
(* The reservation engine of internal/service/reservation_service.go over  *)
(* the table room_reservations (internal/repository/                       *)
(* reservation_repository.go) and the external booking system TYYS.        *)
(*                                                                         *)
(* A handler is one HTTP request being served: a user's request (submit or *)
(* plan), a call of the scheduler's materialize task (a batch), or a call  *)
(* of the single-reservation trigger.  A worker is a goroutine of a handler*)
(* that owns a *models.RoomReservation, its private copy of one row, and   *)
(* writes that copy back as a whole (gorm Save).                           *)
(***************************************************************************)
EXTENDS Integers, Sequences, FiniteSets

CONSTANTS
  Requests,   \* user requests, POST .../reservation/submit and .../plan
  Batches,    \* callers of POST /internal/tasks/reservation-materialize
  Triggers,   \* callers of the task that triggers one reservation
  Legacy,     \* rows stored with the column default "pending", not by this code
  Slots,      \* bookable court times
  Tokenless,  \* slots for which TYYS hands out no token
  OpenAt,     \* slot -> instant its booking window opens
  DayAfter,   \* first instant at which the reservation date lies in the past
  MaxTime,    \* bound on the clock
  Faults,     \* which faults may happen, see FaultKinds
  NoSlot, Null

FaultKinds == {"db", "lost", "cancel", "crash"}

ASSUME SlotsAssumption ==
  /\ IsFiniteSet(Slots) /\ NoSlot \notin Slots
  /\ Tokenless \subseteq Slots
  /\ OpenAt \in [Slots -> Nat]
ASSUME ClockAssumption == DayAfter \in Nat /\ MaxTime \in Nat /\ Null \notin Nat
ASSUME HandlersAssumption ==
  /\ Requests \cap (Batches \cup Triggers) = {}
  /\ Batches \cap Triggers = {}
ASSUME FaultsAssumption == Faults \subseteq FaultKinds
ASSUME LegacyAssumption == Legacy \cap (Requests \X {"live", "plan"}) = {}

(***************************************************************************)
(* A request stores at most two rows: the one Submit creates and tries at  *)
(* once ("live") and the one CreatePlan leaves to the scheduler ("plan").  *)
(***************************************************************************)
Live(q) == <<q, "live">>
Plan(q) == <<q, "plan">>
Rows == (Requests \X {"live", "plan"}) \cup Legacy

Handlers == Requests \cup Batches \cup Triggers
Workers == {<<q, Live(q)>> : q \in Requests} \cup ((Batches \cup Triggers) \X Rows)

Statuses == {"none", "pending", "scheduled", "submitting", "success", "failed", "expired"}

\* The columns of a row the engine reads or writes; "none": not inserted yet.
\* slot stands for the columns venue_site_id ... token, order for
\* external_order_id (the order of a slot is named by the slot).
RowType == [status : Statuses, slot : Slots \cup {NoSlot}, order : Slots \cup {NoSlot},
            plan : SUBSET Slots, openAt : Nat \cup {Null}]

NewRow(status, slot, plan, openAt) ==
  [status |-> status, slot |-> slot, order |-> NoSlot, plan |-> plan, openAt |-> openAt]
NoRow == NewRow("none", NoSlot, {}, Null)

VARIABLES
  now,        \* the clock
  db,         \* the table: row -> its columns
  orders,     \* <<row, slot>>: the orders TYYS accepted on behalf of a row
  log,        \* <<row, succeeded>>: the attempt logs stored
  hpc,        \* what each handler is doing
  input,      \* request -> the slots asked for, split by the booking window
  cancelled,  \* handlers whose request context is cancelled
  pc,         \* what each worker is doing
  mem,        \* the worker's copy of its row
  todo        \* the candidate slots the worker has still to try

vars == <<now, db, orders, log, hpc, input, cancelled, pc, mem, todo>>

(***************************************************************************)
(* The database.  A call made with a cancelled context never commits; a    *)
(* call that fails for another reason may have committed before the error. *)
(***************************************************************************)
DbWorks(h) == h \notin cancelled
DbFails(h) == h \in cancelled \/ "db" \in Faults

Write(h, r, row) == DbWorks(h) /\ db' = [db EXCEPT ![r] = row]
FailedWrite(h, r, row) ==
  /\ DbFails(h)
  /\ db' \in {db} \cup (IF DbWorks(h) THEN {[db EXCEPT ![r] = row]} ELSE {})
\* `_ = repo.Update(...)`: the caller does not look at the result
IgnoredWrite(h, r, row) == Write(h, r, row) \/ (DbFails(h) /\ UNCHANGED db)

\* Sequences of distinct members of S, of any length.
Orderings(S) ==
  {c \in UNION {[1..n -> S] : n \in 0..Cardinality(S)} :
     \A i, j \in DOMAIN c : c[i] = c[j] => i = j}

Members(c) == {c[i] : i \in DOMAIN c}

\* now.Before(openAt) is false
WindowOpen(s) == now >= OpenAt[s]

Init ==
  /\ now = 0
  /\ db \in [Rows -> {NoRow} \cup {NewRow("pending", s, {}, Null) : s \in Slots \cup {NoSlot}}]
  /\ \A r \in Rows : db[r] = NoRow <=> r \notin Legacy
  /\ orders = {} /\ log = {} /\ cancelled = {}
  /\ hpc = [h \in Handlers |-> "idle"]
  /\ input = [q \in Requests |-> [open |-> <<>>, closed |-> {}]]
  /\ pc = [w \in Workers |-> "idle"]
  /\ mem = [w \in Workers |-> NoRow]
  /\ todo = [w \in Workers |-> <<>>]

-----------------------------------------------------------------------------
(* The user's request: SubmitOrPlan, Submit, CreatePlan. *)

LiveWorker(q) == <<q, Live(q)>>

OpenSlots == {s \in Slots : WindowOpen(s)}

\* SubmitOrPlan splits the selection by the booking window, once, at its start:
\* whatever was selected, open is what is open now, in the order of the body.
PostSubmit(q) ==
  /\ hpc[q] = "idle"
  /\ \E open \in Orderings(OpenSlots), closed \in SUBSET (Slots \ OpenSlots) :
       /\ open # <<>> \/ closed # {}
       /\ input' = [input EXCEPT ![q] = [open |-> open, closed |-> closed]]
       /\ hpc' = [hpc EXCEPT ![q] = IF open = <<>> THEN "fallback" ELSE "create"]
  /\ UNCHANGED <<now, db, orders, log, cancelled, pc, mem, todo>>

LiveRow(q) == NewRow("submitting", Head(input[q].open), {}, Null)

\* Submit stores the row, already "submitting", with the first slot's context.
CreateLive(q) ==
  /\ hpc[q] = "create"
  /\ \/ /\ Write(q, Live(q), LiveRow(q))
        /\ hpc' = [hpc EXCEPT ![q] = "trying"]
        /\ pc' = [pc EXCEPT ![LiveWorker(q)] = "try"]
        /\ mem' = [mem EXCEPT ![LiveWorker(q)] = LiveRow(q)]
        /\ todo' = [todo EXCEPT ![LiveWorker(q)] = input[q].open]
     \/ /\ FailedWrite(q, Live(q), LiveRow(q))
        /\ hpc' = [hpc EXCEPT ![q] = "fallback"]
        /\ UNCHANGED <<pc, mem, todo>>
  /\ UNCHANGED <<now, orders, log, input, cancelled>>

\* SubmitOrPlan looks at the record in memory: err == nil && status == "success"
\* Wrong variant: the record was created, whatever became of it.
Submitted_Created(q) == TRUE
\* Wrong variant: the row is looked at, which a failed save has not reached.
Submitted_Stored(q) == db[Live(q)].status = "success"
Submitted(q) == mem[LiveWorker(q)].status = "success"

SubmitDone(q) ==
  /\ hpc[q] = "trying" /\ pc[LiveWorker(q)] = "done"
  /\ hpc' = [hpc EXCEPT ![q] =
               IF Submitted(q) THEN "live" ELSE "fallback"]
  /\ pc' = [pc EXCEPT ![LiveWorker(q)] = "idle"]
  /\ mem' = [mem EXCEPT ![LiveWorker(q)] = NoRow]
  /\ UNCHANGED <<now, db, orders, log, input, cancelled, todo>>

EarliestOpening(S) == CHOOSE t \in {OpenAt[s] : s \in S} : \A s \in S : t <= OpenAt[s]

PlanRow(S) == NewRow("scheduled", NoSlot, S, EarliestOpening(S))

\* The slots still closed become a plan; with none of them it is an error.
Fallback(q) ==
  /\ hpc[q] = "fallback"
  /\ \/ /\ input[q].closed = {}
        /\ hpc' = [hpc EXCEPT ![q] = "error"]
        /\ UNCHANGED db
     \/ /\ input[q].closed # {}
        /\ Write(q, Plan(q), PlanRow(input[q].closed))
        /\ hpc' = [hpc EXCEPT ![q] = "planned"]
     \/ /\ input[q].closed # {}
        /\ FailedWrite(q, Plan(q), PlanRow(input[q].closed))
        /\ hpc' = [hpc EXCEPT ![q] = "error"]
  /\ UNCHANGED <<now, orders, log, input, cancelled, pc, mem, todo>>

\* POST .../reservation/plan calls CreatePlan with every slot of its body.
PostPlan(q) ==
  /\ hpc[q] = "idle"
  /\ \E S \in (SUBSET Slots) \ {{}} :
       /\ input' = [input EXCEPT ![q].closed = S]
       /\ \/ Write(q, Plan(q), PlanRow(S)) /\ hpc' = [hpc EXCEPT ![q] = "planned"]
          \/ FailedWrite(q, Plan(q), PlanRow(S)) /\ hpc' = [hpc EXCEPT ![q] = "error"]
  /\ UNCHANGED <<now, orders, log, cancelled, pc, mem, todo>>

-----------------------------------------------------------------------------
(* The scheduler's batch: MaterializePlans and its goroutines materializeOne. *)

\* The WHERE clause of ListDueScheduled; a NULL reserve_open_at never qualifies.
\* Wrong variant: failed plans are not retried.
Due_NoRetry == {r \in Rows : /\ db[r].status = "scheduled"
                             /\ db[r].openAt # Null /\ db[r].openAt <= now}
\* Wrong variant: a NULL opening counts as open.
Due_Null == {r \in Rows : /\ db[r].status \in {"scheduled", "failed"}
                          /\ db[r].openAt = Null \/ db[r].openAt <= now}
Due == {r \in Rows : /\ db[r].status \in {"scheduled", "failed"}
                     /\ db[r].openAt # Null /\ db[r].openAt <= now}

\* An empty list returns at once and starts nothing, as a dry run does.
BatchList(b) ==
  /\ hpc[b] = "idle" /\ DbWorks(b) /\ Due # {}
  /\ hpc' = [hpc EXCEPT ![b] = "running"]
  /\ pc' = [w \in Workers |-> IF w[1] = b /\ w[2] \in Due THEN "claim" ELSE pc[w]]
  /\ mem' = [w \in Workers |-> IF w[1] = b /\ w[2] \in Due THEN db[w[2]] ELSE mem[w]]
  /\ UNCHANGED <<now, db, orders, log, input, cancelled, todo>>

Claimed(r) == [db[r] EXCEPT !.status = "submitting"]

\* AtomicTransitionStatus(from, "submitting"): one UPDATE ... WHERE status = from.
\* Only the row changes; the worker's copy keeps the status it was listed with.
Transition(w, from, next) ==
  \/ /\ db[w[2]].status = from
     /\ Write(w[1], w[2], Claimed(w[2]))
     /\ pc' = [pc EXCEPT ![w] = "resolve"]
  \/ /\ db[w[2]].status # from \/ DbFails(w[1])
     /\ UNCHANGED db
     /\ pc' = [pc EXCEPT ![w] = next]
  \/ /\ db[w[2]].status = from
     /\ FailedWrite(w[1], w[2], Claimed(w[2]))
     /\ pc' = [pc EXCEPT ![w] = next]

ClaimScheduled(w) ==
  /\ pc[w] = "claim"
  /\ Transition(w, "scheduled", "reclaim")
  /\ UNCHANGED <<now, orders, log, hpc, input, cancelled, mem, todo>>

ClaimFailed(w) ==
  /\ pc[w] = "reclaim"
  /\ Transition(w, "failed", "done")
  /\ UNCHANGED <<now, orders, log, hpc, input, cancelled, mem, todo>>

\* ListSlots offers only slots whose window is open (before that it answers with
\* a template, every slot unavailable), and none at all once the context is gone.
\* Wrong variant: whatever is free, planned or not.
Offered_AnySlot(w) == {s \in Slots : WindowOpen(s) /\ DbWorks(w[1])}
\* Wrong variant: no regard to the booking window.
Offered_NoWindow(w) == {s \in mem[w].plan : DbWorks(w[1])}
Offered(w) == {s \in mem[w].plan : WindowOpen(s) /\ DbWorks(w[1])}

\* Without a candidate materializeOne fails the reservation.
\* Wrong variant: give up without failing the reservation.
AfterResolve_Forgets(c) == IF c = <<>> THEN "done" ELSE "try"
AfterResolve(c) == IF c = <<>> THEN "abort" ELSE "try"

\* resolvePreferredSlots: some of the planned slots are free, in map order.
Resolve(w) ==
  /\ pc[w] = "resolve"
  /\ \E c \in Orderings(Offered(w)) :
       /\ todo' = [todo EXCEPT ![w] = c]
       /\ pc' = [pc EXCEPT ![w] = AfterResolve(c)]
  /\ UNCHANGED <<now, db, orders, log, hpc, input, cancelled, mem>>

Failed(row) == [row EXCEPT !.status = "failed"]

\* failReservation of materializeOne: its save, then its log.
Abort(w) ==
  /\ pc[w] = "abort"
  /\ mem' = [mem EXCEPT ![w] = Failed(mem[w])]
  /\ IgnoredWrite(w[1], w[2], Failed(mem[w]))
  /\ pc' = [pc EXCEPT ![w] = "abortlog"]
  /\ UNCHANGED <<now, orders, log, hpc, input, cancelled, todo>>

IgnoredLog(w, ok) ==
  \/ DbWorks(w[1]) /\ log' = log \cup {<<w[2], ok>>}
  \/ DbFails(w[1]) /\ UNCHANGED log

AbortLog(w) ==
  /\ pc[w] = "abortlog"
  /\ IgnoredLog(w, FALSE)
  /\ pc' = [pc EXCEPT ![w] = "done"]
  /\ UNCHANGED <<now, db, orders, hpc, input, cancelled, mem, todo>>

Running(b) == {w \in Workers : w[1] = b /\ pc[w] \notin {"idle", "done"}}

Swept == [r \in Rows |-> IF db[r].status = "failed" /\ now >= DayAfter
                         THEN [db[r] EXCEPT !.status = "expired"] ELSE db[r]]

\* wg.Wait, MarkExpiredFailed, return.
Sweep(b) ==
  /\ hpc[b] = "running" /\ Running(b) = {}
  /\ \/ DbWorks(b) /\ db' = Swept
     \/ DbFails(b) /\ UNCHANGED db
  /\ hpc' = [hpc EXCEPT ![b] = "idle"]
  /\ cancelled' = cancelled \ {b}
  /\ pc' = [w \in Workers |-> IF w[1] = b THEN "idle" ELSE pc[w]]
  /\ mem' = [w \in Workers |-> IF w[1] = b THEN NoRow ELSE mem[w]]
  /\ UNCHANGED <<now, orders, log, input, todo>>

-----------------------------------------------------------------------------
(* trySlots and executeReservation, shared by requests, batches, triggers. *)

\* After an attempt failed: the next candidate, or the error goes to the caller.
\* Wrong variant: never notice that the candidates are exhausted.
NextTry_Always(w, rest) == "try"
NextTry(w, rest) ==
  IF rest # <<>> THEN "try" ELSE IF w[1] \in Batches THEN "abort" ELSE "done"

\* Wrong variant: the slot being tried becomes the whole preference.
WithSlot_Narrows(row, s) == [row EXCEPT !.slot = s, !.plan = {s}]
WithSlot(row, s) == [row EXCEPT !.slot = s]

\* The slot's context goes into the copy and the whole copy into the table,
\* before TYYS is called.  A failed save skips the slot.
TrySlot(w) ==
  /\ pc[w] = "try" /\ todo[w] # <<>>
  /\ LET row == WithSlot(mem[w], Head(todo[w])) IN
       /\ mem' = [mem EXCEPT ![w] = row]
       /\ todo' = [todo EXCEPT ![w] = Tail(todo[w])]
       /\ \/ Write(w[1], w[2], row) /\ pc' = [pc EXCEPT ![w] = "exec"]
          \/ /\ FailedWrite(w[1], w[2], row)
             /\ pc' = [pc EXCEPT ![w] = NextTry(w, Tail(todo[w]))]
  /\ UNCHANGED <<now, orders, log, hpc, input, cancelled>>

HasContext(w) == mem[w].slot # NoSlot /\ mem[w].slot \notin Tokenless

\* TYYS books a court time once.
Bookable(s) == \A o \in orders : o[2] # s

\* The record's slot was refused, or TYYS was not reached.
Refused(w) ==
  /\ pc' = [pc EXCEPT ![w] = "refused"]
  /\ UNCHANGED <<orders, cancelled>>

\* ReserveV2 up to its answer.  The order may stand although the answer never
\* arrives: the 20s client timeout, or the caller going away during the call.
Accepted(w) ==
  /\ HasContext(w) /\ w[1] \notin cancelled /\ Bookable(mem[w].slot)
  /\ orders' = orders \cup {<<w[2], mem[w].slot>>}
  /\ \/ pc' = [pc EXCEPT ![w] = "won"] /\ UNCHANGED cancelled
     \/ /\ "lost" \in Faults
        /\ pc' = [pc EXCEPT ![w] = "refused"] /\ UNCHANGED cancelled
     \/ /\ "cancel" \in Faults
        /\ pc' = [pc EXCEPT ![w] = "refused"]
        /\ cancelled' = cancelled \cup {w[1]}

Execute(w) ==
  /\ pc[w] = "exec"
  /\ Accepted(w) \/ Refused(w)
  /\ UNCHANGED <<now, db, log, hpc, input, mem, todo>>

\* Wrong variant: the order is stored, the status is not.
Booked_NoStatus(row, o) == [row EXCEPT !.order = o]
Booked(row, o) == [row EXCEPT !.status = "success", !.order = o]

\* The rows the result may be written back as; the reply may lack the order id.
\* Wrong variant: the result is written without looking at the error.
Results_Optimistic(w) == {Booked(mem[w], o) : o \in {mem[w].slot, NoSlot}}
Results(w) ==
  IF pc[w] = "won" THEN {Booked(mem[w], o) : o \in {mem[w].slot, NoSlot}}
                   ELSE {Failed(mem[w])}

SaveResult(w) ==
  /\ pc[w] \in {"won", "refused"}
  /\ \E row \in Results(w) :
       /\ mem' = [mem EXCEPT ![w] = row]
       /\ IgnoredWrite(w[1], w[2], row)
  /\ pc' = [pc EXCEPT ![w] = IF pc[w] = "won" THEN "logwon" ELSE "logrefused"]
  /\ UNCHANGED <<now, orders, log, hpc, input, cancelled, todo>>

\* trySlots stops at the first success.
\* Wrong variant: go on to the next candidate after a success.
AfterLog_GoesOn(w) == NextTry(w, todo[w])
AfterLog(w) == IF pc[w] = "logwon" THEN "done" ELSE NextTry(w, todo[w])

WriteLog(w) ==
  /\ pc[w] \in {"logwon", "logrefused"}
  /\ IgnoredLog(w, pc[w] = "logwon")
  /\ pc' = [pc EXCEPT ![w] = AfterLog(w)]
  /\ UNCHANGED <<now, db, orders, hpc, input, cancelled, mem, todo>>

-----------------------------------------------------------------------------
(* TriggerReservation: one row, claimed from "pending". *)

\* Wrong variant: claim from any status but "submitting".
Triggerable_NotBusy(r) == db[r].status \notin {"none", "submitting"}
Triggerable(r) == db[r].status = "pending"

TriggerClaim(t, r) ==
  /\ hpc[t] = "idle" /\ Triggerable(r)
  /\ \/ /\ Write(t, r, Claimed(r))
        /\ hpc' = [hpc EXCEPT ![t] = "running"]
        /\ pc' = [pc EXCEPT ![<<t, r>>] = "reload"]
     \/ FailedWrite(t, r, Claimed(r)) /\ UNCHANGED <<hpc, pc>>
  /\ UNCHANGED <<now, orders, log, input, cancelled, mem, todo>>

\* The error of the reload is dropped: its nil record panics in
\* executeReservation, and the row keeps the status it was claimed to.
TriggerReload(w) ==
  /\ pc[w] = "reload"
  /\ \/ DbWorks(w[1]) /\ mem' = [mem EXCEPT ![w] = db[w[2]]] /\ pc' = [pc EXCEPT ![w] = "exec"]
     \/ DbFails(w[1]) /\ pc' = [pc EXCEPT ![w] = "done"] /\ UNCHANGED mem
  /\ UNCHANGED <<now, db, orders, log, hpc, input, cancelled, todo>>

TriggerReturn(t) ==
  /\ hpc[t] = "running" /\ Running(t) = {}
  /\ hpc' = [hpc EXCEPT ![t] = "idle"]
  /\ cancelled' = cancelled \ {t}
  /\ pc' = [w \in Workers |-> IF w[1] = t THEN "idle" ELSE pc[w]]
  /\ mem' = [w \in Workers |-> IF w[1] = t THEN NoRow ELSE mem[w]]
  /\ UNCHANGED <<now, db, orders, log, input, todo>>

-----------------------------------------------------------------------------
(* The environment. *)

Tick ==
  /\ now < MaxTime /\ now' = now + 1
  /\ UNCHANGED <<db, orders, log, hpc, input, cancelled, pc, mem, todo>>

Busy(h) == hpc[h] \in {"create", "trying", "fallback", "running"}

\* The client of a handler disconnects: gin cancels the request's context.
Cancel(h) ==
  /\ "cancel" \in Faults /\ Busy(h) /\ h \notin cancelled
  /\ cancelled' = cancelled \cup {h}
  /\ UNCHANGED <<now, db, orders, log, hpc, input, pc, mem, todo>>

\* The process ends (a kill, or os.Exit once the 5s of Shutdown are over) and is
\* started again: goroutines and their copies are gone, table and orders stay.
Crash ==
  /\ "crash" \in Faults
  /\ hpc' = [h \in Handlers |-> IF ~Busy(h) THEN hpc[h]
                                ELSE IF h \in Requests THEN "error" ELSE "idle"]
  /\ cancelled' = {}
  /\ pc' = [w \in Workers |-> "idle"]
  /\ mem' = [w \in Workers |-> NoRow]
  /\ todo' = [w \in Workers |-> <<>>]
  /\ UNCHANGED <<now, db, orders, log, input>>

RequestStep(q) ==
  PostSubmit(q) \/ PostPlan(q) \/ CreateLive(q) \/ SubmitDone(q) \/ Fallback(q)

WorkerStep(w) ==
  \/ ClaimScheduled(w) \/ ClaimFailed(w) \/ Resolve(w) \/ Abort(w) \/ AbortLog(w)
  \/ TrySlot(w) \/ Execute(w) \/ SaveResult(w) \/ WriteLog(w) \/ TriggerReload(w)

Next ==
  \/ Tick
  \/ \E q \in Requests : RequestStep(q)
  \/ \E b \in Batches : BatchList(b) \/ Sweep(b)
  \/ \E t \in Triggers, r \in Rows : TriggerClaim(t, r)
  \/ \E t \in Triggers : TriggerReturn(t)
  \/ \E w \in Workers : WorkerStep(w)
  \/ \E h \in Handlers : Cancel(h)
  \/ Crash

Spec == Init /\ [][Next]_vars

(***************************************************************************)
(* Goroutines are scheduled and every call of theirs ends (TYYS after 20s  *)
(* at most); the clock runs; the scheduler calls materialize again and     *)
(* again.  Nothing obliges a user, or whoever triggers a single row.       *)
(***************************************************************************)
Fairness ==
  /\ WF_vars(Tick)
  /\ \A q \in Requests : WF_vars(CreateLive(q) \/ SubmitDone(q) \/ Fallback(q))
  /\ \A b \in Batches : WF_vars(BatchList(b)) /\ WF_vars(Sweep(b))
  /\ \A t \in Triggers : WF_vars(TriggerReturn(t))
  /\ \A w \in Workers : WF_vars(WorkerStep(w))

FairSpec == Spec /\ Fairness

-----------------------------------------------------------------------------
WorkerStates == {"idle", "claim", "reclaim", "resolve", "try", "exec", "won", "refused",
                 "logwon", "logrefused", "abort", "abortlog", "reload", "done"}
HandlerStates == {"idle", "create", "trying", "fallback", "live", "planned", "error", "running"}

TypeOK ==
  /\ now \in Nat
  /\ db \in [Rows -> RowType]
  /\ orders \subseteq Rows \X Slots
  /\ log \subseteq Rows \X BOOLEAN
  /\ hpc \in [Handlers -> HandlerStates]
  /\ input \in [Requests -> [open : Seq(Slots), closed : SUBSET Slots]]
  /\ cancelled \subseteq Handlers
  /\ pc \in [Workers -> WorkerStates]
  /\ mem \in [Workers -> RowType]
  /\ todo \in [Workers -> Seq(Slots)]

-----------------------------------------------------------------------------
(* What must hold whatever fails, and however many batches overlap. *)

\* What the columns of a row say of its order is true.
Backed(r, row) ==
  /\ row.status = "success" => <<r, row.slot>> \in orders /\ row.order \in {row.slot, NoSlot}
  /\ row.order # NoSlot => <<r, row.order>> \in orders

\* A row marked "success" names a slot TYYS really booked for it, and a stored
\* order id is that slot's: no stale copy written back by trySlots,
\* executeReservation or failReservation mixes one attempt with another.
SuccessBacked == \A r \in Rows : Backed(r, db[r])

\* An order of a submit is for a slot whose window was open when SubmitOrPlan
\* split the selection; an order of a plan is for a slot that was left to it.
OrderWasAsked ==
  \A q \in Requests, s \in Slots :
    /\ <<Live(q), s>> \in orders => s \in Members(input[q].open)
    /\ <<Plan(q), s>> \in orders => s \in input[q].closed

\* No order goes out before its slot's window opens, although one plan may hold
\* slots of several opening hours and becomes due with the earliest of them.
NoEarlyOrder == \A o \in orders : o[1] \notin Legacy => WindowOpen(o[2])

-----------------------------------------------------------------------------
(* What must hold while no two batches overlap. *)

Executing == {"resolve", "try", "exec", "won", "refused", "logwon", "logrefused",
              "abort", "abortlog", "reload"}

\* AtomicTransitionStatus (repository:77) and its callers promise that a row is
\* never worked on twice at a time.
OneWorkerPerRow ==
  \A v, w \in Workers :
    v[2] = w[2] /\ pc[v] \in Executing /\ pc[w] \in Executing => v = w

\* The workers that have their row in hand: those that may still write it.
Writing == Executing \ {"logwon", "abortlog"}
hands == {w \in Workers : pc[w] \in Writing}
RowOf == [w \in Workers |-> w[2]]

\* What a row says: it is not there, it is to be worked on (whether "pending",
\* "scheduled", "submitting" or "failed"), or it is settled.
Says(status) ==
  IF status = "none" THEN "absent"
  ELSE IF status = "success" THEN "booked"
  ELSE IF status = "expired" THEN "expired"
  ELSE "waiting"
life == [r \in Rows |-> Says(db[r].status)]

Life == INSTANCE RowLife WITH state <- life

\* The engine keeps the life of its rows: stored once, in one hand at a time,
\* ordered for by that hand only, a success only with an order and for ever,
\* expired for ever once nobody works on it, over failing saves, clients that
\* leave and restarts, although every worker writes a copy it took earlier.
KeepsLife == Life!Spec

\* The result of a successful reservation is never overwritten, neither by a
\* retry of the batch nor by the clean-up nor by a trigger.
SuccessFinal == [][\A r \in Rows : db[r].status = "success" => db'[r] = db[r]]_vars

\* One row, one court: TYYS never accepts two orders for it.
OneOrderPerRow == \A o, p \in orders : o[1] = p[1] => o = p

\* "Success or failure, reservation_status is written back and an attempt is
\* logged" (executeReservation): an accepted order is in the hands of a worker
\* about to write it back, or it is in the row, and logged or about to be.
OrderWrittenBack ==
  \A o \in orders :
    \/ \E w \in Workers : w[2] = o[1] /\ pc[w] = "won" /\ mem[w].slot = o[2]
    \/ /\ db[o[1]].status = "success" /\ db[o[1]].slot = o[2]
       /\ \/ <<o[1], TRUE>> \in log
          \/ \E w \in Workers : w[2] = o[1] /\ pc[w] = "logwon"

\* A submit books once: TYYS accepts one order at most for the row it tries at
\* once, and then no plan is left that would book another court later, though
\* saves fail, the client leaves with the order placed, or the process restarts.
SubmitBooksOnce ==
  \A q \in Requests : \A o \in orders : o[1] = Live(q) =>
    /\ \A p \in orders : p[1] = Live(q) => p = o
    /\ db[Plan(q)].status = "none"

\* No row is forgotten: one that says "submitting", which nobody selects, is in the
\* hands of a worker that will write it back, whatever became of a row since the
\* worker read it and however the answer of TYYS was lost.
NoRowForgotten ==
  \A r \in Rows : db[r].status = "submitting" => \E w \in hands : RowOf[w] = r

\* A plan that was stored keeps its slots and is listed from the earliest of their
\* openings on, whatever fails and whoever writes a stale copy of it; and it is
\* given up only when its date has passed.
PlansKept ==
  \A q \in Requests :
    /\ db[Plan(q)].status # "none" =>
         /\ db[Plan(q)].plan = input[q].closed
         /\ db[Plan(q)].openAt = EarliestOpening(input[q].closed)
    /\ db[Plan(q)].status = "expired" => now >= DayAfter

\* SubmitOrPlan answers "not planned" with an order in hand, and falls back to a
\* plan, or to an error, only if every attempt at the open slots failed.
ReplyMatchesOrders ==
  \A q \in Requests :
    /\ hpc[q] = "live" => \E s \in Slots : <<Live(q), s>> \in orders
    /\ hpc[q] \in {"planned", "error"} => \A s \in Slots : <<Live(q), s>> \notin orders

-----------------------------------------------------------------------------
(* What must eventually happen. *)

\* A claimed row does not stay "submitting" for ever.
NoRowStuck ==
  \A r \in Rows : db[r].status = "submitting" ~> db[r].status # "submitting"

\* Every plan is submitted to TYYS with success or, its date past, expires.
PlanSettles ==
  \A q \in Requests :
    db[Plan(q)].status = "scheduled" ~> db[Plan(q)].status \in {"success", "expired"}

\* A submit request is answered.
SubmitAnswered ==
  \A q \in Requests : hpc[q] = "create" ~> hpc[q] \in {"live", "planned", "error"}

=============================================================================

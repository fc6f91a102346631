-------------------------- MODULE ReservationProofs --------------------------
(* Theorems about Reservation, for all values of its constants.             *)
EXTENDS Reservation, WellFoundedInduction, FiniteSetTheorems, TLAPS

(***************************************************************************)
(* Lemmas about the helpers.                                               *)
(***************************************************************************)

\* A candidate list drawn from S is a sequence of members of S.
LEMMA OrderingsAreSequences ==
  ASSUME NEW S \in SUBSET Slots, NEW c \in Orderings(S)
  PROVE  c \in Seq(Slots) /\ Members(c) \subseteq S
  BY DEF Orderings, Members

\* reserve_open_at of a plan: the earliest opening of its slots exists.
LEMMA EarliestOpeningProperties ==
  ASSUME NEW S \in SUBSET Slots, S # {}
  PROVE  /\ EarliestOpening(S) \in Nat
         /\ \E s \in S : EarliestOpening(S) = OpenAt[s]
         /\ \A s \in S : EarliestOpening(S) <= OpenAt[s]
<1> DEFINE T == {OpenAt[s] : s \in S}
<1>1. T \subseteq Nat /\ T # {}
  BY SlotsAssumption
<1>2. PICK m \in T : \A y \in T : ~ (<<y, m>> \in OpToRel(<, Nat))
  <2> HIDE DEF T
  <2> QED BY <1>1, WFMin, NatLessThanWellFounded
<1>3. \A y \in T : ~ (y < m)
  BY <1>1, <1>2, Zenon DEF OpToRel
<1>4. m \in T /\ \A s \in S : m <= OpenAt[s]
  <2>1. \A s \in S : OpenAt[s] \in T
    OBVIOUS
  <2> HIDE DEF T
  <2>2. m \in T
    BY <1>2, Zenon
  <2>3. m \in Nat /\ \A y \in T : y \in Nat
    BY <1>1, <2>2
  <2>4. ASSUME NEW s \in S PROVE m <= OpenAt[s]
    <3>1. OpenAt[s] \in Nat /\ m \in Nat /\ ~ (OpenAt[s] < m)
      BY <1>3, <2>1, <2>3
    <3> QED BY <3>1
  <2> QED BY <2>2, <2>4
<1>5. QED
  BY <1>1, <1>4 DEF EarliestOpening

\* Who works on what.
LEMMA WorkerFacts ==
  /\ \A q \in Requests : /\ Live(q) \in Rows /\ Plan(q) \in Rows
                         /\ q \in Handlers /\ LiveWorker(q) \in Workers
                         /\ LiveWorker(q)[1] = q /\ LiveWorker(q)[2] = Live(q)
  /\ \A h \in Batches \cup Triggers, r \in Rows :
       h \in Handlers /\ <<h, r>> \in Workers
  /\ \A w \in Workers : /\ w[1] \in Handlers /\ w[2] \in Rows /\ w = <<w[1], w[2]>>
                        /\ w[1] \in Requests => w = LiveWorker(w[1])
  BY HandlersAssumption DEF Rows, Handlers, Workers, Live, Plan, LiveWorker

\* A write leaves a table of rows.
LEMMA RecordsAreRows ==
  /\ NoRow \in RowType
  /\ \A st \in Statuses, s \in Slots \cup {NoSlot}, S \in SUBSET Slots, t \in Nat \cup {Null} :
       NewRow(st, s, S, t) \in RowType
  /\ \A row \in RowType, st \in Statuses : [row EXCEPT !.status = st] \in RowType
  /\ \A row \in RowType : Failed(row) \in RowType
  /\ \A row \in RowType, s \in Slots : WithSlot(row, s) \in RowType
  /\ \A row \in RowType, o \in Slots \cup {NoSlot} : Booked(row, o) \in RowType
  BY DEF NoRow, NewRow, RowType, Statuses, Failed, WithSlot, Booked

LEMMA PlanRowType ==
  ASSUME NEW S \in SUBSET Slots, S # {}
  PROVE  PlanRow(S) \in RowType
<1>1. EarliestOpening(S) \in Nat
  BY EarliestOpeningProperties
<1> QED BY <1>1, RecordsAreRows DEF PlanRow, Statuses

LEMMA WriteType ==
  ASSUME NEW h, NEW r \in Rows, NEW row \in RowType, db \in [Rows -> RowType],
         Write(h, r, row) \/ FailedWrite(h, r, row) \/ IgnoredWrite(h, r, row)
  PROVE  db' \in [Rows -> RowType]
  BY DEF Write, FailedWrite, IgnoredWrite

(***************************************************************************)
(* Type correctness.  It is inductive together with the fact that Submit   *)
(* is only reached with a slot whose window is open: its first slot fills  *)
(* the columns of the new row.                                             *)
(***************************************************************************)
TypeInv ==
  /\ TypeOK
  /\ \A q \in Requests : hpc[q] = "create" => input[q].open # <<>>

LEMMA TypeInit == Init => TypeInv
<1> SUFFICES ASSUME Init PROVE TypeInv
  OBVIOUS
<1>1. db \in [Rows -> RowType]
  <2>1. \A s \in Slots \cup {NoSlot} : NewRow("pending", s, {}, Null) \in RowType
    BY RecordsAreRows DEF Statuses
  <2>2. {NoRow} \cup {NewRow("pending", s, {}, Null) : s \in Slots \cup {NoSlot}} \subseteq RowType
    BY <2>1, RecordsAreRows
  <2> QED BY <2>2 DEF Init
<1>2. TypeOK
  BY <1>1, RecordsAreRows DEF Init, TypeOK, HandlerStates, WorkerStates
<1>3. \A q \in Requests : hpc[q] = "idle"
  BY WorkerFacts DEF Init
<1> QED BY <1>2, <1>3 DEF TypeInv

LEMMA RequestType ==
  ASSUME TypeInv, NEW q \in Requests, RequestStep(q)
  PROVE  TypeInv'
<1>0. /\ q \in Handlers /\ Live(q) \in Rows /\ Plan(q) \in Rows
      /\ LiveWorker(q) \in Workers /\ Requests \subseteq Handlers
  BY WorkerFacts
<1> USE <1>0 DEF TypeInv, TypeOK
<1>1. CASE PostSubmit(q)
  <2>1. PICK open \in Orderings(OpenSlots), closed \in SUBSET (Slots \ OpenSlots) :
          /\ input' = [input EXCEPT ![q] = [open |-> open, closed |-> closed]]
          /\ hpc' = [hpc EXCEPT ![q] = IF open = <<>> THEN "fallback" ELSE "create"]
    BY <1>1 DEF PostSubmit
  <2>2. open \in Seq(Slots)
    BY OrderingsAreSequences DEF OpenSlots
  <2>3. input' \in [Requests -> [open : Seq(Slots), closed : SUBSET Slots]]
    BY <2>1, <2>2
  <2>4. hpc' \in [Handlers -> HandlerStates]
    BY <2>1 DEF HandlerStates
  <2>5. \A p \in Requests : hpc'[p] = "create" => input'[p].open # <<>>
    BY <2>1, <2>2
  <2> QED BY <1>1, <2>3, <2>4, <2>5 DEF PostSubmit
<1>2. CASE PostPlan(q)
  <2>1. PICK S \in (SUBSET Slots) \ {{}} :
          /\ input' = [input EXCEPT ![q].closed = S]
          /\ \/ Write(q, Plan(q), PlanRow(S)) /\ hpc' = [hpc EXCEPT ![q] = "planned"]
             \/ FailedWrite(q, Plan(q), PlanRow(S)) /\ hpc' = [hpc EXCEPT ![q] = "error"]
    BY <1>2 DEF PostPlan
  <2>2. PlanRow(S) \in RowType
    <3>1. S \in SUBSET Slots /\ S # {}
      BY <2>1
    <3> QED BY <3>1, PlanRowType
  <2>3. db' \in [Rows -> RowType]
    BY <2>1, <2>2, WriteType
  <2>4. hpc' \in [Handlers -> HandlerStates]
    BY <2>1 DEF HandlerStates
  <2>5. /\ input' \in [Requests -> [open : Seq(Slots), closed : SUBSET Slots]]
        /\ \A p \in Requests : hpc'[p] = "create" => input'[p].open # <<>>
    BY <2>1
  <2> QED BY <1>2, <2>3, <2>4, <2>5 DEF PostPlan
<1>3. CASE CreateLive(q)
  <2>1. LiveRow(q) \in RowType
    <3>1. Head(input[q].open) \in Slots
      BY <1>3 DEF CreateLive
    <3> QED BY <3>1, RecordsAreRows DEF LiveRow, Statuses
  <2>2. db' \in [Rows -> RowType]
    BY <1>3, <2>1, WriteType DEF CreateLive
  <2>3. hpc' \in [Handlers -> HandlerStates]
    BY <1>3 DEF CreateLive, HandlerStates
  <2>4. /\ pc' \in [Workers -> WorkerStates]
        /\ mem' \in [Workers -> RowType]
        /\ todo' \in [Workers -> Seq(Slots)]
    <3>1. CASE UNCHANGED <<pc, mem, todo>>
      BY <3>1
    <3>2. CASE /\ pc' = [pc EXCEPT ![LiveWorker(q)] = "try"]
               /\ mem' = [mem EXCEPT ![LiveWorker(q)] = LiveRow(q)]
               /\ todo' = [todo EXCEPT ![LiveWorker(q)] = input[q].open]
      BY <2>1, <3>2 DEF WorkerStates
    <3> QED BY <1>3, <3>1, <3>2 DEF CreateLive
  <2>5. \A p \in Requests : hpc'[p] = "create" => hpc[p] = "create"
    BY <1>3 DEF CreateLive
  <2> QED BY <1>3, <2>2, <2>3, <2>4, <2>5 DEF CreateLive
<1>4. CASE SubmitDone(q)
  BY <1>4, RecordsAreRows DEF SubmitDone, HandlerStates, WorkerStates
<1>5. CASE Fallback(q)
  <2>1. input[q].closed # {} => PlanRow(input[q].closed) \in RowType
    BY PlanRowType
  <2>2. db' \in [Rows -> RowType]
    BY <1>5, <2>1, WriteType DEF Fallback
  <2>3. hpc' \in [Handlers -> HandlerStates]
    BY <1>5 DEF Fallback, HandlerStates
  <2>4. \A p \in Requests : hpc'[p] = "create" => hpc[p] = "create"
    BY <1>5 DEF Fallback
  <2> QED BY <1>5, <2>2, <2>3, <2>4 DEF Fallback
<1> QED BY <1>1, <1>2, <1>3, <1>4, <1>5 DEF RequestStep

LEMMA BatchType ==
  ASSUME TypeInv, NEW b \in Batches, BatchList(b) \/ Sweep(b)
  PROVE  TypeInv'
<1>0. b \in Handlers /\ Requests \subseteq Handlers /\ b \notin Requests
  BY HandlersAssumption DEF Handlers
<1> USE <1>0 DEF TypeInv, TypeOK
<1>1. CASE BatchList(b)
  <2>1. hpc' \in [Handlers -> HandlerStates] /\ pc' \in [Workers -> WorkerStates]
    BY <1>1 DEF BatchList, HandlerStates, WorkerStates
  <2>2. mem' \in [Workers -> RowType]
    BY <1>1, WorkerFacts DEF BatchList
  <2>3. \A q \in Requests : hpc'[q] = hpc[q]
    BY <1>1 DEF BatchList
  <2> QED BY <1>1, <2>1, <2>2, <2>3 DEF BatchList
<1>2. CASE Sweep(b)
  <2>1. Swept \in [Rows -> RowType]
    <3>1. \A r \in Rows : [db[r] EXCEPT !.status = "expired"] \in RowType
      BY RecordsAreRows DEF Statuses
    <3> QED BY <3>1 DEF Swept
  <2>2. db' \in [Rows -> RowType]
    BY <1>2, <2>1 DEF Sweep
  <2>3. hpc' \in [Handlers -> HandlerStates] /\ pc' \in [Workers -> WorkerStates]
    BY <1>2 DEF Sweep, HandlerStates, WorkerStates
  <2>4. mem' \in [Workers -> RowType]
    BY <1>2, RecordsAreRows DEF Sweep
  <2>5. \A q \in Requests : hpc'[q] = hpc[q]
    BY <1>2 DEF Sweep
  <2> QED BY <1>2, <2>2, <2>3, <2>4, <2>5 DEF Sweep
<1> QED BY <1>1, <1>2

\* The steps of a worker change its own program counter, copy and candidates,
\* and of the table its own row.
LEMMA WorkerType ==
  ASSUME TypeInv, NEW w \in Workers, WorkerStep(w)
  PROVE  TypeInv'
<1>0. w[1] \in Handlers /\ w[2] \in Rows
  BY WorkerFacts
<1>a. \A row \in RowType, s \in Slots : /\ WithSlot(row, s) \in RowType
                                       /\ Failed(row) \in RowType
  BY RecordsAreRows
<1>b. Claimed(w[2]) \in RowType
  BY <1>0, RecordsAreRows DEF Claimed, Statuses, TypeInv, TypeOK
<1>c. ASSUME NEW ok \in BOOLEAN, IgnoredLog(w, ok) PROVE log' \subseteq Rows \X BOOLEAN
  <2>1. <<w[2], ok>> \in Rows \X BOOLEAN
    BY <1>0
  <2> QED BY <1>c, <2>1 DEF IgnoredLog, TypeInv, TypeOK
<1> USE <1>0 DEF TypeInv, TypeOK
<1>1. ASSUME NEW from, NEW next \in {"reclaim", "done"}, Transition(w, from, next)
      PROVE  db' \in [Rows -> RowType] /\ pc' \in [Workers -> WorkerStates]
  <2>1. db' \in [Rows -> RowType]
    BY <1>1, <1>b, WriteType DEF Transition
  <2>2. pc' \in [Workers -> WorkerStates]
    BY <1>1 DEF Transition, WorkerStates
  <2> QED BY <2>1, <2>2
<1>2. CASE ClaimScheduled(w)
  BY <1>1, <1>2 DEF ClaimScheduled
<1>3. CASE ClaimFailed(w)
  BY <1>1, <1>3 DEF ClaimFailed
<1>4. CASE Resolve(w)
  <2>1. PICK c \in Orderings(Offered(w)) :
          todo' = [todo EXCEPT ![w] = c] /\ pc' = [pc EXCEPT ![w] = AfterResolve(c)]
    BY <1>4 DEF Resolve
  <2>2. Offered(w) \in SUBSET Slots
    BY DEF Offered, RowType
  <2>3. c \in Seq(Slots)
    BY <2>2, OrderingsAreSequences
  <2> QED BY <1>4, <2>1, <2>3 DEF Resolve, AfterResolve, WorkerStates
<1>5. CASE Abort(w)
  <2>1. Failed(mem[w]) \in RowType
    BY RecordsAreRows
  <2>2. db' \in [Rows -> RowType]
    BY <1>5, <2>1, WriteType DEF Abort
  <2> QED BY <1>5, <2>1, <2>2 DEF Abort, WorkerStates
<1>6. CASE AbortLog(w)
  BY <1>6, <1>c DEF AbortLog, WorkerStates
<1>7. CASE TrySlot(w)
  <2>1. Head(todo[w]) \in Slots /\ Tail(todo[w]) \in Seq(Slots)
    BY <1>7 DEF TrySlot
  <2>2. WithSlot(mem[w], Head(todo[w])) \in RowType
    BY <2>1, RecordsAreRows
  <2>3. db' \in [Rows -> RowType]
    BY <1>7, <2>2, WriteType DEF TrySlot
  <2>4. mem' \in [Workers -> RowType] /\ todo' \in [Workers -> Seq(Slots)]
    BY <1>7, <2>1, <2>2 DEF TrySlot
  <2>5. pc' \in [Workers -> WorkerStates]
    BY <1>7 DEF TrySlot, NextTry, WorkerStates
  <2> QED BY <1>7, <2>3, <2>4, <2>5 DEF TrySlot
<1>8. CASE Execute(w)
  <2>1. HasContext(w) => mem[w].slot \in Slots
    BY DEF HasContext, RowType
  <2>2. orders' \subseteq Rows \X Slots
    <3>1. HasContext(w) => <<w[2], mem[w].slot>> \in Rows \X Slots
      BY <2>1
    <3> QED BY <1>8, <3>1 DEF Execute, Accepted, Refused
  <2>3. cancelled' \subseteq Handlers
    BY <1>8 DEF Execute, Accepted, Refused
  <2>4. pc' \in [Workers -> WorkerStates]
    BY <1>8 DEF Execute, Accepted, Refused, WorkerStates
  <2> QED BY <1>8, <2>2, <2>3, <2>4 DEF Execute
<1>9. CASE SaveResult(w)
  <2>1. Results(w) \subseteq RowType
    <3>1. mem[w].slot \in Slots \cup {NoSlot}
      BY DEF RowType
    <3> QED BY <3>1, RecordsAreRows DEF Results
  <2>2. PICK row \in Results(w) :
          mem' = [mem EXCEPT ![w] = row] /\ IgnoredWrite(w[1], w[2], row)
    BY <1>9 DEF SaveResult
  <2>3. db' \in [Rows -> RowType]
    BY <2>1, <2>2, WriteType
  <2>4. mem' \in [Workers -> RowType]
    BY <2>1, <2>2
  <2> QED BY <1>9, <2>3, <2>4 DEF SaveResult, WorkerStates
<1>10. CASE WriteLog(w)
  <2>1. log' \subseteq Rows \X BOOLEAN
    BY <1>10, <1>c DEF WriteLog
  <2>2. pc' \in [Workers -> WorkerStates]
    BY <1>10 DEF WriteLog, AfterLog, NextTry, WorkerStates
  <2> QED BY <1>10, <2>1, <2>2 DEF WriteLog
<1>11. CASE TriggerReload(w)
  BY <1>11 DEF TriggerReload, WorkerStates
<1> QED BY <1>2, <1>3, <1>4, <1>5, <1>6, <1>7, <1>8, <1>9, <1>10, <1>11 DEF WorkerStep

LEMMA TypeStep == TypeInv /\ [Next]_vars => TypeInv'
<1> SUFFICES ASSUME TypeInv, [Next]_vars PROVE TypeInv'
  OBVIOUS
<1>1. CASE Tick
  BY <1>1 DEF Tick, TypeInv, TypeOK
<1>2. ASSUME NEW q \in Requests, RequestStep(q) PROVE TypeInv'
  BY <1>2, RequestType
<1>3. ASSUME NEW b \in Batches, BatchList(b) \/ Sweep(b) PROVE TypeInv'
  BY <1>3, BatchType
<1>4. ASSUME NEW t \in Triggers, NEW r \in Rows, TriggerClaim(t, r) PROVE TypeInv'
  <2>1. Claimed(r) \in RowType
    BY RecordsAreRows DEF Claimed, Statuses, TypeInv, TypeOK
  <2>2. db' \in [Rows -> RowType]
    BY <1>4, <2>1, WriteType DEF TriggerClaim, TypeInv, TypeOK
  <2>3. hpc' \in [Handlers -> HandlerStates] /\ pc' \in [Workers -> WorkerStates]
    BY <1>4 DEF TriggerClaim, HandlerStates, WorkerStates, TypeInv, TypeOK
  <2>4. \A q \in Requests : hpc'[q] = hpc[q]
    BY <1>4, HandlersAssumption DEF TriggerClaim, TypeInv, TypeOK, Handlers
  <2> QED BY <1>4, <2>2, <2>3, <2>4 DEF TriggerClaim, TypeInv, TypeOK
<1>5. ASSUME NEW t \in Triggers, TriggerReturn(t) PROVE TypeInv'
  <2>1. hpc' \in [Handlers -> HandlerStates] /\ pc' \in [Workers -> WorkerStates]
    BY <1>5 DEF TriggerReturn, HandlerStates, WorkerStates, TypeInv, TypeOK
  <2>2. mem' \in [Workers -> RowType]
    BY <1>5, RecordsAreRows DEF TriggerReturn, TypeInv, TypeOK
  <2>3. \A q \in Requests : hpc'[q] = hpc[q]
    BY <1>5, HandlersAssumption DEF TriggerReturn, TypeInv, TypeOK
  <2> QED BY <1>5, <2>1, <2>2, <2>3 DEF TriggerReturn, TypeInv, TypeOK
<1>6. ASSUME NEW w \in Workers, WorkerStep(w) PROVE TypeInv'
  BY <1>6, WorkerType
<1>7. ASSUME NEW h \in Handlers, Cancel(h) PROVE TypeInv'
  BY <1>7 DEF Cancel, TypeInv, TypeOK
<1>8. CASE Crash
  <2>1. hpc' \in [Handlers -> HandlerStates] /\ \A q \in Requests : hpc'[q] # "create"
    BY <1>8, WorkerFacts DEF Crash, Busy, HandlerStates, TypeInv, TypeOK
  <2> QED BY <1>8, <2>1, RecordsAreRows DEF Crash, WorkerStates, TypeInv, TypeOK
<1>9. CASE UNCHANGED vars
  BY <1>9 DEF vars, TypeInv, TypeOK
<1> QED BY <1>1, <1>2, <1>3, <1>4, <1>5, <1>6, <1>7, <1>8, <1>9 DEF Next

LEMMA TypeInvariant == Spec => []TypeInv
  BY TypeInit, TypeStep, PTL DEF Spec

\* Every variable keeps its type: in particular a stored row has one of the
\* statuses of the code, whatever copy was written back over it.
THEOREM TypeCorrect == Spec => []TypeOK
<1>1. TypeInv => TypeOK
  BY DEF TypeInv
<1> QED BY <1>1, TypeInvariant, PTL

(***************************************************************************)
(* A row marked "success" has an order, whatever fails and however many    *)
(* batches overlap.  The argument is about the copies: every copy, stale   *)
(* or not, says only true things of its order, a copy that goes back to    *)
(* trying other slots is not marked "success", and orders only grow, so a  *)
(* copy that was true when it was read is true when it is written back.    *)
(***************************************************************************)
Retrying == {"claim", "reclaim", "resolve", "try", "logrefused", "abort", "abortlog"}

BackedInv ==
  /\ \A r \in Rows : Backed(r, db[r])
  /\ \A w \in Workers : Backed(w[2], mem[w])
  /\ \A w \in Workers : pc[w] = "won" => <<w[2], mem[w].slot>> \in orders
  /\ \A w \in Workers : pc[w] \in Retrying => mem[w].status # "success"

LEMMA FreshRowsBacked ==
  ASSUME NEW r, NEW st \in Statuses \ {"success"}, NEW s, NEW S, NEW t
  PROVE  Backed(r, NewRow(st, s, S, t)) /\ NewRow(st, s, S, t).status # "success"
  BY DEF Backed, NewRow, Statuses

\* What the code does to a row, or to a copy of it, keeps it true.
LEMMA EditsBacked ==
  ASSUME NEW r, NEW row \in RowType, Backed(r, row)
  PROVE  /\ \A st \in Statuses \ {"success"} : Backed(r, [row EXCEPT !.status = st])
         /\ Backed(r, Failed(row)) /\ Failed(row).status = "failed"
         /\ row.status # "success" =>
              \A s \in Slots : /\ Backed(r, WithSlot(row, s))
                               /\ WithSlot(row, s).status # "success"
         /\ <<r, row.slot>> \in orders =>
              \A o \in {row.slot, NoSlot} : Backed(r, Booked(row, o))
  BY DEF Backed, Failed, WithSlot, Booked, RowType, Statuses

\* Orders only grow.
LEMMA OrdersGrow == [Next]_vars => orders \subseteq orders'
<1> SUFFICES ASSUME [Next]_vars PROVE orders \subseteq orders'
  OBVIOUS
<1>1. ASSUME NEW q \in Requests, RequestStep(q) PROVE orders \subseteq orders'
  BY <1>1 DEF RequestStep, PostSubmit, PostPlan, CreateLive, SubmitDone, Fallback
<1>2. ASSUME NEW w \in Workers, WorkerStep(w) PROVE orders \subseteq orders'
  BY <1>2 DEF WorkerStep, ClaimScheduled, ClaimFailed, Resolve, Abort, AbortLog, TrySlot,
       Execute, Accepted, Refused, SaveResult, WriteLog, TriggerReload
<1> QED BY <1>1, <1>2 DEF Next, vars, Tick, BatchList, Sweep, TriggerClaim, TriggerReturn,
            Cancel, Crash

LEMMA WriteBacked ==
  ASSUME NEW h, NEW r \in Rows, NEW row,
         db \in [Rows -> RowType], orders \subseteq orders',
         \A x \in Rows : Backed(x, db[x]), Backed(r, row),
         Write(h, r, row) \/ FailedWrite(h, r, row) \/ IgnoredWrite(h, r, row)
  PROVE  \A x \in Rows : Backed(x, db[x])'
<1> SUFFICES ASSUME NEW x \in Rows PROVE Backed(x, db[x])'
  OBVIOUS
<1>1. db'[x] = db[x] \/ (x = r /\ db'[x] = row)
  BY DEF Write, FailedWrite, IgnoredWrite
<1> QED BY <1>1 DEF Backed

LEMMA BackedInit == Init => BackedInv
<1> SUFFICES ASSUME Init PROVE BackedInv
  OBVIOUS
<1>1. ASSUME NEW r \in Rows PROVE Backed(r, db[r])
  <2>1. db[r] = NoRow \/ \E s \in Slots \cup {NoSlot} : db[r] = NewRow("pending", s, {}, Null)
    BY DEF Init
  <2> QED BY <2>1, FreshRowsBacked DEF NoRow, Statuses
<1>2. \A w \in Workers : Backed(w[2], mem[w]) /\ pc[w] = "idle"
  BY FreshRowsBacked DEF Init, NoRow, Statuses
<1> QED BY <1>1, <1>2 DEF BackedInv, Retrying

LEMMA BackedRequest ==
  ASSUME TypeInv, BackedInv, orders \subseteq orders', NEW q \in Requests, RequestStep(q)
  PROVE  BackedInv'
<1>0. Live(q) \in Rows /\ Plan(q) \in Rows /\ LiveWorker(q) \in Workers /\ LiveWorker(q)[2] = Live(q)
  BY WorkerFacts
<1>b. /\ Backed(Live(q), LiveRow(q)) /\ LiveRow(q).status # "success"
      /\ \A S : Backed(Plan(q), PlanRow(S))
  BY FreshRowsBacked DEF LiveRow, PlanRow, Statuses
<1>c. \A r : Backed(r, NoRow)'
  BY DEF Backed, NoRow, NewRow
<1>1. CASE PostSubmit(q)
  BY <1>1 DEF PostSubmit, BackedInv, Backed
<1>2. CASE PostPlan(q)
  <2>1. \A r \in Rows : Backed(r, db[r])'
    <3>1. PICK S \in SUBSET Slots :
            Write(q, Plan(q), PlanRow(S)) \/ FailedWrite(q, Plan(q), PlanRow(S))
      BY <1>2 DEF PostPlan
    <3> QED BY <3>1, <1>0, <1>b, WriteBacked DEF BackedInv, TypeInv, TypeOK
  <2> QED BY <1>2, <2>1 DEF PostPlan, BackedInv, Backed
<1>3. CASE CreateLive(q)
  <2>1. \A r \in Rows : Backed(r, db[r])'
    BY <1>3, <1>0, <1>b, WriteBacked DEF CreateLive, BackedInv, TypeInv, TypeOK
  <2>2. \A w \in Workers :
          \/ mem'[w] = mem[w] /\ pc'[w] = pc[w]
          \/ w = LiveWorker(q) /\ mem'[w] = LiveRow(q) /\ pc'[w] = "try"
    BY <1>3 DEF CreateLive, TypeInv, TypeOK
  <2>3. \A w \in Workers : Backed(w[2], mem[w])'
    BY <2>2, <1>0, <1>b DEF BackedInv, Backed
  <2> QED BY <2>1, <2>2, <2>3, <1>b DEF BackedInv, Retrying
<1>4. CASE SubmitDone(q)
  <2>1. \A w \in Workers :
          \/ mem'[w] = mem[w] /\ pc'[w] = pc[w]
          \/ mem'[w] = NoRow /\ pc'[w] = "idle"
    BY <1>4 DEF SubmitDone, TypeInv, TypeOK
  <2>2. \A w \in Workers : Backed(w[2], mem[w])'
    BY <2>1, <1>c DEF BackedInv, Backed
  <2> QED BY <1>4, <2>1, <2>2 DEF SubmitDone, BackedInv, Backed, Retrying
<1>5. CASE Fallback(q)
  <2>1. \A r \in Rows : Backed(r, db[r])'
    <3>1. CASE UNCHANGED db
      BY <3>1 DEF BackedInv, Backed
    <3>2. CASE \/ Write(q, Plan(q), PlanRow(input[q].closed))
               \/ FailedWrite(q, Plan(q), PlanRow(input[q].closed))
      BY <3>2, <1>0, <1>b, WriteBacked DEF BackedInv, TypeInv, TypeOK
    <3> QED BY <1>5, <3>1, <3>2 DEF Fallback
  <2> QED BY <1>5, <2>1 DEF Fallback, BackedInv, Backed
<1> QED BY <1>1, <1>2, <1>3, <1>4, <1>5 DEF RequestStep

LEMMA BackedBatch ==
  ASSUME TypeInv, BackedInv, orders \subseteq orders', NEW b \in Batches,
         BatchList(b) \/ Sweep(b)
  PROVE  BackedInv'
<1>1. CASE BatchList(b)
  <2>1. \A w \in Workers :
          \/ mem'[w] = mem[w] /\ pc'[w] = pc[w]
          \/ w[2] \in Due /\ mem'[w] = db[w[2]] /\ pc'[w] = "claim"
    BY <1>1 DEF BatchList, TypeInv, TypeOK
  <2>2. \A w \in Workers : w[2] \in Due => Backed(w[2], db[w[2]]) /\ db[w[2]].status # "success"
    BY DEF BackedInv, Due
  <2>3. \A w \in Workers : Backed(w[2], mem[w])'
    BY <2>1, <2>2 DEF BackedInv, Backed
  <2> QED BY <1>1, <2>1, <2>2, <2>3 DEF BatchList, BackedInv, Backed, Retrying
<1>2. CASE Sweep(b)
  <2>1. \A r \in Rows : Backed(r, db[r])'
    <3> SUFFICES ASSUME NEW r \in Rows PROVE Backed(r, db[r])'
      OBVIOUS
    <3>1. db'[r] = db[r] \/ db'[r] = [db[r] EXCEPT !.status = "expired"]
      BY <1>2 DEF Sweep, Swept
    <3>2. Backed(r, db[r]) /\ Backed(r, [db[r] EXCEPT !.status = "expired"])
      BY EditsBacked DEF BackedInv, TypeInv, TypeOK, Statuses
    <3> QED BY <3>1, <3>2 DEF Backed
  <2>2. \A w \in Workers :
          \/ mem'[w] = mem[w] /\ pc'[w] = pc[w]
          \/ mem'[w] = NoRow /\ pc'[w] = "idle"
    BY <1>2 DEF Sweep, TypeInv, TypeOK
  <2>3. \A w \in Workers : Backed(w[2], mem[w])'
    <3>1. \A r : Backed(r, NoRow)'
      BY DEF Backed, NoRow, NewRow
    <3> QED BY <2>2, <3>1 DEF BackedInv, Backed
  <2> QED BY <1>2, <2>1, <2>2, <2>3 DEF Sweep, BackedInv, Retrying
<1> QED BY <1>1, <1>2

\* A step of worker w that leaves its copy alone, or edits it, truthfully.
LEMMA CopyBacked ==
  ASSUME TypeOK, BackedInv, orders \subseteq orders', NEW w \in Workers,
         NEW row, mem' = [mem EXCEPT ![w] = row], Backed(w[2], row)
  PROVE  \A v \in Workers : Backed(v[2], mem[v])'
<1>1. \A v \in Workers : mem'[v] = mem[v] \/ (v = w /\ mem'[v] = row)
  BY DEF TypeOK
<1> QED BY <1>1 DEF BackedInv, Backed

LEMMA BackedWorker ==
  ASSUME TypeInv, BackedInv, orders \subseteq orders', NEW w \in Workers, WorkerStep(w)
  PROVE  BackedInv'
<1>0. w[2] \in Rows /\ TypeOK /\ mem[w] \in RowType
  BY WorkerFacts DEF TypeInv, TypeOK
<1>a. ASSUME NEW p, pc' = [pc EXCEPT ![w] = p]
      PROVE  \A v \in Workers : (v # w /\ pc'[v] = pc[v]) \/ (v = w /\ pc'[v] = p)
  BY <1>0, <1>a DEF TypeOK
<1>b. ASSUME UNCHANGED db PROVE \A r \in Rows : Backed(r, db[r])'
  BY <1>b DEF BackedInv, Backed
<1>c. ASSUME UNCHANGED mem PROVE \A v \in Workers : Backed(v[2], mem[v])'
  BY <1>c DEF BackedInv, Backed
<1>d. ASSUME NEW row, Backed(w[2], row),
             \/ Write(w[1], w[2], row) \/ FailedWrite(w[1], w[2], row)
             \/ IgnoredWrite(w[1], w[2], row)
      PROVE  \A r \in Rows : Backed(r, db[r])'
  BY <1>d, <1>0, WriteBacked DEF BackedInv, TypeOK
<1>1. ASSUME NEW from, NEW next \in {"reclaim", "done"},
             Transition(w, from, next), UNCHANGED <<mem, orders>>, pc[w] \in {"claim", "reclaim"}
      PROVE  BackedInv'
  <2>1. Backed(w[2], Claimed(w[2]))
    BY <1>0, EditsBacked DEF Claimed, Statuses, TypeOK, BackedInv
  <2>2. \A r \in Rows : Backed(r, db[r])'
    BY <1>1, <1>b, <1>d, <2>1 DEF Transition
  <2>3. \A v \in Workers : (v # w /\ pc'[v] = pc[v]) \/ (v = w /\ pc'[v] \in {"resolve", "reclaim", "done"})
    BY <1>0, <1>1 DEF Transition, TypeOK
  <2> QED BY <1>1, <1>c, <2>2, <2>3 DEF BackedInv, Retrying
<1>2. CASE ClaimScheduled(w)
  BY <1>1, <1>2 DEF ClaimScheduled
<1>3. CASE ClaimFailed(w)
  BY <1>1, <1>3 DEF ClaimFailed
<1>4. CASE Resolve(w)
  <2>1. \A v \in Workers : (v # w /\ pc'[v] = pc[v]) \/ (v = w /\ pc'[v] \in {"abort", "try"})
    BY <1>0, <1>4 DEF Resolve, AfterResolve, TypeOK
  <2> QED BY <1>4, <1>b, <1>c, <2>1 DEF Resolve, BackedInv, Retrying
<1>5. CASE Abort(w)
  <2>1. Backed(w[2], Failed(mem[w])) /\ Failed(mem[w]).status = "failed"
    BY <1>0, EditsBacked DEF BackedInv
  <2>2. /\ \A r \in Rows : Backed(r, db[r])'
        /\ \A v \in Workers : Backed(v[2], mem[v])'
    BY <1>0, <1>5, <1>d, <2>1, CopyBacked DEF Abort
  <2>3. \A v \in Workers :
          \/ v # w /\ pc'[v] = pc[v] /\ mem'[v] = mem[v]
          \/ v = w /\ pc'[v] = "abortlog" /\ mem'[v].status = "failed"
    BY <1>0, <1>5, <2>1 DEF Abort, TypeOK
  <2> QED BY <1>5, <2>2, <2>3 DEF Abort, BackedInv, Retrying
<1>6. CASE AbortLog(w)
  <2>1. \A v \in Workers : (v # w /\ pc'[v] = pc[v]) \/ (v = w /\ pc'[v] = "done")
    BY <1>a, <1>6 DEF AbortLog
  <2> QED BY <1>6, <1>b, <1>c, <2>1 DEF AbortLog, BackedInv, Retrying
<1>7. CASE TrySlot(w)
  <2> DEFINE row == WithSlot(mem[w], Head(todo[w]))
  <2>1. Head(todo[w]) \in Slots
    BY <1>7, <1>0 DEF TrySlot, TypeOK
  <2>2. Backed(w[2], row) /\ row.status # "success"
    <3>1. mem[w].status # "success" /\ Backed(w[2], mem[w])
      BY <1>7 DEF TrySlot, BackedInv, Retrying
    <3> QED BY <1>0, <2>1, <3>1, EditsBacked
  <2>3. /\ mem' = [mem EXCEPT ![w] = row]
        /\ Write(w[1], w[2], row) \/ FailedWrite(w[1], w[2], row)
    BY <1>7 DEF TrySlot
  <2>4. /\ \A r \in Rows : Backed(r, db[r])'
        /\ \A v \in Workers : Backed(v[2], mem[v])'
    <3> HIDE DEF row
    <3> QED BY <1>0, <1>d, <2>2, <2>3, CopyBacked
  <2>5. \A v \in Workers :
          \/ v # w /\ pc'[v] = pc[v] /\ mem'[v] = mem[v]
          \/ v = w /\ pc'[v] \in {"exec", "try", "abort", "done"} /\ mem'[v].status # "success"
    BY <1>0, <1>7, <2>2 DEF TrySlot, NextTry, TypeOK
  <2> QED BY <1>7, <2>4, <2>5 DEF TrySlot, BackedInv, Retrying
<1>8. CASE Execute(w)
  <2>1. \A v \in Workers :
          \/ v # w /\ pc'[v] = pc[v]
          \/ v = w /\ pc'[v] = "refused"
          \/ v = w /\ pc'[v] = "won" /\ <<w[2], mem[w].slot>> \in orders'
    BY <1>0, <1>8 DEF Execute, Accepted, Refused, TypeOK
  <2>2. UNCHANGED <<db, mem>>
    BY <1>8 DEF Execute
  <2> QED BY <1>b, <1>c, <2>1, <2>2 DEF BackedInv, Retrying
<1>9. CASE SaveResult(w)
  <2>1. PICK row \in Results(w) :
          mem' = [mem EXCEPT ![w] = row] /\ IgnoredWrite(w[1], w[2], row)
    BY <1>9 DEF SaveResult
  <2>2. Backed(w[2], row) /\ (pc[w] = "refused" => row.status = "failed")
    <3>1. Backed(w[2], mem[w]) /\ (pc[w] = "won" => <<w[2], mem[w].slot>> \in orders)
      BY DEF BackedInv
    <3> QED BY <1>0, <1>9, <2>1, <3>1, EditsBacked DEF SaveResult, Results
  <2>3. /\ \A r \in Rows : Backed(r, db[r])'
        /\ \A v \in Workers : Backed(v[2], mem[v])'
    BY <1>0, <1>d, <2>1, <2>2, CopyBacked
  <2>4. \A v \in Workers :
          \/ v # w /\ pc'[v] = pc[v] /\ mem'[v] = mem[v]
          \/ v = w /\ pc'[v] = "logwon"
          \/ v = w /\ pc'[v] = "logrefused" /\ mem'[v].status = "failed"
    BY <1>0, <1>9, <2>1, <2>2 DEF SaveResult, TypeOK
  <2> QED BY <1>9, <2>3, <2>4 DEF SaveResult, BackedInv, Retrying
<1>10. CASE WriteLog(w)
  <2>1. \A v \in Workers :
          \/ v # w /\ pc'[v] = pc[v]
          \/ v = w /\ pc'[v] = "done"
          \/ v = w /\ pc'[v] \in {"try", "abort", "done"} /\ pc[w] = "logrefused"
    BY <1>0, <1>10 DEF WriteLog, AfterLog, NextTry, TypeOK
  <2> QED BY <1>10, <1>b, <1>c, <2>1 DEF WriteLog, BackedInv, Retrying
<1>11. CASE TriggerReload(w)
  <2>1. \A v \in Workers : Backed(v[2], mem[v])'
    <3>1. Backed(w[2], db[w[2]])
      BY <1>0 DEF BackedInv
    <3> QED BY <1>0, <1>11, <1>c, <3>1, CopyBacked DEF TriggerReload
  <2>2. \A v \in Workers :
          \/ v # w /\ pc'[v] = pc[v] /\ mem'[v] = mem[v]
          \/ v = w /\ pc'[v] \in {"exec", "done"}
    BY <1>0, <1>11 DEF TriggerReload, TypeOK
  <2> QED BY <1>11, <1>b, <2>1, <2>2 DEF TriggerReload, BackedInv, Retrying
<1> QED BY <1>2, <1>3, <1>4, <1>5, <1>6, <1>7, <1>8, <1>9, <1>10, <1>11 DEF WorkerStep

LEMMA BackedStep == TypeInv /\ BackedInv /\ [Next]_vars => BackedInv'
<1> SUFFICES ASSUME TypeInv, BackedInv, [Next]_vars PROVE BackedInv'
  OBVIOUS
<1>0. orders \subseteq orders'
  BY OrdersGrow
<1>a. \A r : Backed(r, NoRow)'
  BY DEF Backed, NoRow, NewRow
<1>1. ASSUME UNCHANGED <<db, pc, mem>> PROVE BackedInv'
  BY <1>0, <1>1 DEF BackedInv, Backed
<1>2. ASSUME UNCHANGED db,
             \A w \in Workers : \/ mem'[w] = mem[w] /\ pc'[w] = pc[w]
                                \/ mem'[w] = NoRow /\ pc'[w] = "idle"
      PROVE  BackedInv'
  <2>1. \A w \in Workers : Backed(w[2], mem[w])'
    BY <1>0, <1>2, <1>a DEF BackedInv, Backed
  <2> QED BY <1>0, <1>2, <2>1 DEF BackedInv, Backed, Retrying
<1>3. ASSUME NEW q \in Requests, RequestStep(q) PROVE BackedInv'
  BY <1>0, <1>3, BackedRequest
<1>4. ASSUME NEW b \in Batches, BatchList(b) \/ Sweep(b) PROVE BackedInv'
  BY <1>0, <1>4, BackedBatch
<1>5. ASSUME NEW t \in Triggers, NEW r \in Rows, TriggerClaim(t, r) PROVE BackedInv'
  <2>1. Backed(r, Claimed(r))
    BY EditsBacked DEF Claimed, Statuses, TypeInv, TypeOK, BackedInv
  <2>2. \A x \in Rows : Backed(x, db[x])'
    BY <1>0, <1>5, <2>1, WriteBacked DEF TriggerClaim, BackedInv, TypeInv, TypeOK
  <2>3. \A w \in Workers : pc'[w] = pc[w] \/ pc'[w] = "reload"
    BY <1>5 DEF TriggerClaim, TypeInv, TypeOK
  <2> QED BY <1>0, <1>5, <2>2, <2>3 DEF TriggerClaim, BackedInv, Backed, Retrying
<1>6. ASSUME NEW t \in Triggers, TriggerReturn(t) PROVE BackedInv'
  BY <1>2, <1>6 DEF TriggerReturn, TypeInv, TypeOK
<1>7. ASSUME NEW w \in Workers, WorkerStep(w) PROVE BackedInv'
  BY <1>0, <1>7, BackedWorker
<1>8. CASE Crash
  BY <1>2, <1>8 DEF Crash, TypeInv, TypeOK
<1>9. CASE Tick \/ (\E h \in Handlers : Cancel(h)) \/ UNCHANGED vars
  BY <1>1, <1>9 DEF Tick, Cancel, vars
<1> QED BY <1>3, <1>4, <1>5, <1>6, <1>7, <1>8, <1>9 DEF Next

\* A row marked "success" has an order for the slot in its columns: proved for
\* any number of overlapping batches, triggers and requests, and all faults.
THEOREM SuccessIsBacked == Spec => []SuccessBacked
<1>1. BackedInv => SuccessBacked
  BY DEF BackedInv, SuccessBacked
<1> QED BY <1>1, TypeInvariant, BackedInit, BackedStep, PTL DEF Spec

(***************************************************************************)
(* Mutual exclusion and finality under a scheduler that waits for the      *)
(* answer of one batch before it asks for the next, whatever else fails.   *)
(*                                                                         *)
(* The rows fall into three lanes: a live row belongs to the request that  *)
(* stored it, a plan to the batches (only plans have a reserve_open_at),   *)
(* a legacy row to the trigger that took it out of "pending", a status no  *)
(* code writes.  Batches exclude each other by SingleScheduler, triggers   *)
(* by the atomic transition.                                               *)
(***************************************************************************)
SingleScheduler == \A a, b \in Batches : a = b

Plans == {Plan(q) : q \in Requests}

LaneInv ==
  /\ \A r \in Rows : /\ db[r].openAt # Null => r \in Plans
                     /\ db[r].status = "pending" => r \in Legacy
  /\ \A w \in Workers : /\ mem[w].openAt # Null => w[2] \in Plans
                        /\ mem[w].status # "pending"
  /\ \A w \in Workers :
       pc[w] # "idle" =>
         /\ w[1] \in Batches => w[2] \in Plans
         /\ w[1] \in Triggers => w[2] \in Legacy /\ pc[w] \notin {"claim", "reclaim"}
  /\ \A w \in Workers : w[1] \in Triggers /\ pc[w] \in Executing => db[w[2]].status # "pending"
  /\ \A v, w \in Workers :
       /\ v[1] \in Triggers /\ w[1] \in Triggers /\ v[2] = w[2]
       /\ pc[v] \in Executing /\ pc[w] \in Executing
       => v = w

\* While a request is in its first stages, its rows are nobody else's.
RequestInv ==
  \A q \in Requests :
    /\ pc[LiveWorker(q)] # "idle" => hpc[q] = "trying"
    /\ hpc[q] \in {"idle", "create"} => db[Live(q)].status = "none"
    /\ hpc[q] \in {"idle", "create", "trying", "fallback"} =>
         /\ db[Plan(q)].status = "none"
         /\ \A w \in Workers : w[2] = Plan(q) => pc[w] = "idle"

\* A worker that will still write its row back works on one not yet a success.
WriterInv == \A w \in Workers : pc[w] \in Writing => db[w[2]].status # "success"

\* Live rows, plans and legacy rows are different rows.
LEMMA LanesDisjoint ==
  /\ Plans \subseteq Rows
  /\ \A q \in Requests : Live(q) \notin Plans /\ Live(q) \notin Legacy
  /\ Plans \cap Legacy = {}
  /\ \A p, q \in Requests : /\ Live(p) # Plan(q)
                            /\ Live(p) = Live(q) => p = q
                            /\ Plan(p) = Plan(q) => p = q
  BY LegacyAssumption DEF Plans, Plan, Live, Rows

LEMMA LanesExclude ==
  ASSUME SingleScheduler, LaneInv PROVE OneWorkerPerRow
<1> SUFFICES ASSUME NEW v \in Workers, NEW w \in Workers,
                    v[2] = w[2], pc[v] \in Executing, pc[w] \in Executing
             PROVE  v = w
  BY DEF OneWorkerPerRow
<1>1. /\ v = <<v[1], v[2]>> /\ w = <<w[1], w[2]>>
      /\ v[1] \in Requests => v = LiveWorker(v[1]) /\ v[2] = Live(v[1])
      /\ w[1] \in Requests => w = LiveWorker(w[1]) /\ w[2] = Live(w[1])
      /\ v[1] \in Handlers /\ w[1] \in Handlers
  BY WorkerFacts
<1>2. pc[v] # "idle" /\ pc[w] # "idle"
  BY DEF Executing
<1>3. CASE v[1] \in Requests
  BY <1>1, <1>2, <1>3, LanesDisjoint DEF LaneInv, Handlers
<1>4. CASE v[1] \in Batches
  BY <1>1, <1>2, <1>4, LanesDisjoint DEF LaneInv, Handlers, SingleScheduler
<1>5. CASE v[1] \in Triggers
  BY <1>1, <1>2, <1>5, LanesDisjoint DEF LaneInv, Handlers
<1> QED BY <1>1, <1>3, <1>4, <1>5 DEF Handlers

(***************************************************************************)
(* All a step of worker w can do to its row, its copy and its counter.     *)
(***************************************************************************)
EffectFrame(w) ==
  /\ hpc' = hpc
  /\ \A v \in Workers \ {w} : pc'[v] = pc[v] /\ mem'[v] = mem[v]
  /\ \A r \in Rows \ {w[2]} : db'[r] = db[r]
EffectRow(w) ==
  \/ db'[w[2]] = db[w[2]]
  \/ /\ pc[w] \in Writing /\ db'[w[2]] = mem'[w]
     /\ mem'[w].openAt = mem[w].openAt
     /\ mem'[w].status \in {mem[w].status, "failed", "success"}
     /\ mem'[w].status = "success" => pc'[w] = "logwon"
  \/ db[w[2]].status \in {"scheduled", "failed"} /\ db'[w[2]] = Claimed(w[2])
EffectCopy(w) ==
  \/ mem'[w] = db[w[2]] /\ pc[w] = "reload" /\ db' = db
  \/ /\ mem'[w].openAt = mem[w].openAt
     /\ mem'[w].status \in {mem[w].status, "failed", "success"}
EffectCounter(w) ==
  /\ pc[w] # "idle" /\ pc'[w] # "idle"
  /\ pc'[w] \in {"claim", "reclaim"} => pc[w] = "claim"
  /\ pc'[w] \in Executing =>
       \/ pc[w] \in Executing
       \/ pc'[w] = "resolve" /\ pc[w] \in {"claim", "reclaim"} /\ db'[w[2]] = Claimed(w[2])
  /\ pc'[w] \in Writing =>
       \/ pc[w] \in Writing
       \/ pc'[w] = "resolve" /\ db'[w[2]] = Claimed(w[2])
Effect(w) == EffectFrame(w) /\ EffectRow(w) /\ EffectCopy(w) /\ EffectCounter(w)

LEMMA WorkerEffect ==
  ASSUME TypeInv, BackedInv, NEW w \in Workers, WorkerStep(w)
  PROVE  Effect(w)
<1>0. w[2] \in Rows /\ TypeOK /\ mem[w] \in RowType
  BY WorkerFacts DEF TypeInv, TypeOK
<1> USE <1>0 DEF TypeOK
<1>1. ASSUME NEW from \in {"scheduled", "failed"}, NEW next \in {"reclaim", "done"},
             Transition(w, from, next), UNCHANGED <<hpc, mem>>, pc[w] \in {"claim", "reclaim"},
             next = "reclaim" => pc[w] = "claim"
      PROVE  Effect(w)
  <2>1. /\ \A r \in Rows \ {w[2]} : db'[r] = db[r]
        /\ \/ db'[w[2]] = db[w[2]] /\ pc' = [pc EXCEPT ![w] = next]
           \/ /\ db[w[2]].status \in {"scheduled", "failed"} /\ db'[w[2]] = Claimed(w[2])
              /\ pc' = [pc EXCEPT ![w] = next] \/ pc' = [pc EXCEPT ![w] = "resolve"]
    BY <1>1 DEF Transition, Write, FailedWrite
  <2>2. EffectFrame(w)
    BY <1>1, <2>1 DEF EffectFrame
  <2>3. EffectRow(w) /\ EffectCopy(w)
    BY <1>1, <2>1 DEF EffectRow, EffectCopy
  <2>4. EffectCounter(w)
    <3>1. CASE pc' = [pc EXCEPT ![w] = next]
      BY <1>1, <3>1 DEF EffectCounter, Executing, Writing
    <3>2. CASE db'[w[2]] = Claimed(w[2]) /\ pc' = [pc EXCEPT ![w] = "resolve"]
      BY <1>1, <3>2 DEF EffectCounter, Executing, Writing
    <3> QED BY <2>1, <3>1, <3>2
  <2> QED BY <2>2, <2>3, <2>4 DEF Effect
<1>2. ASSUME NEW row, \/ Write(w[1], w[2], row) \/ FailedWrite(w[1], w[2], row)
                      \/ IgnoredWrite(w[1], w[2], row)
      PROVE  /\ \A r \in Rows \ {w[2]} : db'[r] = db[r]
             /\ db'[w[2]] \in {db[w[2]], row}
  BY <1>2 DEF Write, FailedWrite, IgnoredWrite
<1>3. CASE ClaimScheduled(w)
  BY <1>1, <1>3 DEF ClaimScheduled
<1>4. CASE ClaimFailed(w)
  BY <1>1, <1>4 DEF ClaimFailed
<1>a. ASSUME NEW p \in WorkerStates, pc' = [pc EXCEPT ![w] = p]
      PROVE  pc'[w] = p /\ \A v \in Workers \ {w} : pc'[v] = pc[v]
  BY <1>a
<1>b. ASSUME NEW row, mem' = [mem EXCEPT ![w] = row]
      PROVE  mem'[w] = row /\ \A v \in Workers \ {w} : mem'[v] = mem[v]
  BY <1>b
\* a step that leaves the table and the copy alone
<1>q. ASSUME NEW p \in (Executing \ {"resolve"}) \cup {"done"}, pc' = [pc EXCEPT ![w] = p],
             UNCHANGED <<hpc, db, mem>>, pc[w] \in Executing,
             p \in Writing => pc[w] \in Writing
      PROVE  Effect(w)
  <2>1. pc'[w] = p /\ \A v \in Workers \ {w} : pc'[v] = pc[v]
    BY <1>q, <1>a DEF WorkerStates
  <2>2. EffectFrame(w)
    BY <1>q, <2>1 DEF EffectFrame
  <2>3. EffectRow(w) /\ EffectCopy(w)
    BY <1>q DEF EffectRow, EffectCopy
  <2>4. EffectCounter(w)
    <3>1. p \notin {"idle", "claim", "reclaim"} /\ pc[w] # "idle" /\ pc[w] \in Executing
      BY <1>q DEF Executing, Writing
    <3> QED BY <1>q, <2>1, <3>1 DEF EffectCounter
  <2> QED BY <2>2, <2>3, <2>4 DEF Effect
\* a step that writes its copy back, or fails to
<1>w. ASSUME NEW p \in (Executing \ {"resolve"}) \cup {"done"}, pc' = [pc EXCEPT ![w] = p],
             NEW row, mem' = [mem EXCEPT ![w] = row],
             \/ Write(w[1], w[2], row) \/ FailedWrite(w[1], w[2], row)
             \/ IgnoredWrite(w[1], w[2], row),
             UNCHANGED hpc, pc[w] \in Writing,
             row.openAt = mem[w].openAt,
             row.status \in {mem[w].status, "failed", "success"},
             row.status = "success" => p = "logwon"
      PROVE  Effect(w)
  <2>1. pc'[w] = p /\ \A v \in Workers \ {w} : pc'[v] = pc[v]
    BY <1>w, <1>a DEF WorkerStates
  <2>2. mem'[w] = row /\ \A v \in Workers \ {w} : mem'[v] = mem[v]
    BY <1>w, <1>b
  <2>3. (\A r \in Rows \ {w[2]} : db'[r] = db[r]) /\ db'[w[2]] \in {db[w[2]], row}
    BY <1>w, <1>2
  <2>4. EffectFrame(w)
    BY <1>w, <2>1, <2>2, <2>3 DEF EffectFrame
  <2>5. EffectRow(w) /\ EffectCopy(w)
    BY <1>w, <2>1, <2>2, <2>3 DEF EffectRow, EffectCopy
  <2>6. EffectCounter(w)
    <3>1. p \notin {"idle", "claim", "reclaim"} /\ pc[w] # "idle" /\ pc[w] \in Executing
      BY <1>w DEF Executing, Writing
    <3> QED BY <1>w, <2>1, <3>1 DEF EffectCounter
  <2> QED BY <2>4, <2>5, <2>6 DEF Effect
<1>5. CASE Resolve(w)
  <2>1. PICK p \in {"abort", "try"} : pc' = [pc EXCEPT ![w] = p]
    BY <1>5 DEF Resolve, AfterResolve
  <2> QED BY <1>5, <1>q, <2>1 DEF Resolve, Executing, Writing
<1>6. CASE Abort(w)
  <2>1. Failed(mem[w]).status = "failed" /\ Failed(mem[w]).openAt = mem[w].openAt
    BY DEF Failed, RowType
  <2> QED BY <1>6, <1>w, <2>1 DEF Abort, Executing, Writing
<1>7. CASE AbortLog(w)
  BY <1>7, <1>q DEF AbortLog, Executing, Writing
<1>8. CASE TrySlot(w)
  <2> DEFINE row == WithSlot(mem[w], Head(todo[w]))
  <2>1. row.status = mem[w].status /\ row.openAt = mem[w].openAt
    BY DEF WithSlot, RowType
  <2>2. mem[w].status # "success" /\ pc[w] = "try" /\ UNCHANGED hpc
    BY <1>8 DEF TrySlot, BackedInv, Retrying
  <2>3. /\ mem' = [mem EXCEPT ![w] = row]
        /\ Write(w[1], w[2], row) \/ FailedWrite(w[1], w[2], row)
    BY <1>8 DEF TrySlot
  <2>4. PICK p \in {"exec", "try", "abort", "done"} : pc' = [pc EXCEPT ![w] = p]
    BY <1>8 DEF TrySlot, NextTry
  <2> HIDE DEF row
  <2> QED BY <1>w, <2>1, <2>2, <2>3, <2>4 DEF Executing, Writing
<1>9. CASE Execute(w)
  <2>1. PICK p \in {"won", "refused"} : pc' = [pc EXCEPT ![w] = p]
    BY <1>9 DEF Execute, Accepted, Refused
  <2> QED BY <1>9, <1>q, <2>1 DEF Execute, Executing, Writing
<1>10. CASE SaveResult(w)
  <2> DEFINE p == IF pc[w] = "won" THEN "logwon" ELSE "logrefused"
  <2>1. PICK row \in Results(w) :
          mem' = [mem EXCEPT ![w] = row] /\ IgnoredWrite(w[1], w[2], row)
    BY <1>10 DEF SaveResult
  <2>2. /\ row.openAt = mem[w].openAt
        /\ row.status = IF pc[w] = "won" THEN "success" ELSE "failed"
    BY DEF Results, Booked, Failed, RowType
  <2>3. pc' = [pc EXCEPT ![w] = p] /\ UNCHANGED hpc /\ pc[w] \in {"won", "refused"}
    BY <1>10 DEF SaveResult
  <2>4. /\ p \in (Executing \ {"resolve"}) \cup {"done"}
        /\ row.status \in {mem[w].status, "failed", "success"}
        /\ row.status = "success" => p = "logwon"
    BY <2>2 DEF Executing
  <2> HIDE DEF p
  <2> QED BY <1>w, <2>1, <2>2, <2>3, <2>4 DEF Executing, Writing
<1>11. CASE WriteLog(w)
  <2>1. UNCHANGED <<hpc, db, mem>> /\ pc[w] \in {"logwon", "logrefused"}
    BY <1>11 DEF WriteLog
  <2>2. CASE pc' = [pc EXCEPT ![w] = "done"]
    BY <1>q, <2>1, <2>2 DEF Executing, Writing
  <2>3. CASE pc[w] = "logrefused" /\ \E p \in {"try", "abort"} : pc' = [pc EXCEPT ![w] = p]
    BY <1>q, <2>1, <2>3 DEF Executing, Writing
  <2> QED BY <1>11, <2>2, <2>3 DEF WriteLog, AfterLog, NextTry
<1>12. CASE TriggerReload(w)
  <2>1. CASE UNCHANGED mem
    BY <1>12, <1>q, <2>1 DEF TriggerReload, Executing, Writing
  <2>2. CASE mem' = [mem EXCEPT ![w] = db[w[2]]] /\ pc' = [pc EXCEPT ![w] = "exec"]
    <3>1. pc'[w] = "exec" /\ \A v \in Workers \ {w} : pc'[v] = pc[v]
      BY <2>2, <1>a DEF WorkerStates
    <3>2. mem'[w] = db[w[2]] /\ \A v \in Workers \ {w} : mem'[v] = mem[v]
      BY <2>2, <1>b
    <3>3. UNCHANGED <<hpc, db>> /\ pc[w] = "reload"
      BY <1>12 DEF TriggerReload
    <3>4. EffectFrame(w) /\ EffectRow(w) /\ EffectCopy(w)
      BY <3>1, <3>2, <3>3 DEF EffectFrame, EffectRow, EffectCopy
    <3>5. EffectCounter(w)
      <4>1. pc[w] \in Executing /\ pc[w] \in Writing
        BY <3>3 DEF Executing, Writing
      <4> QED BY <3>1, <3>3, <4>1 DEF EffectCounter
    <3> QED BY <3>4, <3>5 DEF Effect
  <2> QED BY <1>12, <2>1, <2>2 DEF TriggerReload
<1> QED BY <1>3, <1>4, <1>5, <1>6, <1>7, <1>8, <1>9, <1>10, <1>11, <1>12 DEF WorkerStep

(***************************************************************************)
(* The lanes.                                                              *)
(***************************************************************************)
LEMMA LaneInit == Init => LaneInv /\ RequestInv /\ WriterInv
<1> SUFFICES ASSUME Init PROVE LaneInv /\ RequestInv /\ WriterInv
  OBVIOUS
<1>1. ASSUME NEW r \in Rows
      PROVE  /\ db[r].openAt = Null
             /\ db[r].status \in {"none", "pending"}
             /\ r \notin Legacy => db[r].status = "none"
  <2>1. db[r] = NoRow \/ \E s \in Slots \cup {NoSlot} : db[r] = NewRow("pending", s, {}, Null)
    BY DEF Init
  <2>2. r \notin Legacy => db[r] = NoRow
    BY DEF Init
  <2>3. /\ NoRow.openAt = Null /\ NoRow.status = "none"
        /\ \A s : LET row == NewRow("pending", s, {}, Null)
                 IN  row.openAt = Null /\ row.status = "pending"
    BY DEF NoRow, NewRow
  <2> QED BY <2>1, <2>2, <2>3
<1>2. \A w \in Workers : pc[w] = "idle" /\ mem[w].openAt = Null /\ mem[w].status = "none"
  BY DEF Init, NoRow, NewRow
<1>3. LaneInv
  BY <1>1, <1>2 DEF LaneInv, Executing
<1>4. RequestInv
  <2>1. \A q \in Requests : /\ LiveWorker(q) \in Workers
                           /\ Live(q) \in Rows /\ Live(q) \notin Legacy
                           /\ Plan(q) \in Rows /\ Plan(q) \notin Legacy
    BY WorkerFacts, LanesDisjoint DEF Plans
  <2> QED BY <1>1, <1>2, <2>1 DEF RequestInv
<1> QED BY <1>2, <1>3, <1>4 DEF WriterInv, Writing, Executing

LEMMA LaneWorker ==
  ASSUME TypeInv, LaneInv, NEW w \in Workers, Effect(w)
  PROVE  LaneInv'
<1>0. w[2] \in Rows /\ Claimed(w[2]).openAt = db[w[2]].openAt /\ Claimed(w[2]).status = "submitting"
  BY WorkerFacts DEF Claimed, TypeInv, TypeOK, RowType
<1>1. \A v \in Workers : v[2] \in Rows /\ v[1] \in Handlers
  BY WorkerFacts
<1>2. pc[w] \in Executing => db[w[2]].status # "pending"
  <2>1. pc[w] \in Executing => pc[w] # "idle"
    BY DEF Executing
  <2>2. w[1] \in Requests => w[2] \notin Legacy
    BY WorkerFacts, LanesDisjoint
  <2> QED BY <1>0, <1>1, <2>1, <2>2, LanesDisjoint DEF LaneInv, Handlers
<1>3. /\ mem'[w].openAt # Null => w[2] \in Plans
      /\ mem'[w].status # "pending"
  <2>1. pc[w] = "reload" => pc[w] \in Executing
    BY DEF Executing
  <2> QED BY <1>0, <1>2, <2>1 DEF LaneInv, Effect, EffectCopy
<1>4. \A v \in Workers : /\ mem'[v].openAt # Null => v[2] \in Plans
                         /\ mem'[v].status # "pending"
  BY <1>3 DEF LaneInv, Effect, EffectFrame
<1>5. ASSUME NEW r \in Rows
      PROVE  /\ db'[r].openAt # Null => r \in Plans
             /\ db'[r].status = "pending" => db[r].status = "pending"
  <2>1. CASE r # w[2]
    BY <2>1 DEF LaneInv, Effect, EffectFrame
  <2>2. CASE r = w[2]
    BY <1>0, <1>3, <2>2 DEF LaneInv, Effect, EffectRow
  <2> QED BY <2>1, <2>2
<1>6. ASSUME NEW v \in Workers
      PROVE  /\ pc'[v] # "idle" => pc[v] # "idle"
             /\ pc'[v] \in {"claim", "reclaim"} => pc[v] \in {"claim", "reclaim"}
             /\ v[1] \in Triggers /\ pc'[v] \in Executing => pc[v] \in Executing
  <2>1. CASE v # w
    BY <2>1 DEF Effect, EffectFrame
  <2>2. CASE v = w
    BY <2>2 DEF LaneInv, Effect, EffectCounter
  <2> QED BY <2>1, <2>2
<1>7. \A r \in Rows : /\ db'[r].openAt # Null => r \in Plans
                      /\ db'[r].status = "pending" => r \in Legacy
  BY <1>5 DEF LaneInv
<1>8. \A v \in Workers :
        pc'[v] # "idle" =>
          /\ v[1] \in Batches => v[2] \in Plans
          /\ v[1] \in Triggers => v[2] \in Legacy /\ pc'[v] \notin {"claim", "reclaim"}
  BY <1>6 DEF LaneInv
<1>9. \A v \in Workers :
        v[1] \in Triggers /\ pc'[v] \in Executing => db'[v[2]].status # "pending"
  BY <1>1, <1>5, <1>6 DEF LaneInv
<1>10. \A u, v \in Workers :
         /\ u[1] \in Triggers /\ v[1] \in Triggers /\ u[2] = v[2]
         /\ pc'[u] \in Executing /\ pc'[v] \in Executing
         => u = v
  BY <1>6 DEF LaneInv
<1> QED BY <1>4, <1>7, <1>8, <1>9, <1>10 DEF LaneInv

LEMMA LaneStep ==
  ASSUME TypeInv, BackedInv, LaneInv, [Next]_vars
  PROVE  LaneInv'
<1>0. TypeOK
  BY DEF TypeInv
\* nothing but the table changes, or workers stop
<1>a. ASSUME UNCHANGED <<db, pc, mem>> PROVE LaneInv'
  BY <1>a DEF LaneInv
<1>b. ASSUME UNCHANGED db,
             \A w \in Workers : \/ mem'[w] = mem[w] /\ pc'[w] = pc[w]
                                \/ mem'[w] = NoRow /\ pc'[w] = "idle"
      PROVE  LaneInv'
  <2>1. NoRow.openAt = Null /\ NoRow.status = "none"
    BY DEF NoRow, NewRow
  <2>2. "idle" \notin Executing
    BY DEF Executing
  <2> QED BY <1>b, <2>1, <2>2 DEF LaneInv
\* a request's row is stored, or swept rows expire
<1>c. ASSUME \A r \in Rows : \/ db'[r] = db[r]
                             \/ /\ db'[r].openAt = db[r].openAt \/ db'[r].openAt = Null \/ r \in Plans
                                /\ db'[r].status # "pending"
      PROVE  \A r \in Rows : /\ db'[r].openAt # Null => r \in Plans
                             /\ db'[r].status = "pending" => db[r].status = "pending" /\ r \in Legacy
  BY <1>c DEF LaneInv
<1>d. ASSUME NEW q \in Requests, NEW row,
             \/ Write(q, Plan(q), row) \/ FailedWrite(q, Plan(q), row),
             row.status # "pending"
      PROVE  \A r \in Rows : /\ db'[r].openAt # Null => r \in Plans
                             /\ db'[r].status = "pending" => db[r].status = "pending" /\ r \in Legacy
  <2>1. \A r \in Rows : db'[r] = db[r] \/ (r = Plan(q) /\ db'[r] = row)
    BY <1>0, <1>d DEF Write, FailedWrite, TypeOK
  <2> QED BY <1>c, <1>d, <2>1 DEF Plans
<1>e. \A S : PlanRow(S).status # "pending"
  BY DEF PlanRow, NewRow
<1>1. ASSUME NEW q \in Requests, PostSubmit(q) PROVE LaneInv'
  BY <1>1, <1>a DEF PostSubmit
<1>2. ASSUME NEW q \in Requests, PostPlan(q) PROVE LaneInv'
  <2>1. \A r \in Rows : /\ db'[r].openAt # Null => r \in Plans
                        /\ db'[r].status = "pending" => db[r].status = "pending" /\ r \in Legacy
    BY <1>2, <1>d, <1>e DEF PostPlan
  <2> QED BY <1>2, <2>1, WorkerFacts DEF PostPlan, LaneInv
<1>3. ASSUME NEW q \in Requests, Fallback(q) PROVE LaneInv'
  <2>1. \A r \in Rows : /\ db'[r].openAt # Null => r \in Plans
                        /\ db'[r].status = "pending" => db[r].status = "pending" /\ r \in Legacy
    <3>1. CASE UNCHANGED db
      BY <3>1, <1>c
    <3> QED BY <1>3, <1>d, <1>e, <3>1 DEF Fallback
  <2> QED BY <1>3, <2>1, WorkerFacts DEF Fallback, LaneInv
<1>4. ASSUME NEW q \in Requests, CreateLive(q) PROVE LaneInv'
  <2>1. LiveRow(q).status = "submitting" /\ LiveRow(q).openAt = Null
    BY DEF LiveRow, NewRow
  <2>2. \A r \in Rows : db'[r] = db[r] \/ db'[r] = LiveRow(q)
    BY <1>0, <1>4 DEF CreateLive, Write, FailedWrite, TypeOK
  <2>3. \A r \in Rows : /\ db'[r].openAt # Null => r \in Plans
                        /\ db'[r].status = "pending" => db[r].status = "pending" /\ r \in Legacy
    BY <1>c, <2>1, <2>2
  <2>4. \A w \in Workers :
          \/ pc'[w] = pc[w] /\ mem'[w] = mem[w]
          \/ w[1] \in Requests /\ w[1] \notin Batches \cup Triggers /\ mem'[w] = LiveRow(q)
    BY <1>0, <1>4, WorkerFacts, HandlersAssumption DEF CreateLive, TypeOK
  <2> QED BY <2>1, <2>3, <2>4, WorkerFacts DEF LaneInv
<1>5. ASSUME NEW q \in Requests, SubmitDone(q) PROVE LaneInv'
  BY <1>0, <1>5, <1>b DEF SubmitDone, TypeOK
<1>6. ASSUME NEW b \in Batches, BatchList(b) PROVE LaneInv'
  <2>1. \A w \in Workers :
          \/ pc'[w] = pc[w] /\ mem'[w] = mem[w]
          \/ /\ w[1] \in Batches /\ w[1] \notin Triggers
             /\ w[2] \in Due /\ mem'[w] = db[w[2]] /\ pc'[w] = "claim"
    BY <1>6, HandlersAssumption DEF BatchList, TypeOK
  <2>2. \A r \in Due : r \in Plans /\ db[r].status # "pending"
    BY DEF Due, LaneInv
  <2>3. \A w \in Workers : w[1] \in Triggers => pc'[w] = pc[w]
    BY <2>1
  <2>4. UNCHANGED db
    BY <1>6 DEF BatchList
  <2> QED BY <2>1, <2>2, <2>3, <2>4 DEF LaneInv
<1>7. ASSUME NEW b \in Batches, Sweep(b) PROVE LaneInv'
  <2>1. \A r \in Rows : \/ db'[r] = db[r]
                        \/ db'[r].status = "expired" /\ db'[r].openAt = db[r].openAt
    BY <1>0, <1>7 DEF Sweep, Swept, TypeOK, RowType
  <2>2. \A r \in Rows : /\ db'[r].openAt # Null => r \in Plans
                        /\ db'[r].status = "pending" => db[r].status = "pending" /\ r \in Legacy
    BY <1>c, <2>1
  <2>3. \A w \in Workers : \/ mem'[w] = mem[w] /\ pc'[w] = pc[w]
                           \/ mem'[w] = NoRow /\ pc'[w] = "idle"
    BY <1>7 DEF Sweep, TypeOK
  <2>4. NoRow.openAt = Null /\ NoRow.status = "none" /\ "idle" \notin Executing
    BY DEF NoRow, NewRow, Executing
  <2> QED BY <2>2, <2>3, <2>4, WorkerFacts DEF LaneInv
<1>8. ASSUME NEW t \in Triggers, NEW r \in Rows, TriggerClaim(t, r) PROVE LaneInv'
  <2>1. db[r].status = "pending" /\ r \in Legacy /\ mem' = mem
    BY <1>8 DEF TriggerClaim, Triggerable, LaneInv
  <2>2. \A x \in Rows : \/ db'[x] = db[x]
                        \/ db'[x].status = "submitting" /\ db'[x].openAt = db[x].openAt
    BY <1>0, <1>8 DEF TriggerClaim, Write, FailedWrite, Claimed, TypeOK, RowType
  <2>3. \A x \in Rows : /\ db'[x].openAt # Null => x \in Plans
                        /\ db'[x].status = "pending" => db[x].status = "pending" /\ x \in Legacy
    BY <1>c, <2>2
  <2>4. \/ pc' = pc
        \/ /\ \A w \in Workers : \/ pc'[w] = pc[w]
                                 \/ w = <<t, r>> /\ pc'[w] = "reload"
           /\ db'[r].status = "submitting"
    BY <1>0, <1>8 DEF TriggerClaim, Write, Claimed, TypeOK, RowType
  <2>5. \A w \in Workers : w[1] \in Triggers /\ w[2] = r => pc[w] \notin Executing
    BY <2>1 DEF LaneInv
  <2>6. t \notin Batches
    BY HandlersAssumption
  <2>7. CASE pc' = pc
    BY <2>1, <2>3, <2>7, WorkerFacts DEF LaneInv
  <2>8. CASE /\ \A w \in Workers : \/ pc'[w] = pc[w]
                                   \/ w = <<t, r>> /\ pc'[w] = "reload"
             /\ db'[r].status = "submitting"
    BY <2>1, <2>3, <2>5, <2>6, <2>8, WorkerFacts DEF LaneInv
  <2> QED BY <2>4, <2>7, <2>8
<1>9. ASSUME NEW t \in Triggers, TriggerReturn(t) PROVE LaneInv'
  BY <1>9, <1>b DEF TriggerReturn
<1>10. ASSUME NEW w \in Workers, WorkerStep(w) PROVE LaneInv'
  BY <1>10, WorkerEffect, LaneWorker
<1>11. CASE Crash
  BY <1>11, <1>b DEF Crash
<1>12. CASE Tick \/ (\E h \in Handlers : Cancel(h)) \/ UNCHANGED vars
  BY <1>12, <1>a DEF Tick, Cancel, vars
<1> QED BY <1>1, <1>2, <1>3, <1>4, <1>5, <1>6, <1>7, <1>8, <1>9, <1>10, <1>11, <1>12
        DEF Next, RequestStep

\* With one scheduler at work no row is ever executed twice at the same time,
\* whatever database calls, replies, clients or processes fail in between.
THEOREM MutualExclusion ==
  ASSUME SingleScheduler PROVE Spec => []OneWorkerPerRow
<1>1. Init => LaneInv
  BY LaneInit
<1>2. TypeInv /\ BackedInv /\ LaneInv /\ [Next]_vars => LaneInv'
  BY LaneStep
<1>3. LaneInv => OneWorkerPerRow
  BY LanesExclude
<1> QED BY <1>1, <1>2, <1>3, TypeInvariant, BackedInit, BackedStep, PTL DEF Spec

(***************************************************************************)
(* Finality: who may still write a row, and when.                          *)
(***************************************************************************)

\* What the steps outside the workers do to the table.
LEMMA TableEffect ==
  ASSUME TypeOK
  PROVE  /\ \A q \in Requests :
              PostPlan(q) \/ Fallback(q) =>
                /\ \A r \in Rows \ {Plan(q)} : db'[r] = db[r]
                /\ db'[Plan(q)] = db[Plan(q)] \/ db'[Plan(q)].status = "scheduled"
         /\ \A q \in Requests :
              CreateLive(q) =>
                /\ \A r \in Rows \ {Live(q)} : db'[r] = db[r]
                /\ db'[Live(q)] = db[Live(q)] \/ db'[Live(q)].status = "submitting"
         /\ \A b \in Batches :
              Sweep(b) =>
                \A r \in Rows : \/ db'[r] = db[r]
                                \/ db[r].status = "failed" /\ db'[r].status = "expired"
         /\ \A t \in Triggers, x \in Rows :
              TriggerClaim(t, x) =>
                /\ \A r \in Rows \ {x} : db'[r] = db[r]
                /\ db'[x] = db[x] \/ db'[x].status = "submitting"
                /\ db[x].status = "pending"
<1>1. ASSUME NEW q \in Requests, PostPlan(q) \/ Fallback(q)
      PROVE  /\ \A r \in Rows \ {Plan(q)} : db'[r] = db[r]
             /\ db'[Plan(q)] = db[Plan(q)] \/ db'[Plan(q)].status = "scheduled"
  <2>1. \/ db' = db
        \/ \E S : db' \in {db, [db EXCEPT ![Plan(q)] = PlanRow(S)]}
    BY <1>1 DEF PostPlan, Fallback, Write, FailedWrite
  <2>2. \A S : PlanRow(S).status = "scheduled"
    BY DEF PlanRow, NewRow
  <2>3. Plan(q) \in Rows
    BY WorkerFacts
  <2> QED BY <2>1, <2>2, <2>3 DEF TypeOK
<1>2. ASSUME NEW q \in Requests, CreateLive(q)
      PROVE  /\ \A r \in Rows \ {Live(q)} : db'[r] = db[r]
             /\ db'[Live(q)] = db[Live(q)] \/ db'[Live(q)].status = "submitting"
  <2>1. db' \in {db, [db EXCEPT ![Live(q)] = LiveRow(q)]}
    BY <1>2 DEF CreateLive, Write, FailedWrite
  <2>2. LiveRow(q).status = "submitting" /\ Live(q) \in Rows
    BY WorkerFacts DEF LiveRow, NewRow
  <2> QED BY <2>1, <2>2 DEF TypeOK
<1>3. ASSUME NEW b \in Batches, Sweep(b), NEW r \in Rows
      PROVE  db'[r] = db[r] \/ (db[r].status = "failed" /\ db'[r].status = "expired")
  BY <1>3 DEF Sweep, Swept, TypeOK, RowType
<1>4. ASSUME NEW t \in Triggers, NEW x \in Rows, TriggerClaim(t, x)
      PROVE  /\ \A r \in Rows \ {x} : db'[r] = db[r]
             /\ db'[x] = db[x] \/ db'[x].status = "submitting"
             /\ db[x].status = "pending"
  BY <1>4 DEF TriggerClaim, Triggerable, Write, FailedWrite, Claimed, TypeOK, RowType
<1> QED BY <1>1, <1>2, <1>3, <1>4

Early == {"idle", "create", "trying", "fallback"}

LEMMA RequestInvStep ==
  ASSUME TypeInv, BackedInv, LaneInv, RequestInv, [Next]_vars
  PROVE  RequestInv'
<1>0. TypeOK
  BY DEF TypeInv
<1> SUFFICES ASSUME NEW q \in Requests
             PROVE  /\ pc'[LiveWorker(q)] # "idle" => hpc'[q] = "trying"
                    /\ hpc'[q] \in {"idle", "create"} => db'[Live(q)].status = "none"
                    /\ hpc'[q] \in Early =>
                         /\ db'[Plan(q)].status = "none"
                         /\ \A w \in Workers : w[2] = Plan(q) => pc'[w] = "idle"
  BY DEF RequestInv, Early
<1> DEFINE Goal == /\ pc'[LiveWorker(q)] # "idle" => hpc'[q] = "trying"
                   /\ hpc'[q] \in {"idle", "create"} => db'[Live(q)].status = "none"
                   /\ hpc'[q] \in Early =>
                        /\ db'[Plan(q)].status = "none"
                        /\ \A w \in Workers : w[2] = Plan(q) => pc'[w] = "idle"
<1>a. /\ pc[LiveWorker(q)] # "idle" => hpc[q] = "trying"
      /\ hpc[q] \in {"idle", "create"} => db[Live(q)].status = "none"
      /\ hpc[q] \in Early => /\ db[Plan(q)].status = "none"
                             /\ \A w \in Workers : w[2] = Plan(q) => pc[w] = "idle"
  BY DEF RequestInv, Early
<1>b. /\ q \in Handlers /\ LiveWorker(q) \in Workers /\ LiveWorker(q)[2] = Live(q)
      /\ LiveWorker(q)[1] = q /\ Live(q) \in Rows /\ Plan(q) \in Rows /\ Plan(q) \in Plans
      /\ Live(q) # Plan(q) /\ Live(q) \notin Plans /\ Live(q) \notin Legacy /\ Plan(q) \notin Legacy
      /\ q \notin Batches /\ q \notin Triggers
  BY WorkerFacts, LanesDisjoint, HandlersAssumption DEF Plans
\* nothing of q's changes but, perhaps, its workers stop
<1>c. ASSUME hpc'[q] = hpc[q], db'[Plan(q)].status = db[Plan(q)].status,
             db[Live(q)].status = "none" => db'[Live(q)].status = "none",
             pc'[LiveWorker(q)] \in {pc[LiveWorker(q)], "idle"},
             \A w \in Workers : w[2] = Plan(q) => pc'[w] \in {pc[w], "idle"}
      PROVE  Goal
  BY <1>a, <1>c
<1> HIDE DEF Goal
<1>1. ASSUME NEW p \in Requests, RequestStep(p), p # q PROVE Goal
  <2>1. /\ Live(p) # Live(q) /\ Live(p) # Plan(q) /\ Plan(p) # Plan(q) /\ Plan(p) # Live(q)
        /\ LiveWorker(p) # LiveWorker(q) /\ LiveWorker(p)[2] # Plan(q)
    BY <1>1, <1>b, WorkerFacts, LanesDisjoint
  <2>2. db'[Live(q)] = db[Live(q)] /\ db'[Plan(q)] = db[Plan(q)]
    BY <1>0, <1>1, <1>b, <2>1, TableEffect DEF RequestStep, PostSubmit, SubmitDone
  <2>3. hpc'[q] = hpc[q] /\ pc'[LiveWorker(q)] = pc[LiveWorker(q)]
    BY <1>0, <1>1, <1>b, <2>1
       DEF RequestStep, PostSubmit, PostPlan, CreateLive, SubmitDone, Fallback, TypeOK
  <2>4. \A w \in Workers : w[2] = Plan(q) => pc'[w] = pc[w]
    BY <1>0, <1>1, <2>1
       DEF RequestStep, PostSubmit, PostPlan, CreateLive, SubmitDone, Fallback, TypeOK
  <2> QED BY <1>c, <2>2, <2>3, <2>4
<1>2. CASE PostSubmit(q)
  <2>1. hpc'[q] \in {"create", "fallback"} /\ UNCHANGED <<db, pc>> /\ hpc[q] = "idle"
    BY <1>0, <1>2, <1>b DEF PostSubmit, TypeOK
  <2> QED BY <1>a, <2>1 DEF Goal, Early
<1>3. CASE PostPlan(q) \/ Fallback(q)
  <2>1. hpc'[q] \in {"planned", "error"} /\ UNCHANGED pc /\ hpc[q] # "trying"
    BY <1>0, <1>3, <1>b DEF PostPlan, Fallback, TypeOK
  <2> QED BY <1>a, <2>1 DEF Goal, Early
<1>4. CASE CreateLive(q)
  <2>1. /\ hpc'[q] \in {"trying", "fallback"} /\ hpc[q] = "create"
        /\ \A w \in Workers : w # LiveWorker(q) => pc'[w] = pc[w]
        /\ pc'[LiveWorker(q)] = pc[LiveWorker(q)] \/ hpc'[q] = "trying"
    BY <1>0, <1>4, <1>b DEF CreateLive, TypeOK
  <2>2. db'[Plan(q)] = db[Plan(q)]
    BY <1>0, <1>4, <1>b, TableEffect
  <2> QED BY <1>a, <1>b, <2>1, <2>2 DEF Goal, Early
<1>5. CASE SubmitDone(q)
  <2>1. /\ hpc'[q] \in {"live", "fallback"} /\ hpc[q] = "trying" /\ UNCHANGED db
        /\ \A w \in Workers : pc'[w] \in {pc[w], "idle"}
        /\ pc'[LiveWorker(q)] = "idle"
    BY <1>0, <1>5, <1>b DEF SubmitDone, TypeOK
  <2> QED BY <1>a, <2>1 DEF Goal, Early
<1>6. ASSUME NEW b \in Batches, BatchList(b) PROVE Goal
  <2>1. hpc'[q] = hpc[q] /\ UNCHANGED db
    BY <1>0, <1>6, <1>b DEF BatchList, TypeOK
  <2>2. \A w \in Workers : pc'[w] = pc[w] \/ (w[1] = b /\ db[w[2]].status # "none")
    BY <1>6 DEF BatchList, Due
  <2>3. pc'[LiveWorker(q)] = pc[LiveWorker(q)]
    BY <1>b, <2>2
  <2> QED BY <1>a, <1>b, <2>1, <2>2, <2>3 DEF Goal
<1>7. ASSUME NEW b \in Batches, Sweep(b) PROVE Goal
  <2>1. hpc'[q] = hpc[q] /\ \A w \in Workers : pc'[w] \in {pc[w], "idle"}
    BY <1>0, <1>7, <1>b DEF Sweep, TypeOK
  <2>2. \A r \in Rows : \/ db'[r] = db[r]
                        \/ db[r].status = "failed" /\ db'[r].status = "expired"
    BY <1>0, <1>7, TableEffect
  <2> QED BY <1>a, <1>b, <2>1, <2>2 DEF Goal, Early
<1>8. ASSUME NEW t \in Triggers, NEW r \in Rows, TriggerClaim(t, r) PROVE Goal
  <2>1. r \in Legacy /\ r # Live(q) /\ r # Plan(q)
    BY <1>0, <1>8, <1>b, TableEffect DEF LaneInv
  <2>2. db'[Live(q)] = db[Live(q)] /\ db'[Plan(q)] = db[Plan(q)]
    BY <1>0, <1>8, <1>b, <2>1, TableEffect
  <2>3. hpc'[q] = hpc[q]
    BY <1>0, <1>8, <1>b DEF TriggerClaim, TypeOK
  <2>4. \A w \in Workers : w[2] # r => pc'[w] = pc[w]
    BY <1>0, <1>8 DEF TriggerClaim, TypeOK
  <2> QED BY <1>b, <1>c, <2>1, <2>2, <2>3, <2>4
<1>9. ASSUME NEW t \in Triggers, TriggerReturn(t) PROVE Goal
  <2>1. hpc'[q] = hpc[q] /\ UNCHANGED db /\ \A w \in Workers : pc'[w] \in {pc[w], "idle"}
    BY <1>0, <1>9, <1>b DEF TriggerReturn, TypeOK
  <2> QED BY <1>b, <1>c, <2>1
<1>10. ASSUME NEW w \in Workers, WorkerStep(w) PROVE Goal
  <2>1. Effect(w)
    BY <1>10, WorkerEffect
  <2>2. hpc'[q] = hpc[q] /\ pc[w] # "idle" /\ \A v \in Workers : v # w => pc'[v] = pc[v]
    BY <2>1 DEF Effect, EffectFrame, EffectCounter
  <2>3. w = LiveWorker(q) \/ w[2] # Live(q)
    BY <1>b, <2>2, WorkerFacts, LanesDisjoint DEF LaneInv, Handlers
  <2>4. pc'[LiveWorker(q)] # "idle" => hpc'[q] = "trying"
    BY <1>a, <1>b, <2>2
  <2>5. hpc'[q] \in {"idle", "create"} => db'[Live(q)].status = "none"
    <3> SUFFICES ASSUME hpc[q] \in {"idle", "create"} PROVE db'[Live(q)] = db[Live(q)]
      BY <1>a, <2>2
    <3>1. w # LiveWorker(q)
      BY <1>a, <2>2
    <3> QED BY <1>b, <2>1, <2>3, <3>1 DEF Effect, EffectFrame
  <2>6. hpc'[q] \in Early => /\ db'[Plan(q)].status = "none"
                             /\ \A v \in Workers : v[2] = Plan(q) => pc'[v] = "idle"
    <3> SUFFICES ASSUME hpc[q] \in Early
                 PROVE  /\ db'[Plan(q)].status = "none"
                        /\ \A v \in Workers : v[2] = Plan(q) => pc'[v] = "idle"
      BY <2>2
    <3>1. w[2] # Plan(q)
      BY <1>a, <2>2
    <3> QED BY <1>a, <1>b, <2>1, <2>2, <3>1 DEF Effect, EffectFrame
  <2> QED BY <2>4, <2>5, <2>6 DEF Goal
<1>11. CASE Crash
  <2>1. /\ hpc'[q] \in Early => hpc[q] = "idle" /\ hpc'[q] = "idle"
        /\ UNCHANGED db /\ \A w \in Workers : pc'[w] = "idle"
    BY <1>0, <1>11, <1>b DEF Crash, Busy, Early, TypeOK
  <2> QED BY <1>a, <1>b, <2>1 DEF Goal, Early
<1>12. CASE Tick \/ (\E h \in Handlers : Cancel(h)) \/ UNCHANGED vars
  <2>1. db' = db /\ hpc' = hpc /\ pc' = pc
    BY <1>12 DEF Tick, Cancel, vars
  <2> QED BY <1>a, <2>1 DEF Goal
<1>13. ASSUME NEW p \in Requests, RequestStep(p) PROVE Goal
  <2>1. CASE p = q
    <3>1. RequestStep(q)
      BY <1>13, <2>1
    <3> QED BY <1>2, <1>3, <1>4, <1>5, <3>1 DEF RequestStep, Goal
  <2> QED BY <1>1, <1>13, <2>1
<1>14. ASSUME Next PROVE Goal
  <2>1. CASE \E b \in Batches : BatchList(b) \/ Sweep(b)
    BY <1>6, <1>7, <2>1
  <2>2. CASE \E p \in Requests : RequestStep(p)
    BY <1>13, <2>2
  <2>3. CASE \/ \E t \in Triggers, r \in Rows : TriggerClaim(t, r)
             \/ \E t \in Triggers : TriggerReturn(t)
    BY <1>8, <1>9, <2>3
  <2>4. CASE \E w \in Workers : WorkerStep(w)
    BY <1>10, <2>4
  <2> QED BY <1>11, <1>12, <1>14, <2>1, <2>2, <2>3, <2>4 DEF Next, Goal
<1> QED BY <1>12, <1>14 DEF Goal

LEMMA WriterInvStep ==
  ASSUME SingleScheduler, TypeInv, BackedInv, LaneInv, RequestInv, WriterInv, [Next]_vars
  PROVE  WriterInv'
<1>0. TypeOK /\ OneWorkerPerRow
  BY LanesExclude DEF TypeInv
<1>w. Writing \subseteq Executing
  BY DEF Writing
\* no row becomes a success, no worker starts writing
<1>a. ASSUME \A r \in Rows : db'[r].status = "success" => db[r].status = "success",
             \A w \in Workers : pc'[w] \in Writing => pc[w] \in Writing
      PROVE  WriterInv'
  BY <1>a, WorkerFacts DEF WriterInv
<1>1. ASSUME NEW q \in Requests, PostSubmit(q) \/ SubmitDone(q) PROVE WriterInv'
  <2>1. db' = db /\ \A w \in Workers : pc'[w] \in {pc[w], "idle"}
    BY <1>0, <1>1 DEF PostSubmit, SubmitDone, TypeOK
  <2> QED BY <1>a, <2>1 DEF Writing, Executing
<1>2. ASSUME NEW q \in Requests, PostPlan(q) \/ Fallback(q) PROVE WriterInv'
  <2>1. \A r \in Rows : db'[r] = db[r] \/ db'[r].status = "scheduled"
    BY <1>0, <1>2, TableEffect
  <2>2. pc' = pc
    BY <1>2 DEF PostPlan, Fallback
  <2> QED BY <1>a, <2>1, <2>2
<1>3. ASSUME NEW q \in Requests, CreateLive(q) PROVE WriterInv'
  <2>1. \A r \in Rows : db'[r] = db[r] \/ db'[r].status = "submitting"
    BY <1>0, <1>3, TableEffect
  <2>2. \/ pc' = pc
        \/ /\ \A w \in Workers : w # LiveWorker(q) => pc'[w] = pc[w]
           /\ db'[Live(q)].status = "submitting"
    <3>1. LiveRow(q).status = "submitting" /\ Live(q) \in Rows
      BY WorkerFacts DEF LiveRow, NewRow
    <3> QED BY <1>0, <1>3, <3>1 DEF CreateLive, Write, TypeOK
  <2> QED BY <2>1, <2>2, WorkerFacts DEF WriterInv
<1>4. ASSUME NEW b \in Batches, BatchList(b) PROVE WriterInv'
  <2>1. db' = db /\ \A w \in Workers : pc'[w] \in {pc[w], "claim"}
    BY <1>0, <1>4 DEF BatchList, TypeOK
  <2> QED BY <1>a, <2>1 DEF Writing, Executing
<1>5. ASSUME NEW b \in Batches, Sweep(b) PROVE WriterInv'
  <2>1. \A w \in Workers : pc'[w] \in {pc[w], "idle"}
    BY <1>0, <1>5 DEF Sweep, TypeOK
  <2>2. \A r \in Rows : db'[r] = db[r] \/ db'[r].status = "expired"
    BY <1>0, <1>5, TableEffect
  <2> QED BY <1>a, <2>1, <2>2 DEF Writing, Executing
<1>6. ASSUME NEW t \in Triggers, NEW r \in Rows, TriggerClaim(t, r) PROVE WriterInv'
  <2>1. \A x \in Rows : db'[x] = db[x] \/ db'[x].status = "submitting"
    BY <1>0, <1>6, TableEffect
  <2>2. \A w \in Workers : w[2] # r => pc'[w] = pc[w]
    BY <1>0, <1>6 DEF TriggerClaim, TypeOK
  <2>3. db'[r].status # "success"
    BY <1>0, <1>6, <2>1, TableEffect
  <2> QED BY <2>1, <2>2, <2>3, WorkerFacts DEF WriterInv
<1>7. ASSUME NEW t \in Triggers, TriggerReturn(t) PROVE WriterInv'
  <2>1. db' = db /\ \A w \in Workers : pc'[w] \in {pc[w], "idle"}
    BY <1>0, <1>7 DEF TriggerReturn, TypeOK
  <2> QED BY <1>a, <2>1 DEF Writing, Executing
<1>8. ASSUME NEW w \in Workers, WorkerStep(w) PROVE WriterInv'
  <2>1. Effect(w)
    BY <1>8, WorkerEffect
  <2>2. w[2] \in Rows /\ Claimed(w[2]).status = "submitting"
    BY <1>0, WorkerFacts DEF Claimed, TypeOK, RowType
  <2>3. ASSUME NEW v \in Workers, pc'[v] \in Writing PROVE db'[v[2]].status # "success"
    <3>1. CASE v[2] # w[2]
      BY <2>1, <2>3, <3>1, WorkerFacts DEF Effect, EffectFrame, WriterInv
    <3>2. CASE v = w
      <4>1. pc'[w] # "logwon"
        BY <2>3, <3>2 DEF Writing
      <4> QED BY <2>1, <2>2, <2>3, <3>2, <4>1 DEF Effect, EffectRow, EffectCounter, WriterInv
    <3>3. CASE v # w /\ v[2] = w[2]
      <4>1. pc[v] \in Writing /\ pc[v] \in Executing
        BY <1>w, <2>1, <2>3, <3>3 DEF Effect, EffectFrame
      <4>2. pc[w] \notin Writing
        BY <1>0, <1>w, <3>3, <4>1 DEF OneWorkerPerRow
      <4>3. db[v[2]].status # "success"
        BY <4>1 DEF WriterInv
      <4> QED BY <2>1, <2>2, <3>3, <4>2, <4>3 DEF Effect, EffectRow
    <3> QED BY <3>1, <3>2, <3>3
  <2> QED BY <2>3 DEF WriterInv
<1>9. CASE Crash
  <2>1. db' = db /\ \A w \in Workers : pc'[w] = "idle"
    BY <1>9 DEF Crash
  <2> QED BY <1>a, <2>1 DEF Writing, Executing
<1>10. CASE Tick \/ (\E h \in Handlers : Cancel(h)) \/ UNCHANGED vars
  <2>1. db' = db /\ pc' = pc
    BY <1>10 DEF Tick, Cancel, vars
  <2> QED BY <1>a, <2>1
<1> QED BY <1>1, <1>2, <1>3, <1>4, <1>5, <1>6, <1>7, <1>8, <1>9, <1>10 DEF Next, RequestStep

SuccessStays == \A r \in Rows : db[r].status = "success" => db'[r] = db[r]

LEMMA SuccessStaysStep ==
  ASSUME TypeInv, BackedInv, LaneInv, RequestInv, WriterInv, [Next]_vars
  PROVE  SuccessStays
<1>0. TypeOK
  BY DEF TypeInv
<1> SUFFICES ASSUME NEW r \in Rows, db[r].status = "success" PROVE db'[r] = db[r]
  BY DEF SuccessStays
<1>1. ASSUME NEW q \in Requests, RequestStep(q) PROVE db'[r] = db[r]
  <2>1. CASE PostSubmit(q) \/ SubmitDone(q)
    BY <2>1 DEF PostSubmit, SubmitDone
  <2>2. CASE PostPlan(q) \/ Fallback(q)
    <3>1. hpc[q] \in {"idle", "fallback"}
      BY <2>2 DEF PostPlan, Fallback
    <3>2. r # Plan(q)
      BY <3>1 DEF RequestInv
    <3> QED BY <1>0, <2>2, <3>2, TableEffect
  <2>3. CASE CreateLive(q)
    <3>1. hpc[q] = "create"
      BY <2>3 DEF CreateLive
    <3>2. r # Live(q)
      BY <3>1 DEF RequestInv
    <3> QED BY <1>0, <2>3, <3>2, TableEffect
  <2> QED BY <1>1, <2>1, <2>2, <2>3 DEF RequestStep
<1>2. ASSUME NEW b \in Batches, BatchList(b) \/ Sweep(b) PROVE db'[r] = db[r]
  <2>1. CASE BatchList(b)
    BY <2>1 DEF BatchList
  <2>2. CASE Sweep(b)
    BY <1>0, <2>2, TableEffect
  <2> QED BY <1>2, <2>1, <2>2
<1>3. ASSUME NEW t \in Triggers, NEW x \in Rows, TriggerClaim(t, x) PROVE db'[r] = db[r]
  <2>1. r # x
    BY <1>0, <1>3, TableEffect
  <2> QED BY <1>0, <1>3, <2>1, TableEffect
<1>4. ASSUME NEW w \in Workers, WorkerStep(w) PROVE db'[r] = db[r]
  <2>1. Effect(w)
    BY <1>4, WorkerEffect
  <2>2. CASE r # w[2]
    BY <2>1, <2>2 DEF Effect, EffectFrame
  <2>3. CASE r = w[2]
    <3>1. pc[w] \notin Writing
      BY <2>3 DEF WriterInv
    <3> QED BY <2>1, <2>3, <3>1 DEF Effect, EffectRow
  <2> QED BY <2>2, <2>3
<1>5. CASE \/ Tick \/ Crash \/ UNCHANGED vars
           \/ \E h \in Handlers : Cancel(h)
           \/ \E t \in Triggers : TriggerReturn(t)
  BY <1>5 DEF Tick, Crash, Cancel, TriggerReturn, vars
<1> QED BY <1>1, <1>2, <1>3, <1>4, <1>5 DEF Next

\* With one scheduler at work a reservation that succeeded stays as it is.
THEOREM SuccessIsFinal ==
  ASSUME SingleScheduler PROVE Spec => SuccessFinal
<1>1. Init => LaneInv /\ RequestInv /\ WriterInv
  BY LaneInit
<1>2. TypeInv /\ BackedInv /\ LaneInv /\ [Next]_vars => LaneInv'
  BY LaneStep
<1>3. TypeInv /\ BackedInv /\ LaneInv /\ RequestInv /\ [Next]_vars => RequestInv'
  BY RequestInvStep
<1>4. TypeInv /\ BackedInv /\ LaneInv /\ RequestInv /\ WriterInv /\ [Next]_vars => WriterInv'
  BY WriterInvStep
<1>5. TypeInv /\ BackedInv /\ LaneInv /\ RequestInv /\ WriterInv /\ [Next]_vars
      => [SuccessStays]_vars
  BY SuccessStaysStep
<1>6. SuccessFinal <=> [][SuccessStays]_vars
  BY DEF SuccessFinal, SuccessStays
<1> QED BY <1>1, <1>2, <1>3, <1>4, <1>5, <1>6, TypeInvariant, BackedInit, BackedStep, PTL
        DEF Spec

(***************************************************************************)
(* What is ordered was asked for, and not early.  What a row asks for      *)
(* travels from the request's body through the table and the copies to the *)
(* candidates of a worker; at each stage it may only shrink, and windows   *)
(* stay open.  Triggers are kept out by the lanes: a legacy row asks for   *)
(* nothing, and nobody else's row is ever in a trigger's hands.            *)
(***************************************************************************)
AskedFor(r) ==
  UNION {(IF r = Live(q) THEN Members(input[q].open) ELSE {})
         \cup (IF r = Plan(q) THEN input[q].closed ELSE {}) : q \in Requests}

Orderable(r) == {s \in AskedFor(r) : WindowOpen(s)}

Trying == {"try", "exec", "refused", "logrefused"}

RequestAsked(q) ==
  /\ hpc[q] = "idle" => input[q] = [open |-> <<>>, closed |-> {}]
  /\ \A s \in Members(input[q].open) : WindowOpen(s)
WorkAsked(w) ==
  /\ pc[w] # "reload"
  /\ mem[w].plan \subseteq AskedFor(w[2])
  /\ pc[w] \in Trying => Members(todo[w]) \subseteq Orderable(w[2])
  /\ pc[w] = "exec" => mem[w].slot \in Orderable(w[2])

AskedInv ==
  /\ \A q \in Requests : RequestAsked(q)
  /\ \A r \in Rows \ Legacy : db[r].plan \subseteq AskedFor(r)
  /\ \A w \in Workers : w[2] \notin Legacy => WorkAsked(w)
  /\ \A o \in orders : o[1] \notin Legacy => o[2] \in Orderable(o[1])

LEMMA AskedForRows ==
  /\ \A q \in Requests : /\ AskedFor(Live(q)) = Members(input[q].open)
                         /\ AskedFor(Plan(q)) = input[q].closed
  /\ \A q \in Requests : /\ AskedFor(Live(q))' = Members(input'[q].open)
                         /\ AskedFor(Plan(q))' = input'[q].closed
  BY LanesDisjoint DEF AskedFor

LEMMA ListMembers ==
  ASSUME NEW S, NEW c \in Seq(S), c # <<>>
  PROVE  /\ Head(c) \in Members(c) /\ Head(c) \in S
         /\ Tail(c) \in Seq(S) /\ Members(Tail(c)) \subseteq Members(c)
  BY DEF Members

LEMMA AskedImplies == TypeOK /\ AskedInv => OrderWasAsked /\ NoEarlyOrder
<1> SUFFICES ASSUME TypeOK, AskedInv PROVE OrderWasAsked /\ NoEarlyOrder
  OBVIOUS
<1>1. ASSUME NEW q \in Requests, NEW s \in Slots
      PROVE  /\ <<Live(q), s>> \in orders => s \in Members(input[q].open)
             /\ <<Plan(q), s>> \in orders => s \in input[q].closed
  <2>1. Live(q) \notin Legacy /\ Plan(q) \notin Legacy
    BY LanesDisjoint DEF Plans
  <2> QED BY <2>1, AskedForRows DEF AskedInv, Orderable
<1>2. NoEarlyOrder
  BY DEF AskedInv, Orderable, NoEarlyOrder
<1> QED BY <1>1, <1>2 DEF OrderWasAsked

LEMMA AskedInit == Init => AskedInv
<1> SUFFICES ASSUME Init PROVE AskedInv
  OBVIOUS
<1>1. Requests \subseteq Handlers
  BY DEF Handlers
<1>2. NoRow.plan = {}
  BY DEF NoRow, NewRow
<1>3. Members(<<>>) = {}
  BY DEF Members
<1> QED BY <1>1, <1>2, <1>3 DEF Init, AskedInv, RequestAsked, WorkAsked, Trying

\* No step takes back what was asked for, and no window closes.
LEMMA AskedGrows ==
  ASSUME TypeOK, AskedInv, [Next]_vars
  PROVE  \A r \in Rows : /\ AskedFor(r) \subseteq AskedFor(r)'
                         /\ Orderable(r) \subseteq Orderable(r)'
<1>1. \A q \in Requests : input'[q] = input[q] \/ hpc[q] = "idle"
  <2>1. ASSUME NEW p \in Requests, RequestStep(p)
        PROVE  \A q \in Requests : input'[q] = input[q] \/ hpc[q] = "idle"
    BY <2>1 DEF RequestStep, PostSubmit, PostPlan, CreateLive, SubmitDone, Fallback, TypeOK
  <2>2. ASSUME NEW w \in Workers, WorkerStep(w) PROVE input' = input
    BY <2>2 DEF WorkerStep, ClaimScheduled, ClaimFailed, Resolve, Abort, AbortLog, TrySlot,
         Execute, SaveResult, WriteLog, TriggerReload
  <2> QED BY <2>1, <2>2 DEF Next, vars, Tick, BatchList, Sweep, TriggerClaim, TriggerReturn,
              Cancel, Crash
<1>2. now \in Nat /\ now' \in {now, now + 1}
  <2>1. ASSUME NEW p \in Requests, RequestStep(p) PROVE now' = now
    BY <2>1 DEF RequestStep, PostSubmit, PostPlan, CreateLive, SubmitDone, Fallback
  <2>2. ASSUME NEW w \in Workers, WorkerStep(w) PROVE now' = now
    BY <2>2 DEF WorkerStep, ClaimScheduled, ClaimFailed, Resolve, Abort, AbortLog, TrySlot,
         Execute, SaveResult, WriteLog, TriggerReload
  <2> QED BY <2>1, <2>2 DEF Next, vars, Tick, BatchList, Sweep, TriggerClaim, TriggerReturn,
              Cancel, Crash, TypeOK
<1>3. ASSUME NEW s \in Slots, WindowOpen(s) PROVE WindowOpen(s)'
  BY <1>2, <1>3, SlotsAssumption DEF WindowOpen
<1>4. ASSUME NEW r \in Rows PROVE AskedFor(r) \subseteq AskedFor(r)'
  <2>1. \A q \in Requests : input[q].closed \subseteq input'[q].closed
    BY <1>1 DEF AskedInv, RequestAsked
  <2>2. \A q \in Requests : Members(input[q].open) \subseteq Members(input'[q].open)
    <3>1. Members(<<>>) = {}
      BY DEF Members
    <3> QED BY <1>1, <3>1 DEF AskedInv, RequestAsked
  <2> QED BY <2>1, <2>2 DEF AskedFor
<1>5. ASSUME NEW r \in Rows PROVE AskedFor(r) \subseteq Slots
  <2>1. \A q \in Requests : Members(input[q].open) \subseteq Slots /\ input[q].closed \subseteq Slots
    BY DEF TypeOK, Members
  <2> QED BY <2>1 DEF AskedFor
<1> QED BY <1>3, <1>4, <1>5 DEF Orderable

\* What a step leaves alone stays asked for.
LEMMA WorkStays ==
  ASSUME TypeOK, AskedInv, [Next]_vars, NEW w \in Workers, w[2] \notin Legacy,
         mem'[w] = mem[w], todo'[w] = todo[w],
         pc'[w] = pc[w] \/ pc'[w] \notin Trying \cup {"reload"}
  PROVE  WorkAsked(w)'
<1>1. WorkAsked(w) /\ w[2] \in Rows
  BY WorkerFacts DEF AskedInv
<1> QED BY <1>1, AskedGrows DEF WorkAsked, Trying

\* A worker that has just begun, or has ended.
LEMMA WorkRests ==
  ASSUME NEW w \in Workers, pc'[w] \notin Trying \cup {"reload"}, mem'[w].plan \subseteq AskedFor(w[2])'
  PROVE  WorkAsked(w)'
  BY DEF WorkAsked, Trying

LEMMA AskedRequest ==
  ASSUME TypeOK, AskedInv, NEW q \in Requests, RequestStep(q)
  PROVE  AskedInv'
<1>0. /\ q \in Handlers /\ Live(q) \in Rows /\ Plan(q) \in Rows
      /\ LiveWorker(q) \in Workers /\ LiveWorker(q)[2] = Live(q) /\ Requests \subseteq Handlers
  BY WorkerFacts
<1>n. [Next]_vars
  BY DEF Next
<1>g. \A r \in Rows : /\ AskedFor(r) \subseteq AskedFor(r)'
                      /\ Orderable(r) \subseteq Orderable(r)'
  BY <1>n, AskedGrows
<1>p. /\ \A S : PlanRow(S).plan = S
      /\ LiveRow(q).plan = {} /\ NoRow.plan = {}
  BY DEF PlanRow, LiveRow, NoRow, NewRow
\* the parts that only grow
<1>a. ASSUME UNCHANGED orders PROVE \A o \in orders' : o[1] \notin Legacy => (o[2] \in Orderable(o[1]))'
  BY <1>a, <1>g DEF AskedInv, TypeOK
<1>b. ASSUME UNCHANGED <<pc, mem, todo>>
      PROVE  \A w \in Workers : w[2] \notin Legacy => WorkAsked(w)'
  BY <1>b, <1>n, WorkStays
<1>c. ASSUME NEW x \in Rows, NEW row, x \notin Legacy => row.plan \subseteq AskedFor(x)',
             UNCHANGED db \/ Write(q, x, row) \/ FailedWrite(q, x, row)
      PROVE  \A r \in Rows \ Legacy : (db[r].plan \subseteq AskedFor(r))'
  <2>1. \A r \in Rows : db'[r] = db[r] \/ (r = x /\ db'[r] = row)
    BY <1>c DEF Write, FailedWrite, TypeOK
  <2> QED BY <1>c, <1>g, <2>1 DEF AskedInv
<1>d. ASSUME UNCHANGED <<input, now>>, hpc'[q] # "idle", \A p \in Requests \ {q} : hpc'[p] = hpc[p]
      PROVE  \A p \in Requests : RequestAsked(p)'
  BY <1>d DEF AskedInv, RequestAsked, WindowOpen
<1>1. CASE PostSubmit(q)
  <2>1. PICK open \in Orderings(OpenSlots), closed \in SUBSET (Slots \ OpenSlots) :
          /\ input' = [input EXCEPT ![q] = [open |-> open, closed |-> closed]]
          /\ hpc' = [hpc EXCEPT ![q] = IF open = <<>> THEN "fallback" ELSE "create"]
    BY <1>1 DEF PostSubmit
  <2>2. Members(open) \subseteq OpenSlots /\ now' = now
    BY <1>1, OrderingsAreSequences DEF PostSubmit, OpenSlots
  <2>3. ASSUME NEW p \in Requests PROVE RequestAsked(p)'
    <3>1. CASE p = q
      BY <1>0, <2>1, <2>2, <3>1 DEF RequestAsked, OpenSlots, WindowOpen, TypeOK
    <3>2. CASE p # q
      BY <1>0, <2>1, <2>2, <3>2 DEF RequestAsked, AskedInv, WindowOpen, TypeOK
    <3> QED BY <3>1, <3>2
  <2>4. \A r \in Rows \ Legacy : (db[r].plan \subseteq AskedFor(r))'
    BY <1>1, <1>g DEF PostSubmit, AskedInv
  <2> QED BY <1>1, <1>a, <1>b, <2>3, <2>4 DEF PostSubmit, AskedInv
<1>2. CASE PostPlan(q)
  <2>1. PICK S \in SUBSET Slots :
          /\ input' = [input EXCEPT ![q].closed = S]
          /\ Write(q, Plan(q), PlanRow(S)) \/ FailedWrite(q, Plan(q), PlanRow(S))
    BY <1>2 DEF PostPlan
  <2>2. input'[q].closed = S /\ input'[q].open = input[q].open /\ now' = now
    BY <1>2, <2>1 DEF PostPlan, TypeOK
  <2>3. hpc'[q] # "idle" /\ \A p \in Requests \ {q} : hpc'[p] = hpc[p] /\ input'[p] = input[p]
    BY <1>0, <1>2, <2>1 DEF PostPlan, TypeOK
  <2>4. \A p \in Requests : RequestAsked(p)'
    BY <2>2, <2>3 DEF AskedInv, RequestAsked, WindowOpen
  <2>5. \A r \in Rows \ Legacy : (db[r].plan \subseteq AskedFor(r))'
    <3>1. PlanRow(S).plan \subseteq AskedFor(Plan(q))'
      BY <1>p, <2>2, AskedForRows
    <3> HIDE DEF PlanRow
    <3> QED BY <1>0, <1>c, <2>1, <3>1
  <2> QED BY <1>2, <1>a, <1>b, <2>4, <2>5 DEF PostPlan, AskedInv
<1>3. CASE CreateLive(q)
  <2>1. \A p \in Requests : RequestAsked(p)'
    BY <1>0, <1>3, <1>d DEF CreateLive, TypeOK
  <2>2. \A r \in Rows \ Legacy : (db[r].plan \subseteq AskedFor(r))'
    BY <1>0, <1>3, <1>c, <1>p DEF CreateLive
  <2>3. ASSUME NEW w \in Workers, w[2] \notin Legacy PROVE WorkAsked(w)'
    <3>1. CASE mem'[w] = mem[w] /\ pc'[w] = pc[w] /\ todo'[w] = todo[w]
      BY <1>n, <2>3, <3>1, WorkStays
    <3>2. CASE /\ w = LiveWorker(q) /\ mem'[w] = LiveRow(q) /\ pc'[w] = "try"
               /\ todo'[w] = input[q].open
      <4>1. Members(input[q].open) \subseteq Orderable(Live(q))
        BY AskedForRows DEF Orderable, AskedInv, RequestAsked
      <4> QED BY <1>0, <1>g, <1>p, <3>2, <4>1 DEF WorkAsked
    <3> QED BY <1>0, <1>3, <3>1, <3>2 DEF CreateLive, TypeOK
  <2> QED BY <1>3, <1>a, <2>1, <2>2, <2>3 DEF CreateLive, AskedInv
<1>4. CASE SubmitDone(q)
  <2>1. \A p \in Requests : RequestAsked(p)'
    BY <1>0, <1>4, <1>d DEF SubmitDone, TypeOK
  <2>2. \A r \in Rows \ Legacy : (db[r].plan \subseteq AskedFor(r))'
    BY <1>4, <1>g DEF SubmitDone, AskedInv
  <2>3. ASSUME NEW w \in Workers, w[2] \notin Legacy PROVE WorkAsked(w)'
    <3>1. CASE mem'[w] = mem[w] /\ pc'[w] = pc[w] /\ todo'[w] = todo[w]
      BY <1>n, <2>3, <3>1, WorkStays
    <3>2. CASE mem'[w] = NoRow /\ pc'[w] = "idle"
      BY <1>p, <3>2, WorkRests DEF Trying
    <3> QED BY <1>0, <1>4, <3>1, <3>2 DEF SubmitDone, TypeOK
  <2> QED BY <1>4, <1>a, <2>1, <2>2, <2>3 DEF SubmitDone, AskedInv
<1>5. CASE Fallback(q)
  <2>1. \A p \in Requests : RequestAsked(p)'
    BY <1>0, <1>5, <1>d DEF Fallback, TypeOK
  <2>2. \A r \in Rows \ Legacy : (db[r].plan \subseteq AskedFor(r))'
    <3>1. PlanRow(input[q].closed).plan \subseteq AskedFor(Plan(q))'
      BY <1>5, <1>p, AskedForRows DEF Fallback
    <3> QED BY <1>0, <1>5, <1>c, <3>1 DEF Fallback
  <2> QED BY <1>5, <1>a, <1>b, <2>1, <2>2 DEF Fallback, AskedInv
<1> QED BY <1>1, <1>2, <1>3, <1>4, <1>5 DEF RequestStep

LEMMA AskedWorker ==
  ASSUME TypeOK, AskedInv, NEW w \in Workers, WorkerStep(w)
  PROVE  AskedInv'
<1>0. w[2] \in Rows /\ mem[w] \in RowType /\ todo[w] \in Seq(Slots)
  BY WorkerFacts DEF TypeOK
<1>n. [Next]_vars
  BY DEF Next
<1>g. \A r \in Rows : /\ AskedFor(r) \subseteq AskedFor(r)'
                      /\ Orderable(r) \subseteq Orderable(r)'
  BY <1>n, AskedGrows
<1>h. UNCHANGED <<input, hpc, now>>
  BY DEF WorkerStep, ClaimScheduled, ClaimFailed, Resolve, Abort, AbortLog, TrySlot,
     Execute, SaveResult, WriteLog, TriggerReload
<1>r. \A q \in Requests : RequestAsked(q)'
  BY <1>h DEF AskedInv, RequestAsked, WindowOpen
<1>p. /\ Claimed(w[2]).plan = db[w[2]].plan /\ Failed(mem[w]).plan = mem[w].plan
      /\ \A s : WithSlot(mem[w], s).plan = mem[w].plan /\ WithSlot(mem[w], s).slot = s
      /\ \A o : Booked(mem[w], o).plan = mem[w].plan
  BY <1>0 DEF Claimed, Failed, WithSlot, Booked, RowType, TypeOK
\* the frame: the other workers, the table, the orders
<1>a. ASSUME UNCHANGED orders PROVE \A o \in orders' : o[1] \notin Legacy => (o[2] \in Orderable(o[1]))'
  BY <1>a, <1>g DEF AskedInv, TypeOK
<1>b. ASSUME \A v \in Workers \ {w} : mem'[v] = mem[v] /\ pc'[v] = pc[v] /\ todo'[v] = todo[v],
             w[2] \notin Legacy => WorkAsked(w)'
      PROVE  \A v \in Workers : v[2] \notin Legacy => WorkAsked(v)'
  BY <1>b, <1>n, WorkStays
<1>c. ASSUME NEW row, w[2] \notin Legacy => row.plan \subseteq AskedFor(w[2]),
             \/ UNCHANGED db \/ Write(w[1], w[2], row)
             \/ FailedWrite(w[1], w[2], row) \/ IgnoredWrite(w[1], w[2], row)
      PROVE  \A r \in Rows \ Legacy : (db[r].plan \subseteq AskedFor(r))'
  <2>1. \A r \in Rows : db'[r] = db[r] \/ (r = w[2] /\ db'[r] = row)
    BY <1>c DEF Write, FailedWrite, IgnoredWrite, TypeOK
  <2> QED BY <1>c, <1>g, <2>1 DEF AskedInv
<1>d. ASSUME UNCHANGED db PROVE \A r \in Rows \ Legacy : (db[r].plan \subseteq AskedFor(r))'
  BY <1>d, <1>g DEF AskedInv
<1>e. w[2] \notin Legacy => /\ WorkAsked(w) /\ mem[w].plan \subseteq AskedFor(w[2])
                            /\ db[w[2]].plan \subseteq AskedFor(w[2])
  BY <1>0 DEF AskedInv, WorkAsked
<1>1. ASSUME NEW from, NEW next \in {"reclaim", "done"}, Transition(w, from, next),
             UNCHANGED <<mem, todo, orders>>
      PROVE  AskedInv'
  <2>1. \A r \in Rows \ Legacy : (db[r].plan \subseteq AskedFor(r))'
    <3>1. UNCHANGED db \/ Write(w[1], w[2], Claimed(w[2])) \/ FailedWrite(w[1], w[2], Claimed(w[2]))
      BY <1>1 DEF Transition
    <3> QED BY <1>c, <1>e, <1>p, <3>1
  <2>2. /\ \A v \in Workers \ {w} : pc'[v] = pc[v]
        /\ pc'[w] \notin Trying \cup {"reload"}
    BY <1>1 DEF Transition, TypeOK, Trying
  <2>3. w[2] \notin Legacy => WorkAsked(w)'
    BY <1>1, <1>n, <2>2, WorkStays
  <2> QED BY <1>1, <1>a, <1>b, <1>r, <2>1, <2>2, <2>3 DEF AskedInv
<1>2. CASE ClaimScheduled(w)
  BY <1>1, <1>2 DEF ClaimScheduled
<1>3. CASE ClaimFailed(w)
  BY <1>1, <1>3 DEF ClaimFailed
<1>4. CASE Resolve(w)
  <2>1. PICK c \in Orderings(Offered(w)) :
          /\ todo' = [todo EXCEPT ![w] = c] /\ pc' = [pc EXCEPT ![w] = AfterResolve(c)]
    BY <1>4 DEF Resolve
  <2>2. Offered(w) \subseteq mem[w].plan /\ mem[w].plan \subseteq Slots
    BY <1>0 DEF Offered, RowType
  <2>3. Members(c) \subseteq Offered(w)
    BY <2>2, OrderingsAreSequences
  <2>4. w[2] \notin Legacy => Members(c) \subseteq Orderable(w[2])
    BY <1>e, <2>2, <2>3 DEF Orderable, Offered
  <2>5. mem' = mem /\ todo'[w] = c /\ pc'[w] \in {"abort", "try"}
    BY <1>4, <2>1 DEF Resolve, AfterResolve, TypeOK
  <2>6. w[2] \notin Legacy => WorkAsked(w)'
    BY <1>0, <1>e, <1>g, <2>4, <2>5 DEF WorkAsked
  <2>7. \A v \in Workers \ {w} : mem'[v] = mem[v] /\ pc'[v] = pc[v] /\ todo'[v] = todo[v]
    BY <2>1, <2>5 DEF TypeOK
  <2> QED BY <1>4, <1>a, <1>b, <1>d, <1>r, <2>6, <2>7 DEF Resolve, AskedInv
<1>5. CASE Abort(w)
  <2>1. \A r \in Rows \ Legacy : (db[r].plan \subseteq AskedFor(r))'
    BY <1>5, <1>c, <1>e, <1>p DEF Abort
  <2>2. /\ \A v \in Workers \ {w} : mem'[v] = mem[v] /\ pc'[v] = pc[v] /\ todo'[v] = todo[v]
        /\ pc'[w] = "abortlog" /\ mem'[w] = Failed(mem[w])
    BY <1>5 DEF Abort, TypeOK
  <2>3. w[2] \notin Legacy => WorkAsked(w)'
    BY <1>0, <1>e, <1>g, <1>p, <2>2, WorkRests DEF Trying
  <2> QED BY <1>5, <1>a, <1>b, <1>r, <2>1, <2>2, <2>3 DEF Abort, AskedInv
<1>6. CASE AbortLog(w)
  <2>1. /\ \A v \in Workers \ {w} : pc'[v] = pc[v]
        /\ pc'[w] = "done"
    BY <1>6 DEF AbortLog, TypeOK
  <2>2. w[2] \notin Legacy => WorkAsked(w)'
    BY <1>6, <1>n, <2>1, WorkStays DEF AbortLog, Trying
  <2> QED BY <1>6, <1>a, <1>b, <1>d, <1>r, <2>1, <2>2 DEF AbortLog, AskedInv
<1>7. CASE TrySlot(w)
  <2> DEFINE row == WithSlot(mem[w], Head(todo[w]))
  <2>1. /\ mem' = [mem EXCEPT ![w] = row] /\ todo' = [todo EXCEPT ![w] = Tail(todo[w])]
        /\ Write(w[1], w[2], row) \/ FailedWrite(w[1], w[2], row)
        /\ pc[w] = "try" /\ todo[w] # <<>>
    BY <1>7 DEF TrySlot
  <2>2. /\ Head(todo[w]) \in Members(todo[w])
        /\ Members(Tail(todo[w])) \subseteq Members(todo[w])
    BY <1>0, <2>1, ListMembers
  <2>3. row.plan = mem[w].plan /\ row.slot = Head(todo[w])
    BY <1>p
  <2>4. \A r \in Rows \ Legacy : (db[r].plan \subseteq AskedFor(r))'
    <3> HIDE DEF row
    <3> QED BY <1>c, <1>e, <2>1, <2>3
  <2>5. \A v \in Workers \ {w} : mem'[v] = mem[v] /\ pc'[v] = pc[v] /\ todo'[v] = todo[v]
    BY <1>7 DEF TrySlot, TypeOK
  <2>6. w[2] \notin Legacy => WorkAsked(w)'
    <3>1. mem'[w] = row /\ todo'[w] = Tail(todo[w]) /\ pc'[w] # "reload"
      BY <1>7, <2>1 DEF TrySlot, NextTry, TypeOK
    <3>2. w[2] \notin Legacy => Members(todo[w]) \subseteq Orderable(w[2])
      BY <1>e, <2>1 DEF WorkAsked, Trying
    <3> HIDE DEF row
    <3> QED BY <1>0, <1>e, <1>g, <2>2, <2>3, <3>1, <3>2 DEF WorkAsked
  <2> QED BY <1>7, <1>a, <1>b, <1>r, <2>4, <2>5, <2>6 DEF TrySlot, AskedInv
<1>8. CASE Execute(w)
  <2>1. /\ \A v \in Workers \ {w} : pc'[v] = pc[v]
        /\ pc'[w] \in {"won", "refused"} /\ pc[w] = "exec" /\ UNCHANGED <<mem, todo, db>>
        /\ orders' = orders \/ orders' = orders \cup {<<w[2], mem[w].slot>>}
    BY <1>8 DEF Execute, Accepted, Refused, TypeOK
  <2>2. w[2] \notin Legacy => /\ mem[w].slot \in Orderable(w[2])
                              /\ Members(todo[w]) \subseteq Orderable(w[2])
    BY <1>e, <2>1 DEF WorkAsked, Trying
  <2>3. w[2] \notin Legacy => WorkAsked(w)'
    BY <1>0, <1>e, <1>g, <2>1, <2>2 DEF WorkAsked
  <2>4. \A o \in orders' : o[1] \notin Legacy => (o[2] \in Orderable(o[1]))'
    BY <1>0, <1>g, <2>1, <2>2 DEF AskedInv, TypeOK
  <2> QED BY <1>b, <1>d, <1>r, <2>1, <2>3, <2>4 DEF AskedInv
<1>9. CASE SaveResult(w)
  <2>1. PICK row \in Results(w) :
          mem' = [mem EXCEPT ![w] = row] /\ IgnoredWrite(w[1], w[2], row)
    BY <1>9 DEF SaveResult
  <2>2. row.plan = mem[w].plan
    BY <1>p, <2>1 DEF Results
  <2>3. \A r \in Rows \ Legacy : (db[r].plan \subseteq AskedFor(r))'
    BY <1>c, <1>e, <2>1, <2>2
  <2>4. /\ \A v \in Workers \ {w} : mem'[v] = mem[v] /\ pc'[v] = pc[v]
        /\ mem'[w] = row /\ todo' = todo
        /\ pc'[w] = "logwon" \/ (pc'[w] = "logrefused" /\ pc[w] = "refused")
    BY <1>9, <2>1 DEF SaveResult, TypeOK
  <2>5. w[2] \notin Legacy => WorkAsked(w)'
    BY <1>0, <1>e, <1>g, <2>2, <2>4 DEF WorkAsked, Trying
  <2> QED BY <1>9, <1>a, <1>b, <1>r, <2>3, <2>4, <2>5 DEF SaveResult, AskedInv
<1>10. CASE WriteLog(w)
  <2>1. /\ \A v \in Workers \ {w} : pc'[v] = pc[v]
        /\ pc'[w] \in {"done", "abort"} \/ (pc'[w] = "try" /\ pc[w] = "logrefused")
    BY <1>10 DEF WriteLog, AfterLog, NextTry, TypeOK
  <2>2. UNCHANGED <<mem, todo, db, orders>>
    BY <1>10 DEF WriteLog
  <2>3. w[2] \notin Legacy => WorkAsked(w)'
    BY <1>0, <1>e, <1>g, <2>1, <2>2 DEF WorkAsked, Trying
  <2> QED BY <1>a, <1>b, <1>d, <1>r, <2>1, <2>2, <2>3 DEF AskedInv
<1>11. CASE TriggerReload(w)
  <2>1. /\ \A v \in Workers \ {w} : mem'[v] = mem[v] /\ pc'[v] = pc[v]
        /\ UNCHANGED <<todo, db, orders>> /\ pc[w] = "reload"
        /\ \/ pc'[w] = "exec" /\ mem'[w] = db[w[2]]
           \/ pc'[w] = "done" /\ mem'[w] = mem[w]
    BY <1>11 DEF TriggerReload, TypeOK
  <2>2. w[2] \notin Legacy => WorkAsked(w)'
    BY <1>e, <2>1 DEF WorkAsked
  <2> QED BY <1>a, <1>b, <1>d, <1>r, <2>1, <2>2 DEF AskedInv
<1> QED BY <1>2, <1>3, <1>4, <1>5, <1>6, <1>7, <1>8, <1>9, <1>10, <1>11 DEF WorkerStep

LEMMA AskedStep ==
  ASSUME TypeOK, LaneInv, AskedInv, [Next]_vars
  PROVE  AskedInv'
<1>g. \A r \in Rows : /\ AskedFor(r) \subseteq AskedFor(r)'
                      /\ Orderable(r) \subseteq Orderable(r)'
  BY AskedGrows
<1>p. NoRow.plan = {}
  BY DEF NoRow, NewRow
<1>a. ASSUME UNCHANGED orders PROVE \A o \in orders' : o[1] \notin Legacy => (o[2] \in Orderable(o[1]))'
  BY <1>a, <1>g DEF AskedInv, TypeOK
<1>b. ASSUME UNCHANGED <<input, now>>, \A q \in Requests : hpc'[q] = "idle" => hpc[q] = "idle"
      PROVE  \A q \in Requests : RequestAsked(q)'
  BY <1>b DEF AskedInv, RequestAsked, WindowOpen
<1>c. ASSUME \A r \in Rows \ Legacy : db'[r].plan = db[r].plan
      PROVE  \A r \in Rows \ Legacy : (db[r].plan \subseteq AskedFor(r))'
  BY <1>c, <1>g DEF AskedInv
<1>d. ASSUME \A w \in Workers :
               w[2] \notin Legacy =>
                 \/ mem'[w] = mem[w] /\ pc'[w] = pc[w] /\ todo'[w] = todo[w]
                 \/ mem'[w] = NoRow /\ pc'[w] = "idle"
                 \/ mem'[w] = db[w[2]] /\ pc'[w] = "claim"
      PROVE  \A w \in Workers : w[2] \notin Legacy => WorkAsked(w)'
  <2> SUFFICES ASSUME NEW w \in Workers, w[2] \notin Legacy PROVE WorkAsked(w)'
    OBVIOUS
  <2>1. CASE mem'[w] = mem[w] /\ pc'[w] = pc[w] /\ todo'[w] = todo[w]
    BY <2>1, WorkStays
  <2>2. CASE mem'[w] = NoRow /\ pc'[w] = "idle"
    BY <1>p, <2>2, WorkRests DEF Trying
  <2>3. CASE mem'[w] = db[w[2]] /\ pc'[w] = "claim"
    BY <1>g, <2>3, WorkRests, WorkerFacts DEF AskedInv, Trying
  <2> QED BY <1>d, <2>1, <2>2, <2>3
<1>1. ASSUME NEW q \in Requests, RequestStep(q) PROVE AskedInv'
  BY <1>1, AskedRequest
<1>2. ASSUME NEW w \in Workers, WorkerStep(w) PROVE AskedInv'
  BY <1>2, AskedWorker
<1>3. ASSUME NEW b \in Batches, BatchList(b) PROVE AskedInv'
  <2>1. UNCHANGED <<db, orders, input, now, todo>>
    BY <1>3 DEF BatchList
  <2>2. \A q \in Requests : hpc'[q] = hpc[q]
    BY <1>3, HandlersAssumption DEF BatchList, TypeOK
  <2>3. \A w \in Workers : w[2] \notin Legacy => WorkAsked(w)'
    BY <1>3, <1>d DEF BatchList, TypeOK
  <2> QED BY <1>a, <1>b, <1>c, <2>1, <2>2, <2>3 DEF AskedInv
<1>4. ASSUME NEW b \in Batches, Sweep(b) PROVE AskedInv'
  <2>1. UNCHANGED <<orders, input, now, todo>>
    BY <1>4 DEF Sweep
  <2>2. \A q \in Requests : hpc'[q] = hpc[q]
    BY <1>4, HandlersAssumption DEF Sweep, TypeOK
  <2>3. \A r \in Rows : db'[r].plan = db[r].plan
    <3>1. \A r \in Rows : db'[r] = db[r] \/ db'[r] = [db[r] EXCEPT !.status = "expired"]
      BY <1>4 DEF Sweep, Swept
    <3>2. \A row \in RowType : [row EXCEPT !.status = "expired"].plan = row.plan
      BY DEF RowType
    <3> QED BY <3>1, <3>2 DEF TypeOK
  <2>4. \A w \in Workers : w[2] \notin Legacy => WorkAsked(w)'
    BY <1>4, <1>d DEF Sweep, TypeOK
  <2> QED BY <1>a, <1>b, <1>c, <2>1, <2>2, <2>3, <2>4 DEF AskedInv
<1>5. ASSUME NEW t \in Triggers, NEW r \in Rows, TriggerClaim(t, r) PROVE AskedInv'
  <2>1. UNCHANGED <<orders, input, now, todo, mem>> /\ r \in Legacy
    BY <1>5 DEF TriggerClaim, Triggerable, LaneInv
  <2>2. \A q \in Requests : hpc'[q] = hpc[q]
    <3>1. UNCHANGED hpc \/ hpc' = [hpc EXCEPT ![t] = "running"]
      BY <1>5 DEF TriggerClaim
    <3>2. t \notin Requests /\ Requests \subseteq Handlers
      BY HandlersAssumption DEF Handlers
    <3> QED BY <3>1, <3>2 DEF TypeOK
  <2>3. \A x \in Rows \ Legacy : db'[x] = db[x]
    BY <1>5, <2>1 DEF TriggerClaim, Write, FailedWrite, TypeOK
  <2>4. \A w \in Workers : w[2] \notin Legacy => pc'[w] = pc[w]
    BY <1>5, <2>1 DEF TriggerClaim, TypeOK
  <2> QED BY <1>a, <1>b, <1>c, <1>d, <2>1, <2>2, <2>3, <2>4 DEF AskedInv
<1>6. ASSUME NEW t \in Triggers, TriggerReturn(t) PROVE AskedInv'
  <2>1. UNCHANGED <<db, orders, input, now, todo>>
    BY <1>6 DEF TriggerReturn
  <2>2. \A q \in Requests : hpc'[q] = hpc[q]
    BY <1>6, HandlersAssumption DEF TriggerReturn, TypeOK
  <2>3. \A w \in Workers : w[2] \notin Legacy => WorkAsked(w)'
    BY <1>6, <1>d DEF TriggerReturn, TypeOK
  <2> QED BY <1>a, <1>b, <1>c, <2>1, <2>2, <2>3 DEF AskedInv
<1>7. CASE Crash
  <2>1. UNCHANGED <<db, orders, input, now>> /\ \A q \in Requests : hpc'[q] = "idle" => hpc[q] = "idle"
    BY <1>7, WorkerFacts DEF Crash, TypeOK
  <2>2. \A w \in Workers : w[2] \notin Legacy => WorkAsked(w)'
    BY <1>7, <1>d DEF Crash
  <2> QED BY <1>a, <1>b, <1>c, <2>1, <2>2 DEF AskedInv
<1>8. CASE Tick
  <2>1. ASSUME NEW q \in Requests PROVE RequestAsked(q)'
    <3>1. \A s \in Slots : WindowOpen(s) => WindowOpen(s)'
      BY <1>8, SlotsAssumption DEF Tick, WindowOpen, TypeOK
    <3>2. Members(input[q].open) \subseteq Slots /\ UNCHANGED <<input, hpc>>
      BY <1>8 DEF Tick, Members, TypeOK
    <3> QED BY <3>1, <3>2 DEF AskedInv, RequestAsked
  <2> QED BY <1>8, <1>a, <1>c, <1>d, <2>1 DEF Tick, AskedInv
<1>9. CASE (\E h \in Handlers : Cancel(h)) \/ UNCHANGED vars
  <2>1. UNCHANGED <<db, orders, input, now, hpc, pc, mem, todo>>
    BY <1>9 DEF Cancel, vars
  <2> QED BY <1>a, <1>b, <1>c, <1>d, <2>1 DEF AskedInv
<1> QED BY <1>1, <1>2, <1>3, <1>4, <1>5, <1>6, <1>7, <1>8, <1>9 DEF Next

LEMMA AskedInvariant == Spec => [](TypeInv /\ AskedInv)
<1>1. Init => LaneInv
  BY LaneInit
<1>2. TypeInv /\ BackedInv /\ LaneInv /\ [Next]_vars => LaneInv'
  BY LaneStep
<1>3. TypeInv /\ LaneInv /\ AskedInv /\ [Next]_vars => AskedInv'
  BY AskedStep DEF TypeInv
<1> QED BY <1>1, <1>2, <1>3, TypeInvariant, BackedInit, BackedStep, AskedInit, PTL DEF Spec

\* Whatever fails and however many batches overlap, TYYS is never asked for a
\* slot that the row's request did not ask for.
THEOREM OrdersWereAsked == Spec => []OrderWasAsked
<1>1. TypeInv /\ AskedInv => OrderWasAsked
  BY AskedImplies DEF TypeInv
<1> QED BY <1>1, AskedInvariant, PTL

\* Nor before the slot's window opens, though a plan is due with its earliest.
THEOREM OrdersAreInTime == Spec => []NoEarlyOrder
<1>1. TypeInv /\ AskedInv => NoEarlyOrder
  BY AskedImplies DEF TypeInv
<1> QED BY <1>1, AskedInvariant, PTL

(***************************************************************************)
(* The answer of a submit, as long as no answer of TYYS is lost: an order  *)
(* of the live row is in the hands of its worker, whose copy will say so   *)
(* when SubmitOrPlan looks at it.  Saves may fail: it looks at the copy.   *)
(***************************************************************************)
NoAnswerLost == Faults \subseteq {"db"}

Ordered(q) == \E s \in Slots : <<Live(q), s>> \in orders
InHand(q) ==
  \/ pc[LiveWorker(q)] = "won"
  \/ pc[LiveWorker(q)] \in {"logwon", "done"} /\ mem[LiveWorker(q)].status = "success"

ReplyInv ==
  \A q \in Requests :
    /\ Ordered(q) => hpc[q] = "live" \/ (hpc[q] = "trying" /\ InHand(q))
    /\ hpc[q] = "live" => Ordered(q)

LEMMA ReplyStep ==
  ASSUME NoAnswerLost, TypeInv, BackedInv, LaneInv, RequestInv, ReplyInv, [Next]_vars
  PROVE  ReplyInv'
<1>0. TypeOK
  BY DEF TypeInv
<1> SUFFICES ASSUME NEW q \in Requests
             PROVE  /\ Ordered(q)' => hpc'[q] = "live" \/ (hpc'[q] = "trying" /\ InHand(q)')
                    /\ hpc'[q] = "live" => Ordered(q)'
  BY DEF ReplyInv
<1> DEFINE W == LiveWorker(q)
           Goal == /\ Ordered(q)' => hpc'[q] = "live" \/ (hpc'[q] = "trying" /\ InHand(q)')
                   /\ hpc'[q] = "live" => Ordered(q)'
<1>i. /\ Ordered(q) => hpc[q] = "live" \/ (hpc[q] = "trying" /\ InHand(q))
      /\ hpc[q] = "live" => Ordered(q)
      /\ pc[W] # "idle" => hpc[q] = "trying"
  BY DEF ReplyInv, RequestInv
<1>b. /\ q \in Handlers /\ q \notin Batches /\ q \notin Triggers
      /\ W \in Workers /\ W[1] = q /\ W[2] = Live(q)
      /\ Live(q) \in Rows /\ Live(q) \notin Plans /\ Live(q) \notin Legacy
  BY WorkerFacts, HandlersAssumption, LanesDisjoint
\* a step of somebody else
<1>a. ASSUME hpc'[q] = hpc[q], pc'[W] = pc[W], mem'[W] = mem[W], Ordered(q)' <=> Ordered(q)
      PROVE  Goal
  BY <1>a, <1>i DEF InHand
<1>1. ASSUME NEW p \in Requests, RequestStep(p), p # q PROVE Goal
  <2>1. LiveWorker(p) # W /\ LiveWorker(p) \in Workers /\ p \in Handlers
    BY <1>1, WorkerFacts
  <2>2. hpc'[q] = hpc[q] /\ pc'[W] = pc[W] /\ mem'[W] = mem[W] /\ orders' = orders
    BY <1>0, <1>1, <1>b, <2>1
       DEF RequestStep, PostSubmit, PostPlan, CreateLive, SubmitDone, Fallback, TypeOK
  <2> QED BY <1>a, <2>2 DEF Ordered
<1>2. CASE PostSubmit(q) \/ PostPlan(q) \/ CreateLive(q) \/ Fallback(q)
  <2>1. hpc[q] \in {"idle", "create", "fallback"} /\ orders' = orders
    BY <1>2 DEF PostSubmit, PostPlan, CreateLive, Fallback
  <2>2. hpc'[q] # "live"
    BY <1>0, <1>2, <1>b DEF PostSubmit, PostPlan, CreateLive, Fallback, TypeOK
  <2> QED BY <1>i, <2>1, <2>2 DEF Ordered
<1>3. CASE SubmitDone(q)
  <2>1. /\ hpc[q] = "trying" /\ pc[W] = "done" /\ orders' = orders
        /\ hpc'[q] = IF Submitted(q) THEN "live" ELSE "fallback"
    BY <1>0, <1>3, <1>b DEF SubmitDone, TypeOK
  <2>2. Submitted(q) => Ordered(q)
    <3>1. Backed(Live(q), mem[W])
      BY <1>b DEF BackedInv
    <3> QED BY <1>0, <3>1 DEF Submitted, Backed, Ordered, TypeOK
  <2>3. Ordered(q) => Submitted(q)
    BY <1>i, <2>1 DEF InHand, Submitted
  <2> QED BY <2>1, <2>2, <2>3 DEF Ordered
<1>4. ASSUME NEW w \in Workers, WorkerStep(w), w # W PROVE Goal
  <2>1. hpc' = hpc /\ pc'[W] = pc[W] /\ mem'[W] = mem[W]
    BY <1>4, <1>b, WorkerEffect DEF Effect, EffectFrame
  <2>2. orders' = orders \/ (pc[w] = "exec" /\ orders' = orders \cup {<<w[2], mem[w].slot>>})
    BY <1>4 DEF WorkerStep, ClaimScheduled, ClaimFailed, Resolve, Abort, AbortLog, TrySlot,
       Execute, Accepted, Refused, SaveResult, WriteLog, TriggerReload
  <2>3. pc[w] = "exec" => w[2] # Live(q)
    <3>1. w[1] \in Requests => w = LiveWorker(w[1]) /\ w[2] = Live(w[1])
      BY WorkerFacts
    <3>2. w[1] \in Requests \cup Batches \cup Triggers
      BY WorkerFacts DEF Handlers
    <3> QED BY <1>4, <1>b, <3>1, <3>2, LanesDisjoint DEF LaneInv
  <2> QED BY <1>a, <2>1, <2>2, <2>3 DEF Ordered
<1>5. CASE WorkerStep(W)
  <2>1. hpc' = hpc
    BY <1>5, <1>b, WorkerEffect DEF Effect, EffectFrame
  <2>2. CASE Execute(W)
    <3>1. pc[W] = "exec" /\ mem' = mem
      BY <2>2 DEF Execute
    <3>2. hpc[q] = "trying" /\ ~ Ordered(q)
      BY <1>i, <3>1 DEF InHand
    <3>3. orders' = orders \/ pc'[W] = "won"
      <4>1. "lost" \notin Faults /\ "cancel" \notin Faults
        BY DEF NoAnswerLost
      <4>2. orders' = orders \/ pc' = [pc EXCEPT ![W] = "won"]
        BY <2>2, <4>1 DEF Execute, Accepted, Refused
      <4> QED BY <1>0, <1>b, <4>2 DEF TypeOK
    <3> QED BY <2>1, <3>2, <3>3 DEF Ordered, InHand
  <2>3. CASE SaveResult(W)
    <3>1. PICK row \in Results(W) : mem' = [mem EXCEPT ![W] = row]
      BY <2>3 DEF SaveResult
    <3>2. /\ pc[W] \in {"won", "refused"} /\ orders' = orders /\ mem'[W] = row
          /\ pc[W] = "won" => pc'[W] = "logwon"
      BY <1>0, <1>b, <2>3, <3>1 DEF SaveResult, TypeOK
    <3>3. pc[W] = "won" => row.status = "success"
      <4>1. mem[W] \in RowType /\ \A m \in RowType : \A o : Booked(m, o).status = "success"
        BY <1>0, <1>b DEF TypeOK, Booked, RowType
      <4> QED BY <3>1, <4>1 DEF Results
    <3>4. hpc[q] = "trying"
      BY <1>i, <3>2
    <3> QED BY <1>i, <2>1, <3>2, <3>3, <3>4 DEF Ordered, InHand
  <2>4. CASE WriteLog(W)
    <3>1. /\ pc[W] \in {"logwon", "logrefused"} /\ orders' = orders /\ mem' = mem
          /\ pc[W] = "logwon" => pc'[W] = "done"
      BY <1>0, <1>b, <2>4 DEF WriteLog, AfterLog, TypeOK
    <3>2. hpc[q] = "trying"
      BY <1>i, <3>1
    <3> QED BY <1>i, <2>1, <3>1, <3>2 DEF Ordered, InHand
  <2>5. CASE \/ ClaimScheduled(W) \/ ClaimFailed(W) \/ Resolve(W) \/ Abort(W)
             \/ AbortLog(W) \/ TrySlot(W) \/ TriggerReload(W)
    <3>1. /\ orders' = orders
          /\ pc[W] \in {"claim", "reclaim", "resolve", "abort", "abortlog", "try", "reload"}
      BY <2>5 DEF ClaimScheduled, ClaimFailed, Resolve, Abort, AbortLog, TrySlot, TriggerReload
    <3>2. hpc[q] = "trying" /\ ~ Ordered(q)
      BY <1>i, <3>1 DEF InHand
    <3> QED BY <2>1, <3>1, <3>2 DEF Ordered
  <2> QED BY <1>5, <2>2, <2>3, <2>4, <2>5 DEF WorkerStep
<1>6. ASSUME NEW b \in Batches, BatchList(b) \/ Sweep(b) PROVE Goal
  <2>1. b # q
    BY <1>b
  <2>2. hpc'[q] = hpc[q] /\ pc'[W] = pc[W] /\ mem'[W] = mem[W] /\ orders' = orders
    BY <1>0, <1>6, <1>b, <2>1 DEF BatchList, Sweep, TypeOK
  <2> QED BY <1>a, <2>2 DEF Ordered
<1>7. ASSUME NEW t \in Triggers, NEW r \in Rows, TriggerClaim(t, r) PROVE Goal
  <2>1. t # q /\ W # <<t, r>>
    BY <1>b
  <2>2. /\ UNCHANGED hpc \/ hpc' = [hpc EXCEPT ![t] = "running"]
        /\ UNCHANGED pc \/ pc' = [pc EXCEPT ![<<t, r>>] = "reload"]
        /\ UNCHANGED <<mem, orders>>
    BY <1>7 DEF TriggerClaim
  <2>3. hpc'[q] = hpc[q] /\ pc'[W] = pc[W]
    BY <1>0, <1>b, <2>1, <2>2 DEF TypeOK
  <2> QED BY <1>a, <2>2, <2>3 DEF Ordered
<1>8. ASSUME NEW t \in Triggers, TriggerReturn(t) PROVE Goal
  <2>1. t # q
    BY <1>b
  <2>2. hpc'[q] = hpc[q] /\ pc'[W] = pc[W] /\ mem'[W] = mem[W] /\ orders' = orders
    BY <1>0, <1>8, <1>b, <2>1 DEF TriggerReturn, TypeOK
  <2> QED BY <1>a, <2>2 DEF Ordered
<1>9. CASE Tick \/ (\E h \in Handlers : Cancel(h)) \/ UNCHANGED vars
  BY <1>a, <1>9 DEF Tick, Cancel, vars, Ordered
<1>10. CASE Crash
  BY <1>10 DEF Crash, NoAnswerLost
<1> QED BY <1>1, <1>2, <1>3, <1>4, <1>5, <1>6, <1>7, <1>8, <1>9, <1>10 DEF Next, RequestStep

\* If no answer of TYYS is lost, SubmitOrPlan says "not planned" with an order in
\* hand, and plans or fails without one, also when every save of a result fails.
THEOREM RepliesAreTrue ==
  ASSUME NoAnswerLost PROVE Spec => []ReplyMatchesOrders
<1>1. Init => LaneInv /\ RequestInv /\ ReplyInv
  <2>1. Init => ReplyInv
    BY WorkerFacts DEF Init, ReplyInv, Ordered
  <2> QED BY <2>1, LaneInit
<1>2. TypeInv /\ BackedInv /\ LaneInv /\ [Next]_vars => LaneInv'
  BY LaneStep
<1>3. TypeInv /\ BackedInv /\ LaneInv /\ RequestInv /\ [Next]_vars => RequestInv'
  BY RequestInvStep
<1>4. TypeInv /\ BackedInv /\ LaneInv /\ RequestInv /\ ReplyInv /\ [Next]_vars => ReplyInv'
  BY ReplyStep
<1>5. ReplyInv => ReplyMatchesOrders
  BY DEF ReplyInv, ReplyMatchesOrders, Ordered
<1> QED BY <1>1, <1>2, <1>3, <1>4, <1>5, TypeInvariant, BackedInit, BackedStep, PTL DEF Spec

(***************************************************************************)
(* Without faults, and with one scheduler, an order is written back before *)
(* anybody else can touch its row, so a row has one order at most: whoever *)
(* executes works on a row that is not a success (WriterInv), alone        *)
(* (OneWorkerPerRow), and the order of any other row is on record.         *)
(***************************************************************************)
Faultless == Faults = {}

\* An order is in hand, or on record.
Won(w, o) == w[2] = o[1] /\ pc[w] = "won" /\ mem[w].slot = o[2]
OnRecord(o) ==
  /\ db[o[1]].status = "success" /\ db[o[1]].slot = o[2]
  /\ \/ <<o[1], TRUE>> \in log
     \/ \E w \in Workers : w[2] = o[1] /\ pc[w] = "logwon"

Recorded == \A o \in orders : (\E w \in Workers : Won(w, o)) \/ OnRecord(o)

LEMMA RecordedIsWritten ==
  (OrderWrittenBack <=> Recorded) /\ (OrderWrittenBack' <=> Recorded')
  BY Zenon DEF OrderWrittenBack, Recorded, Won, OnRecord

WrittenInv ==
  /\ cancelled = {}
  /\ \A h \in Batches \cup Triggers :
       hpc[h] = "idle" => \A w \in Workers : w[1] = h => pc[w] = "idle"
  /\ OneOrderPerRow
  /\ Recorded

\* A worker about to execute, or refused, is alone with a row nobody ordered for.
LEMMA NoOrderYet ==
  ASSUME OneWorkerPerRow, WriterInv, WrittenInv,
         NEW w \in Workers, pc[w] \in {"exec", "refused"}, NEW o \in orders
  PROVE  o[1] # w[2]
<1> SUFFICES ASSUME o[1] = w[2] PROVE FALSE
  OBVIOUS
<1>1. db[w[2]].status # "success"
  BY DEF WriterInv, Writing, Executing
<1>2. (\E v \in Workers : Won(v, o)) \/ OnRecord(o)
  BY Zenon DEF WrittenInv, Recorded
<1>3. ~ OnRecord(o)
  BY <1>1 DEF OnRecord
<1>4. PICK v \in Workers : Won(v, o)
  BY <1>2, <1>3, Zenon
<1>5. v[2] = o[1] /\ pc[v] = "won"
  BY <1>4 DEF Won
<1> QED BY <1>5 DEF OneWorkerPerRow, Executing

\* A step that orders nothing, takes no row back and leaves those who have an
\* order in hand alone.
LEMMA WrittenStays ==
  ASSUME TypeOK, Recorded, SuccessStays, UNCHANGED orders, log \subseteq log',
         \A w \in Workers : pc[w] \in {"won", "logwon"} => pc'[w] = pc[w] /\ mem'[w] = mem[w]
  PROVE  Recorded'
<1> SUFFICES ASSUME NEW o \in orders
             PROVE  (\E w \in Workers : Won(w, o)') \/ OnRecord(o)'
  BY DEF Recorded
<1>1. o[1] \in Rows
  BY DEF TypeOK
<1>2. CASE \E w \in Workers : Won(w, o)
  BY <1>2 DEF Won
<1>3. CASE OnRecord(o)
  <2>1. db'[o[1]] = db[o[1]]
    BY <1>1, <1>3 DEF OnRecord, SuccessStays
  <2> QED BY <1>3, <2>1 DEF OnRecord
<1> QED BY <1>2, <1>3 DEF Recorded

LEMMA WrittenWorker ==
  ASSUME Faultless, TypeInv, BackedInv, OneWorkerPerRow, WriterInv, WrittenInv, SuccessStays,
         NEW w \in Workers, WorkerStep(w)
  PROVE  OneOrderPerRow' /\ Recorded'
<1>0. TypeOK /\ w[2] \in Rows /\ w[1] \notin cancelled /\ ~ DbFails(w[1])
  BY WorkerFacts DEF TypeInv, WrittenInv, Faultless, DbFails
<1>f. Effect(w)
  BY WorkerEffect
<1>a. ASSUME UNCHANGED orders, log' = log, pc[w] \notin {"won", "logwon"}
      PROVE  OneOrderPerRow' /\ Recorded'
  <2>1. \A v \in Workers : pc[v] \in {"won", "logwon"} => pc'[v] = pc[v] /\ mem'[v] = mem[v]
    BY <1>f, <1>a DEF Effect, EffectFrame
  <2> QED BY <1>0, <1>a, <2>1, WrittenStays DEF WrittenInv, OneOrderPerRow
<1>1. CASE Execute(w)
  <2>1. /\ pc[w] = "exec" /\ UNCHANGED <<db, log, mem>>
        /\ \/ UNCHANGED orders
           \/ orders' = orders \cup {<<w[2], mem[w].slot>>} /\ pc' = [pc EXCEPT ![w] = "won"]
    BY <1>1 DEF Execute, Accepted, Refused, Faultless
  <2>2. CASE UNCHANGED orders
    BY <1>a, <2>1, <2>2
  <2>3. CASE orders' = orders \cup {<<w[2], mem[w].slot>>} /\ pc' = [pc EXCEPT ![w] = "won"]
    <3>1. \A o \in orders : o[1] # w[2]
      BY <2>1, NoOrderYet
    <3>2. OneOrderPerRow'
      BY <2>3, <3>1 DEF OneOrderPerRow, WrittenInv
    <3>3. \A v \in Workers \ {w} : pc'[v] = pc[v]
      BY <1>f DEF Effect, EffectFrame
    <3>4. Won(w, <<w[2], mem[w].slot>>)'
      BY <1>0, <2>1, <2>3 DEF Won, TypeOK
    <3>5. ASSUME NEW o \in orders PROVE (\E v \in Workers : Won(v, o)') \/ OnRecord(o)'
      <4>1. CASE \E v \in Workers : Won(v, o)
        BY <2>1, <3>3, <4>1 DEF Won
      <4>2. CASE OnRecord(o)
        BY <2>1, <3>3, <4>2 DEF OnRecord
      <4> QED BY <4>1, <4>2 DEF WrittenInv, Recorded
    <3>6. ASSUME NEW o \in orders' PROVE (\E v \in Workers : Won(v, o)') \/ OnRecord(o)'
      <4>1. CASE o \in orders
        BY <3>5, <4>1, Zenon
      <4>2. CASE o = <<w[2], mem[w].slot>>
        <5>1. Won(w, o)'
          BY <2>1, <3>4, <4>2 DEF Won
        <5> QED BY <5>1, Zenon
      <4>3. o \in orders \/ o = <<w[2], mem[w].slot>>
        BY <2>3
      <4> QED BY <4>1, <4>2, <4>3, Zenon
    <3>7. Recorded'
      BY <3>6, Zenon DEF Recorded
    <3> QED BY <3>2, <3>7
  <2> QED BY <2>1, <2>2, <2>3
<1>2. CASE SaveResult(w) /\ pc[w] = "refused"
  BY <1>2, <1>a DEF SaveResult
<1>3. CASE SaveResult(w) /\ pc[w] = "won"
  <2>1. PICK row \in Results(w) :
          mem' = [mem EXCEPT ![w] = row] /\ db' = [db EXCEPT ![w[2]] = row]
    BY <1>0, <1>3 DEF SaveResult, IgnoredWrite, Write
  <2>2. row.status = "success" /\ row.slot = mem[w].slot
    <3>1. mem[w] \in RowType
      BY <1>0 DEF TypeOK
    <3>2. \A m \in RowType : \A o : Booked(m, o).status = "success" /\ Booked(m, o).slot = m.slot
      BY DEF Booked, RowType
    <3> QED BY <1>3, <2>1, <3>1, <3>2 DEF Results
  <2>3. /\ UNCHANGED <<orders, log>> /\ pc'[w] = "logwon" /\ db'[w[2]] = row
        /\ \A v \in Workers \ {w} : pc'[v] = pc[v] /\ mem'[v] = mem[v]
        /\ \A r \in Rows \ {w[2]} : db'[r] = db[r]
    BY <1>0, <1>3, <2>1 DEF SaveResult, TypeOK
  <2>4. ASSUME NEW o \in orders PROVE (\E v \in Workers : Won(v, o)') \/ OnRecord(o)'
    <3>0. o[1] \in Rows
      BY <1>0 DEF TypeOK
    <3>1. CASE \E v \in Workers \ {w} : Won(v, o)
      BY <2>3, <3>1 DEF Won
    <3>2. CASE Won(w, o)
      BY <2>2, <2>3, <3>2 DEF Won, OnRecord
    <3>3. CASE OnRecord(o)
      <4>1. o[1] # w[2]
        BY <1>3, <3>3 DEF OnRecord, WriterInv, Writing, Executing
      <4> QED BY <1>3, <2>3, <3>0, <3>3, <4>1 DEF OnRecord
    <3> QED BY <3>1, <3>2, <3>3 DEF WrittenInv, Recorded
  <2> QED BY <2>3, <2>4 DEF OneOrderPerRow, Recorded, WrittenInv
<1>4. CASE WriteLog(w)
  <2>1. /\ log' = log \cup {<<w[2], pc[w] = "logwon">>}
        /\ UNCHANGED <<orders, db, mem>> /\ pc[w] \in {"logwon", "logrefused"}
        /\ \A v \in Workers \ {w} : pc'[v] = pc[v]
    BY <1>0, <1>4 DEF WriteLog, IgnoredLog, TypeOK
  <2>2. ASSUME NEW o \in orders PROVE (\E v \in Workers : Won(v, o)') \/ OnRecord(o)'
    <3>1. CASE \E v \in Workers : Won(v, o)
      BY <2>1, <3>1 DEF Won
    <3>2. CASE OnRecord(o)
      BY <2>1, <3>2 DEF OnRecord
    <3> QED BY <3>1, <3>2 DEF WrittenInv, Recorded
  <2> QED BY <2>1, <2>2 DEF OneOrderPerRow, Recorded, WrittenInv
<1>5. CASE AbortLog(w)
  <2>1. /\ log \subseteq log' /\ UNCHANGED orders /\ pc[w] = "abortlog"
    BY <1>5 DEF AbortLog, IgnoredLog
  <2>2. \A v \in Workers : pc[v] \in {"won", "logwon"} => pc'[v] = pc[v] /\ mem'[v] = mem[v]
    BY <1>f, <2>1 DEF Effect, EffectFrame
  <2> QED BY <1>0, <2>1, <2>2, WrittenStays DEF WrittenInv, OneOrderPerRow
<1>6. CASE \/ ClaimScheduled(w) \/ ClaimFailed(w) \/ Resolve(w) \/ Abort(w)
           \/ TrySlot(w) \/ TriggerReload(w)
  BY <1>a, <1>6 DEF ClaimScheduled, ClaimFailed, Resolve, Abort, TrySlot, TriggerReload
<1>7. SaveResult(w) => pc[w] \in {"won", "refused"}
  BY DEF SaveResult
<1> QED BY <1>1, <1>2, <1>3, <1>4, <1>5, <1>6, <1>7 DEF WorkerStep

LEMMA WrittenStep ==
  ASSUME Faultless, SingleScheduler, TypeInv, BackedInv, LaneInv, RequestInv, WriterInv,
         WrittenInv, [Next]_vars
  PROVE  WrittenInv'
<1>0. TypeOK /\ OneWorkerPerRow /\ SuccessStays
  BY LanesExclude, SuccessStaysStep DEF TypeInv
<1> DEFINE Rest == /\ cancelled' = {}
                   /\ \A h \in Batches \cup Triggers :
                        hpc'[h] = "idle" => \A w \in Workers : w[1] = h => pc'[w] = "idle"
<1>i. /\ cancelled = {}
      /\ \A h \in Batches \cup Triggers :
           hpc[h] = "idle" => \A w \in Workers : w[1] = h => pc[w] = "idle"
  BY DEF WrittenInv
<1>b. \A h \in Batches \cup Triggers : h \in Handlers /\ h \notin Requests
  BY HandlersAssumption DEF Handlers
\* nothing is ordered, and who has an order in hand keeps it
<1>a. ASSUME UNCHANGED <<orders, log>>,
             \A w \in Workers : pc[w] \in {"won", "logwon"} => pc'[w] = pc[w] /\ mem'[w] = mem[w]
      PROVE  OneOrderPerRow' /\ Recorded'
  BY <1>0, <1>a, WrittenStays DEF WrittenInv, OneOrderPerRow
<1>1. ASSUME NEW q \in Requests, RequestStep(q) PROVE WrittenInv'
  <2>1. /\ UNCHANGED <<orders, log, cancelled>>
        /\ \A h \in Batches \cup Triggers : hpc'[h] = hpc[h]
    <3>1. UNCHANGED <<orders, log, cancelled>>
      BY <1>1 DEF RequestStep, PostSubmit, PostPlan, CreateLive, SubmitDone, Fallback
    <3>2. \E x : hpc' = [hpc EXCEPT ![q] = x]
      BY <1>1 DEF RequestStep, PostSubmit, PostPlan, CreateLive, SubmitDone, Fallback
    <3> QED BY <1>0, <1>b, <3>1, <3>2 DEF TypeOK
  <2>2. \A w \in Workers : \/ pc'[w] = pc[w] /\ mem'[w] = mem[w]
                           \/ w = LiveWorker(q) /\ pc[w] \in {"idle", "done"}
    <3>1. CASE PostSubmit(q) \/ PostPlan(q) \/ Fallback(q)
      BY <3>1 DEF PostSubmit, PostPlan, Fallback
    <3>2. CASE CreateLive(q)
      <4>1. pc[LiveWorker(q)] = "idle"
        BY <3>2 DEF CreateLive, RequestInv
      <4> QED BY <1>0, <3>2, <4>1 DEF CreateLive, TypeOK
    <3>3. CASE SubmitDone(q)
      BY <1>0, <3>3 DEF SubmitDone, TypeOK
    <3> QED BY <1>1, <3>1, <3>2, <3>3 DEF RequestStep
  <2>3. Rest
    BY <1>b, <1>i, <2>1, <2>2, WorkerFacts
  <2> QED BY <1>a, <2>1, <2>2, <2>3 DEF WrittenInv
<1>2. ASSUME NEW b \in Batches, BatchList(b) PROVE WrittenInv'
  <2>1. /\ UNCHANGED <<orders, log, cancelled>> /\ hpc[b] = "idle"
        /\ hpc' = [hpc EXCEPT ![b] = "running"]
        /\ \A w \in Workers : w[1] # b => pc'[w] = pc[w] /\ mem'[w] = mem[w]
    BY <1>0, <1>2 DEF BatchList, TypeOK
  <2>2. Rest
    BY <1>0, <1>b, <1>i, <2>1 DEF TypeOK
  <2>3. \A w \in Workers : pc[w] \in {"won", "logwon"} => pc'[w] = pc[w] /\ mem'[w] = mem[w]
    BY <1>i, <2>1
  <2> QED BY <1>a, <2>1, <2>2, <2>3 DEF WrittenInv
<1>3. ASSUME NEW b \in Batches \cup Triggers, Sweep(b) \/ TriggerReturn(b) PROVE WrittenInv'
  <2>1. /\ UNCHANGED <<orders, log>> /\ cancelled' \subseteq cancelled /\ Running(b) = {}
        /\ hpc' = [hpc EXCEPT ![b] = "idle"]
        /\ \A w \in Workers : w[1] # b => pc'[w] = pc[w] /\ mem'[w] = mem[w]
        /\ \A w \in Workers : w[1] = b => pc'[w] = "idle"
    BY <1>0, <1>3 DEF Sweep, TriggerReturn, TypeOK
  <2>2. Rest
    BY <1>0, <1>b, <1>i, <2>1 DEF TypeOK
  <2>3. \A w \in Workers : pc[w] \in {"won", "logwon"} => pc'[w] = pc[w] /\ mem'[w] = mem[w]
    BY <2>1 DEF Running
  <2> QED BY <1>a, <2>1, <2>2, <2>3 DEF WrittenInv
<1>4. ASSUME NEW t \in Triggers, NEW r \in Rows, TriggerClaim(t, r) PROVE WrittenInv'
  <2>1. /\ UNCHANGED <<orders, log, cancelled, mem>> /\ hpc[t] = "idle"
        /\ \/ UNCHANGED <<hpc, pc>>
           \/ hpc' = [hpc EXCEPT ![t] = "running"] /\ pc' = [pc EXCEPT ![<<t, r>>] = "reload"]
    BY <1>4 DEF TriggerClaim
  <2>2. \A w \in Workers : w # <<t, r>> => pc'[w] = pc[w]
    BY <1>0, <2>1 DEF TypeOK
  <2>3. <<t, r>> \in Workers /\ pc[<<t, r>>] = "idle"
    BY <1>i, <2>1, WorkerFacts
  <2>4. Rest
    BY <1>0, <1>b, <1>i, <2>1, <2>2 DEF TypeOK
  <2> QED BY <1>a, <2>1, <2>2, <2>3, <2>4 DEF WrittenInv
<1>5. ASSUME NEW w \in Workers, WorkerStep(w) PROVE WrittenInv'
  <2>1. OneOrderPerRow' /\ Recorded'
    BY <1>0, <1>5, WrittenWorker
  <2>2. cancelled' = {}
    BY <1>5, <1>i DEF WorkerStep, ClaimScheduled, ClaimFailed, Resolve, Abort, AbortLog, TrySlot,
       Execute, Accepted, Refused, SaveResult, WriteLog, TriggerReload, Faultless
  <2>3. hpc' = hpc /\ \A v \in Workers \ {w} : pc'[v] = pc[v]
    BY <1>5, WorkerEffect DEF Effect, EffectFrame
  <2>4. pc[w] # "idle"
    BY <1>5 DEF WorkerStep, ClaimScheduled, ClaimFailed, Resolve, Abort, AbortLog, TrySlot,
       Execute, SaveResult, WriteLog, TriggerReload
  <2> QED BY <1>i, <2>1, <2>2, <2>3, <2>4 DEF WrittenInv
<1>6. CASE Tick \/ (\E h \in Handlers : Cancel(h)) \/ Crash \/ UNCHANGED vars
  <2>1. UNCHANGED <<orders, log, cancelled, hpc, pc, mem>>
    BY <1>6 DEF Tick, Cancel, Crash, vars, Faultless
  <2> QED BY <1>a, <1>i, <2>1 DEF WrittenInv
<1> QED BY <1>1, <1>2, <1>3, <1>4, <1>5, <1>6 DEF Next

LEMMA WrittenInvariant ==
  ASSUME Faultless, SingleScheduler PROVE Spec => []WrittenInv
<1>1. Init => LaneInv /\ RequestInv /\ WriterInv /\ WrittenInv
  <2>1. Init => WrittenInv
    BY DEF Init, WrittenInv, OneOrderPerRow, Recorded
  <2> QED BY <2>1, LaneInit
<1>2. TypeInv /\ BackedInv /\ LaneInv /\ [Next]_vars => LaneInv'
  BY LaneStep
<1>3. TypeInv /\ BackedInv /\ LaneInv /\ RequestInv /\ [Next]_vars => RequestInv'
  BY RequestInvStep
<1>4. TypeInv /\ BackedInv /\ LaneInv /\ RequestInv /\ WriterInv /\ [Next]_vars => WriterInv'
  BY WriterInvStep
<1>5. TypeInv /\ BackedInv /\ LaneInv /\ RequestInv /\ WriterInv /\ WrittenInv /\ [Next]_vars
      => WrittenInv'
  BY WrittenStep
<1> QED BY <1>1, <1>2, <1>3, <1>4, <1>5, TypeInvariant, BackedInit, BackedStep, PTL DEF Spec

\* Without faults and with one scheduler, TYYS never accepts two orders for a row.
THEOREM RowsOrderOnce ==
  ASSUME Faultless, SingleScheduler PROVE Spec => []OneOrderPerRow
<1>1. WrittenInv => OneOrderPerRow
  BY DEF WrittenInv
<1> QED BY <1>1, WrittenInvariant, PTL

\* Without faults and with one scheduler, every order is in the hands of a worker
\* about to write it back, or in its row, and logged.
THEOREM OrdersAreRecorded ==
  ASSUME Faultless, SingleScheduler PROVE Spec => []OrderWrittenBack
<1>1. WrittenInv => OrderWrittenBack
  BY RecordedIsWritten DEF WrittenInv
<1> QED BY <1>1, WrittenInvariant, PTL

(***************************************************************************)
(* The life of rows.  LaneInv and RequestInv say who may enter or take a   *)
(* row, WriterInv that it is no success then, BackedInv that a success     *)
(* comes with an order; the rest is which step of RowLife a step is.       *)
(***************************************************************************)
LEMMA LifeFacts ==
  ASSUME TypeOK
  PROVE  /\ \A r \in Rows : life[r] = Says(db[r].status) /\ life'[r] = Says(db'[r].status)
         /\ life = [r \in Rows |-> life[r]] /\ life' = [r \in Rows |-> life'[r]]
         /\ \A w \in Workers : /\ w \in hands <=> pc[w] \in Writing
                               /\ w \in hands' <=> pc'[w] \in Writing
                               /\ RowOf[w] = w[2]
         /\ hands \subseteq Workers /\ hands' \subseteq Workers
         /\ \A r : Life!Free(r) <=> \A w \in hands : w[2] # r
  BY DEF life, hands, RowOf, Life!Free

\* Nobody gets a row in hand, and rows say what they said.
LEMMA LifeStays ==
  ASSUME TypeOK, UNCHANGED orders,
         \A r \in Rows : Says(db'[r].status) = Says(db[r].status),
         \A w \in Workers : pc'[w] \in Writing => pc[w] \in Writing
  PROVE  Life!Next
<1>1. life' = life
  BY DEF life
<1>2. hands' \subseteq hands
  BY DEF hands
<1> QED BY <1>1, <1>2 DEF Life!Next, Life!Vanish

\* A worker that has its row in hand writes it back, or gives it up.
LEMMA LifeKeeps ==
  ASSUME TypeOK, WriterInv, UNCHANGED orders, NEW w \in Workers, pc[w] \in Writing,
         \A r \in Rows \ {w[2]} : db'[r] = db[r],
         Says(db'[w[2]].status) \in {Says(db[w[2]].status), "waiting"},
         \A v \in Workers \ {w} : pc'[v] = pc[v]
  PROVE  Life!Next
<1>1. w \in hands /\ RowOf[w] = w[2] /\ w[2] \in Rows
  BY LifeFacts, WorkerFacts
<1>2. life[RowOf[w]] # "booked"
  BY <1>1, LifeFacts DEF WriterInv, Says
<1>3. life' = life \/ life' = [life EXCEPT ![RowOf[w]] = "waiting"]
  BY <1>1 DEF life
<1>4. hands' \in {hands, hands \ {w}}
  BY <1>1 DEF hands
<1> QED BY <1>1, <1>2, <1>3, <1>4 DEF Life!Next, Life!Keep

\* A worker that takes, or enters, a row finds it free: it has it alone then.
LEMMA LifeFree ==
  ASSUME TypeOK, OneWorkerPerRow', NEW w \in Workers, pc[w] \notin Writing, pc'[w] \in Writing,
         \A v \in Workers \ {w} : pc'[v] = pc[v]
  PROVE  Life!Free(w[2]) /\ hands' = hands \cup {w}
<1>1. \A v \in Workers : v \in hands => v[2] # w[2]
  BY LifeFacts DEF OneWorkerPerRow, Writing
<1>2. Life!Free(w[2])
  BY <1>1, LifeFacts
<1>3. hands' = hands \cup {w}
  BY DEF hands
<1> QED BY <1>2, <1>3

LEMMA LifeTakes ==
  ASSUME TypeOK, OneWorkerPerRow', UNCHANGED orders, NEW w \in Workers,
         pc[w] \notin Writing, pc'[w] \in Writing,
         \A v \in Workers \ {w} : pc'[v] = pc[v],
         db[w[2]].status \in {"pending", "scheduled", "failed"},
         db' = [db EXCEPT ![w[2]] = Claimed(w[2])]
  PROVE  Life!Next
<1>0. w[2] \in Rows
  BY WorkerFacts
<1>1. life[RowOf[w]] = "waiting" /\ RowOf[w] = w[2]
  BY <1>0, LifeFacts DEF Says
<1>2. Claimed(w[2]).status = "submitting"
  BY <1>0 DEF Claimed, TypeOK, RowType
<1>3. life' = life
  BY <1>0, <1>2 DEF life, Says, TypeOK
<1> QED BY <1>1, <1>3, LifeFree DEF Life!Next, Life!Take

\* A request stores its row.
LEMMA LifeEnters ==
  ASSUME TypeOK, UNCHANGED orders, NEW r \in Rows, db[r].status = "none",
         \A x \in Rows \ {r} : db'[x] = db[x],
         db'[r] = db[r] \/ db'[r].status \in {"scheduled", "submitting"},
         Life!Free(r),
         \/ hands' = hands
         \/ db'[r] # db[r] /\ \E w \in Workers : w[2] = r /\ hands' = hands \cup {w}
  PROVE  Life!Next
<1>1. CASE db'[r] = db[r]
  <2>1. life' = life
    BY <1>1 DEF life
  <2> QED BY <1>1, <2>1 DEF Life!Next, Life!Vanish
<1>2. CASE db'[r].status \in {"scheduled", "submitting"}
  <2>1. life[r] = "absent"
    BY LifeFacts DEF Says
  <2>2. life' = [life EXCEPT ![r] = "waiting"]
    BY <1>2 DEF life, Says
  <2>3. hands' = hands \/ \E w \in Workers : RowOf[w] = r /\ hands' = hands \cup {w}
    BY LifeFacts
  <2>4. Life!Enter(r)
    BY <2>1, <2>2, <2>3 DEF Life!Enter
  <2> QED BY <2>4 DEF Life!Next
<1> QED BY <1>1, <1>2

\* The copy trySlots writes back says of the row that it is to be worked on.
CopyInv ==
  \A w \in Workers :
    pc[w] \in {"claim", "reclaim", "resolve", "try", "logrefused"} =>
      mem[w].status \in {"scheduled", "submitting", "failed"}

LEMMA CopyInvStep ==
  ASSUME TypeOK, CopyInv, [Next]_vars
  PROVE  CopyInv'
<1>0. \A row \in RowType : /\ Failed(row).status = "failed"
                           /\ \A s : WithSlot(row, s).status = row.status
  BY DEF Failed, WithSlot, RowType
\* nobody gets a copy, or some lose theirs
<1>a. ASSUME \A w \in Workers : \/ mem'[w] = mem[w] /\ pc'[w] = pc[w]
                                \/ pc'[w] \in {"idle", "done", "exec", "reload"}
                                \/ mem'[w].status \in {"scheduled", "submitting", "failed"}
      PROVE  CopyInv'
  BY <1>a DEF CopyInv
<1>1. ASSUME NEW q \in Requests, RequestStep(q) PROVE CopyInv'
  <2>1. LiveRow(q).status = "submitting"
    BY DEF LiveRow, NewRow
  <2> QED BY <1>1, <1>a, <2>1 DEF RequestStep, PostSubmit, PostPlan, CreateLive, SubmitDone,
             Fallback, TypeOK
<1>2. ASSUME NEW b \in Batches, BatchList(b) \/ Sweep(b) PROVE CopyInv'
  BY <1>2, <1>a DEF BatchList, Sweep, Due, TypeOK
<1>3. ASSUME NEW w \in Workers, WorkerStep(w) PROVE CopyInv'
  <2>1. \A v \in Workers \ {w} : pc'[v] = pc[v] /\ mem'[v] = mem[v]
    BY <1>3 DEF WorkerStep, ClaimScheduled, ClaimFailed, Transition, Resolve, Abort, AbortLog,
       TrySlot, Execute, Accepted, Refused, SaveResult, WriteLog, TriggerReload, TypeOK
  <2>2. CASE ClaimScheduled(w) \/ ClaimFailed(w) \/ Resolve(w) \/ WriteLog(w)
    <3>1. mem'[w] = mem[w] /\ (pc[w] \in {"claim", "reclaim", "resolve", "logrefused"} \/ pc'[w] = "done")
      BY <2>2 DEF ClaimScheduled, ClaimFailed, Resolve, WriteLog, AfterLog, TypeOK
    <3> QED BY <1>a, <2>1, <3>1 DEF CopyInv
  <2>3. CASE Abort(w) \/ AbortLog(w) \/ Execute(w) \/ TriggerReload(w)
    <3>1. pc'[w] \notin {"claim", "reclaim", "resolve", "try", "logrefused"}
      BY <2>3 DEF Abort, AbortLog, Execute, Accepted, Refused, TriggerReload, TypeOK
    <3> QED BY <2>1, <3>1 DEF CopyInv
  <2>4. CASE TrySlot(w)
    <3>1. mem'[w].status = mem[w].status /\ pc[w] = "try"
      BY <1>0, <2>4 DEF TrySlot, TypeOK
    <3> QED BY <1>a, <2>1, <3>1 DEF CopyInv
  <2>5. CASE SaveResult(w)
    <3>1. CASE pc[w] = "won"
      <4>1. pc'[w] = "logwon"
        BY <2>5, <3>1 DEF SaveResult, TypeOK
      <4> QED BY <2>1, <4>1 DEF CopyInv
    <3>2. CASE pc[w] = "refused"
      <4>1. mem'[w] = Failed(mem[w])
        BY <2>5, <3>2 DEF SaveResult, Results, TypeOK
      <4>2. mem'[w].status = "failed"
        BY <1>0, <4>1 DEF TypeOK
      <4> QED BY <1>a, <2>1, <4>2
    <3> QED BY <2>5, <3>1, <3>2 DEF SaveResult
  <2> QED BY <1>3, <2>2, <2>3, <2>4, <2>5 DEF WorkerStep
<1>4. CASE \/ \E t \in Triggers, r \in Rows : TriggerClaim(t, r)
           \/ \E t \in Triggers : TriggerReturn(t)
  BY <1>4, <1>a DEF TriggerClaim, TriggerReturn, TypeOK
<1>5. CASE Tick \/ (\E h \in Handlers : Cancel(h)) \/ Crash \/ UNCHANGED vars
  BY <1>5, <1>a DEF Tick, Cancel, Crash, vars
<1> QED BY <1>1, <1>2, <1>3, <1>4, <1>5 DEF Next

LEMMA LifeWorker ==
  ASSUME TypeInv, BackedInv, WriterInv, CopyInv, OneWorkerPerRow',
         NEW w \in Workers, WorkerStep(w)
  PROVE  Life!Next
<1>0. TypeOK /\ w[2] \in Rows
  BY WorkerFacts DEF TypeInv
<1>f. Effect(w)
  BY WorkerEffect
<1>o. \A v \in Workers \ {w} : pc'[v] = pc[v]
  BY <1>f DEF Effect, EffectFrame
<1>r. \A r \in Rows \ {w[2]} : db'[r] = db[r]
  BY <1>f DEF Effect, EffectFrame
\* the table stays, and nobody gets a row
<1>a. ASSUME UNCHANGED orders, db' = db, pc'[w] \in Writing => pc[w] \in Writing
      PROVE  Life!Next
  BY <1>0, <1>a, <1>o, LifeStays
<1>1. CASE ClaimScheduled(w) \/ ClaimFailed(w)
  <2>1. PICK from \in {"scheduled", "failed"}, next \in {"reclaim", "done"} :
          Transition(w, from, next)
    BY <1>1 DEF ClaimScheduled, ClaimFailed
  <2>2. UNCHANGED orders /\ pc[w] \notin Writing
    BY <1>1 DEF ClaimScheduled, ClaimFailed, Writing, Executing
  <2>3. CASE /\ db[w[2]].status = from /\ db' = [db EXCEPT ![w[2]] = Claimed(w[2])]
             /\ pc' = [pc EXCEPT ![w] = "resolve"]
    <3>1. pc'[w] \in Writing
      BY <1>0, <2>3 DEF TypeOK, Writing, Executing
    <3> QED BY <1>0, <1>o, <2>2, <2>3, <3>1, LifeTakes
  <2>4. CASE /\ \/ db' = db
                \/ db[w[2]].status = from /\ db' = [db EXCEPT ![w[2]] = Claimed(w[2])]
             /\ pc' = [pc EXCEPT ![w] = next]
    <3>1. pc'[w] \notin Writing
      BY <1>0, <2>4 DEF TypeOK, Writing, Executing
    <3>2. Says(db'[w[2]].status) = Says(db[w[2]].status)
      BY <1>0, <2>4 DEF Says, Claimed, TypeOK, RowType
    <3> QED BY <1>0, <1>o, <1>r, <2>2, <3>1, <3>2, LifeStays
  <2> QED BY <2>1, <2>3, <2>4 DEF Transition, Write, FailedWrite
<1>2. CASE Resolve(w) \/ AbortLog(w) \/ WriteLog(w) \/ TriggerReload(w)
  <2>1. UNCHANGED <<orders, db>>
    BY <1>2 DEF Resolve, AbortLog, WriteLog, TriggerReload
  <2>2. pc'[w] \in Writing => pc[w] \in Writing
    BY <1>0, <1>2 DEF Resolve, AbortLog, WriteLog, AfterLog, TriggerReload, Writing, Executing, TypeOK
  <2> QED BY <1>a, <2>1, <2>2
<1>3. CASE Abort(w) \/ TrySlot(w) \/ (SaveResult(w) /\ pc[w] = "refused")
  <2>1. UNCHANGED orders /\ pc[w] \in Writing
    BY <1>3 DEF Abort, TrySlot, SaveResult, Writing, Executing
  <2>2. db'[w[2]] = db[w[2]] \/ db'[w[2]].status \in {"scheduled", "submitting", "failed"}
    <3>1. \A row \in RowType : /\ Failed(row).status = "failed"
                               /\ \A s : WithSlot(row, s).status = row.status
      BY DEF Failed, WithSlot, RowType
    <3>2. CASE Abort(w)
      BY <1>0, <3>1, <3>2 DEF Abort, IgnoredWrite, Write, TypeOK
    <3>3. CASE TrySlot(w)
      <4>1. /\ pc[w] = "try"
            /\ db' \in {db, [db EXCEPT ![w[2]] = WithSlot(mem[w], Head(todo[w]))]}
        BY <3>3 DEF TrySlot, Write, FailedWrite
      <4>2. WithSlot(mem[w], Head(todo[w])).status \in {"scheduled", "submitting", "failed"}
        BY <1>0, <3>1, <4>1 DEF CopyInv, TypeOK
      <4> QED BY <1>0, <4>1, <4>2 DEF TypeOK
    <3>4. CASE SaveResult(w) /\ pc[w] = "refused"
      BY <1>0, <3>1, <3>4 DEF SaveResult, Results, IgnoredWrite, Write, TypeOK
    <3> QED BY <1>3, <3>2, <3>3, <3>4
  <2>3. Says(db'[w[2]].status) \in {Says(db[w[2]].status), "waiting"}
    BY <2>2 DEF Says
  <2> QED BY <1>0, <1>o, <1>r, <2>1, <2>3, LifeKeeps
<1>4. CASE Execute(w)
  <2>1. /\ db' = db /\ pc[w] = "exec"
        /\ \/ UNCHANGED orders
           \/ /\ HasContext(w) /\ Bookable(mem[w].slot)
              /\ orders' = orders \cup {<<w[2], mem[w].slot>>}
        /\ \E p \in {"won", "refused"} : pc' = [pc EXCEPT ![w] = p]
    BY <1>4 DEF Execute, Accepted, Refused
  <2>2. pc[w] \in Writing /\ pc'[w] \in Writing
    BY <1>0, <2>1 DEF Writing, Executing, TypeOK
  <2>3. CASE UNCHANGED orders
    BY <1>a, <2>1, <2>2, <2>3
  <2>4. CASE /\ HasContext(w) /\ Bookable(mem[w].slot)
             /\ orders' = orders \cup {<<w[2], mem[w].slot>>}
    <3>1. life' = life /\ hands' = hands
      BY <1>o, <2>1, <2>2 DEF life, hands
    <3>2. w \in hands /\ RowOf[w] = w[2] /\ life[RowOf[w]] # "booked"
      BY <1>0, <2>2, LifeFacts DEF WriterInv, Says
    <3>3. mem[w].slot \in Slots
      BY <1>0, <2>4 DEF HasContext, TypeOK, RowType
    <3>4. Life!Order(w)
      BY <2>4, <3>1, <3>2, <3>3 DEF Life!Order, Bookable
    <3> QED BY <3>2, <3>4 DEF Life!Next
  <2> QED BY <2>1, <2>3, <2>4
<1>5. CASE SaveResult(w) /\ pc[w] = "won"
  <2>1. /\ UNCHANGED orders /\ pc' = [pc EXCEPT ![w] = "logwon"]
        /\ db' = db \/ \E o : db' = [db EXCEPT ![w[2]] = Booked(mem[w], o)]
    BY <1>5 DEF SaveResult, Results, IgnoredWrite, Write
  <2>2. pc[w] \in Writing /\ pc'[w] \notin Writing
    BY <1>0, <1>5, <2>1 DEF Writing, Executing, TypeOK
  <2>3. CASE db' = db
    BY <1>a, <2>1, <2>2, <2>3
  <2>4. ASSUME NEW o, db' = [db EXCEPT ![w[2]] = Booked(mem[w], o)] PROVE Life!Next
    <3>1. Booked(mem[w], o).status = "success"
      BY <1>0 DEF Booked, TypeOK, RowType
    <3>2. life' = [life EXCEPT ![w[2]] = "booked"]
      BY <1>0, <2>4, <3>1 DEF life, Says, TypeOK
    <3>3. w \in hands /\ RowOf[w] = w[2] /\ life[RowOf[w]] # "booked"
      BY <1>0, <2>2, LifeFacts DEF WriterInv, Says
    <3>4. hands' = hands \ {w}
      BY <1>o, <2>2 DEF hands
    <3>5. \E s \in Slots : <<w[2], s>> \in orders
      <4>1. <<w[2], mem[w].slot>> \in orders
        BY <1>5 DEF BackedInv
      <4>2. mem[w].slot \in Slots
        BY <1>0, <4>1 DEF TypeOK
      <4> QED BY <4>1, <4>2
    <3>6. Life!Succeed(w)
      BY <2>1, <3>2, <3>3, <3>4, <3>5 DEF Life!Succeed
    <3> QED BY <3>3, <3>6 DEF Life!Next
  <2> QED BY <2>1, <2>3, <2>4
<1>6. SaveResult(w) => pc[w] \in {"won", "refused"}
  BY DEF SaveResult
<1> QED BY <1>1, <1>2, <1>3, <1>4, <1>5, <1>6 DEF WorkerStep

LEMMA LifeStep ==
  ASSUME TypeInv, BackedInv, LaneInv, RequestInv, WriterInv, CopyInv, OneWorkerPerRow',
         [Next]_vars
  PROVE  Life!Next
<1>0. TypeOK
  BY DEF TypeInv
<1>1. ASSUME NEW q \in Requests, PostSubmit(q) \/ SubmitDone(q) PROVE Life!Next
  <2>1. /\ UNCHANGED <<orders, db>> /\ \A w \in Workers : pc'[w] \in {pc[w], "idle"}
    BY <1>0, <1>1 DEF PostSubmit, SubmitDone, TypeOK
  <2> QED BY <1>0, <2>1, LifeStays DEF Writing, Executing
<1>2. ASSUME NEW q \in Requests, PostPlan(q) \/ Fallback(q) PROVE Life!Next
  <2>1. UNCHANGED <<orders, pc>> /\ hpc[q] \in {"idle", "fallback"}
    BY <1>2 DEF PostPlan, Fallback
  <2>2. Plan(q) \in Rows /\ db[Plan(q)].status = "none"
    BY <2>1, WorkerFacts DEF RequestInv
  <2>3. Life!Free(Plan(q))
    <3>1. \A w \in hands : w[2] # Plan(q)
      BY <1>0, <2>1, LifeFacts DEF RequestInv, Writing, Executing
    <3> QED BY <1>0, <3>1, LifeFacts
  <2>4. hands' = hands
    BY <2>1 DEF hands
  <2>5. /\ \A r \in Rows \ {Plan(q)} : db'[r] = db[r]
        /\ db'[Plan(q)] = db[Plan(q)] \/ db'[Plan(q)].status = "scheduled"
    BY <1>0, <1>2, TableEffect
  <2> QED BY <1>0, <2>1, <2>2, <2>3, <2>4, <2>5, LifeEnters
<1>3. ASSUME NEW q \in Requests, CreateLive(q) PROVE Life!Next
  <2>1. /\ UNCHANGED orders /\ hpc[q] = "create"
        /\ \/ pc' = pc
           \/ pc' = [pc EXCEPT ![LiveWorker(q)] = "try"] /\ db'[Live(q)].status = "submitting"
    <3>1. LiveRow(q).status = "submitting" /\ Live(q) \in Rows
      BY WorkerFacts DEF LiveRow, NewRow
    <3> QED BY <1>0, <1>3, <3>1 DEF CreateLive, Write, TypeOK
  <2>2. /\ Live(q) \in Rows /\ db[Live(q)].status = "none"
        /\ LiveWorker(q) \in Workers /\ LiveWorker(q)[2] = Live(q)
        /\ pc[LiveWorker(q)] = "idle"
    BY <2>1, WorkerFacts DEF RequestInv
  <2>3. Life!Free(Live(q))
    <3>1. ASSUME NEW w \in hands, w[2] = Live(q) PROVE FALSE
      <4>1. w \in Workers /\ pc[w] \in Writing /\ pc[w] # "idle"
        BY <1>0, <3>1, LifeFacts DEF Writing, Executing
      <4>2. w = LiveWorker(q)
        BY <3>1, <4>1, WorkerFacts, LanesDisjoint DEF LaneInv, Handlers
      <4> QED BY <2>2, <4>1, <4>2
    <3> QED BY <1>0, <3>1, LifeFacts
  <2>4. /\ \A r \in Rows \ {Live(q)} : db'[r] = db[r]
        /\ db'[Live(q)] = db[Live(q)] \/ db'[Live(q)].status = "submitting"
    BY <1>0, <1>3, TableEffect
  <2>5. CASE pc' = pc
    <3>1. hands' = hands
      BY <2>5 DEF hands
    <3> QED BY <1>0, <2>1, <2>2, <2>3, <2>4, <3>1, LifeEnters
  <2>6. CASE pc' = [pc EXCEPT ![LiveWorker(q)] = "try"] /\ db'[Live(q)].status = "submitting"
    <3>1. hands' = hands \cup {LiveWorker(q)}
      BY <1>0, <2>2, <2>6 DEF hands, Writing, Executing, TypeOK
    <3>2. db'[Live(q)] # db[Live(q)]
      BY <2>2, <2>6
    <3> QED BY <1>0, <2>1, <2>2, <2>3, <2>4, <3>1, <3>2, LifeEnters
  <2> QED BY <2>1, <2>5, <2>6
<1>4. ASSUME NEW b \in Batches, BatchList(b) PROVE Life!Next
  <2>1. UNCHANGED <<orders, db>> /\ \A w \in Workers : pc'[w] \in {pc[w], "claim"}
    BY <1>0, <1>4 DEF BatchList, TypeOK
  <2> QED BY <1>0, <2>1, LifeStays DEF Writing, Executing
<1>5. ASSUME NEW b \in Batches, Sweep(b) PROVE Life!Next
  <2>1. UNCHANGED orders /\ hands' = hands
    <3>1. \A w \in Workers : pc'[w] = pc[w] \/ (pc[w] \in {"idle", "done"} /\ pc'[w] = "idle")
      BY <1>0, <1>5 DEF Sweep, Running, TypeOK
    <3> QED BY <1>5, <3>1 DEF Sweep, hands, Writing, Executing
  <2>2. \A r \in Rows : \/ db'[r] = db[r]
                        \/ db[r].status = "failed" /\ db'[r].status = "expired"
    BY <1>0, <1>5, TableEffect
  <2> DEFINE R == {r \in Rows : life[r] = "waiting" /\ life'[r] = "expired"}
  <2>3. R \in SUBSET {r \in Rows : life[r] = "waiting"}
    OBVIOUS
  <2>4. life' = [r \in Rows |-> IF r \in R THEN "expired" ELSE life[r]]
    <3>1. \A r \in Rows : life'[r] = IF r \in R THEN "expired" ELSE life[r]
      BY <1>0, <2>2, LifeFacts DEF Says
    <3> HIDE DEF R
    <3> QED BY <1>0, <3>1, LifeFacts
  <2>5. Life!Expire
    BY <2>1, <2>3, <2>4 DEF Life!Expire
  <2> QED BY <2>5 DEF Life!Next
<1>6. ASSUME NEW t \in Triggers, NEW r \in Rows, TriggerClaim(t, r) PROVE Life!Next
  <2> DEFINE w == <<t, r>>
  <2>1. w \in Workers /\ w[2] = r
    BY WorkerFacts
  <2>2. /\ UNCHANGED orders /\ db[r].status = "pending"
        /\ \/ /\ db' = [db EXCEPT ![r] = Claimed(r)]
              /\ pc' = [pc EXCEPT ![w] = "reload"]
           \/ /\ pc' = pc
              /\ db' = db \/ db' = [db EXCEPT ![r] = Claimed(r)]
    BY <1>6 DEF TriggerClaim, Triggerable, Write, FailedWrite
  <2>3. CASE pc' = pc
    <3>1. \A x \in Rows : Says(db'[x].status) = Says(db[x].status)
      BY <1>0, <2>2, <2>3 DEF Says, Claimed, TypeOK, RowType
    <3> QED BY <1>0, <2>2, <2>3, <3>1, LifeStays
  <2>4. CASE db' = [db EXCEPT ![r] = Claimed(r)] /\ pc' = [pc EXCEPT ![w] = "reload"]
    <3>1. pc'[w] \in Writing /\ \A v \in Workers \ {w} : pc'[v] = pc[v]
      BY <1>0, <2>1, <2>4 DEF Writing, Executing, TypeOK
    <3>2. pc[w] \notin Writing
      BY <1>0, <2>1, <2>2 DEF LaneInv, Writing
    <3> HIDE DEF w
    <3> QED BY <1>0, <2>1, <2>2, <2>4, <3>1, <3>2, LifeTakes
  <2> QED BY <2>2, <2>3, <2>4
<1>7. ASSUME NEW w \in Workers, WorkerStep(w) PROVE Life!Next
  BY <1>7, LifeWorker
<1>8. CASE \/ Tick \/ Crash \/ UNCHANGED vars
           \/ \E h \in Handlers : Cancel(h)
           \/ \E t \in Triggers : TriggerReturn(t)
  <2>1. UNCHANGED <<orders, db>> /\ \A w \in Workers : pc'[w] \in {pc[w], "idle"}
    BY <1>0, <1>8 DEF Tick, Crash, Cancel, TriggerReturn, vars, TypeOK
  <2> QED BY <1>0, <2>1, LifeStays DEF Writing, Executing
<1> QED BY <1>1, <1>2, <1>3, <1>4, <1>5, <1>6, <1>7, <1>8 DEF Next, RequestStep

\* With one scheduler the engine keeps the life of its rows, under every fault:
\* stored once, in one hand at a time, a success only with an order and for ever.
THEOREM RowsKeepTheirLife ==
  ASSUME SingleScheduler PROVE Spec => KeepsLife
<1>1. Init => LaneInv /\ RequestInv /\ WriterInv /\ CopyInv /\ Life!Init
  <2>1. ASSUME Init PROVE CopyInv /\ Life!Init
    <3>1. \A r \in Rows : db[r].status \in {"none", "pending"}
      BY <2>1, LegacyAssumption DEF Init, NoRow, NewRow
    <3>2. life \in [Rows -> {"absent", "waiting"}]
      BY <3>1 DEF life, Says
    <3>3. hands = {} /\ CopyInv
      BY <2>1 DEF Init, hands, CopyInv, Writing, Executing
    <3> QED BY <2>1, <3>2, <3>3 DEF Init, Life!Init
  <2> QED BY <2>1, LaneInit
<1>2. TypeInv /\ BackedInv /\ LaneInv /\ [Next]_vars => LaneInv'
  BY LaneStep
<1>3. TypeInv /\ BackedInv /\ LaneInv /\ RequestInv /\ [Next]_vars => RequestInv'
  BY RequestInvStep
<1>4. TypeInv /\ BackedInv /\ LaneInv /\ RequestInv /\ WriterInv /\ [Next]_vars => WriterInv'
  BY WriterInvStep
<1>5. TypeInv /\ CopyInv /\ [Next]_vars => CopyInv'
  BY CopyInvStep DEF TypeInv
<1>6. LaneInv => OneWorkerPerRow
  BY LanesExclude
<1>7. /\ TypeInv /\ BackedInv /\ LaneInv /\ RequestInv /\ WriterInv /\ CopyInv
      /\ OneWorkerPerRow' /\ [Next]_vars
      => [Life!Next]_(Life!vars)
  BY LifeStep
<1> QED BY <1>1, <1>2, <1>3, <1>4, <1>5, <1>6, <1>7, TypeInvariant, BackedInit, BackedStep, PTL
        DEF Spec, KeepsLife, Life!Spec

(***************************************************************************)
(* One order per submit, as long as TYYS answers in time: an order of the  *)
(* live row is in the hands of its worker, or the request is cancelled     *)
(* (the caller left during the call that placed it), and then nothing that *)
(* belongs to the request reaches TYYS or the table any more, or the       *)
(* process was restarted, and nobody works for the request.                *)
(***************************************************************************)
NoTimeout == "lost" \notin Faults

PlanAbsent(q) ==
  /\ db[Plan(q)].status = "none"
  /\ \A w \in Workers : w[2] = Plan(q) => pc[w] = "idle"

Closing(q) ==
  \/ hpc[q] \in {"live", "error"}
  \/ hpc[q] \in {"trying", "fallback"} /\ q \in cancelled
  \/ hpc[q] = "trying" /\ InHand(q)

SubmitInv ==
  \A q \in Requests : \A o \in orders : o[1] = Live(q) =>
    /\ \A p \in orders : p[1] = Live(q) => p = o
    /\ PlanAbsent(q) /\ Closing(q)

LEMMA SubmitStep ==
  ASSUME NoTimeout, TypeInv, BackedInv, LaneInv, RequestInv, SubmitInv, [Next]_vars
  PROVE  SubmitInv'
<1>0. TypeOK
  BY DEF TypeInv
<1> SUFFICES ASSUME NEW q \in Requests
             PROVE  \A o \in orders' : o[1] = Live(q) =>
                      /\ \A p \in orders' : p[1] = Live(q) => p = o
                      /\ PlanAbsent(q)' /\ Closing(q)'
  BY DEF SubmitInv
<1> DEFINE W == LiveWorker(q)
           Goal == \A o \in orders' : o[1] = Live(q) =>
                      /\ \A p \in orders' : p[1] = Live(q) => p = o
                      /\ PlanAbsent(q)' /\ Closing(q)'
<1>b. /\ q \in Handlers /\ q \notin Batches /\ q \notin Triggers
      /\ W \in Workers /\ W[1] = q /\ W[2] = Live(q)
      /\ Live(q) \in Rows /\ Live(q) \notin Plans /\ Live(q) \notin Legacy
      /\ Plan(q) \in Rows /\ Plan(q) \notin Legacy /\ Live(q) # Plan(q)
  BY WorkerFacts, HandlersAssumption, LanesDisjoint DEF Plans
<1>w. pc[W] # "idle" => hpc[q] = "trying"
  BY DEF RequestInv
\* a step that places no order of q's
<1>a. ASSUME \A o \in orders' : o[1] = Live(q) => o \in orders,
             PlanAbsent(q) /\ Closing(q) => PlanAbsent(q)' /\ Closing(q)'
      PROVE  Goal
  BY <1>a DEF SubmitInv
\* a step of somebody else
<1>c. ASSUME \A o \in orders' : o[1] = Live(q) => o \in orders,
             hpc'[q] = hpc[q], pc'[W] = pc[W], mem'[W] = mem[W], q \in cancelled => q \in cancelled',
             db[Plan(q)].status = "none" => db'[Plan(q)].status = "none",
             db[Plan(q)].status = "none" => \A w \in Workers : w[2] = Plan(q) => pc'[w] \in {pc[w], "idle"}
      PROVE  Goal
  BY <1>a, <1>c DEF PlanAbsent, Closing, InHand
<1> HIDE DEF Goal
<1>1. ASSUME NEW p \in Requests, RequestStep(p), p # q PROVE Goal
  <2>1. /\ LiveWorker(p) # W /\ LiveWorker(p) \in Workers /\ p \in Handlers
        /\ Plan(p) # Plan(q) /\ Live(p) # Plan(q) /\ LiveWorker(p)[2] # Plan(q)
    BY <1>1, WorkerFacts, LanesDisjoint
  <2>2. /\ hpc'[q] = hpc[q] /\ pc'[W] = pc[W] /\ mem'[W] = mem[W] /\ orders' = orders
        /\ cancelled' = cancelled /\ \A w \in Workers : w[2] = Plan(q) => pc'[w] = pc[w]
    BY <1>0, <1>1, <1>b, <2>1
       DEF RequestStep, PostSubmit, PostPlan, CreateLive, SubmitDone, Fallback, TypeOK
  <2>3. db'[Plan(q)] = db[Plan(q)]
    BY <1>0, <1>1, <1>b, <2>1, TableEffect DEF RequestStep, PostSubmit, SubmitDone
  <2> QED BY <1>c, <2>2, <2>3
<1>2. ASSUME PostSubmit(q) \/ PostPlan(q) \/ CreateLive(q) PROVE Goal
  <2>1. hpc[q] \in {"idle", "create"} /\ orders' = orders
    BY <1>2 DEF PostSubmit, PostPlan, CreateLive
  <2>2. ~ Closing(q)
    BY <2>1 DEF Closing
  <2> QED BY <1>a, <2>1, <2>2
<1>3. ASSUME Fallback(q) PROVE Goal
  <2>1. hpc[q] = "fallback" /\ UNCHANGED <<orders, pc, cancelled>>
    BY <1>3 DEF Fallback
  <2>2. ASSUME Closing(q), PlanAbsent(q) PROVE Closing(q)' /\ PlanAbsent(q)'
    <3>1. q \in cancelled
      BY <2>1, <2>2 DEF Closing
    <3>2. db' = db /\ hpc'[q] = "error"
      BY <1>0, <1>3, <1>b, <3>1 DEF Fallback, Write, FailedWrite, DbWorks, TypeOK
    <3> QED BY <2>1, <2>2, <3>2 DEF Closing, PlanAbsent
  <2> QED BY <1>a, <2>1, <2>2
<1>4. ASSUME SubmitDone(q) PROVE Goal
  <2>1. /\ hpc[q] = "trying" /\ pc[W] = "done" /\ UNCHANGED <<orders, db, cancelled>>
        /\ hpc'[q] = IF Submitted(q) THEN "live" ELSE "fallback"
        /\ \A w \in Workers : w[2] = Plan(q) => pc'[w] = pc[w]
    BY <1>0, <1>4, <1>b DEF SubmitDone, TypeOK
  <2>2. Closing(q) => Closing(q)'
    BY <2>1 DEF Closing, InHand, Submitted
  <2> QED BY <1>a, <2>1, <2>2 DEF PlanAbsent
<1>5. ASSUME NEW w \in Workers, WorkerStep(w), w # W PROVE Goal
  <2>1. Effect(w)
    BY <1>5, WorkerEffect
  <2>2. hpc' = hpc /\ pc'[W] = pc[W] /\ mem'[W] = mem[W]
    BY <1>5, <1>b, <2>1 DEF Effect, EffectFrame
  <2>3. \/ orders' = orders
        \/ pc[w] = "exec" /\ orders' = orders \cup {<<w[2], mem[w].slot>>}
    BY <1>5 DEF WorkerStep, ClaimScheduled, ClaimFailed, Resolve, Abort, AbortLog, TrySlot,
       Execute, Accepted, Refused, SaveResult, WriteLog, TriggerReload
  <2>4. w[2] # Live(q)
    <3>1. w[1] \in Requests => w = LiveWorker(w[1]) /\ w[2] = Live(w[1])
      BY WorkerFacts
    <3>2. w[1] \in Requests \cup Batches \cup Triggers
      BY WorkerFacts DEF Handlers
    <3>3. pc[w] # "idle"
      BY <2>1 DEF Effect, EffectCounter
    <3> QED BY <1>5, <1>b, <3>1, <3>2, <3>3, LanesDisjoint DEF LaneInv
  <2>5. cancelled \subseteq cancelled'
    BY <1>5 DEF WorkerStep, ClaimScheduled, ClaimFailed, Resolve, Abort, AbortLog, TrySlot,
       Execute, Accepted, Refused, SaveResult, WriteLog, TriggerReload
  <2>6. CASE w[2] = Plan(q)
    <3>1. ~ PlanAbsent(q)
      BY <2>1, <2>6 DEF Effect, EffectCounter, PlanAbsent
    <3> QED BY <1>a, <2>3, <2>4, <3>1
  <2>7. CASE w[2] # Plan(q)
    <3>1. db'[Plan(q)] = db[Plan(q)] /\ \A v \in Workers : v[2] = Plan(q) => pc'[v] = pc[v]
      BY <1>b, <2>1, <2>7 DEF Effect, EffectFrame
    <3> QED BY <1>c, <2>2, <2>3, <2>4, <2>5, <3>1
  <2> QED BY <2>6, <2>7
<1>6. ASSUME WorkerStep(W) PROVE Goal
  <2>1. Effect(W)
    BY <1>6, <1>b, WorkerEffect
  <2>2. hpc[q] = "trying" /\ hpc'[q] = "trying"
    BY <1>b, <1>w, <2>1 DEF Effect, EffectFrame, EffectCounter
  <2>3. PlanAbsent(q)'
    <3>1. PlanAbsent(q)
      BY <2>2 DEF RequestInv, PlanAbsent
    <3> QED BY <1>b, <2>1, <3>1 DEF Effect, EffectFrame, PlanAbsent
  <2>4. CASE Execute(W)
    <3>1. pc[W] = "exec"
      BY <2>4 DEF Execute
    <3>2. CASE orders' = orders /\ cancelled' = cancelled
      <4>1. Closing(q) => q \in cancelled
        BY <2>2, <3>1 DEF Closing, InHand
      <4> QED BY <1>a, <2>2, <2>3, <3>2, <4>1 DEF Closing
    <3>3. CASE Accepted(W)
      <4>1. q \notin cancelled /\ orders' = orders \cup {<<Live(q), mem[W].slot>>}
        BY <1>b, <3>3 DEF Accepted
      <4>2. \A o \in orders : o[1] # Live(q)
        BY <2>2, <3>1, <4>1 DEF SubmitInv, Closing, InHand
      <4>3. pc'[W] = "won" \/ q \in cancelled'
        BY <1>0, <1>b, <3>3 DEF Accepted, NoTimeout, TypeOK
      <4>4. Closing(q)'
        BY <2>2, <4>3 DEF Closing, InHand
      <4>5. \A o \in orders' : o[1] = Live(q) => o = <<Live(q), mem[W].slot>>
        BY <4>1, <4>2
      <4> QED BY <2>3, <4>4, <4>5 DEF Goal
    <3> QED BY <2>4, <3>2, <3>3 DEF Execute, Refused
  <2>5. CASE ~ Execute(W)
    <3>1. orders' = orders /\ cancelled' = cancelled
      BY <1>6, <2>5 DEF WorkerStep, ClaimScheduled, ClaimFailed, Resolve, Abort, AbortLog, TrySlot,
         SaveResult, WriteLog, TriggerReload
    <3>2. InHand(q) => InHand(q)'
      <4>1. CASE SaveResult(W)
        <5>1. PICK row \in Results(W) : mem' = [mem EXCEPT ![W] = row]
          BY <4>1 DEF SaveResult
        <5>2. /\ mem'[W] = row /\ pc[W] \in {"won", "refused"}
              /\ pc[W] = "won" => pc'[W] = "logwon"
          BY <1>0, <1>b, <4>1, <5>1 DEF SaveResult, TypeOK
        <5>3. pc[W] = "won" => row.status = "success"
          <6>1. mem[W] \in RowType /\ \A m \in RowType : \A o : Booked(m, o).status = "success"
            BY <1>0, <1>b DEF TypeOK, Booked, RowType
          <6> QED BY <5>1, <6>1 DEF Results
        <5> QED BY <5>2, <5>3 DEF InHand
      <4>2. CASE WriteLog(W)
        <5>1. /\ pc[W] \in {"logwon", "logrefused"} /\ mem' = mem
              /\ pc[W] = "logwon" => pc'[W] = "done"
          BY <1>0, <1>b, <4>2 DEF WriteLog, AfterLog, TypeOK
        <5> QED BY <5>1 DEF InHand
      <4>3. CASE ~ SaveResult(W) /\ ~ WriteLog(W)
        <5>1. pc[W] \in {"claim", "reclaim", "resolve", "abort", "abortlog", "try", "reload"}
          BY <1>6, <2>5, <4>3 DEF WorkerStep, ClaimScheduled, ClaimFailed, Resolve, Abort,
             AbortLog, TrySlot, TriggerReload
        <5> QED BY <5>1 DEF InHand
      <4> QED BY <4>1, <4>2, <4>3
    <3> QED BY <1>a, <2>2, <2>3, <3>1, <3>2 DEF Closing
  <2> QED BY <2>4, <2>5
<1>7. ASSUME NEW b \in Batches, BatchList(b) \/ Sweep(b) PROVE Goal
  <2>1. b # q
    BY <1>b
  <2>2. /\ hpc'[q] = hpc[q] /\ pc'[W] = pc[W] /\ mem'[W] = mem[W] /\ orders' = orders
        /\ q \in cancelled => q \in cancelled'
    BY <1>0, <1>7, <1>b, <2>1 DEF BatchList, Sweep, TypeOK
  <2>3. db[Plan(q)].status = "none" => db'[Plan(q)].status = "none"
    BY <1>0, <1>7, <1>b, TableEffect DEF BatchList
  <2>4. db[Plan(q)].status = "none" =>
          \A w \in Workers : w[2] = Plan(q) => pc'[w] \in {pc[w], "idle"}
    BY <1>0, <1>7 DEF BatchList, Sweep, Due, TypeOK
  <2> QED BY <1>c, <2>2, <2>3, <2>4
<1>8. ASSUME NEW t \in Triggers, NEW r \in Rows, TriggerClaim(t, r) PROVE Goal
  <2>1. t # q /\ W # <<t, r>>
    BY <1>b
  <2>2. /\ UNCHANGED hpc \/ hpc' = [hpc EXCEPT ![t] = "running"]
        /\ UNCHANGED pc \/ pc' = [pc EXCEPT ![<<t, r>>] = "reload"]
        /\ UNCHANGED <<mem, orders, cancelled>>
    BY <1>8 DEF TriggerClaim
  <2>3. r # Plan(q)
    BY <1>0, <1>8, <1>b, TableEffect DEF LaneInv
  <2>4. /\ hpc'[q] = hpc[q] /\ pc'[W] = pc[W]
        /\ \A w \in Workers : w[2] = Plan(q) => pc'[w] = pc[w]
    BY <1>0, <1>b, <2>1, <2>2, <2>3 DEF TypeOK
  <2>5. db'[Plan(q)] = db[Plan(q)]
    BY <1>0, <1>8, <1>b, <2>3, TableEffect
  <2> QED BY <1>c, <2>2, <2>4, <2>5
<1>9. ASSUME NEW t \in Triggers, TriggerReturn(t) PROVE Goal
  <2>1. t # q
    BY <1>b
  <2>2. /\ hpc'[q] = hpc[q] /\ pc'[W] = pc[W] /\ mem'[W] = mem[W] /\ UNCHANGED <<orders, db>>
        /\ \A w \in Workers : pc'[w] \in {pc[w], "idle"}
        /\ q \in cancelled => q \in cancelled'
    BY <1>0, <1>9, <1>b, <2>1 DEF TriggerReturn, TypeOK
  <2> QED BY <1>c, <2>2
<1>10. ASSUME Tick \/ (\E h \in Handlers : Cancel(h)) \/ UNCHANGED vars PROVE Goal
  BY <1>c, <1>10 DEF Tick, Cancel, vars
<1>11. ASSUME Crash PROVE Goal
  <2>1. /\ UNCHANGED <<orders, db>> /\ \A w \in Workers : pc'[w] = "idle"
        /\ Closing(q) => hpc'[q] \in {"live", "error"}
    BY <1>0, <1>11, <1>b DEF Crash, Busy, Closing, TypeOK
  <2> QED BY <1>a, <2>1 DEF Closing, PlanAbsent
<1> QED BY <1>1, <1>2, <1>3, <1>4, <1>5, <1>6, <1>7, <1>8, <1>9, <1>10, <1>11
        DEF Next, RequestStep, Goal

\* A submit books once, however many batches overlap, though saves fail, clients
\* leave with an order placed, and the process restarts.
THEOREM SubmitsBookOnce ==
  ASSUME NoTimeout PROVE Spec => []SubmitBooksOnce
<1>1. Init => LaneInv /\ RequestInv /\ SubmitInv
  BY LaneInit DEF Init, SubmitInv
<1>2. TypeInv /\ BackedInv /\ LaneInv /\ [Next]_vars => LaneInv'
  BY LaneStep
<1>3. TypeInv /\ BackedInv /\ LaneInv /\ RequestInv /\ [Next]_vars => RequestInv'
  BY RequestInvStep
<1>4. TypeInv /\ BackedInv /\ LaneInv /\ RequestInv /\ SubmitInv /\ [Next]_vars => SubmitInv'
  BY SubmitStep
<1>5. SubmitInv => SubmitBooksOnce
  BY DEF SubmitInv, SubmitBooksOnce, PlanAbsent
<1> QED BY <1>1, <1>2, <1>3, <1>4, <1>5, TypeInvariant, BackedInit, BackedStep, PTL DEF Spec

(***************************************************************************)
(* A plan keeps what makes it due and what it is for, whatever fails and   *)
(* however many batches overlap: the copies of it, stale or not, differ    *)
(* from it in the slot, the status and the order only, none of them says   *)
(* "expired", and a request's slots are fixed before its plan is stored.   *)
(***************************************************************************)
Keeps(q, row) ==
  row.plan = input[q].closed /\ row.openAt = EarliestOpening(input[q].closed)

KeptInv ==
  /\ PlansKept
  /\ \A w \in Workers, q \in Requests :
       w[2] = Plan(q) /\ pc[w] # "idle" =>
         /\ Keeps(q, mem[w]) /\ mem[w].status \notin {"none", "expired"}
         /\ db[Plan(q)].status # "none" /\ pc[w] # "reload"

\* What a step of a worker leaves in its copy and in its row.
LEMMA WorkerKeeps ==
  ASSUME TypeInv, NEW w \in Workers, WorkerStep(w), pc[w] # "reload"
  PROVE  /\ mem'[w].plan = mem[w].plan /\ mem'[w].openAt = mem[w].openAt
         /\ pc'[w] # "reload"
         /\ \/ db'[w[2]] = db[w[2]]
            \/ db'[w[2]] = mem'[w]
            \/ db'[w[2]] = Claimed(w[2])
<1>0. TypeOK /\ w[2] \in Rows /\ mem[w] \in RowType
  BY WorkerFacts DEF TypeInv, TypeOK
<1>1. \A row \in RowType : /\ Failed(row).plan = row.plan /\ Failed(row).openAt = row.openAt
                           /\ \A s : /\ WithSlot(row, s).plan = row.plan
                                     /\ WithSlot(row, s).openAt = row.openAt
                                     /\ Booked(row, s).plan = row.plan
                                     /\ Booked(row, s).openAt = row.openAt
  BY DEF Failed, WithSlot, Booked, RowType
<1>2. CASE ClaimScheduled(w) \/ ClaimFailed(w)
  BY <1>0, <1>2 DEF ClaimScheduled, ClaimFailed, Transition, Write, FailedWrite, TypeOK
<1>3. CASE Resolve(w) \/ AbortLog(w) \/ Execute(w) \/ WriteLog(w)
  BY <1>0, <1>3 DEF Resolve, AfterResolve, AbortLog, Execute, Accepted, Refused, WriteLog,
     AfterLog, NextTry, TypeOK
<1>4. CASE Abort(w)
  BY <1>0, <1>1, <1>4 DEF Abort, IgnoredWrite, Write, TypeOK
<1>5. CASE TrySlot(w)
  <2>1. /\ pc'[w] # "reload"
        /\ mem' = [mem EXCEPT ![w] = WithSlot(mem[w], Head(todo[w]))]
        /\ db' \in {db, [db EXCEPT ![w[2]] = WithSlot(mem[w], Head(todo[w]))]}
    BY <1>0, <1>5 DEF TrySlot, Write, FailedWrite, NextTry, TypeOK
  <2> QED BY <1>0, <1>1, <2>1 DEF TypeOK
<1>6. CASE SaveResult(w)
  <2>1. PICK row \in Results(w) : mem' = [mem EXCEPT ![w] = row] /\ IgnoredWrite(w[1], w[2], row)
    BY <1>6 DEF SaveResult
  <2>2. row.plan = mem[w].plan /\ row.openAt = mem[w].openAt
    BY <1>0, <1>1, <2>1 DEF Results
  <2> QED BY <1>0, <1>6, <2>1, <2>2 DEF SaveResult, IgnoredWrite, Write, TypeOK
<1>7. CASE TriggerReload(w)
  BY <1>7 DEF TriggerReload
<1> QED BY <1>2, <1>3, <1>4, <1>5, <1>6, <1>7 DEF WorkerStep

LEMMA KeptStep ==
  ASSUME TypeInv, BackedInv, LaneInv, RequestInv, KeptInv, [Next]_vars
  PROVE  KeptInv'
<1>0. TypeOK
  BY DEF TypeInv
<1> SUFFICES
      ASSUME NEW q \in Requests
      PROVE  /\ db'[Plan(q)].status # "none" => Keeps(q, db[Plan(q)])'
             /\ db'[Plan(q)].status = "expired" => now' >= DayAfter
             /\ \A w \in Workers :
                  w[2] = Plan(q) /\ pc'[w] # "idle" =>
                    /\ Keeps(q, mem[w])' /\ mem'[w].status \notin {"none", "expired"}
                    /\ db'[Plan(q)].status # "none" /\ pc'[w] # "reload"
  BY DEF KeptInv, PlansKept, Keeps
<1> DEFINE P == Plan(q)
           Goal == /\ db'[P].status # "none" => Keeps(q, db[P])'
                   /\ db'[P].status = "expired" => now' >= DayAfter
                   /\ \A w \in Workers :
                        w[2] = P /\ pc'[w] # "idle" =>
                          /\ Keeps(q, mem[w])' /\ mem'[w].status \notin {"none", "expired"}
                          /\ db'[P].status # "none" /\ pc'[w] # "reload"
<1>b. /\ P \in Rows /\ P \in Plans /\ P \notin Legacy /\ q \in Handlers /\ LiveWorker(q)[2] # P
      /\ \A w \in Workers : w[2] = P => w[1] \notin Requests
  BY WorkerFacts, LanesDisjoint DEF Plans
<1>i. /\ db[P].status # "none" => Keeps(q, db[P])
      /\ db[P].status = "expired" => now >= DayAfter
      /\ \A w \in Workers :
           w[2] = P /\ pc[w] # "idle" =>
             /\ Keeps(q, mem[w]) /\ mem[w].status \notin {"none", "expired"}
             /\ db[P].status # "none" /\ pc[w] # "reload"
  BY DEF KeptInv, PlansKept, Keeps
<1>n. now \in Nat /\ DayAfter \in Nat
  BY <1>0, ClockAssumption DEF TypeOK
\* nothing happens to the plan
<1>a. ASSUME db'[P] = db[P], now' >= now, now' \in Nat, input'[q] = input[q],
             \A w \in Workers : w[2] = P => pc'[w] = "idle" \/ (pc'[w] = pc[w] /\ mem'[w] = mem[w])
      PROVE  Goal
  <2>1. db'[P].status = "expired" => now' >= DayAfter
    BY <1>a, <1>i, <1>n
  <2>2. \A row : Keeps(q, row) <=> row.plan = input'[q].closed
                                   /\ row.openAt = EarliestOpening(input'[q].closed)
    BY <1>a DEF Keeps
  <2> QED BY <1>a, <1>i, <2>1, <2>2 DEF Keeps
<1>1. ASSUME NEW p \in Requests, RequestStep(p), p # q PROVE Goal
  <2>1. /\ Plan(p) # P /\ Live(p) # P /\ LiveWorker(p)[2] # P
    BY <1>1, WorkerFacts, LanesDisjoint
  <2>2. /\ \A w \in Workers : w[2] = P => pc'[w] = pc[w] /\ mem'[w] = mem[w]
        /\ input'[q] = input[q] /\ now' = now
    BY <1>0, <1>1, <1>b, <2>1
       DEF RequestStep, PostSubmit, PostPlan, CreateLive, SubmitDone, Fallback, TypeOK
  <2>3. db'[P] = db[P]
    BY <1>0, <1>1, <1>b, <2>1, TableEffect DEF RequestStep, PostSubmit, SubmitDone
  <2> QED BY <1>a, <1>n, <2>2, <2>3
<1>2. ASSUME CreateLive(q) \/ SubmitDone(q) PROVE Goal
  <2>1. Live(q) # P
    BY LanesDisjoint
  <2>2. /\ \A w \in Workers : w[2] = P => pc'[w] = pc[w] /\ mem'[w] = mem[w]
        /\ input'[q] = input[q] /\ now' = now
    BY <1>0, <1>2, <1>b DEF CreateLive, SubmitDone, TypeOK
  <2>3. db'[P] = db[P]
    BY <1>0, <1>2, <1>b, <2>1, TableEffect DEF SubmitDone
  <2> QED BY <1>a, <1>n, <2>2, <2>3
\* the plan is not there yet, and nobody knows of it
<1>3. ASSUME PostSubmit(q) PROVE Goal
  <2>1. hpc[q] = "idle" /\ UNCHANGED <<db, pc, now>>
    BY <1>3 DEF PostSubmit
  <2>2. db[P].status = "none" /\ \A w \in Workers : w[2] = P => pc[w] = "idle"
    BY <2>1 DEF RequestInv
  <2> QED BY <2>1, <2>2
<1>4. ASSUME PostPlan(q) \/ Fallback(q) PROVE Goal
  <2>1. hpc[q] \in {"idle", "fallback"} /\ UNCHANGED <<pc, now>>
    BY <1>4 DEF PostPlan, Fallback
  <2>2. db[P].status = "none" /\ \A w \in Workers : w[2] = P => pc[w] = "idle"
    BY <2>1 DEF RequestInv
  <2>3. db'[P] = db[P] \/ db'[P] = PlanRow(input'[q].closed)
    <3>1. CASE Fallback(q)
      BY <1>0, <1>b, <3>1 DEF Fallback, Write, FailedWrite, TypeOK
    <3>2. CASE PostPlan(q)
      <4>1. PICK S \in (SUBSET Slots) \ {{}} :
              /\ input' = [input EXCEPT ![q].closed = S]
              /\ db' \in {db, [db EXCEPT ![P] = PlanRow(S)]}
        BY <3>2 DEF PostPlan, Write, FailedWrite
      <4>2. input'[q].closed = S
        BY <1>0, <4>1 DEF TypeOK
      <4> QED BY <1>0, <1>b, <4>1, <4>2 DEF TypeOK
    <3> QED BY <1>4, <3>1, <3>2
  <2>4. \A S : /\ PlanRow(S).status = "scheduled" /\ PlanRow(S).plan = S
               /\ PlanRow(S).openAt = EarliestOpening(S)
    BY DEF PlanRow, NewRow
  <2> QED BY <2>1, <2>2, <2>3, <2>4 DEF Keeps
<1>5. ASSUME NEW b \in Batches, BatchList(b) PROVE Goal
  <2>1. UNCHANGED <<db, now, input>>
    BY <1>5 DEF BatchList
  <2>2. ASSUME NEW w \in Workers, w[2] = P, pc'[w] # "idle"
        PROVE  /\ Keeps(q, mem'[w]) /\ mem'[w].status \notin {"none", "expired"}
               /\ db[P].status # "none" /\ pc'[w] # "reload"
    <3>1. \/ pc'[w] = pc[w] /\ mem'[w] = mem[w]
          \/ /\ mem'[w] = db[P] /\ db[P].status \in {"scheduled", "failed"}
             /\ pc'[w] = "claim"
      BY <1>0, <1>5, <2>2 DEF BatchList, Due, TypeOK
    <3> QED BY <1>i, <2>2, <3>1
  <2>3. input'[q].closed = input[q].closed
    BY <2>1
  <2>4. \A w \in Workers : w[2] = P /\ pc'[w] # "idle" => Keeps(q, mem[w])'
    BY <2>2, <2>3 DEF Keeps
  <2> QED BY <1>i, <2>1, <2>2, <2>4 DEF Keeps
<1>6. ASSUME NEW b \in Batches, Sweep(b) PROVE Goal
  <2>1. /\ UNCHANGED <<now, input>>
        /\ \A w \in Workers : pc'[w] = "idle" \/ (pc'[w] = pc[w] /\ mem'[w] = mem[w])
    BY <1>0, <1>6 DEF Sweep, TypeOK
  <2>2. \/ db'[P] = db[P]
        \/ /\ db[P].status = "failed" /\ now >= DayAfter
           /\ db'[P] = [db[P] EXCEPT !.status = "expired"]
    BY <1>0, <1>6, <1>b DEF Sweep, Swept, TypeOK
  <2>3. CASE db'[P] = db[P]
    BY <1>a, <1>n, <2>1, <2>3
  <2>4. CASE /\ db[P].status = "failed" /\ now >= DayAfter
             /\ db'[P] = [db[P] EXCEPT !.status = "expired"]
    <3>1. /\ db'[P].plan = db[P].plan /\ db'[P].openAt = db[P].openAt
          /\ db'[P].status = "expired"
      BY <1>0, <1>b, <2>4 DEF TypeOK, RowType
    <3> QED BY <1>i, <2>1, <2>4, <3>1 DEF Keeps
  <2> QED BY <2>2, <2>3, <2>4
<1>7. ASSUME NEW t \in Triggers, NEW r \in Rows, TriggerClaim(t, r) PROVE Goal
  <2>1. r # P
    BY <1>0, <1>7, <1>b, TableEffect DEF LaneInv
  <2>2. /\ \A w \in Workers : w[2] = P => pc'[w] = pc[w] /\ mem'[w] = mem[w]
        /\ UNCHANGED <<input, now>>
    BY <1>0, <1>7, <2>1 DEF TriggerClaim, TypeOK
  <2>3. db'[P] = db[P]
    BY <1>0, <1>7, <1>b, <2>1, TableEffect
  <2> QED BY <1>a, <1>n, <2>2, <2>3
<1>8. ASSUME NEW w \in Workers, WorkerStep(w) PROVE Goal
  <2>1. Effect(w) /\ UNCHANGED <<now, input>>
    <3>1. UNCHANGED <<now, input>>
      BY <1>8 DEF WorkerStep, ClaimScheduled, ClaimFailed, Resolve, Abort, AbortLog, TrySlot,
         Execute, SaveResult, WriteLog, TriggerReload
    <3> QED BY <1>8, <3>1, WorkerEffect
  <2>2. CASE w[2] # P
    <3>1. /\ db'[P] = db[P]
          /\ \A v \in Workers : v[2] = P => pc'[v] = pc[v] /\ mem'[v] = mem[v]
      BY <1>b, <2>1, <2>2 DEF Effect, EffectFrame
    <3> QED BY <1>a, <1>n, <2>1, <3>1
  <2>3. CASE w[2] = P
    <3>1. /\ pc[w] # "idle" /\ pc[w] # "reload" /\ db[P].status # "none"
          /\ Keeps(q, mem[w]) /\ mem[w].status \notin {"none", "expired"}
      BY <1>i, <2>1, <2>3 DEF Effect, EffectCounter
    <3>2. Keeps(q, mem'[w]) /\ mem'[w].status \notin {"none", "expired"} /\ pc'[w] # "reload"
      BY <1>8, <2>1, <3>1, WorkerKeeps DEF Keeps, Effect, EffectCopy
    <3>3. /\ Claimed(P).plan = db[P].plan /\ Claimed(P).openAt = db[P].openAt
          /\ Claimed(P).status = "submitting"
      BY <1>0, <1>b DEF Claimed, TypeOK, RowType
    <3>4. db'[P] \in {db[P], mem'[w], Claimed(P)}
      BY <1>8, <2>3, <3>1, WorkerKeeps
    <3>5. Keeps(q, db'[P]) /\ db'[P].status # "none" /\ (db'[P].status = "expired" => db'[P] = db[P])
      BY <1>i, <3>1, <3>2, <3>3, <3>4 DEF Keeps
    <3>6. ASSUME NEW v \in Workers, v[2] = P, pc'[v] # "idle"
          PROVE  Keeps(q, mem'[v]) /\ mem'[v].status \notin {"none", "expired"} /\ pc'[v] # "reload"
      <4>1. CASE v = w
        BY <3>2, <4>1
      <4>2. CASE v # w
        BY <1>i, <2>1, <3>6, <4>2 DEF Effect, EffectFrame
      <4> QED BY <4>1, <4>2
    <3>7. input'[q].closed = input[q].closed
      BY <2>1
    <3>8. \A row : Keeps(q, row) <=> /\ row.plan = input'[q].closed
                                     /\ row.openAt = EarliestOpening(input'[q].closed)
      BY <3>7 DEF Keeps
    <3>9. Keeps(q, db[P])' /\ \A v \in Workers : v[2] = P /\ pc'[v] # "idle" => Keeps(q, mem[v])'
      BY <3>5, <3>6, <3>7 DEF Keeps
    <3> QED BY <1>i, <2>1, <3>5, <3>6, <3>9
  <2> QED BY <2>2, <2>3
<1>9. ASSUME NEW t \in Triggers, TriggerReturn(t) PROVE Goal
  <2>1. /\ UNCHANGED <<db, now, input>>
        /\ \A w \in Workers : pc'[w] = "idle" \/ (pc'[w] = pc[w] /\ mem'[w] = mem[w])
    BY <1>0, <1>9 DEF TriggerReturn, TypeOK
  <2> QED BY <1>a, <1>n, <2>1
<1>10. ASSUME Crash PROVE Goal
  <2>1. UNCHANGED <<db, now, input>> /\ \A w \in Workers : pc'[w] = "idle"
    BY <1>10 DEF Crash
  <2> QED BY <1>a, <1>n, <2>1
<1>11. ASSUME Tick \/ (\E h \in Handlers : Cancel(h)) \/ UNCHANGED vars PROVE Goal
  <2>1. UNCHANGED <<db, input, pc, mem>> /\ now' \in {now, now + 1}
    BY <1>11 DEF Tick, Cancel, vars
  <2> QED BY <1>a, <1>n, <2>1
<1>12. ASSUME NEW p \in Requests, RequestStep(p) PROVE Goal
  <2>1. CASE p = q
    BY <1>2, <1>3, <1>4, <1>12, <2>1 DEF RequestStep
  <2> QED BY <1>1, <1>12, <2>1
<1> HIDE DEF Goal
<1>13. Goal
  BY <1>5, <1>6, <1>7, <1>8, <1>9, <1>10, <1>11, <1>12 DEF Next
<1> QED BY <1>13 DEF Goal

\* Whatever fails and however many batches overlap, a plan keeps its slots and its
\* opening time, and is not given up before its date has passed.
THEOREM PlansAreKept == Spec => []PlansKept
<1>1. Init => LaneInv /\ RequestInv /\ KeptInv
  <2> SUFFICES ASSUME Init PROVE KeptInv
    BY LaneInit
  <2>1. \A q \in Requests : Plan(q) \in Rows /\ Plan(q) \notin Legacy
    BY WorkerFacts, LanesDisjoint DEF Plans
  <2>2. \A q \in Requests : db[Plan(q)].status = "none"
    BY <2>1 DEF Init, NoRow, NewRow
  <2> QED BY <2>2 DEF Init, KeptInv, PlansKept
<1>2. TypeInv /\ BackedInv /\ LaneInv /\ [Next]_vars => LaneInv'
  BY LaneStep
<1>3. TypeInv /\ BackedInv /\ LaneInv /\ RequestInv /\ [Next]_vars => RequestInv'
  BY RequestInvStep
<1>4. TypeInv /\ BackedInv /\ LaneInv /\ RequestInv /\ KeptInv /\ [Next]_vars => KeptInv'
  BY KeptStep
<1>5. KeptInv => PlansKept
  BY DEF KeptInv
<1> QED BY <1>1, <1>2, <1>3, <1>4, <1>5, TypeInvariant, BackedInit, BackedStep, PTL DEF Spec

(***************************************************************************)
(* A row that says "submitting" is in somebody's hands, as long as calls   *)
(* of the database do not fail, clients stay and the process lives; TYYS   *)
(* may lose its answers, and any number of batches may overlap.  Whoever   *)
(* holds it lets go of it only by writing "failed" or "success": a refused *)
(* worker that still has candidates does not count as a holder, because    *)
(* its row says "failed" or is held by whoever claimed it since.           *)
(***************************************************************************)
OnlyAnswersLost == Faults \subseteq {"lost"}

Holding == {"resolve", "try", "exec", "won", "refused", "abort", "reload"}

HeldInv ==
  /\ cancelled = {}
  /\ \A h \in Batches \cup Triggers :
       hpc[h] = "idle" => \A w \in Workers : w[1] = h => pc[w] = "idle"
  /\ \A r \in Rows :
       db[r].status = "submitting" => \E w \in Workers : w[2] = r /\ pc[w] \in Holding

LEMMA HeldWorker ==
  ASSUME OnlyAnswersLost, TypeInv, HeldInv, NEW w \in Workers, WorkerStep(w)
  PROVE  \/ pc'[w] \in Holding
         \/ pc[w] \notin Holding /\ db' = db
         \/ db'[w[2]].status \in {"failed", "success"}
<1>0. TypeOK /\ w[2] \in Rows /\ mem[w] \in RowType
  BY WorkerFacts DEF TypeInv, TypeOK
<1>1. /\ DbWorks(w[1]) /\ ~ DbFails(w[1]) /\ "cancel" \notin Faults
  BY DEF OnlyAnswersLost, HeldInv, DbWorks, DbFails
<1>2. CASE ClaimScheduled(w) \/ ClaimFailed(w)
  BY <1>0, <1>1, <1>2 DEF ClaimScheduled, ClaimFailed, Transition, FailedWrite, Holding, TypeOK
<1>3. CASE Resolve(w) \/ TriggerReload(w)
  BY <1>0, <1>1, <1>3 DEF Resolve, AfterResolve, TriggerReload, Holding, TypeOK
<1>4. CASE AbortLog(w) \/ WriteLog(w)
  BY <1>4 DEF AbortLog, WriteLog, Holding
<1>5. CASE Abort(w)
  <2>1. db' = [db EXCEPT ![w[2]] = Failed(mem[w])]
    BY <1>1, <1>5 DEF Abort, IgnoredWrite, Write
  <2> QED BY <1>0, <2>1 DEF Failed, RowType, TypeOK
<1>6. CASE TrySlot(w)
  BY <1>0, <1>1, <1>6 DEF TrySlot, FailedWrite, Holding, TypeOK
<1>7. CASE Execute(w)
  BY <1>0, <1>7 DEF Execute, Accepted, Refused, Holding, TypeOK
<1>8. CASE SaveResult(w)
  <2>1. PICK row \in Results(w) : db' = [db EXCEPT ![w[2]] = row]
    BY <1>1, <1>8 DEF SaveResult, IgnoredWrite, Write
  <2>2. row.status \in {"failed", "success"}
    BY <1>0, <2>1 DEF Results, Booked, Failed, RowType
  <2> QED BY <1>0, <2>1, <2>2 DEF TypeOK
<1> QED BY <1>2, <1>3, <1>4, <1>5, <1>6, <1>7, <1>8 DEF WorkerStep

LEMMA HeldStep ==
  ASSUME OnlyAnswersLost, TypeInv, BackedInv, RequestInv, HeldInv, [Next]_vars
  PROVE  HeldInv'
<1>0. TypeOK
  BY DEF TypeInv
<1>f. "cancel" \notin Faults /\ "crash" \notin Faults /\ \A h : ~ DbFails(h)
  BY DEF OnlyAnswersLost, HeldInv, DbFails
<1> DEFINE Idle == \A h \in Batches \cup Triggers :
                     hpc[h] = "idle" => \A w \in Workers : w[1] = h => pc[w] = "idle"
<1>i. cancelled = {} /\ Idle
  BY DEF HeldInv
<1>b. \A h \in Batches \cup Triggers : h \in Handlers /\ h \notin Requests
  BY HandlersAssumption DEF Handlers
\* who holds a row keeps it, and what is claimed is held
<1>a. ASSUME cancelled' = {}, Idle',
             \A w \in Workers : pc[w] \in Holding => pc'[w] = pc[w],
             \A r \in Rows : db'[r].status = "submitting" =>
               \/ db[r].status = "submitting"
               \/ \E w \in Workers : w[2] = r /\ pc'[w] \in Holding
      PROVE  HeldInv'
  <2>1. ASSUME NEW r \in Rows, db'[r].status = "submitting", db[r].status = "submitting"
        PROVE  \E w \in Workers : w[2] = r /\ pc'[w] \in Holding
    <3>1. PICK w \in Workers : w[2] = r /\ pc[w] \in Holding
      BY <2>1 DEF HeldInv
    <3> QED BY <1>a, <3>1
  <2> QED BY <1>a, <2>1 DEF HeldInv
<1>1. ASSUME NEW q \in Requests, RequestStep(q) PROVE HeldInv'
  <2>1. cancelled' = {} /\ \A h \in Batches \cup Triggers : hpc'[h] = hpc[h]
    <3>1. cancelled' = cancelled
      BY <1>1 DEF RequestStep, PostSubmit, PostPlan, CreateLive, SubmitDone, Fallback
    <3>2. \E x : hpc' = [hpc EXCEPT ![q] = x]
      BY <1>1 DEF RequestStep, PostSubmit, PostPlan, CreateLive, SubmitDone, Fallback
    <3> QED BY <1>0, <1>b, <1>i, <3>1, <3>2 DEF TypeOK
  <2>2. \A w \in Workers : pc'[w] = pc[w] \/ (w = LiveWorker(q) /\ pc[w] \in {"idle", "done"})
    <3>1. CASE PostSubmit(q) \/ PostPlan(q) \/ Fallback(q)
      BY <3>1 DEF PostSubmit, PostPlan, Fallback
    <3>2. CASE CreateLive(q)
      <4>1. pc[LiveWorker(q)] = "idle"
        BY <3>2 DEF CreateLive, RequestInv
      <4> QED BY <1>0, <3>2, <4>1 DEF CreateLive, TypeOK
    <3>3. CASE SubmitDone(q)
      BY <1>0, <3>3 DEF SubmitDone, TypeOK
    <3> QED BY <1>1, <3>1, <3>2, <3>3 DEF RequestStep
  <2>3. Idle'
    BY <1>b, <1>i, <2>1, <2>2, WorkerFacts
  <2>4. \A r \in Rows : db'[r].status = "submitting" =>
          \/ db[r].status = "submitting"
          \/ \E w \in Workers : w[2] = r /\ pc'[w] \in Holding
    <3>1. CASE PostSubmit(q) \/ SubmitDone(q)
      BY <3>1 DEF PostSubmit, SubmitDone
    <3>2. CASE PostPlan(q) \/ Fallback(q)
      <4>1. \A r \in Rows : db'[r] = db[r] \/ db'[r].status = "scheduled"
        BY <1>0, <3>2, TableEffect
      <4> QED BY <4>1
    <3>3. CASE CreateLive(q)
      <4>1. db' = [db EXCEPT ![Live(q)] = LiveRow(q)] /\ pc' = [pc EXCEPT ![LiveWorker(q)] = "try"]
        BY <1>f, <3>3 DEF CreateLive, Write, FailedWrite
      <4>2. LiveWorker(q) \in Workers /\ LiveWorker(q)[2] = Live(q)
        BY WorkerFacts
      <4>3. pc'[LiveWorker(q)] \in Holding
        BY <1>0, <4>1, <4>2 DEF TypeOK, Holding
      <4>4. \A r \in Rows : r # Live(q) => db'[r] = db[r]
        BY <1>0, <4>1 DEF TypeOK
      <4> QED BY <4>2, <4>3, <4>4
    <3> QED BY <1>1, <3>1, <3>2, <3>3 DEF RequestStep
  <2> QED BY <1>a, <2>1, <2>2, <2>3, <2>4 DEF Holding
<1>2. ASSUME NEW b \in Batches, BatchList(b) PROVE HeldInv'
  <2>1. /\ UNCHANGED <<db, cancelled>> /\ hpc[b] = "idle"
        /\ hpc' = [hpc EXCEPT ![b] = "running"]
        /\ \A w \in Workers : w[1] # b => pc'[w] = pc[w]
    BY <1>0, <1>2 DEF BatchList, TypeOK
  <2>2. Idle'
    BY <1>0, <1>b, <1>i, <2>1 DEF TypeOK
  <2>3. \A w \in Workers : pc[w] \in Holding => pc'[w] = pc[w]
    BY <1>i, <2>1 DEF Holding
  <2> QED BY <1>a, <1>i, <2>1, <2>2, <2>3
<1>3. ASSUME NEW b \in Batches \cup Triggers,
             (b \in Batches /\ Sweep(b)) \/ TriggerReturn(b)
      PROVE  HeldInv'
  <2>1. /\ cancelled' \subseteq cancelled /\ Running(b) = {}
        /\ hpc' = [hpc EXCEPT ![b] = "idle"]
        /\ \A w \in Workers : w[1] # b => pc'[w] = pc[w]
        /\ \A w \in Workers : w[1] = b => pc'[w] = "idle"
    BY <1>0, <1>3 DEF Sweep, TriggerReturn, TypeOK
  <2>2. Idle'
    BY <1>0, <1>b, <1>i, <2>1 DEF TypeOK
  <2>3. \A w \in Workers : pc[w] \in Holding => pc'[w] = pc[w]
    BY <2>1 DEF Running, Holding
  <2>4. \A r \in Rows : db'[r] = db[r] \/ db'[r].status = "expired"
    BY <1>0, <1>3, TableEffect DEF TriggerReturn
  <2> QED BY <1>a, <1>i, <2>1, <2>2, <2>3, <2>4
<1>4. ASSUME NEW t \in Triggers, NEW r \in Rows, TriggerClaim(t, r) PROVE HeldInv'
  <2>1. /\ cancelled' = cancelled /\ hpc[t] = "idle"
        /\ db' = [db EXCEPT ![r] = Claimed(r)]
        /\ hpc' = [hpc EXCEPT ![t] = "running"] /\ pc' = [pc EXCEPT ![<<t, r>>] = "reload"]
    BY <1>4, <1>f DEF TriggerClaim, Write, FailedWrite
  <2>2. \A w \in Workers : w # <<t, r>> => pc'[w] = pc[w]
    BY <1>0, <2>1 DEF TypeOK
  <2>3. <<t, r>> \in Workers /\ pc[<<t, r>>] = "idle"
    BY <1>i, <2>1, WorkerFacts
  <2>4. Idle'
    BY <1>0, <1>b, <1>i, <2>1, <2>2 DEF TypeOK
  <2>5. <<t, r>>[2] = r /\ pc'[<<t, r>>] \in Holding
    BY <1>0, <2>1, <2>3 DEF TypeOK, Holding
  <2>6. \A x \in Rows : x # r => db'[x] = db[x]
    BY <1>0, <2>1 DEF TypeOK
  <2>7. \A w \in Workers : pc[w] \in Holding => pc'[w] = pc[w]
    BY <2>2, <2>3 DEF Holding
  <2> QED BY <1>a, <1>i, <2>1, <2>3, <2>4, <2>5, <2>6, <2>7
<1>5. ASSUME NEW w \in Workers, WorkerStep(w) PROVE HeldInv'
  <2>1. Effect(w)
    BY <1>5, WorkerEffect
  <2>2. /\ hpc' = hpc /\ pc[w] # "idle"
        /\ \A v \in Workers : v # w => pc'[v] = pc[v]
        /\ \A r \in Rows : r # w[2] => db'[r] = db[r]
    BY <2>1 DEF Effect, EffectFrame, EffectCounter
  <2>3. cancelled' = {}
    BY <1>5, <1>f, <1>i DEF WorkerStep, ClaimScheduled, ClaimFailed, Resolve, Abort, AbortLog,
       TrySlot, Execute, Accepted, Refused, SaveResult, WriteLog, TriggerReload
  <2>4. Idle'
    BY <1>i, <2>2
  <2>5. ASSUME NEW r \in Rows, db'[r].status = "submitting"
        PROVE  \E v \in Workers : v[2] = r /\ pc'[v] \in Holding
    <3>1. CASE r # w[2]
      <4>1. db[r].status = "submitting"
        BY <2>2, <2>5, <3>1
      <4>2. PICK v \in Workers : v[2] = r /\ pc[v] \in Holding
        BY <4>1 DEF HeldInv
      <4> QED BY <2>2, <3>1, <4>2
    <3>2. CASE r = w[2]
      <4>1. CASE pc'[w] \in Holding
        BY <3>2, <4>1
      <4>2. CASE pc[w] \notin Holding /\ db' = db
        <5>1. PICK v \in Workers : v[2] = r /\ pc[v] \in Holding
          BY <2>5, <4>2 DEF HeldInv
        <5> QED BY <2>2, <4>2, <5>1
      <4> QED BY <1>5, <2>5, <3>2, <4>1, <4>2, HeldWorker
    <3> QED BY <3>1, <3>2
  <2> QED BY <2>3, <2>4, <2>5 DEF HeldInv
<1>6. CASE Tick \/ (\E h \in Handlers : Cancel(h)) \/ Crash \/ UNCHANGED vars
  <2>1. UNCHANGED <<db, cancelled, hpc, pc>>
    BY <1>6, <1>f DEF Tick, Cancel, Crash, vars
  <2> QED BY <1>a, <1>i, <2>1
<1> QED BY <1>1, <1>2, <1>3, <1>4, <1>5, <1>6 DEF Next

\* While only answers of TYYS get lost, a row that says "submitting" is in the
\* hands of a worker that will write it back, however many batches overlap.
THEOREM RowsAreInHand ==
  ASSUME OnlyAnswersLost PROVE Spec => []NoRowForgotten
<1>1. Init => LaneInv /\ RequestInv /\ HeldInv
  <2>1. Init => HeldInv
    <3>1. ASSUME Init PROVE \A r \in Rows : db[r].status # "submitting"
      <4>1. /\ NoRow.status = "none"
            /\ \A s \in Slots \cup {NoSlot} : NewRow("pending", s, {}, Null).status = "pending"
        BY DEF NoRow, NewRow
      <4> QED BY <3>1, <4>1 DEF Init
    <3> QED BY <3>1 DEF Init, HeldInv
  <2> QED BY <2>1, LaneInit
<1>2. TypeInv /\ BackedInv /\ LaneInv /\ [Next]_vars => LaneInv'
  BY LaneStep
<1>3. TypeInv /\ BackedInv /\ LaneInv /\ RequestInv /\ [Next]_vars => RequestInv'
  BY RequestInvStep
<1>4. TypeInv /\ BackedInv /\ RequestInv /\ HeldInv /\ [Next]_vars => HeldInv'
  BY HeldStep
<1>5. HeldInv => NoRowForgotten
  BY DEF HeldInv, NoRowForgotten, hands, RowOf, Holding, Writing, Executing
<1> QED BY <1>1, <1>2, <1>3, <1>4, <1>5, TypeInvariant, BackedInit, BackedStep, PTL DEF Spec

(***************************************************************************)
(* Why a worker ends: the safety half of SubmitAnswered and of the batch's *)
(* wg.Wait.  A candidate that is tried is taken off the list, and what is  *)
(* done about one candidate has four stages.                               *)
(***************************************************************************)
Shots == Cardinality(Slots)

\* A bound on the steps the worker has still to take.
Left(w) ==
  CASE pc[w] = "claim"   -> 5 * Shots + 10
    [] pc[w] = "reclaim" -> 5 * Shots + 9
    [] pc[w] = "resolve" -> 5 * Shots + 8
    [] pc[w] = "reload"  -> 5 * Len(todo[w]) + 8
    [] pc[w] = "exec"    -> 5 * Len(todo[w]) + 7
    [] pc[w] \in {"won", "refused"} -> 5 * Len(todo[w]) + 6
    [] pc[w] \in {"logwon", "logrefused"} -> 5 * Len(todo[w]) + 5
    [] pc[w] = "try"     -> 5 * Len(todo[w]) + 3
    [] pc[w] = "abort"   -> 2
    [] pc[w] = "abortlog" -> 1
    [] OTHER             -> 0

\* A step of a worker brings it nearer to its end, whatever TYYS and the database
\* answer; no step of another worker, of its handler or of the clock sets it back.
WorkersShrink ==
  [][\A w \in Workers : /\ WorkerStep(w) => Left(w)' < Left(w)
                        /\ pc[w] # "idle" => Left(w)' <= Left(w)]_vars

\* A worker about to try a candidate has one, and works for a handler that waits
\* for it.
NobodyStrands ==
  \A w \in Workers : /\ pc[w] = "try" => todo[w] # <<>>
                     /\ pc[w] # "idle" => hpc[w[1]] \in {"trying", "running"}

TodoInv ==
  /\ \A q \in Requests : Len(input[q].open) <= Shots
  /\ \A w \in Workers : Len(todo[w]) <= Shots

EndInv == NobodyStrands /\ TodoInv

LEMMA ShotsType == Shots \in Nat
  BY SlotsAssumption, FS_CardinalityType DEF Shots

\* A list of distinct slots is no longer than there are slots.
LEMMA OrderingsAreShort ==
  ASSUME NEW S \in SUBSET Slots, NEW c \in Orderings(S)
  PROVE  c \in Seq(Slots) /\ Len(c) <= Shots
<1>1. PICK n \in 0..Cardinality(S) : c \in [1..n -> S]
  BY DEF Orderings
<1>2. Cardinality(S) \in Nat /\ Cardinality(S) <= Shots
  BY SlotsAssumption, FS_Subset, FS_CardinalityType DEF Shots
<1>3. c \in Seq(Slots) /\ Len(c) = n
  BY <1>1, <1>2
<1> QED
  BY <1>2, <1>3, ShotsType

LEMMA EndInit == Init => EndInv
<1> SUFFICES ASSUME Init PROVE EndInv
  OBVIOUS
<1>1. \A q \in Requests : Len(input[q].open) = 0
  BY DEF Init
<1>2. \A w \in Workers : Len(todo[w]) = 0 /\ pc[w] = "idle"
  BY DEF Init
<1> QED
  BY <1>1, <1>2, ShotsType DEF EndInv, NobodyStrands, TodoInv

LEMMA WorkerLeft ==
  ASSUME TypeInv, EndInv, NEW w \in Workers, WorkerStep(w)
  PROVE  /\ Len(todo'[w]) <= Shots
         /\ pc'[w] = "try" => todo'[w] # <<>>
         /\ Left(w)' < Left(w)
         /\ \A v \in Workers \ {w} : pc'[v] = pc[v] /\ todo'[v] = todo[v]
         /\ UNCHANGED <<hpc, input>>
<1>0. /\ TypeOK /\ Shots \in Nat /\ Len(todo[w]) \in 0..Shots /\ todo[w] \in Seq(Slots)
  BY ShotsType DEF TypeInv, TypeOK, EndInv, TodoInv
<1>1. CASE ClaimScheduled(w) \/ ClaimFailed(w) \/ Abort(w) \/ AbortLog(w)
  <2>1. /\ UNCHANGED <<todo, hpc, input>>
        /\ \/ pc[w] = "claim" /\ pc'[w] \in {"resolve", "reclaim"}
           \/ pc[w] = "reclaim" /\ pc'[w] \in {"resolve", "done"}
           \/ pc[w] = "abort" /\ pc'[w] = "abortlog"
           \/ pc[w] = "abortlog" /\ pc'[w] = "done"
        /\ \A v \in Workers \ {w} : pc'[v] = pc[v]
    BY <1>0, <1>1 DEF TypeOK, ClaimScheduled, ClaimFailed, Transition, Abort, AbortLog
  <2>2. Left(w)' < Left(w)
    BY <1>0, <2>1 DEF Left
  <2> QED
    BY <1>0, <2>1, <2>2
<1>2. CASE Resolve(w)
  <2>1. PICK c \in Orderings(Offered(w)) :
          todo' = [todo EXCEPT ![w] = c] /\ pc' = [pc EXCEPT ![w] = AfterResolve(c)]
    BY <1>2 DEF Resolve
  <2>2. Offered(w) \in SUBSET Slots
    BY <1>0 DEF Offered, RowType, TypeOK
  <2>3. c \in Seq(Slots) /\ Len(c) \in 0..Shots
    BY <1>0, <2>2, OrderingsAreShort
  <2>4. /\ todo'[w] = c /\ pc[w] = "resolve"
        /\ \/ pc'[w] = "abort" /\ c = <<>>
           \/ pc'[w] = "try" /\ c # <<>>
    BY <1>0, <1>2, <2>1 DEF TypeOK, Resolve, AfterResolve
  <2>5. Left(w)' < Left(w)
    BY <1>0, <2>3, <2>4 DEF Left
  <2> QED
    BY <1>0, <1>2, <2>1, <2>3, <2>4, <2>5 DEF TypeOK, Resolve
<1>3. CASE TrySlot(w)
  <2>1. /\ todo[w] # <<>> /\ todo' = [todo EXCEPT ![w] = Tail(todo[w])] /\ pc[w] = "try"
        /\ \/ pc' = [pc EXCEPT ![w] = "exec"]
           \/ pc' = [pc EXCEPT ![w] = NextTry(w, Tail(todo[w]))]
        /\ UNCHANGED <<hpc, input>>
    BY <1>3 DEF TrySlot
  <2>2. Tail(todo[w]) \in Seq(Slots) /\ Len(Tail(todo[w])) = Len(todo[w]) - 1 /\ Len(todo[w]) >= 1
    BY <1>0, <2>1
  <2>3. /\ todo'[w] = Tail(todo[w])
        /\ pc'[w] \in {"exec", "abort", "done", "try"}
        /\ pc'[w] = "try" => Tail(todo[w]) # <<>>
    BY <1>0, <2>1 DEF TypeOK, NextTry
  <2>4. Left(w)' < Left(w)
    <3> DEFINE n == Len(todo[w])
    <3>1. n \in Nat \ {0} /\ Len(todo'[w]) = n - 1
      BY <1>0, <2>2, <2>3
    <3>2. Left(w) = 5 * n + 3
      BY <2>1 DEF Left
    <3>3. Left(w)' \in {5 * (n - 1) + 7, 5 * (n - 1) + 3, 2, 0}
      BY <2>3, <3>1 DEF Left
    <3> HIDE DEF n
    <3> QED
      BY <3>1, <3>2, <3>3
  <2> QED
    BY <1>0, <2>1, <2>2, <2>3, <2>4 DEF TypeOK
<1>4. CASE Execute(w) \/ SaveResult(w) \/ TriggerReload(w)
  <2>1. /\ UNCHANGED <<todo, hpc, input>>
        /\ \/ pc[w] = "exec" /\ pc'[w] \in {"won", "refused"}
           \/ pc[w] \in {"won", "refused"} /\ pc'[w] \in {"logwon", "logrefused"}
           \/ pc[w] = "reload" /\ pc'[w] \in {"exec", "done"}
        /\ \A v \in Workers \ {w} : pc'[v] = pc[v]
    BY <1>0, <1>4 DEF TypeOK, Execute, Accepted, Refused, SaveResult, TriggerReload
  <2>2. Left(w)' < Left(w)
    BY <1>0, <2>1 DEF Left
  <2> QED
    BY <1>0, <2>1, <2>2
<1>5. CASE WriteLog(w)
  <2>1. /\ UNCHANGED <<todo, hpc, input>>
        /\ pc[w] \in {"logwon", "logrefused"} /\ pc'[w] \in {"try", "abort", "done"}
        /\ pc'[w] = "try" => todo[w] # <<>>
        /\ \A v \in Workers \ {w} : pc'[v] = pc[v]
    BY <1>0, <1>5 DEF TypeOK, WriteLog, AfterLog, NextTry
  <2>2. Left(w)' < Left(w)
    BY <1>0, <2>1 DEF Left
  <2> QED
    BY <1>0, <2>1, <2>2
<1> QED
  BY <1>1, <1>2, <1>3, <1>4, <1>5 DEF WorkerStep

\* What the others do: a worker they start was idle, one they stop is left with
\* nothing to do.
Rests(w) == pc'[w] = pc[w] /\ todo'[w] = todo[w]
Halts(w) == pc'[w] = "idle"
Starts(w) == /\ pc[w] = "idle" /\ pc'[w] # "idle"
             /\ pc'[w] = "try" => todo'[w] # <<>>

LEMMA OthersLeft ==
  ASSUME TypeInv, EndInv, [Next]_vars, ~ \E w \in Workers : WorkerStep(w)
  PROVE  /\ \A w \in Workers : Rests(w) \/ Halts(w) \/ Starts(w)
         /\ \A w \in Workers : Len(todo'[w]) <= Shots
         /\ \A w \in Workers : pc'[w] # "idle" => hpc'[w[1]] \in {"trying", "running"}
         /\ \A q \in Requests : Len(input'[q].open) <= Shots
<1> DEFINE Goal ==
      /\ \A w \in Workers : Rests(w) \/ Halts(w) \/ Starts(w)
      /\ \A w \in Workers : Len(todo'[w]) <= Shots
      /\ \A w \in Workers : pc'[w] # "idle" => hpc'[w[1]] \in {"trying", "running"}
      /\ \A q \in Requests : Len(input'[q].open) <= Shots
<1>0. TypeOK /\ Shots \in Nat /\ EndInv
  BY ShotsType DEF TypeInv
<1>w. \A w \in Workers : w[1] \in Handlers /\ (w[1] \in Requests => w = LiveWorker(w[1]))
  BY WorkerFacts
<1>r. \A q \in Requests : q \in Handlers /\ LiveWorker(q) \in Workers /\ LiveWorker(q)[1] = q
  BY WorkerFacts
<1>b. \A h \in Batches \cup Triggers : h \in Handlers /\ \A r \in Rows : <<h, r>> \in Workers
  BY WorkerFacts DEF Handlers
<1> USE <1>0 DEF TypeOK, EndInv, NobodyStrands, TodoInv, Rests, Halts, Starts
<1>1. ASSUME NEW q \in Requests, PostSubmit(q) PROVE Goal
  <2>1. PICK open \in Orderings(OpenSlots), closed \in SUBSET (Slots \ OpenSlots) :
          input' = [input EXCEPT ![q] = [open |-> open, closed |-> closed]]
    BY <1>1 DEF PostSubmit
  <2>2. Len(open) <= Shots
    BY OrderingsAreShort DEF OpenSlots
  <2>3. \A p \in Requests : Len(input'[p].open) <= Shots
    BY <2>1, <2>2
  <2>4. hpc[q] = "idle" /\ \A h \in Handlers : h # q => hpc'[h] = hpc[h]
    BY <1>1 DEF PostSubmit
  <2>5. UNCHANGED <<pc, todo>>
    BY <1>1 DEF PostSubmit
  <2> QED
    BY <1>w, <2>3, <2>4, <2>5
<1>2. ASSUME NEW q \in Requests, PostPlan(q) PROVE Goal
  <2>1. hpc[q] = "idle" /\ UNCHANGED <<pc, todo>> /\ \A h \in Handlers : h # q => hpc'[h] = hpc[h]
    BY <1>2 DEF PostPlan
  <2>2. \A p \in Requests : input'[p].open = input[p].open
    BY <1>2 DEF PostPlan
  <2> QED
    BY <1>w, <2>1, <2>2
<1>3. ASSUME NEW q \in Requests, CreateLive(q) PROVE Goal
  <2>1. hpc[q] = "create" /\ pc[LiveWorker(q)] = "idle" /\ input' = input
    BY <1>3, <1>r DEF CreateLive
  <2>2. CASE /\ hpc' = [hpc EXCEPT ![q] = "trying"]
             /\ pc' = [pc EXCEPT ![LiveWorker(q)] = "try"]
             /\ todo' = [todo EXCEPT ![LiveWorker(q)] = input[q].open]
    <3>1. input[q].open # <<>>
      BY <2>1 DEF TypeInv
    <3> QED
      BY <1>r, <2>1, <2>2, <3>1
  <2>3. CASE hpc' = [hpc EXCEPT ![q] = "fallback"] /\ UNCHANGED <<pc, todo>>
    BY <1>w, <2>1, <2>3
  <2> QED
    BY <1>3, <2>2, <2>3 DEF CreateLive
<1>4. ASSUME NEW q \in Requests, SubmitDone(q) PROVE Goal
  <2>1. /\ pc' = [pc EXCEPT ![LiveWorker(q)] = "idle"] /\ UNCHANGED <<todo, input>>
        /\ \A h \in Handlers : h # q => hpc'[h] = hpc[h]
    BY <1>4 DEF SubmitDone
  <2>2. pc'[LiveWorker(q)] = "idle" /\ \A w \in Workers : w # LiveWorker(q) => pc'[w] = pc[w]
    BY <1>r, <2>1
  <2>3. \A w \in Workers : pc'[w] # "idle" => w[1] # q
    BY <1>w, <2>2
  <2> QED
    BY <1>w, <2>1, <2>2, <2>3
<1>5. ASSUME NEW q \in Requests, Fallback(q) PROVE Goal
  <2>1. /\ hpc[q] = "fallback" /\ UNCHANGED <<pc, todo, input>>
        /\ \A h \in Handlers : h # q => hpc'[h] = hpc[h]
    BY <1>5 DEF Fallback
  <2> QED
    BY <1>w, <2>1
<1>6. ASSUME NEW b \in Batches, BatchList(b) PROVE Goal
  <2>1. /\ hpc[b] = "idle" /\ hpc' = [hpc EXCEPT ![b] = "running"] /\ UNCHANGED <<todo, input>>
        /\ \A w \in Workers : pc'[w] = pc[w] \/ (w[1] = b /\ pc'[w] = "claim")
    BY <1>6 DEF BatchList
  <2> QED
    BY <1>b, <1>w, <2>1
<1>7. ASSUME NEW h \in Batches \cup Triggers, (h \in Batches /\ Sweep(h)) \/ TriggerReturn(h)
      PROVE  Goal
  <2>1. /\ \A w \in Workers : pc'[w] = IF w[1] = h THEN "idle" ELSE pc[w]
        /\ UNCHANGED <<todo, input>>
        /\ \A g \in Handlers : g # h => hpc'[g] = hpc[g]
    BY <1>7 DEF Sweep, TriggerReturn
  <2> QED
    BY <1>w, <2>1
<1>8. ASSUME NEW t \in Triggers, NEW r \in Rows, TriggerClaim(t, r) PROVE Goal
  <2>1. hpc[t] = "idle" /\ pc[<<t, r>>] = "idle" /\ UNCHANGED <<todo, input>>
    BY <1>8, <1>b DEF TriggerClaim
  <2>2. CASE hpc' = [hpc EXCEPT ![t] = "running"] /\ pc' = [pc EXCEPT ![<<t, r>>] = "reload"]
    BY <1>b, <1>w, <2>1, <2>2
  <2>3. CASE UNCHANGED <<hpc, pc>>
    BY <2>1, <2>3
  <2> QED
    BY <1>8, <2>2, <2>3 DEF TriggerClaim
<1>9. ASSUME Crash PROVE Goal
  <2>1. \A w \in Workers : pc'[w] = "idle" /\ todo'[w] = <<>>
    BY <1>9 DEF Crash
  <2>2. input' = input
    BY <1>9 DEF Crash
  <2> QED
    BY <2>1, <2>2
<1>10. ASSUME Tick \/ (\E h \in Handlers : Cancel(h)) \/ UNCHANGED vars PROVE Goal
  BY <1>10 DEF Tick, Cancel, vars
<1> HIDE DEF Goal
<1>11. Goal
  BY <1>1, <1>2, <1>3, <1>4, <1>5, <1>6, <1>7, <1>8, <1>9, <1>10 DEF Next, RequestStep
<1> QED
  BY <1>11 DEF Goal

LEMMA EndStep ==
  ASSUME TypeInv, EndInv, [Next]_vars
  PROVE  EndInv'
<1>1. CASE \E w \in Workers : WorkerStep(w)
  <2>1. PICK w \in Workers : WorkerStep(w)
    BY <1>1
  <2>2. pc[w] # "idle"
    BY <2>1 DEF WorkerStep, ClaimScheduled, ClaimFailed, Resolve, Abort, AbortLog, TrySlot,
                Execute, SaveResult, WriteLog, TriggerReload
  <2>3. /\ \A v \in Workers : v # w => pc'[v] = pc[v] /\ todo'[v] = todo[v]
        /\ UNCHANGED <<hpc, input>>
    BY <2>1, WorkerLeft
  <2>4. Len(todo'[w]) <= Shots /\ (pc'[w] = "try" => todo'[w] # <<>>)
    BY <2>1, WorkerLeft
  <2> QED
    BY <2>2, <2>3, <2>4 DEF EndInv, NobodyStrands, TodoInv
<1>2. CASE ~ \E w \in Workers : WorkerStep(w)
  BY <1>2, OthersLeft DEF EndInv, NobodyStrands, TodoInv, Rests, Halts, Starts
<1> QED
  BY <1>1, <1>2

LEMMA LeftType ==
  ASSUME TypeInv, EndInv, NEW w \in Workers
  PROVE  Left(w) \in 0..5 * Shots + 10
<1>1. Shots \in Nat /\ Len(todo[w]) \in 0..Shots
  BY ShotsType DEF TypeInv, TypeOK, EndInv, TodoInv
<1>2. 5 * Len(todo[w]) \in 0..5 * Shots
  BY <1>1
<1> HIDE DEF Shots
<1> QED
  BY <1>1, <1>2 DEF Left

\* A worker ends after at most 5 steps per slot and 10 more: it never stands
\* before an empty list, and its handler is there to wait for it.
THEOREM WorkersRunOut ==
  Spec => /\ [](\A w \in Workers : Left(w) \in 0..5 * Shots + 10)
          /\ []NobodyStrands
          /\ WorkersShrink
<1>1. TypeInv /\ EndInv /\ [Next]_vars => EndInv'
  BY EndStep
<1>2. TypeInv /\ EndInv => NobodyStrands /\ \A w \in Workers : Left(w) \in 0..5 * Shots + 10
  BY LeftType DEF EndInv
<1>3. ASSUME TypeInv, EndInv, [Next]_vars, NEW w \in Workers
      PROVE  /\ WorkerStep(w) => Left(w)' < Left(w)
             /\ pc[w] # "idle" => Left(w)' <= Left(w)
  <2>1. Left(w) \in Nat
    BY <1>3, LeftType, ShotsType
  <2>2. WorkerStep(w) => Left(w)' < Left(w)
    BY <1>3, WorkerLeft
  <2>3. ASSUME NEW v \in Workers, WorkerStep(v), v # w PROVE Left(w)' <= Left(w)
    <3>1. Left(w)' = Left(w)
      BY <1>3, <2>3, WorkerLeft DEF Left
    <3> QED
      BY <2>1, <3>1
  <2>4. ASSUME ~ \E v \in Workers : WorkerStep(v), pc[w] # "idle" PROVE Left(w)' <= Left(w)
    <3>1. Rests(w) \/ Halts(w)
      BY <1>3, <2>4, OthersLeft DEF Starts
    <3>2. Left(w)' = Left(w) \/ Left(w)' = 0
      BY <3>1 DEF Left, Rests, Halts
    <3> QED
      BY <2>1, <3>2
  <2>5. Left(w)' < Left(w) => Left(w)' <= Left(w)
    <3>1. Left(w)' \in Int
      <4>1. EndInv' /\ TypeInv'
        BY <1>3, EndStep, TypeStep
      <4>2. Len(todo'[w]) \in Nat /\ Shots \in Nat
        BY <4>1, ShotsType DEF TypeInv, TypeOK
      <4> QED
        BY <4>2 DEF Left
    <3> QED
      BY <2>1, <3>1
  <2> QED
    BY <2>2, <2>3, <2>4, <2>5
<1>4. TypeInv /\ EndInv /\ [Next]_vars
        => [\A w \in Workers : /\ WorkerStep(w) => Left(w)' < Left(w)
                               /\ pc[w] # "idle" => Left(w)' <= Left(w)]_vars
  BY <1>3
<1> QED
  BY <1>1, <1>2, <1>4, EndInit, TypeInvariant, PTL DEF Spec, WorkersShrink

=============================================================================

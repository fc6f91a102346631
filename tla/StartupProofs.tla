--------------------------- MODULE StartupProofs ---------------------------
(***************************************************************************)
(* What clients may rely on while instances start, die and stop, for any   *)
(* number of instances, tables and rows and for any number of crashes.     *)
(***************************************************************************)
EXTENDS Startup, TLAPS

\* Instance i has filled the table t.
Passed(i, t) ==
  \/ pc[i] \in {"wire", "serving", "draining"}
  \/ pc[i] \in {"select", "fill"} /\ t < at[i]

\* No row loses its id, so the tables an instance has filled stay filled; a row
\* that has none in the table it is at is one it has still to fill.
FillInv ==
  /\ \A i \in Instances : \A r \in rows : Passed(i, TableOf[r]) => id[r] # 0
  /\ \A i \in Instances : pc[i] = "fill" => \A r \in Nulls(at[i]) : r \in todo[i]
  /\ \A i \in Instances : pc[i] # "fill" => todo[i] = {}

\* Unless backfills overlap a row is filled once, before anybody has seen its id.
OnceInv ==
  ~overlapped =>
    \A i \in Instances : \A r \in todo[i] :
      id[r] = 0 /\ \A j \in Instances \ {i} : r \notin todo[j]

RowsInv == \A r \in Rows \ rows : id[r] = 0 /\ handed[r] = 0

StInv == TypeOK /\ RowsInv /\ FillInv /\ OnceInv /\ KnownIdsStay

-----------------------------------------------------------------------------

LEMMA InitStInv == Init => StInv
<1> SUFFICES ASSUME Init PROVE StInv
  OBVIOUS
<1> USE DEF Init
<1>1. TypeOK
  <2>1. 1 \in Tables /\ 0 \in 0..MaxFaults
    BY TablesAssumption, SettingsAssumption DEF Tables
  <2>2. id \in [Rows -> Nat] /\ handed \in [Rows -> Nat]
    OBVIOUS
  <2> QED
    BY <2>1, <2>2 DEF TypeOK, Stages, Columns
<1>2. RowsInv /\ OnceInv /\ KnownIdsStay
  BY DEF RowsInv, OnceInv, KnownIdsStay
<1>3. FillInv
  BY DEF FillInv, Passed
<1> QED
  BY <1>1, <1>2, <1>3 DEF StInv

\* A step that leaves the rows alone, and an instance no further than it was or
\* with its backfill done, keeps the invariant.
LEMMA Moves ==
  ASSUME StInv, NEW i \in Instances, NEW label \in Stages \ {"fill"},
         TypeOK', pc' = [pc EXCEPT ![i] = label],
         todo' = [todo EXCEPT ![i] = {}],
         UNCHANGED <<rows, id, handed, overlapped>>,
         \A j \in Instances \ {i} : at'[j] = at[j],
         label \in {"select", "wire", "serving", "draining"} =>
           \A r \in rows : Passed(i, TableOf[r])' => id[r] # 0
  PROVE  StInv'
<1> USE DEF StInv
<1>1. RowsInv' /\ KnownIdsStay'
  BY DEF RowsInv, KnownIdsStay
<1>2. OnceInv'
  BY DEF OnceInv, TypeOK
<1>3. \A j \in Instances \ {i} : pc'[j] = pc[j] /\ at'[j] = at[j] /\ todo'[j] = todo[j]
  BY DEF TypeOK
<1>4. pc'[i] = label /\ todo'[i] = {}
  BY DEF TypeOK
<1>5. FillInv'
  <2>1. ASSUME NEW j \in Instances, NEW r \in rows, Passed(j, TableOf[r])'
        PROVE  id[r] # 0
    <3>1. CASE j = i
      BY <1>4, <2>1, <3>1 DEF Passed
    <3>2. CASE j # i
      BY <1>3, <2>1, <3>2 DEF Passed, FillInv
    <3> QED
      BY <3>1, <3>2
  <2>2. ASSUME NEW j \in Instances, pc'[j] = "fill"
        PROVE  \A r \in Nulls(at[j])' : r \in todo'[j]
    <3>1. j # i
      BY <1>4, <2>2
    <3> QED
      BY <1>3, <2>2, <3>1 DEF FillInv, Nulls, RowsOf
  <2>3. \A j \in Instances : pc'[j] # "fill" => todo'[j] = {}
    BY <1>3, <1>4 DEF FillInv
  <2> QED
    BY <2>1, <2>2, <2>3 DEF FillInv
<1> QED
  BY <1>1, <1>2, <1>5

\* A process that ends.
LEMMA EndsKeeps ==
  ASSUME StInv, NEW i \in Instances, Ends(i), faults' \in 0..MaxFaults
  PROVE  StInv'
<1>1. TypeOK'
  BY DEF StInv, TypeOK, Ends, Goto, database, Stages
<1> QED
  BY <1>1, Moves DEF Ends, Goto, database, Stages

\* The stages before the backfill.
LEMMA EarlyKeeps ==
  ASSUME StInv, NEW i \in Instances,
         Boot(i) \/ Load(i) \/ Connect(i) \/ Inspect(i) \/ Apply(i) \/ Prepare(i)
  PROVE  StInv'
<1> DEFINE Quiet(label) ==
      /\ Goto(i, label) /\ todo' = todo /\ todo[i] = {}
      /\ UNCHANGED <<rows, id, handed, overlapped>>
      /\ \A j \in Instances \ {i} : at'[j] = at[j]
<1>0. todo \in [Instances -> SUBSET rows] /\ at \in [Instances -> Tables] /\ N \in Tables
  BY TablesAssumption DEF StInv, TypeOK, Tables
<1>1. ASSUME NEW label \in {"config", "connect", "migrate", "apply", "prepare"},
             Quiet(label), TypeOK'
      PROVE  StInv'
  <2>1. todo' = [todo EXCEPT ![i] = {}]
    BY <1>0, <1>1
  <2> QED
    BY <1>1, <2>1, Moves DEF Goto, Stages
<1>2. CASE Boot(i)
  <2>1. todo[i] = {}
    BY <1>2 DEF Boot, StInv, FillInv
  <2>2. TypeOK'
    BY <1>2 DEF Boot, Goto, StInv, TypeOK, database, local, Stages
  <2> QED
    BY <1>1, <1>2, <2>1, <2>2 DEF Boot, database, local
<1>3. CASE Load(i)
  <2>1. todo[i] = {}
    BY <1>3 DEF Load, StInv, FillInv
  <2>2. CASE Ends(i)
    BY <1>3, <2>2, EndsKeeps DEF Load, StInv, TypeOK
  <2>3. CASE Goto(i, "connect") /\ UNCHANGED <<database, local>>
    <3>1. TypeOK'
      BY <1>3, <2>3 DEF Load, Goto, StInv, TypeOK, database, local, Stages
    <3> QED
      BY <1>1, <2>1, <2>3, <3>1 DEF database, local
  <2> QED
    BY <1>3, <2>2, <2>3 DEF Load
<1>4. CASE Connect(i)
  <2>1. todo[i] = {}
    BY <1>4 DEF Connect, StInv, FillInv
  <2>2. TypeOK'
    BY <1>4, TablesAssumption DEF Connect, Goto, StInv, TypeOK, database, Stages, Tables
  <2> QED
    BY <1>0, <1>1, <1>4, <2>1, <2>2 DEF Connect, database
<1>5. CASE Inspect(i)
  <2>1. todo[i] = {}
    BY <1>5 DEF Inspect, StInv, FillInv
  <2>2. TypeOK'
    BY <1>5 DEF Inspect, Goto, StInv, TypeOK, database, Stages, Tables
  <2> QED
    BY <1>1, <1>5, <2>1, <2>2 DEF Inspect, database
<1>6. CASE Apply(i)
  <2>1. todo[i] = {}
    BY <1>6 DEF Apply, StInv, FillInv
  <2>2. CASE Ends(i)
    BY <1>6, <2>2, EndsKeeps DEF Apply, StInv, TypeOK
  <2>3. CASE /\ column' = [column EXCEPT ![at[i]] = IF @ = "notnull" THEN @ ELSE Migrated(saw[i])]
             /\ Advance(i, "migrate", "prepare")
             /\ UNCHANGED <<env, enforces, rows, id, handed, overlapped, saw, todo, open>>
    <3>1. PICK label \in {"migrate", "prepare"}, t \in Tables :
            Goto(i, label) /\ at' = [at EXCEPT ![i] = t]
      BY <1>0, <2>3, TablesAssumption DEF Advance, Last, Tables
    <3>2. TypeOK'
      BY <1>6, <2>3, <3>1 DEF Apply, Goto, StInv, TypeOK, Stages, Columns, Migrated
    <3> QED
      BY <1>0, <1>1, <2>1, <2>3, <3>1, <3>2
  <2> QED
    BY <1>6, <2>2, <2>3 DEF Apply
<1>7. CASE Prepare(i)
  <2>1. todo[i] = {} /\ pc[i] = "prepare"
    BY <1>7 DEF Prepare, StInv, FillInv
  <2>2. PICK label \in {"prepare", "select"}, t \in Tables :
          /\ Goto(i, label) /\ at' = [at EXCEPT ![i] = t]
          /\ label = "select" => t = 1
    BY <1>0, <1>7, TablesAssumption DEF Prepare, Advance, Last, Tables
  <2>3. TypeOK'
    BY <1>7, <2>2 DEF Prepare, Goto, StInv, TypeOK, Stages, Columns
  <2>4. CASE label = "prepare"
    BY <1>0, <1>1, <1>7, <2>1, <2>2, <2>3, <2>4 DEF Prepare
  <2>5. CASE label = "select"
    <3>1. pc'[i] = "select" /\ at'[i] = 1
      BY <1>0, <2>2, <2>5 DEF Goto, StInv, TypeOK
    <3>2. \A r \in rows : ~Passed(i, TableOf[r])'
      <4>1. \A r \in rows : TableOf'[r] \in Nat \ {0}
        BY TablesAssumption DEF StInv, TypeOK, Tables
      <4> QED
        BY <3>1, <4>1 DEF Passed
    <3>3. todo' = [todo EXCEPT ![i] = {}]
      BY <1>0, <1>7, <2>1 DEF Prepare
    <3>4. UNCHANGED <<rows, id, handed, overlapped>> /\ \A j \in Instances \ {i} : at'[j] = at[j]
      BY <1>0, <1>7, <2>2 DEF Prepare
    <3> QED
      BY <2>2, <2>3, <2>5, <3>2, <3>3, <3>4, Moves DEF Goto, Stages
  <2> QED
    BY <2>2, <2>4, <2>5
<1> QED
  BY <1>2, <1>3, <1>4, <1>5, <1>6, <1>7

\* The query of a backfill.
LEMMA SelectKeeps ==
  ASSUME StInv, NEW i \in Instances, Select(i) PROVE StInv'
<1> USE DEF StInv, Select, Goto
<1>1. TypeOK'
  BY DEF TypeOK, Stages, Found, Nulls, RowsOf
<1>2. RowsInv' /\ KnownIdsStay'
  BY DEF RowsInv, KnownIdsStay
<1>3. todo'[i] = Nulls(at[i]) /\ \A j \in Instances \ {i} : todo'[j] = todo[j]
  BY DEF TypeOK, Found
<1>4. FillInv'
  <2>1. pc'[i] = "fill" /\ \A j \in Instances \ {i} : pc'[j] = pc[j]
    BY DEF TypeOK
  <2>2. \A j \in Instances, t \in Tables : Passed(j, t)' => Passed(j, t)
    BY <2>1 DEF Passed
  <2>3. \A r \in rows : TableOf[r] \in Tables
    BY TablesAssumption DEF TypeOK
  <2> QED
    BY <1>3, <2>1, <2>2, <2>3 DEF FillInv, Nulls, RowsOf
<1>5. OnceInv'
  <2> SUFFICES ASSUME ~overlapped', NEW j \in Instances, NEW r \in todo'[j]
               PROVE  id[r] = 0 /\ \A k \in Instances \ {j} : r \notin todo'[k]
    BY DEF OnceInv
  <2>1. ~overlapped /\ \A k \in Instances \ {i} : todo[k] \cap todo'[i] = {}
    OBVIOUS
  <2>2. CASE j = i
    BY <1>3, <2>1, <2>2 DEF Nulls
  <2>3. CASE j # i
    BY <1>3, <2>1, <2>3 DEF OnceInv
  <2> QED
    BY <2>2, <2>3
<1> QED
  BY <1>1, <1>2, <1>4, <1>5

\* An update of a backfill.
LEMMA FillKeeps ==
  ASSUME StInv, NEW i \in Instances, NEW r \in todo[i], Fill(i, r) PROVE StInv'
<1> USE DEF StInv, Fill
<1>0. r \in rows /\ r \in Rows /\ id[r] \in Nat /\ id'[r] = id[r] + 1
  BY DEF TypeOK
<1>1. TypeOK'
  BY <1>0 DEF TypeOK
<1>2. RowsInv'
  BY <1>0 DEF RowsInv, TypeOK
<1>3. \A s \in rows : id[s] # 0 => id'[s] # 0
  BY <1>0 DEF TypeOK
<1>4. \A j \in Instances : todo'[j] \subseteq todo[j] /\ (todo[j] \subseteq todo'[j] \cup {r})
  BY DEF TypeOK
<1>5. FillInv'
  <2>1. \A j \in Instances, t \in Tables : Passed(j, t)' => Passed(j, t)
    BY DEF Passed
  <2>2. \A s \in rows : TableOf[s] \in Tables
    BY TablesAssumption DEF TypeOK
  <2>3. \A j \in Instances : \A s \in rows : Passed(j, TableOf[s])' => id'[s] # 0
    BY <1>3, <2>1, <2>2 DEF FillInv
  <2>4. \A j \in Instances : pc'[j] = "fill" => \A s \in Nulls(at[j])' : s \in todo'[j]
    <3> SUFFICES ASSUME NEW j \in Instances, pc[j] = "fill", NEW s \in rows,
                        TableOf[s] = at[j], id'[s] = 0
                 PROVE  s \in todo'[j]
      BY DEF Nulls, RowsOf
    <3>1. s # r /\ id[s] = 0
      BY <1>0, <1>3
    <3> QED
      BY <1>4, <3>1 DEF FillInv, Nulls, RowsOf
  <2>5. \A j \in Instances : pc'[j] # "fill" => todo'[j] = {}
    BY <1>4 DEF FillInv
  <2> QED
    BY <2>3, <2>4, <2>5 DEF FillInv
<1>6. OnceInv'
  <2> SUFFICES ASSUME ~overlapped, NEW j \in Instances, NEW s \in todo'[j]
               PROVE  id'[s] = 0 /\ \A k \in Instances \ {j} : s \notin todo'[k]
    BY DEF OnceInv
  <2>1. s # r
    <3>1. CASE j = i
      BY <3>1 DEF TypeOK
    <3>2. CASE j # i
      BY <1>4, <3>2 DEF OnceInv
    <3> QED
      BY <3>1, <3>2
  <2> QED
    BY <1>4, <2>1 DEF OnceInv, TypeOK
<1>7. KnownIdsStay'
  <2>1. ~overlapped => id[r] = 0
    BY DEF OnceInv
  <2> QED
    BY <1>0, <2>1 DEF KnownIdsStay, TypeOK
<1> QED
  BY <1>1, <1>2, <1>5, <1>6, <1>7

\* The end of a table's backfill, and the stages after the last.
LEMMA LateKeeps ==
  ASSUME StInv, NEW i \in Instances, Filled(i) \/ Wire(i) \/ Signal(i) \/ Stop(i) \/ Crash(i)
  PROVE  StInv'
<1>0. todo \in [Instances -> SUBSET rows] /\ at \in [Instances -> Tables] /\ N \in Tables
  BY TablesAssumption DEF StInv, TypeOK, Tables
<1>1. CASE Filled(i)
  <2>1. /\ pc[i] = "fill" /\ todo[i] = {} /\ Advance(i, "select", "wire")
        /\ UNCHANGED <<database, saw, todo, open, faults>>
    BY <1>1 DEF Filled
  <2>2. \A r \in rows : id[r] = 0 => ~(TableOf[r] <= at[i])
    <3> SUFFICES ASSUME NEW r \in rows, id[r] = 0, TableOf[r] <= at[i] PROVE FALSE
      OBVIOUS
    <3>1. TableOf[r] \in Nat /\ at[i] \in Nat
      BY <1>0, TablesAssumption DEF StInv, TypeOK, Tables
    <3>2. CASE TableOf[r] < at[i]
      BY <2>1, <3>2 DEF StInv, FillInv, Passed
    <3>3. CASE TableOf[r] = at[i]
      BY <2>1, <3>3 DEF StInv, FillInv, Nulls, RowsOf
    <3> QED
      BY <3>1, <3>2, <3>3
  <2>3. PICK label \in {"select", "wire"}, t \in Tables :
          /\ pc' = [pc EXCEPT ![i] = label] /\ at' = [at EXCEPT ![i] = t]
          /\ label = "select" => t = at[i] + 1
          /\ label = "wire" => at[i] = N
    BY <1>0, <2>1, TablesAssumption DEF Advance, Last, Goto, Tables
  <2>4. TypeOK'
    BY <2>1, <2>3 DEF StInv, TypeOK, database, Stages
  <2>5. \A r \in rows : Passed(i, TableOf[r])' => id[r] # 0
    <3>1. at[i] \in Nat /\ N \in Nat /\ \A r \in rows : TableOf[r] \in Nat /\ TableOf[r] <= N
      BY <1>0, TablesAssumption DEF StInv, TypeOK, Tables
    <3>2. pc'[i] = label /\ at'[i] = t
      BY <1>0, <2>3 DEF StInv, TypeOK
    <3>3. CASE label = "select"
      BY <2>2, <2>3, <3>1, <3>2, <3>3 DEF Passed
    <3>4. CASE label = "wire"
      BY <2>2, <2>3, <3>1, <3>4
    <3> QED
      BY <3>3, <3>4
  <2>6. todo' = [todo EXCEPT ![i] = {}]
    BY <1>0, <2>1
  <2>7. UNCHANGED <<rows, id, handed, overlapped>> /\ \A j \in Instances \ {i} : at'[j] = at[j]
    BY <1>0, <2>1, <2>3 DEF database
  <2> QED
    BY <2>3, <2>4, <2>5, <2>6, <2>7, Moves DEF Stages
<1>2. ASSUME NEW from \in {"wire", "serving"}, NEW to \in {"serving", "draining"},
             pc[i] = from, Goto(i, to), UNCHANGED <<database, local, faults>>
      PROVE  StInv'
  <2>1. TypeOK'
    BY <1>2 DEF StInv, TypeOK, Goto, database, local, Stages
  <2>2. \A r \in rows : id[r] # 0
    BY <1>2 DEF StInv, FillInv, Passed
  <2>3. todo[i] = {}
    BY <1>2 DEF StInv, FillInv
  <2>4. todo' = [todo EXCEPT ![i] = {}]
    BY <1>0, <1>2, <2>3 DEF local
  <2> QED
    BY <1>2, <2>1, <2>2, <2>4, Moves DEF Goto, Stages, database, local
<1>3. CASE Wire(i)
  <2>1. CASE Ends(i)
    BY <1>3, <2>1, EndsKeeps DEF Wire, StInv, TypeOK
  <2> QED
    BY <1>2, <1>3, <2>1 DEF Wire
<1>4. CASE Signal(i)
  BY <1>2, <1>4 DEF Signal
<1>5. CASE Stop(i)
  BY <1>5, EndsKeeps DEF Stop, StInv, TypeOK
<1>6. CASE Crash(i)
  <2>1. faults' \in 0..MaxFaults
    BY <1>6, SettingsAssumption DEF Crash, StInv, TypeOK
  <2> QED
    BY <1>6, <2>1, EndsKeeps DEF Crash
<1> QED
  BY <1>1, <1>3, <1>4, <1>5, <1>6

\* A new row, with the id BeforeCreate gives it.
LEMMA CreateKeeps ==
  ASSUME StInv, NEW i \in Instances, NEW r \in Rows, Create(i, r) PROVE StInv'
<1> USE DEF StInv, Create
<1>0. /\ r \notin rows /\ rows' = rows \cup {r} /\ id'[r] = 1
      /\ \A s \in Rows \ {r} : id'[s] = id[s]
      /\ UNCHANGED <<env, enforces, column, handed, overlapped, pc, at, saw, todo, open, faults>>
  BY DEF TypeOK, local
<1>1. TypeOK'
  BY <1>0 DEF TypeOK
<1>2. RowsInv'
  BY <1>0 DEF RowsInv
<1>3. \A j \in Instances : todo[j] \subseteq rows /\ rows \subseteq Rows
  BY DEF TypeOK
<1>4. FillInv'
  <2>1. \A j \in Instances, t \in Tables : Passed(j, t)' <=> Passed(j, t)
    BY <1>0 DEF Passed
  <2>2. \A s \in rows : TableOf[s] \in Tables
    BY TablesAssumption DEF TypeOK
  <2>3. \A j \in Instances : \A s \in rows' : Passed(j, TableOf[s])' => id'[s] # 0
    BY <1>0, <1>3, <2>1, <2>2 DEF FillInv
  <2>4. \A j \in Instances : pc'[j] = "fill" => \A s \in Nulls(at[j])' : s \in todo'[j]
    BY <1>0, <1>3 DEF FillInv, Nulls, RowsOf
  <2> QED
    BY <1>0, <2>3, <2>4 DEF FillInv
<1>5. OnceInv'
  BY <1>0, <1>3 DEF OnceInv
<1>6. KnownIdsStay'
  BY <1>0 DEF KnownIdsStay, RowsInv
<1> QED
  BY <1>1, <1>2, <1>4, <1>5, <1>6

\* What a request does otherwise.
LEMMA RequestKeeps ==
  ASSUME StInv, NEW i \in Instances, Begin(i) \/ End(i) \/ \E r \in Rows : Show(i, r)
  PROVE  StInv'
<1> USE DEF StInv
<1>1. CASE Begin(i) \/ End(i)
  <2> USE <1>1 DEF Begin, End, database
  <2>1. TypeOK'
    BY DEF TypeOK
  <2>2. RowsInv' /\ OnceInv' /\ KnownIdsStay'
    BY DEF RowsInv, OnceInv, KnownIdsStay
  <2>3. FillInv'
    BY DEF FillInv, Passed, Nulls, RowsOf
  <2> QED
    BY <2>1, <2>2, <2>3
<1>2. ASSUME NEW r \in Rows, Show(i, r) PROVE StInv'
  <2> USE <1>2 DEF Show, local
  <2>1. TypeOK'
    BY DEF TypeOK
  <2>2. RowsInv' /\ OnceInv' /\ KnownIdsStay'
    BY DEF RowsInv, OnceInv, KnownIdsStay, TypeOK
  <2>3. FillInv'
    BY DEF FillInv, Passed, Nulls, RowsOf
  <2> QED
    BY <2>1, <2>2, <2>3
<1> QED
  BY <1>1, <1>2

LEMMA StepKeeps == StInv /\ [Next]_vars => StInv'
<1> SUFFICES ASSUME StInv, [Next]_vars PROVE StInv'
  OBVIOUS
<1>1. ASSUME NEW i \in Instances, Step(i) PROVE StInv'
  BY <1>1, EarlyKeeps, SelectKeeps, FillKeeps, LateKeeps DEF Step
<1>2. ASSUME NEW i \in Instances,
             \/ Begin(i) \/ End(i) \/ Signal(i) \/ Crash(i)
             \/ \E r \in Rows : Create(i, r) \/ Show(i, r)
      PROVE  StInv'
  BY <1>2, LateKeeps, CreateKeeps, RequestKeeps
<1>3. CASE UNCHANGED vars
  <2> USE <1>3 DEF vars, database, local, StInv
  <2>1. TypeOK' /\ RowsInv'
    BY DEF TypeOK, RowsInv
  <2>2. FillInv' /\ OnceInv' /\ KnownIdsStay'
    BY DEF FillInv, Passed, Nulls, RowsOf, OnceInv, KnownIdsStay
  <2> QED
    BY <2>1, <2>2
<1> QED
  BY <1>1, <1>2, <1>3 DEF Next

LEMMA Invariant == Spec => []StInv
  BY InitStInv, StepKeeps, PTL DEF Spec

-----------------------------------------------------------------------------
(* The theorems. *)

\* The state of the instances and of the database is well formed.
THEOREM StartsTypeCorrect == Spec => []TypeOK
<1>1. StInv => TypeOK
  BY DEF StInv
<1> QED
  BY <1>1, Invariant, PTL

\* No instance serves a row without a public id.
THEOREM ServedRowsAreNamed == Spec => []ServesSound
<1>1. StInv => ServesSound
  BY DEF StInv, FillInv, Passed, ServesSound
<1> QED
  BY <1>1, Invariant, PTL

\* What clients know stays true over crashes and restarts, unless backfills overlap.
THEOREM KnownIdsAreKept == Spec => []KnownIdsStay
<1>1. StInv => KnownIdsStay
  BY DEF StInv
<1> QED
  BY <1>1, Invariant, PTL

-----------------------------------------------------------------------------
(* What a start needs is not lost. *)

\* AutoMigrate of instance i is through with the table t.
Behind(i, t) ==
  \/ pc[i] \in {"prepare", "select", "fill", "wire", "serving", "draining"}
  \/ pc[i] \in {"migrate", "apply"} /\ t < at[i]

\* A table that some instance is through with has its column: a row is inserted
\* only by an instance that is through with all of them.
ColumnInv == \A i \in Instances, t \in Tables : Behind(i, t) => column[t] \in {"nullable", "notnull"}

BaseInv == StInv /\ ColumnInv

\* No table loses its column.
ColumnsGrow == \A t \in Tables : column[t] \in {"nullable", "notnull"} => column'[t] \in {"nullable", "notnull"}

\* An instance that is through with a table was so before, or leaves it with a column.
LEMMA Progress ==
  ASSUME StInv, StInv', ColumnInv, ColumnsGrow,
         \A i \in Instances, t \in Tables :
           Behind(i, t)' => Behind(i, t) \/ column'[t] \in {"nullable", "notnull"}
  PROVE  ColumnInv'
  BY DEF ColumnInv, ColumnsGrow

\* A process that ends has nothing behind it, the others what they had.
LEMMA EndsBehind ==
  ASSUME StInv, NEW i \in Instances, Ends(i)
  PROVE  /\ \A j \in Instances, t \in Tables : Behind(j, t)' => Behind(j, t)
         /\ ColumnsGrow
<1> USE DEF StInv, TypeOK, Ends, Goto, database
<1>1. pc'[i] = "off" /\ \A j \in Instances \ {i} : pc'[j] = pc[j] /\ at'[j] = at[j]
  OBVIOUS
<1> QED
  BY <1>1 DEF Behind, ColumnsGrow

LEMMA ApplyBehind ==
  ASSUME StInv, ColumnInv, NEW i \in Instances, Apply(i), ~Refused(i, at[i]),
         column' = [column EXCEPT ![at[i]] = IF @ = "notnull" THEN @ ELSE Migrated(saw[i])],
         Advance(i, "migrate", "prepare")
  PROVE  /\ \A j \in Instances, t \in Tables :
              Behind(j, t)' => Behind(j, t) \/ column'[t] \in {"nullable", "notnull"}
         /\ ColumnsGrow
<1> USE DEF StInv, TypeOK
<1>1. column'[at[i]] \in {"nullable", "notnull"} /\ \A t \in Tables \ {at[i]} : column'[t] = column[t]
  BY DEF Migrated
<1>2. ColumnsGrow
  BY <1>1 DEF ColumnsGrow
<1>3. \A j \in Instances \ {i} : pc'[j] = pc[j] /\ at'[j] = at[j]
  BY DEF Advance, Goto
<1>4. ASSUME NEW t \in Tables, Behind(i, t)' PROVE Behind(i, t) \/ t = at[i]
  <2>1. at[i] \in 1..N /\ t \in 1..N /\ N \in Nat
    BY TablesAssumption DEF Tables
  <2>2. pc[i] = "apply"
    BY DEF Apply
  <2>3. CASE at[i] = N
    BY <2>1, <2>2, <2>3 DEF Behind
  <2>4. CASE at[i] # N
    <3>1. pc'[i] = "migrate" /\ at'[i] = at[i] + 1
      BY <2>4 DEF Advance, Last, Goto
    <3> QED
      BY <1>4, <2>1, <2>2, <3>1 DEF Behind
  <2> QED
    BY <2>3, <2>4
<1>5. \A j \in Instances \ {i}, t \in Tables : Behind(j, t)' => Behind(j, t)
  BY <1>3 DEF Behind
<1> QED
  BY <1>1, <1>2, <1>4, <1>5

LEMMA PrepareBehind ==
  ASSUME StInv, ColumnInv, NEW i \in Instances, Prepare(i)
  PROVE  /\ \A j \in Instances, t \in Tables : Behind(j, t)' => Behind(j, t)
         /\ column' = column
<1> USE DEF StInv, TypeOK, Prepare
<1>1. Behind(i, at[i])
  BY DEF Behind
<1>2. column' = column
  BY <1>1 DEF ColumnInv
<1>3. \A j \in Instances \ {i} : pc'[j] = pc[j] /\ at'[j] = at[j]
  BY DEF Advance, Goto
<1> QED
  BY <1>2, <1>3 DEF Behind

\* The steps that leave the columns alone and the process running.
LeavesColumns(i) ==
  \/ Boot(i) \/ Connect(i) \/ Inspect(i) \/ Select(i) \/ (\E r \in todo[i] : Fill(i, r))
  \/ Filled(i) \/ Begin(i) \/ End(i) \/ Signal(i)
  \/ (Load(i) /\ ~Ends(i)) \/ (Wire(i) /\ ~Ends(i))
  \/ \E r \in Rows : Create(i, r) \/ Show(i, r)

LEMMA OthersBehind ==
  ASSUME StInv, NEW i \in Instances,
         LeavesColumns(i)
  PROVE  /\ \A j \in Instances, t \in Tables : Behind(j, t)' => Behind(j, t)
         /\ column' = column
<1> USE DEF StInv, TypeOK, Goto, database, local, LeavesColumns
<1>1. CASE Boot(i) \/ Connect(i) \/ Inspect(i) \/ (Load(i) /\ ~Ends(i))
  <2>1. column' = column /\ \A j \in Instances \ {i} : pc'[j] = pc[j] /\ at'[j] = at[j]
    BY <1>1 DEF Boot, Connect, Inspect, Load
  <2>2. \A t \in Tables : Behind(i, t)' => Behind(i, t)
    <3>1. CASE Boot(i) \/ (Load(i) /\ ~Ends(i))
      BY <3>1 DEF Boot, Load, Behind
    <3>2. CASE Connect(i)
      BY <3>2 DEF Connect, Behind, Tables
    <3>3. CASE Inspect(i)
      BY <3>3 DEF Inspect, Behind
    <3> QED
      BY <1>1, <3>1, <3>2, <3>3
  <2> QED
    BY <2>1, <2>2 DEF Behind
<1>2. CASE Select(i) \/ Filled(i) \/ Signal(i) \/ (Wire(i) /\ ~Ends(i))
  <2>1. column' = column /\ \A j \in Instances \ {i} : pc'[j] = pc[j] /\ at'[j] = at[j]
    BY <1>2 DEF Select, Filled, Signal, Wire, Advance
  <2>2. \A t \in Tables : Behind(i, t)
    BY <1>2 DEF Select, Filled, Signal, Wire, Behind
  <2> QED
    BY <2>1, <2>2 DEF Behind
<1>3. CASE Begin(i) \/ End(i) \/ (\E r \in todo[i] : Fill(i, r))
  BY <1>3 DEF Begin, End, Fill, Behind
<1>4. CASE \E r \in Rows : Create(i, r) \/ Show(i, r)
  BY <1>4 DEF Create, Show, Behind
<1> QED
  BY <1>1, <1>2, <1>3, <1>4

LEMMA InitBaseInv == Init => BaseInv
  BY InitStInv DEF Init, BaseInv, ColumnInv, Behind

LEMMA BaseStep == BaseInv /\ [Next]_vars => BaseInv'
<1> SUFFICES ASSUME BaseInv, [Next]_vars PROVE BaseInv'
  OBVIOUS
<1> USE DEF BaseInv
<1>1. StInv'
  BY StepKeeps
<1>2. ASSUME NEW i \in Instances, Ends(i) PROVE ColumnInv'
  BY <1>1, <1>2, EndsBehind, Progress
<1>3. ASSUME NEW i \in Instances, Apply(i) PROVE ColumnInv'
  <2>1. CASE ~Ends(i)
    BY <1>1, <1>3, <2>1, ApplyBehind, Progress DEF Apply
  <2> QED
    BY <1>2, <2>1
<1>4. ASSUME NEW i \in Instances, Prepare(i) PROVE ColumnInv'
  <2>1. ColumnsGrow
    BY <1>4, PrepareBehind DEF ColumnsGrow
  <2> QED
    BY <1>1, <1>4, <2>1, PrepareBehind, Progress
<1>5. ASSUME NEW i \in Instances,
             LeavesColumns(i)
      PROVE  ColumnInv'
  <2>1. (\A j \in Instances, t \in Tables : Behind(j, t)' => Behind(j, t)) /\ column' = column
    BY <1>5, OthersBehind
  <2> QED
    BY <1>1, <2>1, Progress DEF ColumnsGrow
<1>6. CASE UNCHANGED vars
  <2>1. UNCHANGED <<column, pc, at>>
    BY <1>6 DEF vars, database, local
  <2> QED
    BY <1>1, <2>1 DEF ColumnInv, Behind
<1>7. \A i \in Instances : Stop(i) \/ Crash(i) => Ends(i)
  BY DEF Stop, Crash
<1>8. ASSUME NEW i \in Instances, Step(i) PROVE ColumnInv'
  BY <1>2, <1>3, <1>4, <1>5, <1>7, <1>8 DEF Step, LeavesColumns
<1>9. ASSUME NEW i \in Instances,
             \/ Begin(i) \/ End(i) \/ Signal(i) \/ Crash(i)
             \/ \E r \in Rows : Create(i, r) \/ Show(i, r)
      PROVE  ColumnInv'
  BY <1>2, <1>5, <1>7, <1>9 DEF LeavesColumns
<1>10. ColumnInv'
  BY <1>6, <1>8, <1>9 DEF Next
<1> QED
  BY <1>1, <1>10

\* A row gets an id and keeps it; what is inserted has one.
LEMMA StaysStartable == BaseInv /\ [Next]_vars => (Startable => Startable')
<1> SUFFICES ASSUME BaseInv, [Next]_vars, Startable PROVE Startable'
  OBVIOUS
<1> USE DEF BaseInv, StInv, TypeOK
<1> DEFINE Sound(t) == /\ column[t] = "missing" => RowsOf(t) = {}
                       /\ column[t] = "nullable" /\ enforces => Nulls(t) = {}
<1>1. env' = env /\ enforces' = enforces /\ (\A t \in Tables : Sound(t)') => Startable'
  BY DEF Startable, Validate
<1>2. \A t \in Tables : Sound(t)
  BY DEF Startable
<1>3. UNCHANGED <<env, enforces, column, rows, id>> => Startable'
  BY DEF Startable, Validate, RowsOf, Nulls
<1>4. ASSUME NEW i \in Instances, Apply(i) PROVE Startable'
  <2>1. CASE Ends(i)
    BY <1>3, <2>1 DEF Ends, database
  <2>2. CASE ~Ends(i)
    <3>1. /\ column' = [column EXCEPT ![at[i]] = IF @ = "notnull" THEN @ ELSE Migrated(saw[i])]
          /\ UNCHANGED <<env, enforces, rows, id>>
      BY <1>4, <2>2 DEF Apply
    <3>2. ASSUME NEW t \in Tables PROVE Sound(t)'
      <4>1. CASE t = at[i]
        BY <3>1, <4>1 DEF Migrated
      <4>2. CASE t # at[i]
        BY <1>2, <3>1, <4>2 DEF RowsOf, Nulls
      <4> QED
        BY <4>1, <4>2
    <3> HIDE DEF Sound
    <3> QED
      BY <1>1, <3>1, <3>2
  <2> QED
    BY <2>1, <2>2
<1>5. ASSUME NEW i \in Instances, Prepare(i) PROVE Startable'
  BY <1>3, <1>5, PrepareBehind DEF Prepare
<1>6. ASSUME NEW i \in Instances, NEW r \in todo[i], Fill(i, r) PROVE Startable'
  <2>1. /\ UNCHANGED <<env, enforces, column, rows>>
        /\ \A s \in rows : id[s] # 0 => id'[s] # 0
    BY <1>6 DEF Fill
  <2>2. \A t \in Tables : Sound(t)'
    BY <1>2, <2>1 DEF RowsOf, Nulls
  <2> HIDE DEF Sound
  <2> QED
    BY <1>1, <2>1, <2>2
<1>7. ASSUME NEW i \in Instances, NEW r \in Rows, Create(i, r) PROVE Startable'
  <2>1. /\ UNCHANGED <<env, enforces, column>> /\ rows' = rows \cup {r}
        /\ id'[r] = 1 /\ \A s \in rows : s # r => id'[s] = id[s]
    BY <1>7 DEF Create
  <2>2. \A t \in Tables : column[t] # "missing"
    BY <1>7 DEF Create, Handling, ColumnInv, Behind
  <2>3. \A t \in Tables : Nulls(t)' \subseteq Nulls(t)
    BY <2>1 DEF Nulls, RowsOf
  <2>4. \A t \in Tables : Sound(t)'
    BY <1>2, <2>1, <2>2, <2>3
  <2> HIDE DEF Sound
  <2> QED
    BY <1>1, <2>1, <2>4
<1>8. ASSUME NEW i \in Instances,
             \/ Boot(i) \/ Load(i) \/ Connect(i) \/ Inspect(i) \/ Select(i) \/ Filled(i)
             \/ Wire(i) \/ Stop(i) \/ Begin(i) \/ End(i) \/ Signal(i) \/ Crash(i)
             \/ \E r \in Rows : Show(i, r)
      PROVE  Startable'
  <2>1. UNCHANGED <<env, enforces, column, rows, id>>
    BY <1>8 DEF Boot, Load, Connect, Inspect, Select, Filled, Wire, Stop, Begin, End, Signal,
                Crash, Show, Ends, database
  <2> QED
    BY <1>3, <2>1
<1>9. CASE UNCHANGED vars
  BY <1>3, <1>9 DEF vars, database
<1>10. ASSUME NEW i \in Instances, Step(i) PROVE Startable'
  BY <1>4, <1>5, <1>6, <1>8, <1>10 DEF Step
<1> QED
  BY <1>7, <1>8, <1>9, <1>10 DEF Next

\* A server that can start keeps what it needs for the next start.
THEOREM StartsAreSafe == Spec => StartableStays
<1>1. Spec => []BaseInv
  BY InitBaseInv, BaseStep, PTL DEF Spec
<1>2. BaseInv /\ [Next]_vars => [Startable => Startable']_vars
  BY StaysStartable
<1> QED
  BY <1>1, <1>2, PTL DEF Spec, StartableStays

=============================================================================

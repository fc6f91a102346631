------------------------------ MODULE Startup ------------------------------
(***************************************************************************)
(* The life of the server's processes over one database (cmd/server/       *)
(* main.go): the configuration (internal/config/config.go), the connection *)
(* (internal/database/postgres.go), AutoMigrate, preparePublicIDColumns,   *)
(* the backfill of missing public ids, the requests, and the shutdown.     *)
(* Several instances may start, serve and stop at a time; each may die     *)
(* between any two statements, and is started again.                       *)
(*                                                                         *)
(* A public id is a number: 0 is NULL, and every id made for a row is new. *)
(***************************************************************************)
EXTENDS Integers

CONSTANTS
  Instances,  \* processes running main
  N,          \* the tables with a public id are 1..N, in the order of the backfill
  Rows,       \* the rows there may be
  TableOf,    \* row -> its table
  Growing,    \* tables the services insert into
  Settings,   \* the environment variables that hold numbers
  Fallback,   \* setting -> its default
  Least,      \* setting -> the least value Validate takes
  Envs,       \* environments the instances may be given
  MaxFaults   \* bound on crashes and failed calls

Tables == 1..N
Texts == [kind : {"blank", "junk", "number"}, value : Int]

ASSUME TablesAssumption == N \in Nat \ {0} /\ TableOf \in [Rows -> Tables] /\ Growing \subseteq Tables
ASSUME SettingsAssumption == {Fallback, Least} \subseteq [Settings -> Int] /\ MaxFaults \in Nat
ASSUME EnvsAssumption ==
  Envs \subseteq [text : [Settings -> Texts], level : BOOLEAN, zju : BOOLEAN]

VARIABLES
  env,        \* the environment: its numbers, whether LOG_LEVEL is one, whether there are credentials
  enforces,   \* whether AutoMigrate makes an existing column NOT NULL
  column,     \* table -> "absent" (no table), "missing" (no column), "nullable", "notnull"
  rows,       \* the rows that exist
  id,         \* row -> its public id
  handed,     \* row -> the public id clients were given, 0 for none
  overlapped, \* whether two backfills have ever found the same row
  pc,         \* what each instance is doing
  at,         \* the table it is at
  saw,        \* what it found there
  todo,       \* the rows it has still to give an id
  open,       \* whether it has a request in flight
  faults

database == <<env, enforces, column, rows, id, handed, overlapped>>
local == <<at, saw, todo, open>>
vars == <<database, pc, local, faults>>

RowsOf(t) == {r \in rows : TableOf[r] = t}
Nulls(t) == {r \in RowsOf(t) : id[r] = 0}

Columns == {"absent", "missing", "nullable", "notnull"}

\* A database of any age: new, from before there were public ids, or half migrated.
Init ==
  /\ env \in Envs /\ enforces \in BOOLEAN
  /\ column \in [Tables -> Columns] /\ rows \in SUBSET Rows
  /\ id \in [Rows -> {0, 1}]
  /\ \A r \in Rows : id[r] # 0 => r \in rows
  /\ \A t \in Tables :
       /\ column[t] = "absent" => RowsOf(t) = {}
       /\ column[t] = "missing" => RowsOf(t) = Nulls(t)
       /\ column[t] = "notnull" => Nulls(t) = {}
  /\ handed = [r \in Rows |-> 0] /\ overlapped = FALSE
  /\ pc = [i \in Instances |-> "off"] /\ at = [i \in Instances |-> 1]
  /\ saw = [i \in Instances |-> "absent"] /\ todo = [i \in Instances |-> {}]
  /\ open = [i \in Instances |-> FALSE] /\ faults = 0

Goto(i, label) == pc' = [pc EXCEPT ![i] = label]

\* log.Fatal, os.Exit, a panic or a kill: nothing of the process is left.
Ends(i) ==
  /\ Goto(i, "off")
  /\ todo' = [todo EXCEPT ![i] = {}] /\ open' = [open EXCEPT ![i] = FALSE]
  /\ UNCHANGED <<database, at, saw>>

Boot(i) == pc[i] = "off" /\ Goto(i, "config") /\ UNCHANGED <<database, local, faults>>

-----------------------------------------------------------------------------
(* config.Load and the logger.  No text can be blank once getEnv has put its *)
(* default in, so only the numbers can be wrong.                             *)

GetEnvInt(text, fallback) == IF text.kind = "blank" THEN fallback ELSE text.value

Validate ==
  \A s \in Settings :
    env.text[s].kind # "junk" /\ GetEnvInt(env.text[s], Fallback[s]) >= Least[s]

Load(i) ==
  /\ pc[i] = "config"
  /\ \/ Validate /\ env.level /\ Goto(i, "connect") /\ UNCHANGED <<database, local>>
     \/ ~(Validate /\ env.level) /\ Ends(i)
  /\ UNCHANGED faults

Connect(i) ==
  /\ pc[i] = "connect"
  /\ Goto(i, "migrate") /\ at' = [at EXCEPT ![i] = 1]
  /\ UNCHANGED <<database, saw, todo, open, faults>>

-----------------------------------------------------------------------------
(* Table by table. *)

\* The next table, or the next stage.
\* Wrong variant: the last table is forgotten.
Last_Forgets(t) == t + 1 >= N
Last(t) == t = N
Advance(i, label, next) ==
  IF Last(at[i]) THEN Goto(i, next) /\ at' = [at EXCEPT ![i] = 1]
                 ELSE Goto(i, label) /\ at' = [at EXCEPT ![i] = @ + 1]

\* AutoMigrate looks at the table first and changes it by what it saw.
Inspect(i) ==
  /\ pc[i] = "migrate"
  /\ saw' = [saw EXCEPT ![i] = column[at[i]]]
  /\ Goto(i, "apply")
  /\ UNCHANGED <<database, at, todo, open, faults>>

\* The database refuses to create what another instance has created meanwhile,
\* a NOT NULL column for rows that are there, and NOT NULL where there are NULLs.
Refused(i, t) ==
  \/ saw[i] \in {"absent", "missing"} /\ column[t] # saw[i]
  \/ saw[i] = "missing" /\ RowsOf(t) # {}
  \/ saw[i] = "nullable" /\ enforces /\ Nulls(t) # {}

Migrated(seen) == IF seen = "nullable" /\ ~enforces THEN "nullable" ELSE "notnull"

Apply(i) ==
  /\ pc[i] = "apply"
  /\ \/ Refused(i, at[i]) /\ Ends(i)
     \/ /\ ~Refused(i, at[i])
        /\ column' = [column EXCEPT ![at[i]] = IF @ = "notnull" THEN @ ELSE Migrated(saw[i])]
        /\ Advance(i, "migrate", "prepare")
        /\ UNCHANGED <<env, enforces, rows, id, handed, overlapped, saw, todo, open>>
  /\ UNCHANGED faults

\* ADD COLUMN IF NOT EXISTS.
Prepare(i) ==
  /\ pc[i] = "prepare"
  /\ column' = [column EXCEPT ![at[i]] = IF @ = "missing" THEN "nullable" ELSE @]
  /\ Advance(i, "prepare", "select")
  /\ UNCHANGED <<env, enforces, rows, id, handed, overlapped, saw, todo, open, faults>>

\* Wrong variant: all rows, not those without an id.
Found_All(t) == RowsOf(t)
Found(t) == Nulls(t)

Select(i) ==
  /\ pc[i] = "select"
  /\ todo' = [todo EXCEPT ![i] = Found(at[i])]
  /\ overlapped' = (overlapped \/ \E j \in Instances \ {i} : todo[j] \cap todo'[i] # {})
  /\ Goto(i, "fill")
  /\ UNCHANGED <<env, enforces, column, rows, id, handed, at, saw, open, faults>>

\* By primary key, whether or not the row has got an id since.
Fill(i, r) ==
  /\ pc[i] = "fill" /\ r \in todo[i]
  /\ id' = [id EXCEPT ![r] = @ + 1]
  /\ todo' = [todo EXCEPT ![i] = @ \ {r}]
  /\ UNCHANGED <<env, enforces, column, rows, handed, overlapped, pc, at, saw, open, faults>>

Filled(i) ==
  /\ pc[i] = "fill" /\ todo[i] = {}
  /\ Advance(i, "select", "wire")
  /\ UNCHANGED <<database, saw, todo, open, faults>>

\* The credentials of ZJUAM are looked at last.
Wire(i) ==
  /\ pc[i] = "wire"
  /\ \/ env.zju /\ Goto(i, "serving") /\ UNCHANGED <<database, local>>
     \/ ~env.zju /\ Ends(i)
  /\ UNCHANGED faults

-----------------------------------------------------------------------------
(* Requests and the shutdown. *)

Begin(i) ==
  /\ pc[i] = "serving" /\ ~open[i]
  /\ open' = [open EXCEPT ![i] = TRUE]
  /\ UNCHANGED <<database, pc, at, saw, todo, faults>>

Handling(i) == pc[i] \in {"serving", "draining"} /\ open[i]

\* BeforeCreate gives a new row its public id.
Create(i, r) ==
  /\ Handling(i) /\ r \notin rows /\ TableOf[r] \in Growing
  /\ rows' = rows \cup {r} /\ id' = [id EXCEPT ![r] = 1]
  /\ UNCHANGED <<env, enforces, column, handed, overlapped, pc, local, faults>>

\* An answer names the row by its public id.
Show(i, r) ==
  /\ Handling(i) /\ r \in rows
  /\ handed' = [handed EXCEPT ![r] = id[r]]
  /\ UNCHANGED <<env, enforces, column, rows, id, overlapped, pc, local, faults>>

End(i) ==
  /\ Handling(i)
  /\ open' = [open EXCEPT ![i] = FALSE]
  /\ UNCHANGED <<database, pc, at, saw, todo, faults>>

Signal(i) == pc[i] = "serving" /\ Goto(i, "draining") /\ UNCHANGED <<database, local, faults>>

\* Shutdown waits for the requests, for 5s; those that are left are cut off.
\* Wrong variant: a shutdown without a limit.
Waits_Always(i) == ~open[i]
Waits(i) == TRUE

Stop(i) == pc[i] = "draining" /\ Waits(i) /\ Ends(i) /\ UNCHANGED faults

\* The process dies, or a statement of its start fails.
Crash(i) ==
  /\ pc[i] # "off" /\ faults < MaxFaults
  /\ Ends(i) /\ faults' = faults + 1

Step(i) ==
  \/ Boot(i) \/ Load(i) \/ Connect(i) \/ Inspect(i) \/ Apply(i) \/ Prepare(i)
  \/ Select(i) \/ (\E r \in todo[i] : Fill(i, r)) \/ Filled(i) \/ Wire(i) \/ Stop(i)

Next ==
  \E i \in Instances :
    \/ Step(i) \/ Begin(i) \/ End(i) \/ Signal(i) \/ Crash(i)
    \/ \E r \in Rows : Create(i, r) \/ Show(i, r)

Spec == Init /\ [][Next]_vars

\* An instance that is down is started again, the database answers, and the
\* shutdown's timer runs out.  No request need end and no signal need come.
FairSpec == Spec /\ \A i \in Instances : WF_vars(Step(i))

-----------------------------------------------------------------------------
Stages == {"off", "config", "connect", "migrate", "apply", "prepare", "select", "fill",
           "wire", "serving", "draining"}

TypeOK ==
  /\ env \in Envs /\ enforces \in BOOLEAN
  /\ column \in [Tables -> Columns] /\ rows \subseteq Rows
  /\ id \in [Rows -> Nat] /\ handed \in [Rows -> Nat] /\ overlapped \in BOOLEAN
  /\ pc \in [Instances -> Stages] /\ at \in [Instances -> Tables]
  /\ saw \in [Instances -> Columns] /\ todo \in [Instances -> SUBSET rows]
  /\ open \in [Instances -> BOOLEAN] /\ faults \in 0..MaxFaults

\* While an instance answers requests every row has a public id, whatever state
\* the database was in, whoever died half way through a backfill, and although
\* others are still starting.
ServesSound ==
  \A i \in Instances : pc[i] \in {"serving", "draining"} => \A r \in rows : id[r] # 0

\* A public id that clients know stays the row's, over any crashes and restarts,
\* unless two backfills were at the same row at once: the second one replaces
\* what the first has filled in, though that is served by then.
KnownIdsStay == ~overlapped => \A r \in Rows : handed[r] \in {0, id[r]}

\* What a start needs: a valid environment, and no rows AutoMigrate stumbles over.
Startable ==
  /\ Validate /\ env.level /\ env.zju
  /\ \A t \in Tables : /\ column[t] = "missing" => RowsOf(t) = {}
                       /\ column[t] = "nullable" /\ enforces => Nulls(t) = {}

\* No step takes that away: no death half way through a migration or a backfill,
\* no table that AutoMigrate of another instance has yet to reach, and no row
\* that is inserted meanwhile leaves a database the next start stumbles over.
StartableStays == [][Startable => Startable']_vars

\* A server that can start comes up again and again: no crash leaves the database
\* in a state the next start cannot deal with, no race of two starts is lost for
\* ever, and no shutdown waits for a request that does not end.
ComesUp == Startable => \A i \in Instances : []<>(pc[i] = "serving")

=============================================================================

------------------------------ MODULE RowLife ------------------------------
(***************************************************************************)
(* What the reservation engine promises of each row of room_reservations:  *)
(* it is stored once, one worker at a time has it in hand, only that       *)
(* worker orders for it and only courts nobody has, it becomes a success   *)
(* with an order and then stays one.  Module Reservation implements this   *)
(* for one scheduler, whatever fails.                                      *)
(***************************************************************************)
CONSTANTS
  Rows,     \* rows of the table
  Workers,  \* goroutines that may work on them
  RowOf,    \* worker -> the row it works on
  Slots     \* bookable court times

VARIABLES
  state,    \* row -> what it says
  hands,    \* the workers that have their row in hand
  orders    \* <<row, slot>>: the orders TYYS accepted

vars == <<state, hands, orders>>

States == {"absent", "waiting", "booked", "expired"}

Init ==
  /\ state \in [Rows -> {"absent", "waiting"}]
  /\ hands = {} /\ orders = {}

Free(r) == \A w \in hands : RowOf[w] # r

\* A request stores the row, and may go on to work on it.
Enter(r) ==
  /\ state[r] = "absent" /\ Free(r)
  /\ state' = [state EXCEPT ![r] = "waiting"]
  /\ \/ UNCHANGED hands
     \/ \E w \in Workers : RowOf[w] = r /\ hands' = hands \cup {w}
  /\ UNCHANGED orders

Take(w) ==
  /\ state[RowOf[w]] = "waiting" /\ Free(RowOf[w])
  /\ hands' = hands \cup {w}
  /\ UNCHANGED <<state, orders>>

\* TYYS books a court once.
Order(w) ==
  /\ state[RowOf[w]] # "booked"
  /\ \E s \in Slots : /\ \A o \in orders : o[2] # s
                      /\ orders' = orders \cup {<<RowOf[w], s>>}
  /\ UNCHANGED <<state, hands>>

\* The owner writes the row back, gives it up, or both.  A row the clean-up
\* expired in its hands is not expired any more when it is written back.
Keep(w) ==
  /\ state[RowOf[w]] # "booked"
  /\ UNCHANGED state \/ state' = [state EXCEPT ![RowOf[w]] = "waiting"]
  /\ hands' \in {hands, hands \ {w}}
  /\ UNCHANGED orders

Succeed(w) ==
  /\ state[RowOf[w]] # "booked"
  /\ \E s \in Slots : <<RowOf[w], s>> \in orders
  /\ state' = [state EXCEPT ![RowOf[w]] = "booked"]
  /\ hands' = hands \ {w}
  /\ UNCHANGED orders

\* Workers vanish, all at once when the process ends.
Vanish == hands' \subseteq hands /\ UNCHANGED <<state, orders>>

\* The clean-up does not ask whether a row is in somebody's hands.
Expire ==
  /\ \E R \in SUBSET {r \in Rows : state[r] = "waiting"} :
       state' = [r \in Rows |-> IF r \in R THEN "expired" ELSE state[r]]
  /\ UNCHANGED <<hands, orders>>

Next ==
  \/ Vanish
  \/ \E w \in hands : Order(w) \/ Keep(w) \/ Succeed(w)
  \/ \E w \in Workers : Take(w)
  \/ \E r \in Rows : Enter(r)
  \/ Expire

Spec == Init /\ [][Next]_vars

=============================================================================

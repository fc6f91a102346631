----------------------------- MODULE Submission -----------------------------
(***************************************************************************)
(* What executeReservation promises its callers: of one execution TYYS     *)
(* accepts at most one order, and the answer is success exactly if that    *)
(* order was accepted and TYYS's answer to it was not lost.                *)
(* Reservation!Execute takes Book and Answer in one step.                  *)
(***************************************************************************)
CONSTANTS
  Calls,   \* executions of executeReservation
  SlotOf,  \* call -> the court time it asks for
  Lossy    \* an answer of TYYS may be lost

VARIABLES
  booked,  \* the calls whose order TYYS accepted
  lost,    \* those whose acceptance never reached this process
  answer   \* call -> what executeReservation returned

Answers == {"none", "success", "failed"}

Init == booked = {} /\ lost = {} /\ answer = [c \in Calls |-> "none"]

Book(c) ==
  /\ answer[c] = "none"
  /\ c \notin booked /\ \A d \in booked : SlotOf[d] # SlotOf[c]
  /\ booked' = booked \cup {c}
  /\ UNCHANGED lost \/ (Lossy /\ lost' = lost \cup {c})
  /\ UNCHANGED answer

Answer(c) ==
  /\ answer[c] = "none"
  /\ answer' = [answer EXCEPT ![c] = IF c \in booked \ lost THEN "success" ELSE "failed"]
  /\ UNCHANGED <<booked, lost>>

Next == \E c \in Calls : Book(c) \/ Answer(c)

Spec == Init /\ [][Next]_<<booked, lost, answer>>

=============================================================================

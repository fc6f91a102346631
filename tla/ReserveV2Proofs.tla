-------------------------- MODULE ReserveV2Proofs --------------------------
(***************************************************************************)
(* executeReservation returns success only with an order in hand, never    *)
(* repeats a submission whose answer it lost, and keeps the promise of     *)
(* module Submission, for any number of executions and retries.            *)
(***************************************************************************)
EXTENDS ReserveV2, Integers, TLAPS

Over == {"ended", "success", "failed"}

\* What stage and err of one execution say of its order.
CallInv(c) ==
  /\ stage[c] \notin Over => err[c] = "none" /\ c \notin booked
  /\ stage[c] \in Over => (err[c] = "none" <=> c \in booked \ lost)
  /\ c \in lost => err[c] = "other"
  /\ stage[c] = "success" => err[c] = "none"
  /\ stage[c] = "failed" => err[c] # "none"
  /\ stage[c] = "submit" => verified[c] = attempt[c]

IInv == TypeOK /\ \A c \in Calls : CallInv(c)

\* A step of one execution leaves the other executions as they are.
OthersStay(c) ==
  /\ \A d \in Calls \ {c} :
       /\ stage'[d] = stage[d] /\ attempt'[d] = attempt[d] /\ err'[d] = err[d]
       /\ verified'[d] = verified[d] /\ (d \in booked' <=> d \in booked)
       /\ (d \in lost' <=> d \in lost)

LEMMA StepsAreLocal ==
  ASSUME TypeOK, NEW c \in Calls, Step(c)
  PROVE  OthersStay(c)
<1> USE DEF TypeOK, OthersStay, Goes, Fails
<1>1. CASE OrderInfo(c)
  BY <1>1 DEF OrderInfo
<1>2. CASE Buddies(c)
  BY <1>2 DEF Buddies
<1>3. CASE CaptchaGet(c)
  BY <1>3 DEF CaptchaGet
<1>4. CASE Solve(c)
  BY <1>4 DEF Solve
<1>5. CASE CaptchaCheck(c)
  BY <1>5 DEF CaptchaCheck
<1>6. CASE OrderSubmit(c)
  BY <1>6 DEF OrderSubmit
<1>7. CASE EndAttempt(c)
  BY <1>7 DEF EndAttempt
<1> QED BY <1>1, <1>2, <1>3, <1>4, <1>5, <1>6, <1>7 DEF Step

LEMMA TypeStep ==
  ASSUME TypeOK, [Next]_vars
  PROVE  TypeOK'
<1> USE RetriesAssumption DEF TypeOK, Goes, Fails, Stages, Errors
<1>1. ASSUME NEW c \in Calls, OrderInfo(c) PROVE TypeOK'
  BY <1>1 DEF OrderInfo
<1>2. ASSUME NEW c \in Calls, Buddies(c) PROVE TypeOK'
  BY <1>2 DEF Buddies
<1>3. ASSUME NEW c \in Calls, CaptchaGet(c) PROVE TypeOK'
  BY <1>3 DEF CaptchaGet
<1>4. ASSUME NEW c \in Calls, Solve(c) PROVE TypeOK'
  BY <1>4 DEF Solve
<1>5. ASSUME NEW c \in Calls, CaptchaCheck(c) PROVE TypeOK'
  BY <1>5 DEF CaptchaCheck
<1>6. ASSUME NEW c \in Calls, OrderSubmit(c) PROVE TypeOK'
  BY <1>6 DEF OrderSubmit
<1>7. ASSUME NEW c \in Calls, EndAttempt(c) PROVE TypeOK'
  BY <1>7 DEF EndAttempt, TriesLeft, NextAttempt, Verdict
<1>8. ASSUME NEW c \in Calls, Cancel(c) PROVE TypeOK'
  BY <1>8 DEF Cancel
<1>9. CASE UNCHANGED vars
  BY <1>9 DEF vars
<1> QED BY <1>1, <1>2, <1>3, <1>4, <1>5, <1>6, <1>7, <1>8, <1>9 DEF Next, Step

LEMMA CallStep ==
  ASSUME IInv, NEW c \in Calls, Step(c)
  PROVE  CallInv(c)'
<1> USE DEF IInv, TypeOK, CallInv, Goes, Fails, Over, Errors
<1>1. CASE OrderInfo(c)
  BY <1>1 DEF OrderInfo
<1>2. CASE Buddies(c)
  BY <1>2 DEF Buddies
<1>3. CASE CaptchaGet(c)
  BY <1>3 DEF CaptchaGet
<1>4. CASE Solve(c)
  BY <1>4 DEF Solve
<1>5. CASE CaptchaCheck(c)
  BY <1>5 DEF CaptchaCheck, CheckOK
<1>6. CASE OrderSubmit(c)
  BY <1>6, FaultsAssumption DEF OrderSubmit
<1>7. CASE EndAttempt(c)
  BY <1>7 DEF EndAttempt, IsCaptchaError, Verdict
<1> QED BY <1>1, <1>2, <1>3, <1>4, <1>5, <1>6, <1>7 DEF Step

LEMMA IInvStep ==
  ASSUME IInv, [Next]_vars
  PROVE  IInv'
<1>1. TypeOK'
  BY TypeStep DEF IInv
<1>2. ASSUME NEW c \in Calls, Step(c), NEW d \in Calls PROVE CallInv(d)'
  <2>1. CASE d = c
    BY <1>2, <2>1, CallStep
  <2>2. CASE d # c
    BY <1>2, <2>2, StepsAreLocal DEF IInv, OthersStay, CallInv
  <2> QED BY <2>1, <2>2
<1>3. ASSUME NEW c \in Calls, Cancel(c) PROVE \A d \in Calls : CallInv(d)'
  BY <1>3 DEF Cancel, IInv, CallInv
<1>4. CASE UNCHANGED vars
  BY <1>4 DEF vars, IInv, TypeOK, CallInv
<1> QED BY <1>1, <1>2, <1>3, <1>4 DEF Next, IInv

LEMMA IInvInit ==
  ASSUME Init PROVE IInv
BY RetriesAssumption DEF Init, IInv, TypeOK, CallInv, Over, Stages, Errors

\* The inductive invariant holds throughout.
LEMMA Invariant == Spec => []IInv
<1>1. Init => IInv
  BY IInvInit
<1>2. IInv /\ [Next]_vars => IInv'
  BY IInvStep
<1> QED BY <1>1, <1>2, PTL DEF Spec

\* The loop's counters stay in range and an answer lost is the answer to an
\* order TYYS took.
THEOREM TypeCorrect == Spec => []TypeOK
<1>1. IInv => TypeOK
  BY DEF IInv
<1> QED BY <1>1, Invariant, PTL

\* executeReservation never starts another attempt while TYYS holds an order of
\* the execution, the one whose answer was lost included.
THEOREM NoDoubleSubmission == Spec => []NoBlindRetry
<1>1. IInv => NoBlindRetry
  BY DEF IInv, TypeOK, CallInv, NoBlindRetry, Over
<1> QED BY <1>1, Invariant, PTL

\* An order is submitted only with the captcha verified in the same attempt,
\* however many attempts came before it and wherever each of them failed.
THEOREM SubmissionsAreVerified == Spec => []SubmitsVerified
<1>1. IInv => SubmitsVerified
  BY DEF IInv, TypeOK, CallInv, SubmitsVerified, Over
<1> QED BY <1>1, Invariant, PTL

LEMMA StepKeepsPromise ==
  ASSUME IInv, IInv', [Next]_vars
  PROVE  [Promise!Next]_<<booked, lost, answer>>
<1>1. ASSUME NEW c \in Calls, OrderSubmit(c) PROVE Promise!Next \/ UNCHANGED <<booked, lost, answer>>
  <2>1. /\ stage[c] = "submit" /\ stage'[c] = "ended" /\ stage' = [stage EXCEPT ![c] = "ended"]
        /\ \/ booked' = booked /\ lost' = lost
           \/ /\ Free(c) /\ booked' = booked \cup {c}
              /\ lost' = lost \/ (Faults # {} /\ lost' = lost \cup {c})
    BY <1>1 DEF OrderSubmit, Goes, Fails, IInv, TypeOK
  <2>2. c \notin booked /\ answer' = answer /\ answer[c] = "none"
    BY <2>1 DEF answer, Returned, IInv, CallInv, TypeOK, Over
  <2> QED BY <2>1, <2>2 DEF Promise!Next, Promise!Book, Free
<1>2. ASSUME NEW c \in Calls, EndAttempt(c) PROVE Promise!Next \/ UNCHANGED <<booked, lost, answer>>
  <2>1. stage[c] = "ended" /\ booked' = booked /\ lost' = lost /\ answer[c] = "none"
    BY <1>2 DEF EndAttempt, answer, Returned
  <2>2. CASE stage' = [stage EXCEPT ![c] = "info"]
    BY <2>1, <2>2 DEF answer, Returned, IInv, TypeOK
  <2>3. CASE stage' = [stage EXCEPT ![c] = Verdict(c)] /\ err' = err
    <3>1. answer' = [answer EXCEPT ![c] = Verdict(c)]
      BY <2>1, <2>3 DEF answer, Returned, Verdict, IInv, TypeOK
    <3>2. Verdict(c) = IF c \in booked \ lost THEN "success" ELSE "failed"
      BY <2>1 DEF Verdict, IInv, CallInv, Over
    <3>3. Promise!Answer(c)
      BY <2>1, <3>1, <3>2 DEF Promise!Answer
    <3> QED BY <3>3 DEF Promise!Next
  <2> QED BY <1>2, <2>2, <2>3 DEF EndAttempt
<1>3. ASSUME NEW c \in Calls,
             OrderInfo(c) \/ Buddies(c) \/ CaptchaGet(c) \/ Solve(c) \/ CaptchaCheck(c) \/ Cancel(c)
      PROVE  UNCHANGED <<booked, lost, answer>>
  <2>1. /\ booked' = booked /\ lost' = lost
        /\ \/ stage' = stage
           \/ /\ ~Returned(c)
              /\ \E s \in {"buddy", "captcha", "solve", "check", "submit", "ended"} :
                   stage' = [stage EXCEPT ![c] = s]
    BY <1>3 DEF OrderInfo, Buddies, CaptchaGet, Solve, CaptchaCheck, Cancel, Goes, Fails, Returned
  <2> QED BY <2>1 DEF answer, Returned, IInv, TypeOK
<1>4. CASE UNCHANGED vars
  BY <1>4 DEF vars, answer, Returned
<1> QED BY <1>1, <1>2, <1>3, <1>4 DEF Next, Step

\* The retry loop implements the one-shot execution module Reservation takes it
\* for: at most one order, success only with it, failure without it if lossless.
THEOREM KeepsItsPromise == Spec => KeepsPromise
<1>1. Init => Promise!Init
  BY DEF Init, Promise!Init, answer, Returned
<1>2. IInv /\ IInv' /\ [Next]_vars => [Promise!Next]_<<booked, lost, answer>>
  BY StepKeepsPromise
<1> QED BY <1>1, <1>2, Invariant, PTL DEF Spec, KeepsPromise, Promise!Spec

-----------------------------------------------------------------------------
(* Why executeReservation returns: every step uses up a part of what is left. *)

Distance ==
  [info |-> 7, buddy |-> 6, captcha |-> 5, solve |-> 4, check |-> 3, submit |-> 2,
   ended |-> 1, success |-> 0, failed |-> 0]

\* A bound on the steps the execution has still to take.
Left(c) == 8 * (MaxRetries - attempt[c]) + Distance[stage[c]]

\* A step of an execution brings it nearer to its answer, whatever TYYS answers
\* and whatever fails, and nothing the others or their clients do sets it back.
RunsOut ==
  [][\A c \in Calls : (Step(c) => Left(c)' < Left(c)) /\ Left(c)' <= Left(c)]_vars

LEMMA LeftShrinks ==
  ASSUME IInv, IInv', NEW c \in Calls, Step(c)
  PROVE  Left(c)' < Left(c)
<1> USE DEF IInv, TypeOK, Stages, Goes, Fails, Left, Distance
<1>0. MaxRetries \in Nat /\ attempt[c] \in 1..MaxRetries /\ attempt'[c] \in 1..MaxRetries
  BY RetriesAssumption
<1>1. CASE OrderInfo(c) \/ Buddies(c) \/ CaptchaGet(c) \/ Solve(c) \/ CaptchaCheck(c) \/ OrderSubmit(c)
  <2>1. attempt'[c] = attempt[c]
    BY <1>1 DEF OrderInfo, Buddies, CaptchaGet, Solve, CaptchaCheck, OrderSubmit
  <2>2. Distance[stage'[c]] < Distance[stage[c]] /\ Distance[stage'[c]] \in Nat /\ Distance[stage[c]] \in Nat
    BY <1>1 DEF OrderInfo, Buddies, CaptchaGet, Solve, CaptchaCheck, OrderSubmit
  <2> HIDE DEF Distance
  <2> QED
    BY <1>0, <2>1, <2>2
<1>2. CASE EndAttempt(c)
  <2>1. CASE stage' = [stage EXCEPT ![c] = Verdict(c)] /\ attempt' = attempt
    BY <1>0, <1>2, <2>1 DEF EndAttempt, Verdict
  <2>2. CASE stage'[c] = "info" /\ attempt'[c] = attempt[c] + 1
    BY <1>0, <1>2, <2>2 DEF EndAttempt
  <2> QED
    BY <1>2, <2>1, <2>2 DEF EndAttempt, NextAttempt
<1> QED
  BY <1>1, <1>2 DEF Step

\* The loop of executeReservation ends after at most 8 * MaxRetries steps.
THEOREM AttemptsRunOut == Spec => [](\A c \in Calls : Left(c) \in 0..8 * MaxRetries) /\ RunsOut
<1>1. IInv => \A c \in Calls : Left(c) \in 0..8 * MaxRetries
  <2> SUFFICES ASSUME IInv, NEW c \in Calls PROVE Left(c) \in 0..8 * MaxRetries
    OBVIOUS
  <2>1. attempt[c] \in 1..MaxRetries /\ MaxRetries \in Nat /\ Distance[stage[c]] \in 0..7
    BY RetriesAssumption DEF IInv, TypeOK, Distance, Stages
  <2> QED
    BY <2>1 DEF Left
<1>2. ASSUME IInv, IInv', [Next]_vars, NEW c \in Calls
      PROVE  (Step(c) => Left(c)' < Left(c)) /\ Left(c)' <= Left(c)
  <2>1. Left(c) \in Nat /\ Left(c)' \in Int
    <3>1. Left(c) \in Nat
      BY <1>1, <1>2, RetriesAssumption
    <3>2. attempt'[c] \in Nat /\ MaxRetries \in Nat /\ Distance[stage'[c]] \in Nat
      BY <1>2, RetriesAssumption DEF IInv, TypeOK, Distance, Stages
    <3> QED
      BY <3>1, <3>2 DEF Left
  <2>2. ASSUME NEW d \in Calls, Step(d) \/ Cancel(d) PROVE Left(c)' <= Left(c)
    <3>1. CASE Step(d) /\ d = c
      BY <1>2, <2>1, <3>1, LeftShrinks
    <3>2. CASE Step(d) /\ d # c
      BY <1>2, <2>1, <3>2, StepsAreLocal DEF OthersStay, Left, IInv
    <3>3. CASE Cancel(d)
      BY <2>1, <3>3 DEF Cancel, Left
    <3> QED
      BY <2>2, <3>1, <3>2, <3>3
  <2>3. CASE UNCHANGED vars
    BY <1>2, <2>1, <2>3, LeftShrinks DEF vars, Left
  <2> QED
    BY <1>2, <2>2, <2>3, LeftShrinks DEF Next
<1>3. IInv /\ IInv' /\ [Next]_vars
        => [\A c \in Calls : (Step(c) => Left(c)' < Left(c)) /\ Left(c)' <= Left(c)]_vars
  BY <1>2
<1> QED
  BY <1>1, <1>3, Invariant, PTL DEF Spec, RunsOut

=============================================================================

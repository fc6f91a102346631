----------------------------- MODULE ReserveV2 -----------------------------
(***************************************************************************)
(* One execution of executeReservation against TYYS: the loop of at most   *)
(* MaxRetries attempts around TYYS.ReserveV2 (internal/zjulogin/           *)
(* tyys_reservation_v2.go), each attempt a sequence of calls to the API    *)
(* (tyys_api.go), with the captcha solver (tyys_captcha.go) between them.  *)
(* Several executions run at a time and may want the same court time.      *)
(*                                                                         *)
(* An error is retried if its text speaks of a captcha.  The text of a call*)
(* to /api/captcha/... names its path; the text of a refusal is TYYS's own,*)
(* so either kind; a call that never got its answer names the path only.   *)
(***************************************************************************)
EXTENDS Naturals, FiniteSets

CONSTANTS
  Calls,       \* executions of executeReservation
  SlotOf,      \* call -> the court time it asks for
  MaxRetries,  \* 5 in the code
  Faults       \* "lost": an answer may be lost, "cancel": a caller may go away

ASSUME RetriesAssumption == MaxRetries \in Nat \ {0}
ASSUME FaultsAssumption == Faults \subseteq {"lost", "cancel"}

VARIABLES
  stage,      \* call -> the step of ReserveV2 it is about to take
  attempt,    \* call -> the loop variable
  err,        \* call -> the error of the last attempt
  verified,   \* call -> the attempt whose captcha TYYS verified, 0: none
  cancelled,  \* calls whose context is cancelled
  booked,     \* the calls whose order TYYS accepted
  lost        \* those whose acceptance never arrived

vars == <<stage, attempt, err, verified, cancelled, booked, lost>>

Stages == {"info", "buddy", "captcha", "solve", "check", "submit", "ended", "success", "failed"}
Errors == {"none", "captcha", "other"}

Init ==
  /\ stage = [c \in Calls |-> "info"]
  /\ attempt = [c \in Calls |-> 1]
  /\ err = [c \in Calls |-> "none"]
  /\ verified = [c \in Calls |-> 0]
  /\ cancelled = {} /\ booked = {} /\ lost = {}

\* A call of the API that succeeds: its context is alive.
Goes(c, next) ==
  /\ c \notin cancelled
  /\ stage' = [stage EXCEPT ![c] = next] /\ UNCHANGED err

Fails(c, kinds) ==
  /\ stage' = [stage EXCEPT ![c] = "ended"]
  /\ \E k \in kinds : err' = [err EXCEPT ![c] = k]

\* validate, which refuses a blank token, then /api/reservation/order/info.
OrderInfo(c) ==
  /\ stage[c] = "info"
  /\ \/ Goes(c, "buddy")
     \/ c \notin cancelled /\ Fails(c, {"captcha", "other"})
     \/ Fails(c, {"other"})
  /\ UNCHANGED <<attempt, verified, cancelled, booked, lost>>

\* Without a buddy code, or with the buddy in the preview, there is no call.
Buddies(c) ==
  /\ stage[c] = "buddy"
  /\ \/ stage' = [stage EXCEPT ![c] = "captcha"] /\ UNCHANGED err
     \/ c \notin cancelled /\ Fails(c, {"captcha", "other"})
     \/ Fails(c, {"other"})
  /\ UNCHANGED <<attempt, verified, cancelled, booked, lost>>

\* An answer that breaks off while it is read is an error without a path.
CaptchaGet(c) ==
  /\ stage[c] = "captcha"
  /\ Goes(c, "solve") \/ Fails(c, {"captcha", "other"})
  /\ UNCHANGED <<attempt, verified, cancelled, booked, lost>>

\* The python process of TYYSPythonCaptchaSolver.
Solve(c) ==
  /\ stage[c] = "solve"
  /\ Goes(c, "check") \/ Fails(c, {"captcha"})
  /\ UNCHANGED <<attempt, verified, cancelled, booked, lost>>

\* Wrong variant: the answer of the check is taken without its repCode.
CheckOK_Unread(c, ok) == TRUE
\* requireTYYSCaptchaCheckOK: the check answered, and with repCode 0000.
CheckOK(c, ok) == ok

CaptchaCheck(c) ==
  /\ stage[c] = "check"
  /\ \/ \E ok \in BOOLEAN :
          /\ c \notin cancelled
          /\ verified' = [verified EXCEPT ![c] = IF ok THEN attempt[c] ELSE verified[c]]
          /\ \/ CheckOK(c, ok) /\ Goes(c, "submit")
             \/ ~CheckOK(c, ok) /\ Fails(c, {"captcha"})
     \/ Fails(c, {"captcha", "other"}) /\ UNCHANGED verified
  /\ UNCHANGED <<attempt, cancelled, booked, lost>>

\* TYYS books a court time once.
Free(c) == \A d \in booked : SlotOf[d] # SlotOf[c]

OrderSubmit(c) ==
  /\ stage[c] = "submit"
  /\ \/ /\ Free(c) /\ Goes(c, "ended")
        /\ booked' = booked \cup {c} /\ UNCHANGED <<cancelled, lost>>
     \/ /\ Free(c) /\ c \notin cancelled
        /\ Fails(c, {"other"})
        /\ booked' = booked \cup {c} /\ lost' = lost \cup {c}
        /\ \/ "lost" \in Faults /\ UNCHANGED cancelled
           \/ "cancel" \in Faults /\ cancelled' = cancelled \cup {c}
     \/ /\ c \notin cancelled /\ Fails(c, {"captcha", "other"})
        /\ UNCHANGED <<booked, cancelled, lost>>
     \/ /\ Fails(c, {"other"})
        /\ UNCHANGED <<booked, cancelled, lost>>
  /\ UNCHANGED <<attempt, verified>>

\* Wrong variant: every error is retried.
IsCaptchaError_Any(e) == e # "none"
IsCaptchaError(e) == e = "captcha"

\* Wrong variant: the loop does not count.
NextAttempt_Stuck(n) == n
NextAttempt(n) == n + 1

\* Wrong variant: an exhausted loop counts as a success.
Verdict_Exhausted(c) == IF err[c] = "other" THEN "failed" ELSE "success"
Verdict(c) == IF err[c] = "none" THEN "success" ELSE "failed"

\* Wrong variant: one attempt too many.
TriesLeft_OffByOne(n) == n <= MaxRetries
TriesLeft(n) == n < MaxRetries

EndAttempt(c) ==
  /\ stage[c] = "ended"
  /\ IF IsCaptchaError(err[c]) /\ TriesLeft(attempt[c])
       THEN /\ attempt' = [attempt EXCEPT ![c] = NextAttempt(attempt[c])]
            /\ stage' = [stage EXCEPT ![c] = "info"]
            /\ err' = [err EXCEPT ![c] = "none"]
       ELSE /\ stage' = [stage EXCEPT ![c] = Verdict(c)]
            /\ UNCHANGED <<attempt, err>>
  /\ UNCHANGED <<verified, cancelled, booked, lost>>

Returned(c) == stage[c] \in {"success", "failed"}

Cancel(c) ==
  /\ "cancel" \in Faults /\ c \notin cancelled /\ ~Returned(c)
  /\ cancelled' = cancelled \cup {c}
  /\ UNCHANGED <<stage, attempt, err, verified, booked, lost>>

Step(c) ==
  \/ OrderInfo(c) \/ Buddies(c) \/ CaptchaGet(c) \/ Solve(c)
  \/ CaptchaCheck(c) \/ OrderSubmit(c) \/ EndAttempt(c)

Next == \E c \in Calls : Step(c) \/ Cancel(c)

Spec == Init /\ [][Next]_vars

\* Every call of the API ends, after 20s at most, and so does the solver.
FairSpec == Spec /\ \A c \in Calls : WF_vars(Step(c))

-----------------------------------------------------------------------------
TypeOK ==
  /\ stage \in [Calls -> Stages]
  /\ attempt \in [Calls -> 1..MaxRetries]
  /\ err \in [Calls -> Errors]
  /\ verified \in [Calls -> 0..MaxRetries]
  /\ cancelled \subseteq Calls
  /\ booked \subseteq Calls /\ lost \subseteq booked

\* An order is submitted with a captcha that TYYS verified in the very attempt,
\* never with one left over from an earlier attempt of the loop.
SubmitsVerified == \A c \in Calls : stage[c] = "submit" => verified[c] = attempt[c]

\* A submission whose answer was lost is not repeated: no attempt of the loop
\* runs while TYYS holds an order of this execution.
NoBlindRetry == \A c \in booked : stage[c] \in {"ended", "success", "failed"}

\* executeReservation returns, however often the captcha fails.
Returns == \A c \in Calls : <>Returned(c)

-----------------------------------------------------------------------------
\* The answer the callers of executeReservation see.
answer == [c \in Calls |-> IF Returned(c) THEN stage[c] ELSE "none"]

Promise == INSTANCE Submission WITH Lossy <- (Faults # {}), answer <- answer

\* The loop over ReserveV2 keeps the promise of executeReservation.
KeepsPromise == Promise!Spec

=============================================================================

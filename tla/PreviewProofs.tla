--------------------------- MODULE PreviewProofs ---------------------------
(***************************************************************************)
(* For any number of candidates, of other requests and of logins: a        *)
(* preview keeps to the rules of the session it runs over, the semaphore   *)
(* bounds the calls of TYYS that are open, and the WaitGroup holds the     *)
(* caller until all goroutines have filled their items.                    *)
(***************************************************************************)
EXTENDS Preview, SessionProofs, FiniteSetTheorems

Holding == {i \in Candidates : stage[i] \in {"call", "calling", "release"}}
Running == {i \in Candidates : stage[i] \notin {"none", "done"}}

\* The two counters count what they are there for.
SemInv == sem = Cardinality(Holding)
WgInv == wg = Cardinality(Running)

\* Goroutines start in order, before the caller waits, and fill their item
\* before they leave.
MainInv ==
  /\ \A i \in Candidates : stage[i] = "none" <=> i > started
  /\ main = "starting" <=> started < N
  /\ main = "returned" => \A i \in Candidates : stage[i] = "done"
  /\ \A i \in Candidates : stage[i] \in {"release", "finish", "done"} => items[i] \in Answers

\* A goroutine is in the session exactly while it waits for its answer.
LinkInv == \A i \in Candidates : pc[i] # "idle" <=> stage[i] = "calling"

Types ==
  /\ pc \in [Calls -> States]
  /\ main \in {"starting", "waiting", "returned"} /\ started \in 0..N
  /\ sem \in 0..Limit
  /\ stage \in [Candidates -> Stages]
  /\ items \in [Candidates -> Answers \cup {"none"}]
  /\ left \in BOOLEAN

PInv == Types /\ SemInv /\ WgInv /\ MainInv /\ LinkInv

LEMMA Finite ==
  /\ IsFiniteSet(Candidates) /\ Cardinality(Candidates) = N
  /\ \A S \in SUBSET Candidates : IsFiniteSet(S) /\ Cardinality(S) \in 0..N
<1>1. IsFiniteSet(Candidates) /\ Cardinality(Candidates) = N
  BY SizeAssumption, FS_Interval DEF Candidates
<1>2. ASSUME NEW S \in SUBSET Candidates
      PROVE  IsFiniteSet(S) /\ Cardinality(S) \in 0..N
  BY <1>1, <1>2, FS_Subset, FS_CardinalityType, SizeAssumption
<1> QED BY <1>1, <1>2

\* What one goroutine more, or one less, does to a counter.
LEMMA Counting ==
  ASSUME NEW S \in SUBSET Candidates, NEW i \in Candidates
  PROVE  /\ i \notin S => Cardinality(S \cup {i}) = Cardinality(S) + 1
         /\ i \in S => Cardinality(S \ {i}) = Cardinality(S) - 1
<1>1. IsFiniteSet(S) /\ Cardinality(S) \in Nat
  BY Finite
<1> QED BY <1>1, FS_AddElement, FS_RemoveElement

LEMMA PreviewInitially == PreviewInit => PInv
<1> SUFFICES ASSUME PreviewInit PROVE PInv
  OBVIOUS
<1>1. Holding = {} /\ Running = {}
  BY DEF PreviewInit, Holding, Running
<1>2. SemInv /\ WgInv
  BY <1>1, FS_EmptySet DEF PreviewInit, SemInv, WgInv
<1>3. MainInv /\ LinkInv
  BY SizeAssumption, CallersAssumption DEF PreviewInit, Init, MainInv, LinkInv, Candidates
<1>4. Types
  <2>1. pc \in [Calls -> States]
    BY DEF PreviewInit, Init, States
  <2>2. started \in 0..N /\ sem \in 0..Limit
    BY SizeAssumption DEF PreviewInit
  <2> QED BY <2>1, <2>2 DEF PreviewInit, Types, Stages
<1> QED BY <1>2, <1>3, <1>4 DEF PInv

\* A step outside the session, or one that enters or leaves it, of one goroutine.
LEMMA OneGoroutine ==
  ASSUME PInv, NEW i \in Candidates, GoroutineStep(i)
  PROVE  PInv'
<1> USE CallersAssumption DEF Enter, Fill, Goto
<1>a. Holding \in SUBSET Candidates /\ Running \in SUBSET Candidates
  BY DEF Holding, Running
<1>1. CASE CheckWindow(i)
  <2>1. Types' /\ MainInv' /\ LinkInv'
    BY <1>1 DEF CheckWindow, PInv, Types, MainInv, LinkInv, Stages, Answers, vars
  <2>2. Holding' = Holding /\ Running' = Running
    BY <1>1 DEF CheckWindow, PInv, Types, Holding, Running
  <2> QED BY <1>1, <2>1, <2>2 DEF CheckWindow, PInv, SemInv, WgInv
<1>2. CASE Acquire(i)
  <2>1. Types' /\ MainInv' /\ LinkInv'
    BY <1>2, SizeAssumption DEF Acquire, Room, PInv, Types, MainInv, LinkInv, Stages, vars
  <2>2. i \notin Holding /\ Holding' = Holding \cup {i} /\ Running' = Running
    BY <1>2 DEF Acquire, PInv, Types, Holding, Running
  <2> QED BY <1>2, <1>a, <2>1, <2>2, Counting DEF Acquire, PInv, SemInv, WgInv
<1>3. CASE OrderInfo(i) \/ OrderInfoAnswered(i)
  <2>1. Types' /\ LinkInv'
    BY <1>3 DEF OrderInfo, OrderInfoAnswered, Call, Return, PInv, Types, LinkInv, States, Stages, Answers
  <2>2. MainInv'
    BY <1>3 DEF OrderInfo, OrderInfoAnswered, PInv, Types, MainInv, Stages, Answers
  <2>3. Holding' = Holding /\ Running' = Running
    BY <1>3 DEF OrderInfo, OrderInfoAnswered, PInv, Types, Holding, Running
  <2> QED BY <1>3, <2>1, <2>2, <2>3 DEF OrderInfo, OrderInfoAnswered, PInv, SemInv, WgInv
<1>4. CASE Release(i)
  <2>1. i \in Holding /\ Holding' = Holding \ {i} /\ Running' = Running
    BY <1>4 DEF Release, PInv, Types, Holding, Running
  <2>2. SemInv' /\ sem' \in 0..Limit
    <3>1. Cardinality(Holding') = Cardinality(Holding) - 1
      BY <1>a, <2>1, Counting
    <3>2. Cardinality(Holding') \in Nat
      BY <1>a, <2>1, Finite
    <3> QED BY <1>4, <3>1, <3>2, SizeAssumption DEF Release, Freed, PInv, SemInv, Types
  <2>3. Types' /\ MainInv' /\ LinkInv'
    BY <1>4, <2>2 DEF Release, PInv, Types, MainInv, LinkInv, Stages, vars
  <2> QED BY <1>4, <2>1, <2>2, <2>3 DEF Release, PInv, WgInv
<1>5. CASE Finish(i)
  <2>1. Types' /\ MainInv' /\ LinkInv'
    BY <1>5 DEF Finish, PInv, Types, MainInv, LinkInv, Stages, vars
  <2>2. i \in Running /\ Running' = Running \ {i} /\ Holding' = Holding
    BY <1>5 DEF Finish, PInv, Types, Holding, Running
  <2> QED BY <1>5, <1>a, <2>1, <2>2, Counting DEF Finish, PInv, SemInv, WgInv
<1> QED BY <1>1, <1>2, <1>3, <1>4, <1>5 DEF GoroutineStep

\* Inside the session a caller moves between the states of the session, none of
\* which is the one outside; other requests are no candidates.
LEMMA SessionStep ==
  ASSUME PInv, UNCHANGED preview, left' \in BOOLEAN,
         \/ \E c \in Calls : InSession(c)
         \/ \E c \in Others : Other(c)
         \/ \E S \in SUBSET Calls : Cancel(S)
  PROVE  PInv'
<1>1. pc' \in [Calls -> States] /\ \A i \in Candidates : pc'[i] = "idle" <=> pc[i] = "idle"
  <2>1. ASSUME NEW c \in Calls, InSession(c)
        PROVE  \E label \in States \ {"idle"} : pc[c] # "idle" /\ Goto(c, label)
    <3>1. CASE EnsureLogin(c)
      BY <3>1 DEF EnsureLogin, States, LoginStates
    <3>2. CASE LoginStep(c)
      BY <3>2 DEF LoginStep, LoginService, ZjuamLogin, FollowRedirect, TyysLogin, LoginGoesOn,
                  LoginFails, AfterFailure, States, LoginStates
    <3>3. CASE Sign(c) \/ Send(c)
      BY <3>3 DEF Sign, Send, States
    <3> QED BY <2>1, <3>1, <3>2, <3>3 DEF InSession
  <2>2. ASSUME NEW c \in Others, Other(c)
        PROVE  pc' = pc \/ \E label \in States : Goto(c, label)
    BY <2>2 DEF Other, Call, Return, Cancel, States
  <2>3. ASSUME NEW S \in SUBSET Calls, Cancel(S) PROVE pc' = pc
    BY <2>3 DEF Cancel
  <2> QED BY <2>1, <2>2, <2>3, CallersAssumption DEF PInv, Types, Goto, Others
<1>2. Holding' = Holding /\ Running' = Running
  BY DEF preview, Holding, Running
<1> QED BY <1>1, <1>2 DEF preview, PInv, Types, SemInv, WgInv, MainInv, LinkInv

LEMMA PreviewInvariance ==
  ASSUME PInv, [PreviewNext]_allVars
  PROVE  PInv'
<1>1. CASE Start
  <2>1. started + 1 \in Candidates
    BY <1>1, SizeAssumption DEF Start, PInv, Types, Candidates
  <2>2. Types' /\ MainInv' /\ LinkInv'
    BY <1>1, <2>1, SizeAssumption
       DEF Start, Enter, PInv, Types, MainInv, LinkInv, Stages, Candidates, vars
  <2>3. /\ started + 1 \notin Running /\ Running' = Running \cup {started + 1}
        /\ Holding' = Holding
    BY <1>1, <2>1 DEF Start, Enter, PInv, Types, MainInv, Holding, Running
  <2>4. Running \in SUBSET Candidates
    BY DEF Running
  <2> QED BY <1>1, <2>1, <2>2, <2>3, <2>4, Counting DEF Start, PInv, SemInv, WgInv
<1>2. CASE Finished
  <2>1. Running = {}
    <3>1. IsFiniteSet(Running)
      BY Finite DEF Running
    <3> QED BY <1>2, <3>1, FS_EmptySet DEF Finished, Woken, PInv, WgInv
  <2>2. \A i \in Candidates : stage[i] = "done"
    BY <1>2, <2>1, SizeAssumption DEF Finished, PInv, Types, MainInv, Running, Candidates
  <2> QED BY <1>2, <2>2
          DEF Finished, PInv, Types, SemInv, WgInv, MainInv, LinkInv, Holding, Running, vars
<1>3. CASE Leave
  <2>1. InFlight \in SUBSET Calls
    BY CallersAssumption DEF InFlight
  <2> QED BY <1>3, <2>1, SessionStep DEF Leave
<1>4. ASSUME NEW i \in Candidates, GoroutineStep(i) PROVE PInv'
  BY <1>4, OneGoroutine
<1>5. ASSUME NEW c \in Calls, InSession(c) PROVE PInv'
  BY <1>5, SessionStep DEF InSession, PInv, Types
<1>6. ASSUME NEW c \in Others, Other(c) PROVE PInv'
  BY <1>6, SessionStep DEF Other, PInv, Types
<1>7. CASE UNCHANGED allVars
  BY <1>7 DEF allVars, vars, preview, PInv, Types, SemInv, WgInv, MainInv, LinkInv, Holding, Running
<1> QED BY <1>1, <1>2, <1>3, <1>4, <1>5, <1>6, <1>7 DEF PreviewNext

LEMMA PreviewInvariant == PreviewSpec => []PInv
  BY PreviewInitially, PreviewInvariance, PTL DEF PreviewSpec

\* A preview and the requests beside it use the session as Session says, so what
\* is proved of the session holds while previews run.
THEOREM PreviewKeepsSession == PreviewSpec => Spec
<1>1. PreviewInit => Init
  BY DEF PreviewInit
<1>2. ASSUME [PreviewNext]_allVars PROVE [Next]_vars
  <2>1. ASSUME NEW c \in Calls, InSession(c) PROVE Next
    BY <2>1 DEF InSession, Next, Step
  <2>2. ASSUME NEW c \in Others, Other(c) PROVE Next
    <3>1. c \in Calls /\ {c} \in SUBSET Calls
      BY DEF Others
    <3> QED BY <2>2, <3>1 DEF Other, Next, Step
  <2>3. ASSUME NEW i \in Candidates, GoroutineStep(i) PROVE [Next]_vars
    BY <2>3, CallersAssumption
       DEF GoroutineStep, CheckWindow, Acquire, Release, Finish, OrderInfo, OrderInfoAnswered,
           Next, Step
  <2>4. CASE Leave
    BY <2>4, CallersAssumption DEF Leave, InFlight, Next
  <2>5. CASE Start \/ Finished \/ UNCHANGED allVars
    BY <2>5 DEF Start, Finished, allVars
  <2> QED BY <1>2, <2>1, <2>2, <2>3, <2>4, <2>5 DEF PreviewNext
<1> QED BY <1>1, <1>2, PTL DEF PreviewSpec, Spec

\* The session's rules hold for the calls of a preview too: one login at a time,
\* and every request signed with the session's token.
THEOREM PreviewSharesLogin == PreviewSpec => [](OneLogin /\ SignedIn)
  BY PreviewKeepsSession, LoginsAreExclusive, RequestsAreSigned, PTL

\* The type invariant; wg never goes below zero, where Done would panic.
THEOREM PreviewTypeCorrect == PreviewSpec => []PreviewTypeOK
<1>1. PInv /\ TypeOK => PreviewTypeOK
  BY Finite DEF PInv, Types, PreviewTypeOK, WgInv, Running
<1> QED BY <1>1, PreviewInvariant, PreviewKeepsSession, TypeCorrect, PTL

\* "Concurrency is limited to 3": a Preview has at most Limit calls open, those
\* that wait for a login included.
THEOREM CallsAreBounded == PreviewSpec => []AtMostLimit
<1>1. ASSUME PInv PROVE AtMostLimit
  <2>1. Calling \subseteq Holding /\ IsFiniteSet(Holding) /\ IsFiniteSet(Calling)
    BY <1>1, Finite DEF Calling, Holding, PInv, LinkInv
  <2>2. Cardinality(Calling) <= Cardinality(Holding)
    BY <2>1, FS_Subset
  <2>3. Cardinality(Calling) \in Nat
    BY <2>1, FS_CardinalityType
  <2> QED BY <1>1, <2>2, <2>3, SizeAssumption DEF PInv, Types, SemInv, AtMostLimit
<1> QED BY <1>1, PreviewInvariant, PTL

\* The slice Preview returns is complete, and nobody writes into it any more.
THEOREM AnswersAreComplete == PreviewSpec => []ReturnsAll
<1>1. PInv => ReturnsAll
  BY DEF PInv, MainInv, LinkInv, ReturnsAll
<1> QED BY <1>1, PreviewInvariant, PTL

\* While the caller waits, some goroutine of the preview can go on, or another
\* request is in the login they wait for: a full semaphore has a holder, a holder
\* that waits does so for the mutex, and the mutex belongs to one who logs in.
THEOREM PreviewNeverStalls == PreviewSpec => []NoDeadlock
<1>1. ASSUME PInv, IInv, main = "waiting", ~ Woken,
             \A c \in Others : pc[c] \notin LoginStates
      PROVE  \E i \in Candidates : stage[i] \notin {"none", "done"} /\ ~ Waits(i)
  <2>1. PICK r \in Candidates : stage[r] \notin {"none", "done"}
    <3>1. Running # {}
      BY <1>1, FS_EmptySet DEF PInv, WgInv, Woken
    <3> QED BY <3>1 DEF Running
  <2>2. ASSUME NEW i \in Candidates, pc[i] = "ensure", lock # Nobody
        PROVE  \E j \in Candidates : stage[j] \notin {"none", "done"} /\ ~ Waits(j)
    <3>1. lock \in Calls /\ pc[lock] \in LoginStates
      BY <1>1, <2>2 DEF IInv, TypeOK, LockInv
    <3>2. lock \in Candidates
      BY <1>1, <3>1 DEF Others
    <3>3. stage[lock] = "calling"
      BY <1>1, <3>1, <3>2 DEF PInv, LinkInv, LoginStates
    <3> QED BY <3>1, <3>2, <3>3 DEF Waits, LoginStates
  <2>3. ASSUME sem >= Limit
        PROVE  \E j \in Candidates : stage[j] \notin {"none", "done"} /\ ~ Waits(j)
    <3>1. PICK h \in Candidates : stage[h] \in {"call", "calling", "release"}
      <4>1. Holding # {}
        BY <1>1, <2>3, FS_EmptySet, SizeAssumption DEF PInv, SemInv
      <4> QED BY <4>1 DEF Holding
    <3>2. CASE pc[h] = "ensure" /\ lock # Nobody
      BY <2>2, <3>2
    <3>3. CASE ~ (pc[h] = "ensure" /\ lock # Nobody)
      BY <3>1, <3>3 DEF Waits, Unlocked
    <3> QED BY <3>2, <3>3
  <2>4. CASE stage[r] = "queue" /\ ~ Room
    BY <1>1, <2>3, <2>4, SizeAssumption DEF Room, PInv, Types
  <2>5. CASE pc[r] = "ensure" /\ lock # Nobody
    BY <2>2, <2>5
  <2> QED BY <2>1, <2>4, <2>5 DEF Waits, Unlocked
<1>2. PInv /\ IInv => NoDeadlock
  BY <1>1, Zenon DEF NoDeadlock
<1> QED BY <1>2, PreviewInvariant, PreviewKeepsSession, Invariant, PTL

-----------------------------------------------------------------------------
(* Why a preview ends. *)

\* A bound on the steps goroutine i has still to take, those of its call included.
Togo(i) ==
  CASE stage[i] = "none"    -> MaxHops + 14
    [] stage[i] = "window"  -> MaxHops + 13
    [] stage[i] = "queue"   -> MaxHops + 12
    [] stage[i] = "call"    -> MaxHops + 11
    [] stage[i] = "calling" -> Left(i) + 2
    [] stage[i] = "release" -> 2
    [] stage[i] = "finish"  -> 1
    [] OTHER                -> 0

\* A step of a goroutine brings it nearer to its end, and nothing sets it back:
\* no other goroutine, no other request, no client that leaves.
PreviewShrinks ==
  [][\A i \in Candidates : /\ Progress(i) => Togo(i)' < Togo(i)
                           /\ Togo(i)' <= Togo(i)]_allVars

LEMMA TogoType ==
  ASSUME PInv, IInv, NEW i \in Candidates
  PROVE  Togo(i) \in 0..MaxHops + 14
<1>1. i \in Calls /\ MaxHops \in Nat /\ stage[i] \in Stages
  BY CallersAssumption, BoundsAssumption DEF PInv, Types
<1>2. Left(i) \in 0..MaxHops + 8
  BY <1>1, LeftType DEF IInv
<1> QED BY <1>1, <1>2 DEF Togo, Stages

LEMMA TogoTypeNext ==
  ASSUME PInv', IInv', NEW i \in Candidates
  PROVE  /\ Left(i)' \in 0..MaxHops + 8
         /\ Togo(i)' \in 0..MaxHops + 14
<1>1. i \in Calls /\ MaxHops \in Nat /\ stage'[i] \in Stages /\ pc'[i] \in States /\ hops' \in 0..MaxHops
  BY CallersAssumption, BoundsAssumption DEF PInv, Types, IInv, TypeOK
<1>2. Left(i)' \in 0..MaxHops + 8
  BY <1>1 DEF Left, States, LoginStates
<1> QED BY <1>1, <1>2 DEF Togo, Stages

LEMMA TogoShrinks ==
  ASSUME PInv, PInv', IInv, IInv', NEW i \in Candidates, Progress(i)
  PROVE  Togo(i)' < Togo(i)
<1>0. i \in Calls /\ MaxHops \in Nat /\ stage \in [Candidates -> Stages] /\ pc \in [Calls -> States]
  BY CallersAssumption, BoundsAssumption DEF PInv, Types
<1>1. CASE InSession(i)
  <2>1. Step(i) /\ stage' = stage /\ pc[i] # "idle"
    BY <1>1 DEF InSession, Step, preview, EnsureLogin, LoginStep, LoginService, ZjuamLogin,
                FollowRedirect, TyysLogin, Sign, Send
  <2>2. Left(i)' < Left(i)
    BY <1>0, <2>1, LeftShrinks
  <2>3. stage[i] = "calling" /\ stage'[i] = "calling"
    BY <2>1 DEF PInv, LinkInv
  <2>4. Togo(i) = Left(i) + 2 /\ Togo(i)' = Left(i)' + 2
    BY <2>3 DEF Togo
  <2>5. Left(i) \in Int /\ Left(i)' \in Int
    BY <1>0, LeftType, TogoTypeNext DEF IInv
  <2> QED BY <2>2, <2>4, <2>5
<1>2. CASE OrderInfo(i)
  <2>1. pc'[i] = "ensure" /\ stage[i] = "call" /\ stage'[i] = "calling"
    BY <1>0, <1>2 DEF OrderInfo, Call, Goto, Enter
  <2>2. Togo(i) = MaxHops + 11 /\ Togo(i)' = MaxHops + 10
    BY <1>0, <2>1 DEF Togo, Left
  <2> QED BY <1>0, <2>2
<1>3. CASE OrderInfoAnswered(i)
  <2>1. pc[i] = "return" /\ stage[i] = "calling" /\ stage'[i] = "release"
    BY <1>0, <1>3 DEF OrderInfoAnswered, Return, Enter
  <2> QED BY <2>1 DEF Togo, Left
<1>4. CASE CheckWindow(i) \/ Acquire(i) \/ Release(i) \/ Finish(i)
  BY <1>0, <1>4 DEF CheckWindow, Acquire, Release, Finish, Enter, Togo
<1> QED BY <1>1, <1>2, <1>3, <1>4 DEF Progress, GoroutineStep

\* What another goroutine, another request or the client does.
LEMMA TogoKept ==
  ASSUME PInv, IInv, IInv', NEW i \in Candidates,
         \/ \E c \in Calls \ {i} : Step(c) \/ Call(c)
         \/ \E S \in SUBSET Calls : Cancel(S)
         \/ UNCHANGED vars,
         stage'[i] = stage[i]
  PROVE  Togo(i)' = Togo(i)
<1>1. Left(i)' = Left(i)
  <2>1. i \in Calls
    BY CallersAssumption
  <2>2. ASSUME NEW c \in Calls \ {i}, Step(c) \/ Call(c) PROVE Left(i)' = Left(i)
    BY <2>1, <2>2, OthersKeep
  <2>3. CASE (\E S \in SUBSET Calls : Cancel(S)) \/ UNCHANGED vars
    BY <2>3 DEF Cancel, vars, Left
  <2> QED BY <2>2, <2>3
<1> QED BY <1>1 DEF Togo

LEMMA TogoNeverGrows ==
  ASSUME PInv, PInv', IInv, IInv', [PreviewNext]_allVars, NEW i \in Candidates
  PROVE  Togo(i)' <= Togo(i)
<1>0. i \in Calls /\ MaxHops \in Nat /\ stage \in [Candidates -> Stages]
      /\ Candidates \subseteq Calls /\ Others \subseteq Calls
  BY CallersAssumption, BoundsAssumption DEF PInv, Types, Others
<1>1. Togo(i) \in Int /\ Togo(i)' \in Int
  BY TogoType, TogoTypeNext
<1>2. ASSUME NEW j \in Candidates, GoroutineStep(j) PROVE Togo(i)' <= Togo(i)
  <2>1. CASE j = i
    BY <1>1, <1>2, <2>1, TogoShrinks DEF Progress
  <2>2. CASE j # i
    <3>1. stage'[i] = stage[i]
      BY <1>0, <1>2, <2>2 DEF GoroutineStep, CheckWindow, Acquire, OrderInfo, OrderInfoAnswered,
                              Release, Finish, Enter
    <3>2. UNCHANGED vars \/ Step(j) \/ Call(j)
      BY <1>2 DEF GoroutineStep, CheckWindow, Acquire, OrderInfo, OrderInfoAnswered,
                  Release, Finish, Step
    <3> QED BY <1>0, <1>1, <2>2, <3>1, <3>2, TogoKept
  <2> QED BY <2>1, <2>2
<1>3. ASSUME NEW c \in Calls, InSession(c) PROVE Togo(i)' <= Togo(i)
  <2>1. CASE c = i
    BY <1>1, <1>3, <2>1, TogoShrinks DEF Progress
  <2>2. CASE c # i
    BY <1>1, <1>3, <2>2, TogoKept DEF InSession, Step, preview
  <2> QED BY <2>1, <2>2
<1>4. ASSUME NEW c \in Others, Other(c) PROVE Togo(i)' <= Togo(i)
  <2>1. c \in Calls \ {i} /\ {c} \in SUBSET Calls /\ stage'[i] = stage[i]
    BY <1>0, <1>4 DEF Other, Others, preview
  <2> QED BY <1>1, <1>4, <2>1, TogoKept DEF Other, Step
<1>5. CASE Start
  <2>1. CASE i = started + 1
    <3>1. stage[i] = "none" /\ stage'[i] = "window"
      BY <1>0, <1>5, <2>1, SizeAssumption DEF Start, Enter, PInv, Types, MainInv
    <3> QED BY <1>0, <3>1 DEF Togo
  <2>2. CASE i # started + 1
    <3>1. stage'[i] = stage[i] /\ UNCHANGED vars
      BY <1>0, <1>5, <2>2 DEF Start, Enter
    <3> QED BY <1>1, <3>1, TogoKept
  <2> QED BY <2>1, <2>2
<1>6. CASE Finished \/ Leave \/ UNCHANGED allVars
  <2>1. stage' = stage /\ (UNCHANGED vars \/ \E S \in SUBSET Calls : Cancel(S))
    <3>1. InFlight \in SUBSET Calls
      BY <1>0 DEF InFlight
    <3> QED BY <1>6, <3>1 DEF Finished, Leave, allVars, preview
  <2> QED BY <1>1, <2>1, TogoKept
<1> QED BY <1>2, <1>3, <1>4, <1>5, <1>6 DEF PreviewNext

\* A goroutine leaves after at most MaxHops + 14 steps of its own, whatever its
\* login and its call meet; with NoDeadlock, that is why Preview returns.
THEOREM PreviewsRunOut ==
  PreviewSpec => [](\A i \in Candidates : Togo(i) \in 0..MaxHops + 14) /\ PreviewShrinks
<1>1. PInv /\ IInv => \A i \in Candidates : Togo(i) \in 0..MaxHops + 14
  BY TogoType
<1>2. PInv /\ PInv' /\ IInv /\ IInv' /\ [PreviewNext]_allVars
        => [\A i \in Candidates : /\ Progress(i) => Togo(i)' < Togo(i)
                                  /\ Togo(i)' <= Togo(i)]_allVars
  BY TogoShrinks, TogoNeverGrows
<1> QED
  BY <1>1, <1>2, PreviewInvariant, PreviewKeepsSession, Invariant, PTL DEF PreviewSpec, PreviewShrinks

=============================================================================

--------------------------- MODULE SessionProofs ---------------------------
(***************************************************************************)
(* For any number of callers: one of them logs in at a time, none while a  *)
(* session stands, and every request carries the token of the session.     *)
(***************************************************************************)
EXTENDS Session, Integers, TLAPS

\* The caller that logs in is the holder of the mutex, and has no session yet.
LockInv ==
  /\ \A c \in Calls : pc[c] \in LoginStates <=> lock = c
  /\ lock # Nobody => loggedIn = "no"

\* A caller past ensureLogin has a session, and a session has a token.
TokenInv ==
  /\ loggedIn = "yes" => token # 0
  /\ \A c \in Calls : pc[c] \in {"sign", "send"} => loggedIn = "yes"
  /\ \A c \in Calls : pc[c] = "send" => sent[c] # 0 /\ sent[c] = token

IInv == TypeOK /\ LockInv /\ TokenInv

LEMMA TypeInit == Init => TypeOK
  BY BoundsAssumption DEF Init, TypeOK, States, LoginStates

LEMMA Typing ==
  ASSUME TypeOK, [Next]_vars
  PROVE  TypeOK'
<1> USE BoundsAssumption DEF TypeOK, Goto, States, LoginStates, process
<1>1. ASSUME NEW c \in Calls, EnsureLogin(c) PROVE TypeOK'
  <2>1. lock' \in Calls \cup {Nobody} /\ hops' \in 0..MaxHops /\ pc' \in [Calls -> States]
    BY <1>1 DEF EnsureLogin
  <2> QED BY <1>1, <2>1 DEF EnsureLogin
<1>2. ASSUME NEW c \in Calls, LoginFails(c) PROVE TypeOK'
  BY <1>2 DEF LoginFails, AfterFailure, Released
<1>3. ASSUME NEW c \in Calls, NEW label \in {"redirect", "zjuam", "login"},
             LoginGoesOn(c, label), sso' \in {"yes", "no"}, hops' \in 0..MaxHops
      PROVE  TypeOK'
  BY <1>3 DEF LoginGoesOn
<1>4. ASSUME NEW c \in Calls, LoginService(c) PROVE TypeOK'
  <2>1. CASE Goto(c, "zjuam") /\ UNCHANGED <<process, issued, hops, sent, cancelled>>
    BY <2>1
  <2> QED BY <1>4, <2>1, <1>2, <1>3 DEF LoginService
<1>5. ASSUME NEW c \in Calls, ZjuamLogin(c) PROVE TypeOK'
  BY <1>5, <1>2, <1>3 DEF ZjuamLogin
<1>6. ASSUME NEW c \in Calls, FollowRedirect(c) PROVE TypeOK'
  <2>1. CASE Goto(c, "login") /\ UNCHANGED <<process, issued, hops, sent, cancelled>>
    BY <2>1
  <2>2. CASE hops < MaxHops /\ LoginGoesOn(c, "redirect") /\ hops' = hops + 1 /\ UNCHANGED sso
    BY <2>2, <1>3
  <2> QED BY <1>6, <2>1, <2>2, <1>2 DEF FollowRedirect
<1>7. ASSUME NEW c \in Calls, TyysLogin(c) PROVE TypeOK'
  <2>1. CASE UNCHANGED <<sso, hops, sent, cancelled>> /\ issued' = issued + 1
    <3>1. token' \in 0..issued' /\ loggedIn' \in {"yes", "no"}
      <4>1. issued' # issued
        BY <2>1
      <4>2. token' \in {token, issued + 1}
            /\ loggedIn' \in {loggedIn, "yes"}
        BY <1>7, <2>1, <4>1 DEF TyysLogin, LoginFails
      <4> QED BY <2>1, <4>2
    <3>2. lock' \in Calls \cup {Nobody} /\ pc' \in [Calls -> States]
      BY <1>7, <2>1 DEF TyysLogin, LoginFails, Released, AfterFailure
    <3> QED BY <2>1, <3>1, <3>2
  <2> QED BY <1>7, <2>1, <1>2 DEF TyysLogin
<1>8. ASSUME NEW c \in Calls, Call(c) \/ Sign(c) \/ Send(c) \/ Return(c)
      PROVE  TypeOK'
  <2>1. CASE Call(c)
    BY <2>1 DEF Call
  <2>2. CASE Sign(c)
    BY <2>2 DEF Sign
  <2>3. CASE Send(c)
    BY <2>3 DEF Send
  <2>4. CASE Return(c)
    BY <2>4 DEF Return
  <2> QED BY <1>8, <2>1, <2>2, <2>3, <2>4
<1>9. ASSUME NEW S \in SUBSET Calls, Cancel(S) PROVE TypeOK'
  BY <1>9 DEF Cancel
<1>10. CASE UNCHANGED vars
  BY <1>10 DEF vars
<1> QED BY <1>1, <1>4, <1>5, <1>6, <1>7, <1>8, <1>9, <1>10 DEF Next, Step, LoginStep

LEMMA Invariance ==
  ASSUME IInv, [Next]_vars
  PROVE  IInv'
<1> USE NobodyAssumption
    DEF IInv, TypeOK, LockInv, TokenInv, Goto, LoginStates, process
<1>0. TypeOK'
  BY Typing
<1>1. ASSUME NEW c \in Calls, Call(c) \/ EnsureLogin(c) PROVE (LockInv /\ TokenInv)'
  BY <1>1 DEF Call, EnsureLogin, Unlocked
<1>2. ASSUME NEW c \in Calls, pc[c] \in LoginStates, LoginFails(c)
      PROVE  (LockInv /\ TokenInv)'
  BY <1>2 DEF LoginFails, AfterFailure, Released
<1>3. ASSUME NEW c \in Calls, LoginService(c) PROVE (LockInv /\ TokenInv)'
  BY <1>3, <1>2 DEF LoginService, LoginGoesOn
<1>4. ASSUME NEW c \in Calls, ZjuamLogin(c) \/ FollowRedirect(c) PROVE (LockInv /\ TokenInv)'
  BY <1>4, <1>2 DEF ZjuamLogin, FollowRedirect, LoginGoesOn
<1>5. ASSUME NEW c \in Calls, TyysLogin(c) PROVE (LockInv /\ TokenInv)'
  BY <1>5, <1>2 DEF TyysLogin, AfterFailure, Released
<1>6. ASSUME NEW c \in Calls, Sign(c) \/ Send(c) \/ Return(c)
      PROVE  (LockInv /\ TokenInv)'
  BY <1>6 DEF Sign, Send, Return
<1>7. ASSUME NEW S \in SUBSET Calls, Cancel(S) PROVE (LockInv /\ TokenInv)'
  BY <1>7 DEF Cancel
<1>8. CASE UNCHANGED vars
  BY <1>8 DEF vars
<1> QED BY <1>0, <1>1, <1>3, <1>4, <1>5, <1>6, <1>7, <1>8 DEF Next, Step, LoginStep

LEMMA Invariant == Spec => []IInv
<1>1. Init => IInv
  BY TypeInit, NobodyAssumption DEF Init, IInv, LockInv, TokenInv, LoginStates
<1> QED BY <1>1, Invariance, PTL DEF Spec

\* The type invariant, for any number of callers, logins and redirects.
THEOREM TypeCorrect == Spec => []TypeOK
<1>1. IInv => TypeOK
  BY DEF IInv
<1> QED BY <1>1, Invariant, PTL

\* ensureLogin lets one caller log in at a time, and none once it has succeeded.
THEOREM LoginsAreExclusive == Spec => []OneLogin
<1>1. IInv => OneLogin
  BY NobodyAssumption DEF IInv, LockInv, OneLogin
<1> QED BY <1>1, Invariant, PTL

\* doAPI signs every request with the token of the session and sends it before
\* that changes, although it reads the token outside the mutex.
THEOREM RequestsAreSigned == Spec => []SignedIn
<1>1. IInv => SignedIn
  BY DEF IInv, TokenInv, SignedIn
<1> QED BY <1>1, Invariant, PTL

-----------------------------------------------------------------------------
(* Why a call of the API ends. *)

\* A bound on the steps the call has still to take: the redirects it has not
\* followed yet, then its stages.
Left(c) ==
  CASE pc[c] = "ensure"   -> MaxHops + 8
    [] pc[c] = "service"  -> MaxHops + 7
    [] pc[c] = "zjuam"    -> MaxHops + 6
    [] pc[c] = "redirect" -> (MaxHops - hops) + 5
    [] pc[c] = "login"    -> 4
    [] pc[c] = "sign"     -> 3
    [] pc[c] = "send"     -> 2
    [] pc[c] = "return"   -> 1
    [] OTHER              -> 0

\* A step of a call brings it nearer to its end.  No other call sets it back:
\* the redirects counted are those of the one login there is.
CallsShrink ==
  [][\A c \in Calls : /\ Step(c) => Left(c)' < Left(c)
                      /\ ~Call(c) => Left(c)' <= Left(c)]_vars

\* A caller that waits for the mutex waits for one that is logging in.
WaitsForALogin ==
  \A c \in Calls : pc[c] = "ensure" /\ ~Unlocked => \E d \in Calls \ {c} : pc[d] \in LoginStates

LEMMA LeftType == TypeOK => \A c \in Calls : Left(c) \in 0..MaxHops + 8
<1> SUFFICES ASSUME TypeOK, NEW c \in Calls PROVE Left(c) \in 0..MaxHops + 8
  OBVIOUS
<1>1. MaxHops \in Nat /\ hops \in 0..MaxHops /\ pc[c] \in States
  BY BoundsAssumption DEF TypeOK
<1> QED
  BY <1>1 DEF Left, States, LoginStates

LEMMA LeftShrinks ==
  ASSUME IInv, IInv', NEW c \in Calls, Step(c)
  PROVE  Left(c)' < Left(c)
<1> USE DEF IInv, TypeOK, States, LoginStates, Goto, process, AfterFailure
<1>0. MaxHops \in Nat /\ hops \in 0..MaxHops /\ hops' \in 0..MaxHops
  BY BoundsAssumption
<1>1. CASE EnsureLogin(c)
  BY <1>0, <1>1 DEF EnsureLogin, Left
<1>2. CASE pc[c] \in LoginStates /\ LoginFails(c)
  BY <1>0, <1>2 DEF LoginFails, Left
<1>3. CASE LoginService(c)
  BY <1>0, <1>2, <1>3 DEF LoginService, LoginGoesOn, Left
<1>4. CASE ZjuamLogin(c)
  BY <1>0, <1>2, <1>4 DEF ZjuamLogin, LoginGoesOn, Left
<1>5. CASE FollowRedirect(c)
  BY <1>0, <1>2, <1>5 DEF FollowRedirect, LoginGoesOn, Left
<1>6. CASE TyysLogin(c)
  <2>1. CASE LoginFails(c)
    BY <1>2, <1>6, <2>1 DEF TyysLogin
  <2>2. CASE ~LoginFails(c)
    <3>1. pc[c] = "login" /\ pc'[c] \in {"sign", "return"}
      BY <1>6, <2>2 DEF TyysLogin
    <3> QED
      BY <3>1 DEF Left
  <2> QED
    BY <2>1, <2>2
<1>7. CASE Sign(c) \/ Send(c) \/ Return(c)
  BY <1>0, <1>7 DEF Sign, Send, Return, Left
<1> QED
  BY <1>1, <1>3, <1>4, <1>5, <1>6, <1>7 DEF Step, LoginStep

\* The steps of one call leave the others what they had left.
LEMMA OthersKeep ==
  ASSUME IInv, NEW c \in Calls, Step(c) \/ Call(c), NEW d \in Calls \ {c}
  PROVE  Left(d)' = Left(d)
<1> USE DEF IInv, TypeOK, LockInv, LoginStates, Goto, process
<1>1. pc'[d] = pc[d]
  BY DEF Step, LoginStep, EnsureLogin, LoginService, ZjuamLogin, FollowRedirect, TyysLogin,
         LoginFails, LoginGoesOn, Sign, Send, Return, Call
<1>2. pc[d] = "redirect" => hops' = hops
  <2> SUFFICES ASSUME pc[d] = "redirect" PROVE hops' = hops
    OBVIOUS
  <2>1. lock = d /\ lock # Nobody /\ pc[c] \notin LoginStates
    BY NobodyAssumption
  <2>2. CASE EnsureLogin(c)
    BY <2>1, <2>2 DEF EnsureLogin, Unlocked
  <2>3. CASE Sign(c) \/ Send(c) \/ Return(c) \/ Call(c)
    BY <2>3 DEF Sign, Send, Return, Call
  <2>4. CASE LoginStep(c)
    BY <2>1, <2>4 DEF LoginStep, LoginService, ZjuamLogin, FollowRedirect, TyysLogin
  <2> QED
    BY <2>2, <2>3, <2>4 DEF Step
<1> QED
  BY <1>1, <1>2 DEF Left

\* A call ends after at most MaxHops + 8 steps, whatever fails, and nobody waits
\* for the mutex while no login is under way.
THEOREM CallsRunOut ==
  Spec => /\ [](\A c \in Calls : Left(c) \in 0..MaxHops + 8)
          /\ []WaitsForALogin
          /\ CallsShrink
<1>1. IInv => \A c \in Calls : Left(c) \in 0..MaxHops + 8
  BY LeftType DEF IInv
<1>2. IInv => WaitsForALogin
  BY NobodyAssumption DEF IInv, TypeOK, LockInv, WaitsForALogin, Unlocked, LoginStates
<1>3. ASSUME IInv, IInv', [Next]_vars, NEW c \in Calls
      PROVE  (Step(c) => Left(c)' < Left(c)) /\ (~Call(c) => Left(c)' <= Left(c))
  <2>1. Left(c) \in Int /\ Left(c)' \in Int
    <3>1. TypeOK /\ TypeOK' /\ MaxHops \in Nat
      BY <1>3, BoundsAssumption DEF IInv
    <3>2. Left(c) \in 0..MaxHops + 8
      BY <3>1, LeftType
    <3>3. hops' \in 0..MaxHops /\ pc'[c] \in States
      BY <3>1 DEF TypeOK
    <3>4. Left(c)' \in 0..MaxHops + 8
      BY <3>1, <3>3 DEF Left, States, LoginStates
    <3> QED
      BY <3>1, <3>2, <3>4
  <2>2. ASSUME NEW d \in Calls, Step(d) \/ Call(d), ~Call(c) PROVE Left(c)' <= Left(c)
    BY <1>3, <2>1, <2>2, LeftShrinks, OthersKeep
  <2>3. ASSUME NEW S \in SUBSET Calls, Cancel(S) PROVE Left(c)' <= Left(c)
    BY <2>1, <2>3 DEF Cancel, Left
  <2>4. CASE UNCHANGED vars
    BY <1>3, <2>1, <2>4, LeftShrinks DEF vars, Left
  <2> QED
    BY <1>3, <2>2, <2>3, <2>4, LeftShrinks DEF Next
<1>4. IInv /\ IInv' /\ [Next]_vars
        => [\A c \in Calls : /\ Step(c) => Left(c)' < Left(c)
                             /\ ~Call(c) => Left(c)' <= Left(c)]_vars
  BY <1>3
<1> QED
  BY <1>1, <1>2, <1>4, Invariant, PTL DEF Spec, CallsShrink

=============================================================================

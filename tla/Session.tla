------------------------------ MODULE Session ------------------------------
(***************************************************************************)
(* The one session all requests share with TYYS: serviceCore.ensureLogin   *)
(* (internal/zjulogin/service.go), TYYS.login and followLoginRedirects     *)
(* (tyys.go), ZJUAM.LoginService and ZJUAM.login (zjuam.go), and doAPI     *)
(* (tyys_api.go), which signs a call with the session's token and sends it.*)
(***************************************************************************)
EXTENDS Naturals, FiniteSets

CONSTANTS
  Calls,      \* goroutines that call the API of TYYS
  MaxLogins,  \* bound on the tokens TYYS hands out
  MaxHops,    \* bound on the redirects of one login
  Faults,     \* "net": a call may fail, "cancel": a caller may go away
  Nobody

ASSUME BoundsAssumption == MaxLogins \in Nat /\ MaxHops \in Nat
ASSUME NobodyAssumption == Nobody \notin Calls
ASSUME FaultsAssumption == Faults \subseteq {"net", "cancel"}

VARIABLES
  lock,       \* who holds serviceCore.mu
  loggedIn,   \* serviceCore.loggedIn: "yes" or "no"
  token,      \* TYYS.token, the number of the login it is from; 0: none
  sso,        \* ZJUAM.loggedIn
  issued,     \* the number of tokens TYYS handed out
  pc,         \* what each caller is doing
  hops,       \* the redirects the login has followed
  sent,       \* the token each caller's request was signed with
  cancelled   \* callers whose context is cancelled

process == <<lock, loggedIn, token, sso>>
vars == <<lock, loggedIn, token, sso, issued, pc, hops, sent, cancelled>>

Init ==
  /\ lock = Nobody /\ loggedIn = "no" /\ token = 0 /\ sso = "no"
  /\ issued = 0
  /\ pc = [c \in Calls |-> "idle"]
  /\ hops = 0
  /\ sent = [c \in Calls |-> 0]
  /\ cancelled = {}

Goto(c, label) == pc' = [pc EXCEPT ![c] = label]

Reaches(c) == c \notin cancelled
Breaks(c) == c \in cancelled \/ "net" \in Faults

\* A request may begin after its client left: of a handler that makes several.
Call(c) ==
  /\ pc[c] = "idle"
  /\ Goto(c, "ensure")
  /\ \/ UNCHANGED cancelled
     \/ "cancel" \in Faults /\ cancelled' = cancelled \cup {c}
  /\ UNCHANGED <<process, issued, hops, sent>>

-----------------------------------------------------------------------------
(* ensureLogin: the mutex is held over the whole login. *)

\* Wrong variant: no mutex.
Unlocked_Always == TRUE
Unlocked == lock = Nobody

EnsureLogin(c) ==
  /\ pc[c] = "ensure" /\ Unlocked
  /\ \/ loggedIn = "yes" /\ Goto(c, "sign") /\ UNCHANGED <<lock, hops>>
     \/ loggedIn = "no" /\ Goto(c, "service") /\ lock' = c /\ hops' = 0
  /\ UNCHANGED <<loggedIn, token, sso, issued, sent, cancelled>>

\* Wrong variant: a return before the unlock.
Released_OnSuccess(ok) == IF ok THEN Nobody ELSE lock
Released(ok) == Nobody

\* Wrong variant: the error of a login is dropped.
AfterFailure_SignsOn == "sign"
AfterFailure == "return"

LoginFails(c) ==
  /\ Breaks(c)
  /\ Goto(c, AfterFailure) /\ lock' = Released(FALSE)
  /\ UNCHANGED <<loggedIn, token, sso, issued, hops, sent, cancelled>>

LoginGoesOn(c, label) ==
  /\ Reaches(c) /\ Goto(c, label)
  /\ UNCHANGED <<lock, loggedIn, token, issued, sent, cancelled>>

\* LoginService asks for a ticket when it believes to be logged in, and logs in
\* again when it gets the login page instead.
LoginService(c) ==
  /\ pc[c] = "service"
  /\ \/ sso = "no" /\ Goto(c, "zjuam")
        /\ UNCHANGED <<process, issued, hops, sent, cancelled>>
     \/ /\ sso = "yes"
        /\ \/ \E label \in {"redirect", "zjuam"} :
                LoginGoesOn(c, label) /\ UNCHANGED <<sso, hops>>
           \/ LoginFails(c)

\* ZJUAM.login: the page, the public key, the form.
ZjuamLogin(c) ==
  /\ pc[c] = "zjuam"
  /\ \/ LoginGoesOn(c, "redirect") /\ sso' = "yes" /\ UNCHANGED hops
     \/ LoginFails(c)

\* followLoginRedirects, until a URL carries the oauth token.
FollowRedirect(c) ==
  /\ pc[c] = "redirect"
  /\ \/ /\ hops < MaxHops
        /\ LoginGoesOn(c, "redirect") /\ hops' = hops + 1 /\ UNCHANGED sso
     \/ Goto(c, "login") /\ UNCHANGED <<process, issued, hops, sent, cancelled>>
     \/ LoginFails(c)

\* POST /api/login.  An answer that is lost leaves a token nobody knows.
TyysLogin(c) ==
  /\ pc[c] = "login"
  /\ \/ /\ Reaches(c) /\ issued < MaxLogins
        /\ issued' = issued + 1
        /\ \/ /\ token' = issued + 1 /\ loggedIn' = "yes"
              /\ lock' = Released(TRUE) /\ Goto(c, "sign")
           \/ /\ "net" \in Faults
              /\ lock' = Released(FALSE) /\ Goto(c, AfterFailure)
              /\ UNCHANGED <<token, loggedIn>>
        /\ UNCHANGED <<sso, hops, sent, cancelled>>
     \/ LoginFails(c)

-----------------------------------------------------------------------------
(* The request itself, outside the mutex. *)

\* signRequestWithParams reads the token without the mutex.
Sign(c) ==
  /\ pc[c] = "sign"
  /\ sent' = [sent EXCEPT ![c] = token]
  /\ Goto(c, "send")
  /\ UNCHANGED <<process, issued, hops, cancelled>>

\* TYYS serves the request, refuses it or is not reached.  doAPI takes any code
\* but 200 for an error of the call and leaves the session as it is, also when
\* TYYS has ended it.
Send(c) ==
  /\ pc[c] = "send"
  /\ Goto(c, "return")
  /\ UNCHANGED <<process, issued, hops, sent, cancelled>>

Return(c) ==
  /\ pc[c] = "return"
  /\ Goto(c, "idle")
  /\ sent' = [sent EXCEPT ![c] = 0]
  /\ cancelled' = cancelled \ {c}
  /\ UNCHANGED <<process, issued, hops>>

\* A client leaves, and with it all the requests S made with its context.
Cancel(S) ==
  /\ "cancel" \in Faults
  /\ \A c \in S : pc[c] \notin {"idle", "return"}
  /\ cancelled' = cancelled \cup S
  /\ UNCHANGED <<process, issued, pc, hops, sent>>

LoginStep(c) == LoginService(c) \/ ZjuamLogin(c) \/ FollowRedirect(c) \/ TyysLogin(c)
Step(c) == EnsureLogin(c) \/ LoginStep(c) \/ Sign(c) \/ Send(c) \/ Return(c)

Next ==
  \/ \E c \in Calls : Call(c) \/ Step(c)
  \/ \E S \in SUBSET Calls : Cancel(S)

Spec == Init /\ [][Next]_vars

\* Each call over the network ends, after 20s at most; a sync.Mutex hands itself
\* to whoever has waited for more than 1ms, so a waiter gets it though others
\* keep taking it.
FairSpec ==
  Spec /\ \A c \in Calls : WF_vars(Step(c)) /\ SF_vars(EnsureLogin(c))

-----------------------------------------------------------------------------
LoginStates == {"service", "zjuam", "redirect", "login"}
States == LoginStates \cup {"idle", "ensure", "sign", "send", "return"}

TypeOK ==
  /\ lock \in Calls \cup {Nobody}
  /\ loggedIn \in {"yes", "no"} /\ sso \in {"yes", "no"}
  /\ issued \in Nat /\ token \in 0..issued
  /\ pc \in [Calls -> States]
  /\ hops \in 0..MaxHops
  /\ sent \in [Calls -> 0..issued]
  /\ cancelled \subseteq Calls

\* At most one caller logs in, whatever the others wait for, and none once the
\* session stands: a second login would replace the token requests in flight use.
OneLogin ==
  \A c \in Calls : pc[c] \in LoginStates =>
    /\ loggedIn = "no"
    /\ \A d \in Calls : pc[d] \in LoginStates => c = d

\* Every request goes out with the token of the session, however often logins
\* failed before and although the token is read outside the mutex: nobody
\* replaces it between the moment a request is signed and the one it is sent.
SignedIn == \A c \in Calls : pc[c] = "send" => sent[c] # 0 /\ sent[c] = token

\* No caller waits for ever: a failed login leaves the mutex to the next one.
CallEnds == \A c \in Calls : pc[c] = "ensure" ~> pc[c] = "idle"

=============================================================================

--------------------------- MODULE ConsoleSession ---------------------------
(***************************************************************************)
(* The login session of the console: AppShell and LoginScreen in one       *)
(* browser tab (frontend/components), the fetch wrapper they share         *)
(* (frontend/lib/api.ts) and the session routes they call                  *)
(* (backend/app/api/routes/auth.py, services/auth_service.py).             *)
(*                                                                         *)
(* Every await of the browser is a step boundary: a request is sent with   *)
(* the cookie of that moment, handled by the controller at some later      *)
(* moment, and its answer continues the handler that waits for it, in any  *)
(* order with the other answers.  A protected change is two requests, the  *)
(* fetch of a CSRF token and the call that shows it; the fetch replaces    *)
(* the token of the session, so the next fetch makes a token useless that  *)
(* has not been shown yet.                                                 *)
(*                                                                         *)
(* Abstractions.  A login makes the next session of 1..MaxSession, so      *)
(* the highest one in use is the newest; a token is the number of fetches  *)
(* of its session so far; the names and passwords of admins are the        *)
(* choice whether a login is refused.  "change" stands for every panel     *)
(* operation that fetches a token first, "overview" for the reads that     *)
(* fetch none, such as a DashboardPanel's; what they return is left out.   *)
(***************************************************************************)
EXTENDS Integers, FiniteSets

CONSTANTS
  Request,     \* slots for the requests of the tab
  MaxSession,  \* logins in a behaviour, the one before the page was opened included
  MaxToken,    \* CSRF tokens per session
  MaxFaults    \* requests and answers lost

VARIABLES
  session,  \* admin_sessions: status and current CSRF token
  cookie,   \* the session named by the browser's cookie, 0 for none
  shell,    \* state of AppShell
  request,  \* what the tab is waiting for
  faults

vars == <<session, cookie, shell, request, faults>>

\* The page is opened under one session at most.
ASSUME BoundsAssumption == MaxSession \in Nat \ {0}

Session == 1..MaxSession

SessionRow == [status : {"unused", "live", "expired", "revoked"}, csrf : 0..MaxToken]

\* "admin" is the session of currentAdmin, "gone" the session that the last
\* logout of the tab was about.
Shell == [checked : BOOLEAN, admin : 0..MaxSession, gone : 0..MaxSession,
          notice : {"none", "expired", "loggedOut"}]

Op == {"none", "me", "login", "logout", "change", "overview"}

\* "csrf" is the fetch of a token, "main" the request it is for.  History: "era"
\* is the login under which the request was sent, "overtaken" that a later fetch
\* replaced the token that this request shows.
RequestRow == [op : Op, step : {"csrf", "main"}, stage : {"sent", "answered"},
               session : 0..MaxSession, token : 0..MaxToken,
               answer : {"none", "ok", "refused", "401", "403", "lost"},
               era : 0..MaxSession, overtaken : BOOLEAN]

NoRequest == [op |-> "none", step |-> "main", stage |-> "sent", session |-> 0,
              token |-> 0, answer |-> "none", era |-> 0, overtaken |-> FALSE]

TypeOK ==
  /\ session \in [Session -> SessionRow]
  /\ cookie \in 0..MaxSession
  /\ shell \in Shell
  /\ request \in [Request -> RequestRow]
  /\ faults \in 0..MaxFaults

FreshShell == [checked |-> FALSE, admin |-> 0, gone |-> 0, notice |-> "none"]

Fetch(op, step) ==
  [op |-> op, step |-> step, stage |-> "sent", session |-> cookie, token |-> 0,
   answer |-> "none", era |-> IF step = "csrf" THEN shell.admin ELSE 0, overtaken |-> FALSE]

\* The page is opened with a cookie of a session that may still be live: the
\* effect of AppShell asks who is logged in.
Init ==
  /\ \E st \in {"unused", "live", "expired"} :
       /\ session = [s \in Session |->
                       [status |-> IF s = 1 THEN st ELSE "unused", csrf |-> 0]]
       /\ cookie = IF st = "unused" THEN 0 ELSE 1
  /\ shell = FreshShell
  /\ \E r \in Request :
       request = [q \in Request |-> IF q = r THEN Fetch("me", "main") ELSE NoRequest]
  /\ faults = 0

-----------------------------------------------------------------------------
(* What the operator does. *)

Idle(r) == request[r].op = "none"

\* The whole console is behind currentAdmin; before the check nothing is shown.
ConsoleShown == shell.checked /\ shell.admin # 0
LoginShown == shell.checked /\ shell.admin = 0

Sends(r, op, step) ==
  /\ Idle(r)
  /\ request' = [request EXCEPT ![r] = Fetch(op, step)]
  /\ UNCHANGED <<session, cookie, shell, faults>>

\* The form is disabled while a login of this LoginScreen is loading.
SubmitLogin(r) ==
  /\ LoginShown
  /\ \A q \in Request : request[q].op # "login"
  /\ Sends(r, "login", "main")

\* Bound: a session gives MaxToken tokens.
TokensLeft ==
  cookie = 0 \/ session[cookie].csrf
    + Cardinality({q \in Request : request[q].session = cookie /\ request[q].step = "csrf"
                                     /\ request[q].stage = "sent"}) < MaxToken

\* The button is not disabled by a logout under way.
Logout(r) == ConsoleShown /\ TokensLeft /\ Sends(r, "logout", "csrf")

Change(r) == ConsoleShown /\ TokensLeft /\ Sends(r, "change", "csrf")

OpenDashboard(r) == ConsoleShown /\ Sends(r, "overview", "main")

\* A reload drops what the tab was waiting for and asks again; bounded to a
\* tab that waits for nothing.
Reload(r) ==
  /\ shell.checked
  /\ \A q \in Request : Idle(q)
  /\ shell' = FreshShell
  /\ request' = [request EXCEPT ![r] = Fetch("me", "main")]
  /\ UNCHANGED <<session, cookie, faults>>

-----------------------------------------------------------------------------
(* The controller. *)

Live(s) == s # 0 /\ session[s].status = "live"

Reply(row, answer) == [row EXCEPT !.stage = "answered", !.answer = answer]

Answers(r, answer) ==
  request' = [request EXCEPT ![r] = Reply(request[r], answer)]

Asked(r, op, step) ==
  /\ request[r].op = op
  /\ request[r].step = step
  /\ request[r].stage = "sent"

HandleMe(r) ==
  /\ Asked(r, "me", "main")
  /\ Answers(r, IF Live(request[r].session) THEN "ok" ELSE "401")
  /\ UNCHANGED <<session, cookie, shell, faults>>

LoggedIn(row, s) == [Reply(row, "ok") EXCEPT !.session = s]

\* A login does not touch the session it may come with.
HandleLogin(r) ==
  /\ Asked(r, "login", "main")
  /\ \/ /\ Answers(r, "refused")
        /\ UNCHANGED session
     \/ \E s \in Session :
          /\ session[s].status = "unused"
          /\ \A t \in Session : t < s => session[t].status # "unused"
          /\ session' = [session EXCEPT ![s] = [status |-> "live", csrf |-> 0]]
          /\ request' = [request EXCEPT ![r] = LoggedIn(request[r], s)]
  /\ UNCHANGED <<cookie, shell, faults>>

WithToken(row, token) == [Reply(row, "ok") EXCEPT !.token = token]

Holds(row, s) == row.session = s /\ row.token > 0

\* GET /api/auth/csrf replaces the token of the session.
HandleCsrf(r) ==
  LET s == request[r].session
  IN /\ request[r].op \in {"logout", "change"}
     /\ Asked(r, request[r].op, "csrf")
     /\ IF Live(s)
        THEN /\ session' = [session EXCEPT ![s].csrf = @ + 1]
             /\ request' = [q \in Request |->
                              IF q = r THEN WithToken(request[r], session[s].csrf + 1)
                              ELSE [request[q] EXCEPT !.overtaken = @ \/ Holds(request[q], s)]]
        ELSE /\ Answers(r, "401")
             /\ UNCHANGED session
     /\ UNCHANGED <<cookie, shell, faults>>

\* Mutated: the token is compared with the one before the last rotation.
CsrfValid_Previous(r) == request[r].token + 1 = session[request[r].session].csrf

CsrfValid(r) == request[r].token = session[request[r].session].csrf

\* Without a live session a logout succeeds; with one it needs the token.
HandleLogout(r) ==
  LET s == request[r].session
  IN /\ Asked(r, "logout", "main")
     /\ IF Live(s) /\ ~CsrfValid(r)
        THEN Answers(r, "403") /\ UNCHANGED session
        ELSE /\ Answers(r, "ok")
             /\ session' = IF Live(s) THEN [session EXCEPT ![s].status = "revoked"] ELSE session
     /\ UNCHANGED <<cookie, shell, faults>>

HandleChange(r) ==
  LET s == request[r].session
  IN /\ Asked(r, "change", "main")
     /\ Answers(r, IF ~Live(s) THEN "401" ELSE IF CsrfValid(r) THEN "ok" ELSE "403")
     /\ UNCHANGED <<session, cookie, shell, faults>>

HandleOverview(r) ==
  /\ Asked(r, "overview", "main")
  /\ Answers(r, IF Live(request[r].session) THEN "ok" ELSE "401")
  /\ UNCHANGED <<session, cookie, shell, faults>>

\* The request or its answer is lost, or is not JSON: the fetch rejects.
Lose(r) ==
  /\ request[r].op # "none"
  /\ faults < MaxFaults
  /\ faults' = faults + 1
  /\ request[r].answer # "lost"
  /\ Answers(r, "lost")
  /\ UNCHANGED <<session, cookie, shell>>

\* A session is live for session_ttl_seconds.
Expire(s) ==
  /\ session[s].status = "live"
  /\ session' = [session EXCEPT ![s].status = "expired"]
  /\ UNCHANGED <<cookie, shell, request, faults>>

-----------------------------------------------------------------------------
(* What the tab does with an answer. *)

Answered(r, op, step) ==
  /\ request[r].op = op
  /\ request[r].step = step
  /\ request[r].stage = "answered"

Done(r) == request' = [request EXCEPT ![r] = NoRequest]

\* handleAuthExpired: whatever login the answer belongs to.
AuthExpired == [shell EXCEPT !.admin = 0, !.notice = "expired"]

\* notifyAuthExpired leaves out the paths of the session routes.
NotifyAuthExpired(op, answer) ==
  IF answer = "401" /\ op \in {"change", "overview"} THEN AuthExpired ELSE shell

\* A check whose fetch rejects leaves the tab as it is.
CheckAnswered(r) ==
  /\ Answered(r, "me", "main")
  /\ Done(r)
  /\ shell' = IF request[r].answer = "lost" THEN shell
              ELSE [shell EXCEPT !.checked = TRUE, !.notice = "none",
                                 !.admin = IF request[r].answer = "ok" THEN request[r].session ELSE 0]
  /\ cookie' = IF request[r].answer = "ok" THEN request[r].session ELSE cookie
  /\ UNCHANGED <<session, faults>>

LoginAnswered(r) ==
  /\ Answered(r, "login", "main")
  /\ Done(r)
  /\ IF request[r].answer = "ok"
     THEN /\ shell' = [shell EXCEPT !.admin = request[r].session]
          /\ cookie' = request[r].session
     ELSE UNCHANGED <<shell, cookie>>
  /\ UNCHANGED <<session, faults>>

\* The token is in: the protected call goes out, with the cookie of now.
Showing(row) ==
  [row EXCEPT !.step = "main", !.stage = "sent", !.answer = "none", !.session = cookie]

TokenAnswered(r) ==
  /\ request[r].op \in {"logout", "change"}
  /\ Answered(r, request[r].op, "csrf")
  /\ request[r].answer = "ok"
  /\ request' = [request EXCEPT ![r] = Showing(request[r])]
  /\ UNCHANGED <<session, cookie, shell, faults>>

ChangeFails(r) ==
  /\ Answered(r, "change", "csrf")
  /\ request[r].answer # "ok"
  /\ Done(r)
  /\ UNCHANGED <<session, cookie, shell, faults>>

ChangeAnswered(r) ==
  /\ Answered(r, "change", "main")
  /\ Done(r)
  /\ shell' = NotifyAuthExpired("change", request[r].answer)
  /\ UNCHANGED <<session, cookie, faults>>

\* What a logout asks of the cookie, and the two steps at which it is over.
LogoutIsOver(r) ==
  /\ \/ Answered(r, "logout", "main")
     \/ Answered(r, "logout", "csrf") /\ request[r].answer # "ok"
  /\ Done(r)
  /\ cookie' = IF request[r].step = "main" /\ request[r].answer = "ok" THEN 0 ELSE cookie
  /\ UNCHANGED <<session, faults>>

LoggedOut(r) ==
  [shell EXCEPT !.admin = 0, !.notice = "loggedOut",
                !.gone = IF request[r].overtaken \/ request[r].era # request[r].session
                         THEN 0 ELSE request[r].session]

\* Mutated: a late logout spares a login it was not clicked in.
LogoutAnswered_OwnLogin(r) ==
  /\ LogoutIsOver(r)
  /\ shell' = IF request[r].answer # "lost" /\ request[r].era = shell.admin
              THEN LoggedOut(r) ELSE shell

\* Mutated: a refused logout leaves the console as it is.
LogoutAnswered_OnlyOk(r) ==
  /\ LogoutIsOver(r)
  /\ shell' = IF request[r].answer = "ok" THEN LoggedOut(r) ELSE shell

\* handleLogout ends the login in the tab whatever the controller said, unless
\* a fetch rejects.
LogoutAnswered(r) ==
  /\ LogoutIsOver(r)
  /\ shell' = IF request[r].answer = "lost" THEN shell ELSE LoggedOut(r)

\* What was read goes on display; only the end of the login goes further.
OverviewAnswered(r) ==
  /\ Answered(r, "overview", "main")
  /\ Done(r)
  /\ shell' = NotifyAuthExpired("overview", request[r].answer)
  /\ UNCHANGED <<session, cookie, faults>>

-----------------------------------------------------------------------------
Handle(r) == \/ HandleMe(r) \/ HandleLogin(r) \/ HandleCsrf(r)
             \/ HandleLogout(r) \/ HandleChange(r) \/ HandleOverview(r)

Continue(r) == \/ CheckAnswered(r) \/ LoginAnswered(r) \/ TokenAnswered(r)
               \/ ChangeFails(r) \/ ChangeAnswered(r)
               \/ LogoutAnswered(r) \/ OverviewAnswered(r)

Next ==
  \/ \E r \in Request :
       \/ SubmitLogin(r) \/ Logout(r) \/ Change(r) \/ OpenDashboard(r) \/ Reload(r)
       \/ Handle(r) \/ Lose(r) \/ Continue(r)
  \/ \E s \in Session : Expire(s)

Spec == Init /\ [][Next]_vars

\* The controller answers and the browser runs the continuation of an answer;
\* nothing is assumed of the operator, of expiry or of losses.
Fairness == \A r \in Request : WF_vars(Handle(r)) /\ WF_vars(Continue(r))

FairSpec == Spec /\ Fairness

-----------------------------------------------------------------------------
(* Properties. *)

\* Behind the console is always the session whose cookie the browser sends: no
\* answer of an older request puts another cookie, or none, under a login
\* (AppShell shows no form before checkAuth is answered, api.ts sends cookies).
ConsoleHasItsCookie == shell.admin # 0 => cookie = shell.admin

\* After "logged out" the session of that logout is dead at the controller,
\* unless another fetch of a CSRF token, or another login, came between the two
\* requests of the logout (handleLogout ignores a refused logout).
LogoutEndsSession ==
  shell.notice = "loggedOut" /\ shell.gone # 0 => session[shell.gone].status # "live"

\* A protected call is refused for its token only if a later fetch of the same
\* session, or a new login, came between its two requests (rotate_csrf_token).
RefusedTokenWasOvertaken ==
  \A r \in Request : request[r].answer = "403" =>
    request[r].overtaken \/ request[r].era # request[r].session

\* The page gets past "checking" once the check is answered; only a lost
\* answer keeps it there for ever (checkAuth has no catch).
CheckEnds == (~shell.checked /\ faults = 0) ~> (shell.checked \/ faults > 0)

\* A logout that was asked for ends the login in the tab, whoever refuses what,
\* unless a fetch rejects (handleLogout has no catch).
LogoutIsShown ==
  \A r \in Request :
    (request[r].op = "logout" /\ faults = 0) ~> (shell.admin = 0 \/ faults > 0)

\* What the operator waits for comes, unless a fetch rejects.
WaitingEnds == CheckEnds /\ LogoutIsShown
=============================================================================

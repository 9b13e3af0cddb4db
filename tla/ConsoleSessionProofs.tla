------------------------ MODULE ConsoleSessionProofs ------------------------
(***************************************************************************)
(* Proofs about ConsoleSession, for any number of requests, logins, tokens *)
(* and lost answers: the console is never shown over another session's     *)
(* cookie, a logout that is shown has ended its session, and a protected   *)
(* call is refused for its token only when it was overtaken.               *)
(*                                                                         *)
(* The last two are not inductive.  What carries them is in the requests:  *)
(* a token that was not overtaken is the one its session has now, and the  *)
(* answer to a logout says how its session stands.                         *)
(***************************************************************************)
EXTENDS ConsoleSession, TLAPS

\* The types without the bound on tokens.
SessionType == session \in [Session -> [status : {"unused", "live", "expired", "revoked"}, csrf : Nat]]

PendingRow == [op : Op, step : {"csrf", "main"}, stage : {"sent", "answered"},
               session : 0..MaxSession, token : Nat,
               answer : {"none", "ok", "refused", "401", "403", "lost"},
               era : 0..MaxSession, overtaken : BOOLEAN]

Types ==
  /\ SessionType
  /\ cookie \in 0..MaxSession
  /\ shell \in Shell
  /\ request \in [Request -> PendingRow]

Used(s)  == s # 0 => session[s].status # "unused"
Ended(s) == s # 0 => session[s].status \in {"expired", "revoked"}

Protected(r) == request[r].op \in {"logout", "change"}

\* Cookies and requests name sessions that were made by a login.
SessionsWereMade == Used(cookie) /\ \A r \in Request : Used(request[r].session)

\* The fetch of a token goes out under the login on display, and what it shows
\* later is what it got.
FetchIsOfTheLogin(r) ==
  Protected(r) => /\ request[r].step = "csrf" => request[r].session = request[r].era
                  /\ request[r].era # 0
                  /\ request[r].step = "main" \/ request[r].answer = "ok" => request[r].token > 0

\* A token is the one its session has now, unless it was overtaken.
TokenIsCurrent(r) ==
  /\ Protected(r) /\ request[r].token > 0
  /\ ~request[r].overtaken /\ request[r].era = request[r].session
  => request[r].token = session[request[r].session].csrf

RefusedForItsToken(r) ==
  request[r].answer = "403" =>
    request[r].overtaken \/ request[r].era # request[r].session

\* What the answer to a logout says of its session.
LogoutAnswerHolds(r) ==
  request[r].op = "logout" /\ request[r].stage = "answered" =>
    IF request[r].step = "csrf"
    THEN /\ request[r].answer \in {"ok", "401", "lost"}
         /\ request[r].answer = "401" => Ended(request[r].session)
    ELSE /\ request[r].answer \in {"ok", "403", "lost"}
         /\ request[r].answer = "ok" => Ended(request[r].session)

RowInv(r) ==
  /\ FetchIsOfTheLogin(r)
  /\ TokenIsCurrent(r)
  /\ RefusedForItsToken(r)
  /\ LogoutAnswerHolds(r)

NoticeInv == shell.notice = "loggedOut" => Ended(shell.gone)

-----------------------------------------------------------------------------
(***************************************************************************)
(* Requests, and how an answer changes one.                                *)
(***************************************************************************)

Answer == {"none", "ok", "refused", "401", "403", "lost"}

\* A request goes out with the cookie and under the login of the moment.
LEMMA FetchFacts ==
  ASSUME Types, NEW op \in Op, NEW step \in {"csrf", "main"}
  PROVE  Fetch(op, step) \in PendingRow
  BY BoundsAssumption DEF Types, Shell, Fetch, PendingRow

LEMMA NoRequestFacts ==
  NoRequest \in PendingRow
  BY BoundsAssumption DEF NoRequest, PendingRow, Op

\* An answer changes nothing else of its request.
LEMMA ReplyFacts ==
  ASSUME NEW row \in PendingRow, NEW a \in Answer
  PROVE  /\ Reply(row, a) \in PendingRow
         /\ Reply(row, a).stage = "answered" /\ Reply(row, a).answer = a
         /\ Reply(row, a).op = row.op /\ Reply(row, a).step = row.step
         /\ Reply(row, a).session = row.session /\ Reply(row, a).token = row.token
         /\ Reply(row, a).era = row.era /\ Reply(row, a).overtaken = row.overtaken
  BY DEF Reply, PendingRow, Answer

\* An answered request is the only one that changes.
LEMMA AnswersFacts ==
  ASSUME Types, NEW r \in Request, NEW a \in Answer, Answers(r, a)
  PROVE  /\ request' \in [Request -> PendingRow]
         /\ request'[r] = Reply(request[r], a)
         /\ \A q \in Request \ {r} : request'[q] = request[q]
  BY ReplyFacts DEF Answers, Types

\* What a login adds to its answer.
LEMMA LoggedInFacts ==
  ASSUME NEW row \in PendingRow, NEW s \in Session
  PROVE  /\ LoggedIn(row, s) \in PendingRow
         /\ LoggedIn(row, s).session = s /\ LoggedIn(row, s).answer = "ok"
         /\ LoggedIn(row, s).op = row.op
<1>1. Reply(row, "ok") \in PendingRow /\ Reply(row, "ok").answer = "ok" /\ Reply(row, "ok").op = row.op
  BY ReplyFacts DEF Answer
<1>2. s \in 0..MaxSession
  BY BoundsAssumption DEF Session
<1>3. QED
  BY <1>1, <1>2 DEF LoggedIn, PendingRow

\* What the fetch of a token adds to its answer.
LEMMA WithTokenFacts ==
  ASSUME NEW row \in PendingRow, NEW token \in Nat
  PROVE  /\ WithToken(row, token) \in PendingRow
         /\ WithToken(row, token).token = token /\ WithToken(row, token).answer = "ok"
         /\ WithToken(row, token).op = row.op /\ WithToken(row, token).step = row.step
         /\ WithToken(row, token).session = row.session /\ WithToken(row, token).era = row.era
         /\ WithToken(row, token).overtaken = row.overtaken
<1>. DEFINE reply == Reply(row, "ok")
<1>1. /\ reply \in PendingRow /\ reply.answer = "ok" /\ reply.op = row.op /\ reply.step = row.step
      /\ reply.session = row.session /\ reply.era = row.era /\ reply.overtaken = row.overtaken
  BY ReplyFacts DEF Answer
<1>2. WithToken(row, token) = [reply EXCEPT !.token = token]
  BY DEF WithToken
<1>. HIDE DEF reply
<1>3. QED
  BY <1>1, <1>2 DEF PendingRow

\* The call that shows a token keeps it, with the login it was fetched under.
LEMMA ShowingFacts ==
  ASSUME Types, NEW row \in PendingRow
  PROVE  /\ Showing(row) \in PendingRow
         /\ Showing(row).step = "main" /\ Showing(row).stage = "sent"
         /\ Showing(row).answer = "none" /\ Showing(row).session = cookie
         /\ Showing(row).op = row.op /\ Showing(row).token = row.token
         /\ Showing(row).era = row.era /\ Showing(row).overtaken = row.overtaken
  BY DEF Types, Showing, PendingRow

\* A rotation overtakes the tokens its session gave before, and changes nothing
\* else of the other requests.
LEMMA RotationFacts ==
  ASSUME Types, NEW r \in Request, HandleCsrf(r), Live(request[r].session)
  PROVE  LET s == request[r].session
         IN /\ s \in Session
            /\ request' \in [Request -> PendingRow]
            /\ request'[r] = WithToken(request[r], session[s].csrf + 1)
            /\ session[s].csrf + 1 \in Nat
            /\ session' \in [Session -> [status : {"unused", "live", "expired", "revoked"}, csrf : Nat]]
            /\ session'[s].csrf = session[s].csrf + 1
            /\ \A t \in Session : session'[t].status = session[t].status
            /\ \A t \in Session \ {s} : session'[t] = session[t]
            /\ \A q \in Request \ {r} :
                 /\ request'[q].overtaken = (request[q].overtaken \/ Holds(request[q], s))
                 /\ request'[q] = [request[q] EXCEPT !.overtaken = request'[q].overtaken]
<1>. DEFINE s == request[r].session
<1>1. s \in Session /\ request[r] \in PendingRow
  BY DEF Types, PendingRow, Live, Session
<1>2. session[s].csrf + 1 \in Nat
  BY <1>1 DEF Types, SessionType
<1>3. WithToken(request[r], session[s].csrf + 1) \in PendingRow
  BY <1>1, <1>2, WithTokenFacts
<1>4. /\ session' = [session EXCEPT ![s].csrf = session[s].csrf + 1]
      /\ request' = [q \in Request |->
                       IF q = r THEN WithToken(request[r], session[s].csrf + 1)
                       ELSE [request[q] EXCEPT !.overtaken = request[q].overtaken \/ Holds(request[q], s)]]
  BY DEF HandleCsrf
<1>5. ASSUME NEW q \in Request
      PROVE  [request[q] EXCEPT !.overtaken = request[q].overtaken \/ Holds(request[q], s)] \in PendingRow
  <2>1. request[q] \in PendingRow
    BY DEF Types
  <2>2. (request[q].overtaken \/ Holds(request[q], s)) \in BOOLEAN
    BY <2>1 DEF PendingRow
  <2>3. QED
    BY <2>1, <2>2 DEF PendingRow
<1>6. request' \in [Request -> PendingRow]
  BY <1>3, <1>4, <1>5
<1>7. /\ session' \in [Session -> [status : {"unused", "live", "expired", "revoked"}, csrf : Nat]]
      /\ session'[s].csrf = session[s].csrf + 1
      /\ \A t \in Session : session'[t].status = session[t].status
      /\ \A t \in Session \ {s} : session'[t] = session[t]
  BY <1>1, <1>2, <1>4 DEF Types, SessionType
<1>8. ASSUME NEW q \in Request \ {r}
      PROVE  /\ request'[q].overtaken = (request[q].overtaken \/ Holds(request[q], s))
             /\ request'[q] = [request[q] EXCEPT !.overtaken = request'[q].overtaken]
  <2>1. request[q] \in PendingRow
    BY DEF Types
  <2>2. request'[q] = [request[q] EXCEPT !.overtaken = request[q].overtaken \/ Holds(request[q], s)]
    BY <1>4
  <2>3. QED
    BY <2>1, <2>2 DEF PendingRow
<1>9. QED
  BY <1>1, <1>2, <1>4, <1>6, <1>7, <1>8

-----------------------------------------------------------------------------
(***************************************************************************)
(* Type correctness.                                                       *)
(***************************************************************************)

LEMMA TypesInit == Init => Types
<1>. SUFFICES ASSUME Init PROVE Types
  OBVIOUS
<1>1. SessionType /\ cookie \in 0..MaxSession /\ shell \in Shell
  BY BoundsAssumption DEF Init, SessionType, FreshShell, Shell, Session
<1>2. Fetch("me", "main") \in PendingRow
  BY <1>1, BoundsAssumption DEF Fetch, PendingRow, Op
<1>3. QED
  BY <1>1, <1>2, NoRequestFacts DEF Init, Types

LEMMA TypesStep == Types /\ [Next]_vars => Types'
<1>. SUFFICES ASSUME Types, [Next]_vars PROVE Types'
  OBVIOUS
<1>1. ASSUME NEW r \in Request, SubmitLogin(r) \/ Logout(r) \/ Change(r) \/ OpenDashboard(r)
      PROVE  Types'
  <2>1. PICK op \in Op, step \in {"csrf", "main"} : Sends(r, op, step)
    BY <1>1 DEF SubmitLogin, Logout, Change, OpenDashboard, Op
  <2>2. QED
    BY <2>1, FetchFacts DEF Sends, Types, SessionType
<1>2. ASSUME NEW r \in Request, Reload(r) PROVE Types'
  <2>1. Fetch("me", "main") \in PendingRow
    BY FetchFacts DEF Op
  <2>2. FreshShell \in Shell
    BY BoundsAssumption DEF FreshShell, Shell
  <2>3. QED
    BY <1>2, <2>1, <2>2 DEF Reload, Types, SessionType
<1>3. ASSUME NEW r \in Request, Handle(r) PROVE Types'
  <2>1. CASE HandleMe(r) \/ HandleChange(r) \/ HandleOverview(r)
    <3>1. PICK a \in Answer : Answers(r, a)
      BY <2>1 DEF HandleMe, HandleChange, HandleOverview, Answer
    <3>2. QED
      BY <2>1, <3>1, AnswersFacts DEF HandleMe, HandleChange, HandleOverview, Types, SessionType
  <2>2. CASE HandleLogin(r)
    <3>1. CASE Answers(r, "refused") /\ UNCHANGED session
      BY <2>2, <3>1, AnswersFacts DEF HandleLogin, Answer, Types, SessionType
    <3>2. ASSUME NEW s \in Session,
                 session' = [session EXCEPT ![s] = [status |-> "live", csrf |-> 0]],
                 request' = [request EXCEPT ![r] = LoggedIn(request[r], s)]
          PROVE  Types'
      <4>1. LoggedIn(request[r], s) \in PendingRow
        BY LoggedInFacts DEF Types
      <4>2. QED
        BY <2>2, <3>2, <4>1 DEF HandleLogin, Types, SessionType
    <3>3. QED
      BY <2>2, <3>1, <3>2 DEF HandleLogin
  <2>3. CASE HandleCsrf(r)
    <3>1. CASE Live(request[r].session)
      BY <2>3, <3>1, RotationFacts DEF HandleCsrf, Types, SessionType
    <3>2. CASE ~Live(request[r].session)
      BY <2>3, <3>2, AnswersFacts DEF HandleCsrf, Answer, Types, SessionType
    <3>3. QED
      BY <3>1, <3>2
  <2>4. CASE HandleLogout(r)
    <3>1. PICK a \in Answer : Answers(r, a)
      BY <2>4 DEF HandleLogout, Answer
    <3>2. SessionType'
      BY <2>4 DEF HandleLogout, Types, SessionType
    <3>3. QED
      BY <2>4, <3>1, <3>2, AnswersFacts DEF HandleLogout, Types
  <2>5. QED
    BY <1>3, <2>1, <2>2, <2>3, <2>4 DEF Handle
<1>4. ASSUME NEW r \in Request, Lose(r) PROVE Types'
  BY <1>4, AnswersFacts DEF Lose, Answer, Types, SessionType
<1>5. ASSUME NEW r \in Request, Continue(r) PROVE Types'
  <2>1. CASE TokenAnswered(r)
    <3>1. Showing(request[r]) \in PendingRow
      BY ShowingFacts DEF Types
    <3>2. QED
      BY <2>1, <3>1 DEF TokenAnswered, Types, SessionType
  <2>2. CASE ~TokenAnswered(r)
    <3>1. request[r].session \in 0..MaxSession /\ shell \in Shell
      BY DEF Types, PendingRow
    <3>2. request' \in [Request -> PendingRow] /\ cookie' \in 0..MaxSession /\ session' = session
      BY <1>5, <2>2, <3>1, NoRequestFacts, BoundsAssumption
      DEF Continue, CheckAnswered, LoginAnswered, ChangeFails, ChangeAnswered,
          LogoutAnswered, LogoutIsOver, OverviewAnswered, Done, Types
    <3>3. CASE CheckAnswered(r)
      <4>. DEFINE admin == IF request[r].answer = "ok" THEN request[r].session ELSE 0
      <4>1. admin \in 0..MaxSession
        BY <3>1, BoundsAssumption
      <4>2. shell' \in {shell, [shell EXCEPT !.checked = TRUE, !.notice = "none", !.admin = admin]}
        BY <3>3 DEF CheckAnswered
      <4>. HIDE DEF admin
      <4>3. [shell EXCEPT !.checked = TRUE, !.notice = "none", !.admin = admin] \in Shell
        BY <3>1, <4>1 DEF Shell
      <4>4. QED
        BY <3>1, <3>2, <4>2, <4>3 DEF Types, SessionType
    <3>4. CASE LoginAnswered(r)
      BY <3>1, <3>2, <3>4 DEF LoginAnswered, Shell, Types, SessionType
    <3>5. CASE LogoutAnswered(r)
      <4>1. shell' \in {shell, LoggedOut(r)}
        BY <3>5 DEF LogoutAnswered
      <4>2. LoggedOut(r) \in Shell
        <5>. DEFINE gone == IF request[r].overtaken \/ request[r].era # request[r].session
                            THEN 0 ELSE request[r].session
        <5>1. gone \in 0..MaxSession /\ 0 \in 0..MaxSession
          BY <3>1, BoundsAssumption
        <5>2. LoggedOut(r) = [shell EXCEPT !.admin = 0, !.notice = "loggedOut", !.gone = gone]
          BY DEF LoggedOut
        <5>. HIDE DEF gone
        <5>3. QED
          BY <3>1, <5>1, <5>2 DEF Shell
      <4>3. QED
        BY <3>1, <3>2, <4>1, <4>2 DEF Types, SessionType
    <3>6. CASE ChangeFails(r) \/ ChangeAnswered(r) \/ OverviewAnswered(r)
      <4>1. shell' \in {shell, AuthExpired}
        BY <3>6 DEF ChangeFails, ChangeAnswered, OverviewAnswered, NotifyAuthExpired
      <4>2. AuthExpired \in Shell
        <5>1. 0 \in 0..MaxSession
          BY BoundsAssumption
        <5>2. [shell EXCEPT !.admin = 0, !.notice = "expired"] \in Shell
          BY <3>1, <5>1 DEF Shell
        <5>3. QED
          BY <5>2 DEF AuthExpired
      <4>3. QED
        BY <3>1, <3>2, <4>1, <4>2 DEF Types, SessionType
    <3>7. QED
      BY <1>5, <2>2, <3>3, <3>4, <3>5, <3>6 DEF Continue
  <2>3. QED
    BY <2>1, <2>2
<1>6. ASSUME NEW s \in Session, Expire(s) PROVE Types'
  BY <1>6 DEF Expire, Types, SessionType
<1>7. CASE UNCHANGED vars
  BY <1>7 DEF vars, Types, SessionType
<1>8. QED
  BY <1>1, <1>2, <1>3, <1>4, <1>5, <1>6, <1>7 DEF Next

-----------------------------------------------------------------------------
(***************************************************************************)
(* The sessions: none goes back to unused, none that ended comes back, and *)
(* only a fetch of a token changes the token of one that is in use.        *)
(***************************************************************************)

SameTokens == \A s \in Session : session[s].status # "unused" => session'[s].csrf = session[s].csrf

LEMMA StatusStep ==
  ASSUME Types, [Next]_vars
  PROVE  \A s \in Session :
           /\ session[s].status # "unused" => session'[s].status # "unused"
           /\ session[s].status \in {"expired", "revoked"}
                => session'[s].status \in {"expired", "revoked"}
<1>1. ASSUME NEW r \in Request, HandleCsrf(r)
      PROVE  session' = session \/ \A s \in Session : session'[s].status = session[s].status
  BY <1>1, RotationFacts DEF HandleCsrf
<1>2. ASSUME NEW r \in Request, HandleLogin(r)
      PROVE  \/ session' = session
             \/ \E s \in Session :
                  /\ session[s].status = "unused"
                  /\ session' = [session EXCEPT ![s] = [status |-> "live", csrf |-> 0]]
  BY <1>2 DEF HandleLogin
<1>3. ASSUME NEW r \in Request, HandleLogout(r)
      PROVE  \/ session' = session
             \/ \E s \in Session :
                  /\ session[s].status = "live"
                  /\ session' = [session EXCEPT ![s].status = "revoked"]
  <2>1. request[r].session \in 0..MaxSession
    BY DEF Types, PendingRow
  <2>2. QED
    BY <1>3, <2>1 DEF HandleLogout, Live, Session
<1>4. ASSUME NEW s \in Session, Expire(s)
      PROVE  session[s].status = "live" /\ session' = [session EXCEPT ![s].status = "expired"]
  BY <1>4 DEF Expire
<1>5. CASE UNCHANGED session
  BY <1>5
<1>6. QED
  BY <1>1, <1>2, <1>3, <1>4, <1>5
  DEF Types, SessionType, Next, vars, SubmitLogin, Logout, Change, OpenDashboard, Sends, Reload,
      Handle, HandleMe, HandleChange, HandleOverview, Lose, Continue, CheckAnswered, LoginAnswered,
      TokenAnswered, ChangeFails, ChangeAnswered, LogoutAnswered, LogoutIsOver, OverviewAnswered

\* What was made stays made, and what has ended stays ended.
LEMMA MadeAndEnded ==
  ASSUME Types, [Next]_vars, NEW s \in 0..MaxSession
  PROVE  /\ Used(s) => (s # 0 => session'[s].status # "unused")
         /\ Ended(s) => (s # 0 => session'[s].status \in {"expired", "revoked"})
<1>1. s # 0 => s \in Session
  BY DEF Session
<1>2. QED
  BY <1>1, StatusStep DEF Used, Ended

-----------------------------------------------------------------------------
(***************************************************************************)
(* The console and its cookie.                                             *)
(***************************************************************************)

\* The parts of the tab that an answer without a token leaves alone.
LEMMA ContinueFacts ==
  ASSUME Types, NEW r \in Request, Continue(r), ~TokenAnswered(r)
  PROVE  /\ session' = session
         /\ request' = [request EXCEPT ![r] = NoRequest]
  BY DEF Continue, CheckAnswered, LoginAnswered, ChangeFails, ChangeAnswered,
         LogoutAnswered, LogoutIsOver, OverviewAnswered, Done

LEMMA CookieStep == Types /\ ConsoleHasItsCookie /\ [Next]_vars => ConsoleHasItsCookie'
<1>. SUFFICES ASSUME Types, ConsoleHasItsCookie, [Next]_vars PROVE ConsoleHasItsCookie'
  OBVIOUS
<1>1. CASE UNCHANGED <<cookie, shell>>
  BY <1>1 DEF ConsoleHasItsCookie
<1>2. ASSUME NEW r \in Request, Reload(r) PROVE ConsoleHasItsCookie'
  BY <1>2 DEF Reload, FreshShell, ConsoleHasItsCookie
<1>3. ASSUME NEW r \in Request, Continue(r) PROVE ConsoleHasItsCookie'
  <2>1. shell \in Shell
    BY DEF Types
  <2>2. CASE CheckAnswered(r)
    <3>1. \/ request[r].answer = "lost" /\ shell' = shell /\ cookie' = cookie
          \/ request[r].answer = "ok" /\ shell'.admin = request[r].session /\ cookie' = request[r].session
          \/ shell'.admin = 0
      BY <2>1, <2>2 DEF CheckAnswered, Shell
    <3>2. QED
      BY <3>1 DEF ConsoleHasItsCookie
  <2>3. CASE LoginAnswered(r)
    <3>1. \/ shell' = shell /\ cookie' = cookie
          \/ shell'.admin = request[r].session /\ cookie' = request[r].session
      BY <2>1, <2>3 DEF LoginAnswered, Shell
    <3>2. QED
      BY <3>1 DEF ConsoleHasItsCookie
  <2>4. CASE LogoutAnswered(r)
    <3>1. \/ shell' = shell /\ cookie' = cookie
          \/ shell'.admin = 0
      BY <2>1, <2>4 DEF LogoutAnswered, LogoutIsOver, LoggedOut, Shell
    <3>2. QED
      BY <3>1 DEF ConsoleHasItsCookie
  <2>5. CASE ChangeAnswered(r) \/ OverviewAnswered(r)
    <3>1. cookie' = cookie /\ (shell' = shell \/ shell'.admin = 0)
      BY <2>1, <2>5 DEF ChangeAnswered, OverviewAnswered, NotifyAuthExpired, AuthExpired, Shell
    <3>2. QED
      BY <3>1 DEF ConsoleHasItsCookie
  <2>6. CASE TokenAnswered(r) \/ ChangeFails(r)
    BY <1>1, <2>6 DEF TokenAnswered, ChangeFails
  <2>7. QED
    BY <1>3, <2>2, <2>3, <2>4, <2>5, <2>6 DEF Continue
<1>4. QED
  BY <1>1, <1>2, <1>3
  DEF Next, vars, SubmitLogin, Logout, Change, OpenDashboard, Sends, Handle, HandleMe, HandleLogin,
      HandleCsrf, HandleLogout, HandleChange, HandleOverview, Lose, Expire

\* The types hold, with no bound on the tokens of a session.
LEMMA TypesHold == Spec => []Types
  BY TypesInit, TypesStep, PTL DEF Spec

\* Whatever is answered late, the console is never shown over another session's
\* cookie, or over none.
THEOREM CookieIsTheConsoles == Spec => []ConsoleHasItsCookie
<1>1. Init => ConsoleHasItsCookie
  BY DEF Init, FreshShell, ConsoleHasItsCookie
<1>2. QED
  BY <1>1, CookieStep, TypesHold, PTL DEF Spec

-----------------------------------------------------------------------------
(***************************************************************************)
(* The requests.                                                           *)
(***************************************************************************)

RequestInv == SessionsWereMade /\ \A r \in Request : RowInv(r)

RowKept(r) == RowInv(r) /\ Used(request[r].session)

\* A request that does not change keeps what holds of it, as long as the tokens
\* of the sessions in use stay.
LEMMA UnchangedRow ==
  ASSUME Types, [Next]_vars, SameTokens, NEW q \in Request, RowKept(q), request'[q] = request[q]
  PROVE  RowKept(q)'
<1>. DEFINE s == request[q].session
<1>1. request[q] \in PendingRow /\ s \in 0..MaxSession /\ request[q].era \in 0..MaxSession
  BY DEF Types, PendingRow
<1>2. Used(request[q].session)' /\ (Ended(s) => Ended(request[q].session)')
  BY <1>1, MadeAndEnded DEF RowKept, Used, Ended
<1>3. s # 0 => session'[s].csrf = session[s].csrf
  BY <1>1 DEF SameTokens, RowKept, Used, Session
<1>4. FetchIsOfTheLogin(q)' /\ RefusedForItsToken(q)'
  BY DEF RowKept, RowInv, FetchIsOfTheLogin, Protected, RefusedForItsToken
<1>5. TokenIsCurrent(q)'
  BY <1>3, <1>4 DEF RowKept, RowInv, TokenIsCurrent, FetchIsOfTheLogin, Protected
<1>6. LogoutAnswerHolds(q)'
  BY <1>2 DEF RowKept, RowInv, LogoutAnswerHolds
<1>7. QED
  BY <1>2, <1>4, <1>5, <1>6 DEF RowKept, RowInv

\* Of a request without a token there is nothing to be said but its session.
LEMMA OpenRow ==
  ASSUME NEW q \in Request, request'[q].op \notin {"logout", "change"},
         request'[q].answer # "403", Used(request[q].session)'
  PROVE  RowKept(q)'
  BY DEF RowKept, RowInv, FetchIsOfTheLogin, TokenIsCurrent, RefusedForItsToken, LogoutAnswerHolds,
         Protected

\* Only the changed row, the cookie and the tokens have to be looked at.
LEMMA OneRowStep ==
  ASSUME Types, RequestInv, [Next]_vars, SameTokens, NEW r \in Request,
         \A q \in Request \ {r} : request'[q] = request[q],
         Used(cookie)', RowKept(r)'
  PROVE  RequestInv'
<1>1. ASSUME NEW q \in Request PROVE RowKept(q)'
  <2>1. RowKept(q)
    BY DEF RequestInv, SessionsWereMade, RowKept
  <2>2. CASE q = r
    BY <2>2
  <2>3. CASE q # r
    BY <2>1, <2>3, UnchangedRow
  <2>4. QED
    BY <2>2, <2>3
<1>2. QED
  BY <1>1 DEF RequestInv, SessionsWereMade, RowKept

\* The cookie and the request's session stay made.
LEMMA StaysMade ==
  ASSUME Types, RequestInv, [Next]_vars, NEW r \in Request
  PROVE  /\ cookie # 0 => session'[cookie].status # "unused"
         /\ request[r].session # 0 => session'[request[r].session].status # "unused"
<1>1. cookie \in 0..MaxSession /\ request[r].session \in 0..MaxSession
  BY DEF Types, PendingRow
<1>2. Used(cookie) /\ Used(request[r].session)
  BY DEF RequestInv, SessionsWereMade
<1>3. QED
  BY <1>1, <1>2, MadeAndEnded

LEMMA SendStep ==
  ASSUME Types, ConsoleHasItsCookie, RequestInv, [Next]_vars, NEW r \in Request,
         SubmitLogin(r) \/ Logout(r) \/ Change(r) \/ OpenDashboard(r)
  PROVE  RequestInv'
<1>1. PICK op \in Op, step \in {"csrf", "main"} :
        /\ Sends(r, op, step)
        /\ \/ op \in {"logout", "change"} /\ step = "csrf" /\ shell.admin # 0
           \/ op \notin {"logout", "change"}
  BY DEF SubmitLogin, Logout, Change, OpenDashboard, ConsoleShown, Op
<1>2. /\ UNCHANGED <<session, cookie>> /\ request'[r] = Fetch(op, step)
      /\ \A q \in Request \ {r} : request'[q] = request[q]
  BY <1>1 DEF Sends, Types
<1>3. Used(cookie)' /\ SameTokens
  BY <1>2, StaysMade DEF Used, SameTokens
<1>4. /\ request'[r].op = op /\ request'[r].step = step /\ request'[r].session = cookie
      /\ request'[r].token = 0 /\ request'[r].answer = "none" /\ request'[r].stage = "sent"
      /\ step = "csrf" => request'[r].era = shell.admin
  BY <1>2 DEF Fetch
<1>5. Used(request[r].session)'
  BY <1>2, <1>3, <1>4 DEF Used
<1>6. CASE op \in {"logout", "change"} /\ step = "csrf" /\ shell.admin # 0
  <2>1. cookie = shell.admin
    BY <1>6 DEF ConsoleHasItsCookie
  <2>2. RowKept(r)'
    BY <1>4, <1>5, <1>6, <2>1 DEF RowKept, RowInv, FetchIsOfTheLogin, TokenIsCurrent,
       RefusedForItsToken, LogoutAnswerHolds, Protected
  <2>3. QED
    BY <1>2, <1>3, <2>2, OneRowStep
<1>7. CASE op \notin {"logout", "change"}
  BY <1>2, <1>3, <1>4, <1>5, <1>7, OpenRow, OneRowStep
<1>8. QED
  BY <1>1, <1>6, <1>7

LEMMA ReloadStep ==
  ASSUME Types, RequestInv, [Next]_vars, NEW r \in Request, Reload(r)
  PROVE  RequestInv'
<1>1. /\ UNCHANGED <<session, cookie>> /\ request'[r] = Fetch("me", "main")
      /\ \A q \in Request \ {r} : request'[q] = request[q]
  BY DEF Reload, Types
<1>2. Used(cookie)' /\ SameTokens
  BY <1>1, StaysMade DEF Used, SameTokens
<1>3. request'[r].op = "me" /\ request'[r].session = cookie /\ request'[r].answer = "none"
  BY <1>1 DEF Fetch
<1>4. QED
  BY <1>1, <1>2, <1>3, OpenRow, OneRowStep DEF Used

\* A request that shows no token is answered without one.
LEMMA PlainAnswerStep ==
  ASSUME Types, RequestInv, [Next]_vars, NEW r \in Request, HandleMe(r) \/ HandleOverview(r)
  PROVE  RequestInv'
<1>1. PICK a \in {"ok", "401"} : Answers(r, a)
  BY DEF HandleMe, HandleOverview
<1>2. UNCHANGED <<session, cookie>> /\ request[r].op \in {"me", "overview"}
  BY DEF HandleMe, HandleOverview, Asked
<1>3. /\ request'[r] = Reply(request[r], a)
      /\ \A q \in Request \ {r} : request'[q] = request[q]
  BY <1>1, AnswersFacts DEF Answer
<1>4. request'[r].op = request[r].op /\ request'[r].session = request[r].session /\ request'[r].answer = a
  BY <1>3, ReplyFacts DEF Types, Answer
<1>5. Used(cookie)' /\ SameTokens /\ Used(request[r].session)'
  BY <1>2, <1>4, StaysMade DEF Used, SameTokens
<1>6. QED
  BY <1>2, <1>3, <1>4, <1>5, OpenRow, OneRowStep

LEMMA LoginStep ==
  ASSUME Types, RequestInv, [Next]_vars, NEW r \in Request, HandleLogin(r)
  PROVE  RequestInv'
<1>1. cookie' = cookie /\ request[r].op = "login" /\ request[r] \in PendingRow
  BY DEF HandleLogin, Asked, Types
<1>2. CASE Answers(r, "refused") /\ UNCHANGED session
  <2>1. /\ request'[r] = Reply(request[r], "refused")
        /\ \A q \in Request \ {r} : request'[q] = request[q]
    BY <1>2, AnswersFacts DEF Answer
  <2>2. /\ request'[r].op = "login" /\ request'[r].session = request[r].session
        /\ request'[r].answer = "refused"
    BY <1>1, <2>1, ReplyFacts DEF Answer
  <2>3. Used(cookie)' /\ SameTokens /\ Used(request[r].session)'
    BY <1>1, <1>2, <2>2, StaysMade DEF Used, SameTokens
  <2>4. QED
    BY <2>1, <2>2, <2>3, OpenRow, OneRowStep
<1>3. ASSUME NEW s \in Session, session[s].status = "unused",
             session' = [session EXCEPT ![s] = [status |-> "live", csrf |-> 0]],
             request' = [request EXCEPT ![r] = LoggedIn(request[r], s)]
      PROVE  RequestInv'
  <2>1. /\ request'[r] = LoggedIn(request[r], s)
        /\ \A q \in Request \ {r} : request'[q] = request[q]
    BY <1>3 DEF Types
  <2>2. request'[r].op = "login" /\ request'[r].session = s /\ request'[r].answer = "ok"
    BY <1>1, <2>1, LoggedInFacts
  <2>3. session'[s].status = "live" /\ SameTokens
    BY <1>3 DEF Types, SessionType, SameTokens
  <2>4. Used(cookie)' /\ Used(request[r].session)'
    BY <1>1, <2>2, <2>3, StaysMade DEF Used
  <2>5. QED
    BY <2>1, <2>2, <2>3, <2>4, OpenRow, OneRowStep
<1>4. QED
  BY <1>2, <1>3 DEF HandleLogin

\* The fetch of a token: it rotates the token of a live session, and makes those
\* that are not shown yet useless.
LEMMA CsrfStep ==
  ASSUME Types, RequestInv, [Next]_vars, NEW r \in Request, HandleCsrf(r)
  PROVE  RequestInv'
<1>. DEFINE s == request[r].session
<1>1. /\ cookie' = cookie /\ request[r].op \in {"logout", "change"} /\ request[r].step = "csrf"
      /\ request[r] \in PendingRow /\ s \in 0..MaxSession
  BY DEF HandleCsrf, Asked, Types, PendingRow
<1>2. RowKept(r) /\ request[r].era # 0 /\ s = request[r].era
  BY <1>1 DEF RequestInv, SessionsWereMade, RowKept, RowInv, FetchIsOfTheLogin, Protected
<1>3. Used(cookie)'
  BY <1>1, StaysMade DEF Used
<1>4. CASE ~Live(s)
  <2>1. Answers(r, "401") /\ session' = session
    BY <1>4 DEF HandleCsrf
  <2>2. /\ request'[r] = Reply(request[r], "401")
        /\ \A q \in Request \ {r} : request'[q] = request[q]
    BY <2>1, AnswersFacts DEF Answer
  <2>3. /\ request'[r].op = request[r].op /\ request'[r].step = "csrf" /\ request'[r].answer = "401"
        /\ request'[r].session = s /\ request'[r].token = request[r].token
        /\ request'[r].era = request[r].era /\ request'[r].overtaken = request[r].overtaken
    BY <1>1, <2>2, ReplyFacts DEF Answer
  <2>4. Ended(s)
    BY <1>1, <1>2, <1>4 DEF Ended, RowKept, Used, Live, Types, SessionType, Session
  <2>5. RowKept(r)'
    BY <1>1, <1>2, <2>1, <2>3, <2>4 DEF RowKept, RowInv, FetchIsOfTheLogin, TokenIsCurrent,
       RefusedForItsToken, LogoutAnswerHolds, Protected, Ended, Used
  <2>6. QED
    BY <1>3, <2>1, <2>2, <2>5, OneRowStep DEF SameTokens
<1>5. CASE Live(s)
  <2>. DEFINE new == session[s].csrf + 1
  <2>1. /\ s \in Session /\ request'[r] = WithToken(request[r], new)
        /\ new \in Nat /\ new > 0
        /\ session'[s].csrf = new
        /\ \A t \in Session \ {s} : session'[t] = session[t]
    BY <1>5, RotationFacts DEF Types, SessionType
  <2>. HIDE DEF new
  <2>2. /\ request'[r].op = request[r].op /\ request'[r].step = "csrf" /\ request'[r].answer = "ok"
        /\ request'[r].session = s /\ request'[r].token = new
        /\ request'[r].era = request[r].era /\ request'[r].overtaken = request[r].overtaken
    BY <1>1, <2>1, WithTokenFacts
  <2>3. Used(request[r].session)'
    BY <2>2, StaysMade DEF Used
  <2>4. RowKept(r)'
    BY <1>1, <1>2, <2>1, <2>2, <2>3 DEF RowKept, RowInv, FetchIsOfTheLogin, TokenIsCurrent,
       RefusedForItsToken, LogoutAnswerHolds, Protected
  <2>5. ASSUME NEW q \in Request \ {r} PROVE RowKept(q)'
    <3>1. /\ RowKept(q) /\ request[q] \in PendingRow /\ request[q].session \in 0..MaxSession
          /\ request[q].overtaken \in BOOLEAN /\ request[q].token \in Nat
      BY DEF RequestInv, SessionsWereMade, RowKept, Types, PendingRow
    <3>2. /\ request'[q].overtaken = (request[q].overtaken \/ Holds(request[q], s))
          /\ request'[q] = [request[q] EXCEPT !.overtaken = request'[q].overtaken]
      BY <1>5, RotationFacts
    <3>3. /\ request'[q].op = request[q].op /\ request'[q].step = request[q].step
          /\ request'[q].stage = request[q].stage /\ request'[q].answer = request[q].answer
          /\ request'[q].session = request[q].session /\ request'[q].token = request[q].token
          /\ request'[q].era = request[q].era
      BY <3>1, <3>2 DEF PendingRow
    <3>4. Used(request[q].session)' /\ (Ended(request[q].session) => Ended(request[q].session)')
      BY <3>1, <3>3, MadeAndEnded DEF RowKept, Used, Ended
    <3>5. FetchIsOfTheLogin(q)' /\ RefusedForItsToken(q)'
      BY <3>1, <3>2, <3>3 DEF RowKept, RowInv, FetchIsOfTheLogin, RefusedForItsToken, Protected
    <3>6. TokenIsCurrent(q)'
      <4>1. SUFFICES ASSUME Protected(q)', request'[q].token > 0, ~request'[q].overtaken,
                            request'[q].era = request'[q].session
                     PROVE  request'[q].token = session'[request'[q].session].csrf
        BY DEF TokenIsCurrent
      <4>2. ~request[q].overtaken /\ ~Holds(request[q], s)
        BY <3>2, <4>1
      <4>3. request[q].session # s /\ request[q].session # 0
        BY <3>3, <3>5, <4>1, <4>2 DEF Holds, FetchIsOfTheLogin
      <4>4. request[q].token = session[request[q].session].csrf
        BY <3>1, <3>3, <4>1, <4>2 DEF RowKept, RowInv, TokenIsCurrent, Protected
      <4>5. QED
        BY <2>1, <3>1, <3>3, <4>3, <4>4 DEF Session
    <3>7. LogoutAnswerHolds(q)'
      BY <3>1, <3>3, <3>4 DEF RowKept, RowInv, LogoutAnswerHolds
    <3>8. QED
      BY <3>4, <3>5, <3>6, <3>7 DEF RowKept, RowInv
  <2>6. QED
    BY <1>3, <2>4, <2>5 DEF RequestInv, SessionsWereMade, RowKept
<1>6. QED
  BY <1>4, <1>5

\* The call that shows a token: what it is answered follows from the token, and
\* a logout that is accepted has ended its session.
LEMMA ShownTokenStep ==
  ASSUME Types, RequestInv, [Next]_vars, NEW r \in Request, HandleLogout(r) \/ HandleChange(r)
  PROVE  RequestInv'
<1>. DEFINE s == request[r].session
<1>1. /\ cookie' = cookie /\ request[r].op \in {"logout", "change"} /\ request[r].step = "main"
      /\ request[r] \in PendingRow /\ s \in 0..MaxSession
  BY DEF HandleLogout, HandleChange, Asked, Types, PendingRow
<1>2. RowKept(r) /\ request[r].token > 0
  BY <1>1 DEF RequestInv, SessionsWereMade, RowKept, RowInv, FetchIsOfTheLogin, Protected
<1>3. PICK a \in {"ok", "401", "403"} :
        /\ Answers(r, a)
        /\ a = "403" => ~CsrfValid(r)
        /\ request[r].op = "logout" => a \in {"ok", "403"}
  BY DEF HandleLogout, HandleChange, Asked
<1>4. /\ request'[r] = Reply(request[r], a)
      /\ \A q \in Request \ {r} : request'[q] = request[q]
  BY <1>3, AnswersFacts DEF Answer
<1>5. /\ request'[r].op = request[r].op /\ request'[r].step = "main" /\ request'[r].answer = a
      /\ request'[r].session = s /\ request'[r].token = request[r].token
      /\ request'[r].era = request[r].era /\ request'[r].overtaken = request[r].overtaken
  BY <1>1, <1>4, ReplyFacts DEF Answer
<1>6. \A t \in Session : session'[t].csrf = session[t].csrf
  <2>1. \/ session' = session
        \/ s \in Session /\ session' = [session EXCEPT ![s].status = "revoked"]
    BY <1>1 DEF HandleLogout, HandleChange, Live, Session
  <2>2. QED
    BY <2>1 DEF Types, SessionType
<1>7. Used(cookie)' /\ Used(request[r].session)' /\ SameTokens
  BY <1>1, <1>5, <1>6, StaysMade DEF Used, SameTokens
<1>8. FetchIsOfTheLogin(r)' /\ TokenIsCurrent(r)'
  BY <1>1, <1>2, <1>5, <1>6 DEF RowKept, RowInv, FetchIsOfTheLogin, TokenIsCurrent, Protected, Session
<1>9. RefusedForItsToken(r)'
  <2>1. a = "403" => request[r].overtaken \/ request[r].era # s
    BY <1>1, <1>2, <1>3 DEF RowKept, RowInv, TokenIsCurrent, Protected, CsrfValid
  <2>2. QED
    BY <1>5, <2>1 DEF RefusedForItsToken
<1>10. LogoutAnswerHolds(r)'
  <2>1. request[r].op = "logout" /\ a = "ok" => Ended(request[r].session)'
    <3>1. SUFFICES ASSUME request[r].op = "logout", a = "ok", s # 0
                   PROVE  session'[s].status \in {"expired", "revoked"}
      BY <1>5 DEF Ended
    <3>2. s \in Session /\ session[s].status # "unused"
      BY <1>1, <1>2, <3>1 DEF RowKept, Used, Session
    <3>3. HandleLogout(r)
      BY <3>1 DEF HandleChange, Asked
    <3>4. CASE Live(s)
      <4>1. ~(Live(s) /\ ~CsrfValid(r))
        BY <1>4, <1>5, <3>1, <3>3, AnswersFacts, ReplyFacts DEF HandleLogout, Answer, Types
      <4>2. session' = [session EXCEPT ![s].status = "revoked"]
        BY <3>3, <3>4, <4>1 DEF HandleLogout
      <4>3. QED
        BY <3>2, <4>2 DEF Types, SessionType
    <3>5. CASE ~Live(s)
      BY <3>1, <3>2, <3>3, <3>5 DEF HandleLogout, Live, Types, SessionType
    <3>6. QED
      BY <3>4, <3>5
  <2>2. QED
    BY <1>3, <1>5, <2>1 DEF LogoutAnswerHolds
<1>11. QED
  BY <1>4, <1>7, <1>8, <1>9, <1>10, OneRowStep DEF RowKept, RowInv

\* A lost answer leaves nothing that could be wrong.
LEMMA LoseStep ==
  ASSUME Types, RequestInv, [Next]_vars, NEW r \in Request, Lose(r)
  PROVE  RequestInv'
<1>1. Answers(r, "lost") /\ UNCHANGED <<session, cookie>> /\ request[r] \in PendingRow
  BY DEF Lose, Types
<1>2. /\ request'[r] = Reply(request[r], "lost")
      /\ \A q \in Request \ {r} : request'[q] = request[q]
  BY <1>1, AnswersFacts DEF Answer
<1>3. /\ request'[r].op = request[r].op /\ request'[r].step = request[r].step
      /\ request'[r].answer = "lost" /\ request'[r].session = request[r].session
      /\ request'[r].token = request[r].token /\ request'[r].era = request[r].era
      /\ request'[r].overtaken = request[r].overtaken /\ request[r].step \in {"csrf", "main"}
  BY <1>1, <1>2, ReplyFacts DEF Answer, PendingRow
<1>4. RowKept(r)
  BY DEF RequestInv, SessionsWereMade, RowKept
<1>5. Used(cookie)' /\ SameTokens /\ Used(request[r].session)'
  BY <1>1, <1>3, StaysMade DEF Used, SameTokens
<1>6. FetchIsOfTheLogin(r)' /\ RefusedForItsToken(r)' /\ LogoutAnswerHolds(r)'
  BY <1>3, <1>4 DEF RowKept, RowInv, FetchIsOfTheLogin, RefusedForItsToken, LogoutAnswerHolds, Protected
<1>7. TokenIsCurrent(r)'
  BY <1>1, <1>3, <1>4 DEF RowKept, RowInv, TokenIsCurrent, Protected
<1>8. QED
  BY <1>2, <1>5, <1>6, <1>7, OneRowStep DEF RowKept, RowInv

\* The protected call goes out with the cookie of now; its token is still that
\* of its session if this is the login it was fetched under.
LEMMA TokenAnsweredStep ==
  ASSUME Types, RequestInv, [Next]_vars, NEW r \in Request, TokenAnswered(r)
  PROVE  RequestInv'
<1>1. /\ UNCHANGED <<session, cookie>> /\ request[r] \in PendingRow
      /\ request[r].op \in {"logout", "change"} /\ request[r].step = "csrf"
      /\ request[r].answer = "ok" /\ request' = [request EXCEPT ![r] = Showing(request[r])]
  BY DEF TokenAnswered, Answered, Types
<1>2. /\ request'[r] = Showing(request[r])
      /\ \A q \in Request \ {r} : request'[q] = request[q]
  BY <1>1 DEF Types
<1>3. /\ request'[r].step = "main" /\ request'[r].stage = "sent" /\ request'[r].answer = "none"
      /\ request'[r].session = cookie /\ request'[r].op = request[r].op
      /\ request'[r].token = request[r].token /\ request'[r].era = request[r].era
      /\ request'[r].overtaken = request[r].overtaken
  BY <1>1, <1>2, ShowingFacts
<1>4. RowKept(r)
  BY DEF RequestInv, SessionsWereMade, RowKept
<1>5. /\ request[r].session = request[r].era /\ request[r].era # 0 /\ request[r].token > 0
  BY <1>1, <1>4 DEF RowKept, RowInv, FetchIsOfTheLogin, Protected
<1>6. Used(cookie)' /\ SameTokens /\ Used(request[r].session)'
  BY <1>1, <1>3, StaysMade DEF Used, SameTokens
<1>7. FetchIsOfTheLogin(r)' /\ RefusedForItsToken(r)' /\ LogoutAnswerHolds(r)'
  BY <1>3, <1>5 DEF FetchIsOfTheLogin, RefusedForItsToken, LogoutAnswerHolds, Protected
<1>8. TokenIsCurrent(r)'
  BY <1>1, <1>3, <1>4, <1>5 DEF RowKept, RowInv, TokenIsCurrent, Protected
<1>9. QED
  BY <1>2, <1>6, <1>7, <1>8, OneRowStep DEF RowKept, RowInv

\* A request that is over leaves the cookie of a session that was made, or none.
LEMMA OverStep ==
  ASSUME Types, RequestInv, [Next]_vars, NEW r \in Request, Continue(r), ~TokenAnswered(r)
  PROVE  RequestInv'
<1>1. session' = session /\ request' = [request EXCEPT ![r] = NoRequest]
  BY ContinueFacts
<1>2. /\ request'[r] = NoRequest
      /\ \A q \in Request \ {r} : request'[q] = request[q]
  BY <1>1 DEF Types
<1>3. cookie' \in {cookie, 0, request[r].session}
  BY DEF Continue, CheckAnswered, LoginAnswered, ChangeFails, ChangeAnswered,
         LogoutAnswered, LogoutIsOver, OverviewAnswered
<1>4. Used(cookie)' /\ SameTokens
  BY <1>1, <1>3, StaysMade DEF Used, SameTokens
<1>5. request'[r].op = "none" /\ request'[r].session = 0 /\ request'[r].answer = "none"
  BY <1>2 DEF NoRequest
<1>6. QED
  BY <1>2, <1>4, <1>5, OpenRow, OneRowStep DEF Used

LEMMA ExpireStep ==
  ASSUME Types, RequestInv, [Next]_vars, NEW s \in Session, Expire(s)
  PROVE  RequestInv'
<1>1. UNCHANGED <<cookie, request>> /\ SameTokens
  BY DEF Expire, Types, SessionType, SameTokens
<1>2. ASSUME NEW q \in Request PROVE RowKept(q)'
  <2>1. RowKept(q)
    BY DEF RequestInv, SessionsWereMade, RowKept
  <2>2. QED
    BY <1>1, <2>1, UnchangedRow
<1>3. Used(cookie)'
  <2>1. CASE Request = {}
    <3>1. cookie \in 0..MaxSession /\ Used(cookie)
      BY DEF Types, RequestInv, SessionsWereMade
    <3>2. QED
      BY <1>1, <3>1, MadeAndEnded DEF Used
  <2>2. CASE \E r \in Request : TRUE
    BY <1>1, <2>2, StaysMade DEF Used
  <2>3. QED
    BY <2>1, <2>2
<1>4. QED
  BY <1>2, <1>3 DEF RequestInv, SessionsWereMade, RowKept

LEMMA RequestInit == Init => RequestInv
<1>. SUFFICES ASSUME Init PROVE RequestInv
  OBVIOUS
<1>1. PICK st \in {"unused", "live", "expired"} :
        /\ session = [s \in Session |-> [status |-> IF s = 1 THEN st ELSE "unused", csrf |-> 0]]
        /\ cookie = IF st = "unused" THEN 0 ELSE 1
  BY DEF Init
<1>2. Used(cookie)
  <2>1. CASE st = "unused"
    BY <1>1, <2>1 DEF Used
  <2>2. CASE st # "unused"
    <3>1. 1 \in Session /\ cookie = 1
      BY <1>1, <2>2, BoundsAssumption DEF Session
    <3>2. session[1].status = st
      BY <1>1, <3>1
    <3>3. QED
      BY <2>2, <3>1, <3>2 DEF Used
  <2>3. QED
    BY <2>1, <2>2
<1>3. ASSUME NEW q \in Request PROVE RowKept(q)
  <2>1. request[q] = Fetch("me", "main") \/ request[q] = NoRequest
    BY DEF Init
  <2>2. /\ request[q].op \in {"me", "none"} /\ request[q].answer = "none"
        /\ request[q].session \in {0, cookie}
    BY <2>1 DEF Fetch, NoRequest
  <2>3. QED
    BY <1>2, <2>2 DEF RowKept, RowInv, FetchIsOfTheLogin, TokenIsCurrent, RefusedForItsToken,
       LogoutAnswerHolds, Protected, Used
<1>4. QED
  BY <1>2, <1>3 DEF RequestInv, SessionsWereMade, RowKept

LEMMA RequestStep == Types /\ ConsoleHasItsCookie /\ RequestInv /\ [Next]_vars => RequestInv'
<1>. SUFFICES ASSUME Types, ConsoleHasItsCookie, RequestInv, [Next]_vars PROVE RequestInv'
  OBVIOUS
<1>1. CASE UNCHANGED vars
  BY <1>1 DEF vars, RequestInv, SessionsWereMade, RowInv, Used, Ended, FetchIsOfTheLogin,
     TokenIsCurrent, RefusedForItsToken, LogoutAnswerHolds, Protected
<1>2. ASSUME NEW r \in Request, SubmitLogin(r) \/ Logout(r) \/ Change(r) \/ OpenDashboard(r)
      PROVE  RequestInv'
  BY <1>2, SendStep
<1>3. ASSUME NEW r \in Request, Reload(r) PROVE RequestInv'
  BY <1>3, ReloadStep
<1>4. ASSUME NEW r \in Request, Handle(r) PROVE RequestInv'
  BY <1>4, PlainAnswerStep, LoginStep, CsrfStep, ShownTokenStep DEF Handle
<1>5. ASSUME NEW r \in Request, Lose(r) PROVE RequestInv'
  BY <1>5, LoseStep
<1>6. ASSUME NEW r \in Request, Continue(r) PROVE RequestInv'
  BY <1>6, TokenAnsweredStep, OverStep
<1>7. ASSUME NEW s \in Session, Expire(s) PROVE RequestInv'
  BY <1>7, ExpireStep
<1>8. QED
  BY <1>1, <1>2, <1>3, <1>4, <1>5, <1>6, <1>7 DEF Next

\* What holds of the requests, in every behaviour.
LEMMA RequestsHold == Spec => []RequestInv
<1>1. Types /\ ConsoleHasItsCookie /\ RequestInv /\ [Next]_vars => RequestInv'
  BY RequestStep
<1>2. QED
  BY <1>1, RequestInit, TypesHold, CookieIsTheConsoles, PTL DEF Spec

\* A protected call is refused for its token only if a later fetch of the same
\* session, or a new login, came between its two requests.
THEOREM RefusedTokensWereOvertaken == Spec => []RefusedTokenWasOvertaken
<1>1. RequestInv => RefusedTokenWasOvertaken
  BY DEF RequestInv, RowInv, RefusedForItsToken, RefusedTokenWasOvertaken
<1>2. QED
  BY <1>1, RequestsHold, PTL

-----------------------------------------------------------------------------
(***************************************************************************)
(* What is shown after a logout.                                           *)
(***************************************************************************)

\* The session that a logout reports on has ended at the controller.
LEMMA LogoutStep ==
  ASSUME Types, RequestInv, NEW r \in Request, LogoutAnswered(r), shell' # shell
  PROVE  session' = session /\ Ended(shell'.gone)
<1>1. /\ session' = session /\ shell' = LoggedOut(r) /\ request[r].op = "logout"
      /\ request[r].stage = "answered" /\ request[r].answer # "lost"
      /\ request[r].step = "csrf" => request[r].answer # "ok"
      /\ request[r] \in PendingRow /\ RowInv(r)
  BY DEF LogoutAnswered, LogoutIsOver, Answered, Types, RequestInv
<1>2. shell'.gone = IF request[r].overtaken \/ request[r].era # request[r].session
                    THEN 0 ELSE request[r].session
  BY <1>1 DEF LoggedOut, Types, Shell
<1>3. CASE request[r].overtaken \/ request[r].era # request[r].session
  BY <1>1, <1>2, <1>3 DEF Ended
<1>4. CASE ~(request[r].overtaken \/ request[r].era # request[r].session)
  <2>1. request[r].answer # "403"
    BY <1>1, <1>4 DEF RowInv, RefusedForItsToken
  <2>2. Ended(request[r].session)
    BY <1>1, <2>1 DEF RowInv, LogoutAnswerHolds, PendingRow
  <2>3. QED
    BY <1>1, <1>2, <1>4, <2>2
<1>5. QED
  BY <1>3, <1>4

\* Everything else takes the notice away, puts another in its place or leaves it.
LEMMA NoticeFacts ==
  ASSUME Types, [Next]_vars
  PROVE  \/ shell' = shell
         \/ shell'.notice # "loggedOut"
         \/ shell'.notice = shell.notice /\ shell'.gone = shell.gone
         \/ \E r \in Request : LogoutAnswered(r) /\ shell' # shell
<1>1. shell \in Shell
  BY DEF Types
<1>2. ASSUME NEW r \in Request, Reload(r) PROVE shell'.notice # "loggedOut"
  BY <1>2 DEF Reload, FreshShell
<1>3. ASSUME NEW r \in Request, CheckAnswered(r)
      PROVE  shell' = shell \/ shell'.notice # "loggedOut"
  BY <1>1, <1>3 DEF CheckAnswered, Shell
<1>4. ASSUME NEW r \in Request, LoginAnswered(r)
      PROVE  \/ shell' = shell
             \/ shell'.notice = shell.notice /\ shell'.gone = shell.gone
  BY <1>1, <1>4 DEF LoginAnswered, Shell
<1>5. ASSUME NEW r \in Request, ChangeAnswered(r) \/ OverviewAnswered(r)
      PROVE  shell' = shell \/ shell'.notice # "loggedOut"
  BY <1>1, <1>5 DEF ChangeAnswered, OverviewAnswered, NotifyAuthExpired, AuthExpired, Shell
<1>6. QED
  BY <1>2, <1>3, <1>4, <1>5
  DEF Next, vars, SubmitLogin, Logout, Change, OpenDashboard, Sends, Handle, HandleMe, HandleLogin,
      HandleCsrf, HandleLogout, HandleChange, HandleOverview, Lose, Expire, Continue, TokenAnswered,
      ChangeFails

LEMMA NoticeStep == Types /\ RequestInv /\ NoticeInv /\ [Next]_vars => NoticeInv'
<1>. SUFFICES ASSUME Types, RequestInv, NoticeInv, [Next]_vars PROVE NoticeInv'
  OBVIOUS
<1>1. shell \in Shell /\ shell.gone \in 0..MaxSession
  BY DEF Types, Shell
<1>2. Ended(shell.gone) => (shell.gone # 0 => session'[shell.gone].status \in {"expired", "revoked"})
  BY <1>1, MadeAndEnded
<1>3. CASE shell'.notice = shell.notice /\ shell'.gone = shell.gone
  BY <1>2, <1>3 DEF NoticeInv, Ended
<1>4. ASSUME NEW r \in Request, LogoutAnswered(r), shell' # shell PROVE NoticeInv'
  BY <1>4, LogoutStep DEF NoticeInv, Ended
<1>5. QED
  BY <1>3, <1>4, NoticeFacts DEF NoticeInv

\* A logout that is shown has ended its session at the controller, unless it was
\* overtaken.
THEOREM LogoutsEndSessions == Spec => []LogoutEndsSession
<1>1. Init => NoticeInv
  BY DEF Init, FreshShell, NoticeInv
<1>2. NoticeInv => LogoutEndsSession
  BY DEF NoticeInv, Ended, LogoutEndsSession
<1>3. QED
  BY <1>1, <1>2, NoticeStep, TypesHold, RequestsHold, PTL DEF Spec
=============================================================================

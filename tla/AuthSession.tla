----------------------------- MODULE AuthSession -----------------------------
(***************************************************************************)
(* The identity a browser tab shows: AuthProvider of context/AuthContext   *)
(* .jsx and the helpers of lib/authGuard.js, with the cookie jar and the   *)
(* session rows of routes/auth.py behind them.                             *)
(*                                                                         *)
(* The provider runs async functions that interleave at every await: a     *)
(* check of /auth/me with up to three attempts, a sign-in that confirms    *)
(* its cookie with a second request, a logout, a logout of every device,   *)
(* the OAuth callback, and the onboarding dialog, which patches the user   *)
(* in place.  A generation counter tells an answer that a newer sign-in    *)
(* or logout has overtaken.                                                *)
(*                                                                         *)
(* A call is three steps: it is sent with the cookie of that moment, the   *)
(* server decides it, and the tab hears the answer (and stores its cookie).*)
(***************************************************************************)
EXTENDS Naturals, FiniteSets

CONSTANTS
  Task,       \* the async functions that may be pending at once in the tab
  User,
  Session,    \* session tokens the server may issue
  First,      \* the task of what a fresh page starts: a check, or the callback
  MaxGen,     \* bound: generations in the life of one page
  NoUser, NoSession

ASSUME AuthAssumption ==
  /\ First \in Task
  /\ MaxGen \in Nat
  /\ NoUser \notin User /\ NoSession \notin Session

VARIABLES
  user,       \* user and userRef
  status,     \* CHECKING, AUTHENTICATED, ANONYMOUS or ERROR
  loading,
  gen,        \* the authentication generation
  task,       \* task -> where it awaits, and its locals
  cookie,     \* the session_token of the cookie jar
  owner,      \* user_sessions: session -> its user, NoUser without a row
  leaving,    \* window.location.href was assigned: the page is about to go
  oauth,      \* the page was opened at the OAuth callback
  overtaken   \* history: the tasks pending when a newer sign-in or logout began

provider == <<user, status, loading, gen>>
page == <<leaving, oauth>>
vars == <<provider, task, cookie, owner, page, overtaken>>

Answers == User \cup {"refused", "down", "invalid", "done"}

\* at: the call that is pending, or "idle"; answered: the server's decision has
\* been made; sent: the cookie the call carries; token: the one it brings back.
Idle == [at |-> "idle", gen |-> 0, attempt |-> 1, who |-> NoUser,
         sent |-> NoSession, answer |-> "none", token |-> NoSession]

MaxAttempts == 3

Pending(t) == task[t].at # "idle"

\* A task sends a call: the browser attaches the cookie of now.
Calling(t, at) == [task[t] EXCEPT !.at = at, !.sent = cookie,
                                  !.answer = "none", !.token = NoSession]

Send(t, at) == task' = [task EXCEPT ![t] = Calling(t, at)]

End(t) == task' = [task EXCEPT ![t] = Idle]

IsStale(t) == task[t].gen # gen

\* Answered or unanswered, the first step of a new check.
CheckFrom(g) == [Idle EXCEPT !.at = "check", !.gen = g, !.sent = cookie]

Heard(t, at) == task[t].at = at /\ task[t].answer # "none"

\* A token in the answer goes to the jar before the function that awaits it runs.
StoreCookie(t) ==
  cookie' = IF task[t].token = NoSession THEN cookie ELSE task[t].token

ApplyIdentity(u) == user' = u /\ status' = "authenticated"

ClearIdentity(s) == user' = NoUser /\ status' = s

\* A page that opens sends its first request with the cookie of the jar.
FreshPage(isCallback) ==
  /\ user' = NoUser /\ status' = "checking" /\ gen' = 0
  /\ loading' = ~isCallback
  /\ oauth' = isCallback /\ leaving' = FALSE
  /\ task' = [t \in Task |-> IF t = First THEN
                [Idle EXCEPT !.at = IF isCallback THEN "oauth" ELSE "check",
                             !.sent = cookie'] ELSE Idle]
  /\ overtaken' = {}

Init ==
  /\ user = NoUser /\ status = "checking" /\ loading = TRUE /\ gen = 0
  /\ owner \in [Session -> User \cup {NoUser}]
  /\ cookie \in {s \in Session : owner[s] # NoUser} \cup {NoSession}
  /\ task = [[t \in Task |-> Idle] EXCEPT ![First] = [Idle EXCEPT !.at = "check",
                                                           !.sent = cookie]]
  /\ leaving = FALSE /\ oauth = FALSE /\ overtaken = {}

-----------------------------------------------------------------------------
(* The server: what each request does to user_sessions, and its answer.    *)

\* The server has decided: the cookie that was sent no longer matters.
Answer(t, a, token) ==
  task' = [task EXCEPT ![t] = [@ EXCEPT !.answer = a, !.token = token,
                                      !.sent = NoSession]]

\* Network loss, a timeout or a 5xx: the request may have been served or not.
Outage(t) == Answer(t, "down", NoSession)

Unanswered(t, calls) == task[t].at \in calls /\ task[t].answer = "none"

Reach(t) == IF task[t].sent = NoSession THEN NoUser ELSE owner[task[t].sent]

\* GET /auth/me, POST /me/onboarding/complete: the row of the token decides.  A
\* proxy may also answer 200 with something that is no user.
ServeMe(t) ==
  /\ Unanswered(t, {"check", "confirm", "onboarding"})
  /\ \/ Answer(t, IF Reach(t) = NoUser THEN "refused" ELSE Reach(t), NoSession)
     \/ Answer(t, "invalid", NoSession)
     \/ Outage(t)
  /\ UNCHANGED <<provider, cookie, owner, page, overtaken>>

\* A new token equals none that still matters.
Fresh == {s \in Session : /\ owner[s] = NoUser /\ cookie # s
                          /\ \A t \in Task : s \notin {task[t].sent, task[t].token}}

\* POST /auth/login and /auth/session: a new row for the user, or a refusal.
ServeLogin(t) ==
  /\ Unanswered(t, {"login", "oauth"})
  /\ \/ /\ \E s \in Fresh, u \in User :
             /\ task[t].at = "login" => u = task[t].who
             /\ owner' = [owner EXCEPT ![s] = u]
             /\ \/ Answer(t, u, s)
                \/ Outage(t)
     \/ /\ Answer(t, "refused", NoSession) \/ Outage(t)
        /\ UNCHANGED owner
  /\ UNCHANGED <<provider, cookie, page, overtaken>>

\* POST /auth/logout deletes the row of the token; /auth/logout-all, which
\* wants a session, every row of its user.
ServeLogout(t) ==
  /\ Unanswered(t, {"logout", "logoutAll"})
  /\ LET u == Reach(t)
         gone == IF task[t].at = "logout" THEN {task[t].sent}
                 ELSE {s \in Session : u # NoUser /\ owner[s] = u}
     IN \/ /\ owner' = [s \in Session |-> IF s \in gone THEN NoUser ELSE owner[s]]
           /\ \/ Answer(t, IF task[t].at = "logoutAll" /\ u = NoUser THEN "refused"
                           ELSE "done", NoSession)
              \/ Outage(t)
        \/ Outage(t) /\ UNCHANGED owner
  /\ UNCHANGED <<provider, cookie, page, overtaken>>

\* A session expires, or another device revokes it.
LoseSession ==
  /\ \E s \in Session : owner[s] # NoUser /\ owner' = [owner EXCEPT ![s] = NoUser]
  /\ UNCHANGED <<provider, task, cookie, page, overtaken>>

-----------------------------------------------------------------------------
(* checkAuth: the mount effect, refresh of a view, retry of ProtectedRoute. *)

StartCheck(t) ==
  /\ ~Pending(t)
  /\ user # NoUser \/ status = "error"
  /\ task' = [task EXCEPT ![t] = CheckFrom(gen)]
  /\ overtaken' = overtaken \ {t}
  /\ UNCHANGED <<provider, cookie, owner, page>>

\* A transient failure is tried again after a pause, unless a newer sign-in or
\* logout began or three attempts have failed.
Retries(t) == task[t].answer = "down" /\ task[t].attempt < MaxAttempts

CheckAgain(t) ==
  /\ Heard(t, "check") /\ Retries(t) /\ ~IsStale(t)
  /\ task' = [task EXCEPT ![t] = [@ EXCEPT !.at = "pause", !.answer = "none"]]
  /\ UNCHANGED <<provider, cookie, owner, page, overtaken>>

CheckAfterPause(t) ==
  /\ task[t].at = "pause"
  /\ task' = [task EXCEPT ![t] = [Calling(t, "check") EXCEPT !.attempt = @ + 1]]
  /\ UNCHANGED <<provider, cookie, owner, page, overtaken>>

\* The answer of an overtaken check is discarded, loading and all.
CheckDiscarded(t) ==
  /\ Heard(t, "check") /\ IsStale(t)
  /\ End(t)
  /\ UNCHANGED <<provider, cookie, owner, page, overtaken>>

\* Mutant: an outage clears the identity as a 401 does.
ReduceForgetful(a) ==
  IF a \in User THEN ApplyIdentity(a) ELSE ClearIdentity("anonymous")

\* reduceAuthCheck, and applyIdentity for a valid user: a transient failure
\* keeps the identity there is, a 401 or an invalid user clears it.
Reduce(a) ==
  \/ a \in User /\ ApplyIdentity(a)
  \/ a \in {"refused", "invalid"} /\ ClearIdentity("anonymous")
  \/ /\ a = "down"
     /\ IF user # NoUser THEN status' = "authenticated" /\ UNCHANGED user
        ELSE ClearIdentity("error")

CheckConcludes(t) ==
  /\ Heard(t, "check") /\ ~Retries(t) /\ ~IsStale(t)
  /\ Reduce(task[t].answer)
  /\ loading' = FALSE
  /\ End(t)
  /\ UNCHANGED <<gen, cookie, owner, page, overtaken>>

-----------------------------------------------------------------------------
(* signInWithPassword and the logouts.                                     *)

\* authGen.bump(): whoever is pending has been overtaken.
Bump ==
  /\ gen' = gen + 1
  /\ overtaken' = {t \in Task : Pending(t)}

StartSignIn(t, u) ==
  /\ ~Pending(t) /\ gen < MaxGen
  /\ user = NoUser /\ ~leaving
  /\ Bump
  /\ task' = [task EXCEPT ![t] = [Idle EXCEPT !.at = "login", !.gen = gen + 1,
                                             !.who = u, !.sent = cookie]]
  /\ UNCHANGED <<user, status, loading, cookie, owner, page>>

\* The credentials were accepted and the attempt is current: confirm the cookie.
SignInConfirms(t) ==
  /\ Heard(t, "login") /\ task[t].answer \in User /\ ~IsStale(t)
  /\ cookie' = task[t].token
  /\ task' = [task EXCEPT ![t] = [@ EXCEPT !.at = "confirm", !.answer = "none",
                                      !.sent = task[t].token, !.token = NoSession]]
  /\ UNCHANGED <<provider, owner, page, overtaken>>

\* An overtaken attempt ends in AUTH_STALE, whatever it was told.
SignInDiscarded(t) ==
  /\ Heard(t, "login") \/ Heard(t, "confirm")
  /\ IsStale(t)
  /\ StoreCookie(t)
  /\ End(t)
  /\ UNCHANGED <<provider, owner, page, overtaken>>

\* Mutant: the generation is not looked at again after the confirmation.
SignInSucceedsLate(t) ==
  /\ Heard(t, "confirm") /\ task[t].answer = task[t].who
  /\ ApplyIdentity(task[t].who)
  /\ loading' = FALSE
  /\ End(t)
  /\ UNCHANGED <<gen, cookie, owner, page, overtaken>>

SignInSucceeds(t) ==
  /\ Heard(t, "confirm") /\ task[t].answer = task[t].who /\ ~IsStale(t)
  /\ ApplyIdentity(task[t].who)
  /\ loading' = FALSE
  /\ End(t)
  /\ UNCHANGED <<gen, cookie, owner, page, overtaken>>

\* Mutant: a failed attempt only reports its error.
SignInFailsQuietly(t) ==
  /\ \/ Heard(t, "login") /\ task[t].answer \notin User
     \/ Heard(t, "confirm") /\ task[t].answer # task[t].who
  /\ ~IsStale(t)
  /\ End(t)
  /\ UNCHANGED <<provider, cookie, owner, page, overtaken>>

\* A failed attempt that is current resolves the real session with a check (R1).
SignInFails(t) ==
  /\ \/ Heard(t, "login") /\ task[t].answer \notin User
     \/ Heard(t, "confirm") /\ task[t].answer # task[t].who
  /\ ~IsStale(t)
  /\ task' = [task EXCEPT ![t] = CheckFrom(gen)]
  /\ UNCHANGED <<provider, cookie, owner, page, overtaken>>

StartLogout(t) ==
  /\ ~Pending(t) /\ gen < MaxGen
  /\ user # NoUser /\ ~leaving
  /\ Bump
  /\ task' = [task EXCEPT ![t] = [Idle EXCEPT !.at = "logout", !.gen = gen + 1,
                                             !.sent = cookie]]
  /\ UNCHANGED <<user, status, loading, cookie, owner, page>>

\* The state is cleared even if the POST failed; the page then goes to "/".
LogoutConcludes(t) ==
  /\ Heard(t, "logout")
  /\ cookie' = IF task[t].answer = "done" THEN NoSession ELSE cookie
  /\ ClearIdentity("anonymous")
  /\ leaving' = TRUE
  /\ End(t)
  /\ UNCHANGED <<loading, gen, owner, oauth, overtaken>>

StartLogoutAll(t) ==
  /\ ~Pending(t) /\ gen < MaxGen
  /\ user # NoUser /\ ~leaving
  /\ Send(t, "logoutAll")
  /\ overtaken' = overtaken \ {t}
  /\ UNCHANGED <<provider, cookie, owner, page>>

\* Revoke on the server first: the generation moves only after it succeeded.
LogoutAllConcludes(t) ==
  /\ Heard(t, "logoutAll") /\ task[t].answer = "done"
  /\ gen < MaxGen
  /\ gen' = gen + 1
  /\ overtaken' = {x \in Task \ {t} : Pending(x)}
  /\ cookie' = NoSession
  /\ ClearIdentity("anonymous")
  /\ leaving' = TRUE
  /\ End(t)
  /\ UNCHANGED <<loading, owner, oauth>>

LogoutAllFails(t) ==
  /\ Heard(t, "logoutAll") /\ task[t].answer # "done"
  /\ End(t)
  /\ UNCHANGED <<provider, cookie, owner, page, overtaken>>

-----------------------------------------------------------------------------
(* The OAuth callback and the onboarding dialog.                           *)

\* commitSession: the bump comes with the identity, after the answer.
CallbackCommits(t) ==
  /\ Heard(t, "oauth") /\ task[t].answer \in User /\ gen < MaxGen
  /\ gen' = gen + 1
  /\ overtaken' = {x \in Task \ {t} : Pending(x)}
  /\ StoreCookie(t)
  /\ ApplyIdentity(task[t].answer)
  /\ loading' = FALSE
  /\ End(t)
  /\ UNCHANGED <<owner, page>>

\* A refused callback navigates to "/" inside the page and settles nothing.
CallbackFails(t) ==
  /\ Heard(t, "oauth") /\ task[t].answer \notin User
  /\ End(t)
  /\ UNCHANGED <<provider, cookie, owner, page, overtaken>>

\* The dialog keeps the user of the render it was shown in.
StartOnboarding(t) ==
  /\ ~Pending(t) /\ user # NoUser
  /\ task' = [task EXCEPT ![t] = [Idle EXCEPT !.at = "onboarding", !.gen = gen,
                                             !.who = user, !.sent = cookie]]
  /\ overtaken' = overtaken \ {t}
  /\ UNCHANGED <<provider, cookie, owner, page>>

\* Mutant: the patch leaves the status as it is.
OnboardingDoneRaw(t) ==
  /\ Heard(t, "onboarding")
  /\ user' = task[t].who
  /\ End(t)
  /\ UNCHANGED <<status, loading, gen, cookie, owner, page, overtaken>>

\* setUser, after a success and after a failure alike: no generation is looked at.
OnboardingDone(t) ==
  /\ Heard(t, "onboarding")
  /\ ApplyIdentity(task[t].who)
  /\ End(t)
  /\ UNCHANGED <<loading, gen, cookie, owner, page, overtaken>>

-----------------------------------------------------------------------------
(* The page: it goes to "/" after a logout, and comes back from a sign-in  *)
(* with Google.                                                            *)

Leave ==
  /\ leaving
  /\ UNCHANGED <<cookie, owner>>
  /\ FreshPage(FALSE)

\* The server's own callback answers with a redirect to a fresh page, which after
\* a success brings the cookie of a new session.
GoogleReturns ==
  /\ user = NoUser /\ ~loading /\ ~leaving
  /\ \/ \E s \in Fresh, u \in User :
          cookie' = s /\ owner' = [owner EXCEPT ![s] = u]
     \/ UNCHANGED <<cookie, owner>>
  /\ FreshPage(FALSE)

\* The earlier bridge, which the page still serves: it opens with the session_id
\* in its address and exchanges it itself, by POST /auth/session.
OpenCallback ==
  /\ user = NoUser /\ ~loading /\ ~leaving /\ ~oauth
  /\ UNCHANGED <<cookie, owner>>
  /\ FreshPage(TRUE)

Serve == \E t \in Task : ServeMe(t) \/ ServeLogin(t) \/ ServeLogout(t)

\* The tab hears an answer or resumes after a pause.
Resume(t) ==
  \/ CheckAgain(t) \/ CheckAfterPause(t) \/ CheckDiscarded(t)
  \/ CheckConcludes(t)
  \/ SignInConfirms(t) \/ SignInDiscarded(t) \/ SignInSucceeds(t)
  \/ SignInFails(t)
  \/ LogoutConcludes(t) \/ LogoutAllConcludes(t) \/ LogoutAllFails(t)
  \/ CallbackCommits(t) \/ CallbackFails(t)
  \/ OnboardingDone(t)

Act ==
  \E t \in Task : \/ StartCheck(t) \/ StartLogout(t) \/ StartLogoutAll(t)
                  \/ StartOnboarding(t)
                  \/ \E u \in User : StartSignIn(t, u)

Next ==
  \/ \E t \in Task : Resume(t)
  \/ Serve \/ Act \/ Leave \/ GoogleReturns \/ OpenCallback \/ LoseSession

Spec == Init /\ [][Next]_vars

\* Every request ends in an answer or an error, timers fire, and the event loop
\* runs what was heard; the user owes nothing, and the assigned location loads.
FairSpec ==
  /\ Spec
  /\ \A t \in Task : WF_vars(Resume(t))
  /\ \A t \in Task : WF_vars(ServeMe(t) \/ ServeLogin(t) \/ ServeLogout(t))
  /\ WF_vars(Leave)

-----------------------------------------------------------------------------
Calls == {"idle", "check", "pause", "login", "confirm", "logout", "logoutAll",
          "oauth", "onboarding"}

\* Type invariant; and a page is authenticated exactly when it shows a user.
TypeOK ==
  /\ user \in User \cup {NoUser}
  /\ status \in {"checking", "authenticated", "anonymous", "error"}
  /\ (status = "authenticated") <=> (user # NoUser)
  /\ loading \in BOOLEAN /\ leaving \in BOOLEAN /\ oauth \in BOOLEAN
  /\ gen \in 0..MaxGen
  /\ \A t \in Task :
       /\ task[t].at \in Calls
       /\ task[t].gen \in 0..gen
       /\ task[t].attempt \in 1..MaxAttempts
       /\ task[t].who \in User \cup {NoUser}
       /\ task[t].sent \in Session \cup {NoSession}
       /\ task[t].answer \in Answers \cup {"none"}
       /\ task[t].token \in Session \cup {NoSession}
  /\ cookie \in Session \cup {NoSession}
  /\ owner \in [Session -> User \cup {NoUser}]
  /\ overtaken \subseteq Task

Guarded == {"check", "pause", "login", "confirm"}

\* AUTH-01, R2: what a check or a sign-in hears after a newer sign-in or logout
\* began changes neither the identity nor the status, however many awaits it
\* went through in between.
OvertakenNeverSpeaks ==
  [][\A t \in overtaken :
       task[t].at \in Guarded /\ Resume(t) => UNCHANGED <<user, status, loading>>]_vars

\* AUTH-02: a shown identity goes away only with a logout, or because the server
\* answered the last check with a 401 or with no user; an outage never drops it.
IdentityDroppedForCause ==
  [][user # NoUser /\ user' = NoUser =>
       \/ leaving'
       \/ leaving
       \/ \E t \in Task : /\ Heard(t, "check")
                          /\ task[t].answer \in {"refused", "invalid"}
                          /\ ~IsStale(t)]_vars

Settled == ~loading /\ status # "checking"

\* R1: a page not opened at the callback always settles again, whatever failed
\* and whoever overtook whom: no protected route loads for ever.
AlwaysSettles == []<>(Settled \/ oauth)

\* The comment of setUser, AuthContext.jsx:74: it patches an identity that is
\* already there.
PatchedInPlace ==
  [][\A t \in Task : OnboardingDone(t) => user = task[t].who]_vars
=============================================================================

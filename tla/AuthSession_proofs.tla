-------------------------- MODULE AuthSession_proofs --------------------------
(***************************************************************************)
(* For any number of pending functions, users, sessions and generations:   *)
(* what a check or a sign-in hears after it was overtaken changes nothing  *)
(* (OvertakenNeverSpeaks), and an identity that is shown goes away only    *)
(* for a cause (IdentityDroppedForCause).  The first rests on where the    *)
(* generation of an overtaken function can be: below the current one, and  *)
(* no step of its own brings it up again.                                  *)
(***************************************************************************)
EXTENDS AuthSession, TLAPS

Awaiting ==
  [at : Calls, gen : 0..MaxGen, attempt : 1..MaxAttempts, who : User \cup {NoUser},
   sent : Session \cup {NoSession}, answer : Answers \cup {"none"},
   token : Session \cup {NoSession}]

\* What a function at this await must have in its locals.
Sound(r) ==
  /\ r.at \in {"login", "confirm", "onboarding"} => r.who \in User
  /\ r.at = "pause" => r.attempt < MaxAttempts
  /\ r.gen <= gen

\* An overtaken check or sign-in holds an older generation.
Overtaken == \A t \in overtaken : task[t].at \in Guarded => task[t].gen < gen

Provider ==
  /\ user \in User \cup {NoUser}
  /\ status \in {"checking", "authenticated", "anonymous", "error"}
  /\ (status = "authenticated") <=> (user # NoUser)
  /\ loading \in BOOLEAN /\ leaving \in BOOLEAN /\ oauth \in BOOLEAN

Jar == /\ cookie \in Session \cup {NoSession}
       /\ owner \in [Session -> User \cup {NoUser}]

IInv ==
  /\ Provider /\ Jar
  /\ gen \in 0..MaxGen
  /\ task \in [Task -> Awaiting]
  /\ \A t \in Task : Sound(task[t])
  /\ overtaken \subseteq Task
  /\ Overtaken

-----------------------------------------------------------------------------
\* A step of one function, which goes on as r.
LEMMA TaskStep ==
  ASSUME IInv, NEW t \in Task, NEW r \in Awaiting, task' = [task EXCEPT ![t] = r],
         Sound(r)', Provider', Jar',
         gen' \in 0..MaxGen, gen' = gen \/ gen' = gen + 1,
         overtaken' \subseteq Task,
         \A x \in overtaken' \ {t} : x \in overtaken \/ gen' = gen + 1,
         t \in overtaken' => r.at \notin Guarded \/ r.gen < gen'
  PROVE  IInv'
<1>1. \A x \in Task : task'[x] = IF x = t THEN r ELSE task[x]
  BY DEF IInv
<1>2. task' \in [Task -> Awaiting]
  BY DEF IInv
<1>3. \A x \in Task : task[x].gen \in 0..MaxGen
  BY DEF IInv, Awaiting
<1>4. \A x \in Task : Sound(task[x])'
  BY <1>1, <1>3 DEF IInv, Sound
<1>5. Overtaken'
  BY <1>1, <1>3 DEF IInv, Overtaken, Sound
<1> QED  BY <1>2, <1>4, <1>5 DEF IInv

\* The server changes neither the page nor where a function awaits.
LEMMA AnswerStep ==
  ASSUME IInv, NEW t \in Task, NEW a \in Answers, NEW s \in Session \cup {NoSession},
         Answer(t, a, s), UNCHANGED <<provider, cookie, page, overtaken>>,
         owner' \in [Session -> User \cup {NoUser}]
  PROVE  IInv'
<1> DEFINE r == [task[t] EXCEPT !.answer = a, !.token = s, !.sent = NoSession]
<1>1. task[t] \in Awaiting /\ Sound(task[t])
  BY DEF IInv
<1>2. PICK q : q = r
  OBVIOUS
<1>3. /\ q \in Awaiting /\ q.at = task[t].at /\ q.gen = task[t].gen
      /\ q.who = task[t].who /\ q.attempt = task[t].attempt
  BY <1>1, <1>2 DEF Awaiting
<1>4. task' = [task EXCEPT ![t] = q]
  BY <1>2 DEF Answer
<1>5. Sound(q)'
  BY <1>1, <1>3 DEF Sound, provider
<1>6. Provider' /\ Jar' /\ gen' = gen /\ overtaken' = overtaken
  BY DEF IInv, Provider, Jar, provider, page
<1> QED  BY <1>3, <1>4, <1>5, <1>6, TaskStep DEF IInv, Overtaken

LEMMA IdleSound ==
  ASSUME AuthAssumption
  PROVE  Idle \in Awaiting /\ Idle.at = "idle" /\ Idle.gen = 0
BY DEF Idle, Awaiting, Calls, Answers, MaxAttempts, AuthAssumption

\* A check starts with the cookie and the generation of now.
LEMMA CheckSound ==
  ASSUME cookie \in Session \cup {NoSession}, gen \in 0..MaxGen,
         NEW r, r = CheckFrom(gen)
  PROVE  r \in Awaiting /\ r.at = "check" /\ r.gen = gen
<1>1. PICK g, s : g = gen /\ s = cookie
  OBVIOUS
<1>2. r = [Idle EXCEPT !.at = "check", !.gen = g, !.sent = s]
  BY <1>1 DEF CheckFrom
<1>3. g \in 0..MaxGen /\ s \in Session \cup {NoSession} /\ "check" \in Calls
  BY <1>1 DEF Calls
<1>4. Idle \in Awaiting
  BY IdleSound, AuthAssumption
<1>5. r \in Awaiting /\ r.at = "check" /\ r.gen = g
  BY <1>2, <1>3, <1>4 DEF Awaiting
<1> QED  BY <1>1, <1>5

LEMMA ServeStep ==
  ASSUME IInv, Serve \/ LoseSession
  PROVE  IInv'
<1>0. {"refused", "invalid", "down", "done"} \cup User \subseteq Answers
  BY DEF Answers
<1>1. ASSUME NEW t \in Task, ServeMe(t) PROVE IInv'
  <2>1. /\ Reach(t) \in User \cup {NoUser}
        /\ UNCHANGED <<provider, cookie, page, overtaken, owner>>
    BY <1>1 DEF ServeMe, Reach, IInv, Awaiting, Jar
  <2>2. \E a \in Answers : Answer(t, a, NoSession)
    BY <1>0, <1>1, <2>1 DEF ServeMe, Outage
  <2> QED  BY <2>1, <2>2, AnswerStep DEF IInv, Jar
<1>2. ASSUME NEW t \in Task, ServeLogin(t) PROVE IInv'
  <2>1. /\ owner' \in [Session -> User \cup {NoUser}]
        /\ UNCHANGED <<provider, cookie, page, overtaken>>
    BY <1>2 DEF ServeLogin, IInv, Jar
  <2>2. \E a \in Answers, s \in Session \cup {NoSession} : Answer(t, a, s)
    BY <1>0, <1>2 DEF ServeLogin, Outage, Fresh
  <2> QED  BY <2>1, <2>2, AnswerStep
<1>3. ASSUME NEW t \in Task, ServeLogout(t) PROVE IInv'
  <2>1. /\ owner' \in [Session -> User \cup {NoUser}]
        /\ UNCHANGED <<provider, cookie, page, overtaken>>
    BY <1>3 DEF ServeLogout, IInv, Jar
  <2>2. \E a \in Answers : Answer(t, a, NoSession)
    BY <1>0, <1>3 DEF ServeLogout, Outage
  <2> QED  BY <2>1, <2>2, AnswerStep
<1>4. CASE LoseSession
  BY <1>4 DEF LoseSession, IInv, Jar, Provider, Sound, Overtaken, provider, page
<1> QED  BY <1>1, <1>2, <1>3, <1>4 DEF Serve

\* A check is sent, tried again, or discarded.
LEMMA CheckStep ==
  ASSUME IInv, NEW t \in Task,
         StartCheck(t) \/ CheckAgain(t) \/ CheckAfterPause(t) \/ CheckDiscarded(t)
  PROVE  IInv'
<1> USE AuthAssumption
<1>1. task[t] \in Awaiting /\ Sound(task[t])
  BY DEF IInv
<1>2. /\ Provider' /\ Jar' /\ gen' = gen /\ gen \in 0..MaxGen
      /\ overtaken' \subseteq overtaken
  BY DEF StartCheck, CheckAgain, CheckAfterPause, CheckDiscarded, IInv, Provider,
     Jar, provider, page
<1>3. CASE StartCheck(t)
  <2>1. PICK r : r = CheckFrom(gen)
    OBVIOUS
  <2>2. /\ r \in Awaiting /\ r.at = "check" /\ r.gen = gen
    BY <1>2, <2>1, CheckSound DEF IInv, Jar
  <2>3. task' = [task EXCEPT ![t] = r] /\ t \notin overtaken'
    BY <1>3, <2>1 DEF StartCheck
  <2>4. Sound(r)'
    BY <1>2, <2>2 DEF Sound
  <2> QED  BY <1>2, <2>2, <2>3, <2>4, TaskStep DEF IInv
<1>4. CASE CheckAgain(t)
  <2>1. PICK r : r = [task[t] EXCEPT !.at = "pause", !.answer = "none"]
    OBVIOUS
  <2>2. /\ r \in Awaiting /\ r.at = "pause" /\ r.gen = task[t].gen
        /\ r.attempt = task[t].attempt /\ task[t].at = "check"
        /\ task[t].attempt < MaxAttempts
    BY <1>1, <1>4, <2>1 DEF Awaiting, Calls, CheckAgain, Retries, Heard
  <2>3. task' = [task EXCEPT ![t] = r]
    BY <1>4, <2>1 DEF CheckAgain
  <2>4. Sound(r)'
    BY <1>1, <1>2, <2>2 DEF Sound
  <2> QED  BY <1>2, <2>2, <2>3, <2>4, TaskStep DEF IInv, Overtaken, Guarded
<1>5. CASE CheckAfterPause(t)
  <2>1. PICK r : r = [Calling(t, "check") EXCEPT !.attempt = @ + 1]
    OBVIOUS
  <2>2. task[t].at = "pause" /\ task[t].attempt < MaxAttempts
    BY <1>1, <1>5 DEF CheckAfterPause, Sound
  <2>3. /\ r \in Awaiting /\ r.at = "check" /\ r.gen = task[t].gen
    <3>1. PICK c : c = Calling(t, "check")
      OBVIOUS
    <3>2. /\ c \in Awaiting /\ c.at = "check" /\ c.gen = task[t].gen
          /\ c.attempt = task[t].attempt
      BY <1>1, <3>1 DEF Calling, Awaiting, Calls, IInv, Jar
    <3>3. c.attempt + 1 \in 1..MaxAttempts
      BY <1>1, <2>2, <3>2 DEF Awaiting, MaxAttempts
    <3>4. r = [c EXCEPT !.attempt = c.attempt + 1]
      BY <2>1, <3>1
    <3> QED  BY <3>2, <3>3, <3>4 DEF Awaiting
  <2>4. task' = [task EXCEPT ![t] = r]
    BY <1>5, <2>1 DEF CheckAfterPause
  <2>5. Sound(r)'
    BY <1>1, <1>2, <2>3 DEF Sound
  <2> QED  BY <1>2, <2>2, <2>3, <2>4, <2>5, TaskStep DEF IInv, Overtaken, Guarded
<1>6. CASE CheckDiscarded(t)
  <2>1. task' = [task EXCEPT ![t] = Idle]
    BY <1>6 DEF CheckDiscarded, End
  <2>2. Sound(Idle)'
    BY <1>2, IdleSound DEF Sound
  <2> QED  BY <1>2, <2>1, <2>2, IdleSound, TaskStep DEF IInv, Guarded
<1> QED  BY <1>3, <1>4, <1>5, <1>6

\* A function ends; the page shows what it says.
LEMMA EndStep ==
  ASSUME IInv, NEW t \in Task, End(t), Provider', Jar',
         gen' \in 0..MaxGen, gen' = gen \/ gen' = gen + 1,
         overtaken' \subseteq Task,
         \A x \in overtaken' \ {t} : x \in overtaken \/ gen' = gen + 1
  PROVE  IInv'
<1>1. Sound(Idle)'
  BY IdleSound, AuthAssumption DEF Sound
<1> QED  BY <1>1, IdleSound, AuthAssumption, TaskStep DEF End, Guarded

LEMMA ConcludeStep ==
  ASSUME IInv, NEW t \in Task,
         \/ CheckConcludes(t) \/ SignInDiscarded(t) \/ SignInSucceeds(t)
         \/ LogoutConcludes(t) \/ LogoutAllConcludes(t) \/ LogoutAllFails(t)
         \/ CallbackCommits(t) \/ CallbackFails(t) \/ OnboardingDone(t)
  PROVE  IInv'
<1> USE AuthAssumption
<1>1. task[t] \in Awaiting /\ Sound(task[t]) /\ gen \in 0..MaxGen /\ MaxGen \in Nat
  BY DEF IInv, AuthAssumption
<1>2. End(t)
  BY DEF CheckConcludes, SignInDiscarded, SignInSucceeds, LogoutConcludes,
     LogoutAllConcludes, LogoutAllFails, CallbackCommits, CallbackFails,
     OnboardingDone
<1>3. Jar'
  BY <1>1 DEF CheckConcludes, SignInDiscarded, SignInSucceeds, LogoutConcludes,
     LogoutAllConcludes, LogoutAllFails, CallbackCommits, CallbackFails,
     OnboardingDone, StoreCookie, IInv, Jar, Awaiting
<1>4. /\ gen' \in 0..MaxGen /\ (gen' = gen \/ gen' = gen + 1)
      /\ overtaken' \subseteq Task
      /\ gen' = gen + 1 \/ overtaken' = overtaken
  BY <1>1 DEF CheckConcludes, SignInDiscarded, SignInSucceeds, LogoutConcludes,
     LogoutAllConcludes, LogoutAllFails, CallbackCommits, CallbackFails,
     OnboardingDone, IInv, provider
<1>5. Provider'
  <2>1. CASE CheckConcludes(t)
    BY <2>1 DEF CheckConcludes, Reduce, ApplyIdentity, ClearIdentity, IInv, Provider,
       page, AuthAssumption
  <2>2. CASE SignInSucceeds(t) \/ OnboardingDone(t)
    <3>1. task[t].who \in User
      BY <1>1, <2>2 DEF SignInSucceeds, OnboardingDone, Heard, Sound
    <3> QED  BY <2>2, <3>1 DEF SignInSucceeds, OnboardingDone, ApplyIdentity, IInv,
                Provider, page, AuthAssumption
  <2>3. CASE CallbackCommits(t)
    BY <2>3 DEF CallbackCommits, ApplyIdentity, IInv, Provider, page, AuthAssumption
  <2>4. CASE LogoutConcludes(t) \/ LogoutAllConcludes(t)
    BY <2>4 DEF LogoutConcludes, LogoutAllConcludes, ClearIdentity, IInv, Provider
  <2>5. CASE SignInDiscarded(t) \/ LogoutAllFails(t) \/ CallbackFails(t)
    BY <2>5 DEF SignInDiscarded, LogoutAllFails, CallbackFails, IInv, Provider,
       provider, page
  <2> QED  BY <2>1, <2>2, <2>3, <2>4, <2>5
<1> QED  BY <1>2, <1>3, <1>4, <1>5, EndStep

\* A sign-in, a logout or the onboarding dialog is sent or goes on.
LEMMA CallStep ==
  ASSUME IInv, NEW t \in Task,
         \/ SignInConfirms(t) \/ SignInFails(t)
         \/ StartLogout(t) \/ StartLogoutAll(t) \/ StartOnboarding(t)
         \/ \E u \in User : StartSignIn(t, u)
  PROVE  IInv'
<1> USE AuthAssumption DEF AuthAssumption
<1>1. task[t] \in Awaiting /\ Sound(task[t]) /\ gen \in 0..MaxGen /\ MaxGen \in Nat
  BY DEF IInv
<1>2. Provider'
  BY DEF SignInConfirms, SignInFails, StartLogout, StartLogoutAll, StartOnboarding,
     StartSignIn, IInv, Provider, provider, page
<1>3. Jar'
  BY <1>1 DEF SignInConfirms, SignInFails, StartLogout, StartLogoutAll,
     StartOnboarding, StartSignIn, IInv, Jar, Awaiting
<1>4. CASE SignInConfirms(t)
  <2>1. PICK r : r = [task[t] EXCEPT !.at = "confirm", !.answer = "none",
                               !.sent = task[t].token, !.token = NoSession]
    OBVIOUS
  <2>2. /\ r \in Awaiting /\ r.at = "confirm" /\ r.gen = task[t].gen
        /\ r.who = task[t].who /\ task[t].at = "login"
    BY <1>1, <1>4, <2>1 DEF Awaiting, Calls, SignInConfirms, Heard
  <2>3. /\ task' = [task EXCEPT ![t] = r] /\ gen' = gen /\ overtaken' = overtaken
    BY <1>4, <2>1 DEF SignInConfirms, provider
  <2>4. Sound(r)'
    BY <1>1, <2>2, <2>3 DEF Sound
  <2> QED  BY <1>1, <1>2, <1>3, <2>2, <2>3, <2>4, TaskStep DEF IInv, Overtaken, Guarded
<1>5. CASE SignInFails(t)
  <2>1. PICK r : r = CheckFrom(gen)
    OBVIOUS
  <2>2. r \in Awaiting /\ r.at = "check" /\ r.gen = gen
    BY <1>1, <2>1, CheckSound DEF IInv, Jar
  <2>3. /\ task' = [task EXCEPT ![t] = r] /\ gen' = gen /\ overtaken' = overtaken
    BY <1>5, <2>1 DEF SignInFails, provider
  <2>4. Sound(r)'
    BY <1>1, <2>2, <2>3 DEF Sound
  <2>5. t \notin overtaken
    BY <1>1, <1>5 DEF SignInFails, Heard, IsStale, IInv, Overtaken, Guarded, Awaiting
  <2> QED  BY <1>1, <1>2, <1>3, <2>2, <2>3, <2>4, <2>5, TaskStep DEF IInv
<1>6. CASE StartLogout(t) \/ \E u \in User : StartSignIn(t, u)
  <2>1. PICK r : /\ task' = [task EXCEPT ![t] = r]
                 /\ \/ r = [Idle EXCEPT !.at = "logout", !.gen = gen + 1,
                                        !.sent = cookie]
                    \/ \E u \in User :
                         r = [Idle EXCEPT !.at = "login", !.gen = gen + 1,
                                          !.who = u, !.sent = cookie]
    BY <1>6 DEF StartLogout, StartSignIn
  <2>2. gen < MaxGen /\ Bump /\ ~Pending(t)
    BY <1>6 DEF StartLogout, StartSignIn
  <2>3. PICK g, s : g = gen + 1 /\ s = cookie
    OBVIOUS
  <2>4. /\ g \in 0..MaxGen /\ s \in Session \cup {NoSession}
        /\ {"logout", "login"} \subseteq Calls
    BY <1>1, <2>3, <2>2 DEF IInv, Jar, Calls
  <2>5. /\ r \in Awaiting /\ r.gen = g
        /\ (r.at = "logout" \/ (r.at = "login" /\ r.who \in User))
    <3>1. CASE r = [Idle EXCEPT !.at = "logout", !.gen = g, !.sent = s]
      <4>1. "logout" \in Calls
        BY <2>4
      <4> QED  BY <2>4, <3>1, <4>1, IdleSound DEF Awaiting
    <3>2. ASSUME NEW u \in User,
                 r = [Idle EXCEPT !.at = "login", !.gen = g, !.who = u, !.sent = s]
          PROVE  /\ r \in Awaiting /\ r.gen = g
                 /\ r.at = "login" /\ r.who \in User
      <4>1. "login" \in Calls /\ u \in User \cup {NoUser}
        BY <2>4
      <4>2. r \in Awaiting /\ r.at = "login" /\ r.gen = g /\ r.who = u
        BY <2>4, <3>2, <4>1, IdleSound DEF Awaiting
      <4> QED  BY <4>2
    <3> QED  BY <2>1, <2>3, <3>1, <3>2
  <2>6. Sound(r)'
    <3>1. gen' = g /\ g <= g
      BY <2>3, <2>2, <2>4 DEF Bump
    <3> QED  BY <2>5, <3>1 DEF Sound
  <2>7. /\ t \notin overtaken' /\ overtaken' \subseteq Task
        /\ gen' = gen + 1 /\ gen' \in 0..MaxGen
    BY <1>1, <2>2 DEF Bump
  <2> QED  BY <1>2, <1>3, <2>1, <2>3, <2>5, <2>6, <2>7, TaskStep
<1>7. CASE StartLogoutAll(t)
  <2>1. PICK r : r = Calling(t, "logoutAll")
    OBVIOUS
  <2>2. r \in Awaiting /\ r.at = "logoutAll" /\ r.gen = task[t].gen
    BY <1>1, <2>1 DEF Calling, Awaiting, Calls, IInv, Jar
  <2>3. /\ task' = [task EXCEPT ![t] = r] /\ gen' = gen
        /\ overtaken' = overtaken \ {t}
    BY <1>7, <2>1 DEF StartLogoutAll, Send, provider
  <2>4. Sound(r)'
    BY <1>1, <2>2, <2>3 DEF Sound
  <2> QED  BY <1>1, <1>2, <1>3, <2>2, <2>3, <2>4, TaskStep DEF IInv
<1>8. CASE StartOnboarding(t)
  <2>1. PICK r : r = [Idle EXCEPT !.at = "onboarding", !.gen = gen,
                               !.who = user, !.sent = cookie]
    OBVIOUS
  <2>2. r \in Awaiting /\ r.at = "onboarding" /\ r.gen = gen /\ r.who = user
    <3>1. PICK g, s, w : g = gen /\ s = cookie /\ w = user
      OBVIOUS
    <3>2. /\ g \in 0..MaxGen /\ s \in Session \cup {NoSession}
          /\ w \in User \cup {NoUser} /\ "onboarding" \in Calls
      BY <1>1, <3>1 DEF IInv, Jar, Provider, Calls
    <3>3. r = [Idle EXCEPT !.at = "onboarding", !.gen = g, !.who = w, !.sent = s]
      BY <2>1, <3>1
    <3>4. r \in Awaiting /\ r.at = "onboarding" /\ r.gen = g /\ r.who = w
      BY <3>2, <3>3, IdleSound DEF Awaiting
    <3> QED  BY <3>1, <3>4
  <2>3. /\ task' = [task EXCEPT ![t] = r] /\ gen' = gen
        /\ overtaken' = overtaken \ {t} /\ user \in User
    BY <1>8, <2>1 DEF StartOnboarding, provider, IInv, Provider
  <2>4. Sound(r)'
    BY <1>1, <2>2, <2>3 DEF Sound
  <2> QED  BY <1>1, <1>2, <1>3, <2>2, <2>3, <2>4, TaskStep DEF IInv
<1> QED  BY <1>4, <1>5, <1>6, <1>7, <1>8

LEMMA PageStep ==
  ASSUME IInv, Leave \/ GoogleReturns \/ OpenCallback
  PROVE  IInv'
<1>1. Jar'
  <2>1. CASE UNCHANGED <<cookie, owner>>
    BY <2>1 DEF IInv, Jar
  <2>2. CASE \E s \in Fresh, u \in User :
               cookie' = s /\ owner' = [owner EXCEPT ![s] = u]
    BY <2>2 DEF Fresh, IInv, Jar
  <2> QED  BY <2>1, <2>2 DEF Leave, GoogleReturns, OpenCallback
<1>2. FreshPage(TRUE) \/ FreshPage(FALSE)
  BY DEF Leave, GoogleReturns, OpenCallback
<1>3. gen' = 0 /\ 0 \in 0..MaxGen /\ overtaken' = {}
  BY <1>2, AuthAssumption DEF FreshPage, AuthAssumption
<1>4. Provider'
  <2>1. CASE FreshPage(TRUE)
    BY <2>1 DEF FreshPage, Provider
  <2>2. CASE FreshPage(FALSE)
    BY <2>2 DEF FreshPage, Provider
  <2> QED  BY <1>2, <2>1, <2>2
<1>5. PICK s, f, at : s = cookie' /\ f = task' /\ at = IF FreshPage(TRUE) THEN "oauth" ELSE "check"
  OBVIOUS
<1>6. f = [t \in Task |-> IF t = First THEN [Idle EXCEPT !.at = at, !.sent = s] ELSE Idle]
  <2>1. CASE FreshPage(TRUE)
    BY <1>5, <2>1 DEF FreshPage
  <2>2. CASE FreshPage(FALSE) /\ ~FreshPage(TRUE)
    BY <1>5, <2>2 DEF FreshPage
  <2> QED  BY <1>2, <2>1, <2>2
<1>7. at \in {"check", "oauth"} /\ s \in Session \cup {NoSession}
  BY <1>1, <1>5 DEF Jar
<1>8. /\ f \in [Task -> Awaiting]
      /\ \A t \in Task : f[t].at \in {"idle", "check", "oauth"} /\ f[t].gen = 0
  <2>1. PICK r : r = [Idle EXCEPT !.at = at, !.sent = s]
    OBVIOUS
  <2>2. r \in Awaiting /\ r.at = at /\ r.gen = 0
    BY <1>7, <2>1, IdleSound, AuthAssumption DEF Awaiting, Calls
  <2>3. f = [t \in Task |-> IF t = First THEN r ELSE Idle]
    BY <1>6, <2>1
  <2> QED  BY <1>7, <2>2, <2>3, IdleSound, AuthAssumption
<1>9. \A t \in Task : Sound(task[t])'
  BY <1>3, <1>5, <1>8 DEF Sound
<1> QED  BY <1>1, <1>3, <1>4, <1>5, <1>8, <1>9 DEF IInv, Overtaken

-----------------------------------------------------------------------------
(* The theorems                                                            *)

\* The provider's state, the awaits and the generations agree in every
\* interleaving of the tab's tasks.
THEOREM Invariance == Spec => []IInv
<1>1. Init => IInv
  <2> SUFFICES ASSUME Init PROVE IInv
    OBVIOUS
  <2>1. Provider /\ Jar
    BY DEF Init, Provider, Jar
  <2>2. task = [t \in Task |-> IF t = First
                  THEN [Idle EXCEPT !.at = "check", !.sent = cookie] ELSE Idle]
    BY DEF Init
  <2>3. task \in [Task -> Awaiting] /\ \A t \in Task : task[t].gen = 0
                                                     /\ task[t].at \in {"idle", "check"}
    <3>1. PICK s, f : s = cookie /\ f = task
      OBVIOUS
    <3>2. /\ f = [t \in Task |-> IF t = First
                    THEN [Idle EXCEPT !.at = "check", !.sent = s] ELSE Idle]
          /\ s \in Session \cup {NoSession}
      BY <2>1, <2>2, <3>1 DEF Jar
    <3>3. /\ f \in [Task -> Awaiting]
          /\ \A t \in Task : f[t].at \in {"idle", "check"} /\ f[t].gen = 0
      <4>1. PICK r : r = [Idle EXCEPT !.at = "check", !.sent = s]
        OBVIOUS
      <4>2. r \in Awaiting /\ r.at = "check" /\ r.gen = 0
        BY <3>2, <4>1, IdleSound, AuthAssumption DEF Awaiting, Calls
      <4>3. f = [t \in Task |-> IF t = First THEN r ELSE Idle]
        BY <3>2, <4>1
      <4> QED  BY <4>2, <4>3, IdleSound, AuthAssumption
    <3> QED  BY <3>1, <3>3
  <2>4. \A t \in Task : Sound(task[t])
    BY <2>3 DEF Sound, Init
  <2> QED  BY <2>1, <2>3, <2>4, AuthAssumption DEF Init, IInv, Overtaken,
              AuthAssumption
<1>2. IInv /\ [Next]_vars => IInv'
  <2> SUFFICES ASSUME IInv, [Next]_vars PROVE IInv'
    OBVIOUS
  <2>1. CASE \E t \in Task : Resume(t)
    BY <2>1, CheckStep, ConcludeStep, CallStep DEF Resume
  <2>2. CASE Act
    BY <2>2, CheckStep, CallStep DEF Act
  <2>3. CASE Serve \/ LoseSession
    BY <2>3, ServeStep
  <2>4. CASE Leave \/ GoogleReturns \/ OpenCallback
    BY <2>4, PageStep
  <2>5. CASE UNCHANGED vars
    BY <2>5 DEF vars, provider, page, IInv, Provider, Jar, Sound, Overtaken
  <2> QED  BY <2>1, <2>2, <2>3, <2>4, <2>5 DEF Next
<1> QED  BY <1>1, <1>2, PTL DEF Spec

\* The state of the page and of its functions is what the code expects.
THEOREM Typing == Spec => []TypeOK
<1>1. IInv => TypeOK
  BY DEF IInv, Provider, Jar, Sound, TypeOK, Awaiting
<1> QED  BY <1>1, Invariance, PTL

\* An overtaken check or sign-in changes nothing the page shows.
THEOREM OvertakenSilent == Spec => OvertakenNeverSpeaks
<1>1. ASSUME IInv, NEW t \in overtaken, task[t].at \in Guarded, Resume(t)
      PROVE  UNCHANGED <<user, status, loading>>
  <2>1. IsStale(t)
    BY <1>1 DEF IInv, Overtaken, IsStale, Awaiting
  <2>2. ~Heard(t, "logout") /\ ~Heard(t, "logoutAll") /\ ~Heard(t, "oauth")
          /\ ~Heard(t, "onboarding")
    BY <1>1 DEF Guarded, Heard
  <2>3. CheckAfterPause(t) \/ CheckDiscarded(t) \/ SignInDiscarded(t)
    BY <1>1, <2>1, <2>2 DEF Resume, CheckAgain, CheckConcludes, SignInConfirms,
       SignInSucceeds, SignInFails, LogoutConcludes, LogoutAllConcludes,
       LogoutAllFails, CallbackCommits, CallbackFails, OnboardingDone
  <2> QED  BY <2>3 DEF CheckAfterPause, CheckDiscarded, SignInDiscarded, provider
<1>2. IInv => [\A t \in overtaken :
        task[t].at \in Guarded /\ Resume(t) => UNCHANGED <<user, status, loading>>]_vars
  BY <1>1
<1> QED  BY <1>2, Invariance, PTL DEF OvertakenNeverSpeaks

\* An identity that is shown goes away with a logout or a negative answer only.
THEOREM DroppedForCause == Spec => IdentityDroppedForCause
<1>1. ASSUME IInv, Next, user # NoUser, user' = NoUser
      PROVE  \/ leaving' \/ leaving
             \/ \E t \in Task : /\ Heard(t, "check")
                                /\ task[t].answer \in {"refused", "invalid"}
                                /\ ~IsStale(t)
  <2>1. ASSUME NEW t \in Task, Resume(t)
        PROVE  \/ leaving'
               \/ Heard(t, "check") /\ task[t].answer \in {"refused", "invalid"}
                    /\ ~IsStale(t)
    <3>1. CASE CheckConcludes(t)
      BY <1>1, <3>1, AuthAssumption DEF CheckConcludes, Reduce, ApplyIdentity,
         ClearIdentity, AuthAssumption
    <3>2. CASE SignInSucceeds(t) \/ OnboardingDone(t)
      <4>1. task[t].who \in User
        BY <1>1, <3>2 DEF SignInSucceeds, OnboardingDone, Heard, IInv, Sound
      <4> QED  BY <1>1, <3>2, <4>1, AuthAssumption DEF SignInSucceeds, OnboardingDone,
                  ApplyIdentity, AuthAssumption
    <3>3. CASE CallbackCommits(t)
      BY <1>1, <3>3, AuthAssumption DEF CallbackCommits, ApplyIdentity, AuthAssumption
    <3>4. CASE LogoutConcludes(t) \/ LogoutAllConcludes(t)
      BY <3>4 DEF LogoutConcludes, LogoutAllConcludes
    <3>5. CASE UNCHANGED user
      BY <1>1, <3>5
    <3> QED  BY <2>1, <3>1, <3>2, <3>3, <3>4, <3>5 DEF Resume, CheckAgain,
                CheckAfterPause, CheckDiscarded, SignInConfirms, SignInDiscarded,
                SignInFails, LogoutAllFails, CallbackFails, provider
  <2>2. CASE Serve \/ Act \/ LoseSession
    BY <1>1, <2>2 DEF Serve, Act, LoseSession, ServeMe, ServeLogin, ServeLogout,
       StartCheck, StartLogout, StartLogoutAll, StartOnboarding, StartSignIn, provider
  <2>3. CASE Leave \/ GoogleReturns \/ OpenCallback
    BY <1>1, <2>3 DEF Leave, GoogleReturns, OpenCallback
  <2> QED  BY <1>1, <2>1, <2>2, <2>3 DEF Next
<1>2. IInv /\ [Next]_vars => [user # NoUser /\ user' = NoUser =>
       \/ leaving'
       \/ leaving
       \/ \E t \in Task : /\ Heard(t, "check")
                          /\ task[t].answer \in {"refused", "invalid"}
                          /\ ~IsStale(t)]_vars
  BY <1>1
<1> QED  BY <1>2, Invariance, PTL DEF Spec, IdentityDroppedForCause
=============================================================================

------------------------- MODULE CancelIntent_proofs -------------------------
(***************************************************************************)
(* For any number of requests, couriers' calls and deliveries: a refund    *)
(* protects the delivery it reserved (RefundProtected), an attempt that    *)
(* lost lets go of its own (LoserLetsGo), and once the one that won has    *)
(* propagated, no delivery that was made is hidden (NoHiddenMovement).     *)
(* The first two rest on where an attempt's token can be: on the delivery  *)
(* it reserved, and only once its write of the intent was accepted.  The   *)
(* third on one active delivery and one winner per withdrawal, and on the  *)
(* couriers, who no longer pass the check of a withdrawal that is closed.  *)
(***************************************************************************)
EXTENDS CancelIntent, TLAPS

\* The calls before an attempt's intent is in a delivery.
Early == {"idle", "reserve", "mark", "fresh", "stale", "escalate", "steal"}

\* A token is on the delivery its attempt reserved, after it marked or stole,
\* and a reserved delivery has been published.
TokenPlace ==
  \A a \in Attempt, j \in Job :
    /\ intent[j].token = a => on[a] = j /\ at[a] \notin Early
    /\ on[a] = j => status[j] # "absent"

\* The attempts on their way to handle_origin_rejected are those that won,
\* and those that won are there or past it.
WinnersPast ==
  \A a \in Attempt :
    /\ at[a] \in {"propagate", "cancel"} => a \in won
    /\ a \in won => at[a] \in {"propagate", "cancel", "done", "dead"}

\* Why commit_origin_cancel_intent failed, and force_release escalates.
Reasons ==
  \A a \in Attempt :
    /\ at[a] = "inspect" =>
         ~(status[on[a]] \in Open /\ intent[on[a]].token = a)
    /\ at[a] = "escalateOwn" => origin \in Terminal

\* Where each process can be; the publishers' delivery is a delivery.
Places ==
  /\ \A a \in Attempt : at[a] \notin {"checkOrigin", "write", "find", "insert",
                                      "recheck", "clear"}
  /\ \A a \in Attempt : at[a] \in {"idle", "reserve"} => on[a] = None
  /\ \A r \in Rider : /\ at[r] \in {"idle", "checkOrigin", "write", "propagate",
                                    "cancel"}
                      /\ at[r] \in {"checkOrigin", "write"}
                           => on[r] \in Job /\ seen[r] \in Open

IInv ==
  /\ TypeOK
  /\ Places
  /\ TokenPlace
  /\ WinnersPast
  /\ Reasons
  /\ RefundProtected
  /\ LoserLetsGo

-----------------------------------------------------------------------------
(* What the writes of an intent do                                         *)

\* Leaving an intent writes a well-formed one, in one delivery only.
LEMMA LeaveIntent ==
  ASSUME intent \in [Job -> Intents], NEW a \in Attempt, NEW j \in Job,
      Leave(a, j)
  PROVE  /\ intent' \in [Job -> Intents]
         /\ intent'[j] = [token |-> a, committed |-> FALSE, old |-> FALSE]
         /\ \A k \in Job \ {j} : intent'[k] = intent[k]
<1>1. [token |-> a, committed |-> FALSE, old |-> FALSE] \in Intents
  BY DEF Intents
<1> QED  BY <1>1 DEF Leave

\* Committing for a token changes no token and revokes no commit.
LEMMA CommitIntent ==
  ASSUME intent \in [Job -> Intents], NEW t, NEW j \in Job, CommitFor(t, j)
  PROVE  /\ intent' \in [Job -> Intents]
         /\ \A k \in Job : /\ intent'[k].token = intent[k].token
                           /\ intent[k].committed => intent'[k].committed
         /\ intent[j].token = t => intent'[j].committed
<1> DEFINE new == [intent[j] EXCEPT !.committed = @ \/ intent[j].token = t]
<1>1. intent[j] \in Intents
  OBVIOUS
<1>2. (intent[j].committed \/ intent[j].token = t) \in BOOLEAN
  BY <1>1 DEF Intents
<1>3. /\ new \in Intents
      /\ new.token = intent[j].token
      /\ intent[j].committed => new.committed
      /\ intent[j].token = t => new.committed
  BY <1>1, <1>2 DEF Intents
<1>4. intent' = [intent EXCEPT ![j] = new]
  BY DEF CommitFor
<1> QED  BY <1>3, <1>4

\* Time changes neither the token of an intent nor whether it is committed.
LEMMA AgeIntent ==
  ASSUME intent \in [Job -> Intents], NEW j \in Job, Age(j)
  PROVE  /\ intent' \in [Job -> Intents]
         /\ \A k \in Job : /\ intent'[k].token = intent[k].token
                           /\ intent'[k].committed = intent[k].committed
<1> DEFINE new == [intent[j] EXCEPT !.old = TRUE]
<1>1. intent[j] \in Intents
  OBVIOUS
<1>2. /\ new \in Intents
      /\ new.token = intent[j].token
      /\ new.committed = intent[j].committed
  BY <1>1 DEF Intents
<1>3. intent' = [intent EXCEPT ![j] = new]
  BY DEF Age
<1> QED  BY <1>2, <1>3

\* The courier's transitions lead from an open state to an open or sealed one.
LEMMA AdvanceType ==
  \A s \in Open : Advance[s] \in Open \cup {"delivered"}
  BY DEF Open, Advance

-----------------------------------------------------------------------------
(* The parts of the invariant, step by step                                *)

\* Every step keeps the types.
LEMMA TypeStep ==
  ASSUME TypeOK, Places, [Next]_vars
  PROVE  TypeOK'
<1> USE CancelIntentAssumption DEF Process, Attempt, Publisher, Goto,
    jobVars, local, ghost, Calls, Reserved, Live, Terminal, Open, Sealed
<1>1. CASE UNCHANGED vars
  BY <1>1 DEF vars, TypeOK
<1>2. ASSUME NEW a \in Attempt, Attempting(a) PROVE TypeOK'
  <2>1. CASE Start(a)  BY <2>1 DEF Start, TypeOK
  <2>2. CASE Reserve(a)  BY <2>2 DEF Reserve, Active, TypeOK
  <2>3. CASE Mark(a)
    <3>1. on[a] \in Job
      BY <2>3 DEF Mark, TypeOK
    <3>2. intent' \in [Job -> Intents]
      <4>1. CASE Leave(a, on[a])  BY <3>1, <4>1, LeaveIntent DEF TypeOK
      <4>2. CASE intent' = intent  BY <4>2 DEF TypeOK
      <4> QED  BY <2>3, <4>1, <4>2 DEF Mark
    <3> QED
      BY <2>3, <3>2 DEF Mark, TypeOK
  <2>4. CASE Fresh(a)
    BY <2>4 DEF Fresh, Stealable, Unintended, TypeOK, Intents, JobStatus
  <2>5. CASE Stale(a)  BY <2>5 DEF Stale, TypeOK
  <2>6. CASE Escalate(a)  BY <2>6, CommitIntent DEF Escalate, TypeOK
  <2>7. CASE Steal(a)
    <3>1. on[a] \in Job
      BY <2>7 DEF Steal, TypeOK
    <3>2. intent' \in [Job -> Intents]
      <4>1. CASE Leave(a, on[a])  BY <3>1, <4>1, LeaveIntent DEF TypeOK
      <4>2. CASE intent' = intent  BY <4>2 DEF TypeOK
      <4> QED  BY <2>7, <4>1, <4>2 DEF Steal
    <3> QED
      BY <2>7, <3>2 DEF Steal, TypeOK
  <2>8. CASE Commit(a)  BY <2>8, CommitIntent DEF Commit, TypeOK
  <2>9. CASE Inspect(a)  BY <2>9 DEF Inspect, TypeOK
  <2>10. CASE Claim(a)  BY <2>10 DEF Claim, Closing, Abandon, TypeOK
  <2>11. CASE Check(a)  BY <2>11 DEF Check, TypeOK
  <2>12. CASE Release(a)  BY <2>12 DEF Release, TypeOK
  <2>13. CASE EscalateOwn(a)  BY <2>13, CommitIntent DEF EscalateOwn, TypeOK
  <2>14. CASE Unset(a)
    BY <2>14 DEF Unset, NoIntent, TypeOK, Intents, JobStatus
  <2> QED
    BY <1>2, <2>1, <2>2, <2>3, <2>4, <2>5, <2>6, <2>7, <2>8, <2>9, <2>10,
        <2>11, <2>12, <2>13, <2>14 DEF Attempting
<1>3. ASSUME NEW r \in Rider, Riding(r) PROVE TypeOK'
  <2>1. CASE RiderRead(r)  BY <2>1 DEF RiderRead, TypeOK
  <2>2. CASE RiderCheck(r)  BY <2>2 DEF RiderCheck, Forget, TypeOK
  <2>3. CASE RiderWrite(r)
    BY <2>3, AdvanceType DEF RiderWrite, Forget, Advances, Unintended,
        TypeOK, Intents, JobStatus, Places
  <2> QED  BY <1>3, <2>1, <2>2, <2>3 DEF Riding
<1>4. ASSUME NEW p \in Publisher, Publishing(p) PROVE TypeOK'
  <2>1. CASE Sync(p)  BY <2>1 DEF Sync, TypeOK
  <2>2. CASE Find(p)
    BY <2>2 DEF Find, Active, After, TypeOK, Intents, JobStatus
  <2>3. CASE Insert(p)
    <3>1. CASE Active = {}
      <4>1. PICK j \in Job : /\ status[j] = "absent"
                            /\ status' = [status EXCEPT ![j] = "available"]
                            /\ on' = [on EXCEPT ![p] = j]
                            /\ unchecked' = IF p \in Syncer
                                 THEN unchecked \cup {j} ELSE unchecked
        BY <2>3, <3>1 DEF Insert
      <4>2. /\ status' \in [Job -> JobStatus]
            /\ unchecked' \subseteq Job
        BY <4>1 DEF TypeOK, JobStatus
      <4>3. on' \in [Process -> Job \cup {None}]
        BY <4>1 DEF TypeOK
      <4> QED
        BY <2>3, <3>1, <4>2, <4>3 DEF Insert, TypeOK
    <3>2. CASE Active # {}
      BY <2>3, <3>2 DEF Insert, TypeOK
    <3> QED
      BY <3>1, <3>2
  <2>4. CASE Recheck(p)  BY <2>4 DEF Recheck, TypeOK
  <2>5. CASE Clear(p)  BY <2>5 DEF Clear, TypeOK
  <2> QED  BY <1>4, <2>1, <2>2, <2>3, <2>4, <2>5 DEF Publishing
<1>5. ASSUME NEW p \in Process, Propagate(p) PROVE TypeOK'
  BY <1>5 DEF Propagate, Active, After, TypeOK
<1>6. ASSUME NEW p \in Process, CancelActive(p) PROVE TypeOK'
  BY <1>6 DEF CancelActive, Active, After, TypeOK, Intents, JobStatus
<1>7. ASSUME NEW s \in Live, StaffMove(s) PROVE TypeOK'
  BY <1>7 DEF StaffMove, TypeOK
<1>8. ASSUME NEW j \in Job, StaffCancel(j) PROVE TypeOK'
  BY <1>8 DEF StaffCancel, TypeOK, Intents, JobStatus
<1>9. ASSUME NEW j \in Job, Confirm(j) PROVE TypeOK'
  BY <1>9 DEF Confirm, TypeOK, Intents, JobStatus
<1>10. ASSUME NEW j \in Job, Settle(j) PROVE TypeOK'
  BY <1>10 DEF Settle, TypeOK
<1>11. ASSUME NEW j \in Job, Age(j) PROVE TypeOK'
  BY <1>11, AgeIntent DEF Age, Unintended, TypeOK
<1>12. ASSUME NEW p \in Attempt \cup Syncer, Crash(p) PROVE TypeOK'
  BY <1>12 DEF Crash, TypeOK
<1> QED
  BY <1>1, <1>2, <1>3, <1>4, <1>5, <1>6, <1>7, <1>8, <1>9, <1>10, <1>11,
      <1>12 DEF Next

\* No step takes a process to a call of another kind of process.
LEMMA PlacesStep ==
  ASSUME TypeOK, Places, [Next]_vars
  PROVE  Places'
<1> USE CancelIntentAssumption DEF Process, Attempt, Publisher, Goto,
    jobVars, local, ghost
<1>1. CASE UNCHANGED vars
  BY <1>1 DEF vars, Places
<1>2. ASSUME NEW a \in Attempt, Attempting(a) PROVE Places'
  <2>1. CASE Start(a)  BY <2>1 DEF Start, Places
  <2>2. CASE Reserve(a)  BY <2>2 DEF Reserve, Active, Places, TypeOK
  <2>3. CASE Mark(a)
    BY <2>3 DEF Mark, Unintended, Leave, NoIntent, Places, TypeOK
  <2>4. CASE Fresh(a)
    BY <2>4 DEF Fresh, Stealable, Unintended, Places, TypeOK
  <2>5. CASE Stale(a)  BY <2>5 DEF Stale, Places
  <2>6. CASE Escalate(a)  BY <2>6 DEF Escalate, CommitFor, Places
  <2>7. CASE Steal(a)  BY <2>7 DEF Steal, Leave, NoIntent, Places, TypeOK
  <2>8. CASE Commit(a)  BY <2>8 DEF Commit, CommitFor, Places, TypeOK
  <2>9. CASE Inspect(a)  BY <2>9 DEF Inspect, Places
  <2>10. CASE Claim(a)  BY <2>10 DEF Claim, Closing, Abandon, Places, TypeOK
  <2>11. CASE Check(a)  BY <2>11 DEF Check, Places
  <2>12. CASE Release(a)  BY <2>12 DEF Release, Places
  <2>13. CASE EscalateOwn(a)  BY <2>13 DEF EscalateOwn, CommitFor, Places
  <2>14. CASE Unset(a)  BY <2>14 DEF Unset, NoIntent, Places
  <2> QED
    BY <1>2, <2>1, <2>2, <2>3, <2>4, <2>5, <2>6, <2>7, <2>8, <2>9, <2>10,
        <2>11, <2>12, <2>13, <2>14 DEF Attempting
<1>3. ASSUME NEW r \in Rider, Riding(r) PROVE Places'
  <2>1. CASE RiderRead(r)  BY <2>1 DEF RiderRead, Places, TypeOK
  <2>2. CASE RiderCheck(r)  BY <2>2 DEF RiderCheck, Forget, Places, TypeOK
  <2>3. CASE RiderWrite(r)
    BY <2>3 DEF RiderWrite, Forget, Advances, Advance, Unintended,
        Places, TypeOK
  <2> QED  BY <1>3, <2>1, <2>2, <2>3 DEF Riding
<1>4. ASSUME NEW p \in Publisher, Publishing(p) PROVE Places'
  <2>1. CASE Sync(p)  BY <2>1 DEF Sync, Places, TypeOK
  <2>2. CASE Find(p)  BY <2>2 DEF Find, Active, After, Places, TypeOK
  <2>3. CASE Insert(p)  BY <2>3 DEF Insert, Active, Places, TypeOK
  <2>4. CASE Recheck(p)  BY <2>4 DEF Recheck, Places
  <2>5. CASE Clear(p)  BY <2>5 DEF Clear, Places
  <2> QED  BY <1>4, <2>1, <2>2, <2>3, <2>4, <2>5 DEF Publishing
<1>5. ASSUME NEW p \in Process, Propagate(p) PROVE Places'
  BY <1>5 DEF Propagate, Active, After, Places, TypeOK
<1>6. ASSUME NEW p \in Process, CancelActive(p) PROVE Places'
  BY <1>6 DEF CancelActive, Active, After, Places, TypeOK
<1>7. ASSUME NEW s \in Live, StaffMove(s) PROVE Places'
  BY <1>7 DEF StaffMove, Places
<1>8. ASSUME NEW j \in Job, StaffCancel(j) PROVE Places'
  BY <1>8 DEF StaffCancel, Places
<1>9. ASSUME NEW j \in Job, Confirm(j) PROVE Places'
  BY <1>9 DEF Confirm, Places
<1>10. ASSUME NEW j \in Job, Settle(j) PROVE Places'
  BY <1>10 DEF Settle, Places
<1>11. ASSUME NEW j \in Job, Age(j) PROVE Places'
  BY <1>11 DEF Age, Unintended, Places
<1>12. ASSUME NEW p \in Attempt \cup Syncer, Crash(p) PROVE Places'
  BY <1>12 DEF Crash, Places, TypeOK
<1> QED
  BY <1>1, <1>2, <1>3, <1>4, <1>5, <1>6, <1>7, <1>8, <1>9, <1>10, <1>11,
      <1>12 DEF Next

\* A token enters only the delivery its attempt reserved, and leaves with it.
LEMMA TokenStep ==
  ASSUME TypeOK, Places, TokenPlace, [Next]_vars
  PROVE  TokenPlace'
<1> USE CancelIntentAssumption DEF Process, Attempt, Publisher, Goto,
    jobVars, local, ghost
<1>1. CASE UNCHANGED vars
  BY <1>1 DEF vars, TokenPlace, Early
<1>2. ASSUME NEW a \in Attempt, Attempting(a) PROVE TokenPlace'
  <2>1. CASE Start(a)  BY <2>1 DEF Start, TokenPlace, Early
  <2>2. CASE Reserve(a)
    BY <2>2 DEF Reserve, Active, TokenPlace, Early, TypeOK
  <2>3. CASE Mark(a)
    BY <2>3 DEF Mark, Unintended, Leave, NoIntent, TokenPlace, Early, TypeOK
  <2>4. CASE Fresh(a)
    BY <2>4 DEF Fresh, Stealable, Unintended, TokenPlace, Early, TypeOK
  <2>5. CASE Stale(a)  BY <2>5 DEF Stale, TokenPlace, Early
  <2>6. CASE Escalate(a)  BY <2>6 DEF Escalate, CommitFor, TokenPlace, Early
  <2>7. CASE Steal(a)
    BY <2>7 DEF Steal, Leave, NoIntent, TokenPlace, Early, TypeOK
  <2>8. CASE Commit(a)
    BY <2>8 DEF Commit, CommitFor, TokenPlace, Early, Places, TypeOK,
        Intents, JobStatus, Calls, Reserved, Live, Terminal, Open, Sealed
  <2>9. CASE Inspect(a)  BY <2>9 DEF Inspect, TokenPlace, Early
  <2>10. CASE Claim(a)
    BY <2>10 DEF Claim, Closing, Abandon, TokenPlace, Early, TypeOK
  <2>11. CASE Check(a)  BY <2>11 DEF Check, TokenPlace, Early
  <2>12. CASE Release(a)  BY <2>12 DEF Release, TokenPlace, Early
  <2>13. CASE EscalateOwn(a)
    BY <2>13 DEF EscalateOwn, CommitFor, TokenPlace, Early
  <2>14. CASE Unset(a)  BY <2>14 DEF Unset, NoIntent, TokenPlace, Early
  <2> QED
    BY <1>2, <2>1, <2>2, <2>3, <2>4, <2>5, <2>6, <2>7, <2>8, <2>9, <2>10,
        <2>11, <2>12, <2>13, <2>14 DEF Attempting
<1>3. ASSUME NEW r \in Rider, Riding(r) PROVE TokenPlace'
  <2>1. CASE RiderRead(r)  BY <2>1 DEF RiderRead, TokenPlace, Early
  <2>2. CASE RiderCheck(r)
    BY <2>2 DEF RiderCheck, Forget, TokenPlace, Early, TypeOK
  <2>3. CASE RiderWrite(r)
    BY <2>3 DEF RiderWrite, Forget, Advances, Advance, Unintended,
        TokenPlace, Early, Places, TypeOK, Live, Terminal, Open, Sealed
  <2> QED  BY <1>3, <2>1, <2>2, <2>3 DEF Riding
<1>4. ASSUME NEW p \in Publisher, Publishing(p) PROVE TokenPlace'
  <2>1. CASE Sync(p)  BY <2>1 DEF Sync, TokenPlace, Early, TypeOK
  <2>2. CASE Find(p)
    BY <2>2 DEF Find, Active, After, TokenPlace, Early, TypeOK
  <2>3. CASE Insert(p)  BY <2>3 DEF Insert, Active, TokenPlace, Early, TypeOK
  <2>4. CASE Recheck(p)  BY <2>4 DEF Recheck, TokenPlace, Early
  <2>5. CASE Clear(p)  BY <2>5 DEF Clear, TokenPlace, Early
  <2> QED  BY <1>4, <2>1, <2>2, <2>3, <2>4, <2>5 DEF Publishing
<1>5. ASSUME NEW p \in Process, Propagate(p) PROVE TokenPlace'
  BY <1>5 DEF Propagate, Active, After, TokenPlace, Early, TypeOK
<1>6. ASSUME NEW p \in Process, CancelActive(p) PROVE TokenPlace'
  BY <1>6 DEF CancelActive, Active, After, TokenPlace, Early, TypeOK
<1>7. ASSUME NEW s \in Live, StaffMove(s) PROVE TokenPlace'
  BY <1>7 DEF StaffMove, TokenPlace, Early
<1>8. ASSUME NEW j \in Job, StaffCancel(j) PROVE TokenPlace'
  BY <1>8 DEF StaffCancel, TokenPlace, Early
<1>9. ASSUME NEW j \in Job, Confirm(j) PROVE TokenPlace'
  BY <1>9 DEF Confirm, TokenPlace, Early
<1>10. ASSUME NEW j \in Job, Settle(j) PROVE TokenPlace'
  BY <1>10 DEF Settle, TokenPlace, Early
<1>11. ASSUME NEW j \in Job, Age(j) PROVE TokenPlace'
  BY <1>11 DEF Age, Unintended, TokenPlace, Early
<1>12. ASSUME NEW p \in Attempt \cup Syncer, Crash(p) PROVE TokenPlace'
  BY <1>12 DEF Crash, TokenPlace, Early, TypeOK
<1> QED
  BY <1>1, <1>2, <1>3, <1>4, <1>5, <1>6, <1>7, <1>8, <1>9, <1>10, <1>11,
      <1>12 DEF Next

\* Only the claim makes a winner, and the winner goes on to the propagation.
LEMMA WinnersStep ==
  ASSUME TypeOK, Places, WinnersPast, [Next]_vars
  PROVE  WinnersPast'
<1> USE CancelIntentAssumption DEF Process, Attempt, Publisher, Goto,
    jobVars, local, ghost
<1>1. CASE UNCHANGED vars
  BY <1>1 DEF vars, WinnersPast
<1>2. ASSUME NEW a \in Attempt, Attempting(a) PROVE WinnersPast'
  <2>1. CASE Start(a)  BY <2>1 DEF Start, WinnersPast
  <2>2. CASE Reserve(a)  BY <2>2 DEF Reserve, Active, WinnersPast, TypeOK
  <2>3. CASE Mark(a)
    BY <2>3 DEF Mark, Unintended, Leave, NoIntent, WinnersPast, TypeOK
  <2>4. CASE Fresh(a)
    BY <2>4 DEF Fresh, Stealable, Unintended, WinnersPast, TypeOK
  <2>5. CASE Stale(a)  BY <2>5 DEF Stale, WinnersPast
  <2>6. CASE Escalate(a)  BY <2>6 DEF Escalate, CommitFor, WinnersPast
  <2>7. CASE Steal(a)  BY <2>7 DEF Steal, Leave, NoIntent, WinnersPast, TypeOK
  <2>8. CASE Commit(a)  BY <2>8 DEF Commit, CommitFor, WinnersPast, TypeOK
  <2>9. CASE Inspect(a)  BY <2>9 DEF Inspect, WinnersPast
  <2>10. CASE Claim(a)
    BY <2>10 DEF Claim, Closing, Abandon, WinnersPast, TypeOK
  <2>11. CASE Check(a)  BY <2>11 DEF Check, WinnersPast
  <2>12. CASE Release(a)  BY <2>12 DEF Release, WinnersPast
  <2>13. CASE EscalateOwn(a)  BY <2>13 DEF EscalateOwn, CommitFor, WinnersPast
  <2>14. CASE Unset(a)  BY <2>14 DEF Unset, NoIntent, WinnersPast
  <2> QED
    BY <1>2, <2>1, <2>2, <2>3, <2>4, <2>5, <2>6, <2>7, <2>8, <2>9, <2>10,
        <2>11, <2>12, <2>13, <2>14 DEF Attempting
<1>3. ASSUME NEW r \in Rider, Riding(r) PROVE WinnersPast'
  <2>1. CASE RiderRead(r)  BY <2>1 DEF RiderRead, WinnersPast
  <2>2. CASE RiderCheck(r)
    BY <2>2 DEF RiderCheck, Forget, WinnersPast, TypeOK
  <2>3. CASE RiderWrite(r)
    BY <2>3 DEF RiderWrite, Forget, Advances, Advance, Unintended, WinnersPast
  <2> QED  BY <1>3, <2>1, <2>2, <2>3 DEF Riding
<1>4. ASSUME NEW p \in Publisher, Publishing(p) PROVE WinnersPast'
  <2>1. CASE Sync(p)  BY <2>1 DEF Sync, WinnersPast
  <2>2. CASE Find(p)  BY <2>2 DEF Find, Active, After, WinnersPast, TypeOK
  <2>3. CASE Insert(p)  BY <2>3 DEF Insert, Active, WinnersPast, TypeOK
  <2>4. CASE Recheck(p)  BY <2>4 DEF Recheck, WinnersPast
  <2>5. CASE Clear(p)  BY <2>5 DEF Clear, WinnersPast
  <2> QED  BY <1>4, <2>1, <2>2, <2>3, <2>4, <2>5 DEF Publishing
<1>5. ASSUME NEW p \in Process, Propagate(p) PROVE WinnersPast'
  BY <1>5 DEF Propagate, Active, After, WinnersPast, TypeOK
<1>6. ASSUME NEW p \in Process, CancelActive(p) PROVE WinnersPast'
  BY <1>6 DEF CancelActive, Active, After, WinnersPast, TypeOK
<1>7. ASSUME NEW s \in Live, StaffMove(s) PROVE WinnersPast'
  BY <1>7 DEF StaffMove, WinnersPast
<1>8. ASSUME NEW j \in Job, StaffCancel(j) PROVE WinnersPast'
  BY <1>8 DEF StaffCancel, WinnersPast
<1>9. ASSUME NEW j \in Job, Confirm(j) PROVE WinnersPast'
  BY <1>9 DEF Confirm, WinnersPast
<1>10. ASSUME NEW j \in Job, Settle(j) PROVE WinnersPast'
  BY <1>10 DEF Settle, WinnersPast
<1>11. ASSUME NEW j \in Job, Age(j) PROVE WinnersPast'
  BY <1>11 DEF Age, Unintended, WinnersPast
<1>12. ASSUME NEW p \in Attempt \cup Syncer, Crash(p) PROVE WinnersPast'
  BY <1>12 DEF Crash, WinnersPast, TypeOK
<1> QED
  BY <1>1, <1>2, <1>3, <1>4, <1>5, <1>6, <1>7, <1>8, <1>9, <1>10, <1>11,
      <1>12 DEF Next

\* A commit that failed stays impossible for its attempt; a closed origin
\* stays closed.
LEMMA ReasonsStep ==
  ASSUME TypeOK, Places, TokenPlace, Reasons, [Next]_vars
  PROVE  Reasons'
<1> USE CancelIntentAssumption DEF Process, Attempt, Publisher, Goto,
    jobVars, local, ghost
<1>1. CASE UNCHANGED vars
  BY <1>1 DEF vars, Reasons
<1>2. ASSUME NEW a \in Attempt, Attempting(a) PROVE Reasons'
  <2>1. CASE Start(a)  BY <2>1 DEF Start, Reasons
  <2>2. CASE Reserve(a)  BY <2>2 DEF Reserve, Active, Reasons, TypeOK
  <2>3. CASE Mark(a)
    BY <2>3 DEF Mark, Unintended, Leave, NoIntent, Reasons, TokenPlace,
        Early, Places, TypeOK, Calls, Reserved, Live, Terminal, Open,
        Sealed
  <2>4. CASE Fresh(a)
    BY <2>4 DEF Fresh, Stealable, Unintended, Reasons, TypeOK
  <2>5. CASE Stale(a)  BY <2>5 DEF Stale, Reasons
  <2>6. CASE Escalate(a)  BY <2>6 DEF Escalate, CommitFor, Reasons
  <2>7. CASE Steal(a)
    BY <2>7 DEF Steal, Leave, NoIntent, Reasons, TokenPlace, Early,
        Places, TypeOK, Calls, Reserved, Live, Terminal, Open, Sealed
  <2>8. CASE Commit(a)
    BY <2>8 DEF Commit, CommitFor, Reasons, TokenPlace, Early, Places,
        TypeOK, Intents, JobStatus, Calls, Reserved, Live, Terminal,
        Open, Sealed
  <2>9. CASE Inspect(a)  BY <2>9 DEF Inspect, Reasons
  <2>10. CASE Claim(a)
    BY <2>10 DEF Claim, Closing, Abandon, Reasons, TypeOK, Live,
        Terminal, Open, Sealed
  <2>11. CASE Check(a)  BY <2>11 DEF Check, Reasons
  <2>12. CASE Release(a)  BY <2>12 DEF Release, Reasons
  <2>13. CASE EscalateOwn(a)  BY <2>13 DEF EscalateOwn, CommitFor, Reasons
  <2>14. CASE Unset(a)  BY <2>14 DEF Unset, NoIntent, Reasons
  <2> QED
    BY <1>2, <2>1, <2>2, <2>3, <2>4, <2>5, <2>6, <2>7, <2>8, <2>9, <2>10,
        <2>11, <2>12, <2>13, <2>14 DEF Attempting
<1>3. ASSUME NEW r \in Rider, Riding(r) PROVE Reasons'
  <2>1. CASE RiderRead(r)  BY <2>1 DEF RiderRead, Reasons
  <2>2. CASE RiderCheck(r)  BY <2>2 DEF RiderCheck, Forget, Reasons, TypeOK
  <2>3. CASE RiderWrite(r)
    BY <2>3 DEF RiderWrite, Forget, Advances, Advance, Unintended,
        Reasons, Places, TypeOK, Live, Terminal, Open, Sealed
  <2> QED  BY <1>3, <2>1, <2>2, <2>3 DEF Riding
<1>4. ASSUME NEW p \in Publisher, Publishing(p) PROVE Reasons'
  <2>1. CASE Sync(p)  BY <2>1 DEF Sync, Reasons, TypeOK
  <2>2. CASE Find(p)
    BY <2>2 DEF Find, Active, After, Reasons, TokenPlace, Early, Places,
        TypeOK, Calls, Reserved, Live, Terminal, Open, Sealed
  <2>3. CASE Insert(p)
    BY <2>3 DEF Insert, Active, Reasons, TokenPlace, Early, Places,
        TypeOK, Calls, Reserved, Live, Terminal, Open, Sealed
  <2>4. CASE Recheck(p)  BY <2>4 DEF Recheck, Reasons
  <2>5. CASE Clear(p)  BY <2>5 DEF Clear, Reasons
  <2> QED  BY <1>4, <2>1, <2>2, <2>3, <2>4, <2>5 DEF Publishing
<1>5. ASSUME NEW p \in Process, Propagate(p) PROVE Reasons'
  BY <1>5 DEF Propagate, Active, After, Reasons, TypeOK
<1>6. ASSUME NEW p \in Process, CancelActive(p) PROVE Reasons'
  BY <1>6 DEF CancelActive, Active, After, Reasons, TokenPlace, Early,
      Places, TypeOK, Calls, Reserved, Live, Terminal, Open, Sealed
<1>7. ASSUME NEW s \in Live, StaffMove(s) PROVE Reasons'
  BY <1>7 DEF StaffMove, Reasons, Live, Terminal, Open, Sealed
<1>8. ASSUME NEW j \in Job, StaffCancel(j) PROVE Reasons'
  BY <1>8 DEF StaffCancel, Reasons, Live, Terminal, Open, Sealed
<1>9. ASSUME NEW j \in Job, Confirm(j) PROVE Reasons'
  BY <1>9 DEF Confirm, Reasons, Live, Terminal, Open, Sealed
<1>10. ASSUME NEW j \in Job, Settle(j) PROVE Reasons'
  BY <1>10 DEF Settle, Reasons, Live, Terminal, Open, Sealed
<1>11. ASSUME NEW j \in Job, Age(j) PROVE Reasons'
  BY <1>11 DEF Age, Unintended, Reasons
<1>12. ASSUME NEW p \in Attempt \cup Syncer, Crash(p) PROVE Reasons'
  BY <1>12 DEF Crash, Reasons, TypeOK
<1> QED
  BY <1>1, <1>2, <1>3, <1>4, <1>5, <1>6, <1>7, <1>8, <1>9, <1>10, <1>11,
      <1>12 DEF Next

\* No step takes away the protection of a delivery that a refund reserved.
LEMMA ProtectedStep ==
  ASSUME TypeOK, Places, TokenPlace, WinnersPast, RefundProtected, [Next]_vars
  PROVE  RefundProtected'
<1> USE CancelIntentAssumption DEF Process, Attempt, Publisher, Goto,
    jobVars, local, ghost
<1>1. CASE UNCHANGED vars
  BY <1>1 DEF vars, RefundProtected, Protected
<1>2. ASSUME NEW a \in Attempt, Attempting(a) PROVE RefundProtected'
  <2>1. CASE Start(a)  BY <2>1 DEF Start, RefundProtected, Protected
  <2>2. CASE Reserve(a)
    BY <2>2 DEF Reserve, Active, RefundProtected, Protected, TokenPlace,
        WinnersPast, Early, Places, TypeOK, Terminal, Open, Sealed
  <2>3. CASE Mark(a)
    BY <2>3 DEF Mark, Unintended, Leave, NoIntent, RefundProtected,
        Protected, TypeOK
  <2>4. CASE Fresh(a)
    BY <2>4 DEF Fresh, Stealable, Unintended, RefundProtected, Protected,
        TypeOK
  <2>5. CASE Stale(a)  BY <2>5 DEF Stale, RefundProtected, Protected
  <2>6. CASE Escalate(a)
    BY <2>6 DEF Escalate, CommitFor, RefundProtected, Protected,
        TokenPlace, WinnersPast, Early, Places, TypeOK, Intents,
        JobStatus, Calls, Reserved, Live, Terminal, Open, Sealed
  <2>7. CASE Steal(a)
    BY <2>7 DEF Steal, Leave, NoIntent, RefundProtected, Protected, TypeOK
  <2>8. CASE Commit(a)
    BY <2>8, CommitIntent DEF Commit, RefundProtected, Protected,
        TokenPlace, WinnersPast, Early, Places, TypeOK, Calls, Reserved,
        Live, Terminal, Open, Sealed
  <2>9. CASE Inspect(a)  BY <2>9 DEF Inspect, RefundProtected, Protected
  <2>10. CASE Claim(a)
    BY <2>10 DEF Claim, Closing, Abandon, RefundProtected, Protected, TypeOK
  <2>11. CASE Check(a)  BY <2>11 DEF Check, RefundProtected, Protected
  <2>12. CASE Release(a)  BY <2>12 DEF Release, RefundProtected, Protected
  <2>13. CASE EscalateOwn(a)
    BY <2>13 DEF EscalateOwn, CommitFor, RefundProtected, Protected,
        TokenPlace, WinnersPast, Early, Places, TypeOK, Intents,
        JobStatus, Calls, Reserved, Live, Terminal, Open, Sealed
  <2>14. CASE Unset(a)
    BY <2>14 DEF Unset, NoIntent, RefundProtected, Protected, TokenPlace,
        WinnersPast, Early, Places, TypeOK, Terminal, Open, Sealed
  <2> QED
    BY <1>2, <2>1, <2>2, <2>3, <2>4, <2>5, <2>6, <2>7, <2>8, <2>9, <2>10,
        <2>11, <2>12, <2>13, <2>14 DEF Attempting
<1>3. ASSUME NEW r \in Rider, Riding(r) PROVE RefundProtected'
  <2>1. CASE RiderRead(r)  BY <2>1 DEF RiderRead, RefundProtected, Protected
  <2>2. CASE RiderCheck(r)
    BY <2>2 DEF RiderCheck, Forget, RefundProtected, Protected, TypeOK
  <2>3. CASE RiderWrite(r)
    BY <2>3 DEF RiderWrite, Forget, Advances, Advance, Unintended,
        RefundProtected, Protected, Places, TypeOK, Live, Terminal, Open,
        Sealed
  <2> QED  BY <1>3, <2>1, <2>2, <2>3 DEF Riding
<1>4. ASSUME NEW p \in Publisher, Publishing(p) PROVE RefundProtected'
  <2>1. CASE Sync(p)  BY <2>1 DEF Sync, RefundProtected, Protected, TypeOK
  <2>2. CASE Find(p)
    BY <2>2 DEF Find, Active, After, RefundProtected, Protected, TypeOK
  <2>3. CASE Insert(p)
    BY <2>3 DEF Insert, Active, RefundProtected, Protected, TypeOK, Live,
        Terminal, Open, Sealed
  <2>4. CASE Recheck(p)  BY <2>4 DEF Recheck, RefundProtected, Protected
  <2>5. CASE Clear(p)  BY <2>5 DEF Clear, RefundProtected, Protected
  <2> QED  BY <1>4, <2>1, <2>2, <2>3, <2>4, <2>5 DEF Publishing
<1>5. ASSUME NEW p \in Process, Propagate(p) PROVE RefundProtected'
  BY <1>5 DEF Propagate, Active, After, RefundProtected, Protected, TypeOK
<1>6. ASSUME NEW p \in Process, CancelActive(p) PROVE RefundProtected'
  BY <1>6 DEF CancelActive, Active, After, RefundProtected, Protected, TypeOK
<1>7. ASSUME NEW s \in Live, StaffMove(s) PROVE RefundProtected'
  BY <1>7 DEF StaffMove, RefundProtected, Protected
<1>8. ASSUME NEW j \in Job, StaffCancel(j) PROVE RefundProtected'
  BY <1>8 DEF StaffCancel, RefundProtected, Protected
<1>9. ASSUME NEW j \in Job, Confirm(j) PROVE RefundProtected'
  BY <1>9 DEF Confirm, RefundProtected, Protected, Live, Terminal, Open,
      Sealed
<1>10. ASSUME NEW j \in Job, Settle(j) PROVE RefundProtected'
  BY <1>10 DEF Settle, RefundProtected, Protected
<1>11. ASSUME NEW j \in Job, Age(j) PROVE RefundProtected'
  BY <1>11 DEF Age, Unintended, RefundProtected, Protected
<1>12. ASSUME NEW p \in Attempt \cup Syncer, Crash(p) PROVE RefundProtected'
  BY <1>12 DEF Crash, RefundProtected, Protected, TypeOK
<1> QED
  BY <1>1, <1>2, <1>3, <1>4, <1>5, <1>6, <1>7, <1>8, <1>9, <1>10, <1>11,
      <1>12 DEF Next

\* An attempt ends without a refund only after it took its intent back, or
\* finds the withdrawal closed.
LEMMA LoserStep ==
  ASSUME TypeOK, Places, TokenPlace, WinnersPast, Reasons, LoserLetsGo,
      [Next]_vars
  PROVE  LoserLetsGo'
<1> USE CancelIntentAssumption DEF Process, Attempt, Publisher, Goto,
    jobVars, local, ghost
<1>1. CASE UNCHANGED vars
  BY <1>1 DEF vars, LoserLetsGo
<1>2. ASSUME NEW a \in Attempt, Attempting(a) PROVE LoserLetsGo'
  <2>1. CASE Start(a)  BY <2>1 DEF Start, LoserLetsGo
  <2>2. CASE Reserve(a)
    BY <2>2 DEF Reserve, Active, LoserLetsGo, TokenPlace, WinnersPast,
        Reasons, Early, Places, TypeOK, Terminal, Open, Sealed
  <2>3. CASE Mark(a)
    BY <2>3 DEF Mark, Unintended, Leave, NoIntent, LoserLetsGo, TypeOK
  <2>4. CASE Fresh(a)
    BY <2>4 DEF Fresh, Stealable, Unintended, LoserLetsGo, TokenPlace,
        WinnersPast, Reasons, Early, Places, TypeOK, Terminal, Open,
        Sealed
  <2>5. CASE Stale(a)  BY <2>5 DEF Stale, LoserLetsGo
  <2>6. CASE Escalate(a)
    BY <2>6 DEF Escalate, CommitFor, LoserLetsGo, TokenPlace,
        WinnersPast, Reasons, Early, Places, TypeOK, Terminal, Open,
        Sealed
  <2>7. CASE Steal(a)
    BY <2>7 DEF Steal, Leave, NoIntent, LoserLetsGo, TokenPlace,
        WinnersPast, Reasons, Early, Places, TypeOK, Terminal, Open,
        Sealed
  <2>8. CASE Commit(a)
    BY <2>8 DEF Commit, CommitFor, LoserLetsGo, TokenPlace, WinnersPast,
        Reasons, Early, Places, TypeOK, Intents, JobStatus, Calls,
        Reserved, Live, Terminal, Open, Sealed
  <2>9. CASE Inspect(a)
    BY <2>9 DEF Inspect, LoserLetsGo, TokenPlace, WinnersPast, Reasons,
        Early, Places, TypeOK, Terminal, Open, Sealed
  <2>10. CASE Claim(a)
    BY <2>10 DEF Claim, Closing, Abandon, LoserLetsGo, TokenPlace,
        WinnersPast, Reasons, Early, Places, TypeOK, Terminal, Open,
        Sealed
  <2>11. CASE Check(a)  BY <2>11 DEF Check, LoserLetsGo
  <2>12. CASE Release(a)  BY <2>12 DEF Release, LoserLetsGo
  <2>13. CASE EscalateOwn(a)
    BY <2>13 DEF EscalateOwn, CommitFor, LoserLetsGo, TokenPlace,
        WinnersPast, Reasons, Early, Places, TypeOK, Terminal, Open,
        Sealed
  <2>14. CASE Unset(a)
    BY <2>14 DEF Unset, NoIntent, LoserLetsGo, TokenPlace, WinnersPast,
        Reasons, Early, Places, TypeOK, Terminal, Open, Sealed
  <2> QED
    BY <1>2, <2>1, <2>2, <2>3, <2>4, <2>5, <2>6, <2>7, <2>8, <2>9, <2>10,
        <2>11, <2>12, <2>13, <2>14 DEF Attempting
<1>3. ASSUME NEW r \in Rider, Riding(r) PROVE LoserLetsGo'
  <2>1. CASE RiderRead(r)  BY <2>1 DEF RiderRead, LoserLetsGo
  <2>2. CASE RiderCheck(r)
    BY <2>2 DEF RiderCheck, Forget, LoserLetsGo, TypeOK
  <2>3. CASE RiderWrite(r)
    BY <2>3 DEF RiderWrite, Forget, Advances, Advance, Unintended,
        LoserLetsGo, Places, TypeOK, Live, Terminal, Open, Sealed
  <2> QED  BY <1>3, <2>1, <2>2, <2>3 DEF Riding
<1>4. ASSUME NEW p \in Publisher, Publishing(p) PROVE LoserLetsGo'
  <2>1. CASE Sync(p)  BY <2>1 DEF Sync, LoserLetsGo
  <2>2. CASE Find(p)
    BY <2>2 DEF Find, Active, After, LoserLetsGo, TypeOK, Live, Terminal,
        Open, Sealed
  <2>3. CASE Insert(p)
    BY <2>3 DEF Insert, Active, LoserLetsGo, TokenPlace, WinnersPast,
        Reasons, Early, Places, TypeOK, Terminal, Open, Sealed
  <2>4. CASE Recheck(p)  BY <2>4 DEF Recheck, LoserLetsGo
  <2>5. CASE Clear(p)  BY <2>5 DEF Clear, LoserLetsGo
  <2> QED  BY <1>4, <2>1, <2>2, <2>3, <2>4, <2>5 DEF Publishing
<1>5. ASSUME NEW p \in Process, Propagate(p) PROVE LoserLetsGo'
  BY <1>5 DEF Propagate, Active, After, LoserLetsGo, TokenPlace,
      WinnersPast, Reasons, Early, Places, TypeOK, Terminal, Open, Sealed
<1>6. ASSUME NEW p \in Process, CancelActive(p) PROVE LoserLetsGo'
  BY <1>6 DEF CancelActive, Active, After, LoserLetsGo, TokenPlace,
      WinnersPast, Reasons, Early, Places, TypeOK, Terminal, Open, Sealed
<1>7. ASSUME NEW s \in Live, StaffMove(s) PROVE LoserLetsGo'
  BY <1>7 DEF StaffMove, LoserLetsGo, Live, Terminal, Open, Sealed
<1>8. ASSUME NEW j \in Job, StaffCancel(j) PROVE LoserLetsGo'
  BY <1>8 DEF StaffCancel, LoserLetsGo, Live, Terminal, Open, Sealed
<1>9. ASSUME NEW j \in Job, Confirm(j) PROVE LoserLetsGo'
  BY <1>9 DEF Confirm, LoserLetsGo, Live, Terminal, Open, Sealed
<1>10. ASSUME NEW j \in Job, Settle(j) PROVE LoserLetsGo'
  BY <1>10 DEF Settle, LoserLetsGo, Live, Terminal, Open, Sealed
<1>11. ASSUME NEW j \in Job, Age(j) PROVE LoserLetsGo'
  BY <1>11 DEF Age, Unintended, LoserLetsGo
<1>12. ASSUME NEW p \in Attempt \cup Syncer, Crash(p) PROVE LoserLetsGo'
  BY <1>12 DEF Crash, LoserLetsGo, TypeOK
<1> QED
  BY <1>1, <1>2, <1>3, <1>4, <1>5, <1>6, <1>7, <1>8, <1>9, <1>10, <1>11,
      <1>12 DEF Next

-----------------------------------------------------------------------------
\* The initial state satisfies the invariant: no attempt has a token anywhere.
LEMMA InitIInv == Init => IInv
<1> SUFFICES ASSUME Init PROVE IInv
  OBVIOUS
<1> USE CancelIntentAssumption DEF Init, Process, Attempt, Publisher
<1>1. TypeOK
  BY DEF TypeOK, Live, Terminal, JobStatus, Open, Sealed, Intents, NoIntent,
         Calls, Reserved
<1>2. Places
  BY DEF Places
<1>3. TokenPlace
  BY DEF TokenPlace, NoIntent
<1>4. WinnersPast /\ Reasons /\ RefundProtected /\ LoserLetsGo
  BY DEF WinnersPast, Reasons, RefundProtected, LoserLetsGo
<1> QED
  BY <1>1, <1>2, <1>3, <1>4 DEF IInv

\* Every step preserves the invariant.
LEMMA Inductive == IInv /\ [Next]_vars => IInv'
<1> SUFFICES ASSUME IInv, [Next]_vars PROVE IInv'
  OBVIOUS
<1> USE DEF IInv
<1>1. TypeOK' /\ Places'
  BY TypeStep, PlacesStep
<1>2. TokenPlace' /\ WinnersPast' /\ Reasons'
  BY TokenStep, WinnersStep, ReasonsStep
<1>3. RefundProtected' /\ LoserLetsGo'
  BY ProtectedStep, LoserStep
<1> QED
  BY <1>1, <1>2, <1>3

\* The protocol of origin_cancel_intent keeps its invariant, for any number of
\* attempts, couriers' calls, publications and deliveries.
THEOREM Invariant == Spec => []IInv
  BY InitIInv, Inductive, PTL DEF Spec

\* The protocol's documents and processes keep their types.
THEOREM TypeCorrect == Spec => []TypeOK
<1>1. IInv => TypeOK
  BY DEF IInv
<1> QED
  BY <1>1, Invariant, PTL

\* An attempt about to refund, or that did, finds the delivery it reserved
\* cancelled, or open under its own committed intent (_claim_entering_rejected
\* and cancel_own_withdrawal against the courier's seal).
THEOREM Protection == Spec => []RefundProtected
<1>1. IInv => RefundProtected
  BY DEF IInv
<1> QED
  BY <1>1, Invariant, PTL

\* An attempt that ended without refunding holds no open delivery of a live
\* withdrawal (force_release_origin_cancel_intent).
THEOREM LettingGo == Spec => []LoserLetsGo
<1>1. IInv => LoserLetsGo
  BY DEF IInv
<1> QED
  BY <1>1, Invariant, PTL

-----------------------------------------------------------------------------
(* No hidden movement.  The only winner propagates after it closed the     *)
(* withdrawal: from then on no courier's request passes the check of the   *)
(* origin, and the one delivery that is not cancelled is cancelled, or     *)
(* flagged, by the winner's own write.                                     *)

OneActive == \A i, j \in Active : i = j

\* One attempt closes the withdrawal, and it stays closed.
Closes ==
  /\ \A a \in Attempt : seen[a] \in Live
  /\ \A a, b \in won : a = b
  /\ won # {} => origin \in Terminal

\* A delivery read as arrived does not go back to an earlier state.
ReadArrived ==
  \A r \in Rider :
    at[r] \in {"checkOrigin", "write"} /\ seen[r] = "arrived"
      => status[on[r]] \in {"arrived", "delivered", "confirmed", "cancelled"}

\* Those that refunded have finished.
Finished == won # {} /\ \A a \in won : at[a] = "done"

\* Then what is sealed is flagged, and no courier is about to seal more.
Told ==
  Finished =>
    /\ \A j \in Job : status[j] \in Sealed => j \in flagged
    /\ \A r \in Rider : at[r] = "write" /\ seen[r] = "arrived"
                          => status[on[r]] # "arrived"

NInv == OneActive /\ Closes /\ ReadArrived /\ Told

\* How one step may move the deliveries: each stays, advances or is
\* cancelled, or one is published while none is active.
JobMoves ==
  \/ \A j \in Job :
       \/ status'[j] = status[j]
       \/ status[j] \in Open \cup Sealed /\ status'[j] = "cancelled"
       \/ status[j] \in Open /\ status'[j] = Advance[status[j]]
       \/ status[j] = "delivered" /\ status'[j] = "confirmed"
  \/ /\ Active = {}
     /\ \E k \in Job : /\ status[k] = "absent"
                       /\ status' = [status EXCEPT ![k] = "available"]

LEMMA JobsStep ==
  ASSUME TypeOK, Places, [Next]_vars
  PROVE  JobMoves
<1> USE DEF jobVars, local, ghost, TypeOK
<1>1. CASE UNCHANGED status
  BY <1>1 DEF JobMoves
<1>2. ASSUME NEW a \in Attempt, Attempting(a) PROVE UNCHANGED status
  BY <1>2 DEF Attempting, Start, Reserve, Mark, Fresh, Stale, Escalate, Steal,
      Commit, Inspect, Claim, Check, Release, EscalateOwn, Unset
<1>3. ASSUME NEW r \in Rider, Riding(r) PROVE JobMoves
  <2>1. CASE RiderRead(r) \/ RiderCheck(r)
    BY <2>1, <1>1 DEF RiderRead, RiderCheck
  <2>2. CASE RiderWrite(r)
    BY <2>2 DEF RiderWrite, Advances, Places, JobMoves
  <2> QED  BY <1>3, <2>1, <2>2 DEF Riding
<1>4. ASSUME NEW p \in Publisher, Publishing(p) PROVE JobMoves
  <2>1. CASE Sync(p) \/ Recheck(p) \/ Clear(p)
    BY <2>1, <1>1 DEF Sync, Recheck, Clear
  <2>2. CASE Find(p)
    BY <2>2 DEF Find, Active, JobMoves, JobStatus
  <2>3. CASE Insert(p)
    BY <2>3 DEF Insert, JobMoves
  <2> QED  BY <1>4, <2>1, <2>2, <2>3 DEF Publishing
<1>5. ASSUME NEW p \in Process, Propagate(p) PROVE UNCHANGED status
  BY <1>5 DEF Propagate
<1>6. ASSUME NEW p \in Process, CancelActive(p) PROVE JobMoves
  BY <1>6 DEF CancelActive, Active, JobMoves
<1>7. ASSUME NEW j \in Job, StaffCancel(j) PROVE JobMoves
  BY <1>7 DEF StaffCancel, JobMoves, Sealed
<1>8. ASSUME NEW j \in Job, Confirm(j) PROVE JobMoves
  BY <1>8 DEF Confirm, JobMoves
<1>9. CASE \/ UNCHANGED vars
           \/ \E s \in Live : StaffMove(s)
           \/ \E j \in Job : Settle(j) \/ Age(j)
           \/ \E p \in Attempt \cup Syncer : Crash(p)
  BY <1>1, <1>9 DEF vars, StaffMove, Settle, Age, Crash
<1> QED
  BY <1>1, <1>2, <1>3, <1>4, <1>5, <1>6, <1>7, <1>8, <1>9 DEF Next

\* The key of the active deliveries stays unique.
LEMMA OneActiveStep ==
  ASSUME TypeOK, Places, OneActive, [Next]_vars
  PROVE  OneActive'
<1> USE DEF Active, OneActive, TypeOK
<1>1. JobMoves
  BY JobsStep
<1>2. CASE Active' \subseteq Active
  BY <1>2
<1>3. ASSUME NEW k \in Job, Active = {},
             status' = [status EXCEPT ![k] = "available"]
      PROVE  OneActive'
  BY <1>3
<1>4. CASE \A j \in Job :
             \/ status'[j] = status[j]
             \/ status[j] \in Open \cup Sealed /\ status'[j] = "cancelled"
             \/ status[j] \in Open /\ status'[j] = Advance[status[j]]
             \/ status[j] = "delivered" /\ status'[j] = "confirmed"
  BY <1>2, <1>4 DEF Open, Sealed
<1> QED
  BY <1>1, <1>3, <1>4 DEF JobMoves

\* A winner needs the withdrawal alive, and nothing opens a closed one.
LEMMA ClosesStep ==
  ASSUME TypeOK, Places, Closes, [Next]_vars
  PROVE  Closes'
<1> USE CancelIntentAssumption DEF jobVars, local, ghost, Process, Attempt,
    Publisher, Closes, TypeOK, Live, Terminal
<1>1. CASE UNCHANGED <<origin, won, seen>>
  BY <1>1
<1>2. ASSUME NEW a \in Attempt, Attempting(a) PROVE Closes'
  <2>1. CASE Start(a)
    BY <2>1 DEF Start
  <2>2. CASE Claim(a)
    BY <2>2 DEF Claim, Closing
  <2>3. CASE ~Start(a) /\ ~Claim(a)
    BY <1>1, <1>2, <2>3 DEF Attempting, Reserve, Mark, Fresh, Stale, Escalate,
        Steal, Commit, Inspect, Check, Release, EscalateOwn, Unset
  <2> QED  BY <2>1, <2>2, <2>3
<1>3. ASSUME NEW r \in Rider, Riding(r) PROVE Closes'
  BY <1>3 DEF Riding, RiderRead, RiderCheck, RiderWrite, Forget
<1>4. ASSUME NEW p \in Publisher, Publishing(p) PROVE UNCHANGED <<origin, won, seen>>
  BY <1>4 DEF Publishing, Sync, Find, Insert, Recheck, Clear
<1>5. ASSUME NEW p \in Process, Propagate(p) \/ CancelActive(p)
      PROVE  UNCHANGED <<origin, won, seen>>
  BY <1>5 DEF Propagate, CancelActive
<1>6. ASSUME NEW s \in Live, StaffMove(s) PROVE Closes'
  BY <1>6 DEF StaffMove
<1>7. ASSUME NEW j \in Job, Settle(j) PROVE Closes'
  BY <1>7 DEF Settle
<1>8. CASE \/ UNCHANGED vars
           \/ \E j \in Job : StaffCancel(j) \/ Confirm(j) \/ Age(j)
           \/ \E p \in Attempt \cup Syncer : Crash(p)
  BY <1>1, <1>8 DEF vars, StaffCancel, Confirm, Age, Crash
<1> QED
  BY <1>1, <1>2, <1>3, <1>4, <1>5, <1>6, <1>7, <1>8 DEF Next

\* How a courier's request gets to the check of the origin and to its write.
RiderMoves ==
  \A r \in Rider :
    /\ at'[r] = "checkOrigin" =>
         \/ at[r] = "checkOrigin" /\ on'[r] = on[r] /\ seen'[r] = seen[r]
         \/ on'[r] \in Job /\ status[on'[r]] = seen'[r] /\ UNCHANGED status
    /\ at'[r] = "write" =>
         /\ at[r] \in {"checkOrigin", "write"}
         /\ on'[r] = on[r] /\ seen'[r] = seen[r]
         /\ at[r] = "checkOrigin" => origin \in Live /\ UNCHANGED status

LEMMA RidersStep ==
  ASSUME TypeOK, Places, [Next]_vars
  PROVE  RiderMoves
<1> USE CancelIntentAssumption DEF jobVars, local, ghost, Process, Attempt,
    Publisher, RiderMoves, TypeOK, Goto
<1>1. CASE UNCHANGED <<at, on, seen>>
  BY <1>1
<1>2. ASSUME NEW p \in Process \ Rider,
             \A q \in Process \ {p} : /\ at'[q] = at[q] /\ on'[q] = on[q]
                                      /\ seen'[q] = seen[q]
      PROVE  RiderMoves
  BY <1>2
<1>3. ASSUME NEW a \in Attempt, Attempting(a) PROVE RiderMoves
  <2>1. \A q \in Process \ {a} : /\ at'[q] = at[q] /\ on'[q] = on[q]
                                 /\ seen'[q] = seen[q]
    BY <1>3 DEF Attempting, Start, Reserve, Mark, Fresh, Stale, Escalate, Steal,
        Commit, Inspect, Claim, Check, Release, EscalateOwn, Unset
  <2> QED  BY <1>2, <2>1
<1>4. ASSUME NEW r \in Rider, Riding(r) PROVE RiderMoves
  <2>1. CASE RiderRead(r)  BY <2>1 DEF RiderRead
  <2>2. CASE RiderCheck(r)  BY <2>2 DEF RiderCheck, Forget
  <2>3. CASE RiderWrite(r)  BY <2>3 DEF RiderWrite, Forget
  <2> QED  BY <1>4, <2>1, <2>2, <2>3 DEF Riding
<1>5. ASSUME NEW p \in Publisher, Publishing(p) PROVE RiderMoves
  <2>1. \A q \in Process \ {p} : /\ at'[q] = at[q] /\ on'[q] = on[q]
                                 /\ seen'[q] = seen[q]
    BY <1>5 DEF Publishing, Sync, Find, Insert, Recheck, Clear
  <2> QED  BY <1>2, <2>1
<1>6. ASSUME NEW p \in Process, Propagate(p) \/ CancelActive(p) PROVE RiderMoves
  <2>1. /\ \A q \in Process \ {p} : at'[q] = at[q]
        /\ UNCHANGED <<on, seen>>
        /\ at'[p] \in {"idle", "clear", "done", "cancel", "propagate"}
    BY <1>6 DEF Propagate, CancelActive, After
  <2> QED  BY <2>1
<1>7. ASSUME NEW p \in Attempt \cup Syncer, Crash(p) PROVE RiderMoves
  <2>1. \A q \in Process \ {p} : /\ at'[q] = at[q] /\ on'[q] = on[q]
                                 /\ seen'[q] = seen[q]
    BY <1>7 DEF Crash
  <2> QED  BY <1>2, <1>7, <2>1
<1>8. CASE \/ UNCHANGED vars
           \/ \E s \in Live : StaffMove(s)
           \/ \E j \in Job : StaffCancel(j) \/ Confirm(j) \/ Settle(j) \/ Age(j)
  BY <1>1, <1>8 DEF vars, StaffMove, StaffCancel, Confirm, Settle, Age
<1> QED
  BY <1>1, <1>3, <1>4, <1>5, <1>6, <1>7, <1>8 DEF Next

LEMMA ReadArrivedStep ==
  ASSUME TypeOK, Places, ReadArrived, [Next]_vars
  PROVE  ReadArrived'
<1>1. JobMoves /\ RiderMoves
  BY JobsStep, RidersStep
<1> SUFFICES ASSUME NEW r \in Rider, at'[r] \in {"checkOrigin", "write"},
                    seen'[r] = "arrived"
             PROVE  status'[on'[r]] \in {"arrived", "delivered", "confirmed",
                                         "cancelled"}
  BY DEF ReadArrived
<1> DEFINE Late == {"arrived", "delivered", "confirmed", "cancelled"}
<1>2. CASE on'[r] = on[r] /\ seen'[r] = seen[r] /\ at[r] \in {"checkOrigin", "write"}
  <2>1. status[on[r]] \in Late /\ on[r] \in Job
    BY <1>2 DEF ReadArrived, Places
  <2>2. \A j \in Job : status[j] \in Late => status'[j] \in Late
    BY <1>1 DEF JobMoves, Open, Advance, TypeOK
  <2> QED
    BY <1>2, <2>1, <2>2
<1>3. CASE status[on'[r]] = seen'[r] /\ UNCHANGED status
  BY <1>3
<1> QED
  BY <1>1, <1>2, <1>3 DEF RiderMoves

\* Once told, the movement stays told: no delivery is sealed any more.
LEMMA TellingStays ==
  ASSUME TypeOK, Places, Closes, ReadArrived, Told, Finished, [Next]_vars,
         won' = won
  PROVE  /\ \A j \in Job : status'[j] \in Sealed => j \in flagged'
         /\ \A r \in Rider : at'[r] = "write" /\ seen'[r] = "arrived"
                               => status'[on'[r]] # "arrived"
<1> USE CancelIntentAssumption
<1>1. origin \notin Live
  BY DEF Finished, Closes, Live, Terminal
<1>2. JobMoves /\ RiderMoves
  BY JobsStep, RidersStep
<1>3. flagged \subseteq flagged'
  BY DEF Next, vars, jobVars, Attempting, Start, Reserve, Mark, Fresh, Stale,
      Escalate, Steal, Commit, Inspect, Claim, Check, Release, EscalateOwn, Unset,
      Riding, RiderRead, RiderCheck, RiderWrite, Publishing, Sync, Find, Insert,
      Recheck, Clear, Propagate, CancelActive, StaffMove, StaffCancel, Confirm,
      Settle, Age, Crash
<1>4. \A j \in Job : status'[j] \in Sealed => status[j] \in Sealed
  <2>1. ASSUME NEW r \in Rider, RiderWrite(r)
        PROVE  \A j \in Job : status'[j] \in Sealed => status[j] \in Sealed
    BY <2>1 DEF RiderWrite, Advances, Advance, Told, Places, TypeOK, Open, Sealed
  <2>2. ASSUME NEW j \in Job, status'[j] \in Sealed, status[j] \notin Sealed
        PROVE  \E r \in Rider : RiderWrite(r)
    BY <2>2 DEF Next, vars, jobVars, Attempting, Start, Reserve, Mark, Fresh, Stale,
        Escalate, Steal, Commit, Inspect, Claim, Check, Release, EscalateOwn,
        Unset, Riding, RiderRead, RiderCheck, Publishing, Sync, Find, Insert,
        Recheck, Clear, Propagate, CancelActive, StaffMove, StaffCancel, Confirm,
        Settle, Age, Crash, TypeOK, Sealed
  <2> QED
    BY <2>1, <2>2
<1>5. ASSUME NEW r \in Rider, at'[r] = "write", seen'[r] = "arrived"
      PROVE  status'[on'[r]] # "arrived"
  <2>1. /\ at[r] = "write" /\ on'[r] = on[r] /\ seen[r] = "arrived"
        /\ on[r] \in Job
    BY <1>1, <1>2, <1>5 DEF RiderMoves, Places
  <2>2. status[on[r]] \in {"delivered", "confirmed", "cancelled"}
    BY <2>1 DEF Told, ReadArrived
  <2> QED
    BY <1>2, <2>1, <2>2 DEF JobMoves, Open, TypeOK
<1> QED
  BY <1>3, <1>4, <1>5 DEF Told

\* A winner is done by its own propagation.
LEMMA WinnerEnds ==
  ASSUME TypeOK, Places, WinnersPast, [Next]_vars,
         NEW a \in won, at[a] # "done", at'[a] = "done"
  PROVE  Propagate(a) \/ CancelActive(a)
<1> USE CancelIntentAssumption DEF Process, Attempt, Publisher, Goto
<1>1. a \in Attempt /\ at[a] \in {"propagate", "cancel", "dead"}
  BY DEF TypeOK, WinnersPast
<1>2. ASSUME NEW q \in Process \ {a}, at' = [at EXCEPT ![q] = at'[q]] PROVE FALSE
  BY <1>1, <1>2 DEF TypeOK
<1>3. ASSUME NEW b \in Attempt, Attempting(b) PROVE FALSE
  <2>1. CASE a = b
    BY <1>1, <1>3, <2>1 DEF Attempting, Start, Reserve, Mark, Fresh, Stale,
        Escalate, Steal, Commit, Inspect, Claim, Check, Release, EscalateOwn, Unset
  <2>2. CASE a # b
    BY <1>1, <1>3, <2>2 DEF TypeOK, Attempting, Start, Reserve, Mark, Fresh,
        Stale, Escalate, Steal, Commit, Inspect, Claim, Check, Release,
        EscalateOwn, Unset
  <2> QED  BY <2>1, <2>2
<1>4. ASSUME NEW r \in Rider, Riding(r) PROVE FALSE
  BY <1>1, <1>4 DEF TypeOK, Riding, RiderRead, RiderCheck, RiderWrite
<1>5. ASSUME NEW p \in Publisher, Publishing(p) PROVE FALSE
  BY <1>1, <1>5 DEF TypeOK, Publishing, Sync, Find, Insert, Recheck, Clear
<1>6. ASSUME NEW p \in Process \ {a}, Propagate(p) \/ CancelActive(p) PROVE FALSE
  BY <1>1, <1>6 DEF TypeOK, Propagate, CancelActive
<1>7. ASSUME NEW p \in Attempt \cup Syncer, Crash(p) PROVE FALSE
  BY <1>1, <1>7 DEF TypeOK, Crash
<1>8. CASE \/ UNCHANGED vars
           \/ \E s \in Live : StaffMove(s)
           \/ \E j \in Job : StaffCancel(j) \/ Confirm(j) \/ Settle(j) \/ Age(j)
  BY <1>8 DEF vars, StaffMove, StaffCancel, Confirm, Settle, Age
<1> QED
  BY <1>3, <1>4, <1>5, <1>6, <1>7, <1>8 DEF Next

\* Nobody wins a closed withdrawal, and who wins still has to propagate.
LEMMA WonStep ==
  ASSUME TypeOK, Closes, [Next]_vars, won' # won
  PROVE  ~Finished /\ ~Finished'
<1>1. PICK a \in Attempt : Claim(a)
  BY DEF Next, vars, ghost, jobVars, Attempting, Start, Reserve, Mark, Fresh,
      Stale, Escalate, Steal, Commit, Inspect, Check, Release, EscalateOwn, Unset,
      Riding, RiderRead, RiderCheck, RiderWrite, Publishing, Sync, Find, Insert,
      Recheck, Clear, Propagate, CancelActive, StaffMove, StaffCancel, Confirm,
      Settle, Age, Crash
<1>2. origin = seen[a] /\ a \in won' /\ at'[a] = "propagate"
  BY <1>1 DEF Claim, Goto, TypeOK, Process
<1>3. won = {}
  BY <1>2 DEF Closes, Live, Terminal
<1> QED
  BY <1>2, <1>3 DEF Finished

LEMMA ToldStep ==
  ASSUME TypeOK, Places, WinnersPast, OneActive, Closes, ReadArrived, Told,
         [Next]_vars
  PROVE  Told'
<1> SUFFICES ASSUME Finished' PROVE Told'
  BY DEF Told
<1>1. won' = won
  BY WonStep
<1>2. CASE Finished
  BY <1>1, <1>2, TellingStays DEF Told
<1>3. CASE ~Finished
  <2>1. PICK a \in won : at[a] # "done" /\ at'[a] = "done"
    BY <1>1, <1>3 DEF Finished
  <2>2. a \in Attempt /\ a \in Process
    BY <2>1 DEF TypeOK, Process
  <2>3. RiderMoves
    BY RidersStep
  <2>4. \A r \in Rider : at'[r] = "write" => on'[r] \in Job
    BY <2>3 DEF RiderMoves, Places
  <2>5. CASE Propagate(a)
    <3>1. CASE Active = {}
      BY <2>4, <2>5, <3>1 DEF Propagate, Told, Active, Sealed, TypeOK
    <3>2. CASE Active # {}
      <4>1. PICK j \in Active : status[j] \in Sealed /\ flagged' = flagged \cup {j}
        BY <2>1, <2>2, <2>5, <3>2 DEF Propagate, Goto, TypeOK
      <4>2. \A k \in Job : status[k] \in Sealed \cup {"arrived"} => k = j
        BY <4>1 DEF OneActive, Active, Sealed
      <4>3. UNCHANGED status
        BY <2>5 DEF Propagate
      <4> QED
        BY <2>4, <4>1, <4>2, <4>3 DEF Told, Sealed
    <3> QED
      BY <3>1, <3>2
  <2>6. CASE CancelActive(a)
    <3>1. PICK j \in Active : status' = [status EXCEPT ![j] = "cancelled"]
      BY <2>1, <2>2, <2>6 DEF CancelActive, Goto, TypeOK
    <3>2. \A k \in Job : status'[k] \notin Sealed \cup {"arrived"}
      BY <3>1 DEF OneActive, Active, Sealed, TypeOK
    <3> QED
      BY <2>4, <3>2 DEF Told
  <2> QED
    BY <2>1, <2>5, <2>6, WinnerEnds
<1> QED
  BY <1>2, <1>3

\* The strengthening holds from the start, and every step keeps it.
LEMMA InitNInv == Init => NInv
<1> USE CancelIntentAssumption DEF Init, NInv, Process, Attempt
<1>1. Init => OneActive
  BY DEF OneActive, Active
<1>2. Init => Closes /\ ReadArrived /\ Told
  BY DEF Closes, ReadArrived, Told, Finished, Live
<1> QED
  BY <1>1, <1>2

LEMMA NInductive == IInv /\ NInv /\ [Next]_vars => NInv'
  BY OneActiveStep, ClosesStep, ReadArrivedStep, ToldStep DEF IInv, NInv

\* A sealed delivery of a refunded withdrawal is not hidden: once the requests
\* that refunded have finished it carries its origin_conflict, whatever the
\* courier, the staff and the publications did meanwhile (handle_origin_rejected
\* and cancel_active_delivery).
THEOREM MovementTold == Spec => []NoHiddenMovement
<1>1. Told => NoHiddenMovement
  BY DEF Told, Finished, NoHiddenMovement
<1>2. Spec => []NInv
  BY InitNInv, NInductive, Invariant, PTL DEF Spec
<1>3. NInv => Told
  BY DEF NInv
<1> QED
  BY <1>1, <1>2, <1>3, PTL
=============================================================================

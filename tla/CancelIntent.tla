---------------------------- MODULE CancelIntent ----------------------------
(***************************************************************************)
(* One withdrawal and the deliveries of its cash.  The client cancels, or  *)
(* the staff rejects, with a refund; the courier seals the delivery; fee   *)
(* changes publish new deliveries.  The two documents are written by       *)
(* separate calls, so a refund first reserves the delivery: it leaves its  *)
(* origin_cancel_intent in the delivery under a token of its own, commits  *)
(* it, and only then claims the withdrawal.  The courier's seal requires   *)
(* that the delivery holds no intent.                                      *)
(*                                                                         *)
(* Every action is one database call with the code up to the next one.     *)
(* The refund itself is module Withdrawals': here the withdrawal is its    *)
(* status, rejected or cancelled meaning refunded, and a closed withdrawal *)
(* stays closed.                                                           *)
(*                                                                         *)
(* An operator named after a definition with a suffix (CommitAnyToken,     *)
(* ...) is a mistake the code avoids: the runs find the property it        *)
(* breaks, and nothing else uses it.                                       *)
(***************************************************************************)

CONSTANTS Client,    \* requests to cancel the client's own withdrawal
          Staff,     \* requests to reject it
          Rider,     \* the courier's requests, one at a time each
          Creator,   \* the creation of the withdrawal, about to publish
          Syncer,    \* synchronisations after fee changes, and the healer's
          Job,       \* the ids of its deliveries
          Published, \* those published at the start
          None

Attempt == Client \cup Staff
Publisher == Creator \cup Syncer
Process == Attempt \cup Rider \cup Publisher

ASSUME CancelIntentAssumption ==
  /\ Client \cap Staff = {}
  /\ Attempt \cap (Rider \cup Publisher) = {}
  /\ Rider \cap Publisher = {} /\ Creator \cap Syncer = {}
  /\ Published \subseteq Job
  /\ \A j, k \in Published : j = k
  /\ None \notin Job \cup Attempt

VARIABLES origin,    \* the status of the withdrawal
          status,    \* Job -> the status of the delivery
          intent,    \* Job -> its origin_cancel_intent
          unchecked, \* the deliveries with needs_origin_check
          settling,  \* those with settlement_pending
          flagged,   \* those with origin_conflict
          at, on,    \* process -> its next call, and the delivery it is on
          seen,      \* process -> the status it read and its write expects
          rival,     \* attempt -> the token it may steal from
          won,       \* the attempts that claimed the withdrawal, refunding it
          handed     \* the deliveries whose cash was handed over

jobVars == <<status, intent, unchecked, settling, flagged>>
local == <<on, seen, rival>>
ghost == <<won, handed>>
vars == <<origin, jobVars, at, local, ghost>>

\* Nothing here tells the status approved from paid.
Live == {"pending", "paid"}
Terminal == {"rejected", "cancelled"}   \* TERMINAL_REF_STATUSES

Open == {"available", "accepted", "on_the_way", "arrived"}
Sealed == {"delivered", "confirmed"}
JobStatus == Open \cup Sealed \cup {"absent", "cancelled"}

\* old: the intent was left more than 120 seconds ago.
NoIntent == [token |-> None, committed |-> FALSE, old |-> FALSE]
Intents == [token : Attempt \cup {None}, committed : BOOLEAN, old : BOOLEAN]

\* The calls of an attempt that reserved a delivery.
Reserved == {"mark", "fresh", "stale", "escalate", "steal", "commit",
             "inspect", "check", "release", "escalateOwn", "unset"}
Calls == Reserved \cup {"idle", "reserve", "claim", "propagate", "cancel",
                        "checkOrigin", "write", "find", "insert", "recheck",
                        "clear", "done", "dead"}

TypeOK ==
  /\ origin \in Live \cup Terminal
  /\ status \in [Job -> JobStatus]
  /\ intent \in [Job -> Intents]
  /\ unchecked \subseteq Job /\ settling \subseteq Job /\ flagged \subseteq Job
  /\ at \in [Process -> Calls]
  /\ on \in [Process -> Job \cup {None}]
  /\ seen \in [Process -> Live \cup JobStatus]
  /\ rival \in [Attempt -> Attempt \cup {None}]
  /\ won \subseteq Attempt
  /\ handed \subseteq Job
  /\ \A a \in Attempt : at[a] \in Reserved => on[a] \in Job

Init ==
  /\ origin = "pending"
  /\ status = [j \in Job |-> IF j \in Published THEN "available" ELSE "absent"]
  /\ intent = [j \in Job |-> NoIntent]
  /\ unchecked = {} /\ settling = {} /\ flagged = {}
  /\ at = [p \in Process |-> IF p \in Creator THEN "find" ELSE "idle"]
  /\ on = [p \in Process |-> None]
  /\ seen = [p \in Process |-> "pending"]
  /\ rival = [a \in Attempt |-> None]
  /\ won = {}
  /\ handed = {}

Goto(p, call) == at' = [at EXCEPT ![p] = call]

\* The unique active_key: at most one delivery is not cancelled.
Active == {j \in Job : status[j] \notin {"absent", "cancelled"}}

Unintended(j) == intent[j].token = None

-----------------------------------------------------------------------------
(* cancel_own_withdrawal and _claim_entering_rejected                      *)

\* The client's claim expects a pending withdrawal, whatever it is at first; the
\* staff's, the status it read.
Start(a) ==
  /\ at[a] = "idle"
  /\ a \in Staff => origin \in Live
  /\ seen' = [seen EXCEPT ![a] = IF a \in Client THEN "pending" ELSE origin]
  /\ Goto(a, "reserve")
  /\ UNCHANGED <<origin, jobVars, on, rival, ghost>>

\* reserve_origin_cancel_intent: the active delivery, if there is one.
Reserve(a) ==
  /\ at[a] = "reserve"
  /\ \/ /\ Active = {}
        /\ Goto(a, "claim")
        /\ UNCHANGED on
     \/ \E j \in Active :
          \/ status[j] \in Sealed /\ Goto(a, "done") /\ UNCHANGED on
          \/ /\ status[j] \in Open
             /\ Goto(a, "mark")
             /\ on' = [on EXCEPT ![a] = j]
  /\ UNCHANGED <<origin, jobVars, seen, rival, ghost>>

Leave(a, j) ==
  intent' = [intent EXCEPT ![j] = [token |-> a, committed |-> FALSE, old |-> FALSE]]

Mark(a) == LET j == on[a] IN
  /\ at[a] = "mark"
  /\ IF status[j] \in Open /\ Unintended(j)
     THEN Leave(a, j) /\ Goto(a, "commit")
     ELSE Goto(a, "fresh") /\ UNCHANGED intent
  /\ UNCHANGED <<origin, status, unchecked, settling, flagged, local, ghost>>

\* An old intent that is not committed may be an orphan: look closer.
Stealable(j) ==
  ~Unintended(j) /\ intent[j].old /\ ~intent[j].committed

Fresh(a) == LET j == on[a] IN
  /\ at[a] = "fresh"
  /\ IF status[j] \notin Sealed /\ Stealable(j)
     THEN /\ rival' = [rival EXCEPT ![a] = intent[j].token]
          /\ Goto(a, "stale")
     ELSE Goto(a, "done") /\ UNCHANGED rival
  /\ UNCHANGED <<origin, jobVars, on, seen, ghost>>

\* _origin_refund_committed: an intent under which the withdrawal was
\* refunded is committed for its owner instead of stolen.
Stale(a) ==
  /\ at[a] = "stale"
  /\ Goto(a, IF origin \in Terminal THEN "escalate" ELSE "steal")
  /\ UNCHANGED <<origin, jobVars, local, ghost>>

CommitFor(token, j) ==
  intent' = [intent EXCEPT ![j].committed = @ \/ intent[j].token = token]

Escalate(a) ==
  /\ at[a] = "escalate"
  /\ CommitFor(rival[a], on[a])
  /\ Goto(a, "done")
  /\ UNCHANGED <<origin, status, unchecked, settling, flagged, local, ghost>>

Steal(a) == LET j == on[a] IN
  /\ at[a] = "steal"
  /\ IF /\ status[j] \in Open
        /\ intent[j].token = rival[a]
        /\ ~intent[j].committed
     THEN Leave(a, j) /\ Goto(a, "commit")
     ELSE Goto(a, "done") /\ UNCHANGED intent
  /\ UNCHANGED <<origin, status, unchecked, settling, flagged, local, ghost>>

CommitAnyToken(a) == LET j == on[a] IN
  /\ at[a] = "commit"
  /\ IF status[j] \in Open /\ ~Unintended(j)
     THEN CommitFor(intent[j].token, j) /\ Goto(a, "claim")
     ELSE Goto(a, "inspect") /\ UNCHANGED intent
  /\ UNCHANGED <<origin, status, unchecked, settling, flagged, local, ghost>>

\* commit_origin_cancel_intent: only the attempt's own intent.
Commit(a) == LET j == on[a] IN
  /\ at[a] = "commit"
  /\ IF status[j] \in Open /\ intent[j].token = a
     THEN CommitFor(a, j) /\ Goto(a, "claim")
     ELSE Goto(a, "inspect") /\ UNCHANGED intent
  /\ UNCHANGED <<origin, status, unchecked, settling, flagged, local, ghost>>

Inspect(a) ==
  /\ at[a] = "inspect"
  /\ Goto(a, IF status[on[a]] = "cancelled" THEN "claim" ELSE "done")
  /\ UNCHANGED <<origin, jobVars, local, ghost>>

Closing(a) == IF a \in Client THEN "cancelled" ELSE "rejected"

AbandonBlindly(a) == IF a \in Client THEN "check" ELSE "release"

\* A claim that lost abandons; one with a reservation gives it up first.
Abandon(a) ==
  IF on[a] = None THEN "done" ELSE IF a \in Client THEN "check" ELSE "release"

\* The refund, published with the status: module Withdrawals.
Claim(a) ==
  /\ at[a] = "claim"
  /\ IF origin = seen[a]
     THEN /\ origin' = Closing(a)
          /\ won' = won \cup {a}
          /\ Goto(a, "propagate")
     ELSE Goto(a, Abandon(a)) /\ UNCHANGED <<origin, won>>
  /\ UNCHANGED <<jobVars, local, handed>>

\* The client asks _origin_refund_committed before it forces the release.
Check(a) ==
  /\ at[a] = "check"
  /\ Goto(a, IF origin \in Terminal THEN "done" ELSE "release")
  /\ UNCHANGED <<origin, jobVars, local, ghost>>

\* force_release_origin_cancel_intent asks it (again).
Release(a) ==
  /\ at[a] = "release"
  /\ Goto(a, IF origin \in Terminal THEN "escalateOwn" ELSE "unset")
  /\ UNCHANGED <<origin, jobVars, local, ghost>>

EscalateOwn(a) ==
  /\ at[a] = "escalateOwn"
  /\ CommitFor(a, on[a])
  /\ Goto(a, "done")
  /\ UNCHANGED <<origin, status, unchecked, settling, flagged, local, ghost>>

UnsetUncommitted(a) == LET j == on[a] IN
  /\ at[a] = "unset"
  /\ intent' = [intent EXCEPT ![j] = IF @.token = a /\ ~@.committed
                                     THEN NoIntent ELSE @]
  /\ Goto(a, "done")
  /\ UNCHANGED <<origin, status, unchecked, settling, flagged, local, ghost>>

Unset(a) == LET j == on[a] IN
  /\ at[a] = "unset"
  /\ intent' = [intent EXCEPT ![j] = IF @.token = a THEN NoIntent ELSE @]
  /\ Goto(a, "done")
  /\ UNCHANGED <<origin, status, unchecked, settling, flagged, local, ghost>>

Attempting(a) ==
  \/ Start(a) \/ Reserve(a) \/ Mark(a) \/ Fresh(a) \/ Stale(a) \/ Escalate(a)
  \/ Steal(a) \/ Commit(a) \/ Inspect(a) \/ Claim(a) \/ Check(a)
  \/ Release(a) \/ EscalateOwn(a) \/ Unset(a)

-----------------------------------------------------------------------------
(* handle_origin_rejected, for whoever found the withdrawal closed         *)

\* Where a process goes on from its propagation.
After(p) ==
  IF p \in Rider THEN "idle"
  ELSE IF p \in Syncer THEN (IF on[p] # None THEN "clear" ELSE "idle")
  ELSE "done"

\* Its three tries need as many deliveries that change state in between.
Propagate(p) ==
  /\ at[p] = "propagate"
  /\ \/ /\ Active = {}
        /\ Goto(p, After(p))
        /\ UNCHANGED flagged
     \/ \E j \in Active :
          \/ /\ status[j] \in Sealed
             /\ flagged' = flagged \cup {j}
             /\ Goto(p, After(p))
          \/ /\ status[j] \in Open
             /\ Goto(p, "cancel")
             /\ UNCHANGED flagged
  /\ UNCHANGED <<origin, status, intent, unchecked, settling, local, ghost>>

CancelOnce(p) ==
  /\ at[p] = "cancel"
  /\ status' = [j \in Job |-> IF status[j] \in Open THEN "cancelled" ELSE status[j]]
  /\ Goto(p, After(p))
  /\ UNCHANGED <<origin, intent, unchecked, settling, flagged, local, ghost>>

\* cancel_active_delivery: the status at the moment of the write decides.
CancelActive(p) ==
  /\ at[p] = "cancel"
  /\ \/ \E j \in Active :
          /\ status[j] \in Open
          /\ status' = [status EXCEPT ![j] = "cancelled"]
          /\ Goto(p, After(p))
     \/ /\ Active \subseteq {j \in Job : status[j] \in Sealed}
        /\ Goto(p, "propagate")
        /\ UNCHANGED status
  /\ UNCHANGED <<origin, intent, unchecked, settling, flagged, local, ghost>>

-----------------------------------------------------------------------------
(* The courier: accept, on_the_way, arrived, delivered                     *)

RiderRead(r) == \E j \in Job :
  /\ at[r] = "idle"
  /\ status[j] \in Open
  /\ on' = [on EXCEPT ![r] = j]
  /\ seen' = [seen EXCEPT ![r] = status[j]]
  /\ Goto(r, "checkOrigin")
  /\ UNCHANGED <<origin, jobVars, rival, ghost>>

\* What the request read is gone with its answer.
Forget(r) ==
  /\ on' = [on EXCEPT ![r] = None]
  /\ seen' = [seen EXCEPT ![r] = "pending"]

RiderCheck(r) ==
  /\ at[r] = "checkOrigin"
  /\ \/ origin \in Terminal /\ Goto(r, "propagate") /\ Forget(r)
     \/ origin \in Live /\ Goto(r, "write") /\ UNCHANGED <<on, seen>>
  /\ UNCHANGED <<origin, jobVars, rival, ghost>>

\* _TRANSITIONS, and the acceptance before them.
Advance == [available |-> "accepted", accepted |-> "on_the_way",
            on_the_way |-> "arrived", arrived |-> "delivered"]

\* The filter of the write: accepting takes a checked delivery without an
\* intent, sealing one without an intent.
Advances(r) == LET j == on[r] IN
  /\ status[j] = seen[r]
  /\ seen[r] = "available" => j \notin unchecked
  /\ seen[r] \in {"available", "arrived"} => Unintended(j)

RiderWrite(r) ==
  /\ at[r] = "write"
  /\ status' = IF Advances(r)
               THEN [status EXCEPT ![on[r]] = Advance[seen[r]]]
               ELSE status
  /\ handed' = IF Advances(r) /\ seen[r] = "arrived"
               THEN handed \cup {on[r]} ELSE handed
  /\ Goto(r, "idle")
  /\ Forget(r)
  /\ UNCHANGED <<origin, intent, unchecked, settling, flagged, rival, won>>

Riding(r) == RiderRead(r) \/ RiderCheck(r) \/ RiderWrite(r)

-----------------------------------------------------------------------------
(* ensure_delivery_job and upsert_delivery_for_charge                      *)

\* sync_delivery_from_doc, after a fee change or from the healer, which
\* takes up the deliveries whose check was left undone.
Sync(p) ==
  /\ at[p] = "idle"
  /\ \/ UNCHANGED on
     \/ \E j \in unchecked : on' = [on EXCEPT ![p] = j]
  /\ Goto(p, IF origin \in Terminal THEN "propagate" ELSE "find")
  /\ UNCHANGED <<origin, jobVars, seen, rival, ghost>>

\* An active delivery is kept, unless the fee was annulled.
Find(p) ==
  /\ at[p] = "find"
  /\ \/ /\ Active = {}
        /\ Goto(p, "insert")
        /\ UNCHANGED status
     \/ /\ Active # {}
        /\ Goto(p, After(p))
        /\ UNCHANGED status
     \/ /\ p \in Syncer
        /\ \E j \in Active : /\ status[j] # "confirmed"
                             /\ status' = [status EXCEPT ![j] = "cancelled"]
        /\ Goto(p, After(p))
  /\ UNCHANGED <<origin, intent, unchecked, settling, flagged, local, ghost>>

\* A fee change publishes in two phases; the creation has just read its own
\* withdrawal and publishes at once.  The loser of active_key tries again.
Insert(p) ==
  /\ at[p] = "insert"
  /\ \/ /\ Active = {}
        /\ \E j \in Job :
             /\ status[j] = "absent"
             /\ status' = [status EXCEPT ![j] = "available"]
             /\ on' = [on EXCEPT ![p] = j]
             /\ unchecked' = IF p \in Syncer THEN unchecked \cup {j} ELSE unchecked
        /\ Goto(p, IF p \in Syncer THEN "recheck" ELSE "done")
     \/ /\ Active # {}
        /\ Goto(p, IF p \in Syncer THEN "find" ELSE "done")
        /\ UNCHANGED <<status, on, unchecked>>
  /\ UNCHANGED <<origin, intent, settling, flagged, seen, rival, ghost>>

\* The origin again, after the insertion: it may have closed without seeing
\* this delivery.
Recheck(p) ==
  /\ at[p] = "recheck"
  /\ Goto(p, IF origin \in Terminal THEN "propagate" ELSE "clear")
  /\ UNCHANGED <<origin, jobVars, local, ghost>>

\* _clear_origin_check.
Clear(p) ==
  /\ at[p] = "clear"
  /\ unchecked' = unchecked \ {on[p]}
  /\ Goto(p, "idle")
  /\ on' = [on EXCEPT ![p] = None]
  /\ UNCHANGED <<origin, status, intent, settling, flagged, seen, rival, ghost>>

Publishing(p) ==
  \/ p \in Syncer /\ Sync(p)
  \/ Find(p) \/ Insert(p) \/ Recheck(p) \/ Clear(p)

-----------------------------------------------------------------------------
(* The staff's other calls                                                 *)

\* A transition between live states.
StaffMove(s) ==
  /\ origin \in Live \ {s}
  /\ origin' = s
  /\ UNCHANGED <<jobVars, at, local, ghost>>

\* _execute_cancel, which reaches a delivered one too: the staff declares
\* the status it saw, and takes the delivery back.
StaffCancel(j) ==
  /\ status[j] \in Open \cup {"delivered"}
  /\ status' = [status EXCEPT ![j] = "cancelled"]
  /\ handed' = handed \ {j}
  /\ UNCHANGED <<origin, intent, unchecked, settling, flagged, at, local, won>>

\* do_confirm_delivery: between the claim of the courier's share and the
\* seal no other write on a delivered job applies.
Confirm(j) ==
  /\ status[j] = "delivered"
  /\ status' = [status EXCEPT ![j] = "confirmed"]
  /\ settling' = settling \cup {j}
  /\ UNCHANGED <<origin, intent, unchecked, flagged, at, local, ghost>>

\* settle_linked_operation, now or from the recoverer: mark_paid_from_delivery,
\* which leaves a closed withdrawal as it is.  Only the settlement of a deposit
\* raises OriginConflict (deposits.py:1027).
Settle(j) ==
  /\ j \in settling
  /\ settling' = settling \ {j}
  /\ origin' = IF origin \in Live THEN "paid" ELSE origin
  /\ UNCHANGED <<status, intent, unchecked, flagged, at, local, ghost>>

\* 120 seconds go by.
Age(j) ==
  /\ ~Unintended(j) /\ ~intent[j].old
  /\ intent' = [intent EXCEPT ![j].old = TRUE]
  /\ UNCHANGED <<origin, status, unchecked, settling, flagged, at, local, ghost>>

\* The server dies under a request, between any two of its calls.  Another
\* synchronisation, or the healer's, comes after one that died.
Crash(p) ==
  /\ at[p] \notin {"idle", "done", "dead"}
  /\ \/ p \notin Syncer /\ Goto(p, "dead") /\ UNCHANGED on
     \/ p \in Syncer /\ Goto(p, "idle") /\ on' = [on EXCEPT ![p] = None]
  /\ UNCHANGED <<origin, jobVars, seen, rival, ghost>>

Next ==
  \/ \E a \in Attempt : Attempting(a)
  \/ \E r \in Rider : Riding(r)
  \/ \E p \in Publisher : Publishing(p)
  \/ \E p \in Process : Propagate(p) \/ CancelActive(p)
  \/ \E s \in Live : StaffMove(s)
  \/ \E j \in Job : StaffCancel(j) \/ Confirm(j) \/ Settle(j) \/ Age(j)
  \/ \E p \in Attempt \cup Syncer : Crash(p)

Spec == Init /\ [][Next]_vars

-----------------------------------------------------------------------------
(* What the protocol is for                                                *)

\* An attempt that reserved a delivery and is about to refund, or did, finds
\* it protected for good: cancelled, or held by its own committed intent, so
\* that neither the courier seals it nor another attempt takes it over.
Protected(j, a) ==
  \/ status[j] = "cancelled"
  \/ status[j] \in Open /\ intent[j].token = a /\ intent[j].committed

RefundProtected ==
  \A a \in Attempt :
    (at[a] = "claim" \/ a \in won) /\ on[a] # None => Protected(on[a], a)

\* _claim_entering_rejected promises that a physical delivery and a refund
\* never coexist.  This holds of a delivery the refund reserved, not of one
\* that a fee annulled after the seal hides from the reservation, or that is
\* published after the reservation found none.
NeverDeliveredAndRefunded == won # {} => handed = {}

\* When both do happen the movement is not hidden: once the requests that
\* refunded have finished, the sealed delivery carries its origin_conflict.
NoHiddenMovement ==
  \A j \in Job :
    status[j] \in Sealed /\ won # {} /\ (\A a \in won : at[a] = "done")
      => j \in flagged

\* An attempt that ended without refunding leaves no intent of its own on an
\* open delivery, unless the withdrawal was closed by another way: the
\* courier and later attempts go on.
LoserLetsGo ==
  \A a \in Attempt \ won, j \in Job :
    at[a] = "done" /\ status[j] \in Open /\ intent[j].token = a
      => origin \in Terminal

\* An intent older than 120 seconds of a dead attempt on a live withdrawal is
\* recovered, the tests say: a later attempt may steal it.
OrphanRecoverable ==
  \A a \in Attempt, j \in Job :
    at[a] = "dead" /\ origin \in Live /\ status[j] \in Open
      /\ intent[j].token = a /\ intent[j].old => Stealable(j)
=============================================================================

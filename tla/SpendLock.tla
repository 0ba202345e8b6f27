------------------------------ MODULE SpendLock ------------------------------
(***************************************************************************)
(* The spending turn of the company's funds in one currency: the lease and *)
(* the reservation kept by services/company_fund_budget.py, and the        *)
(* requests that spend under them: creation, payment and rejection of      *)
(* company withdrawals, transfers between accounts and the cash handed to  *)
(* couriers.                                                               *)
(*                                                                         *)
(* The turn is a lease: two minutes after it was taken anyone may take it  *)
(* from its holder, who may be dead or only slow.  A slow holder goes on   *)
(* with the balance it read, so its last write must fail: a payment names  *)
(* the fence it put on its withdrawal, a transfer is confirmed only while  *)
(* it is pending, and the next holder clears fences and aborts pending     *)
(* transfers before it reads any balance.                                  *)
(*                                                                         *)
(* Every request is one task.  All the money starts in one account, from   *)
(* which withdrawals are paid and transfers leave.  A payment that names   *)
(* no account takes from the fund alone.  Left out, as they only bring     *)
(* money to that account: the cash that couriers return, and transfers     *)
(* out of what no account holds; and the retry of an administrator's       *)
(* transfer by its operation_id, which never reuses a document.            *)
(***************************************************************************)
EXTENDS Integers, FiniteSets, Folds, Functions

CONSTANTS
  Task,          \* requests in the life of the model
  Withdrawal,    \* ids of company withdrawals
  Op,            \* operation keys of the courier's cash
  Amount,        \* what each withdrawal and each operation asks for
  Funds,         \* what the account holds at first
  Kinds,         \* the requests that may come
  None

Admin == Task        \* an administrator's transfer is a new document
Doc == Admin \cup Op \* fund_account_transfers: those, and one per cash key

AllKinds == {"create", "createPay", "pay", "reject", "transfer", "cash"}

ASSUME SpendAssumption ==
  /\ Amount \in [Withdrawal \cup Op \cup Task -> Nat \ {0}]
  /\ Funds \in Nat
  /\ Kinds \subseteq AllKinds
  /\ IsFiniteSet(Task) /\ IsFiniteSet(Withdrawal)
  /\ None \notin Task
  /\ Task \cap Op = {}

VARIABLES
  lock,      \* pay_lock: the task whose token it holds, or None
  expired,   \* pay_locked_at is over two minutes old
  reserved,  \* the budget's reservation
  quiet,     \* age of updated_at: 0, 1 over five seconds, 2 over fifteen minutes
  current,   \* who read an updated_at that nobody has replaced since
  status,    \* company_withdrawals
  fence,     \* pay_fence of each withdrawal
  transfer,  \* fund_account_transfers
  paid,      \* what the paid withdrawals add up to
  unassigned,\* of that, what names no account
  moved,     \* what the confirmed transfers add up to
  task,
  resync,    \* resync_budgets of the scheduler: the sum it is about to write
  misled,    \* history: the reservation was set on the word of a request that
             \* stood still (see Unsettled and Claim), or given back for an
             \* insertion that had taken effect
  crossed    \* history: two requests of one key worked on its document at once

budget == <<lock, expired, reserved, quiet, current>>
money == <<paid, unassigned, moved>>
docs == <<status, fence, transfer, money>>
history == <<misled, crossed>>
vars == <<budget, docs, task, resync, history>>

Idle == [at |-> "idle", kind |-> "none", of |-> None, was |-> "none",
         seen |-> 0, held |-> 0, account |-> FALSE, sum |-> 0, again |-> FALSE,
         ok |-> FALSE]

Spends(t) == task[t].kind \in {"transfer", "cash"}

DocOf(t) == IF task[t].kind = "cash" THEN task[t].of ELSE t

\* Between the write of its document and its last write of it.
WorksOn(t, d) ==
  Spends(t) /\ DocOf(t) = d /\ task[t].at \in {"provisional", "authorised", "refused"}

AmountOf(t) == Amount[task[t].of]

\* What a request still needs to know once it leaves the critical section, or
\* once it is over.
Kept(t, at) ==
  CASE at = "over" -> [Idle EXCEPT !.at = at]
    [] at = "leaves" -> [Idle EXCEPT !.at = at, !.kind = task[t].kind,
                                     !.of = task[t].of, !.ok = task[t].ok]
    [] OTHER -> [task[t] EXCEPT !.at = at]

Goes(t, at) == task' = [task EXCEPT ![t] = Kept(t, at)]

Live(t) == task[t].at \notin {"idle", "over"}

\* _compute_company_funds and account_assigned_balances.
Available == Funds - paid
InAccount == Funds - (paid - unassigned) - moved

\* _pending_sum.
Owing == {w \in Withdrawal : status[w] \in {"pending", "approved"}}
PendingSum == FoldFunctionOnSet(+, 0, Amount, Owing)

\* Every write of the reservation and of the lock stamps updated_at.
Touch == quiet' = 0 /\ current' = {}
Untouched == UNCHANGED <<quiet, current>>

Init ==
  /\ lock = None /\ expired = FALSE /\ quiet = 0 /\ current = {}
  /\ status \in [Withdrawal -> {"none", "pending", "approved"}]
  /\ PendingSum <= Funds
  /\ reserved = PendingSum
  /\ fence = [w \in Withdrawal |-> None]
  /\ transfer = [d \in Doc |-> "none"]
  /\ paid = 0 /\ unassigned = 0 /\ moved = 0
  /\ task = [t \in Task |-> Idle]
  /\ resync = None
  /\ misled = FALSE /\ crossed = FALSE

-----------------------------------------------------------------------------
(* A request comes in; it reads the withdrawal before it does anything.    *)

Starts(t, kind, of, at, was) ==
  /\ task[t] = Idle /\ kind \in Kinds
  /\ task' = [task EXCEPT ![t] = [Idle EXCEPT !.at = at, !.kind = kind,
                                             !.of = of, !.was = was]]
  /\ UNCHANGED <<budget, docs, resync, history>>

\* The id is new: no other request creates it.
StartCreate(t, w) ==
  /\ status[w] = "none"
  /\ \A u \in Task : Live(u) => task[u].of # w
  /\ Starts(t, "create", w, "asks", "none") \/ Starts(t, "createPay", w, "asks", "none")

StartPay(t, w) ==
  status[w] \in {"pending", "approved"} /\ Starts(t, "pay", w, "asks", status[w])

StartReject(t, w) ==
  status[w] \in {"pending", "approved"} /\ Starts(t, "reject", w, "rejects", status[w])

StartTransfer(t) == Starts(t, "transfer", t, "asks", "none")

\* A key that is already confirmed is answered without the turn.  Requests of one
\* key may run at once.
StartCash(t, o) ==
  /\ transfer[o] # "confirmed"
  /\ Starts(t, "cash", o, "asks", "none")

-----------------------------------------------------------------------------
(* acquire_pay_lock and release_pay_lock.                                  *)

Acquire(t) ==
  /\ task[t].at = "asks"
  /\ lock = None \/ expired
  /\ lock' = t /\ expired' = FALSE /\ Touch
  /\ Goes(t, "fences")
  /\ UNCHANGED <<reserved, docs, resync, history>>

\* The wait of eight seconds is over: conflict.  A withdrawal that was to be
\* paid at its creation is removed again.
GiveUp(t) ==
  /\ task[t].at = "asks" /\ lock # None
  /\ Goes(t, IF task[t].kind = "payNew" THEN "undo" ELSE "over")
  /\ UNCHANGED <<budget, docs, resync, history>>

\* N01: whatever fence an earlier holder put up is taken down.
ClearFences(t) ==
  /\ task[t].at = "fences"
  /\ fence' = [w \in Withdrawal |-> None]
  /\ Goes(t, "aborts")
  /\ UNCHANGED <<budget, status, transfer, money, resync, history>>

\* Mutant: the transfers of the earlier holder are left to the scheduler.
AbortNothing(t) ==
  /\ task[t].at = "aborts"
  /\ Goes(t, "held")
  /\ UNCHANGED <<budget, docs, resync, history>>

\* P01: whatever an earlier holder left pending is aborted.
AbortPending(t) ==
  /\ task[t].at = "aborts"
  /\ transfer' = [d \in Doc |-> IF transfer[d] = "pending" THEN "aborted"
                                ELSE transfer[d]]
  /\ Goes(t, "held")
  /\ UNCHANGED <<budget, status, fence, money, resync, history>>

\* The finally blocks: take down the own fence, and give the turn back if it is
\* still the own one.
Leave(t) ==
  /\ task[t].at = "leaves"
  /\ fence' = [w \in Withdrawal |-> IF fence[w] = t THEN None ELSE fence[w]]
  /\ IF lock = t THEN lock' = None /\ expired' = FALSE /\ Touch
     ELSE UNCHANGED <<lock, expired, quiet, current>>
  /\ Goes(t, CASE task[t].kind \in {"create", "createPay"} /\ task[t].ok -> "inserts"
               [] task[t].kind = "payNew" /\ ~task[t].ok -> "undo"
               [] OTHER -> "over")
  /\ UNCHANGED <<reserved, status, transfer, money, resync, history>>

-----------------------------------------------------------------------------
(* _reserve_company_funds and the insertion.                               *)

\* Live requests whose withdrawal and whose reservation disagree: claimed and
\* not yet inserted, or settled and not yet released.
Unsettled(t) ==
  \/ task[t].kind \in {"create", "createPay"} /\ task[t].ok
       /\ task[t].at \in {"leaves", "inserts"}
  \/ task[t].at \in {"releases", "recounts"}

SomeUnsettled(except) == \E t \in Task \ {except} : Unsettled(t)

CreateReads(t) ==
  /\ task[t].at = "held" /\ task[t].kind \in {"create", "createPay"}
  /\ task' = [task EXCEPT ![t].at = "read", ![t].seen = Available]
  /\ UNCHANGED <<budget, docs, resync, history>>

\* Mutant: the fund is compared with the amount, not with what is promised of it.
FitsFund(t) == AmountOf(t) <= task[t].seen

Fits(t) == reserved <= task[t].seen - AmountOf(t)

\* claim_reservation: one guarded increment, which does not ask for the turn.
Claim(t) ==
  /\ task[t].at = "read" /\ task[t].kind \in {"create", "createPay"}
  /\ Fits(t)
  /\ reserved' = reserved + AmountOf(t) /\ Touch
  /\ misled' = (misled \/ lock # t)
  /\ task' = [task EXCEPT ![t] = [Kept(t, "leaves") EXCEPT !.ok = TRUE]]
  /\ UNCHANGED <<lock, expired, docs, resync, crossed>>

\* The reservation leaves no room.  _heal_over_reservation looks once whether
\* it is larger than what is owed, if the budget has been quiet.
MayHeal(t) == ~task[t].again /\ quiet > 0 /\ reserved > PendingSum

ClaimFails(t) ==
  /\ task[t].at = "read" /\ task[t].kind \in {"create", "createPay"}
  /\ ~Fits(t)
  /\ IF MayHeal(t)
     THEN /\ task' = [task EXCEPT ![t].at = "heals", ![t].sum = PendingSum]
          /\ current' = current \cup {t}
          /\ misled' = (misled \/ SomeUnsettled(t))
     ELSE Goes(t, "leaves") /\ UNCHANGED <<current, misled>>
  /\ UNCHANGED <<lock, expired, reserved, quiet, docs, resync, crossed>>

\* The write is conditioned on the updated_at that was read.
Rewrite(who, sum) ==
  IF who \in current
  THEN reserved' = sum /\ Touch /\ misled' = (misled \/ SomeUnsettled(who))
  ELSE UNCHANGED <<reserved, quiet, current, misled>>

HealWrites(t) ==
  /\ task[t].at = "heals"
  /\ Rewrite(t, task[t].sum)
  /\ task' = [task EXCEPT ![t].at = IF t \in current THEN "read" ELSE "leaves",
                          ![t].again = TRUE]
  /\ UNCHANGED <<lock, expired, docs, resync, crossed>>

\* The proof upload and the insertion may fail; then the reservation goes back,
\* also when the insertion took effect and only its answer was lost.
Insert(t) ==
  /\ task[t].at = "inserts"
  /\ \/ /\ status' = [status EXCEPT ![task[t].of] = "pending"]
        /\ task' = [task EXCEPT ![t] =
             IF task[t].kind = "createPay"
             THEN [Idle EXCEPT !.at = "asks", !.kind = "payNew",
                               !.of = task[t].of, !.was = "pending"]
             ELSE Kept(t, "over")]
        /\ UNCHANGED misled
     \/ Goes(t, "releases") /\ UNCHANGED <<status, misled>>
     \/ /\ status' = [status EXCEPT ![task[t].of] = "pending"]
        /\ Goes(t, "releases")
        /\ misled' = TRUE
  /\ UNCHANGED <<budget, fence, transfer, money, resync, crossed>>

-----------------------------------------------------------------------------
(* release_reservation.                                                    *)

AfterRelease(t) == IF task[t].kind \in {"pay", "payNew"} THEN "leaves" ELSE "over"

\* Mutant: the decrement has no guard.
ReleaseUnguarded(t) ==
  /\ task[t].at = "releases"
  /\ reserved' = reserved - AmountOf(t) /\ Touch
  /\ Goes(t, AfterRelease(t))
  /\ UNCHANGED <<lock, expired, docs, resync, history>>

Release(t) ==
  /\ task[t].at = "releases"
  /\ IF reserved >= AmountOf(t)
     THEN /\ reserved' = reserved - AmountOf(t) /\ Touch
          /\ Goes(t, AfterRelease(t))
          /\ UNCHANGED misled
     ELSE /\ task' = [task EXCEPT ![t].at = "recounts", ![t].sum = PendingSum]
          /\ current' = current \cup {t}
          /\ misled' = (misled \/ SomeUnsettled(t))
          /\ UNCHANGED <<reserved, quiet>>
  /\ UNCHANGED <<lock, expired, docs, resync, crossed>>

Recount(t) ==
  /\ task[t].at = "recounts"
  /\ Rewrite(t, task[t].sum)
  /\ Goes(t, AfterRelease(t))
  /\ UNCHANGED <<lock, expired, docs, resync, crossed>>

-----------------------------------------------------------------------------
(* _pay_company_withdrawal, and the delete of a one-step withdrawal.       *)

Pays(t) == task[t].kind \in {"pay", "payNew"}

PutFence(t) ==
  /\ task[t].at = "held" /\ Pays(t)
  /\ LET w == task[t].of IN
       IF status[w] = task[t].was
       THEN fence' = [fence EXCEPT ![w] = t] /\ Goes(t, "fenced")
       ELSE Goes(t, "leaves") /\ UNCHANGED fence
  /\ UNCHANGED <<budget, status, transfer, money, resync, history>>

\* _assert_available_company_funds: the fund must hold the amount.
PayReads(t) ==
  /\ task[t].at = "fenced"
  /\ task' = [task EXCEPT ![t].seen = Available,
                ![t].at = IF AmountOf(t) <= Available THEN "funded" ELSE "leaves"]
  /\ UNCHANGED <<budget, docs, resync, history>>

\* _validate_paid_from_balance: the account it is paid from must hold the amount.
\* If it does not, a payment whose account was named is refused, and one whose
\* account was attributed, or that has none, is left unassigned.
PayAccount(t) ==
  /\ task[t].at = "funded"
  /\ \/ \E account \in BOOLEAN :
          /\ account => AmountOf(t) <= InAccount
          /\ task' = [task EXCEPT ![t].held = InAccount, ![t].account = account,
                                  ![t].at = "read"]
     \/ Goes(t, "leaves")
  /\ UNCHANGED <<budget, docs, resync, history>>

\* assert_spend_authority: only the holder of the turn gets past it.
PayAuthority(t) ==
  /\ task[t].at = "read" /\ Pays(t)
  /\ Goes(t, IF lock = t THEN "authorised" ELSE "leaves")
  /\ UNCHANGED <<budget, docs, resync, history>>

\* Mutant: the definitive write does not name the fence.
PayClaimUnfenced(t) ==
  /\ task[t].at = "authorised" /\ Pays(t)
  /\ LET w == task[t].of IN
       IF status[w] = task[t].was
       THEN /\ status' = [status EXCEPT ![w] = "paid"]
            /\ fence' = [fence EXCEPT ![w] = None]
            /\ paid' = paid + AmountOf(t)
            /\ unassigned' = unassigned + (IF task[t].account THEN 0 ELSE AmountOf(t))
            /\ task' = [task EXCEPT ![t].at = "releases", ![t].ok = TRUE]
       ELSE Goes(t, "leaves") /\ UNCHANGED <<status, fence, paid, unassigned>>
  /\ UNCHANGED <<budget, transfer, moved, resync, history>>

\* _claim_cw_transition with the fence.
PayClaim(t) ==
  /\ task[t].at = "authorised" /\ Pays(t)
  /\ LET w == task[t].of IN
       IF status[w] = task[t].was /\ fence[w] = t
       THEN /\ status' = [status EXCEPT ![w] = "paid"]
            /\ fence' = [fence EXCEPT ![w] = None]
            /\ paid' = paid + AmountOf(t)
            /\ unassigned' = unassigned + (IF task[t].account THEN 0 ELSE AmountOf(t))
            /\ task' = [task EXCEPT ![t].at = "releases", ![t].ok = TRUE]
       ELSE Goes(t, "leaves") /\ UNCHANGED <<status, fence, paid, unassigned>>
  /\ UNCHANGED <<budget, transfer, moved, resync, history>>

Undo(t) ==
  /\ task[t].at = "undo"
  /\ LET w == task[t].of IN
       IF status[w] = "pending"
       THEN /\ status' = [status EXCEPT ![w] = "none"]
            /\ task' = [task EXCEPT ![t].at = "releases", ![t].kind = "create"]
       ELSE Goes(t, "over") /\ UNCHANGED status
  /\ UNCHANGED <<budget, fence, transfer, money, resync, history>>

\* A rejection takes no turn: the status it read decides.
Reject(t) ==
  /\ task[t].at = "rejects"
  /\ LET w == task[t].of IN
       IF status[w] = task[t].was
       THEN /\ status' = [status EXCEPT ![w] = "rejected"]
            /\ fence' = [fence EXCEPT ![w] = None]
            /\ Goes(t, "releases")
       ELSE Goes(t, "over") /\ UNCHANGED <<status, fence>>
  /\ UNCHANGED <<budget, transfer, money, resync, history>>

Approve(w) ==
  /\ status[w] = "pending"
  /\ status' = [status EXCEPT ![w] = "approved"]
  /\ fence' = [fence EXCEPT ![w] = None]
  /\ UNCHANGED <<budget, transfer, money, task, resync, history>>

-----------------------------------------------------------------------------
(* transfer_between_fund_accounts and issue_or_return_cash.                *)

\* Under the turn: the document of the key, then the balance.
TransferReads(t) ==
  /\ task[t].at = "held" /\ Spends(t)
  /\ LET was == transfer[DocOf(t)] IN
       task' = [task EXCEPT ![t].was = was, ![t].held = InAccount,
                  ![t].at = IF was # "confirmed" /\ AmountOf(t) <= InAccount
                            THEN "read" ELSE "leaves"]
  /\ UNCHANGED <<budget, docs, resync, history>>

\* A new document is pending; one that the key already has is revived unless it
\* was confirmed meanwhile; one inserted meanwhile is used as it is.
Provisional(t) ==
  /\ task[t].at = "read" /\ Spends(t)
  /\ LET d == DocOf(t)
         fresh == task[t].was = "none" /\ transfer[d] = "none"
         revives == task[t].was # "none" /\ transfer[d] \in {"pending", "aborted"}
     IN /\ IF fresh \/ revives
           THEN transfer' = [transfer EXCEPT ![d] = "pending"]
           ELSE UNCHANGED transfer
        /\ IF transfer[d] = "confirmed"
           THEN Goes(t, "leaves") /\ UNCHANGED crossed
           ELSE /\ Goes(t, "provisional")
                /\ crossed' = (crossed \/ \E u \in Task \ {t} : WorksOn(u, d))
  /\ UNCHANGED <<budget, status, fence, money, resync, misled>>

TransferAuthority(t) ==
  /\ task[t].at = "provisional"
  /\ Goes(t, IF lock = t THEN "authorised" ELSE "refused")
  /\ UNCHANGED <<budget, docs, resync, history>>

\* The document is aborted by its id alone.
AbortOwn(t) ==
  /\ task[t].at = "refused"
  /\ transfer' = [transfer EXCEPT ![DocOf(t)] = "aborted"]
  /\ moved' = IF transfer[DocOf(t)] = "confirmed" THEN moved - AmountOf(t)
              ELSE moved
  /\ Goes(t, "leaves")
  /\ UNCHANGED <<budget, status, fence, paid, unassigned, resync, history>>

Confirm(t) ==
  /\ task[t].at = "authorised" /\ Spends(t)
  /\ LET d == DocOf(t) IN
       IF transfer[d] = "pending"
       THEN /\ transfer' = [transfer EXCEPT ![d] = "confirmed"]
            /\ moved' = moved + AmountOf(t)
       ELSE UNCHANGED <<transfer, moved>>
  /\ Goes(t, "leaves")
  /\ UNCHANGED <<budget, status, fence, paid, unassigned, resync, history>>

-----------------------------------------------------------------------------
(* The scheduler, the clock and the failures.                              *)

\* _abort_stale_pending_transfers: pending documents older than ten minutes.
AbortStale(d) ==
  /\ transfer[d] = "pending"
  /\ transfer' = [transfer EXCEPT ![d] = "aborted"]
  /\ UNCHANGED <<budget, status, fence, money, task, resync, history>>

\* resync_budgets; the scheduler runs one at a time.
ResyncReads ==
  /\ quiet = 2 /\ resync = None /\ reserved # PendingSum
  /\ resync' = PendingSum
  /\ current' = current \cup {None}
  /\ misled' = (misled \/ SomeUnsettled(None))
  /\ UNCHANGED <<lock, expired, reserved, quiet, docs, task, crossed>>

ResyncWrites ==
  /\ resync # None
  /\ Rewrite(None, resync)
  /\ resync' = None
  /\ UNCHANGED <<lock, expired, docs, task, crossed>>

\* Nobody writes the budget for a while.
Tick ==
  /\ quiet < 2
  /\ quiet' = quiet + 1
  /\ quiet' = 2 => lock = None \/ expired
  /\ UNCHANGED <<lock, expired, reserved, current, docs, task, resync, history>>

Expire ==
  /\ lock # None /\ ~expired
  /\ expired' = TRUE
  /\ UNCHANGED <<lock, reserved, quiet, current, docs, task, resync, history>>

\* The process of the request dies, or the request is cancelled, at any await.
Die(t) ==
  /\ Live(t)
  /\ Goes(t, "over")
  /\ UNCHANGED <<budget, docs, resync, history>>

Start(t) ==
  \/ \E w \in Withdrawal : StartCreate(t, w) \/ StartPay(t, w) \/ StartReject(t, w)
  \/ StartTransfer(t)
  \/ \E o \in Op : StartCash(t, o)

Step(t) ==
  \/ Acquire(t) \/ GiveUp(t) \/ ClearFences(t) \/ AbortPending(t) \/ Leave(t)
  \/ CreateReads(t) \/ Claim(t) \/ ClaimFails(t) \/ HealWrites(t) \/ Insert(t)
  \/ Release(t) \/ Recount(t)
  \/ PutFence(t) \/ PayReads(t) \/ PayAccount(t) \/ PayAuthority(t) \/ PayClaim(t) \/ Undo(t)
  \/ Reject(t)
  \/ TransferReads(t) \/ Provisional(t) \/ TransferAuthority(t) \/ AbortOwn(t)
  \/ Confirm(t)

Next ==
  \/ \E t \in Task : Start(t) \/ Step(t) \/ Die(t)
  \/ \E w \in Withdrawal : Approve(w)
  \/ \E d \in Doc : AbortStale(d)
  \/ ResyncReads \/ ResyncWrites \/ Tick \/ Expire

Spec == Init /\ [][Next]_vars

-----------------------------------------------------------------------------
Places == {"idle", "asks", "fences", "aborts", "held", "read", "leaves",
           "heals", "inserts", "releases", "recounts", "fenced", "funded", "authorised",
           "undo", "rejects", "provisional", "refused", "over"}

\* Type invariant; the reservation never goes below zero.
TypeOK ==
  /\ lock \in Task \cup {None} /\ expired \in BOOLEAN
  /\ reserved \in Nat /\ quiet \in 0..2
  /\ current \subseteq Task \cup {None}
  /\ status \in [Withdrawal -> {"none", "pending", "approved", "paid", "rejected"}]
  /\ fence \in [Withdrawal -> Task \cup {None}]
  /\ transfer \in [Doc -> {"none", "pending", "confirmed", "aborted"}]
  /\ paid \in Nat /\ unassigned \in Nat /\ moved \in Int
  /\ \A t \in Task : task[t].at \in Places
  /\ misled \in BOOLEAN /\ crossed \in BOOLEAN

\* V01, N01, M01, P01: however slow the holders of the turn are, whoever takes
\* it from them and wherever they die, the fund never pays out more than it
\* holds; nor does the account, as long as no two requests of one key worked on
\* its document at once (courier_cash.py:271, 285-290), when a former holder may
\* confirm a document that another one revived.
NeverOverdrawn ==
  /\ Available >= 0
  /\ ~crossed => InAccount >= 0

\* H02, V01: the withdrawals that wait for their payment all fit in the fund,
\* unless the reservation was set on the word of a request that stood still, or
\* given back for an insertion that had taken effect.
PromisesFit == ~misled => PendingSum <= Available

\* P01: whoever spends has seen the balance as it is at that moment: a turn that
\* was taken never spends what its successors have spent.  Of the account this
\* holds as long as no two requests of one key worked on its document at once.
SpendsWhatItSaw ==
  [][\A t \in Task :
       /\ PayClaim(t) => paid' = paid \/ task[t].seen = Available
       /\ ~crossed => /\ PayClaim(t) => InAccount' = InAccount \/ task[t].held = InAccount
                      /\ Confirm(t) => InAccount' = InAccount \/ task[t].held = InAccount]_vars

\* The audit of the courier's cash (courier_cash.py:956) says that an aborted
\* transfer moved no money: one that was confirmed is never aborted.
ConfirmedStays ==
  [][\A d \in Doc : transfer[d] = "confirmed" => transfer'[d] = "confirmed"]_vars
=============================================================================

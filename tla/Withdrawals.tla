----------------------------- MODULE Withdrawals -----------------------------
(***************************************************************************)
(* One client withdrawal, from its creation to its cancellation, rejection *)
(* or payment, and the money the client is charged for it.  The document   *)
(* and the balance live in different collections, so every flow publishes  *)
(* its intention in the document first (init_op_id, credit_pending,        *)
(* redebit_pending, courier_fee_op_pending), moves the money by op_id, and *)
(* clears the intention; the healer completes what a dead request left.    *)
(*                                                                         *)
(* Every action is one database call on the withdrawal, or one decisive    *)
(* step of a call to services/balances.py, whose own interleavings module  *)
(* CreditOps studies: a debit is its log entry and then its charge, a burn *)
(* is its claim of the log, its token, the give-back and the final mark.   *)
(* The client's other operations move the same balance at any time, so a   *)
(* charge may always find the money or not.  The delivery of the cash and  *)
(* its cancel intents are the subject of CancelIntent.                     *)
(*                                                                         *)
(* An operator named after a definition with a suffix (OutcomeTrusted,     *)
(* PlainClaimBlind, ...) is a mistake the code avoids: the runs find the   *)
(* property it breaks, and nothing else uses it.                           *)
(***************************************************************************)
EXTENDS Integers

CONSTANTS Request,   \* the requests the clients and the staff run at once
          Healer,    \* the process of run_credit_recovery
          Kinds,     \* the requests made: "create", "cancel", "staff",
                     \* "leave" (out of rejected), "markPaid", "fee"
          Created,   \* TRUE: start from an active, charged withdrawal
          Amount, Fees,               \* amount_usd, the courier fees
          Creation, Refund, Redebit, FeeOp,  \* op_ids
          None

Process == Request \cup {Healer}
Chargeable == {Creation} \cup Redebit \cup FeeOp
Op == Chargeable \cup Refund

ASSUME WithdrawalsAssumption ==
  /\ Healer \notin Request
  /\ Created \in BOOLEAN
  /\ Amount \in Nat \ {0} /\ Fees \subseteq Nat /\ 0 \in Fees
  /\ Creation \notin Redebit \cup FeeOp \cup Refund
  /\ Redebit \cap FeeOp = {} /\ Refund \cap (Redebit \cup FeeOp) = {}
  /\ None \notin Op

VARIABLES doc,     \* the document of db.withdrawals
          log,     \* credit_ops: Chargeable -> state
          sealed,  \* the debits whose op:burn token is in the registry
          money,   \* Op -> whether its money moved, and came back
          named,   \* the op_ids given out
          worth,   \* Op -> what the client pays by it
          charged, \* what the client has paid for this withdrawal
          proc,    \* process -> its request, its next call and its locals
          strayed  \* history: what happened that the code does not allow for

ledgerVars == <<log, sealed, money, named, worth, charged>>
progVars == <<doc, ledgerVars, proc>>
vars == <<progVars, strayed>>

Live == {"pending", "approved", "paid"}
Status == Live \cup {"absent", "initializing", "failed_init", "rejected",
                     "cancelled"}
Transient == {"initializing", "failed_init"}

Doc == [status : Status, refunded : BOOLEAN, init : BOOLEAN,
        credit : Refund \cup {None}, redebit : Redebit \cup {None},
        plan : FeeOp \cup {None}, fee : Fees, revert : Fees]

Jobs == {"none", "create", "cancel", "staff", "markPaid", "fee",
         "healCredit", "healInit", "healRedebit", "healFee"}
Calls == {"idle", "claim", "moneyless", "settlePay", "settleClear", "reread",
          "ensure", "charge", "outcome", "finish", "refused", "delete",
          "burn", "token", "giveBack", "mark", "abort", "pay", "clear"}

\* seen and fee are the document as read, cost what is given back.
Local == [job : Jobs, at : Calls, op : Op \cup {None}, seen : Status \cup {"none"},
          fee : Fees, want : Status \cup {"none"}, cost : Int]

Stray == {"unseen", "oldFee", "earlyFee", "reopening", "overtaken", "undecided"}

Idle == [job |-> "none", at |-> "idle", op |-> None, seen |-> "none",
         fee |-> 0, want |-> "none", cost |-> 0]

ProgOK ==
  /\ doc \in Doc
  /\ log \in [Chargeable -> {"open", "applied", "burned", "undone"}]
  /\ sealed \subseteq Chargeable
  /\ money \in [Op -> {"none", "moved", "back"}]
  /\ named \subseteq Op
  /\ worth \in [Op -> Int]
  /\ charged \in Int
  /\ proc \in [Process -> Local]

TypeOK == ProgOK /\ strayed \subseteq Stray

NoDoc == [status |-> "absent", refunded |-> FALSE, init |-> FALSE,
          credit |-> None, redebit |-> None, plan |-> None, fee |-> 0,
          revert |-> 0]

Init ==
  /\ doc = IF Created THEN [NoDoc EXCEPT !.status = "pending"] ELSE NoDoc
  /\ log = [o \in Chargeable |-> IF Created /\ o = Creation THEN "applied"
                                 ELSE "open"]
  /\ sealed = {}
  /\ money = [o \in Op |-> IF Created /\ o = Creation THEN "moved" ELSE "none"]
  /\ named = IF Created THEN {Creation} ELSE {}
  /\ worth = [o \in Op |-> IF Created /\ o = Creation THEN Amount ELSE 0]
  /\ charged = IF Created THEN Amount ELSE 0
  /\ proc = [p \in Process |-> Idle]
  /\ strayed = {}

Goto(p, call) == proc' = [proc EXCEPT ![p].at = call]
End(p) == proc' = [proc EXCEPT ![p] = Idle]

At(p, call) == proc[p].at = call
Job(p, jobs) == proc[p].job \in jobs

Name(o, cost) ==
  /\ o \notin named
  /\ named' = named \cup {o}
  /\ worth' = [worth EXCEPT ![o] = cost]

\* What an op of worth n does to the client when it is carried out.
Move(o) ==
  /\ money' = [money EXCEPT ![o] = "moved"]
  /\ charged' = charged + worth[o]

-----------------------------------------------------------------------------
(* services/balances.py, seen from this document                           *)

\* debit_balance_idempotent: the log answers duplicate, or the debit goes on.
Ensure(p) ==
  /\ At(p, "ensure")
  /\ Goto(p, IF log[proc[p].op] = "open" THEN "charge" ELSE "outcome")
  /\ UNCHANGED <<doc, ledgerVars>>

ChargePastToken(p) == LET o == proc[p].op IN
  /\ At(p, "charge")
  /\ \/ /\ money[o] = "none"
        /\ Move(o)
        /\ log' = [log EXCEPT ![o] = IF @ = "open" THEN "applied" ELSE @]
        /\ Goto(p, "finish")
     \/ /\ money[o] = "none"
        /\ Goto(p, "refused")
        /\ UNCHANGED <<money, charged, log>>
     \/ /\ money[o] # "none"
        /\ Goto(p, "outcome")
        /\ UNCHANGED <<money, charged, log>>
  /\ UNCHANGED <<doc, sealed, named, worth>>

\* The charge: a duplicate, or sufficient, or insufficient, as the rest of
\* the client's operations left the balance.
Charge(p) == LET o == proc[p].op IN
  /\ At(p, "charge")
  /\ \/ /\ money[o] = "none" /\ o \notin sealed
        /\ Move(o)
        /\ log' = [log EXCEPT ![o] = IF @ = "open" THEN "applied" ELSE @]
        /\ Goto(p, "finish")
     \/ /\ money[o] = "none" /\ o \notin sealed
        /\ Goto(p, "refused")
        /\ UNCHANGED <<money, charged, log>>
     \/ /\ money[o] # "none" \/ o \in sealed
        /\ Goto(p, "outcome")
        /\ UNCHANGED <<money, charged, log>>
  /\ UNCHANGED <<doc, sealed, named, worth>>

OutcomeTrusted(p) ==
  /\ At(p, "outcome")
  /\ Goto(p, "finish")
  /\ UNCHANGED <<doc, ledgerVars>>

\* After "duplicate" the log tells a charge from a burn; the creation does
\* not ask, it goes on to activate; a fee plan is reverted at once.
Outcome(p) ==
  /\ At(p, "outcome")
  /\ LET stopped == log[proc[p].op] \in {"burned", "undone"} IN
     Goto(p, IF ~stopped \/ Job(p, {"create"}) THEN "finish"
             ELSE IF Job(p, {"fee", "healFee"}) THEN "abort" ELSE "refused")
  /\ UNCHANGED <<doc, ledgerVars>>

\* A debit refused for good: the creation deletes its document, the others
\* burn the op before they release their plan.
Refused(p) ==
  /\ At(p, "refused")
  /\ Goto(p, IF Job(p, {"create"}) THEN "delete" ELSE "burn")
  /\ UNCHANGED <<doc, ledgerVars>>

\* Where the caller of burn_or_undo_debit goes on.
AfterBurn(p) == IF Job(p, {"create"}) THEN End(p) ELSE Goto(p, "abort")

\* The claim of the burn; or, its iterations spent on exceptions of the driver,
\* "burned" is reported with nothing decided, the last claim made or not.
Burn(p) == LET o == proc[p].op IN
  /\ At(p, "burn")
  /\ \/ /\ log[o] \in {"open", "burned"}
        /\ log' = [log EXCEPT ![o] = "burned"]
        /\ Goto(p, "token")
     \/ log[o] = "applied" /\ Goto(p, "giveBack") /\ UNCHANGED log
     \/ AfterBurn(p) /\ UNCHANGED log
     \/ /\ log[o] = "open"
        /\ log' = [log EXCEPT ![o] = "burned"]
        /\ AfterBurn(p)
  /\ UNCHANGED <<doc, sealed, money, named, worth, charged>>

BurnTokenUnsealed(p) == LET o == proc[p].op IN
  /\ At(p, "token")
  /\ IF money[o] = "none" THEN AfterBurn(p) ELSE Goto(p, "giveBack")
  /\ UNCHANGED <<doc, log, sealed, money, named, worth, charged>>

\* The token blocks every later charge; only then is the evidence read.
BurnToken(p) == LET o == proc[p].op IN
  /\ At(p, "token")
  /\ sealed' = sealed \cup {o}
  /\ IF money[o] = "none" THEN AfterBurn(p) ELSE Goto(p, "giveBack")
  /\ UNCHANGED <<doc, log, money, named, worth, charged>>

\* credit_balance_idempotent of op:undo, once whoever asks for it.
GiveBack(p) == LET o == proc[p].op IN
  /\ At(p, "giveBack")
  /\ \/ /\ money[o] = "moved"
        /\ money' = [money EXCEPT ![o] = "back"]
        /\ charged' = charged - proc[p].cost
     \/ money[o] = "back" /\ UNCHANGED <<money, charged>>
  /\ Goto(p, "mark")
  /\ UNCHANGED <<doc, log, sealed, named, worth>>

MarkUndone(p) ==
  /\ At(p, "mark")
  /\ log' = [log EXCEPT ![proc[p].op] = "undone"]
  /\ AfterBurn(p)
  /\ UNCHANGED <<doc, sealed, money, named, worth, charged>>

\* apply_and_clear: the credit, once per op_id, then the marker.
Pay(p, next) == LET o == proc[p].op IN
  /\ IF money[o] = "none" THEN Move(o) ELSE UNCHANGED <<money, charged>>
  /\ Goto(p, next)
  /\ UNCHANGED <<doc, log, sealed, named, worth>>

PayRefundSkipped(p) ==
  /\ At(p, "pay") /\ ~Job(p, {"fee", "healFee"})
  /\ Goto(p, "clear")
  /\ UNCHANGED <<doc, ledgerVars>>

PayRefund(p) ==
  /\ At(p, "pay") /\ ~Job(p, {"fee", "healFee"})
  /\ Pay(p, "clear")

ClearMarker(o) ==
  doc' = IF doc.credit = o THEN [doc EXCEPT !.credit = None] ELSE doc

ClearRefund(p) ==
  /\ At(p, "clear")
  /\ ClearMarker(proc[p].op)
  /\ End(p)
  /\ UNCHANGED ledgerVars

-----------------------------------------------------------------------------
(* create_withdrawal                                                       *)

CreateInsert(p) ==
  /\ At(p, "idle")
  /\ \E f \in Fees :
       /\ doc' = [doc EXCEPT !.status = "initializing", !.init = TRUE, !.fee = f]
       /\ Name(Creation, Amount + f)
       /\ proc' = [proc EXCEPT ![p] =
            [Idle EXCEPT !.job = "create", !.at = "ensure", !.op = Creation,
                         !.cost = Amount + f]]
  /\ UNCHANGED <<log, sealed, money, charged>>

CreateDelete(p) ==
  /\ At(p, "delete")
  /\ doc' = IF doc.status = "initializing"
            THEN NoDoc ELSE doc
  /\ End(p)
  /\ UNCHANGED ledgerVars

CreateActivateAlways(p) ==
  /\ At(p, "finish") /\ Job(p, {"create"})
  /\ doc' = [doc EXCEPT !.status = "pending", !.init = FALSE]
  /\ End(p)
  /\ UNCHANGED ledgerVars

\* Activation, unless the healer took the attempt: then the debit is undone.
CreateActivate(p) ==
  /\ At(p, "finish") /\ Job(p, {"create"})
  /\ \/ /\ doc.status = "initializing"
        /\ doc' = [doc EXCEPT !.status = "pending", !.init = FALSE]
        /\ End(p)
     \/ /\ doc.status # "initializing"
        /\ Goto(p, "burn")
        /\ UNCHANGED doc
  /\ UNCHANGED ledgerVars

-----------------------------------------------------------------------------
(* cancel_own_withdrawal                                                   *)

CancelRead(p) ==
  /\ At(p, "idle") /\ doc.status # "absent"
  /\ proc' = [proc EXCEPT ![p] = [Idle EXCEPT !.job = "cancel", !.at = "claim",
                                              !.fee = doc.fee]]
  /\ UNCHANGED <<doc, ledgerVars>>

\* A claim that publishes a refund of what was read, as a marker.
Refunding(p, status) ==
  \E r \in Refund :
    /\ doc' = [doc EXCEPT !.status = status, !.refunded = TRUE, !.credit = r]
    /\ Name(r, -(Amount + proc[p].fee))
    /\ proc' = [proc EXCEPT ![p].at = "pay", ![p].op = r]

Cancelable(p) ==
  /\ doc.status = "pending" /\ ~doc.refunded
  /\ doc.plan = None /\ doc.fee = proc[p].fee
  /\ doc.redebit = None /\ doc.credit = None

CancelClaim(p) ==
  /\ At(p, "claim") /\ Job(p, {"cancel"})
  /\ \/ Cancelable(p) /\ Refunding(p, "cancelled")
     \/ ~Cancelable(p) /\ End(p) /\ UNCHANGED <<doc, named, worth>>
  /\ UNCHANGED <<log, sealed, money, charged>>

-----------------------------------------------------------------------------
(* update_withdrawal: the staff's transitions                              *)

\* The document is read; a refund still pending in it is settled first.
StaffRead(p) ==
  /\ At(p, "idle")
  /\ doc.status \notin Transient \cup {"absent", "cancelled"}
  /\ \E n \in Live \cup {"rejected"} :
       /\ doc.status = "rejected" /\ n # "rejected" => "leave" \in Kinds
       /\ proc' = [proc EXCEPT ![p] =
            [Idle EXCEPT !.job = "staff", !.op = doc.credit, !.want = n,
                         !.at = IF doc.credit = None THEN "claim" ELSE "settlePay",
                         !.seen = doc.status, !.fee = doc.fee]]
  /\ UNCHANGED <<doc, ledgerVars>>

SettlePay(p) == At(p, "settlePay") /\ Pay(p, "settleClear")

SettleClear(p) ==
  /\ At(p, "settleClear")
  /\ ClearMarker(proc[p].op)
  /\ Goto(p, "reread")
  /\ UNCHANGED ledgerVars

\* The read is repeated, the checks that followed the first one are not.
Reread(p) ==
  /\ At(p, "reread")
  /\ proc' = [proc EXCEPT ![p].at = "claim", ![p].seen = doc.status,
                          ![p].fee = doc.fee, ![p].op = None]
  /\ UNCHANGED <<doc, ledgerVars>>

StaffClaims(p) == At(p, "claim") /\ Job(p, {"staff"})
Entering(p) == proc[p].want = "rejected" /\ proc[p].seen # "rejected"
Leaving(p) == proc[p].seen = "rejected" /\ proc[p].want # "rejected"

RejectableDuringFee(p) ==
  /\ doc.status = proc[p].seen /\ ~doc.refunded
  /\ doc.redebit = None

Rejectable(p) ==
  /\ doc.status = proc[p].seen /\ ~doc.refunded
  /\ doc.plan = None /\ doc.fee = proc[p].fee
  /\ doc.redebit = None

\* Into rejected: the refund travels with the claim.
EnterRejected(p) ==
  /\ StaffClaims(p) /\ Entering(p)
  /\ \/ Rejectable(p) /\ Refunding(p, "rejected")
     \/ ~Rejectable(p) /\ Goto(p, "moneyless") /\ UNCHANGED <<doc, named, worth>>
  /\ UNCHANGED <<log, sealed, money, charged>>

\* The second claim: refunded already, into rejected without money; or
\* rejected without a refund, out of it without a debit; or 409.
MoneylessClaim(p) ==
  /\ At(p, "moneyless")
  /\ doc' = IF \/ /\ Entering(p)
                  /\ doc.status = proc[p].seen /\ doc.refunded
                  /\ doc.plan = None /\ doc.redebit = None
               \/ /\ Leaving(p)
                  /\ doc.status = "rejected" /\ ~doc.refunded
                  /\ doc.credit = None
            THEN [doc EXCEPT !.status = proc[p].want] ELSE doc
  /\ End(p)
  /\ UNCHANGED ledgerVars

Leavable(p) ==
  doc.status = "rejected" /\ doc.refunded /\ doc.credit = None

\* Out of rejected: the new debit travels with the claim, as a plan.
LeaveRejected(p) == LET cost == Amount + proc[p].fee IN
  /\ StaffClaims(p) /\ Leaving(p)
  /\ \/ /\ Leavable(p)
        /\ \E d \in Redebit :
             /\ doc' = [doc EXCEPT !.status = proc[p].want, !.refunded = FALSE,
                                   !.redebit = d]
             /\ Name(d, cost)
             /\ proc' = [proc EXCEPT ![p].at = "ensure", ![p].op = d,
                                     ![p].cost = cost]
     \/ ~Leavable(p) /\ Goto(p, "moneyless") /\ UNCHANGED <<doc, named, worth>>
  /\ UNCHANGED <<log, sealed, money, charged>>

PlainClaimBlind(p) ==
  /\ StaffClaims(p) /\ ~Entering(p) /\ ~Leaving(p)
  /\ doc' = IF doc.redebit = None
            THEN [doc EXCEPT !.status = proc[p].want] ELSE doc
  /\ End(p)
  /\ UNCHANGED ledgerVars

\* Between live states, or a repeated rejection: no money moves.
PlainClaim(p) ==
  /\ StaffClaims(p) /\ ~Entering(p) /\ ~Leaving(p)
  /\ doc' = IF doc.status = proc[p].seen /\ doc.redebit = None
            THEN [doc EXCEPT !.status = proc[p].want] ELSE doc
  /\ End(p)
  /\ UNCHANGED ledgerVars

\* The end of a reactivation, in the request or in the healer.
RedebitFinish(p) ==
  /\ At(p, "finish") /\ Job(p, {"staff", "healRedebit"})
  /\ doc' = IF doc.redebit = proc[p].op THEN [doc EXCEPT !.redebit = None]
            ELSE doc
  /\ End(p)
  /\ UNCHANGED ledgerVars

RedebitAbortKeepsPlan(p) ==
  /\ At(p, "abort") /\ Job(p, {"staff", "healRedebit"})
  /\ doc' = IF doc.redebit = proc[p].op
            THEN [doc EXCEPT !.status = "rejected", !.refunded = TRUE]
            ELSE doc
  /\ End(p)
  /\ UNCHANGED ledgerVars

RedebitAbort(p) ==
  /\ At(p, "abort") /\ Job(p, {"staff", "healRedebit"})
  /\ doc' = IF doc.redebit = proc[p].op
            THEN [doc EXCEPT !.status = "rejected", !.refunded = TRUE,
                             !.redebit = None]
            ELSE doc
  /\ End(p)
  /\ UNCHANGED ledgerVars

-----------------------------------------------------------------------------
(* mark_paid_from_delivery                                                 *)

MarkPaidRead(p) ==
  /\ At(p, "idle")
  /\ doc.status \notin {"absent", "paid", "rejected", "cancelled"}
  /\ doc.redebit = None /\ doc.credit = None
  /\ proc' = [proc EXCEPT ![p] = [Idle EXCEPT !.job = "markPaid", !.at = "claim",
                                              !.seen = doc.status]]
  /\ UNCHANGED <<doc, ledgerVars>>

MarkPaidClaim(p) ==
  /\ At(p, "claim") /\ Job(p, {"markPaid"})
  /\ doc' = IF doc.status = proc[p].seen /\ doc.redebit = None /\ doc.credit = None
            THEN [doc EXCEPT !.status = "paid"] ELSE doc
  /\ End(p)
  /\ UNCHANGED ledgerVars

-----------------------------------------------------------------------------
(* set_courier_fee, apply_fee_change_plan, settle_fee_change_plan          *)

FeeRead(p) ==
  /\ At(p, "idle") /\ doc.status \notin {"absent", "rejected", "cancelled"}
  /\ proc' = [proc EXCEPT ![p] = [Idle EXCEPT !.job = "fee", !.at = "claim",
                                              !.fee = doc.fee]]
  /\ UNCHANGED <<doc, ledgerVars>>

\* How a plan of this delta is settled: a debit, a credit, or nothing.
SettleAt(delta) ==
  IF delta > 0 THEN "ensure" ELSE IF delta < 0 THEN "pay" ELSE "finish"

FeeChangeable(p) ==
  /\ doc.fee = proc[p].fee
  /\ doc.status \notin {"absent", "rejected", "cancelled"}
  /\ doc.plan = None

FeeClaimRevertsDelta(p) ==
  /\ At(p, "claim") /\ Job(p, {"fee"})
  /\ \/ /\ FeeChangeable(p)
        /\ \E f \in Fees, o \in FeeOp : LET delta == f - doc.fee IN
             /\ doc' = [doc EXCEPT !.fee = f, !.plan = o, !.revert = delta]
             /\ Name(o, delta)
             /\ proc' = [proc EXCEPT ![p].at = SettleAt(delta), ![p].op = o,
                                     ![p].cost = delta]
     \/ ~FeeChangeable(p) /\ End(p) /\ UNCHANGED <<doc, named, worth>>
  /\ UNCHANGED <<log, sealed, money, charged>>

FeeClaim(p) ==
  /\ At(p, "claim") /\ Job(p, {"fee"})
  /\ \/ /\ FeeChangeable(p)
        /\ \E f \in Fees, o \in FeeOp : LET delta == f - doc.fee IN
             /\ doc' = [doc EXCEPT !.fee = f, !.plan = o, !.revert = doc.fee]
             /\ Name(o, delta)
             /\ proc' = [proc EXCEPT ![p].at = SettleAt(delta), ![p].op = o,
                                     ![p].cost = delta]
     \/ ~FeeChangeable(p) /\ End(p) /\ UNCHANGED <<doc, named, worth>>
  /\ UNCHANGED <<log, sealed, money, charged>>

FeeCredit(p) ==
  /\ At(p, "pay") /\ Job(p, {"fee", "healFee"})
  /\ Pay(p, "finish")

FeeFinish(p) ==
  /\ At(p, "finish") /\ Job(p, {"fee", "healFee"})
  /\ doc' = IF doc.plan = proc[p].op THEN [doc EXCEPT !.plan = None, !.revert = 0]
            ELSE doc
  /\ End(p)
  /\ UNCHANGED ledgerVars

FeeRevertKeepsPlan(p) ==
  /\ At(p, "abort") /\ Job(p, {"fee", "healFee"})
  /\ doc' = IF doc.plan = proc[p].op THEN [doc EXCEPT !.fee = doc.revert] ELSE doc
  /\ End(p)
  /\ UNCHANGED ledgerVars

\* A fee that could not be charged goes back to its earlier value.
FeeRevert(p) ==
  /\ At(p, "abort") /\ Job(p, {"fee", "healFee"})
  /\ doc' = IF doc.plan = proc[p].op
            THEN [doc EXCEPT !.plan = None, !.fee = doc.revert, !.revert = 0]
            ELSE doc
  /\ End(p)
  /\ UNCHANGED ledgerVars

-----------------------------------------------------------------------------
(* credit_recovery: the healer's passes over this document                 *)

\* The cutoffs (90 s or 120 s after the marker) leave a request time to end,
\* but do not wait for it: the healer may take up what a request still holds.
HealStart(job, call, o, cost) ==
  /\ proc' = [proc EXCEPT ![Healer] =
       [Idle EXCEPT !.job = job, !.at = call, !.op = o, !.cost = cost,
                    !.seen = doc.status]]
  /\ UNCHANGED <<doc, ledgerVars>>

HealCreditOfRejected ==
  /\ At(Healer, "idle") /\ doc.credit # None /\ doc.status = "rejected"
  /\ HealStart("healCredit", "pay", doc.credit, 0)

HealCredit ==
  /\ At(Healer, "idle") /\ doc.credit # None
  /\ HealStart("healCredit", "pay", doc.credit, 0)

HealInitOnlyNew ==
  /\ At(Healer, "idle") /\ doc.status = "initializing"
  /\ HealStart("healInit", "claim", Creation, Amount + doc.fee)

HealInit ==
  /\ At(Healer, "idle")
  /\ \/ doc.status = "initializing"
     \/ doc.status = "failed_init" /\ doc.init
  /\ HealStart("healInit", IF doc.status = "initializing" THEN "claim" ELSE "burn",
               Creation, Amount + doc.fee)

\* The claim decides between the creator and the healer.
HealInitClaim(p) ==
  /\ At(p, "claim") /\ Job(p, {"healInit"})
  /\ \/ /\ doc.status = "initializing"
        /\ doc' = [doc EXCEPT !.status = "failed_init"]
        /\ Goto(p, "burn")
     \/ doc.status # "initializing" /\ End(p) /\ UNCHANGED doc
  /\ UNCHANGED ledgerVars

HealInitDone(p) ==
  /\ At(p, "abort") /\ Job(p, {"healInit"})
  /\ doc' = IF doc.status = "failed_init" THEN [doc EXCEPT !.init = FALSE] ELSE doc
  /\ End(p)
  /\ UNCHANGED ledgerVars

HealRedebit ==
  /\ At(Healer, "idle") /\ doc.redebit # None
  /\ HealStart("healRedebit", "ensure", doc.redebit, worth[doc.redebit])

HealFee ==
  /\ At(Healer, "idle") /\ doc.plan # None
  /\ HealStart("healFee", SettleAt(worth[doc.plan]), doc.plan, worth[doc.plan])

-----------------------------------------------------------------------------
\* The process dies; what it held in memory is gone.
Die(p) ==
  /\ ~At(p, "idle")
  /\ End(p)
  /\ UNCHANGED <<doc, ledgerVars>>

\* The environment: the delivery a courier confirms is of an activated
\* withdrawal.  The administrator's own form also publishes one for a
\* withdrawal still half made, which is left out.
Delivered == doc.status \notin Transient

Ask(p) ==
  \/ "create" \in Kinds /\ CreateInsert(p)
  \/ "cancel" \in Kinds /\ CancelRead(p)
  \/ "staff" \in Kinds /\ StaffRead(p)
  \/ "markPaid" \in Kinds /\ Delivered /\ MarkPaidRead(p)
  \/ "fee" \in Kinds /\ FeeRead(p)

Run(p) ==
  \/ Ensure(p) \/ Charge(p) \/ Outcome(p) \/ Refused(p)
  \/ Burn(p) \/ BurnToken(p) \/ GiveBack(p) \/ MarkUndone(p)
  \/ PayRefund(p) \/ ClearRefund(p)
  \/ CreateDelete(p) \/ CreateActivate(p)
  \/ CancelClaim(p)
  \/ SettlePay(p) \/ SettleClear(p) \/ Reread(p)
  \/ EnterRejected(p) \/ MoneylessClaim(p) \/ LeaveRejected(p) \/ PlainClaim(p)
  \/ RedebitFinish(p) \/ RedebitAbort(p)
  \/ MarkPaidClaim(p)
  \/ FeeClaim(p) \/ FeeCredit(p) \/ FeeFinish(p) \/ FeeRevert(p)
  \/ HealInitClaim(p) \/ HealInitDone(p)

Heal == HealCredit \/ HealInit \/ HealRedebit \/ HealFee

Act ==
  \/ \E p \in Request : Ask(p)
  \/ Heal
  \/ \E p \in Process : Run(p) \/ Die(p)

-----------------------------------------------------------------------------
(* The history: what a step does that the flows do not allow for.  Nothing *)
(* prevents it and no guard reads it; the properties name the part of it   *)
(* after which they no longer hold.                                        *)

\* The staff's second read finds a withdrawal that its client cancelled since
\* the first one; what was checked of the first is not checked again.
Unseen ==
  \E p \in Process :
    /\ At(p, "reread") /\ proc'[p].at = "claim"
    /\ doc.status = "cancelled"

\* A reactivation debits the courier fee it read, which is not the one now.
OldFee ==
  /\ doc'.redebit \notin {None, doc.redebit}
  /\ worth'[doc'.redebit] # Amount + doc.fee

Replanned == doc'.plan \notin {None, doc.plan}

\* The fee is changed before the withdrawal is activated.
EarlyFee == Replanned /\ doc.status \in Transient

\* The fee is changed while a reactivation is still to be debited.
Reopening == Replanned /\ doc.redebit # None

\* The healer takes up a re-debit or a fee plan that a request, slower than
\* the cutoff, is still carrying out.
Overtaken ==
  /\ At(Healer, "idle") /\ proc'[Healer].op \in Redebit \cup FeeOp
  /\ \E q \in Request : proc[q].op = proc'[Healer].op

\* A burn is reported although its loop ran out undecided.
Undecided ==
  \E p \in Process :
    /\ At(p, "burn") /\ proc'[p].at = "abort"
    /\ log[proc[p].op] # "undone"

Strays(x) ==
  \/ x = "unseen" /\ Unseen
  \/ x = "oldFee" /\ OldFee
  \/ x = "earlyFee" /\ EarlyFee
  \/ x = "reopening" /\ Reopening
  \/ x = "overtaken" /\ Overtaken
  \/ x = "undecided" /\ Undecided

Next == Act /\ strayed' = strayed \cup {x \in Stray : Strays(x)}

Spec == Init /\ [][Next]_vars

\* Every pass of the healer visits each kind of obligation, and the scheduler
\* starts a pass every two minutes; nothing is assumed of the requests, which
\* may stall or die.  The healer may die between the claim of a half-made
\* withdrawal and its end, the one obligation that it resumes elsewhere than
\* it began, but not for ever: one that dies in every pass heals nothing.
\* The history is not looked at and not kept.
HealerDies == Job(Healer, {"healInit"}) /\ Die(Healer)

LiveNext ==
  /\ \/ \E p \in Request : Ask(p) \/ Die(p)
     \/ Heal \/ HealerDies
     \/ \E p \in Process : Run(p)
  /\ UNCHANGED strayed

Fairness ==
  /\ WF_progVars(Run(Healer))
  /\ SF_progVars(HealCredit) /\ SF_progVars(HealInit)
  /\ SF_progVars(HealRedebit) /\ SF_progVars(HealFee)
  /\ <>[][HealerDies => Run(Healer)]_progVars

LiveSpec == Init /\ [][LiveNext]_vars /\ Fairness

-----------------------------------------------------------------------------
(* Properties *)

\* No intention of a movement is left in the document.
Quiet ==
  /\ ~doc.init
  /\ doc.credit = None /\ doc.redebit = None /\ doc.plan = None

Due == IF doc.status \in Live THEN Amount + doc.fee ELSE 0

\* Once every intention is cleared, the client has paid for the withdrawal
\* exactly what it is worth while it lives and nothing once it is rejected,
\* cancelled or was never created: whatever the client, the staff, the courier
\* and the healer do at once, and die of, until one of the things of Stray
\* happens.
ChargedExactly == strayed = {} => (Quiet => charged = Due)

\* A live withdrawal is never one whose money was refunded (S01: never
\* approved and refunded at once), unless the staff's second read brought a
\* cancelled one back to life.
NeverPaidAndRefunded ==
  "unseen" \notin strayed => (doc.status \in Live => ~doc.refunded)

\* A refund published in the document is not dropped before it was paid,
\* whatever transition comes next (D11).
RefundNotDropped ==
  [][doc.credit # None /\ doc'.credit # doc.credit
       => money[doc.credit] = "moved"]_vars

\* The creation's debit is decided for good when the healer lets go of a
\* failed attempt: never charged afterwards, or charged and given back, unless
\* a burn was reported undecided.
FailedInitSettled ==
  doc.status = "failed_init" /\ ~doc.init /\ "undecided" \notin strayed =>
    IF money[Creation] = "none" THEN Creation \in sealed
    ELSE money[Creation] = "back"

\* No intention stays in the document for ever, although the requests that
\* published it may die at any step: the healer completes or reverses it.
HealsCredit == \A r \in Refund : []<>(doc.credit # r)
HealsRedebit == \A d \in Redebit : []<>(doc.redebit # d)
HealsFee == \A f \in FeeOp : []<>(doc.plan # f)
HealsInit == []<>~doc.init
-----------------------------------------------------------------------------
(* Refinement: an op_id and the amount it was given, which a debit charges *)
(* and a credit pays, are one operation of OpLedger.  The log does not     *)
(* decide how far it got, its token and its money do.  Whether the balance *)
(* suffices is left open here, so every debit may go through.              *)

\* What an op_id may be worth to the client: a debit, its refund, a change of fee.
Worths == {Amount + f : f \in Fees} \cup {-(Amount + f) : f \in Fees}
            \cup {f - g : f, g \in Fees}

CreditOp == {x \in (Refund \cup FeeOp) \X Worths : x[2] < 0}

\* A creation that is over before the start is no operation of the ledger.
DebitOp ==
  {x \in (Chargeable \ IF Created THEN {Creation} ELSE {}) \X Worths : x[2] > 0}

Moves == [x \in CreditOp \cup DebitOp |-> IF x[2] < 0 THEN -x[2] ELSE x[2]]

OpStatus ==
  [x \in CreditOp \cup DebitOp |->
     IF worth[x[1]] # x[2] THEN "open"
     ELSE IF money[x[1]] = "moved" THEN "applied"
     ELSE IF money[x[1]] = "back" THEN "undone"
     ELSE IF x[1] \in sealed THEN "void" ELSE "open"]

Ledger == INSTANCE OpLedger WITH
  Credit <- CreditOp, Debit <- DebitOp, Forced <- DebitOp, Amount <- Moves,
  Opening <- IF Created THEN -Amount ELSE 0, Tolerance <- 0,
  balance <- -charged, status <- OpStatus

\* The flows of a withdrawal use balances.py as OpLedger promises: every op_id
\* moves its amount once, none after its token, and what goes back to the
\* client is exactly what was charged, whoever gives it back.
ImplementsLedger == Ledger!LedgerSpec
=============================================================================

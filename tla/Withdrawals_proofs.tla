-------------------------- MODULE Withdrawals_proofs --------------------------
(***************************************************************************)
(* The withdrawal, for any number of requests, op_ids, fees and amounts.   *)
(* The invariant comes in layers, each proved from the ones before it.     *)
(* What holds of every request the program serves: types, the calls a      *)
(* process can be at, and the books of each op_id.  What holds until the   *)
(* staff's second read meets a cancellation.  What the client is charged,  *)
(* until a step does one of the things of Stray.  And, unless fees change  *)
(* on a half-made creation, what each op_id is worth and who holds it,     *)
(* from which the op_ids implement OpLedger.                               *)
(***************************************************************************)
EXTENDS Withdrawals, TLAPS

\* The calls of a debit and of its burn, and what ends them.
DebitCalls == {"ensure", "charge", "outcome", "refused", "burn", "token",
               "giveBack", "mark", "abort", "finish"}

\* What a request, or the healer, holds at each of its calls.
Fits(l) ==
  \/ l = Idle
  \/ /\ l.job = "create" /\ l.op = Creation
     /\ l.at \in (DebitCalls \cup {"delete"}) \ {"abort"}
  \/ /\ l.job = "cancel"
     /\ \/ l.at = "claim" /\ l.op = None
        \/ l.at \in {"pay", "clear"} /\ l.op \in Refund
  \/ /\ l.job = "staff" /\ l.want \in Live \cup {"rejected"}
     /\ \/ /\ l.at \in {"claim", "moneyless"} /\ l.op = None
           /\ l.seen \in Live \cup {"rejected", "cancelled"}
        \/ /\ l.at \in {"settlePay", "settleClear", "reread", "pay", "clear"}
           /\ l.op \in Refund
        \/ l.at \in DebitCalls /\ l.op \in Redebit
  \/ l.job = "markPaid" /\ l.at = "claim" /\ l.op = None /\ l.seen \in Live
  \/ /\ l.job = "fee"
     /\ \/ l.at = "claim" /\ l.op = None
        \/ l.at \in DebitCalls \cup {"pay"} /\ l.op \in FeeOp
  \/ l.job = "healCredit" /\ l.at \in {"pay", "clear"} /\ l.op \in Refund
  \/ /\ l.job = "healInit" /\ l.op = Creation
     /\ l.at \in {"claim", "burn", "token", "giveBack", "mark", "abort"}
  \/ l.job = "healRedebit" /\ l.at \in DebitCalls /\ l.op \in Redebit
  \/ l.job = "healFee" /\ l.at \in DebitCalls \cup {"pay"} /\ l.op \in FeeOp

Placed == \A p \in Process : Fits(proc[p])

\* A document still being created owes nothing else, a refund is published
\* with its flag, and the staff reads created withdrawals only.
DocFits ==
  /\ doc.status \in Transient \cup {"absent"}
       => ~doc.refunded /\ doc.credit = None /\ doc.redebit = None
  /\ doc.status = "initializing" => doc.init
  /\ doc.credit # None => doc.refunded
  /\ Creation \notin named => doc.status = "absent"
  /\ \A p \in Process : Job(p, {"staff"})
       => doc.status \notin Transient \cup {"absent"}

\* An op_id nobody gave out is nowhere.
Fresh ==
  /\ \A p \in Process : proc[p].op \in named \cup {None}
  /\ {doc.credit, doc.redebit, doc.plan} \subseteq named \cup {None}
  /\ \A o \in Op \ named : money[o] = "none"
  /\ \A o \in Chargeable \ named : log[o] = "open" /\ o \notin sealed

\* The log, the token and the money of each op_id, and what a process knows of
\* them between two of its calls.
Decided ==
  IF money[Creation] = "none" THEN Creation \in sealed ELSE money[Creation] = "back"

Books ==
  /\ \A o \in Refund : money[o] # "back"
  /\ \A o \in Chargeable : /\ log[o] = "applied" => money[o] # "none"
                           /\ log[o] = "undone" => money[o] = "back"
  /\ \A p \in Process :
       /\ At(p, "mark") => money[proc[p].op] = "back"
       /\ proc[p].at \in {"clear", "settleClear"} => money[proc[p].op] = "moved"
       /\ At(p, "abort") /\ Job(p, {"healInit"}) /\ "undecided" \notin strayed
            => Decided

Base == ProgOK /\ Placed /\ DocFits /\ Fresh /\ Books /\ FailedInitSettled

-----------------------------------------------------------------------------
(* Steps of a process                                                      *)

\* Going on to the next call changes nothing else of what a process holds.
LEMMA GotoStep ==
  ASSUME ProgOK, NEW p \in Process, NEW call \in Calls, Goto(p, call)
  PROVE  /\ proc' \in [Process -> Local]
         /\ \A q \in Process \ {p} : proc'[q] = proc[q]
         /\ proc'[p].at = call
         /\ proc'[p].job = proc[p].job /\ proc'[p].op = proc[p].op
         /\ proc'[p].seen = proc[p].seen /\ proc'[p].fee = proc[p].fee
         /\ proc'[p].want = proc[p].want /\ proc'[p].cost = proc[p].cost
<1> DEFINE l == [proc[p] EXCEPT !.at = call]
<1>1. proc[p] \in Local
  BY DEF ProgOK
<1>2. /\ l \in Local
      /\ l.at = call /\ l.job = proc[p].job /\ l.op = proc[p].op
      /\ l.seen = proc[p].seen /\ l.fee = proc[p].fee
      /\ l.want = proc[p].want /\ l.cost = proc[p].cost
  BY <1>1 DEF Local
<1>3. proc' = [proc EXCEPT ![p] = l]
  BY DEF Goto
<1> QED
  BY <1>2, <1>3 DEF ProgOK

\* A request that ends, or dies, holds nothing.
LEMMA IdleLocal == Idle \in Local /\ Fits(Idle)
  BY WithdrawalsAssumption DEF Idle, Local, Jobs, Calls, Fits

LEMMA EndStep ==
  ASSUME ProgOK, NEW p \in Process, End(p)
  PROVE  /\ proc' \in [Process -> Local]
         /\ \A q \in Process \ {p} : proc'[q] = proc[q]
         /\ proc'[p] = Idle
  BY IdleLocal DEF End, ProgOK

\* A process that starts, or that takes something up, holds a local.
LEMMA TakeStep ==
  ASSUME ProgOK, NEW p \in Process, NEW l \in Local, proc' = [proc EXCEPT ![p] = l]
  PROVE  /\ proc' \in [Process -> Local]
         /\ \A q \in Process \ {p} : proc'[q] = proc[q]
         /\ proc'[p] = l
  BY DEF ProgOK

\* What a process holds says which op_id its call is about.
LEMMA OpsOfCalls ==
  ASSUME Placed, NEW p \in Process
  PROVE  /\ proc[p].at \in {"ensure", "charge", "outcome", "refused", "burn",
                            "token", "giveBack", "mark"}
              => proc[p].op \in Chargeable
         /\ proc[p].at \in {"settlePay", "settleClear", "reread", "clear"}
              => proc[p].op \in Refund
         /\ At(p, "pay") => IF Job(p, {"fee", "healFee"}) THEN proc[p].op \in FeeOp
                            ELSE proc[p].op \in Refund
<1>1. Fits(proc[p])
  BY DEF Placed
<1>2. CASE proc[p] = Idle
  BY <1>2 DEF Idle, At
<1>3. CASE proc[p] # Idle
  BY <1>1, <1>3 DEF Fits, DebitCalls, Chargeable, At, Job
<1> QED
  BY <1>2, <1>3

\* The calls on balances.py keep types and places.
LEMMA ShapeDebit ==
  ASSUME ProgOK, Placed, NEW p \in Process,
         \/ Ensure(p) \/ Charge(p) \/ Outcome(p) \/ Refused(p)
         \/ Burn(p) \/ BurnToken(p) \/ GiveBack(p) \/ MarkUndone(p)
  PROVE  ProgOK' /\ Placed'
<1> USE DEF ledgerVars
<1>1. proc[p].op \in Chargeable /\ Fits(proc[p]) /\ proc[p] # Idle
  BY OpsOfCalls DEF Ensure, Charge, Outcome, Refused, Burn, BurnToken, GiveBack,
      MarkUndone, At, Placed, Idle
<1> DEFINE o == proc[p].op
<1>2. PICK call \in Calls : /\ Goto(p, call) \/ End(p)
                            /\ Goto(p, call) =>
                                 /\ call \in (DebitCalls \cup {"delete"})
                                 /\ call = "delete" => Job(p, {"create"})
                                 /\ call = "abort" => ~Job(p, {"create"})
                                 /\ Job(p, {"healInit"}) => call \in
                                      {"token", "giveBack", "mark", "abort"}
  <2> USE DEF Calls, DebitCalls, At, Job
  <2>1. CASE Ensure(p)
    BY <1>1, <2>1 DEF Ensure, Fits
  <2>2. CASE Charge(p)
    BY <1>1, <2>2 DEF Charge, Fits
  <2>3. CASE Outcome(p)
    BY <1>1, <2>3 DEF Outcome, Fits
  <2>4. CASE Refused(p)
    BY <1>1, <2>4 DEF Refused, Fits
  <2>5. CASE Burn(p) \/ BurnToken(p) \/ MarkUndone(p)
    BY <1>1, <2>5 DEF Burn, BurnToken, MarkUndone, AfterBurn
  <2>6. CASE GiveBack(p)
    BY <1>1, <2>6 DEF GiveBack
  <2> QED
    BY <2>1, <2>2, <2>3, <2>4, <2>5, <2>6
<1>3. /\ proc' \in [Process -> Local]
      /\ \A q \in Process \ {p} : proc'[q] = proc[q]
      /\ Fits(proc'[p])
  <2>1. CASE End(p)
    BY <2>1, EndStep, IdleLocal
  <2>2. CASE Goto(p, call)
    BY <1>1, <1>2, <2>2, GotoStep, WithdrawalsAssumption
       DEF Fits, Job, DebitCalls, Chargeable, Op
  <2> QED
    BY <1>2, <2>1, <2>2
<1>4. /\ doc' = doc /\ named' = named /\ worth' = worth
      /\ log' \in [Chargeable -> {"open", "applied", "burned", "undone"}]
      /\ sealed' \subseteq Chargeable
      /\ money' \in [Op -> {"none", "moved", "back"}]
      /\ charged' \in Int
  <2>1. o \in Op /\ worth[o] \in Int /\ proc[p].cost \in Int
    BY <1>1 DEF ProgOK, Op, Local
  <2>2. CASE Ensure(p) \/ Outcome(p) \/ Refused(p)
    BY <2>2 DEF Ensure, Outcome, Refused, ProgOK
  <2>3. CASE Charge(p)
    BY <1>1, <2>1, <2>3 DEF Charge, Move, ProgOK
  <2>4. CASE Burn(p) \/ BurnToken(p) \/ MarkUndone(p)
    BY <1>1, <2>1, <2>4 DEF Burn, BurnToken, MarkUndone, ProgOK
  <2>5. CASE GiveBack(p)
    BY <1>1, <2>1, <2>5 DEF GiveBack, ProgOK
  <2> QED
    BY <2>2, <2>3, <2>4, <2>5
<1> QED
  BY <1>3, <1>4 DEF ProgOK, Placed

\* The credits keep types and places.
LEMMA ShapePay ==
  ASSUME ProgOK, Placed, NEW p \in Process,
         PayRefund(p) \/ SettlePay(p) \/ FeeCredit(p)
  PROVE  ProgOK' /\ Placed'
<1> USE DEF ledgerVars
<1>1. PICK call \in {"clear", "settleClear", "finish"} :
        /\ Pay(p, call)
        /\ call = "clear" => At(p, "pay") /\ ~Job(p, {"fee", "healFee"})
        /\ call = "settleClear" => At(p, "settlePay")
        /\ call = "finish" => At(p, "pay") /\ Job(p, {"fee", "healFee"})
  BY DEF PayRefund, SettlePay, FeeCredit
<1>2. proc[p].op \in Op /\ Fits(proc[p]) /\ proc[p] # Idle
  BY <1>1, OpsOfCalls DEF Placed, Idle, At, Op, Chargeable
<1>3. call \in Calls /\ Goto(p, call)
  BY <1>1 DEF Pay, Calls
<1>4. Fits(proc'[p])
  BY <1>1, <1>2, <1>3, GotoStep DEF Fits, Job, At, DebitCalls
<1>5. money' \in [Op -> {"none", "moved", "back"}] /\ charged' \in Int
  BY <1>1, <1>2 DEF Pay, Move, ProgOK
<1>6. doc' = doc /\ log' = log /\ sealed' = sealed /\ named' = named /\ worth' = worth
  BY <1>1 DEF Pay
<1> QED
  BY <1>3, <1>4, <1>5, <1>6, GotoStep DEF ProgOK, Placed

\* So do the other calls of a process that is under way.
LEMMA ShapeRun ==
  ASSUME ProgOK, Placed, DocFits, NEW p \in Process,
         \/ ClearRefund(p) \/ SettleClear(p) \/ Reread(p)
         \/ CreateDelete(p) \/ CreateActivate(p)
         \/ MoneylessClaim(p) \/ PlainClaim(p) \/ RedebitFinish(p) \/ RedebitAbort(p)
         \/ MarkPaidClaim(p) \/ FeeFinish(p) \/ FeeRevert(p)
         \/ HealInitClaim(p) \/ HealInitDone(p)
  PROVE  ProgOK' /\ Placed'
<1> USE WithdrawalsAssumption DEF ledgerVars
<1>1. Fits(proc[p]) /\ proc[p] \in Local /\ doc \in Doc
  BY DEF Placed, ProgOK
<1>2. UNCHANGED ledgerVars
  BY DEF ClearRefund, SettleClear, Reread, CreateDelete, CreateActivate,
      MoneylessClaim, PlainClaim, RedebitFinish, RedebitAbort, MarkPaidClaim,
      FeeFinish, FeeRevert, HealInitClaim, HealInitDone
<1>3. doc' \in Doc
  <2> USE DEF Doc, Status, Live
  <2>1. CASE ClearRefund(p) \/ SettleClear(p)
    BY <1>1, <2>1 DEF ClearRefund, SettleClear, ClearMarker
  <2>2. CASE CreateDelete(p)
    BY <1>1, <2>2 DEF CreateDelete, NoDoc
  <2>3. CASE CreateActivate(p)
    BY <1>1, <2>3 DEF CreateActivate
  <2>4. CASE MoneylessClaim(p)
    <3>1. proc[p].want \in Status
      BY <1>1, <2>4 DEF MoneylessClaim, Fits, At, Idle, DebitCalls
    <3>2. doc' = doc \/ doc' = [doc EXCEPT !.status = proc[p].want]
      BY <2>4, Zenon DEF MoneylessClaim
    <3> QED
      BY <1>1, <3>1, <3>2
  <2>5. CASE PlainClaim(p)
    <3>1. proc[p].want \in Status
      BY <1>1, <2>5 DEF PlainClaim, StaffClaims, Fits, Job, Idle, DebitCalls
    <3>2. doc' = doc \/ doc' = [doc EXCEPT !.status = proc[p].want]
      BY <2>5, Zenon DEF PlainClaim
    <3> QED
      BY <1>1, <3>1, <3>2
  <2>6. CASE RedebitFinish(p)
    BY <1>1, <2>6 DEF RedebitFinish
  <2>11. CASE RedebitAbort(p)
    BY <1>1, <2>11 DEF RedebitAbort
  <2>7. CASE MarkPaidClaim(p)
    BY <1>1, <2>7 DEF MarkPaidClaim
  <2>8. CASE FeeFinish(p)
    BY <1>1, <2>8 DEF FeeFinish
  <2>12. CASE FeeRevert(p)
    BY <1>1, <2>12 DEF FeeRevert
  <2>9. CASE HealInitClaim(p) \/ HealInitDone(p)
    BY <1>1, <2>9 DEF HealInitClaim, HealInitDone
  <2>10. CASE Reread(p)
    BY <1>1, <2>10 DEF Reread
  <2> QED
    BY <2>1, <2>2, <2>3, <2>4, <2>5, <2>6, <2>7, <2>8, <2>9, <2>10, <2>11, <2>12
<1>4. /\ proc' \in [Process -> Local]
      /\ \A q \in Process \ {p} : proc'[q] = proc[q]
      /\ Fits(proc'[p])
  <2>1. CASE End(p)
    BY <2>1, EndStep, IdleLocal
  <2>2. CASE SettleClear(p)
    <3>1. Goto(p, "reread") /\ "reread" \in Calls /\ At(p, "settleClear")
      BY <2>2 DEF SettleClear, Calls
    <3> QED
      BY <1>1, <3>1, GotoStep DEF Fits, At, Idle, DebitCalls
  <2>3. CASE Goto(p, "burn") /\ (CreateActivate(p) \/ HealInitClaim(p))
    <3>1. "burn" \in Calls
      BY DEF Calls
    <3> QED
      BY <1>1, <2>3, <3>1, GotoStep DEF CreateActivate, HealInitClaim, Fits, At, Job,
          Idle, DebitCalls
  <2>4. CASE Reread(p)
    <3> DEFINE l == [proc[p] EXCEPT !.at = "claim", !.seen = doc.status,
                                    !.fee = doc.fee, !.op = None]
    <3>1. /\ proc[p].job = "staff" /\ proc[p].want \in Live \cup {"rejected"}
      BY <1>1, <2>4 DEF Reread, Fits, At, Idle, DebitCalls
    <3>2. doc.status \in Live \cup {"rejected", "cancelled"}
      BY <1>1, <3>1 DEF DocFits, Job, Doc, Status, Transient, Live
    <3>3. l \in Local /\ Fits(l)
      BY <1>1, <3>1, <3>2 DEF Local, Doc, Calls, Fits
    <3>4. proc' = [proc EXCEPT ![p] = l]
      BY <2>4 DEF Reread
    <3> QED
      BY <3>3, <3>4, TakeStep
  <2> QED
    BY <2>1, <2>2, <2>3, <2>4 DEF ClearRefund, CreateDelete, CreateActivate,
        MoneylessClaim, PlainClaim, RedebitFinish, RedebitAbort, MarkPaidClaim,
        FeeFinish, FeeRevert, HealInitClaim, HealInitDone
<1> QED
  BY <1>2, <1>3, <1>4 DEF ProgOK, Placed

-----------------------------------------------------------------------------
(* The claims that publish an intention, and give out its op_id            *)

\* A process that takes up a debit keeps the rest of what it holds.
LEMMA TakeDebit ==
  ASSUME ProgOK, NEW p \in Process, NEW call \in Calls, NEW o \in Op,
         NEW c \in Int,
         proc' = [proc EXCEPT ![p].at = call, ![p].op = o, ![p].cost = c]
  PROVE  /\ proc' \in [Process -> Local]
         /\ \A q \in Process \ {p} : proc'[q] = proc[q]
         /\ proc'[p].at = call /\ proc'[p].op = o /\ proc'[p].cost = c
         /\ proc'[p].job = proc[p].job /\ proc'[p].seen = proc[p].seen
         /\ proc'[p].fee = proc[p].fee /\ proc'[p].want = proc[p].want
<1> DEFINE l == [proc[p] EXCEPT !.at = call, !.op = o, !.cost = c]
<1>1. proc[p] \in Local
  BY DEF ProgOK
<1>2. /\ l \in Local
      /\ l.at = call /\ l.op = o /\ l.cost = c /\ l.job = proc[p].job
      /\ l.seen = proc[p].seen /\ l.fee = proc[p].fee /\ l.want = proc[p].want
  BY <1>1 DEF Local
<1>3. proc' = [proc EXCEPT ![p] = l]
  OBVIOUS
<1> QED
  BY <1>2, <1>3, TakeStep

LEMMA Amounts ==
  ASSUME ProgOK, NEW p \in Process
  PROVE  /\ Amount \in Nat \ {0} /\ proc[p].fee \in Nat
         /\ doc.fee \in Nat /\ doc.revert \in Nat
<1>1. proc[p].fee \in Fees /\ doc.fee \in Fees /\ doc.revert \in Fees
  BY DEF ProgOK, Local, Doc
<1> QED
  BY <1>1, WithdrawalsAssumption

LEMMA NameStep ==
  ASSUME ProgOK, NEW o \in Op, NEW c \in Int, Name(o, c)
  PROVE  /\ o \notin named /\ named' = named \cup {o}
         /\ worth' \in [Op -> Int] /\ worth'[o] = c
         /\ \A x \in Op \ {o} : worth'[x] = worth[x]
  BY DEF Name, ProgOK

\* What a claim with op_id o of cost c does besides its document.
Named(p, o, c) ==
  /\ o \notin named /\ named' = named \cup {o}
  /\ worth' \in [Op -> Int] /\ worth'[o] = c
  /\ \A x \in Op \ {o} : worth'[x] = worth[x]
  /\ UNCHANGED <<log, sealed, money, charged>>
  /\ proc' \in [Process -> Local]
  /\ \A q \in Process \ {p} : proc'[q] = proc[q]
  /\ proc'[p].op = o /\ proc'[p].job = proc[p].job
  /\ proc'[p].want = proc[p].want /\ proc'[p].fee = proc[p].fee

\* The refund of a cancellation or of a rejection.
Refunds(p, r, status) ==
  /\ Named(p, r, -(Amount + proc[p].fee))
  /\ proc'[p].at = "pay" /\ proc'[p].seen = proc[p].seen
  /\ doc' \in Doc
  /\ doc'.status = status /\ doc'.refunded /\ doc'.credit = r
  /\ doc'.init = doc.init /\ doc'.redebit = doc.redebit
  /\ doc'.plan = doc.plan /\ doc'.fee = doc.fee /\ doc'.revert = doc.revert

LEMMA RefundStep ==
  ASSUME ProgOK, NEW p \in Process, NEW status \in Status, Refunding(p, status),
         UNCHANGED <<log, sealed, money, charged>>
  PROVE  \E r \in Refund : Refunds(p, r, status)
<1>1. PICK r \in Refund :
        /\ doc' = [doc EXCEPT !.status = status, !.refunded = TRUE, !.credit = r]
        /\ Name(r, -(Amount + proc[p].fee))
        /\ proc' = [proc EXCEPT ![p].at = "pay", ![p].op = r]
  BY DEF Refunding
<1>2. /\ doc' \in Doc
      /\ doc'.status = status /\ doc'.refunded /\ doc'.credit = r
      /\ doc'.init = doc.init /\ doc'.redebit = doc.redebit
      /\ doc'.plan = doc.plan /\ doc'.fee = doc.fee /\ doc'.revert = doc.revert
  BY <1>1 DEF ProgOK, Doc
<1>3. r \in Op /\ -(Amount + proc[p].fee) \in Int /\ "pay" \in Calls
  BY Amounts DEF Op, Calls
<1>4. Named(p, r, -(Amount + proc[p].fee)) /\ proc'[p].at = "pay" /\ proc'[p].seen = proc[p].seen
  <2> DEFINE c == -(Amount + proc[p].fee)
  <2>1. /\ r \notin named /\ named' = named \cup {r}
        /\ worth' \in [Op -> Int] /\ worth'[r] = c
        /\ \A x \in Op \ {r} : worth'[x] = worth[x]
    BY <1>1, <1>3, NameStep
  <2>2. /\ proc' \in [Process -> Local]
        /\ \A q \in Process \ {p} : proc'[q] = proc[q]
        /\ proc'[p].at = "pay" /\ proc'[p].op = r
        /\ proc'[p].job = proc[p].job /\ proc'[p].seen = proc[p].seen
        /\ proc'[p].fee = proc[p].fee /\ proc'[p].want = proc[p].want
    <3> DEFINE l == [proc[p] EXCEPT !.at = "pay", !.op = r]
    <3>1. proc[p] \in Local
      BY DEF ProgOK
    <3>2. /\ l \in Local
          /\ l.at = "pay" /\ l.op = r /\ l.job = proc[p].job
          /\ l.seen = proc[p].seen /\ l.fee = proc[p].fee /\ l.want = proc[p].want
      BY <1>3, <3>1 DEF Local
    <3>3. proc' = [proc EXCEPT ![p] = l]
      BY <1>1
    <3> QED
      BY <3>2, <3>3, TakeStep
  <2> QED
    BY <2>1, <2>2 DEF Named
<1> QED
  BY <1>2, <1>4 DEF Refunds

\* The debit of a reactivation.
Redebits(p, d) ==
  /\ Named(p, d, Amount + proc[p].fee)
  /\ proc'[p].at = "ensure" /\ proc'[p].seen = proc[p].seen
  /\ proc'[p].cost = Amount + proc[p].fee
  /\ doc' \in Doc
  /\ doc'.status = proc[p].want /\ ~doc'.refunded /\ doc'.redebit = d
  /\ doc'.init = doc.init /\ doc'.credit = doc.credit
  /\ doc'.plan = doc.plan /\ doc'.fee = doc.fee /\ doc'.revert = doc.revert

LEMMA RedebitStep ==
  ASSUME ProgOK, NEW p \in Process, Fits(proc[p]), LeaveRejected(p)
  PROVE  \/ Leavable(p) /\ \E d \in Redebit : Redebits(p, d)
         \/ /\ ~Leavable(p) /\ Goto(p, "moneyless")
            /\ UNCHANGED <<doc, named, worth, log, sealed, money, charged>>
<1> DEFINE cost == Amount + proc[p].fee
<1>1. SUFFICES ASSUME Leavable(p) PROVE \E d \in Redebit : Redebits(p, d)
  BY DEF LeaveRejected
<1>2. PICK d \in Redebit :
        /\ doc' = [doc EXCEPT !.status = proc[p].want, !.refunded = FALSE,
                              !.redebit = d]
        /\ Name(d, cost)
        /\ proc' = [proc EXCEPT ![p].at = "ensure", ![p].op = d, ![p].cost = cost]
  BY <1>1 DEF LeaveRejected
<1>3. proc[p].want \in Status
  <2>1. proc[p].job = "staff"
    BY DEF LeaveRejected, StaffClaims, Job
  <2> QED
    BY <2>1 DEF Fits, Idle, Live, Status
<1>4. /\ doc' \in Doc
      /\ doc'.status = proc[p].want /\ ~doc'.refunded /\ doc'.redebit = d
      /\ doc'.init = doc.init /\ doc'.credit = doc.credit
      /\ doc'.plan = doc.plan /\ doc'.fee = doc.fee /\ doc'.revert = doc.revert
  BY <1>2, <1>3 DEF ProgOK, Doc
<1>5. d \in Op /\ cost \in Int /\ "ensure" \in Calls
  BY Amounts DEF Op, Chargeable, Calls
<1>6. /\ Named(p, d, cost) /\ proc'[p].at = "ensure"
      /\ proc'[p].seen = proc[p].seen /\ proc'[p].cost = cost
  <2>1. UNCHANGED <<log, sealed, money, charged>>
    BY DEF LeaveRejected
  <2> QED
    <3>1. /\ d \notin named /\ named' = named \cup {d}
          /\ worth' \in [Op -> Int] /\ worth'[d] = cost
          /\ \A x \in Op \ {d} : worth'[x] = worth[x]
      BY <1>2, <1>5, NameStep
    <3>2. /\ proc' \in [Process -> Local]
          /\ \A q \in Process \ {p} : proc'[q] = proc[q]
          /\ proc'[p].at = "ensure" /\ proc'[p].op = d /\ proc'[p].cost = cost
          /\ proc'[p].job = proc[p].job /\ proc'[p].seen = proc[p].seen
          /\ proc'[p].fee = proc[p].fee /\ proc'[p].want = proc[p].want
      BY <1>2, <1>5, TakeDebit
    <3> QED
      BY <2>1, <3>1, <3>2 DEF Named
<1> QED
  BY <1>4, <1>6 DEF Redebits

\* The plan of a fee change.
Replans(p, o, f) ==
  /\ Named(p, o, f - doc.fee)
  /\ proc'[p].at = SettleAt(f - doc.fee) /\ proc'[p].seen = proc[p].seen
  /\ proc'[p].cost = f - doc.fee
  /\ doc' \in Doc
  /\ doc'.fee = f /\ doc'.plan = o /\ doc'.revert = doc.fee
  /\ doc'.status = doc.status /\ doc'.refunded = doc.refunded
  /\ doc'.init = doc.init /\ doc'.credit = doc.credit
  /\ doc'.redebit = doc.redebit

LEMMA ReplanStep ==
  ASSUME ProgOK, NEW p \in Process, FeeClaim(p)
  PROVE  \/ FeeChangeable(p) /\ \E f \in Fees, o \in FeeOp : Replans(p, o, f)
         \/ /\ ~FeeChangeable(p) /\ End(p)
            /\ UNCHANGED <<doc, named, worth, log, sealed, money, charged>>
<1>1. SUFFICES ASSUME FeeChangeable(p)
               PROVE  \E f \in Fees, o \in FeeOp : Replans(p, o, f)
  BY DEF FeeClaim
<1>2. PICK f \in Fees, o \in FeeOp :
        /\ doc' = [doc EXCEPT !.fee = f, !.plan = o, !.revert = doc.fee]
        /\ Name(o, f - doc.fee)
        /\ proc' = [proc EXCEPT ![p].at = SettleAt(f - doc.fee), ![p].op = o,
                                ![p].cost = f - doc.fee]
  BY <1>1 DEF FeeClaim
<1>3. /\ doc' \in Doc
      /\ doc'.fee = f /\ doc'.plan = o /\ doc'.revert = doc.fee
      /\ doc'.status = doc.status /\ doc'.refunded = doc.refunded
      /\ doc'.init = doc.init /\ doc'.credit = doc.credit
      /\ doc'.redebit = doc.redebit
  BY <1>2 DEF ProgOK, Doc
<1>4. o \in Op /\ f - doc.fee \in Int /\ SettleAt(f - doc.fee) \in Calls
  <2>1. o \in Op
    BY DEF Op, Chargeable
  <2>2. f - doc.fee \in Int
    BY Amounts, WithdrawalsAssumption
  <2> QED
    BY <2>1, <2>2 DEF Calls, SettleAt
<1>5. /\ Named(p, o, f - doc.fee) /\ proc'[p].at = SettleAt(f - doc.fee)
      /\ proc'[p].seen = proc[p].seen /\ proc'[p].cost = f - doc.fee
  <2>1. UNCHANGED <<log, sealed, money, charged>>
    BY DEF FeeClaim
  <2> QED
    <3>1. /\ o \notin named /\ named' = named \cup {o}
          /\ worth' \in [Op -> Int] /\ worth'[o] = f - doc.fee
          /\ \A x \in Op \ {o} : worth'[x] = worth[x]
      BY <1>2, <1>4, NameStep
    <3>2. /\ proc' \in [Process -> Local]
          /\ \A q \in Process \ {p} : proc'[q] = proc[q]
          /\ proc'[p].at = SettleAt(f - doc.fee) /\ proc'[p].op = o /\ proc'[p].cost = f - doc.fee
          /\ proc'[p].job = proc[p].job /\ proc'[p].seen = proc[p].seen
          /\ proc'[p].fee = proc[p].fee /\ proc'[p].want = proc[p].want
      BY <1>2, <1>4, TakeDebit
    <3> QED
      BY <2>1, <3>1, <3>2 DEF Named
<1> QED
  BY <1>3, <1>5 DEF Replans

\* A request that is created starts with the op_id of its debit.
Creates(p, f) ==
  /\ Creation \notin named /\ named' = named \cup {Creation}
  /\ worth' \in [Op -> Int] /\ worth'[Creation] = Amount + f
  /\ \A x \in Op \ {Creation} : worth'[x] = worth[x]
  /\ UNCHANGED <<log, sealed, money, charged>>
  /\ proc' \in [Process -> Local]
  /\ \A q \in Process \ {p} : proc'[q] = proc[q]
  /\ proc'[p].job = "create" /\ proc'[p].at = "ensure"
  /\ proc'[p].op = Creation /\ proc'[p].cost = Amount + f
  /\ doc' \in Doc
  /\ doc'.status = "initializing" /\ doc'.init /\ doc'.fee = f
  /\ doc'.refunded = doc.refunded /\ doc'.credit = doc.credit
  /\ doc'.redebit = doc.redebit /\ doc'.plan = doc.plan
  /\ doc'.revert = doc.revert

LEMMA CreateStep ==
  ASSUME ProgOK, NEW p \in Process, CreateInsert(p)
  PROVE  \E f \in Fees : Creates(p, f)
<1> USE WithdrawalsAssumption
<1>1. PICK f \in Fees :
        /\ doc' = [doc EXCEPT !.status = "initializing", !.init = TRUE, !.fee = f]
        /\ Name(Creation, Amount + f)
        /\ proc' = [proc EXCEPT ![p] =
             [Idle EXCEPT !.job = "create", !.at = "ensure", !.op = Creation,
                          !.cost = Amount + f]]
  BY DEF CreateInsert
<1>2. Creation \in Op /\ Amount + f \in Int
  BY DEF Op, Chargeable
<1>3. /\ Creation \notin named /\ named' = named \cup {Creation}
      /\ worth' \in [Op -> Int] /\ worth'[Creation] = Amount + f
      /\ \A x \in Op \ {Creation} : worth'[x] = worth[x]
  BY <1>1, <1>2, NameStep
<1> DEFINE l == [Idle EXCEPT !.job = "create", !.at = "ensure", !.op = Creation,
                             !.cost = Amount + f]
<1>4. /\ l \in Local
      /\ l.job = "create" /\ l.at = "ensure" /\ l.op = Creation
      /\ l.cost = Amount + f
  BY <1>2 DEF Idle, Local, Jobs, Calls
<1>5. /\ proc' \in [Process -> Local]
      /\ \A q \in Process \ {p} : proc'[q] = proc[q]
      /\ proc'[p] = l
  BY <1>1, <1>4, TakeStep
<1>6. /\ doc' \in Doc
      /\ doc'.status = "initializing" /\ doc'.init /\ doc'.fee = f
      /\ doc'.refunded = doc.refunded /\ doc'.credit = doc.credit
      /\ doc'.redebit = doc.redebit /\ doc'.plan = doc.plan
      /\ doc'.revert = doc.revert
  BY <1>1 DEF ProgOK, Doc, Status
<1>7. UNCHANGED <<log, sealed, money, charged>>
  BY DEF CreateInsert
<1> QED
  BY <1>3, <1>4, <1>5, <1>6, <1>7 DEF Creates

\* The other requests, and the healer's passes, start from what they read.
Reads(p, l) ==
  /\ l \in Local /\ Fits(l)
  /\ proc' \in [Process -> Local]
  /\ \A q \in Process \ {p} : proc'[q] = proc[q]
  /\ proc'[p] = l
  /\ UNCHANGED <<doc, ledgerVars>>

LEMMA ReadsStep ==
  ASSUME ProgOK, NEW p \in Process, NEW l \in Local, Fits(l),
         proc' = [proc EXCEPT ![p] = l], UNCHANGED <<doc, ledgerVars>>
  PROVE  Reads(p, l)
  BY TakeStep DEF Reads

\* What a read finds in a document of the type.
LEMMA DocTypes ==
  ASSUME ProgOK
  PROVE  /\ doc.fee \in Fees /\ doc.status \in Status
         /\ doc.credit \in Refund \cup {None} /\ doc.redebit \in Redebit \cup {None}
         /\ doc.plan \in FeeOp \cup {None}
  BY DEF ProgOK, Doc

LEMMA CancelReads ==
  ASSUME ProgOK, NEW p \in Process, CancelRead(p)
  PROVE  \E l \in Local : Reads(p, l) /\ l.job = "cancel" /\ l.op = None
<1> DEFINE l == [Idle EXCEPT !.job = "cancel", !.at = "claim", !.fee = doc.fee]
<1>1. l \in Local /\ Fits(l) /\ l.job = "cancel" /\ l.op = None
  BY DocTypes, IdleLocal DEF Idle, Local, Jobs, Calls, Fits
<1>2. proc' = [proc EXCEPT ![p] = l] /\ UNCHANGED <<doc, ledgerVars>>
  BY DEF CancelRead
<1> HIDE DEF l
<1> QED
  BY <1>1, <1>2, ReadsStep

LEMMA StaffReads ==
  ASSUME ProgOK, NEW p \in Process, StaffRead(p)
  PROVE  \E l \in Local :
           /\ Reads(p, l) /\ l.job = "staff" /\ l.op = doc.credit
           /\ l.seen = doc.status /\ l.seen \in Live \cup {"rejected"}
           /\ l.fee = doc.fee
           /\ l.at = IF doc.credit = None THEN "claim" ELSE "settlePay"
           /\ l.seen = "rejected" /\ l.want # "rejected" => "leave" \in Kinds
<1>1. PICK n \in Live \cup {"rejected"} :
        /\ doc.status = "rejected" /\ n # "rejected" => "leave" \in Kinds
        /\ proc' = [proc EXCEPT ![p] =
             [Idle EXCEPT !.job = "staff", !.op = doc.credit, !.want = n,
                          !.at = IF doc.credit = None THEN "claim" ELSE "settlePay",
                          !.seen = doc.status, !.fee = doc.fee]]
  BY DEF StaffRead
<1> DEFINE l == [Idle EXCEPT !.job = "staff", !.op = doc.credit, !.want = n,
                   !.at = IF doc.credit = None THEN "claim" ELSE "settlePay",
                   !.seen = doc.status, !.fee = doc.fee]
<1>2. doc.status \in Live \cup {"rejected"}
  BY DocTypes DEF StaffRead, Transient, Live, Status
<1>3. /\ l.job = "staff" /\ l.op = doc.credit /\ l.want = n
      /\ l.seen = doc.status /\ l.fee = doc.fee
      /\ l.at = IF doc.credit = None THEN "claim" ELSE "settlePay"
  BY DEF Idle
<1>4. l \in Local
  <2>1. n \in Status /\ doc.credit \in Op \cup {None}
    BY DocTypes DEF Live, Status, Op
  <2> QED
    BY <2>1, DocTypes, IdleLocal DEF Local, Jobs, Calls
<1>5. Fits(l)
  BY <1>2, <1>3, DocTypes DEF Fits
<1>6. proc' = [proc EXCEPT ![p] = l] /\ UNCHANGED <<doc, ledgerVars>>
  BY <1>1 DEF StaffRead
<1> HIDE DEF l
<1> QED
  BY <1>1, <1>2, <1>3, <1>4, <1>5, <1>6, ReadsStep

LEMMA MarkPaidReads ==
  ASSUME ProgOK, NEW p \in Process, Delivered, MarkPaidRead(p)
  PROVE  \E l \in Local : Reads(p, l) /\ l.job = "markPaid" /\ l.op = None
<1> DEFINE l == [Idle EXCEPT !.job = "markPaid", !.at = "claim", !.seen = doc.status]
<1>1. doc.status \in Live
  BY DocTypes DEF MarkPaidRead, Delivered, Transient, Live, Status
<1>2. l \in Local /\ Fits(l) /\ l.job = "markPaid" /\ l.op = None
  BY <1>1, IdleLocal DEF Idle, Local, Jobs, Calls, Fits, Live, Status
<1>3. proc' = [proc EXCEPT ![p] = l] /\ UNCHANGED <<doc, ledgerVars>>
  BY DEF MarkPaidRead
<1> HIDE DEF l
<1> QED
  BY <1>2, <1>3, ReadsStep

LEMMA FeeReads ==
  ASSUME ProgOK, NEW p \in Process, FeeRead(p)
  PROVE  \E l \in Local : Reads(p, l) /\ l.job = "fee" /\ l.op = None
<1> DEFINE l == [Idle EXCEPT !.job = "fee", !.at = "claim", !.fee = doc.fee]
<1>1. l \in Local /\ Fits(l) /\ l.job = "fee" /\ l.op = None
  BY DocTypes, IdleLocal DEF Idle, Local, Jobs, Calls, Fits
<1>2. proc' = [proc EXCEPT ![p] = l] /\ UNCHANGED <<doc, ledgerVars>>
  BY DEF FeeRead
<1> HIDE DEF l
<1> QED
  BY <1>1, <1>2, ReadsStep

\* The healer starts a pass with the op_id of the obligation it found.
LEMMA HealReads ==
  ASSUME ProgOK, NEW job \in Jobs, NEW call \in Calls, NEW o \in Op, NEW c \in Int,
         HealStart(job, call, o, c)
  PROVE  \E l \in Local :
           /\ l.job = job /\ l.at = call /\ l.op = o /\ l.cost = c
           /\ l.seen = doc.status /\ l.want = "none"
           /\ proc' \in [Process -> Local]
           /\ \A q \in Process \ {Healer} : proc'[q] = proc[q]
           /\ proc'[Healer] = l
           /\ UNCHANGED <<doc, ledgerVars>>
<1> DEFINE l == [Idle EXCEPT !.job = job, !.at = call, !.op = o, !.cost = c,
                             !.seen = doc.status]
<1>1. /\ l \in Local
      /\ l.job = job /\ l.at = call /\ l.op = o /\ l.cost = c
      /\ l.seen = doc.status /\ l.want = "none"
  <2>1. l \in Local
    BY DocTypes, IdleLocal DEF Local
  <2> QED
    BY <2>1 DEF Idle
<1>2. proc' = [proc EXCEPT ![Healer] = l] /\ UNCHANGED <<doc, ledgerVars>>
  BY DEF HealStart
<1>3. Healer \in Process
  BY DEF Process
<1> HIDE DEF l
<1> QED
  BY <1>1, <1>2, <1>3, TakeStep

\* Each pass takes up one obligation, that of the document it read.
HealTakes(l) ==
  \/ /\ l.job = "healCredit" /\ l.at = "pay" /\ l.op = doc.credit
     /\ doc.credit # None
  \/ /\ l.job = "healInit" /\ l.op = Creation /\ l.cost = Amount + doc.fee
     /\ \/ l.at = "claim" /\ doc.status = "initializing"
        \/ l.at = "burn" /\ doc.status = "failed_init" /\ doc.init
  \/ /\ l.job = "healRedebit" /\ l.at = "ensure" /\ l.op = doc.redebit
     /\ doc.redebit # None /\ l.cost = worth[doc.redebit]
  \/ /\ l.job = "healFee" /\ l.at = SettleAt(worth[doc.plan]) /\ l.op = doc.plan
     /\ doc.plan # None /\ l.cost = worth[doc.plan]

LEMMA HealStep ==
  ASSUME ProgOK, Heal
  PROVE  \E l \in Local : Reads(Healer, l) /\ HealTakes(l)
<1> USE WithdrawalsAssumption
<1>1. ASSUME NEW job \in Jobs, NEW call \in Calls, NEW o \in Op, NEW c \in Int,
             HealStart(job, call, o, c),
             \A l \in Local : l.job = job /\ l.at = call /\ l.op = o /\ l.cost = c
                                => Fits(l) /\ HealTakes(l)
      PROVE  \E l \in Local : Reads(Healer, l) /\ HealTakes(l)
  <2>2. PICK l \in Local :
          /\ l.job = job /\ l.at = call /\ l.op = o /\ l.cost = c
          /\ proc' \in [Process -> Local]
          /\ \A q \in Process \ {Healer} : proc'[q] = proc[q]
          /\ proc'[Healer] = l
          /\ UNCHANGED <<doc, ledgerVars>>
    BY <1>1, HealReads
  <2> QED
    BY <1>1, <2>2 DEF Reads
<1>2. CASE HealCredit
  <2>1. doc.credit \in Refund /\ doc.credit \in Op
    BY <1>2, DocTypes DEF HealCredit, Op
  <2>2. HealStart("healCredit", "pay", doc.credit, 0) /\ doc.credit # None
    BY <1>2 DEF HealCredit
  <2> QED
    <3>1. \A l \in Local : l.job = "healCredit" /\ l.at = "pay" /\ l.op = doc.credit
                             => Fits(l) /\ HealTakes(l)
      BY <2>1, <2>2 DEF Fits, HealTakes
    <3>2. "healCredit" \in Jobs /\ "pay" \in Calls /\ 0 \in Int
      BY DEF Jobs, Calls
    <3> QED
      BY <1>1, <2>1, <2>2, <3>1, <3>2
<1>3. CASE HealInit
  <2> DEFINE call == IF doc.status = "initializing" THEN "claim" ELSE "burn"
  <2>1. Creation \in Op /\ Amount + doc.fee \in Int /\ call \in Calls
    <3>1. doc.fee \in Nat /\ Amount \in Nat
      BY DocTypes
    <3> QED
      BY <3>1 DEF Op, Chargeable, Calls
  <2>2. /\ HealStart("healInit", call, Creation, Amount + doc.fee)
        /\ \/ call = "claim" /\ doc.status = "initializing"
           \/ call = "burn" /\ doc.status = "failed_init" /\ doc.init
    BY <1>3 DEF HealInit
  <2> HIDE DEF call
  <2> QED
    BY <1>1, <2>1, <2>2 DEF Jobs, Fits, HealTakes
<1>4. CASE HealRedebit
  <2>1. /\ doc.redebit \in Redebit /\ doc.redebit \in Op
        /\ worth[doc.redebit] \in Int
    BY <1>4, DocTypes DEF HealRedebit, Op, Chargeable, ProgOK
  <2>2. /\ HealStart("healRedebit", "ensure", doc.redebit, worth[doc.redebit])
        /\ doc.redebit # None
    BY <1>4 DEF HealRedebit
  <2> QED
    <3>1. \A l \in Local : /\ l.job = "healRedebit" /\ l.at = "ensure"
                            /\ l.op = doc.redebit /\ l.cost = worth[doc.redebit]
                             => Fits(l) /\ HealTakes(l)
      BY <2>1, <2>2 DEF Fits, DebitCalls, HealTakes
    <3>2. "healRedebit" \in Jobs /\ "ensure" \in Calls
      BY DEF Jobs, Calls
    <3> QED
      BY <1>1, <2>1, <2>2, <3>1, <3>2
<1>5. CASE HealFee
  <2>1. /\ doc.plan \in FeeOp /\ doc.plan \in Op
        /\ worth[doc.plan] \in Int
    BY <1>5, DocTypes DEF HealFee, Op, Chargeable, ProgOK
  <2>2. /\ HealStart("healFee", SettleAt(worth[doc.plan]), doc.plan, worth[doc.plan])
        /\ doc.plan # None
    BY <1>5 DEF HealFee
  <2>3. SettleAt(worth[doc.plan]) \in Calls \cap (DebitCalls \cup {"pay"})
    BY <2>1 DEF SettleAt, Calls, DebitCalls
  <2> QED
    BY <1>1, <2>1, <2>2, <2>3 DEF Jobs, Fits, HealTakes
<1> QED
  BY <1>2, <1>3, <1>4, <1>5 DEF Heal

\* The claims keep types and places.
LEMMA ShapeClaim ==
  ASSUME ProgOK, Placed, NEW p \in Process,
         CancelClaim(p) \/ EnterRejected(p) \/ LeaveRejected(p) \/ FeeClaim(p)
  PROVE  ProgOK' /\ Placed'
<1>1. Fits(proc[p]) /\ "moneyless" \in Calls
  BY DEF Placed, Calls
<1>2. ASSUME NEW o \in Op, NEW c, Named(p, o, c), doc' \in Doc, Fits(proc'[p])
      PROVE  ProgOK' /\ Placed'
  BY <1>2 DEF Named, ProgOK, Placed
<1>3. ASSUME UNCHANGED <<doc, ledgerVars>>, End(p) PROVE ProgOK' /\ Placed'
  BY <1>3, EndStep, IdleLocal DEF ledgerVars, ProgOK, Placed
<1>4. ASSUME UNCHANGED <<doc, ledgerVars>>, Goto(p, "moneyless"), StaffClaims(p)
      PROVE ProgOK' /\ Placed'
  <2>1. Fits(proc'[p])
    BY <1>1, <1>4, GotoStep DEF StaffClaims, At, Job, Fits, Idle, DebitCalls
  <2> QED
    BY <1>1, <1>4, <2>1, GotoStep DEF ledgerVars, ProgOK, Placed
<1>5. CASE CancelClaim(p)
  <2>1. CASE Refunding(p, "cancelled")
    <3>1. PICK r \in Refund : Refunds(p, r, "cancelled")
      BY <1>5, <2>1, RefundStep DEF CancelClaim, Status
    <3>2. Fits(proc'[p])
      BY <1>5, <3>1 DEF CancelClaim, Job, Refunds, Named, Fits
    <3> QED
      BY <1>2, <3>1, <3>2 DEF Refunds, Op
  <2> QED
    BY <1>3, <1>5, <2>1 DEF CancelClaim, ledgerVars
<1>6. CASE EnterRejected(p)
  <2>1. CASE Refunding(p, "rejected")
    <3>1. PICK r \in Refund : Refunds(p, r, "rejected")
      BY <1>6, <2>1, RefundStep DEF EnterRejected, Status
    <3>2. proc[p].job = "staff" /\ proc[p].want \in Live \cup {"rejected"}
      <4>1. proc[p].job = "staff"
        BY <1>6 DEF EnterRejected, StaffClaims, Job
      <4> QED
        BY <1>1, <4>1 DEF Fits, Idle
    <3>3. Fits(proc'[p])
      BY <3>1, <3>2 DEF Refunds, Named, Fits
    <3> QED
      BY <1>2, <3>1, <3>3 DEF Refunds, Op
  <2> QED
    BY <1>4, <1>6, <2>1 DEF EnterRejected, ledgerVars
<1>7. CASE LeaveRejected(p)
  <2>1. ASSUME NEW d \in Redebit, Redebits(p, d) PROVE ProgOK' /\ Placed'
    <3>1. proc[p].job = "staff" /\ proc[p].want \in Live \cup {"rejected"}
      <4>1. proc[p].job = "staff"
        BY <1>7 DEF LeaveRejected, StaffClaims, Job
      <4> QED
        BY <1>1, <4>1 DEF Fits, Idle
    <3>2. Fits(proc'[p])
      BY <2>1, <3>1 DEF Redebits, Named, Fits, DebitCalls
    <3> QED
      BY <1>2, <2>1, <3>2 DEF Redebits, Op, Chargeable
  <2>2. StaffClaims(p)
    BY <1>7 DEF LeaveRejected
  <2> QED
    BY <1>1, <1>4, <1>7, <2>1, <2>2, RedebitStep DEF ledgerVars
<1>8. CASE FeeClaim(p)
  <2>1. ASSUME NEW f \in Fees, NEW o \in FeeOp, Replans(p, o, f)
        PROVE ProgOK' /\ Placed'
    <3>1. proc[p].job = "fee"
      BY <1>8 DEF FeeClaim, Job
    <3>2. SettleAt(f - doc.fee) \in DebitCalls \cup {"pay"}
      BY DEF SettleAt, DebitCalls
    <3>3. Fits(proc'[p])
      BY <2>1, <3>1, <3>2 DEF Replans, Named, Fits
    <3> QED
      BY <1>2, <2>1, <3>3 DEF Replans, Op, Chargeable
  <2> QED
    BY <1>3, <1>8, <2>1, ReplanStep DEF ledgerVars
<1> QED
  BY <1>5, <1>6, <1>7, <1>8

\* Every step keeps types and places.
LEMMA ShapeStep ==
  ASSUME ProgOK, Placed, DocFits, [Act]_progVars
  PROVE  ProgOK' /\ Placed'
<1>1. CASE UNCHANGED progVars
  BY <1>1 DEF progVars, ledgerVars, ProgOK, Placed
<1>2. ASSUME NEW p \in Process, NEW l \in Local, Reads(p, l) PROVE ProgOK' /\ Placed'
  BY <1>2 DEF Reads, ledgerVars, ProgOK, Placed
<1>3. ASSUME NEW p \in Request, Ask(p) PROVE ProgOK' /\ Placed'
  <2>1. p \in Process
    BY DEF Process
  <2>2. CASE CreateInsert(p)
    <3>1. PICK f \in Fees : Creates(p, f)
      BY <2>1, <2>2, CreateStep
    <3>2. Fits(proc'[p])
      BY <3>1 DEF Creates, Fits, DebitCalls
    <3> QED
      BY <2>1, <3>1, <3>2 DEF Creates, ProgOK, Placed, Op, Chargeable
  <2> QED
    BY <1>2, <1>3, <2>1, <2>2, CancelReads, StaffReads, MarkPaidReads, FeeReads
       DEF Ask
<1>4. CASE Heal
  BY <1>2, <1>4, HealStep DEF Process
<1>5. ASSUME NEW p \in Process, Run(p) PROVE ProgOK' /\ Placed'
  BY <1>5, ShapeDebit, ShapePay, ShapeRun, ShapeClaim DEF Run
<1>6. ASSUME NEW p \in Process, Die(p) PROVE ProgOK' /\ Placed'
  BY <1>6, EndStep, IdleLocal DEF Die, ledgerVars, ProgOK, Placed
<1> QED
  BY <1>1, <1>3, <1>4, <1>5, <1>6 DEF Act

-----------------------------------------------------------------------------
(* The document of a withdrawal being created                              *)

\* A step of a call, or its end, does not change what the process is doing.
Continues(p) ==
  /\ \A q \in Process \ {p} : proc'[q] = proc[q]
  /\ proc'[p].job \in {proc[p].job, "none"}
  /\ proc'[p].op \in {proc[p].op, None}

LEMMA GotoContinues ==
  ASSUME ProgOK, NEW p \in Process, NEW call \in Calls, Goto(p, call)
  PROVE  Continues(p) /\ proc'[p].at = call /\ proc'[p].op = proc[p].op
                      /\ proc'[p].job = proc[p].job
  BY GotoStep DEF Continues

LEMMA EndContinues ==
  ASSUME ProgOK, NEW p \in Process, End(p)
  PROVE  Continues(p) /\ proc'[p] = Idle
  BY EndStep DEF Continues, Idle

\* What the calls under way do to the processes.
LEMMA RunContinues ==
  ASSUME ProgOK, NEW p \in Process, Run(p),
         ~CancelClaim(p), ~EnterRejected(p), ~LeaveRejected(p), ~FeeClaim(p)
  PROVE  Continues(p)
<1>1. CASE \E call \in Calls : Goto(p, call)
  BY <1>1, GotoContinues
<1>2. CASE End(p)
  BY <1>2, EndContinues
<1>3. CASE Reread(p)
  <2> DEFINE l == [proc[p] EXCEPT !.at = "claim", !.seen = doc.status,
                                  !.fee = doc.fee, !.op = None]
  <2>1. proc' = [proc EXCEPT ![p] = l]
    BY <1>3 DEF Reread
  <2>2. l.job = proc[p].job /\ l.op = None
    BY DEF ProgOK, Local
  <2> QED
    BY <2>1, <2>2 DEF Continues, ProgOK
<1>4. CASE ~Reread(p)
  <2> USE DEF Calls
  <2>1. CASE \/ Ensure(p) \/ Charge(p) \/ Outcome(p) \/ Refused(p)
    BY <1>1, <2>1 DEF Ensure, Charge, Outcome, Refused
  <2>2. CASE Burn(p) \/ BurnToken(p) \/ GiveBack(p) \/ MarkUndone(p)
    BY <1>1, <1>2, <2>2 DEF Burn, BurnToken, GiveBack, MarkUndone, AfterBurn
  <2>3. CASE \/ PayRefund(p) \/ SettlePay(p) \/ FeeCredit(p) \/ SettleClear(p)
    BY <1>1, <2>3 DEF PayRefund, SettlePay, FeeCredit, SettleClear, Pay
  <2>4. CASE \/ CreateActivate(p) \/ HealInitClaim(p)
    BY <1>1, <1>2, <2>4 DEF CreateActivate, HealInitClaim
  <2>5. CASE \/ ClearRefund(p) \/ CreateDelete(p) \/ MoneylessClaim(p) \/ PlainClaim(p)
             \/ RedebitFinish(p) \/ RedebitAbort(p) \/ MarkPaidClaim(p)
             \/ FeeFinish(p) \/ FeeRevert(p) \/ HealInitDone(p)
    BY <1>2, <2>5 DEF ClearRefund, CreateDelete, MoneylessClaim, PlainClaim,
        RedebitFinish, RedebitAbort, MarkPaidClaim, FeeFinish, FeeRevert, HealInitDone
  <2> QED
    BY <1>4, <2>1, <2>2, <2>3, <2>4, <2>5 DEF Run
<1> QED
  BY <1>3, <1>4

\* What a step may do to the document.
DocKeeps ==
  /\ doc'.status \in Transient \cup {"absent"}
       => ~doc'.refunded /\ doc'.credit = None /\ doc'.redebit = None
  /\ doc'.status = "initializing" => doc'.init
  /\ doc'.credit # None => doc'.refunded
  /\ doc.status \notin Transient \cup {"absent"}
       => doc'.status \notin Transient \cup {"absent"}
  /\ doc.status = "absent" => doc'.status = "absent"

\* The calls under way that write the document, but the claims.
LEMMA DocRun ==
  ASSUME ProgOK, Placed, DocFits, NEW p \in Process,
         \/ ClearRefund(p) \/ SettleClear(p) \/ Reread(p)
         \/ CreateDelete(p) \/ CreateActivate(p)
         \/ MoneylessClaim(p) \/ PlainClaim(p) \/ RedebitFinish(p) \/ RedebitAbort(p)
         \/ MarkPaidClaim(p) \/ FeeFinish(p) \/ FeeRevert(p)
         \/ HealInitClaim(p) \/ HealInitDone(p)
  PROVE  DocKeeps
<1>1. doc \in Doc /\ Fits(proc[p])
  BY DEF ProgOK, Placed
<1> USE <1>1 DEF DocKeeps, DocFits, Doc, Transient
<1>2. CASE ClearRefund(p) \/ SettleClear(p)
  BY <1>2 DEF ClearRefund, SettleClear, ClearMarker
<1>3. CASE Reread(p)
  BY <1>3 DEF Reread
<1>4. CASE CreateDelete(p)
  BY <1>4 DEF CreateDelete, NoDoc
<1>5. CASE CreateActivate(p)
  BY <1>5 DEF CreateActivate
<1>6. CASE MoneylessClaim(p)
  <2>1. CASE doc' = doc
    BY <2>1
  <2>2. CASE doc' # doc
    <3>1. /\ doc' = [doc EXCEPT !.status = proc[p].want]
          /\ doc.status = proc[p].seen \/ doc.status = "rejected"
          /\ At(p, "moneyless")
      BY <1>6, <2>2, Zenon DEF MoneylessClaim
    <3>2. /\ proc[p].want \in Live \cup {"rejected"}
          /\ proc[p].seen \in Live \cup {"rejected", "cancelled"}
      BY <3>1 DEF Fits, At, Idle, DebitCalls
    <3> QED
      BY <3>1, <3>2 DEF Live
  <2> QED
    BY <2>1, <2>2
<1>7. CASE PlainClaim(p)
  <2>1. CASE doc' = doc
    BY <2>1
  <2>2. CASE doc' # doc
    <3>1. /\ doc' = [doc EXCEPT !.status = proc[p].want]
          /\ doc.status = proc[p].seen
          /\ StaffClaims(p)
      BY <1>7, <2>2, Zenon DEF PlainClaim
    <3>2. /\ proc[p].want \in Live \cup {"rejected"}
          /\ proc[p].seen \in Live \cup {"rejected", "cancelled"}
      BY <3>1 DEF Fits, StaffClaims, At, Job, Idle, DebitCalls
    <3> QED
      BY <3>1, <3>2 DEF Live
  <2> QED
    BY <2>1, <2>2
<1>8. CASE RedebitFinish(p)
  BY <1>8 DEF RedebitFinish
<1>9. CASE RedebitAbort(p)
  <2>1. proc[p].op # None
    BY <1>9, WithdrawalsAssumption DEF RedebitAbort, Fits, At, Job, Idle, DebitCalls,
       Op, Chargeable
  <2> QED
    BY <1>9, <2>1 DEF RedebitAbort
<1>10. CASE MarkPaidClaim(p)
  <2>1. proc[p].seen \in Live
    BY <1>10 DEF MarkPaidClaim, Fits, Job, Idle
  <2> QED
    BY <1>10, <2>1 DEF MarkPaidClaim, Live
<1>11. CASE FeeFinish(p)
  BY <1>11 DEF FeeFinish
<1>12. CASE FeeRevert(p)
  BY <1>12 DEF FeeRevert
<1>13. CASE HealInitClaim(p) \/ HealInitDone(p)
  BY <1>13 DEF HealInitClaim, HealInitDone
<1> QED
  BY <1>2, <1>3, <1>4, <1>5, <1>6, <1>7, <1>8, <1>9, <1>10, <1>11, <1>12, <1>13

\* The claims find a withdrawal that was created.
LEMMA DocClaim ==
  ASSUME ProgOK, Placed, DocFits, NEW p \in Process,
         CancelClaim(p) \/ EnterRejected(p) \/ LeaveRejected(p) \/ FeeClaim(p)
  PROVE  DocKeeps /\ proc'[p].job \in {proc[p].job, "none"}
                  /\ \A q \in Process \ {p} : proc'[q] = proc[q]
<1>1. doc \in Doc /\ Fits(proc[p]) /\ "moneyless" \in Calls
  BY DEF ProgOK, Placed, Calls
<1>2. ASSUME doc' = doc, End(p) \/ Goto(p, "moneyless") 
      PROVE  DocKeeps /\ proc'[p].job \in {proc[p].job, "none"}
                      /\ \A q \in Process \ {p} : proc'[q] = proc[q]
  BY <1>1, <1>2, GotoContinues, EndContinues DEF DocKeeps, DocFits, Continues
<1>3. ASSUME NEW s \in {"cancelled", "rejected"}, Refunding(p, s),
             UNCHANGED <<log, sealed, money, charged>>, ~doc.refunded,
             doc.status \notin Transient \cup {"absent"}
      PROVE  DocKeeps /\ proc'[p].job \in {proc[p].job, "none"}
                      /\ \A q \in Process \ {p} : proc'[q] = proc[q]
  <2>1. PICK r \in Refund : Refunds(p, r, s)
    BY <1>3, RefundStep DEF Status
  <2> QED
    BY <1>3, <2>1 DEF Refunds, Named, DocKeeps, Transient
<1>4. CASE CancelClaim(p)
  BY <1>2, <1>3, <1>4 DEF CancelClaim, Cancelable, Transient
<1>5. CASE EnterRejected(p)
  <2>1. proc[p].seen \in Live \cup {"rejected", "cancelled"}
    BY <1>1, <1>5 DEF EnterRejected, StaffClaims, At, Job, Fits, Idle, DebitCalls
  <2> QED
    BY <1>2, <1>3, <1>5, <2>1 DEF EnterRejected, Rejectable, Transient, Live
<1>6. CASE LeaveRejected(p)
  <2>1. proc[p].want \in Live \cup {"rejected"}
    <3>1. proc[p].job = "staff"
      BY <1>6 DEF LeaveRejected, StaffClaims, Job
    <3> QED
      BY <1>1, <3>1 DEF Fits, Idle
  <2>2. ASSUME NEW d \in Redebit, Redebits(p, d), Leavable(p)
        PROVE  DocKeeps /\ proc'[p].job \in {proc[p].job, "none"}
                        /\ \A q \in Process \ {p} : proc'[q] = proc[q]
    BY <2>1, <2>2 DEF Redebits, Named, Leavable, DocKeeps, Transient, Live
  <2> QED
    BY <1>1, <1>2, <1>6, <2>2, RedebitStep
<1>7. CASE FeeClaim(p)
  <2>1. ASSUME NEW f \in Fees, NEW o \in FeeOp, Replans(p, o, f), FeeChangeable(p)
        PROVE  DocKeeps /\ proc'[p].job \in {proc[p].job, "none"}
                        /\ \A q \in Process \ {p} : proc'[q] = proc[q]
    BY <2>1 DEF Replans, Named, FeeChangeable, DocKeeps, DocFits, Transient
  <2> QED
    BY <1>2, <1>7, <2>1, ReplanStep
<1> QED
  BY <1>4, <1>5, <1>6, <1>7

\* Every step keeps the document consistent with its stage.
LEMMA DocStep ==
  ASSUME ProgOK, Placed, DocFits, [Act]_progVars
  PROVE  DocFits'
<1>1. ASSUME NEW p \in Process, DocKeeps, named \subseteq named',
             \A q \in Process \ {p} : proc'[q] = proc[q],
             proc'[p].job \in {proc[p].job, "none"}
      PROVE  DocFits'
  BY <1>1 DEF DocKeeps, DocFits, Job
<1>2. ASSUME doc' = doc PROVE DocKeeps
  BY <1>2 DEF DocKeeps, DocFits
<1>3. CASE UNCHANGED progVars
  BY <1>3 DEF progVars, ledgerVars, DocFits, Job
<1>4. ASSUME NEW p \in Request, Ask(p) PROVE DocFits'
  <2>1. p \in Process
    BY DEF Process
  <2>2. ASSUME NEW l, Reads(p, l),
               l.job = "staff" => doc.status \in Live \cup {"rejected"}
        PROVE  DocFits'
    BY <2>2 DEF Reads, ledgerVars, DocFits, Job, Live, Transient
  <2>3. CASE CreateInsert(p)
    <3>1. PICK f \in Fees : Creates(p, f)
      BY <2>1, <2>3, CreateStep
    <3>2. doc.status = "absent" /\ \A q \in Process : ~Job(q, {"staff"})
      BY <3>1 DEF Creates, DocFits
    <3> QED
      BY <3>1, <3>2 DEF Creates, DocFits, Job
  <2>4. CASE CancelRead(p)
    BY <2>1, <2>2, <2>4, CancelReads
  <2>5. CASE StaffRead(p)
    BY <2>1, <2>2, <2>5, StaffReads
  <2>6. CASE Delivered /\ MarkPaidRead(p)
    BY <2>1, <2>2, <2>6, MarkPaidReads
  <2>7. CASE FeeRead(p)
    BY <2>1, <2>2, <2>7, FeeReads
  <2> QED
    BY <1>4, <2>3, <2>4, <2>5, <2>6, <2>7 DEF Ask
<1>5. CASE Heal
  <2>1. PICK l \in Local : Reads(Healer, l) /\ HealTakes(l)
    BY <1>5, HealStep
  <2>2. l.job # "staff"
    BY <2>1 DEF HealTakes
  <2> QED
    BY <2>1, <2>2 DEF Reads, ledgerVars, DocFits, Job
<1>6. ASSUME NEW p \in Process, Run(p) PROVE DocFits'
  <2>1. CASE CancelClaim(p) \/ EnterRejected(p) \/ LeaveRejected(p) \/ FeeClaim(p)
    <3>1. named \subseteq named'
      BY <2>1 DEF CancelClaim, EnterRejected, LeaveRejected, FeeClaim, Refunding, Name
    <3> QED
      BY <1>1, <2>1, <3>1, DocClaim
  <2>2. CASE ~(CancelClaim(p) \/ EnterRejected(p) \/ LeaveRejected(p) \/ FeeClaim(p))
    <3>1. Continues(p)
      BY <1>6, <2>2, RunContinues
    <3>2. DocKeeps /\ named' = named
      <4>1. CASE \/ Ensure(p) \/ Charge(p) \/ Outcome(p) \/ Refused(p)
                 \/ Burn(p) \/ BurnToken(p) \/ GiveBack(p) \/ MarkUndone(p)
                 \/ PayRefund(p) \/ SettlePay(p) \/ FeeCredit(p)
        BY <1>2, <4>1 DEF Ensure, Charge, Outcome, Refused, Burn, BurnToken,
            GiveBack, MarkUndone, PayRefund, SettlePay, FeeCredit, Pay, ledgerVars
      <4>2. CASE \/ ClearRefund(p) \/ SettleClear(p) \/ Reread(p)
                 \/ CreateDelete(p) \/ CreateActivate(p)
                 \/ MoneylessClaim(p) \/ PlainClaim(p)
                 \/ RedebitFinish(p) \/ RedebitAbort(p)
                 \/ MarkPaidClaim(p) \/ FeeFinish(p) \/ FeeRevert(p)
                 \/ HealInitClaim(p) \/ HealInitDone(p)
        <5>1. DocKeeps
          BY <4>2, DocRun
        <5> QED
          BY <4>2, <5>1 DEF ClearRefund, SettleClear, Reread, CreateDelete,
              CreateActivate, MoneylessClaim, PlainClaim, RedebitFinish, RedebitAbort,
              MarkPaidClaim, FeeFinish, FeeRevert, HealInitClaim, HealInitDone,
              ledgerVars
      <4> QED
        BY <1>6, <2>2, <4>1, <4>2 DEF Run
    <3> QED
      BY <1>1, <3>1, <3>2 DEF Continues
  <2> QED
    BY <2>1, <2>2
<1>7. ASSUME NEW p \in Process, Die(p) PROVE DocFits'
  <2>1. Continues(p)
    BY <1>7, EndContinues DEF Die
  <2> QED
    BY <1>1, <1>2, <1>7, <2>1 DEF Die, ledgerVars, Continues
<1> QED
  BY <1>3, <1>4, <1>5, <1>6, <1>7 DEF Act

-----------------------------------------------------------------------------
(* The op_ids given out, and the books of each                             *)

\* A process that runs its calls touches only the money and the log of the
\* op_id it holds, and drops intentions of the document without adding any.
Touches(p) ==
  /\ \A x \in Op \ {proc[p].op} : money'[x] = money[x]
  /\ \A x \in Chargeable \ {proc[p].op} :
       log'[x] = log[x] /\ (x \in sealed' <=> x \in sealed)

DocDrops ==
  /\ doc'.credit \in {doc.credit, None}
  /\ doc'.redebit \in {doc.redebit, None}
  /\ doc'.plan \in {doc.plan, None}

LEMMA LedgerTouches ==
  ASSUME ProgOK, NEW p \in Process,
         \/ Ensure(p) \/ Charge(p) \/ Outcome(p) \/ Refused(p)
         \/ Burn(p) \/ BurnToken(p) \/ GiveBack(p) \/ MarkUndone(p)
         \/ PayRefund(p) \/ SettlePay(p) \/ FeeCredit(p)
  PROVE  Touches(p) /\ doc' = doc /\ named' = named /\ worth' = worth
<1> USE DEF ProgOK, Touches, ledgerVars
<1>1. CASE Ensure(p) \/ Outcome(p) \/ Refused(p)
  BY <1>1 DEF Ensure, Outcome, Refused
<1>2. CASE Charge(p)
  BY <1>2 DEF Charge, Move
<1>3. CASE Burn(p) \/ BurnToken(p) \/ MarkUndone(p)
  BY <1>3 DEF Burn, BurnToken, MarkUndone
<1>4. CASE GiveBack(p)
  BY <1>4 DEF GiveBack
<1>5. CASE PayRefund(p) \/ SettlePay(p) \/ FeeCredit(p)
  BY <1>5 DEF PayRefund, SettlePay, FeeCredit, Pay, Move
<1> QED
  BY <1>1, <1>2, <1>3, <1>4, <1>5

LEMMA DocRunDrops ==
  ASSUME ProgOK, NEW p \in Process,
         \/ ClearRefund(p) \/ SettleClear(p) \/ Reread(p)
         \/ CreateDelete(p) \/ CreateActivate(p)
         \/ MoneylessClaim(p) \/ PlainClaim(p) \/ RedebitFinish(p) \/ RedebitAbort(p)
         \/ MarkPaidClaim(p) \/ FeeFinish(p) \/ FeeRevert(p)
         \/ HealInitClaim(p) \/ HealInitDone(p)
  PROVE  DocDrops /\ UNCHANGED ledgerVars
<1>1. doc \in Doc
  BY DEF ProgOK
<1> USE <1>1 DEF DocDrops, Doc
<1>2. CASE ClearRefund(p) \/ SettleClear(p)
  BY <1>2 DEF ClearRefund, SettleClear, ClearMarker
<1>3. CASE Reread(p) \/ CreateDelete(p) \/ CreateActivate(p)
  <2>1. CASE Reread(p)
    BY <2>1 DEF Reread
  <2>2. CASE CreateDelete(p)
    BY <2>2 DEF CreateDelete, NoDoc
  <2>3. CASE CreateActivate(p)
    BY <2>3 DEF CreateActivate
  <2> QED
    BY <1>3, <2>1, <2>2, <2>3
<1>4. CASE MoneylessClaim(p)
  <2>1. doc' = doc \/ doc' = [doc EXCEPT !.status = proc[p].want]
    BY <1>4, Zenon DEF MoneylessClaim
  <2> QED
    BY <1>4, <2>1 DEF MoneylessClaim
<1>5. CASE PlainClaim(p)
  <2>1. doc' = doc \/ doc' = [doc EXCEPT !.status = proc[p].want]
    BY <1>5, Zenon DEF PlainClaim
  <2> QED
    BY <1>5, <2>1 DEF PlainClaim
<1>6. CASE RedebitFinish(p)
  BY <1>6 DEF RedebitFinish
<1>7. CASE RedebitAbort(p)
  BY <1>7 DEF RedebitAbort
<1>8. CASE MarkPaidClaim(p)
  BY <1>8 DEF MarkPaidClaim
<1>9. CASE FeeFinish(p)
  BY <1>9 DEF FeeFinish
<1>10. CASE FeeRevert(p)
  BY <1>10 DEF FeeRevert
<1>11. CASE HealInitClaim(p) \/ HealInitDone(p)
  BY <1>11 DEF HealInitClaim, HealInitDone
<1> QED
  BY <1>2, <1>3, <1>4, <1>5, <1>6, <1>7, <1>8, <1>9, <1>10, <1>11

\* Every step hands out an op_id before it is used.
LEMMA FreshStep ==
  ASSUME ProgOK, Placed, DocFits, Fresh, [Act]_progVars
  PROVE  Fresh'
<1> USE WithdrawalsAssumption
<1>1. CASE UNCHANGED progVars
  BY <1>1 DEF progVars, ledgerVars, Fresh
<1>2. ASSUME NEW p \in Process, NEW o \in Op, o \notin named, named' = named \cup {o},
             UNCHANGED <<log, sealed, money, charged>>,
             \A q \in Process \ {p} : proc'[q] = proc[q], proc'[p].op = o,
             {doc'.credit, doc'.redebit, doc'.plan}
               \subseteq {doc.credit, doc.redebit, doc.plan, o}
      PROVE  Fresh'
  BY <1>2 DEF Fresh
<1>3. ASSUME NEW p \in Process, Continues(p), DocDrops, named' = named,
             Touches(p)
      PROVE  Fresh'
  BY <1>3 DEF Fresh, Continues, DocDrops, Touches, Op
<1>4. ASSUME NEW p \in Process, NEW l, Reads(p, l), l.op \in named \cup {None}
      PROVE  Fresh'
  BY <1>4 DEF Reads, ledgerVars, Fresh
<1>5. ASSUME NEW p \in Request, Ask(p) PROVE Fresh'
  <2>1. p \in Process
    BY DEF Process
  <2>2. CASE CreateInsert(p)
    <3>1. PICK f \in Fees : Creates(p, f)
      BY <2>1, <2>2, CreateStep
    <3>2. Creation \in Op
      BY DEF Op, Chargeable
    <3> QED
      BY <1>2, <2>1, <3>1, <3>2 DEF Creates
  <2>3. CASE CancelRead(p) \/ (Delivered /\ MarkPaidRead(p)) \/ FeeRead(p)
    BY <1>4, <2>1, <2>3, CancelReads, MarkPaidReads, FeeReads
  <2>4. CASE StaffRead(p)
    <3>1. doc.credit \in named \cup {None}
      BY DEF Fresh
    <3> QED
      BY <1>4, <2>1, <2>4, <3>1, StaffReads
  <2> QED
    BY <1>5, <2>2, <2>3, <2>4 DEF Ask
<1>6. CASE Heal
  <2>1. PICK l \in Local : Reads(Healer, l) /\ HealTakes(l)
    BY <1>6, HealStep
  <2>2. \/ l.op = doc.credit \/ l.op = doc.redebit \/ l.op = doc.plan
        \/ l.op = Creation /\ doc.status # "absent"
    <3>1. doc \in Doc
      BY DEF ProgOK
    <3> QED
      BY <2>1, <3>1 DEF HealTakes, Doc
  <2>3. l.op \in named \cup {None}
    BY <2>2 DEF Fresh, DocFits, Transient
  <2> QED
    BY <1>4, <2>1, <2>3 DEF Process
<1>7. ASSUME NEW p \in Process, Run(p) PROVE Fresh'
  <2>1. CASE CancelClaim(p)
    <3>1. CASE Refunding(p, "cancelled")
      <4>1. PICK r \in Refund : Refunds(p, r, "cancelled")
        BY <2>1, <3>1, RefundStep DEF CancelClaim, Status
      <4> QED
        BY <1>2, <4>1 DEF Refunds, Named, Op
    <3> QED
      BY <1>3, <2>1, <3>1, EndContinues DEF CancelClaim, DocDrops, Touches
  <2>2. CASE EnterRejected(p)
    <3>1. CASE Refunding(p, "rejected")
      <4>1. PICK r \in Refund : Refunds(p, r, "rejected")
        BY <2>2, <3>1, RefundStep DEF EnterRejected, Status
      <4> QED
        BY <1>2, <4>1 DEF Refunds, Named, Op
    <3>2. "moneyless" \in Calls
      BY DEF Calls
    <3> QED
      BY <1>3, <2>2, <3>1, <3>2, GotoContinues DEF EnterRejected, DocDrops, Touches
  <2>3. CASE LeaveRejected(p)
    <3>1. Fits(proc[p]) /\ "moneyless" \in Calls
      BY DEF Placed, Calls
    <3>2. ASSUME NEW d \in Redebit, Redebits(p, d) PROVE Fresh'
      BY <1>2, <3>2 DEF Redebits, Named, Op, Chargeable
    <3> QED
      BY <1>3, <2>3, <3>1, <3>2, RedebitStep, GotoContinues DEF DocDrops, Touches
  <2>4. CASE FeeClaim(p)
    <3>1. ASSUME NEW f \in Fees, NEW o \in FeeOp, Replans(p, o, f) PROVE Fresh'
      BY <1>2, <3>1 DEF Replans, Named, Op, Chargeable
    <3> QED
      BY <1>3, <2>4, <3>1, ReplanStep, EndContinues DEF DocDrops, Touches
  <2>5. CASE ~(CancelClaim(p) \/ EnterRejected(p) \/ LeaveRejected(p) \/ FeeClaim(p))
    <3>1. Continues(p)
      BY <1>7, <2>5, RunContinues
    <3>2. CASE \/ Ensure(p) \/ Charge(p) \/ Outcome(p) \/ Refused(p)
               \/ Burn(p) \/ BurnToken(p) \/ GiveBack(p) \/ MarkUndone(p)
               \/ PayRefund(p) \/ SettlePay(p) \/ FeeCredit(p)
      BY <1>3, <3>1, <3>2, LedgerTouches DEF DocDrops
    <3>3. CASE \/ ClearRefund(p) \/ SettleClear(p) \/ Reread(p)
               \/ CreateDelete(p) \/ CreateActivate(p)
               \/ MoneylessClaim(p) \/ PlainClaim(p)
               \/ RedebitFinish(p) \/ RedebitAbort(p)
               \/ MarkPaidClaim(p) \/ FeeFinish(p) \/ FeeRevert(p)
               \/ HealInitClaim(p) \/ HealInitDone(p)
      <4>1. DocDrops /\ UNCHANGED ledgerVars
        BY <3>3, DocRunDrops
      <4> QED
        BY <1>3, <3>1, <4>1 DEF ledgerVars, Touches
    <3> QED
      BY <1>7, <2>5, <3>2, <3>3 DEF Run
  <2> QED
    BY <2>1, <2>2, <2>3, <2>4, <2>5
<1>8. ASSUME NEW p \in Process, Die(p) PROVE Fresh'
  BY <1>3, <1>8, EndContinues DEF Die, ledgerVars, DocDrops, Touches
<1> QED
  BY <1>1, <1>5, <1>6, <1>7, <1>8 DEF Act

\* What no step undoes: money given back, a refund paid, a decided creation.
Kept ==
  /\ \A x \in Op : money[x] = "back" => money'[x] = "back"
  /\ \A x \in Refund : money[x] = "moved" => money'[x] = "moved"
  /\ Decided => Decided'

\* What the books say of what a process knows at its call.
Knows(p) ==
  /\ At(p, "mark") => money[proc[p].op] = "back"
  /\ proc[p].at \in {"clear", "settleClear"} => money[proc[p].op] = "moved"
  /\ At(p, "abort") /\ Job(p, {"healInit"}) /\ "undecided" \notin strayed => Decided

\* The history keeps what happened, a burn reported undecided above all.
Recorded == strayed \subseteq strayed' /\ (Undecided => "undecided" \in strayed')

LEMMA KnowsStep ==
  ASSUME ProgOK, Placed, Kept, Recorded, NEW q \in Process, Knows(q), proc'[q] = proc[q]
  PROVE  Knows(q)'
<1>1. proc[q].at = "mark" => proc[q].op \in Op
  BY OpsOfCalls DEF Op
<1>2. proc[q].at \in {"clear", "settleClear"} => proc[q].op \in Refund
  BY OpsOfCalls
<1>3. At(q, "mark")' => money'[proc'[q].op] = "back"
  BY <1>1 DEF Knows, Kept, At
<1>4. proc'[q].at \in {"clear", "settleClear"} => money'[proc'[q].op] = "moved"
  BY <1>2 DEF Knows, Kept
<1>5. (At(q, "abort") /\ Job(q, {"healInit"}) /\ "undecided" \notin strayed)'
        => Decided'
  BY DEF Knows, Kept, Recorded, At, Job
<1> QED
  BY <1>3, <1>4, <1>5 DEF Knows

\* The books after a step of p that kept the others'.
LEMMA BooksOthers ==
  ASSUME ProgOK, Placed, Books, Kept, Recorded, NEW p \in Process, Knows(p)',
         \A q \in Process \ {p} : proc'[q] = proc[q],
         \A o \in Refund : money'[o] # "back",
         \A o \in Chargeable : /\ log'[o] = "applied" => money'[o] # "none"
                               /\ log'[o] = "undone" => money'[o] = "back"
  PROVE  Books'
<1>1. \A q \in Process : Knows(q)
  BY DEF Books, Knows
<1>2. \A q \in Process : Knows(q)'
  BY <1>1, KnowsStep
<1>3. \A q \in Process :
        /\ At(q, "mark")' => money'[proc'[q].op] = "back"
        /\ proc'[q].at \in {"clear", "settleClear"} => money'[proc'[q].op] = "moved"
        /\ (At(q, "abort") /\ Job(q, {"healInit"}) /\ "undecided" \notin strayed)'
             => Decided'
  BY <1>2 DEF Knows
<1> QED
  BY <1>3 DEF Books

\* A step of a ledger that does not move: only the place of p changes.
LEMMA BooksStill ==
  ASSUME ProgOK, Placed, Books, Recorded, NEW p \in Process,
         UNCHANGED ledgerVars, Knows(p)',
         \A q \in Process \ {p} : proc'[q] = proc[q]
  PROVE  Books'
<1>1. Kept
  BY DEF Kept, Decided, ledgerVars
<1> QED
  BY <1>1, BooksOthers DEF ledgerVars, Books

\* A place where nothing is known of the books.
Unknowing(l) ==
  /\ l.at \notin {"mark", "clear", "settleClear"}
  /\ l.at = "abort" => l.job # "healInit"

LEMMA UnknowingKnows ==
  ASSUME NEW p \in Process, Unknowing(proc'[p])
  PROVE  Knows(p)'
  BY DEF Unknowing, Knows, At, Job

LEMMA IdleUnknowing == Unknowing(Idle)
  BY DEF Unknowing, Idle

\* The calls of a debit and of its burn.
LEMMA BooksDebit ==
  ASSUME ProgOK, Placed, Books, Recorded, NEW p \in Process,
         \/ Ensure(p) \/ Charge(p) \/ Outcome(p) \/ Refused(p)
         \/ Burn(p) \/ BurnToken(p) \/ GiveBack(p) \/ MarkUndone(p)
  PROVE  Books'
<1> USE DEF Calls
<1> DEFINE o == proc[p].op
<1>1. /\ o \in Chargeable /\ o \in Op /\ Fits(proc[p]) /\ o \notin Refund
      /\ \A x \in Chargeable : x \in Op
      /\ \A x \in Refund : x \in Op /\ x # o
      /\ Creation \in Chargeable
  BY OpsOfCalls, WithdrawalsAssumption DEF Ensure, Charge, Outcome, Refused, Burn,
     BurnToken, GiveBack, MarkUndone, At, Placed, Op, Chargeable
<1>2. CASE Ensure(p)
  BY <1>2, GotoStep, UnknowingKnows, BooksStill DEF Ensure, Unknowing
<1>3. CASE Outcome(p)
  <2>1. proc[p].job # "healInit"
    BY <1>1, <1>3 DEF Outcome, At, Fits, Idle
  <2> QED
    BY <1>3, <2>1, GotoStep, UnknowingKnows, BooksStill DEF Outcome, Unknowing, Job
<1>4. CASE Refused(p)
  BY <1>4, GotoStep, UnknowingKnows, BooksStill DEF Refused, Unknowing
<1>5. CASE Charge(p)
  <2>1. CASE UNCHANGED <<money, charged, log>>
    BY <1>5, <2>1, GotoStep, UnknowingKnows, BooksStill
       DEF Charge, Unknowing, ledgerVars
  <2>2. CASE ~UNCHANGED <<money, charged, log>>
    <3>1. /\ money[o] = "none" /\ o \notin sealed
          /\ money' = [money EXCEPT ![o] = "moved"]
          /\ log' = [log EXCEPT ![o] = IF @ = "open" THEN "applied" ELSE @]
          /\ Goto(p, "finish") /\ sealed' = sealed
      BY <1>5, <2>2 DEF Charge, Move
    <3>2. Kept
      BY <1>1, <3>1 DEF Kept, Decided, ProgOK
    <3>3. Knows(p)'
      BY <3>1, GotoStep, UnknowingKnows DEF Unknowing
    <3>4. \A x \in Refund : money'[x] # "back"
      BY <1>1, <3>1 DEF ProgOK, Books
    <3>5. \A x \in Chargeable : /\ log'[x] = "applied" => money'[x] # "none"
                                /\ log'[x] = "undone" => money'[x] = "back"
      BY <1>1, <3>1 DEF ProgOK, Books
    <3>6. \A q \in Process \ {p} : proc'[q] = proc[q]
      BY <3>1, GotoStep
    <3> QED
      BY <3>2, <3>3, <3>4, <3>5, <3>6, BooksOthers
  <2> QED
    BY <2>1, <2>2
<1>6. CASE Burn(p)
  <2>1. money' = money /\ sealed' = sealed
    BY <1>6 DEF Burn
  <2>2. Kept
    BY <2>1 DEF Kept, Decided
  <2>3. \A x \in Chargeable : /\ log'[x] = "applied" => money'[x] # "none"
                              /\ log'[x] = "undone" => money'[x] = "back"
    BY <1>1, <1>6, <2>1 DEF Burn, ProgOK, Books
  <2>4. Knows(p)' /\ \A q \in Process \ {p} : proc'[q] = proc[q]
    <3>1. CASE Goto(p, "token") \/ Goto(p, "giveBack") \/ End(p)
      BY <3>1, GotoStep, EndStep, UnknowingKnows, IdleUnknowing DEF Unknowing
    <3>3. CASE Goto(p, "abort") /\ log[o] # "undone"
      <4>1. proc'[p].at = "abort" /\ \A q \in Process \ {p} : proc'[q] = proc[q]
        BY <3>3, GotoStep
      <4>2. "undecided" \in strayed'
        BY <1>6, <3>3, <4>1 DEF Recorded, Undecided, Burn
      <4> QED
        BY <4>1, <4>2 DEF Knows, At
    <3>2. CASE Goto(p, "abort") /\ log[o] = "undone"
      <4>1. money'[o] = "back" /\ proc'[p].at = "abort"
        BY <1>1, <2>1, <3>2, GotoStep DEF Books
      <4>2. proc'[p].job = "healInit" => o = Creation
        BY <1>1, <3>2, GotoStep DEF Fits, Idle
      <4>3. proc'[p].job = "healInit" => Decided'
        BY <4>1, <4>2 DEF Decided
      <4> QED
        BY <3>2, <4>1, <4>3, GotoStep DEF Knows, At, Job
    <3> QED
      BY <1>6, <3>1, <3>2, <3>3 DEF Burn, AfterBurn
  <2> QED
    BY <2>1, <2>2, <2>3, <2>4, BooksOthers DEF Books
<1>7. CASE BurnToken(p)
  <2>1. money' = money /\ sealed' = sealed \cup {o} /\ log' = log
    BY <1>7 DEF BurnToken
  <2>2. Kept
    BY <2>1 DEF Kept, Decided
  <2>4. Knows(p)' /\ \A q \in Process \ {p} : proc'[q] = proc[q]
    <3>1. CASE Goto(p, "giveBack") \/ End(p)
      BY <3>1, GotoStep, EndStep, UnknowingKnows, IdleUnknowing DEF Unknowing
    <3>2. CASE Goto(p, "abort") /\ money[o] = "none"
      <4>1. proc'[p].at = "abort"
        BY <3>2, GotoStep
      <4>2. proc'[p].job = "healInit" => o = Creation
        BY <1>1, <3>2, GotoStep DEF Fits, Idle
      <4>3. proc'[p].job = "healInit" => Decided'
        BY <2>1, <3>2, <4>2 DEF Decided
      <4> QED
        BY <3>2, <4>1, <4>3, GotoStep DEF Knows, At, Job
    <3> QED
      BY <1>7, <3>1, <3>2 DEF BurnToken, AfterBurn
  <2> QED
    BY <2>1, <2>2, <2>4, BooksOthers DEF Books
<1>8. CASE GiveBack(p)
  <2>1. /\ money[o] \in {"moved", "back"} /\ money' = [money EXCEPT ![o] = "back"]
        /\ log' = log /\ sealed' = sealed /\ Goto(p, "mark")
    BY <1>1, <1>8 DEF GiveBack, ProgOK
  <2>2. Kept
    BY <1>1, <2>1 DEF Kept, Decided, ProgOK
  <2>3. money'[o] = "back"
    BY <1>1, <2>1 DEF ProgOK
  <2>4. Knows(p)'
    BY <2>1, <2>3, GotoStep DEF Knows, At, Job
  <2>5. \A x \in Refund : money'[x] # "back"
    BY <1>1, <2>1 DEF ProgOK, Books
  <2>6. \A x \in Chargeable : /\ log'[x] = "applied" => money'[x] # "none"
                              /\ log'[x] = "undone" => money'[x] = "back"
    BY <1>1, <2>1 DEF ProgOK, Books
  <2>7. \A q \in Process \ {p} : proc'[q] = proc[q]
    BY <2>1, GotoStep
  <2> QED
    BY <2>2, <2>4, <2>5, <2>6, <2>7, BooksOthers
<1>9. CASE MarkUndone(p)
  <2>1. money' = money /\ sealed' = sealed /\ log' = [log EXCEPT ![o] = "undone"]
    BY <1>9 DEF MarkUndone
  <2>2. Kept
    BY <2>1 DEF Kept, Decided
  <2>3. money[o] = "back"
    BY <1>9 DEF MarkUndone, Books
  <2>4. \A x \in Chargeable : /\ log'[x] = "applied" => money'[x] # "none"
                              /\ log'[x] = "undone" => money'[x] = "back"
    BY <1>1, <2>1, <2>3 DEF ProgOK, Books
  <2>5. Knows(p)' /\ \A q \in Process \ {p} : proc'[q] = proc[q]
    <3>1. CASE End(p)
      BY <3>1, EndStep, UnknowingKnows, IdleUnknowing
    <3>2. CASE Goto(p, "abort")
      <4>1. proc'[p].at = "abort"
        BY <3>2, GotoStep
      <4>2. proc'[p].job = "healInit" => o = Creation
        BY <1>1, <3>2, GotoStep DEF Fits, Idle
      <4>3. proc'[p].job = "healInit" => Decided'
        BY <2>1, <2>3, <4>2 DEF Decided
      <4> QED
        BY <3>2, <4>1, <4>3, GotoStep DEF Knows, At, Job
    <3> QED
      BY <1>9, <3>1, <3>2 DEF MarkUndone, AfterBurn
  <2> QED
    BY <2>1, <2>2, <2>4, <2>5, BooksOthers DEF Books
<1> QED
  BY <1>2, <1>3, <1>4, <1>5, <1>6, <1>7, <1>8, <1>9

LEMMA BooksPay ==
  ASSUME ProgOK, Placed, Books, Recorded, NEW p \in Process,
         PayRefund(p) \/ SettlePay(p) \/ FeeCredit(p)
  PROVE  Books'
<1> USE DEF Calls
<1> DEFINE o == proc[p].op
<1>1. PICK call \in {"clear", "settleClear", "finish"} :
        /\ Pay(p, call)
        /\ call # "finish" => o \in Refund
        /\ call = "finish" => o \in FeeOp
  BY OpsOfCalls DEF PayRefund, SettlePay, FeeCredit, At, Job
<1>2. /\ o \in Op /\ (o \in Refund => o \notin Chargeable)
      /\ \A x \in Chargeable : x \in Op
      /\ \A x \in Refund : x \in Op
      /\ Creation \in Op
  BY <1>1, WithdrawalsAssumption DEF Op, Chargeable
<1>3. /\ log' = log /\ sealed' = sealed /\ Goto(p, call)
      /\ money' = [money EXCEPT ![o] = IF money[o] = "none" THEN "moved" ELSE money[o]]
  BY <1>1, <1>2 DEF Pay, Move, ProgOK
<1>4. \A x \in Op : money'[x] = IF x = o /\ money[o] = "none" THEN "moved" ELSE money[x]
  BY <1>2, <1>3 DEF ProgOK
<1>5. Kept
  <2>1. Decided => Decided'
    <3>1. CASE o # Creation
      BY <1>2, <1>3, <1>4, <3>1 DEF Decided
    <3>2. CASE o = Creation
      BY <1>1, <3>2, WithdrawalsAssumption
    <3> QED
      BY <3>1, <3>2
  <2> QED
    BY <1>2, <1>4, <2>1 DEF Kept
<1>6. Knows(p)'
  <2>1. proc'[p].at = call /\ proc'[p].op = o
    BY <1>3, GotoStep
  <2>2. o \in Refund => money'[o] = "moved"
    BY <1>2, <1>4 DEF ProgOK, Books
  <2> QED
    BY <1>1, <2>1, <2>2 DEF Knows, At, Job
<1>7. \A x \in Refund : money'[x] # "back"
  BY <1>2, <1>4 DEF Books
<1>8. \A x \in Chargeable : /\ log'[x] = "applied" => money'[x] # "none"
                            /\ log'[x] = "undone" => money'[x] = "back"
  BY <1>2, <1>3, <1>4 DEF Books
<1>9. \A q \in Process \ {p} : proc'[q] = proc[q]
  BY <1>3, GotoStep
<1> QED
  BY <1>5, <1>6, <1>7, <1>8, <1>9, BooksOthers

\* The calls that write the document.
LEMMA BooksRun ==
  ASSUME ProgOK, Placed, Books, Recorded, NEW p \in Process,
         \/ ClearRefund(p) \/ SettleClear(p) \/ Reread(p)
         \/ CreateDelete(p) \/ CreateActivate(p)
         \/ MoneylessClaim(p) \/ PlainClaim(p) \/ RedebitFinish(p) \/ RedebitAbort(p)
         \/ MarkPaidClaim(p) \/ FeeFinish(p) \/ FeeRevert(p)
         \/ HealInitClaim(p) \/ HealInitDone(p)
  PROVE  Books'
<1>1. UNCHANGED ledgerVars
  BY DocRunDrops
<1>2. Unknowing(proc'[p]) /\ \A q \in Process \ {p} : proc'[q] = proc[q]
  <2>1. CASE End(p)
    BY <2>1, EndStep, IdleUnknowing
  <2>2. CASE Goto(p, "reread") \/ Goto(p, "burn")
    <3>1. "reread" \in Calls /\ "burn" \in Calls
      BY DEF Calls
    <3> QED
      BY <2>2, <3>1, GotoStep DEF Unknowing
  <2>3. CASE Reread(p)
    <3> DEFINE l == [proc[p] EXCEPT !.at = "claim", !.seen = doc.status,
                                    !.fee = doc.fee, !.op = None]
    <3>1. proc' = [proc EXCEPT ![p] = l]
      BY <2>3 DEF Reread
    <3>2. l.at = "claim"
      BY DEF ProgOK, Local
    <3> HIDE DEF l
    <3>3. proc'[p] = l /\ \A q \in Process \ {p} : proc'[q] = proc[q]
      BY <3>1 DEF ProgOK
    <3> QED
      BY <3>2, <3>3 DEF Unknowing
  <2> QED
    BY <2>1, <2>2, <2>3 DEF ClearRefund, SettleClear, CreateDelete, CreateActivate,
        MoneylessClaim, PlainClaim, RedebitFinish, RedebitAbort, MarkPaidClaim,
        FeeFinish, FeeRevert, HealInitClaim, HealInitDone
<1> QED
  BY <1>1, <1>2, UnknowingKnows, BooksStill

\* Every step keeps the books.
LEMMA BooksStep ==
  ASSUME ProgOK, Placed, Books, Recorded, [Act]_progVars
  PROVE  Books'
<1> USE WithdrawalsAssumption
<1>1. CASE UNCHANGED progVars
  BY <1>1 DEF progVars, ledgerVars, Books, Recorded, At, Job, Decided
<1>2. ASSUME NEW p \in Process, NEW l \in Local, Reads(p, l), Unknowing(l)
      PROVE  Books'
  BY <1>2, UnknowingKnows, BooksStill DEF Reads
<1>3. ASSUME NEW p \in Process, UNCHANGED <<log, sealed, money, charged>>,
             \A q \in Process \ {p} : proc'[q] = proc[q], Unknowing(proc'[p])
      PROVE  Books'
  <2>1. Kept
    BY <1>3 DEF Kept, Decided
  <2> QED
    BY <1>3, <2>1, UnknowingKnows, BooksOthers DEF Books
<1>4. ASSUME NEW p \in Request, Ask(p) PROVE Books'
  <2>1. p \in Process
    BY DEF Process
  <2>2. CASE CreateInsert(p)
    <3>1. PICK f \in Fees : Creates(p, f)
      BY <2>1, <2>2, CreateStep
    <3> QED
      BY <1>3, <2>1, <3>1 DEF Creates, Unknowing
  <2>3. CASE CancelRead(p)
    <3>1. PICK l \in Local : Reads(p, l) /\ l.job = "cancel"
      BY <2>1, <2>3, CancelReads
    <3>2. Unknowing(proc'[p])
      BY <2>1, <2>3, UnknowingKnows DEF CancelRead, Unknowing, Idle, ProgOK
    <3> QED
      BY <1>3, <2>1, <3>1, <3>2 DEF Reads, ledgerVars
  <2>4. CASE StaffRead(p)
    <3>1. PICK l \in Local : Reads(p, l) /\ l.job = "staff"
             /\ l.at = IF doc.credit = None THEN "claim" ELSE "settlePay"
      BY <2>1, <2>4, StaffReads
    <3> QED
      BY <1>2, <2>1, <3>1 DEF Unknowing
  <2>5. CASE Delivered /\ MarkPaidRead(p)
    <3>1. PICK l \in Local : Reads(p, l) /\ l.job = "markPaid"
      BY <2>1, <2>5, MarkPaidReads
    <3>2. Unknowing(l)
      BY <3>1 DEF Reads, Fits, Unknowing, Idle
    <3> QED
      BY <1>2, <2>1, <3>1, <3>2
  <2>6. CASE FeeRead(p)
    <3>1. PICK l \in Local : Reads(p, l) /\ l.job = "fee" /\ l.op = None
      BY <2>1, <2>6, FeeReads
    <3>2. Unknowing(l)
      BY <3>1 DEF Reads, Fits, Unknowing, Idle, Op, Chargeable
    <3> QED
      BY <1>2, <2>1, <3>1, <3>2
  <2> QED
    BY <1>4, <2>2, <2>3, <2>4, <2>5, <2>6 DEF Ask
<1>5. CASE Heal
  <2>1. PICK l \in Local : Reads(Healer, l) /\ HealTakes(l)
    BY <1>5, HealStep
  <2>2. Unknowing(l)
    BY <2>1 DEF HealTakes, Unknowing, SettleAt
  <2> QED
    BY <1>2, <2>1, <2>2 DEF Process
<1>6. ASSUME NEW p \in Process, Run(p) PROVE Books'
  <2> USE DEF Calls
  <2>0. Fits(proc[p])
    BY DEF Placed
  <2>1. CASE CancelClaim(p)
    <3>1. CASE Refunding(p, "cancelled")
      <4>1. PICK r \in Refund : Refunds(p, r, "cancelled")
        BY <2>1, <3>1, RefundStep DEF CancelClaim, Status
      <4> QED
        BY <1>3, <4>1 DEF Refunds, Named, Unknowing
    <3> QED
      BY <1>3, <2>1, <3>1, EndStep, IdleUnknowing DEF CancelClaim
  <2>2. CASE EnterRejected(p)
    <3>1. CASE Refunding(p, "rejected")
      <4>1. PICK r \in Refund : Refunds(p, r, "rejected")
        BY <2>2, <3>1, RefundStep DEF EnterRejected, Status
      <4> QED
        BY <1>3, <4>1 DEF Refunds, Named, Unknowing
    <3> QED
      BY <1>3, <2>2, <3>1, GotoStep DEF EnterRejected, Unknowing
  <2>3. CASE LeaveRejected(p)
    <3>1. ASSUME NEW d \in Redebit, Redebits(p, d) PROVE Books'
      BY <1>3, <3>1 DEF Redebits, Named, Unknowing
    <3> QED
      BY <1>3, <2>0, <2>3, <3>1, RedebitStep, GotoStep DEF Unknowing
  <2>4. CASE FeeClaim(p)
    <3>1. ASSUME NEW f \in Fees, NEW o \in FeeOp, Replans(p, o, f) PROVE Books'
      BY <1>3, <3>1 DEF Replans, Named, Unknowing, SettleAt
    <3> QED
      BY <1>3, <2>4, <3>1, ReplanStep, EndStep, IdleUnknowing
  <2> QED
    BY <1>6, <2>1, <2>2, <2>3, <2>4, BooksDebit, BooksPay, BooksRun DEF Run
<1>7. ASSUME NEW p \in Process, Die(p) PROVE Books'
  BY <1>3, <1>7, EndStep, IdleUnknowing DEF Die, ledgerVars
<1> QED
  BY <1>1, <1>4, <1>5, <1>6, <1>7 DEF Act

-----------------------------------------------------------------------------
(* A failed attempt is let go of once its debit is decided                 *)

\* The only step that lets go of one.
LEMMA LetsGo ==
  ASSUME ProgOK, Placed, DocFits, NEW p \in Process, Run(p),
         doc'.status = "failed_init", ~doc'.init
  PROVE  \/ doc.status = "failed_init" /\ ~doc.init
         \/ HealInitDone(p)
<1>1. doc \in Doc /\ Fits(proc[p])
  BY DEF ProgOK, Placed
<1> USE <1>1 DEF DocFits, Doc
<1>2. CASE \/ Ensure(p) \/ Charge(p) \/ Outcome(p) \/ Refused(p)
           \/ Burn(p) \/ BurnToken(p) \/ GiveBack(p) \/ MarkUndone(p)
           \/ PayRefund(p) \/ SettlePay(p) \/ FeeCredit(p)
  BY <1>2, LedgerTouches
<1>3. CASE ClearRefund(p) \/ SettleClear(p)
  BY <1>3 DEF ClearRefund, SettleClear, ClearMarker
<1>4. CASE CreateDelete(p)
  BY <1>4 DEF CreateDelete, NoDoc
<1>5. CASE Reread(p) \/ CreateActivate(p)
  <2>1. CASE Reread(p)
    BY <2>1 DEF Reread
  <2>2. CASE CreateActivate(p)
    BY <2>2 DEF CreateActivate
  <2> QED
    BY <1>5, <2>1, <2>2
<1>6. CASE MoneylessClaim(p)
  <2>1. proc[p].want \in Live \cup {"rejected"}
    BY <1>6 DEF MoneylessClaim, Fits, At, Idle, DebitCalls
  <2>2. doc' = doc \/ doc' = [doc EXCEPT !.status = proc[p].want]
    BY <1>6, Zenon DEF MoneylessClaim
  <2> QED
    BY <2>1, <2>2 DEF Live
<1>7. CASE PlainClaim(p)
  <2>1. proc[p].want \in Live \cup {"rejected"}
    BY <1>7 DEF PlainClaim, StaffClaims, Fits, Job, Idle, DebitCalls
  <2>2. doc' = doc \/ doc' = [doc EXCEPT !.status = proc[p].want]
    BY <1>7, Zenon DEF PlainClaim
  <2> QED
    BY <2>1, <2>2 DEF Live
<1>8. CASE RedebitFinish(p)
  BY <1>8 DEF RedebitFinish
<1>9. CASE RedebitAbort(p)
  BY <1>9 DEF RedebitAbort
<1>10. CASE MarkPaidClaim(p)
  BY <1>10 DEF MarkPaidClaim
<1>11. CASE FeeFinish(p)
  BY <1>11 DEF FeeFinish
<1>12. CASE FeeRevert(p)
  BY <1>12 DEF FeeRevert
<1>13. CASE HealInitClaim(p)
  BY <1>13 DEF HealInitClaim
<1>14. CASE CancelClaim(p) \/ EnterRejected(p)
  <2>1. doc' = doc \/ \E r \in Refund, s \in {"cancelled", "rejected"} : Refunds(p, r, s)
    <3>1. CASE Refunding(p, "cancelled")
      BY <1>14, <3>1, RefundStep DEF CancelClaim, EnterRejected, Status
    <3>2. CASE Refunding(p, "rejected")
      BY <1>14, <3>2, RefundStep DEF CancelClaim, EnterRejected, Status
    <3> QED
      BY <1>14, <3>1, <3>2 DEF CancelClaim, EnterRejected
  <2> QED
    BY <2>1 DEF Refunds
<1>15. CASE LeaveRejected(p)
  <2>1. proc[p].job = "staff"
    BY <1>15 DEF LeaveRejected, StaffClaims, Job
  <2>2. proc[p].want \in Live \cup {"rejected"}
    BY <2>1 DEF Fits, Idle
  <2> QED
    BY <1>15, <2>2, RedebitStep DEF Redebits, Live
<1>16. CASE FeeClaim(p)
  BY <1>16, ReplanStep DEF Replans
<1> QED
  BY <1>2, <1>3, <1>4, <1>5, <1>6, <1>7, <1>8, <1>9, <1>10, <1>11, <1>12, <1>13,
     <1>14, <1>15, <1>16 DEF Run

\* What was decided of the creation stays decided.
LEMMA DecidedStays ==
  ASSUME ProgOK, Placed, Decided, [Act]_progVars
  PROVE  Decided'
<1> USE WithdrawalsAssumption
<1>1. CASE UNCHANGED <<sealed, money>>
  BY <1>1 DEF Decided
<1>2. ASSUME NEW p \in Process, Run(p) PROVE Decided'
  <2>1. proc[p].at = "charge" => proc[p].op \in Op
    BY OpsOfCalls DEF Op
  <2>2. CASE Charge(p)
    <3>1. sealed' = sealed /\ Creation \in Op /\ proc[p].op \in Op
      BY <2>1, <2>2 DEF Charge, At, Op, Chargeable
    <3>2. \/ money' = money
          \/ /\ money' = [money EXCEPT ![proc[p].op] = "moved"]
             /\ money[proc[p].op] = "none" /\ proc[p].op \notin sealed
      BY <2>2 DEF Charge, Move
    <3> QED
      BY <3>1, <3>2 DEF Decided, ProgOK
  <2>3. CASE GiveBack(p)
    <3>1. proc[p].op \in Op
      BY <2>3, OpsOfCalls DEF GiveBack, At, Op
    <3>2. sealed' = sealed /\ money' \in {money, [money EXCEPT ![proc[p].op] = "back"]}
      BY <2>3 DEF GiveBack
    <3>3. money[proc[p].op] # "none"
      BY <2>3 DEF GiveBack
    <3> QED
      BY <3>1, <3>2, <3>3 DEF Decided, ProgOK, Op, Chargeable
  <2>4. CASE PayRefund(p) \/ SettlePay(p) \/ FeeCredit(p)
    <3>1. proc[p].op # Creation /\ proc[p].op \in Op
      BY <2>4, OpsOfCalls DEF PayRefund, SettlePay, FeeCredit, At, Job, Op, Chargeable
    <3>2. sealed' = sealed /\ money' \in {money, [money EXCEPT ![proc[p].op] = "moved"]}
      BY <2>4 DEF PayRefund, SettlePay, FeeCredit, Pay, Move
    <3> QED
      BY <3>1, <3>2 DEF Decided, ProgOK, Op, Chargeable
  <2>5. CASE BurnToken(p)
    BY <2>5 DEF BurnToken, Decided
  <2>6. CASE ~(Charge(p) \/ GiveBack(p) \/ PayRefund(p) \/ SettlePay(p)
               \/ FeeCredit(p) \/ BurnToken(p))
    BY <1>1, <1>2, <2>6, DocRunDrops
       DEF Run, Ensure, Outcome, Refused, Burn, MarkUndone, CancelClaim,
           EnterRejected, LeaveRejected, FeeClaim, ledgerVars
  <2> QED
    BY <2>2, <2>3, <2>4, <2>5, <2>6
<1>3. ASSUME NEW p \in Request, Ask(p) PROVE Decided'
  BY <1>1, <1>3 DEF Ask, CreateInsert, CancelRead, StaffRead, MarkPaidRead, FeeRead,
     ledgerVars
<1>4. CASE Heal
  BY <1>1, <1>4 DEF Heal, HealCredit, HealInit, HealRedebit, HealFee, HealStart,
     ledgerVars
<1>5. ASSUME NEW p \in Process, Die(p) PROVE Decided'
  BY <1>1, <1>5 DEF Die, ledgerVars
<1> QED
  BY <1>1, <1>2, <1>3, <1>4, <1>5 DEF Act, progVars, ledgerVars

LEMMA FailedInitStep ==
  ASSUME Base, Recorded, [Act]_progVars
  PROVE  FailedInitSettled'
<1> USE DEF Base
<1> SUFFICES ASSUME doc'.status = "failed_init", ~doc'.init,
                    "undecided" \notin strayed'
             PROVE  Decided'
  BY DEF FailedInitSettled, Decided
<1>0. "undecided" \notin strayed
  BY DEF Recorded
<1>1. CASE doc.status = "failed_init" /\ ~doc.init
  BY <1>0, <1>1, DecidedStays DEF FailedInitSettled, Decided
<1>2. CASE doc' = doc
  BY <1>1, <1>2
<1>3. ASSUME NEW p \in Request, CreateInsert(p) PROVE Decided'
  <2>1. p \in Process
    BY DEF Process
  <2> QED
    BY <1>3, <2>1, CreateStep DEF Creates
<1>4. ASSUME NEW p \in Process, Run(p) PROVE Decided'
  <2>1. CASE HealInitDone(p)
    BY <1>0, <2>1, DecidedStays DEF HealInitDone, Books
  <2> QED
    BY <1>1, <1>4, <2>1, LetsGo
<1> QED
  BY <1>2, <1>3, <1>4 DEF Act, Ask, Heal, CancelRead, StaffRead, MarkPaidRead,
     FeeRead, HealCredit, HealInit, HealRedebit, HealFee, HealStart, Die, progVars

-----------------------------------------------------------------------------
(* What holds of every request                                             *)

LEMMA InitBase == Init => Base
<1> SUFFICES ASSUME Init PROVE Base
  OBVIOUS
<1> USE WithdrawalsAssumption
<1>1. doc \in Doc
  BY DEF Init, NoDoc, Doc, Status, Live
<1>2. proc \in [Process -> Local] /\ \A p \in Process : proc[p] = Idle
  BY IdleLocal DEF Init
<1>3. ProgOK
  <2>1. worth \in [Op -> Int] /\ charged \in Int
    BY DEF Init
  <2>2. log \in [Chargeable -> {"open", "applied", "burned", "undone"}]
    BY DEF Init
  <2>3. money \in [Op -> {"none", "moved", "back"}]
    BY DEF Init
  <2>4. named \subseteq Op /\ sealed \subseteq Chargeable
    BY DEF Init, Op, Chargeable
  <2> QED
    BY <1>1, <1>2, <2>1, <2>2, <2>3, <2>4 DEF ProgOK
<1>4. Placed
  BY <1>2, IdleLocal DEF Placed
<1>5. DocFits
  BY <1>2 DEF Init, NoDoc, DocFits, Job, Idle, Transient
<1>6. Fresh
  BY <1>2 DEF Init, NoDoc, Fresh, Idle, Op, Chargeable
<1>7. Books
  BY <1>2 DEF Init, Books, At, Job, Idle, Op, Chargeable
<1>8. FailedInitSettled
  BY DEF Init, NoDoc, FailedInitSettled
<1> QED
  BY <1>3, <1>4, <1>5, <1>6, <1>7, <1>8 DEF Base

\* A step of the program, and what the history makes of it.
LEMMA NextStep ==
  ASSUME [Next]_vars
  PROVE  [Act]_progVars /\ Recorded
<1>1. CASE UNCHANGED vars
  <2>1. ~Undecided
    BY <1>1 DEF vars, progVars, Undecided, At
  <2> QED
    BY <1>1, <2>1 DEF vars, Recorded
<1>2. CASE Next
  <2>1. Undecided => Strays("undecided")
    BY DEF Strays
  <2> QED
    BY <1>2, <2>1 DEF Next, Recorded, Stray
<1> QED
  BY <1>1, <1>2

LEMMA BaseInductive == Base /\ [Next]_vars => Base'
<1> SUFFICES ASSUME Base, [Next]_vars PROVE Base'
  OBVIOUS
<1>1. ProgOK /\ Placed /\ DocFits /\ Fresh /\ Books
  BY DEF Base
<1> QED
  BY <1>1, NextStep, ShapeStep, DocStep, FreshStep, BooksStep, FailedInitStep DEF Base

\* Whatever the requests and wherever they stop: types, places, documents and
\* the books of each op_id.
THEOREM Invariant == Spec => []Base
<1>1. Init => Base
  BY InitBase
<1>2. Base /\ [Next]_vars => Base'
  BY BaseInductive
<1> QED
  BY <1>1, <1>2, PTL DEF Spec

\* Every request, healer pass, charge and burn keeps the variables in their types.
THEOREM TypeCorrect == Spec => []TypeOK
<1>1. Init => strayed \subseteq Stray
  BY DEF Init
<1>2. strayed \subseteq Stray /\ [Next]_vars => (strayed \subseteq Stray)'
  BY DEF Next, vars
<1>3. Base /\ strayed \subseteq Stray => TypeOK
  BY DEF Base, TypeOK
<1> QED
  BY <1>1, <1>2, <1>3, Invariant, PTL DEF Spec

\* The healer lets go of a half-made withdrawal (credit_recovery, the
\* failed_init branch) only once its debit can never be charged or was given
\* back, whatever the creator is still doing with the same op_id, unless a burn
\* was reported undecided.
THEOREM FailedInitDecided == Spec => []FailedInitSettled
<1>1. Base => FailedInitSettled
  BY DEF Base
<1> QED
  BY <1>1, Invariant, PTL

\* A step that takes a refund out of the document paid it before.
LEMMA RefundStays ==
  ASSUME Base, [Act]_progVars, doc.credit # None, doc'.credit # doc.credit
  PROVE  money[doc.credit] = "moved"
<1> USE WithdrawalsAssumption DEF Base
<1>1. doc \in Doc /\ doc' # doc
  BY DEF ProgOK
<1>2. ASSUME NEW p \in Request, CreateInsert(p) PROVE FALSE
  <2>1. p \in Process
    BY DEF Process
  <2> QED
    BY <1>2, <2>1, CreateStep DEF Creates, DocFits
<1>3. ASSUME NEW p \in Process, Run(p) PROVE money[doc.credit] = "moved"
  <2>0. Fits(proc[p])
    BY DEF Placed
  <2>1. CASE ClearRefund(p) \/ SettleClear(p)
    <3>1. doc.credit = proc[p].op /\ proc[p].at \in {"clear", "settleClear"}
      BY <1>1, <2>1 DEF ClearRefund, SettleClear, ClearMarker, At
    <3> QED
      BY <3>1 DEF Books
  <2>2. CASE CreateDelete(p)
    BY <1>1, <2>2 DEF CreateDelete, DocFits, Transient
  <2>3. CASE CancelClaim(p)
    BY <1>1, <2>3 DEF CancelClaim, Cancelable
  <2>4. CASE EnterRejected(p)
    BY <1>1, <2>4 DEF EnterRejected, Rejectable, DocFits
  <2>5. CASE LeaveRejected(p)
    BY <1>1, <2>0, <2>5, RedebitStep DEF Redebits
  <2>6. CASE FeeClaim(p)
    BY <1>1, <2>6, ReplanStep DEF Replans
  <2>7. CASE \/ Ensure(p) \/ Charge(p) \/ Outcome(p) \/ Refused(p)
             \/ Burn(p) \/ BurnToken(p) \/ GiveBack(p) \/ MarkUndone(p)
             \/ PayRefund(p) \/ SettlePay(p) \/ FeeCredit(p)
    BY <1>1, <2>7, LedgerTouches
  <2>8. CASE Reread(p) \/ CreateActivate(p)
    <3>1. CASE Reread(p)
      BY <1>1, <3>1 DEF Reread
    <3>2. CASE CreateActivate(p)
      BY <1>1, <3>2 DEF CreateActivate, Doc
    <3> QED
      BY <2>8, <3>1, <3>2
  <2>9. CASE MoneylessClaim(p) \/ PlainClaim(p)
    <3>1. doc' = doc \/ doc' = [doc EXCEPT !.status = proc[p].want]
      BY <2>9, Zenon DEF MoneylessClaim, PlainClaim
    <3> QED
      BY <1>1, <3>1 DEF Doc
  <2>10. CASE RedebitFinish(p)
    BY <1>1, <2>10 DEF RedebitFinish, Doc
  <2>11. CASE RedebitAbort(p)
    BY <1>1, <2>11 DEF RedebitAbort, Doc
  <2>12. CASE MarkPaidClaim(p)
    BY <1>1, <2>12 DEF MarkPaidClaim, Doc
  <2>13. CASE FeeFinish(p)
    BY <1>1, <2>13 DEF FeeFinish, Doc
  <2>14. CASE FeeRevert(p)
    BY <1>1, <2>14 DEF FeeRevert, Doc
  <2>15. CASE HealInitClaim(p) \/ HealInitDone(p)
    BY <1>1, <2>15 DEF HealInitClaim, HealInitDone, Doc
  <2> QED
    BY <1>3, <2>1, <2>2, <2>3, <2>4, <2>5, <2>6, <2>7, <2>8, <2>9, <2>10, <2>11,
       <2>12, <2>13, <2>14, <2>15 DEF Run
<1> QED
  BY <1>1, <1>2, <1>3 DEF Act, Ask, Heal, CancelRead, StaffRead, MarkPaidRead,
     FeeRead, HealCredit, HealInit, HealRedebit, HealFee, HealStart, Die, progVars

\* No transition of the withdrawal, of the staff's, the client's or the
\* healer's, overwrites or clears credit_pending before apply_and_clear paid it.
THEOREM RefundKept == Spec => RefundNotDropped
<1>1. Base /\ [Next]_vars
        => (doc.credit # None /\ doc'.credit # doc.credit
              => money[doc.credit] = "moved")
  BY NextStep, RefundStays
<1>2. Base /\ [Next]_vars
        => [doc.credit # None /\ doc'.credit # doc.credit
              => money[doc.credit] = "moved"]_vars
  BY <1>1
<1> QED
  BY <1>2, Invariant, PTL DEF Spec, RefundNotDropped

-----------------------------------------------------------------------------
(* Nothing live was refunded                                               *)

\* A staff member who reads a withdrawal again after settling its refund is
\* not checked again: were it cancelled in between, after a reactivation, the
\* claim would bring a refunded withdrawal back to life.  As long as that did
\* not happen, the second read is as good as the first.
NotBoth == doc.status \in Live => ~doc.refunded

StaffFits(p) ==
  proc[p].at \in {"claim", "moneyless"} => proc[p].seen \in Live \cup {"rejected"}

\* The flag says what the status says, and a published refund is of a
\* withdrawal that is over.
RefundFits ==
  /\ NotBoth
  /\ doc.credit # None => doc.status \in {"rejected", "cancelled"}
  /\ doc.status \in {"rejected", "cancelled"} => doc.refunded
  /\ \A p \in Process : Job(p, {"staff"}) => StaffFits(p)

\* What a step leaves in the document.
RefundDoc ==
  /\ NotBoth'
  /\ doc'.credit # None => doc'.status \in {"rejected", "cancelled"}
  /\ doc'.status \in {"rejected", "cancelled"} => doc'.refunded

LEMMA RefundDocRun ==
  ASSUME Base, RefundFits, NEW p \in Process,
         \/ ClearRefund(p) \/ SettleClear(p) \/ Reread(p)
         \/ CreateDelete(p) \/ CreateActivate(p)
         \/ MoneylessClaim(p) \/ PlainClaim(p) \/ RedebitFinish(p) \/ RedebitAbort(p)
         \/ MarkPaidClaim(p) \/ FeeFinish(p) \/ FeeRevert(p)
         \/ HealInitClaim(p) \/ HealInitDone(p)
  PROVE  RefundDoc
<1>1. doc \in Doc /\ Fits(proc[p]) /\ DocFits
  BY DEF Base, ProgOK, Placed
<1> USE <1>1 DEF RefundDoc, RefundFits, NotBoth, Doc, Live
<1>2. CASE ClearRefund(p) \/ SettleClear(p)
  BY <1>2 DEF ClearRefund, SettleClear, ClearMarker
<1>3. CASE Reread(p)
  BY <1>3 DEF Reread
<1>4. CASE CreateDelete(p)
  BY <1>4 DEF CreateDelete, NoDoc
<1>5. CASE CreateActivate(p)
  BY <1>5 DEF CreateActivate, DocFits, Transient
<1>6. CASE MoneylessClaim(p) /\ doc' # doc
  <2>1. /\ doc' = [doc EXCEPT !.status = proc[p].want]
        /\ \/ Entering(p) /\ doc.status = proc[p].seen /\ doc.refunded
           \/ Leaving(p) /\ doc.status = "rejected" /\ ~doc.refunded
        /\ At(p, "moneyless")
    BY <1>6, Zenon DEF MoneylessClaim
  <2>2. proc[p].job = "staff"
    BY <2>1 DEF Fits, At, Idle, DebitCalls
  <2>3. proc[p].seen \in Live \cup {"rejected"}
    BY <2>1, <2>2 DEF StaffFits, At, Job
  <2> QED
    BY <2>1, <2>3 DEF Entering
<1>7. CASE PlainClaim(p) /\ doc' # doc
  <2>1. /\ doc' = [doc EXCEPT !.status = proc[p].want]
        /\ doc.status = proc[p].seen
        /\ StaffClaims(p) /\ ~Entering(p) /\ ~Leaving(p)
    BY <1>7, Zenon DEF PlainClaim
  <2>2. proc[p].job = "staff" /\ proc[p].want \in Live \cup {"rejected"}
    BY <2>1 DEF StaffClaims, Fits, At, Job, Idle, DebitCalls
  <2>3. proc[p].seen \in Live \cup {"rejected"}
    BY <2>1, <2>2 DEF StaffClaims, StaffFits, At, Job
  <2> QED
    BY <2>1, <2>2, <2>3 DEF Entering, Leaving
<1>8. CASE RedebitFinish(p)
  BY <1>8 DEF RedebitFinish
<1>9. CASE RedebitAbort(p)
  <2>1. proc[p].op # None
    BY <1>9, WithdrawalsAssumption DEF RedebitAbort, Fits, At, Job, Idle, DebitCalls,
       Op, Chargeable
  <2> QED
    BY <1>9, <2>1 DEF RedebitAbort
<1>10. CASE MarkPaidClaim(p)
  <2>1. proc[p].seen \in Live
    BY <1>10 DEF MarkPaidClaim, Fits, Job, Idle
  <2> QED
    BY <1>10, <2>1 DEF MarkPaidClaim
<1>11. CASE FeeFinish(p)
  BY <1>11 DEF FeeFinish
<1>12. CASE FeeRevert(p)
  BY <1>12 DEF FeeRevert
<1>13. CASE HealInitClaim(p) \/ HealInitDone(p)
  BY <1>13 DEF HealInitClaim, HealInitDone, DocFits, Transient
<1> QED
  BY <1>2, <1>3, <1>4, <1>5, <1>6, <1>7, <1>8, <1>9, <1>10, <1>11, <1>12, <1>13

LEMMA RefundDocClaim ==
  ASSUME Base, RefundFits, NEW p \in Process,
         CancelClaim(p) \/ EnterRejected(p) \/ LeaveRejected(p) \/ FeeClaim(p)
  PROVE  RefundDoc
<1>1. doc \in Doc /\ Fits(proc[p]) /\ DocFits /\ ProgOK
  BY DEF Base, ProgOK, Placed
<1> USE <1>1 DEF RefundDoc, RefundFits, NotBoth, Doc, Live
<1>2. CASE CancelClaim(p)
  <2>1. CASE Cancelable(p)
    <3>1. PICK r \in Refund : Refunds(p, r, "cancelled")
      BY <1>2, <2>1, RefundStep DEF CancelClaim, Status
    <3> QED
      BY <3>1 DEF Refunds
  <2> QED
    BY <1>2, <2>1 DEF CancelClaim
<1>3. CASE EnterRejected(p)
  <2>1. CASE Refunding(p, "rejected")
    <3>1. PICK r \in Refund : Refunds(p, r, "rejected")
      BY <1>3, <2>1, RefundStep DEF EnterRejected, Status
    <3> QED
      BY <3>1 DEF Refunds
  <2> QED
    BY <1>3, <2>1 DEF EnterRejected
<1>4. CASE LeaveRejected(p)
  <2>1. proc[p].job = "staff" /\ Leaving(p) /\ At(p, "claim")
    BY <1>4 DEF LeaveRejected, StaffClaims, Job
  <2>2. proc[p].want \in Live
    BY <2>1 DEF Fits, Idle, Leaving
  <2>4. ASSUME NEW d \in Redebit, Redebits(p, d), Leavable(p) PROVE RefundDoc
    BY <2>2, <2>4 DEF Redebits, Leavable
  <2> QED
    BY <1>4, <2>4, RedebitStep
<1>5. CASE FeeClaim(p)
  BY <1>5, ReplanStep DEF Replans
<1> QED
  BY <1>2, <1>3, <1>4, <1>5

LEMMA RefundDocStep ==
  ASSUME Base, RefundFits, [Act]_progVars
  PROVE  RefundDoc
<1>1. CASE doc' = doc
  BY <1>1 DEF RefundDoc, RefundFits, NotBoth
<1>2. ASSUME NEW p \in Request, CreateInsert(p) PROVE RefundDoc
  <2>1. PICK f \in Fees : Creates(p, f)
    BY <1>2, CreateStep DEF Base, Process
  <2>2. doc.status = "absent"
    BY <2>1 DEF Creates, Base, DocFits
  <2> QED
    BY <2>1, <2>2 DEF Creates, Base, DocFits, RefundFits, RefundDoc,
       NotBoth, Live
<1>3. ASSUME NEW p \in Process, Run(p) PROVE RefundDoc
  <2>1. CASE \/ Ensure(p) \/ Charge(p) \/ Outcome(p) \/ Refused(p)
             \/ Burn(p) \/ BurnToken(p) \/ GiveBack(p) \/ MarkUndone(p)
             \/ PayRefund(p) \/ SettlePay(p) \/ FeeCredit(p)
    BY <1>1, <2>1, LedgerTouches DEF Base
  <2> QED
    BY <1>3, <2>1, RefundDocRun, RefundDocClaim DEF Run
<1> QED
  BY <1>1, <1>2, <1>3 DEF Act, Ask, Heal, CancelRead, StaffRead, MarkPaidRead,
     FeeRead, HealCredit, HealInit, HealRedebit, HealFee, HealStart, Die, progVars

\* What the staff holds, after a step of its own or of another.
LEMMA StaffOthers ==
  ASSUME RefundFits, NEW q \in Process, proc'[q] = proc[q], Job(q, {"staff"})'
  PROVE  StaffFits(q)'
<1>1. StaffFits(q)
  BY DEF RefundFits, Job
<1> QED
  BY <1>1 DEF StaffFits

LEMMA StaffOwn ==
  ASSUME Base, RefundFits, NEW p \in Process, Run(p),
         Reread(p) => doc.status # "cancelled", Job(p, {"staff"})'
  PROVE  StaffFits(p)'
<1> USE DEF Calls, Base
<1>1. CASE proc'[p] = Idle
  BY <1>1 DEF Idle, Job
<1>2. CASE proc'[p].at \notin {"claim", "moneyless"}
  BY <1>2 DEF StaffFits
<1>3. CASE SettlePay(p)
  BY <1>2, <1>3, GotoStep DEF SettlePay, Pay
<1>4. CASE SettleClear(p)
  BY <1>2, <1>4, GotoStep DEF SettleClear
<1>5. CASE Reread(p)
  <2> DEFINE l == [proc[p] EXCEPT !.at = "claim", !.seen = doc.status,
                                  !.fee = doc.fee, !.op = None]
  <2>1. proc' = [proc EXCEPT ![p] = l]
    BY <1>5 DEF Reread
  <2>2. /\ l.job = proc[p].job /\ l.seen = doc.status /\ l.want = proc[p].want
        /\ l.at = "claim"
    BY DEF ProgOK, Local
  <2> HIDE DEF l
  <2>3. proc'[p] = l
    BY <2>1 DEF ProgOK
  <2>4. proc[p].job = "staff"
    BY <2>2, <2>3 DEF Job
  <2>5. doc.status \in Live \cup {"rejected"}
    BY <1>5, <2>4, DocTypes DEF DocFits, Job, Status, Transient, Live
  <2> QED
    BY <2>2, <2>3, <2>5 DEF StaffFits
<1>6. CASE EnterRejected(p) \/ LeaveRejected(p)
  <2>1. CASE Goto(p, "moneyless")
    <3>1. At(p, "claim") /\ proc[p].job = "staff"
      BY <1>6 DEF EnterRejected, LeaveRejected, StaffClaims, Job
    <3>2. StaffFits(p)
      BY <3>1 DEF RefundFits, Job
    <3> QED
      BY <2>1, <3>1, <3>2, GotoStep DEF StaffFits, At
  <2>2. CASE EnterRejected(p) /\ Refunding(p, "rejected")
    <3>1. PICK r \in Refund : Refunds(p, r, "rejected")
      BY <2>2, RefundStep DEF EnterRejected, Status
    <3> QED
      BY <1>2, <3>1 DEF Refunds
  <2>3. CASE LeaveRejected(p) /\ ~Goto(p, "moneyless")
    <3>1. Fits(proc[p])
      BY DEF Placed
    <3>2. PICK d \in Redebit : Redebits(p, d)
      BY <2>3, <3>1, RedebitStep
    <3> QED
      BY <1>2, <3>2 DEF Redebits
  <2> QED
    BY <1>6, <2>1, <2>2, <2>3 DEF EnterRejected
<1>7. CASE CancelClaim(p) \/ FeeClaim(p)
  <2>1. proc[p].job # "staff"
    BY <1>7 DEF CancelClaim, FeeClaim, Job
  <2>2. proc'[p].job \in {proc[p].job, "none"}
    BY <1>7, DocClaim
  <2> QED
    BY <2>1, <2>2 DEF Job
<1>8. CASE \/ Ensure(p) \/ Charge(p) \/ Outcome(p) \/ Refused(p)
           \/ Burn(p) \/ BurnToken(p) \/ GiveBack(p) \/ MarkUndone(p)
           \/ PayRefund(p) \/ FeeCredit(p)
  <2>1. End(p) \/ \E call \in Calls \ {"claim", "moneyless"} : Goto(p, call)
    <3>1. CASE Ensure(p) \/ Charge(p) \/ Outcome(p) \/ Refused(p)
      BY <3>1 DEF Ensure, Charge, Outcome, Refused
    <3>2. CASE Burn(p) \/ BurnToken(p) \/ GiveBack(p) \/ MarkUndone(p)
      BY <3>2 DEF Burn, BurnToken, GiveBack, MarkUndone, AfterBurn
    <3>3. CASE PayRefund(p) \/ FeeCredit(p)
      BY <3>3 DEF PayRefund, FeeCredit, Pay
    <3> QED
      BY <1>8, <3>1, <3>2, <3>3
  <2> QED
    BY <1>1, <1>2, <2>1, GotoStep, EndStep
<1>9. CASE \/ ClearRefund(p) \/ CreateDelete(p) \/ MoneylessClaim(p) \/ PlainClaim(p)
           \/ RedebitFinish(p) \/ RedebitAbort(p) \/ MarkPaidClaim(p)
           \/ FeeFinish(p) \/ FeeRevert(p) \/ HealInitDone(p)
  <2>1. End(p)
    BY <1>9 DEF ClearRefund, CreateDelete, MoneylessClaim, PlainClaim,
       RedebitFinish, RedebitAbort, MarkPaidClaim, FeeFinish, FeeRevert, HealInitDone
  <2> QED
    BY <1>1, <2>1, EndStep
<1>10. CASE CreateActivate(p) \/ HealInitClaim(p)
  BY <1>1, <1>2, <1>10, GotoStep, EndStep DEF CreateActivate, HealInitClaim
<1> QED
  BY <1>3, <1>4, <1>5, <1>6, <1>7, <1>8, <1>9, <1>10 DEF Run

LEMMA RefundFitsStep ==
  ASSUME Base, RefundFits, [Act /\ ~Unseen]_progVars
  PROVE  RefundFits'
<1>1. RefundDoc
  BY RefundDocStep
<1>3. CASE UNCHANGED progVars
  BY <1>3 DEF progVars, RefundFits, NotBoth, StaffFits, Job
<1>2. ASSUME Act, ~Unseen
      PROVE  \A p \in Process : Job(p, {"staff"})' => StaffFits(p)'
  <2> SUFFICES ASSUME NEW p \in Process, Job(p, {"staff"})' PROVE StaffFits(p)'
    OBVIOUS
  <2>1. CASE proc'[p] = proc[p]
    BY <2>1, StaffOthers
  <2>2. ASSUME NEW q \in Process, Reads(q, proc'[q]), proc'[q].job # "staff"
        PROVE  StaffFits(p)'
    BY <2>1, <2>2 DEF Reads, Job
  <2>3. ASSUME NEW q \in Request, Ask(q) PROVE StaffFits(p)'
    <3>1. q \in Process /\ ProgOK
      BY DEF Process, Base
    <3>2. CASE CreateInsert(q)
      BY <2>1, <3>1, <3>2, CreateStep DEF Creates, Job
    <3>3. CASE CancelRead(q) \/ (Delivered /\ MarkPaidRead(q)) \/ FeeRead(q)
      <4>1. Reads(q, proc'[q]) /\ proc'[q].job # "staff"
        BY <3>1, <3>3, CancelReads, MarkPaidReads, FeeReads DEF Reads
      <4> QED
        BY <2>2, <3>1, <4>1
    <3>4. CASE StaffRead(q)
      <4>1. PICK l \in Local :
              /\ Reads(q, l) /\ l.op = doc.credit
              /\ l.seen = doc.status /\ l.seen \in Live \cup {"rejected"}
              /\ l.at = IF doc.credit = None THEN "claim" ELSE "settlePay"
              /\ l.seen = "rejected" /\ l.want # "rejected" => "leave" \in Kinds
        BY <3>1, <3>4, StaffReads
      <4>2. CASE p = q
        BY <4>1, <4>2 DEF Reads, StaffFits
      <4> QED
        BY <2>1, <4>1, <4>2 DEF Reads
    <3> QED
      BY <2>3, <3>2, <3>3, <3>4 DEF Ask
  <2>4. CASE Heal
    <3>1. PICK l \in Local : Reads(Healer, l) /\ HealTakes(l)
      BY <2>4, HealStep DEF Base
    <3>2. l.job # "staff" /\ proc'[Healer] = l /\ Healer \in Process
      BY <3>1 DEF HealTakes, Reads, Process
    <3> QED
      BY <2>2, <3>1, <3>2
  <2>5. ASSUME NEW q \in Process, Run(q) PROVE StaffFits(p)'
    <3>1. CASE p = q
      <4>1. Reread(p) => At(p, "reread") /\ proc'[p].at = "claim"
        BY DEF Reread, Base, ProgOK, Local
      <4>2. Reread(p) => doc.status # "cancelled"
        BY <1>2, <4>1 DEF Unseen
      <4> QED
        BY <2>5, <3>1, <4>2, StaffOwn
    <3>2. CASE p # q
      <4>1. \A r \in Process \ {q} : proc'[r] = proc[r]
        BY <2>5, RunContinues, DocClaim DEF Continues, Base
      <4> QED
        BY <2>1, <3>2, <4>1
    <3> QED
      BY <3>1, <3>2
  <2>6. ASSUME NEW q \in Process, Die(q) PROVE StaffFits(p)'
    <3>1. \/ proc'[p] = proc[p]
          \/ proc'[p] = Idle
      BY <2>6, EndStep DEF Die, Base
    <3> QED
      BY <2>1, <3>1 DEF Idle, Job
  <2> QED
    BY <1>2, <2>1, <2>3, <2>4, <2>5, <2>6 DEF Act
<1> QED
  BY <1>1, <1>2, <1>3 DEF RefundDoc, RefundFits

LEMMA InitRefundFits == Init => RefundFits
<1> SUFFICES ASSUME Init PROVE RefundFits
  OBVIOUS
<1>1. \A p \in Process : proc[p] = Idle
  BY DEF Init
<1> QED
  BY <1>1 DEF Init, NoDoc, RefundFits, NotBoth, Idle, Job, Live

\* The history remembers an unseen cancellation.
LEMMA UnseenStep ==
  ASSUME [Next]_vars, "unseen" \notin strayed'
  PROVE  "unseen" \notin strayed /\ [Act /\ ~Unseen]_progVars
<1>1. Unseen => Strays("unseen")
  BY DEF Strays
<1> QED
  BY <1>1 DEF Next, Stray, vars

\* A withdrawal is never approved, pending or paid and refunded at once (S01),
\* whatever the staff, the client, the courier and the healer do: until the
\* second read of update_withdrawal, after settling a refund, finds a
\* withdrawal cancelled in between, which it does not check again and would
\* bring back to life.
THEOREM PaidIsNotRefunded == Spec => []NeverPaidAndRefunded
<1> DEFINE Sound == "unseen" \notin strayed => RefundFits
<1>1. Init => Sound
  BY InitRefundFits
<1>2. Base /\ Sound /\ [Next]_vars => Sound'
  BY UnseenStep, RefundFitsStep
<1>3. Sound => NeverPaidAndRefunded
  BY DEF RefundFits, NotBoth, NeverPaidAndRefunded
<1> QED
  BY <1>1, <1>2, <1>3, Invariant, PTL DEF Spec

-----------------------------------------------------------------------------
(* What the client is charged                                              *)

\* A step that does none of the things the flows do not allow for.
Calm ==
  ~(Unseen \/ OldFee \/ EarlyFee \/ Reopening \/ Overtaken \/ Undecided)

\* The op_ids of re-debits and fee plans.
Debit == Redebit \cup FeeOp

\* A plan and a re-debit are of a live withdrawal, which has one of them at most.
Underway ==
  /\ doc.plan # None => doc.status \in Live /\ doc.redebit = None
  /\ doc.redebit # None => doc.status \in Live

\* A re-debit or a plan under way is the one of the document, and one process
\* at a time carries it out.
Alone ==
  /\ \A p \in Process : /\ proc[p].op \in Redebit => doc.redebit = proc[p].op
                        /\ proc[p].op \in FeeOp => doc.plan = proc[p].op
  /\ \A p, q \in Process : proc[p].op \in Debit /\ proc[q].op = proc[p].op => p = q

\* So its log and its money tell the same story, and it is never given back.
Told(o) ==
  /\ log[o] = "open" /\ worth[o] > 0 => money[o] = "none"
  /\ log[o] = "applied" => money[o] = "moved"
  /\ log[o] = "burned" => money[o] = "none"
  /\ log[o] # "undone" /\ money[o] # "back"
  /\ o \in sealed => log[o] = "burned"
  /\ log[o] # "open" => worth[o] > 0

TellsDebit(p) == LET o == proc[p].op IN
  /\ proc[p].at \in DebitCalls \ {"finish"} => worth[o] > 0
  /\ At(p, "pay") => worth[o] < 0
  /\ At(p, "charge") => log[o] = "open"
  /\ At(p, "outcome") => log[o] # "open"
  /\ proc[p].at \in {"refused", "burn", "abort"} => money[o] = "none"
  /\ At(p, "token") => log[o] = "burned"
  /\ proc[p].at \notin {"giveBack", "mark"}
  /\ At(p, "finish") => money[o] = "moved" \/ worth[o] = 0

Debits ==
  /\ \A o \in Debit : Told(o)
  /\ \A p \in Process : proc[p].op \in Debit => TellsDebit(p)

\* The creation's debit: one creator, who alone charges it; while the attempt
\* is neither activated nor taken by the healer it is not burned.
TellsCreator(p) ==
  /\ doc.status \in Transient
  /\ proc[p].at \in {"ensure", "charge", "refused", "delete"} => money[Creation] = "none"
  /\ proc[p].at \in {"outcome", "finish"} /\ doc.status = "initializing"
       => money[Creation] = "moved"
  /\ proc[p].at \in {"burn", "token", "giveBack", "mark"} => doc.status = "failed_init"

Attempt ==
  /\ \A p, q \in Process : Job(p, {"create"}) /\ Job(q, {"create"}) => p = q
  /\ \A p \in Process : Job(p, {"create"}) => TellsCreator(p)
  /\ \A p \in Process : Job(p, {"healInit"}) /\ ~At(p, "claim")
                          => doc.status = "failed_init"
  /\ doc.status = "initializing" => /\ log[Creation] \in {"open", "applied"}
                                    /\ Creation \notin sealed
                                    /\ money[Creation] # "back"
  /\ doc.status \in Transient => worth[Creation] = Amount + doc.fee
  /\ \A p \in Process :
       Job(p, {"create", "healInit"}) => proc[p].cost = worth[Creation]

\* What each op_id is worth, and which refund is still to be paid.
Priced ==
  /\ doc.redebit # None => worth[doc.redebit] = Amount + doc.fee
  /\ doc.plan # None => worth[doc.plan] = doc.fee - doc.revert
  /\ doc.credit # None /\ money[doc.credit] = "none"
       => worth[doc.credit] = -(Amount + doc.fee)
  /\ \A r \in Refund \cap named : money[r] = "none" => doc.credit = r

Pending(o) == o # None /\ money[o] # "moved"

Balance ==
  IF doc.status \in Live
  THEN IF Pending(doc.redebit) THEN 0
       ELSE Amount + IF Pending(doc.plan) THEN doc.revert ELSE doc.fee
  ELSE IF doc.status \in {"rejected", "cancelled"}
  THEN IF Pending(doc.credit) THEN Amount + doc.fee ELSE 0
  ELSE IF doc.status \in Transient /\ money[Creation] = "moved"
  THEN worth[Creation] ELSE 0

Settled == Underway /\ Alone /\ Debits /\ Attempt /\ Priced /\ charged = Balance

Known == Base /\ RefundFits /\ Settled

\* What is left of a process after a step of its own.
Ends(p) == proc'[p] = Idle /\ \A q \in Process \ {p} : proc'[q] = proc[q]

Goes(p, call) ==
  /\ \A q \in Process \ {p} : proc'[q] = proc[q]
  /\ proc'[p].at = call /\ proc'[p].job = proc[p].job /\ proc'[p].op = proc[p].op
  /\ proc'[p].fee = proc[p].fee /\ proc'[p].cost = proc[p].cost

LEMMA Going ==
  ASSUME ProgOK, NEW p \in Process
  PROVE  /\ End(p) => Ends(p)
         /\ \A call \in Calls : Goto(p, call) => Goes(p, call)
<1>1. ASSUME End(p) PROVE Ends(p)
  BY <1>1, EndStep DEF Ends
<1>2. ASSUME NEW call \in Calls, Goto(p, call) PROVE Goes(p, call)
  BY <1>2, GotoStep DEF Goes
<1> QED
  BY <1>1, <1>2

\* What the calls under way may write in the document.
PaidOff(p) ==
  /\ doc.credit # None /\ doc.credit = proc[p].op /\ money[doc.credit] = "moved"
  /\ doc' = [doc EXCEPT !.credit = None]
  /\ Ends(p) \/ Goes(p, "reread")

Deleted(p) ==
  /\ At(p, "delete") /\ Job(p, {"create"}) /\ doc.status = "initializing"
  /\ doc' = NoDoc /\ Ends(p)

Activated(p) ==
  /\ At(p, "finish") /\ Job(p, {"create"}) /\ doc.status = "initializing"
  /\ doc' = [doc EXCEPT !.status = "pending", !.init = FALSE] /\ Ends(p)

MovedOn(p) ==
  /\ doc.status \in Live /\ doc.redebit = None /\ Ends(p)
  /\ \E s \in Live : doc' = [doc EXCEPT !.status = s]

Redebited(p) ==
  /\ At(p, "finish") /\ proc[p].op \in Redebit /\ doc.redebit = proc[p].op
  /\ doc' = [doc EXCEPT !.redebit = None] /\ Ends(p)

Compensated(p) ==
  /\ At(p, "abort") /\ proc[p].op \in Redebit /\ doc.redebit = proc[p].op
  /\ doc' = [doc EXCEPT !.status = "rejected", !.refunded = TRUE, !.redebit = None]
  /\ Ends(p)

Planned(p) ==
  /\ At(p, "finish") /\ proc[p].op \in FeeOp /\ doc.plan = proc[p].op
  /\ doc' = [doc EXCEPT !.plan = None, !.revert = 0] /\ Ends(p)

Reverted(p) ==
  /\ At(p, "abort") /\ proc[p].op \in FeeOp /\ doc.plan = proc[p].op
  /\ doc' = [doc EXCEPT !.plan = None, !.fee = doc.revert, !.revert = 0] /\ Ends(p)

Failed(p) ==
  /\ At(p, "claim") /\ Job(p, {"healInit"}) /\ doc.status = "initializing"
  /\ doc' = [doc EXCEPT !.status = "failed_init"] /\ Goes(p, "burn")

Released(p) ==
  /\ doc.status = "failed_init" /\ doc' = [doc EXCEPT !.init = FALSE] /\ Ends(p)

\* Or they leave it, and end or go on.
LeftAlone(p) ==
  /\ doc' = doc
  /\ \/ Ends(p)
     \/ proc[p].op \in Refund /\ Goes(p, "reread")
     \/ /\ At(p, "finish") /\ Job(p, {"create"}) /\ doc.status # "initializing"
        /\ Goes(p, "burn")
     \/ /\ \A q \in Process \ {p} : proc'[q] = proc[q]
        /\ proc'[p].at = "claim" /\ proc'[p].job = "staff" /\ proc'[p].op = None
        /\ proc'[p].fee = doc.fee

LEMMA DocWrites ==
  ASSUME Known, NEW p \in Process,
         \/ ClearRefund(p) \/ SettleClear(p) \/ Reread(p)
         \/ CreateDelete(p) \/ CreateActivate(p)
         \/ MoneylessClaim(p) \/ PlainClaim(p) \/ RedebitFinish(p) \/ RedebitAbort(p)
         \/ MarkPaidClaim(p) \/ FeeFinish(p) \/ FeeRevert(p)
         \/ HealInitClaim(p) \/ HealInitDone(p)
  PROVE  /\ UNCHANGED ledgerVars
         /\ \/ LeftAlone(p) \/ PaidOff(p) \/ Deleted(p) \/ Activated(p) \/ MovedOn(p)
            \/ Redebited(p) \/ Compensated(p) \/ Planned(p) \/ Reverted(p)
            \/ Failed(p) \/ Released(p)
<1>1. /\ doc \in Doc /\ Fits(proc[p]) /\ ProgOK /\ Placed /\ RefundFits
      /\ Books /\ Alone
  BY DEF Known, Base, ProgOK, Placed, Settled
<1>2. UNCHANGED ledgerVars
  BY <1>1, DocRunDrops
<1> USE <1>1, Going, WithdrawalsAssumption DEF Calls
<1>3. CASE ClearRefund(p) \/ SettleClear(p)
  <2>1. proc[p].op \in Refund /\ money[proc[p].op] = "moved" /\ proc[p].op # None
    BY <1>3, OpsOfCalls DEF ClearRefund, SettleClear, At, Books, Op
  <2>2. Ends(p) \/ Goes(p, "reread")
    BY <1>3 DEF ClearRefund, SettleClear
  <2>3. doc' = IF doc.credit = proc[p].op THEN [doc EXCEPT !.credit = None] ELSE doc
    BY <1>3 DEF ClearRefund, SettleClear, ClearMarker
  <2> QED
    BY <1>2, <2>1, <2>2, <2>3 DEF PaidOff, LeftAlone
<1>4. CASE Reread(p)
  <2> DEFINE l == [proc[p] EXCEPT !.at = "claim", !.seen = doc.status,
                                  !.fee = doc.fee, !.op = None]
  <2>1. proc' = [proc EXCEPT ![p] = l] /\ doc' = doc
    BY <1>4 DEF Reread
  <2>2. l.job = proc[p].job /\ l.at = "claim" /\ l.op = None /\ l.fee = doc.fee
    BY DEF ProgOK, Local
  <2> HIDE DEF l
  <2>3. proc'[p] = l /\ \A q \in Process \ {p} : proc'[q] = proc[q]
    BY <2>1 DEF ProgOK
  <2>4. proc[p].job = "staff"
    BY <1>4 DEF Reread, Fits, At, Idle, DebitCalls
  <2> QED
    BY <1>2, <2>1, <2>2, <2>3, <2>4 DEF LeftAlone
<1>5. CASE CreateDelete(p)
  <2>1. Job(p, {"create"})
    BY <1>5 DEF CreateDelete, At, Fits, Job, Idle, DebitCalls
  <2> QED
    BY <1>2, <1>5, <2>1 DEF CreateDelete, Deleted, LeftAlone
<1>6. CASE CreateActivate(p)
  BY <1>2, <1>6 DEF CreateActivate, Activated, LeftAlone
<1>7. CASE MoneylessClaim(p)
  <2>1. Ends(p)
    BY <1>7 DEF MoneylessClaim
  <2>2. CASE doc' # doc
    <3>1. /\ \/ Entering(p) /\ doc.status = proc[p].seen /\ doc.refunded
             \/ Leaving(p) /\ doc.status = "rejected" /\ ~doc.refunded
          /\ At(p, "moneyless")
      BY <1>7, <2>2, Zenon DEF MoneylessClaim
    <3>2. proc[p].job = "staff"
      BY <3>1 DEF Fits, At, Idle, DebitCalls
    <3>3. proc[p].seen \in Live \cup {"rejected"}
      BY <3>1, <3>2 DEF RefundFits, StaffFits, At, Job
    <3> QED
      BY <3>1, <3>3 DEF Entering, RefundFits, NotBoth
  <2> QED
    BY <1>2, <2>1, <2>2 DEF LeftAlone
<1>8. CASE PlainClaim(p)
  <2>1. Ends(p)
    BY <1>8 DEF PlainClaim
  <2>2. CASE doc' # doc
    <3>1. /\ doc' = [doc EXCEPT !.status = proc[p].want]
          /\ doc.status = proc[p].seen /\ doc.redebit = None
          /\ StaffClaims(p) /\ ~Entering(p) /\ ~Leaving(p)
      BY <1>8, <2>2, Zenon DEF PlainClaim
    <3>2. proc[p].job = "staff" /\ proc[p].want \in Live \cup {"rejected"}
      BY <3>1 DEF StaffClaims, Fits, At, Job, Idle, DebitCalls
    <3>3. proc[p].seen \in Live \cup {"rejected"}
      BY <3>1, <3>2 DEF StaffClaims, RefundFits, StaffFits, At, Job
    <3>4. proc[p].want # doc.status
      BY <2>2, <3>1 DEF Doc
    <3> QED
      BY <1>2, <2>1, <3>1, <3>2, <3>3, <3>4 DEF Entering, Leaving, MovedOn
  <2> QED
    BY <1>2, <2>1, <2>2 DEF LeftAlone
<1>9. CASE RedebitFinish(p)
  <2>1. proc[p].op \in Redebit
    BY <1>9 DEF RedebitFinish, Fits, At, Job, Idle
  <2> QED
    BY <1>2, <1>9, <2>1 DEF RedebitFinish, Redebited, Alone
<1>10. CASE RedebitAbort(p)
  <2>1. proc[p].op \in Redebit
    BY <1>10 DEF RedebitAbort, Fits, At, Job, Idle
  <2> QED
    BY <1>2, <1>10, <2>1 DEF RedebitAbort, Compensated, Alone
<1>11. CASE MarkPaidClaim(p)
  <2>1. proc[p].seen \in Live
    BY <1>11 DEF MarkPaidClaim, Fits, Job, Idle
  <2> QED
    BY <1>2, <1>11, <2>1 DEF MarkPaidClaim, MovedOn, LeftAlone, Live
<1>12. CASE FeeFinish(p)
  <2>1. proc[p].op \in FeeOp
    BY <1>12 DEF FeeFinish, Fits, At, Job, Idle
  <2> QED
    BY <1>2, <1>12, <2>1 DEF FeeFinish, Planned, Alone
<1>13. CASE FeeRevert(p)
  <2>1. proc[p].op \in FeeOp
    BY <1>13 DEF FeeRevert, Fits, At, Job, Idle
  <2> QED
    BY <1>2, <1>13, <2>1 DEF FeeRevert, Reverted, Alone
<1>14. CASE HealInitClaim(p)
  BY <1>2, <1>14 DEF HealInitClaim, Failed, LeftAlone
<1>15. CASE HealInitDone(p)
  BY <1>2, <1>15 DEF HealInitDone, Released, LeftAlone
<1> QED
  BY <1>3, <1>4, <1>5, <1>6, <1>7, <1>8, <1>9, <1>10, <1>11, <1>12, <1>13, <1>14, <1>15

\* What starts, or ends by itself: nothing but a process changes.
Starting(p, l) ==
  \/ l = Idle
  \/ l.job \in {"cancel", "markPaid"} /\ l.op = None
  \/ l.job = "fee" /\ l.op = None
  \/ l.job = "staff" /\ l.op = doc.credit /\ l.fee = doc.fee
  \/ p = Healer /\ At(Healer, "idle") /\ HealTakes(l)

\* The claims that publish an intention.
Refunded(p) ==
  \E r \in Refund, s \in {"cancelled", "rejected"} :
    /\ Refunds(p, r, s)
    /\ doc.status \in Live /\ doc.plan = None /\ doc.redebit = None
    /\ doc.credit = None /\ doc.fee = proc[p].fee

Reopened(p) ==
  \E d \in Redebit :
    /\ Redebits(p, d)
    /\ doc.status = "rejected" /\ doc.credit = None /\ proc[p].want \in Live
    /\ doc.fee = proc[p].fee

FeeChanged(p) ==
  \E f \in Fees, o \in FeeOp :
    /\ Replans(p, o, f)
    /\ doc.status \in Live /\ doc.plan = None /\ doc.redebit = None
    /\ proc[p].job = "fee"

LedgerMoves(p) ==
  /\ ~Undecided
  /\ \/ Ensure(p) \/ Charge(p) \/ Outcome(p) \/ Refused(p)
     \/ Burn(p) \/ BurnToken(p) \/ GiveBack(p) \/ MarkUndone(p)
     \/ PayRefund(p) \/ SettlePay(p) \/ FeeCredit(p)

DocMoves(p) ==
  \/ LeftAlone(p) \/ PaidOff(p) \/ Deleted(p) \/ Activated(p) \/ MovedOn(p)
  \/ Redebited(p) \/ Compensated(p) \/ Planned(p) \/ Reverted(p)
  \/ Failed(p) \/ Released(p)

LEMMA ClaimSteps ==
  ASSUME Known, Calm, NEW p \in Process,
         CancelClaim(p) \/ EnterRejected(p) \/ LeaveRejected(p) \/ FeeClaim(p)
  PROVE  \/ Refunded(p) \/ Reopened(p) \/ FeeChanged(p)
         \/ /\ UNCHANGED <<doc, ledgerVars>>
            /\ \/ Ends(p)
               \/ Goes(p, "moneyless") /\ proc[p].op = None
<1>1. doc \in Doc /\ Fits(proc[p]) /\ ProgOK /\ RefundFits /\ Underway
  BY DEF Known, Base, ProgOK, Placed, Settled
<1> USE <1>1, Going DEF Calls
<1>2. CASE CancelClaim(p)
  <2>1. CASE Cancelable(p)
    <3>1. PICK r \in Refund : Refunds(p, r, "cancelled")
      BY <1>2, <2>1, RefundStep DEF CancelClaim, Status
    <3> QED
      BY <2>1, <3>1 DEF Refunded, Cancelable, Live
  <2> QED
    BY <1>2, <2>1 DEF CancelClaim, ledgerVars
<1>3. CASE EnterRejected(p)
  <2>1. At(p, "claim") /\ proc[p].job = "staff"
    BY <1>3 DEF EnterRejected, StaffClaims, Job
  <2>2. CASE Rejectable(p)
    <3>1. PICK r \in Refund : Refunds(p, r, "rejected")
      BY <1>3, <2>2, RefundStep DEF EnterRejected, Status
    <3>2. doc.status \in Live
      BY <1>3, <2>1, <2>2 DEF EnterRejected, Entering, Rejectable, RefundFits,
         StaffFits, At, Job
    <3>3. doc.credit = None
      BY <3>2 DEF RefundFits, Live
    <3> QED
      BY <2>2, <3>1, <3>2, <3>3 DEF Refunded, Rejectable
  <2>3. CASE ~Rejectable(p)
    <3>1. proc[p].op = None
      BY <2>1, WithdrawalsAssumption DEF Fits, At, Idle, DebitCalls
    <3> QED
      BY <1>3, <2>3, <3>1 DEF EnterRejected, ledgerVars
  <2> QED
    BY <2>2, <2>3
<1>4. CASE LeaveRejected(p)
  <2>1. At(p, "claim") /\ proc[p].job = "staff" /\ Leaving(p)
    BY <1>4 DEF LeaveRejected, StaffClaims, Job
  <2>2. proc[p].op = None /\ proc[p].want \in Live
    BY <2>1 DEF Fits, At, Idle, DebitCalls, Leaving
  <2>3. ASSUME Leavable(p), NEW d \in Redebit, Redebits(p, d) PROVE Reopened(p)
    <3>1. doc.status = "rejected" /\ doc.redebit = None /\ d # None /\ d \in Op
      BY <2>3, WithdrawalsAssumption DEF Leavable, Underway, Live, Op, Chargeable
    <3>2. doc'.redebit = d /\ worth'[d] = Amount + proc[p].fee
      BY <2>3 DEF Redebits, Named
    <3>3. worth'[d] = Amount + doc.fee
      BY <3>1, <3>2 DEF Calm, OldFee
    <3>4. doc.fee = proc[p].fee
      <4>1. doc.fee \in Nat /\ proc[p].fee \in Nat /\ Amount \in Nat
        BY WithdrawalsAssumption DEF Doc, ProgOK, Local
      <4> QED
        BY <3>2, <3>3, <4>1
    <3> QED
      BY <2>2, <2>3, <3>1, <3>4 DEF Leavable, Reopened
  <2> QED
    BY <1>4, <2>2, <2>3, RedebitStep DEF ledgerVars
<1>5. CASE FeeClaim(p)
  <2>1. proc[p].job = "fee"
    BY <1>5 DEF FeeClaim, Job
  <2>2. ASSUME FeeChangeable(p), NEW f \in Fees, NEW o \in FeeOp, Replans(p, o, f)
        PROVE  FeeChanged(p)
    <3>1. doc'.plan = o /\ doc.plan = None /\ o # None
      BY <2>2, WithdrawalsAssumption DEF Replans, FeeChangeable, Op, Chargeable
    <3>2. doc.status \notin Transient /\ doc.redebit = None
      BY <3>1 DEF Calm, EarlyFee, Reopening, Replanned
    <3>3. doc.status \in Live
      BY <2>2, <3>2 DEF FeeChangeable, Doc, Status, Transient, Live
    <3> QED
      BY <2>1, <2>2, <3>1, <3>2, <3>3 DEF FeeChanged
  <2> QED
    BY <1>5, <2>2, ReplanStep DEF ledgerVars
<1> QED
  BY <1>2, <1>3, <1>4, <1>5

\* Every step is one of these.
LEMMA StepKinds ==
  ASSUME Known, [Act /\ Calm]_progVars
  PROVE  \/ UNCHANGED progVars
         \/ \E p \in Process, l \in Local : Reads(p, l) /\ Starting(p, l)
         \/ \E p \in Process, f \in Fees : Creates(p, f)
         \/ \E p \in Process : LedgerMoves(p)
         \/ \E p \in Process : UNCHANGED ledgerVars /\ DocMoves(p)
         \/ \E p \in Process : Refunded(p) \/ Reopened(p) \/ FeeChanged(p)
         \/ \E p \in Process : /\ UNCHANGED <<doc, ledgerVars>>
                               /\ Goes(p, "moneyless") /\ proc[p].op = None
<1>1. ProgOK
  BY DEF Known, Base
<1>2. ASSUME NEW p \in Process, Ends(p), UNCHANGED <<doc, ledgerVars>>
      PROVE  \E l \in Local : Reads(p, l) /\ Starting(p, l)
  <2>1. proc' \in [Process -> Local]
    BY <1>1, ShapeStep DEF Known, Base, ProgOK
  <2> QED
    BY <1>2, <2>1, IdleLocal DEF Ends, Reads, Starting
<1>3. ASSUME NEW p \in Request, Ask(p)
      PROVE  \/ \E l \in Local : Reads(p, l) /\ Starting(p, l)
             \/ \E f \in Fees : Creates(p, f)
  <2>1. p \in Process
    BY DEF Process
  <2>2. CASE CreateInsert(p)
    BY <1>1, <2>1, <2>2, CreateStep
  <2>3. CASE CancelRead(p)
    BY <1>1, <2>1, <2>3, CancelReads DEF Starting
  <2>4. CASE StaffRead(p)
    BY <1>1, <2>1, <2>4, StaffReads DEF Starting
  <2>5. CASE Delivered /\ MarkPaidRead(p)
    BY <1>1, <2>1, <2>5, MarkPaidReads DEF Starting
  <2>6. CASE FeeRead(p)
    BY <1>1, <2>1, <2>6, FeeReads DEF Starting
  <2> QED
    BY <1>3, <2>2, <2>3, <2>4, <2>5, <2>6 DEF Ask
<1>4. CASE Heal
  <2>1. PICK l \in Local : Reads(Healer, l) /\ HealTakes(l)
    BY <1>1, <1>4, HealStep
  <2>2. At(Healer, "idle")
    BY <1>4 DEF Heal, HealCredit, HealInit, HealRedebit, HealFee
  <2>3. Starting(Healer, l) /\ Healer \in Process
    BY <2>1, <2>2 DEF Starting, Process
  <2> QED
    BY <2>1, <2>3
<1>5. ASSUME NEW p \in Process, Die(p) PROVE Ends(p) /\ UNCHANGED <<doc, ledgerVars>>
  BY <1>1, <1>5, Going DEF Die
<1>6. ASSUME NEW p \in Process, Run(p), Calm
      PROVE  \/ \E l \in Local : Reads(p, l) /\ Starting(p, l)
             \/ LedgerMoves(p)
             \/ UNCHANGED ledgerVars /\ DocMoves(p)
             \/ Refunded(p) \/ Reopened(p) \/ FeeChanged(p)
             \/ /\ UNCHANGED <<doc, ledgerVars>>
                /\ Goes(p, "moneyless") /\ proc[p].op = None
  <2>1. CASE CancelClaim(p) \/ EnterRejected(p) \/ LeaveRejected(p) \/ FeeClaim(p)
    BY <1>2, <1>6, <2>1, ClaimSteps
  <2>2. CASE LedgerMoves(p)
    BY <2>2
  <2>3. CASE ~(CancelClaim(p) \/ EnterRejected(p) \/ LeaveRejected(p) \/ FeeClaim(p)
               \/ LedgerMoves(p))
    BY <1>6, <2>3, DocWrites DEF Run, LedgerMoves, DocMoves, Calm
  <2> QED
    BY <2>1, <2>2, <2>3
<1> QED
  BY <1>2, <1>3, <1>4, <1>5, <1>6 DEF Act, Process

\* The calls on balances.py leave the document, the names and the prices, and
\* at most move p to another of its calls.
LEMMA LedgerGoes ==
  ASSUME Known, NEW p \in Process, LedgerMoves(p)
  PROVE  /\ doc' = doc /\ named' = named /\ worth' = worth
         /\ Touches(p) /\ proc[p] # Idle
         /\ Ends(p) \/ \E call \in Calls \ {"claim"} : Goes(p, call)
<1>1. ProgOK
  BY DEF Known, Base
<1> USE Going DEF Calls
<1>2. Touches(p) /\ doc' = doc /\ named' = named /\ worth' = worth
  BY <1>1, LedgerTouches DEF LedgerMoves
<1>3. CASE Ensure(p) \/ Charge(p) \/ Outcome(p) \/ Refused(p)
  BY <1>1, <1>2, <1>3 DEF Ensure, Charge, Outcome, Refused, At, Idle
<1>4. CASE Burn(p) \/ BurnToken(p) \/ GiveBack(p) \/ MarkUndone(p)
  BY <1>1, <1>2, <1>4 DEF Burn, BurnToken, GiveBack, MarkUndone, AfterBurn, At, Idle
<1>5. CASE PayRefund(p) \/ SettlePay(p) \/ FeeCredit(p)
  BY <1>1, <1>2, <1>5 DEF PayRefund, SettlePay, FeeCredit, Pay, At, Idle
<1> QED
  BY <1>3, <1>4, <1>5 DEF LedgerMoves

LEMMA UnderwayStep ==
  ASSUME Known, [Act /\ Calm]_progVars
  PROVE  Underway'
<1>1. Underway /\ doc \in Doc /\ RefundFits /\ DocFits
  BY DEF Known, Settled, Base, ProgOK
<1>2. ASSUME doc' = doc PROVE Underway'
  BY <1>1, <1>2 DEF Underway
<1>3. CASE UNCHANGED progVars
  BY <1>2, <1>3 DEF progVars
<1>4. ASSUME NEW p \in Process, NEW l \in Local, Reads(p, l) PROVE Underway'
  BY <1>2, <1>4 DEF Reads
<1>5. ASSUME NEW p \in Process, NEW f \in Fees, Creates(p, f) PROVE Underway'
  <2>1. doc.status = "absent"
    BY <1>1, <1>5 DEF Creates, DocFits
  <2> QED
    BY <1>1, <1>5, <2>1 DEF Creates, Underway, Live
<1>6. ASSUME NEW p \in Process, LedgerMoves(p) PROVE Underway'
  BY <1>2, <1>6, LedgerGoes
<1>7. ASSUME NEW p \in Process, DocMoves(p) PROVE Underway'
  <2>1. CASE LeftAlone(p)
    BY <1>2, <2>1 DEF LeftAlone
  <2>2. CASE PaidOff(p) \/ Redebited(p) \/ Planned(p) \/ Reverted(p) \/ Released(p)
    BY <1>1, <2>2 DEF PaidOff, Redebited, Planned, Reverted, Released, Underway, Doc
  <2>3. CASE Deleted(p)
    BY <2>3 DEF Deleted, NoDoc, Underway
  <2>4. CASE Activated(p)
    BY <1>1, <2>4 DEF Activated, Underway, Doc, Live
  <2>5. CASE MovedOn(p)
    BY <1>1, <2>5 DEF MovedOn, Underway, Doc
  <2>6. CASE Compensated(p)
    <3>1. doc.redebit # None
      BY <2>6, WithdrawalsAssumption DEF Compensated, Op, Chargeable
    <3> QED
      BY <1>1, <2>6, <3>1 DEF Compensated, Underway, Doc
  <2>7. CASE Failed(p)
    BY <1>1, <2>7 DEF Failed, Underway, Doc, Live
  <2> QED
    BY <1>7, <2>1, <2>2, <2>3, <2>4, <2>5, <2>6, <2>7 DEF DocMoves
<1>8. ASSUME NEW p \in Process, Refunded(p) PROVE Underway'
  BY <1>8 DEF Refunded, Refunds, Underway
<1>9. ASSUME NEW p \in Process, Reopened(p) PROVE Underway'
  BY <1>1, <1>9 DEF Reopened, Redebits, Underway, Live
<1>10. ASSUME NEW p \in Process, FeeChanged(p) PROVE Underway'
  BY <1>1, <1>10 DEF FeeChanged, Replans, Underway
<1> QED
  BY <1>2, <1>3, <1>4, <1>5, <1>6, <1>7, <1>8, <1>9, <1>10, StepKinds

LEMMA AloneStep ==
  ASSUME Known, [Act /\ Calm]_progVars
  PROVE  Alone'
<1> USE WithdrawalsAssumption DEF Debit, Op, Chargeable
<1>1. Alone /\ Underway /\ doc \in Doc /\ RefundFits /\ DocFits /\ Fresh
  BY DEF Known, Settled, Base, ProgOK
<1>2. ASSUME NEW p \in Process, \A q \in Process \ {p} : proc'[q] = proc[q],
             proc'[p].op \in {proc[p].op, None} \cup Refund \cup {Creation},
             doc'.redebit = doc.redebit, doc'.plan = doc.plan
      PROVE  Alone'
  BY <1>1, <1>2 DEF Alone
<1>3. CASE UNCHANGED progVars
  BY <1>1, <1>3 DEF progVars, Alone
<1>4. ASSUME NEW p \in Process, NEW l \in Local, Reads(p, l), Starting(p, l),
             ~Overtaken
      PROVE  Alone'
  <2>1. CASE l.op \in {None} \cup Refund \cup {Creation}
    BY <1>2, <1>4, <2>1 DEF Reads
  <2>2. CASE l.op \notin {None} \cup Refund \cup {Creation}
    <3>1. l.op # doc.credit
      BY <1>1, <2>2 DEF Doc
    <3>2. p = Healer /\ At(Healer, "idle") /\ HealTakes(l)
      BY <1>4, <2>2, <3>1 DEF Starting, Idle
    <3>3. \/ l.op = doc.redebit /\ doc.redebit \in Redebit
          \/ l.op = doc.plan /\ doc.plan \in FeeOp
      BY <1>1, <2>2, <3>1, <3>2 DEF HealTakes, Doc
    <3>4. \A r \in Request : proc[r].op # l.op
      BY <1>4, <3>2, <3>3 DEF Overtaken, Reads
    <3>5. \A q \in Process \ {p} : proc'[q].op # l.op
      BY <1>4, <3>2, <3>4 DEF Reads, Process
    <3>6. proc'[p] = l /\ (\A q \in Process \ {p} : proc'[q] = proc[q]) /\ doc' = doc
      BY <1>4 DEF Reads
    <3> QED
      BY <1>1, <3>3, <3>5, <3>6 DEF Alone
  <2> QED
    BY <2>1, <2>2
<1>5. ASSUME NEW p \in Process, NEW f \in Fees, Creates(p, f) PROVE Alone'
  BY <1>2, <1>5 DEF Creates
<1>6. ASSUME NEW p \in Process, LedgerMoves(p) PROVE Alone'
  <2>1. doc' = doc /\ (Ends(p) \/ \E call \in Calls : Goes(p, call))
    BY <1>6, LedgerGoes
  <2> QED
    BY <1>2, <2>1 DEF Ends, Goes, Idle
<1>7. ASSUME NEW p \in Process, DocMoves(p) PROVE Alone'
  <2>1. /\ \A q \in Process \ {p} : proc'[q] = proc[q]
        /\ proc'[p].op \in {proc[p].op, None}
    BY <1>7 DEF DocMoves, LeftAlone, PaidOff, Deleted, Activated, MovedOn,
       Redebited, Compensated, Planned, Reverted, Failed, Released,
       Ends, Goes, Idle
  <2>2. CASE LeftAlone(p)
    BY <1>2, <2>1, <2>2 DEF LeftAlone
  <2>3. CASE PaidOff(p) \/ Activated(p) \/ MovedOn(p) \/ Failed(p) \/ Released(p)
    BY <1>1, <1>2, <2>1, <2>3 DEF PaidOff, Activated, MovedOn, Failed, Released, Doc
  <2>4. CASE Deleted(p)
    <3>1. doc.redebit = None /\ doc.plan = None
      BY <1>1, <2>4 DEF Deleted, Underway, Live
    <3> QED
      BY <1>2, <2>1, <2>4, <3>1 DEF Deleted, NoDoc
  <2>5. CASE Redebited(p) \/ Compensated(p)
    <3>1. /\ proc'[p].op = None /\ doc'.redebit = None /\ doc'.plan = doc.plan
          /\ doc.redebit = proc[p].op /\ proc[p].op \in Redebit
      <4>1. CASE Redebited(p)
        BY <1>1, <4>1 DEF Redebited, Doc, Ends, Idle
      <4>2. CASE Compensated(p)
        BY <1>1, <4>2 DEF Compensated, Doc, Ends, Idle
      <4> QED
        BY <2>5, <4>1, <4>2
    <3>2. \A q \in Process \ {p} : proc[q].op \notin Redebit
      BY <1>1, <3>1 DEF Alone
    <3> QED
      BY <1>1, <2>1, <3>1, <3>2 DEF Alone
  <2>6. CASE Planned(p) \/ Reverted(p)
    <3>1. /\ proc'[p].op = None /\ doc'.plan = None /\ doc'.redebit = doc.redebit
          /\ doc.plan = proc[p].op /\ proc[p].op \in FeeOp
      <4>1. CASE Planned(p)
        BY <1>1, <4>1 DEF Planned, Doc, Ends, Idle
      <4>2. CASE Reverted(p)
        BY <1>1, <4>2 DEF Reverted, Doc, Ends, Idle
      <4> QED
        BY <2>6, <4>1, <4>2
    <3>2. \A q \in Process \ {p} : proc[q].op \notin FeeOp
      BY <1>1, <3>1 DEF Alone
    <3> QED
      BY <1>1, <2>1, <3>1, <3>2 DEF Alone
  <2> QED
    BY <1>7, <2>2, <2>3, <2>4, <2>5, <2>6 DEF DocMoves
<1>8. ASSUME NEW p \in Process, Refunded(p) PROVE Alone'
  BY <1>2, <1>8 DEF Refunded, Refunds, Named
<1>9. ASSUME NEW p \in Process, Reopened(p) PROVE Alone'
  <2>1. PICK d \in Redebit : Redebits(p, d) /\ doc.status = "rejected"
    BY <1>9 DEF Reopened
  <2>2. doc.redebit = None
    BY <1>1, <2>1 DEF Underway, Live
  <2>3. \A q \in Process : proc[q].op \notin Redebit
    BY <1>1, <2>2 DEF Alone
  <2> QED
    BY <1>1, <2>1, <2>3 DEF Redebits, Named, Alone
<1>10. ASSUME NEW p \in Process, FeeChanged(p) PROVE Alone'
  <2>1. PICK o \in FeeOp, f \in Fees : Replans(p, o, f) /\ doc.plan = None
    BY <1>10 DEF FeeChanged
  <2>2. \A q \in Process : proc[q].op \notin FeeOp
    BY <1>1, <2>1 DEF Alone
  <2> QED
    BY <1>1, <2>1, <2>2 DEF Replans, Named, Alone
<1>11. ASSUME NEW p \in Process, doc' = doc, Goes(p, "moneyless") PROVE Alone'
  BY <1>2, <1>11 DEF Goes
<1> QED
  BY <1>3, <1>4, <1>5, <1>6, <1>7, <1>8, <1>9, <1>10, <1>11, StepKinds
     DEF Calm

\* The one process that carries out a re-debit or a plan.
LEMMA DebitMoves ==
  ASSUME Known, NEW p \in Process, LedgerMoves(p), NEW o \in Debit, o = proc[p].op
  PROVE  Told(o)' /\ (proc'[p].op \in Debit => TellsDebit(p)')
<1>1. /\ ProgOK /\ Fits(proc[p]) /\ Told(o) /\ TellsDebit(p) /\ Placed
      /\ o \in Chargeable /\ o \in Op /\ o # Creation /\ o \notin Refund
      /\ worth' = worth /\ doc' = doc
  BY LedgerGoes, WithdrawalsAssumption DEF Known, Base, Placed, Settled, Debits, Debit,
     Op, Chargeable
<1>2. ~Job(p, {"create", "healInit"}) /\ worth[o] \in Int
  BY <1>1 DEF Fits, Job, Idle, ProgOK
<1>3. log[o] \in {"open", "applied", "burned", "undone"}
  BY <1>1 DEF ProgOK
<1>10. money[o] \in {"none", "moved", "back"}
  BY <1>1 DEF ProgOK
<1> USE <1>1, <1>2, <1>3, <1>10, Going DEF Calls
<1>4. ASSUME UNCHANGED <<log, money, sealed>> PROVE Told(o)'
  BY <1>4 DEF Told
<1>5. ASSUME NEW call \in Calls, Goes(p, call),
             call \in DebitCalls \ {"finish"} => worth[o] > 0,
             call # "pay", call \notin {"giveBack", "mark"},
             call = "charge" => log'[o] = "open",
             call = "outcome" => log'[o] # "open",
             call \in {"refused", "burn", "abort"} => money'[o] = "none",
             call = "token" => log'[o] = "burned",
             call = "finish" => money'[o] = "moved"
      PROVE  TellsDebit(p)'
  <2>1. proc'[p].at = call /\ proc'[p].op = o
    BY <1>5 DEF Goes
  <2> QED
    BY <1>5, <2>1 DEF TellsDebit, At
<1>6. CASE Ensure(p) \/ Charge(p) \/ Outcome(p) \/ Refused(p)
  <2>1. worth[o] > 0
    BY <1>6 DEF Ensure, Charge, Outcome, Refused, At, TellsDebit, DebitCalls
  <2>2. CASE Ensure(p)
    BY <1>4, <1>5, <2>1, <2>2 DEF Ensure, ledgerVars
  <2>3. CASE Charge(p)
    <3>1. log[o] = "open" /\ money[o] = "none" /\ o \notin sealed
      BY <2>1, <2>3 DEF Charge, TellsDebit, Told, At
    <3>2. CASE Goto(p, "finish") /\ money' = [money EXCEPT ![o] = "moved"]
      <4>1. money'[o] = "moved" /\ log'[o] = "applied" /\ sealed' = sealed
        BY <2>3, <3>1, <3>2 DEF Charge, ProgOK
      <4>2. Goes(p, "finish")
        BY <3>2
      <4> QED
        BY <1>5, <2>1, <3>1, <4>1, <4>2 DEF Told
    <3>3. CASE Goto(p, "refused") /\ UNCHANGED <<money, log, sealed>>
      BY <1>4, <1>5, <2>1, <3>1, <3>3
    <3> QED
      BY <2>3, <3>1, <3>2, <3>3 DEF Charge, Move
  <2>4. CASE Outcome(p)
    <3>1. log[o] # "open"
      BY <2>4 DEF Outcome, TellsDebit, At
    <3>2. UNCHANGED <<log, money, sealed>>
      BY <2>4 DEF Outcome, ledgerVars
    <3>3. CASE log[o] = "applied"
      BY <1>4, <1>5, <2>4, <3>2, <3>3 DEF Outcome, Told
    <3>4. CASE log[o] = "burned"
      BY <1>4, <1>5, <2>1, <2>4, <3>2, <3>4 DEF Outcome, Told, Job
    <3> QED
      BY <3>1, <3>3, <3>4 DEF Told
  <2>5. CASE Refused(p)
    <3>1. money[o] = "none"
      BY <2>5 DEF Refused, TellsDebit, At
    <3> QED
      BY <1>4, <1>5, <2>1, <2>5, <3>1 DEF Refused, ledgerVars, Job
  <2> QED
    BY <1>6, <2>2, <2>3, <2>4, <2>5
<1>7. CASE Burn(p)
  <2>1. worth[o] > 0 /\ money[o] = "none"
    BY <1>7 DEF Burn, At, TellsDebit, DebitCalls
  <2>2. log[o] \in {"open", "burned"}
    BY <2>1 DEF Told
  <2>3. ~AfterBurn(p)
    <3>1. SUFFICES ASSUME AfterBurn(p) PROVE FALSE
      OBVIOUS
    <3>2. Goes(p, "abort")
      BY <3>1 DEF AfterBurn, Job
    <3> QED
      BY <1>7, <2>2, <3>2 DEF Goes, Burn, At, LedgerMoves, Undecided
  <2>4. log'[o] = "burned" /\ money' = money /\ sealed' = sealed /\ Goes(p, "token")
    BY <1>7, <2>2, <2>3 DEF Burn, ProgOK
  <2> QED
    BY <1>5, <2>1, <2>4 DEF Told
<1>8. CASE BurnToken(p)
  <2>1. worth[o] > 0 /\ log[o] = "burned" /\ money[o] = "none"
    BY <1>8 DEF BurnToken, At, TellsDebit, DebitCalls, Told
  <2>2. log' = log /\ money' = money /\ sealed' = sealed \cup {o} /\ Goes(p, "abort")
    BY <1>8, <2>1 DEF BurnToken, AfterBurn, Job
  <2> QED
    BY <1>5, <2>1, <2>2 DEF Told
<1>9. CASE GiveBack(p) \/ MarkUndone(p)
  BY <1>9 DEF GiveBack, MarkUndone, TellsDebit, At
<1>11. CASE FeeCredit(p)
  <2>1. worth[o] < 0 /\ log[o] = "open" /\ o \notin sealed
    BY <1>11 DEF FeeCredit, TellsDebit, Told, At
  <2>2. log' = log /\ sealed' = sealed /\ Goes(p, "finish")
    BY <1>11 DEF FeeCredit, Pay
  <2>3. money'[o] = "moved"
    BY <1>11 DEF FeeCredit, Pay, Move, Told, ProgOK
  <2> QED
    BY <1>5, <2>1, <2>2, <2>3 DEF Told
<1>12. CASE PayRefund(p) \/ SettlePay(p)
  BY <1>12, OpsOfCalls DEF PayRefund, SettlePay, At, Job
<1> QED
  BY <1>6, <1>7, <1>8, <1>9, <1>11, <1>12 DEF LedgerMoves

LEMMA DebitsStep ==
  ASSUME Known, [Act /\ Calm]_progVars
  PROVE  Debits'
<1> USE WithdrawalsAssumption
<1>1. /\ ProgOK /\ Debits /\ Alone /\ Underway /\ Fresh /\ Priced /\ Placed
      /\ \A o \in Debit : o \in Chargeable /\ o \in Op /\ o # None
  BY DEF Known, Settled, Base, Debit, Op, Chargeable
<1>2. ASSUME NEW p \in Process, UNCHANGED ledgerVars,
             \A q \in Process \ {p} : proc'[q] = proc[q],
             proc'[p].op \in Debit => TellsDebit(p)'
      PROVE  Debits'
  <2>1. \A o \in Debit : Told(o)'
    BY <1>1, <1>2 DEF Debits, Told, ledgerVars
  <2>2. \A q \in Process : proc'[q].op \in Debit => TellsDebit(q)'
    BY <1>1, <1>2 DEF Debits, TellsDebit, At, ledgerVars
  <2> QED
    BY <2>1, <2>2 DEF Debits
<1>3. CASE UNCHANGED progVars
  BY <1>1, <1>3 DEF progVars, Debits, Told, TellsDebit, At, ledgerVars
<1>4. ASSUME NEW p \in Process, NEW l \in Local, Reads(p, l), Starting(p, l)
      PROVE  Debits'
  <2>1. UNCHANGED ledgerVars /\ proc'[p] = l /\ \A q \in Process \ {p} : proc'[q] = proc[q]
    BY <1>4 DEF Reads
  <2>2. ASSUME l.op \in Debit PROVE TellsDebit(p)'
    <3>1. l.op # doc.credit /\ l.op # Creation
      BY <1>1, <2>2, DocTypes DEF Debit, Op, Chargeable
    <3>2. HealTakes(l)
      BY <1>1, <1>4, <2>2, <3>1 DEF Starting, Idle
    <3>3. CASE l.job = "healRedebit" /\ l.at = "ensure" /\ l.op = doc.redebit
      <4>1. worth[l.op] = Amount + doc.fee /\ l.op # None
        BY <1>1, <2>2, <3>3 DEF Priced
      <4>2. doc.fee \in Nat
        BY <1>1, DocTypes
      <4>3. worth[l.op] > 0
        BY <4>1, <4>2
      <4> QED
        BY <2>1, <3>3, <4>3 DEF TellsDebit, At, ledgerVars, DebitCalls
    <3>4. CASE l.job = "healFee" /\ l.at = SettleAt(worth[doc.plan]) /\ l.op = doc.plan
      <4>1. worth[l.op] \in Int
        BY <1>1, <2>2 DEF ProgOK
      <4> QED
        BY <2>1, <3>4, <4>1 DEF TellsDebit, At, ledgerVars, DebitCalls, SettleAt
    <3> QED
      BY <3>1, <3>2, <3>3, <3>4 DEF HealTakes
  <2> QED
    BY <1>2, <2>1, <2>2
<1>5. ASSUME NEW p \in Process, NEW o \in Op, NEW c \in Int,
             o \notin named, worth'[o] = c, \A x \in Op \ {o} : worth'[x] = worth[x],
             UNCHANGED <<log, sealed, money>>, proc'[p].op = o,
             \A q \in Process \ {p} : proc'[q] = proc[q],
             o \in Debit => TellsDebit(p)'
      PROVE  Debits'
  <2>1. ASSUME NEW x \in Debit PROVE Told(x)'
    <3>1. CASE x = o
      <4>1. log[x] = "open" /\ x \notin sealed /\ money[x] = "none"
        BY <1>1, <1>5, <3>1 DEF Fresh
      <4> QED
        BY <1>5, <4>1 DEF Told
    <3>2. CASE x # o
      BY <1>1, <1>5, <3>2 DEF Debits, Told
    <3> QED
      BY <3>1, <3>2
  <2>2. ASSUME NEW q \in Process, proc'[q].op \in Debit PROVE TellsDebit(q)'
    <3>1. CASE q = p
      BY <1>5, <2>2, <3>1
    <3>2. CASE q # p
      <4>1. proc'[q] = proc[q] /\ proc[q].op \in named
        BY <1>1, <1>5, <2>2, <3>2 DEF Fresh
      <4>2. worth'[proc[q].op] = worth[proc[q].op]
        BY <1>1, <1>5, <2>2, <4>1
      <4> QED
        BY <1>1, <1>5, <2>2, <4>1, <4>2 DEF Debits, TellsDebit, At
    <3> QED
      BY <3>1, <3>2
  <2> QED
    BY <2>1, <2>2 DEF Debits
<1>6. ASSUME NEW p \in Process, NEW f \in Fees, Creates(p, f) PROVE Debits'
  <2>1. Creation \in Op /\ Creation \notin Debit /\ Amount + f \in Int
    BY DEF Debit, Op, Chargeable
  <2> QED
    BY <1>5, <1>6, <2>1 DEF Creates
<1>7. ASSUME NEW p \in Process, LedgerMoves(p) PROVE Debits'
  <2>1. /\ doc' = doc /\ named' = named /\ worth' = worth
        /\ Touches(p) /\ proc[p] # Idle
        /\ Ends(p) \/ \E call \in Calls : Goes(p, call)
    BY <1>7, LedgerGoes
  <2>2. /\ \A q \in Process \ {p} : proc'[q] = proc[q]
        /\ proc'[p].op \in {proc[p].op, None}
    BY <2>1 DEF Ends, Goes, Idle
  <2>3. ASSUME NEW x \in Debit, x # proc[p].op
        PROVE  /\ log'[x] = log[x] /\ money'[x] = money[x]
               /\ x \in sealed' <=> x \in sealed
    BY <1>1, <2>1, <2>3 DEF Touches
  <2>4. ASSUME NEW x \in Debit PROVE Told(x)'
    <3>1. CASE x = proc[p].op
      BY <1>7, <3>1, DebitMoves
    <3>2. CASE x # proc[p].op
      <4>1. Told(x)
        BY <1>1 DEF Debits
      <4> QED
        BY <2>1, <2>3, <3>2, <4>1 DEF Told
    <3> QED
      BY <3>1, <3>2
  <2>5. ASSUME NEW q \in Process, proc'[q].op \in Debit PROVE TellsDebit(q)'
    <3>1. CASE q = p
      <4>1. proc[p].op \in Debit
        BY <1>1, <2>2, <2>5, <3>1
      <4> QED
        BY <1>7, <2>5, <3>1, <4>1, DebitMoves
    <3>2. CASE q # p
      <4>1. proc'[q] = proc[q] /\ proc[q].op # proc[p].op /\ TellsDebit(q)
        BY <1>1, <2>2, <2>5, <3>2 DEF Alone, Debits
      <4>2. /\ log'[proc[q].op] = log[proc[q].op]
            /\ money'[proc[q].op] = money[proc[q].op]
        BY <2>3, <2>5, <4>1
      <4> QED
        BY <2>1, <4>1, <4>2 DEF TellsDebit, At
    <3> QED
      BY <3>1, <3>2
  <2> QED
    BY <2>4, <2>5 DEF Debits
<1>8. ASSUME NEW p \in Process, UNCHANGED ledgerVars, DocMoves(p) PROVE Debits'
  <2>1. /\ \A q \in Process \ {p} : proc'[q] = proc[q]
        /\ proc'[p].op \notin Debit
    <3>1. CASE Ends(p)
      BY <1>1, <3>1 DEF Ends, Idle
    <3>2. CASE Goes(p, "burn") /\ Job(p, {"create", "healInit"})
      <4>1. proc[p].op = Creation
        BY <1>1, <3>2 DEF Placed, Fits, Job, Idle
      <4> QED
        BY <3>2, <4>1 DEF Goes, Debit
    <3>3. CASE Goes(p, "reread") /\ proc[p].op \in Refund
      BY <3>3 DEF Goes, Debit
    <3>4. CASE proc'[p].op = None /\ \A q \in Process \ {p} : proc'[q] = proc[q]
      BY <1>1, <3>4
    <3>5. CASE PaidOff(p) /\ Goes(p, "reread")
      <4>1. proc[p].op \in Refund
        BY <1>1, <3>5, DocTypes DEF PaidOff
      <4> QED
        BY <3>3, <3>5, <4>1
    <3> QED
      BY <1>8, <3>1, <3>2, <3>3, <3>4, <3>5
         DEF DocMoves, LeftAlone, PaidOff, Deleted, Activated, MovedOn, Redebited,
         Compensated, Planned, Reverted, Failed, Released, Job
  <2> QED
    BY <1>2, <1>8, <2>1
<1>9. ASSUME NEW p \in Process, Refunded(p) PROVE Debits'
  <2>1. PICK r \in Refund : Named(p, r, -(Amount + proc[p].fee))
    BY <1>9 DEF Refunded, Refunds
  <2>2. r \in Op /\ r \notin Debit /\ -(Amount + proc[p].fee) \in Int
    BY <1>1, Amounts DEF Op, Debit
  <2> QED
    BY <1>5, <2>1, <2>2 DEF Named
<1>10. ASSUME NEW p \in Process, Reopened(p) PROVE Debits'
  <2>1. PICK d \in Redebit : Redebits(p, d)
    BY <1>10 DEF Reopened
  <2>2. d \in Op /\ Amount + proc[p].fee \in Int /\ Amount + proc[p].fee > 0
    BY <1>1, Amounts DEF Op, Chargeable
  <2>3. TellsDebit(p)'
    BY <2>1, <2>2 DEF Redebits, Named, TellsDebit, At
  <2> QED
    BY <1>5, <2>1, <2>2, <2>3 DEF Redebits, Named
<1>11. ASSUME NEW p \in Process, FeeChanged(p) PROVE Debits'
  <2>1. PICK f \in Fees, o \in FeeOp : Replans(p, o, f)
    BY <1>11 DEF FeeChanged
  <2>2. o \in Op /\ f - doc.fee \in Int
    BY <1>1, Amounts DEF Op, Chargeable
  <2>3. TellsDebit(p)'
    <3>1. proc'[p].at = SettleAt(f - doc.fee) /\ proc'[p].op = o /\ worth'[o] = f - doc.fee
      BY <2>1 DEF Replans, Named
    <3> HIDE <2>1
    <3> QED
      BY <2>2, <3>1 DEF TellsDebit, At, SettleAt, DebitCalls
  <2> QED
    BY <1>5, <2>1, <2>2, <2>3 DEF Replans, Named
<1>12. ASSUME NEW p \in Process, UNCHANGED ledgerVars, Goes(p, "moneyless"),
              proc[p].op = None
       PROVE  Debits'
  BY <1>1, <1>2, <1>12 DEF Goes
<1> QED
  BY <1>3, <1>4, <1>6, <1>7, <1>8, <1>9, <1>10, <1>11, <1>12, StepKinds

\* The jobs of the creation hold its op_id, and no other does.
LEMMA Creators ==
  ASSUME Known, NEW p \in Process
  PROVE  Job(p, {"create", "healInit"})
           => proc[p].op = Creation /\ proc[p].op \in named
<1>1. Fits(proc[p]) /\ Fresh
  BY DEF Known, Base, Placed
<1> QED
  BY <1>1, WithdrawalsAssumption DEF Fits, Job, Idle, Fresh, Op, Chargeable

LEMMA CreatorsNext ==
  ASSUME Known, [Act /\ Calm]_progVars, NEW p \in Process
  PROVE  Job(p, {"create", "healInit"})' => proc'[p].op = Creation
<1>1. Fits(proc'[p])
  BY ShapeStep DEF Known, Base, Placed
<1> QED
  BY <1>1 DEF Fits, Job, Idle

\* The creation's debit, while an attempt lasts.
LEMMA AttemptMoves ==
  ASSUME Known, [Act /\ Calm]_progVars, NEW p \in Process, LedgerMoves(p), proc[p].op = Creation
  PROVE  Attempt'
<1> USE Going, WithdrawalsAssumption DEF Calls
<1> DEFINE C == Creation
<1>1. /\ ProgOK /\ Fits(proc[p]) /\ Placed /\ Attempt /\ Books
      /\ C \in Chargeable /\ C \in Op /\ C \notin Refund /\ C \notin FeeOp
      /\ proc[p].op \in Chargeable
      /\ worth' = worth /\ doc' = doc
  BY LedgerGoes DEF Known, Base, Placed, Settled, Op, Chargeable
<1>2. /\ \A q \in Process \ {p} : proc'[q] = proc[q]
      /\ proc'[p].job \in {proc[p].job, "none"}
      /\ Job(p, {"create", "healInit"})' => proc'[p].cost = proc[p].cost
  BY LedgerGoes DEF Ends, Goes, Idle, Job
<1>3. /\ money[C] \in {"none", "moved", "back"}
      /\ log[C] \in {"open", "applied", "burned", "undone"}
      /\ log[C] = "applied" => money[C] # "none"
  BY <1>1 DEF ProgOK, Books
<1>4. Job(p, {"create", "healInit"})
  <2>1. proc[p] # Idle
    BY LedgerGoes
  <2> QED
    BY <1>1, <2>1 DEF Fits, Job, Op, Chargeable
<1>5. ASSUME Job(p, {"create"})' => TellsCreator(p)',
             doc.status = "initializing" => /\ log'[C] \in {"open", "applied"}
                                            /\ C \notin sealed' /\ money'[C] # "back",
             money'[C] = money[C] \/ money[C] # "none" \/ Job(p, {"create"}),
             money[C] = "moved" => money'[C] = "moved" \/ doc.status = "failed_init"
      PROVE  Attempt'
  <2>1. \A q, r \in Process : Job(q, {"create"})' /\ Job(r, {"create"})' => q = r
    BY <1>1, <1>2 DEF Attempt, Job
  <2>2. ASSUME NEW q \in Process, Job(q, {"create"})' PROVE TellsCreator(q)'
    <3>1. CASE q # p
      <4>1. proc'[q] = proc[q] /\ TellsCreator(q) /\ ~Job(p, {"create"})
        BY <1>1, <1>2, <2>2, <3>1 DEF Attempt, Job
      <4> QED
        BY <1>1, <1>3, <1>5, <4>1 DEF TellsCreator
    <3> QED
      BY <1>5, <2>2, <3>1
  <2>3. \A q \in Process : (Job(q, {"healInit"}) /\ ~At(q, "claim"))'
                             => doc'.status = "failed_init"
    <3>1. ~At(p, "claim")
      BY <1>1 DEF LedgerMoves, Ensure, Charge, Outcome, Refused, Burn, BurnToken,
         GiveBack, MarkUndone, PayRefund, SettlePay, FeeCredit, At
    <3> QED
      BY <1>1, <1>2, <3>1 DEF Attempt, Job, At
  <2>4. \A q \in Process : Job(q, {"create", "healInit"})' => proc'[q].cost = worth'[C]
    BY <1>1, <1>2, <1>4 DEF Attempt, Job
  <2> QED
    BY <1>1, <1>5, <2>1, <2>2, <2>3, <2>4 DEF Attempt
<1>7. CASE Ensure(p) \/ Charge(p) \/ Outcome(p) \/ Refused(p)
  <2>1. Job(p, {"create"}) /\ TellsCreator(p) /\ doc.status \in Transient
    BY <1>1, <1>7 DEF Ensure, Charge, Outcome, Refused, At, Fits, Job, Idle, Op,
       Chargeable, Attempt, TellsCreator
  <2>2. ASSUME NEW call \in Calls, Goes(p, call),
               call \in {"ensure", "charge", "refused", "delete"} => money'[C] = "none",
               call \in {"outcome", "finish"} /\ doc.status = "initializing"
                 => money'[C] = "moved",
               call \notin {"burn", "token", "giveBack", "mark"}
        PROVE  TellsCreator(p)'
    BY <1>1, <2>1, <2>2 DEF Goes, TellsCreator
  <2>3. CASE Ensure(p)
    <3>1. UNCHANGED <<log, sealed, money>> /\ money[C] = "none"
      BY <2>1, <2>3 DEF Ensure, ledgerVars, TellsCreator, At
    <3>2. TellsCreator(p)'
      BY <1>1, <1>3, <2>2, <2>3, <3>1 DEF Ensure, Attempt
    <3> QED
      BY <1>1, <1>5, <3>1, <3>2 DEF Attempt
  <2>4. CASE Charge(p)
    <3>1. money[C] = "none"
      BY <2>1, <2>4 DEF Charge, TellsCreator, At
    <3>2. CASE Goto(p, "finish") /\ money' = [money EXCEPT ![C] = "moved"] /\ C \notin sealed
      <4>1. /\ money'[C] = "moved" /\ sealed' = sealed
            /\ log'[C] = IF log[C] = "open" THEN "applied" ELSE log[C]
        BY <1>1, <2>4, <3>1, <3>2 DEF Charge, ProgOK
      <4>2. Goes(p, "finish")
        BY <1>1, <3>2
      <4>3. TellsCreator(p)'
        BY <2>2, <4>1, <4>2
      <4> QED
        BY <1>1, <1>3, <1>5, <2>1, <3>1, <4>1, <4>3 DEF Attempt
    <3>3. CASE Goto(p, "refused") /\ UNCHANGED <<money, log, sealed>>
      <4>1. TellsCreator(p)'
        BY <1>1, <2>2, <3>1, <3>3
      <4> QED
        BY <1>1, <1>5, <3>1, <3>3, <4>1 DEF Attempt
    <3>4. CASE Goto(p, "outcome") /\ UNCHANGED <<money, log, sealed>> /\ C \in sealed
      <4>1. doc.status # "initializing"
        BY <1>1, <3>4 DEF Attempt
      <4>2. TellsCreator(p)'
        BY <1>1, <2>2, <3>4, <4>1
      <4> QED
        BY <1>1, <1>5, <3>1, <3>4, <4>2 DEF Attempt
    <3> QED
      BY <2>4, <3>1, <3>2, <3>3, <3>4 DEF Charge, Move
  <2>5. CASE Outcome(p)
    <3>1. Goes(p, "finish") /\ UNCHANGED <<log, sealed, money>>
      BY <1>1, <2>1, <2>5 DEF Outcome, ledgerVars
    <3>2. doc.status = "initializing" => money[C] = "moved"
      BY <2>1, <2>5 DEF Outcome, TellsCreator, At
    <3>3. TellsCreator(p)'
      BY <2>2, <3>1, <3>2
    <3> QED
      BY <1>1, <1>5, <3>1, <3>3 DEF Attempt
  <2>6. CASE Refused(p)
    <3>1. Goes(p, "delete") /\ UNCHANGED <<log, sealed, money>> /\ money[C] = "none"
      BY <1>1, <2>1, <2>6 DEF Refused, ledgerVars, TellsCreator, At
    <3>2. TellsCreator(p)'
      BY <2>2, <3>1
    <3> QED
      BY <1>1, <1>5, <3>1, <3>2 DEF Attempt
  <2> QED
    BY <1>7, <2>3, <2>4, <2>5, <2>6
<1>8. CASE Burn(p) \/ BurnToken(p) \/ GiveBack(p) \/ MarkUndone(p)
  <2>1. doc.status = "failed_init" /\ proc[p].at \in {"burn", "token", "giveBack", "mark"}
    BY <1>1, <1>4, <1>8 DEF Burn, BurnToken, GiveBack, MarkUndone, At, Attempt,
       TellsCreator, Job
  <2>2. /\ money'[C] = money[C] \/ money[C] # "none"
        /\ Ends(p) \/ \E call \in {"token", "giveBack", "mark", "abort"} :
                        /\ Goes(p, call)
                        /\ call = "abort" => ~Job(p, {"create"})
    <3>1. CASE Burn(p)
      BY <1>1, <3>1 DEF Burn, AfterBurn
    <3>2. CASE BurnToken(p)
      BY <1>1, <3>2 DEF BurnToken, AfterBurn
    <3>3. CASE GiveBack(p)
      BY <1>1, <3>3 DEF GiveBack
    <3>4. CASE MarkUndone(p)
      BY <1>1, <3>4 DEF MarkUndone, AfterBurn
    <3> QED
      BY <1>8, <3>1, <3>2, <3>3, <3>4
  <2>3. Job(p, {"create"})' => TellsCreator(p)'
    BY <1>1, <2>1, <2>2 DEF Ends, Goes, Idle, Job, TellsCreator, Transient
  <2> QED
    BY <1>5, <2>1, <2>2, <2>3
<1>9. CASE PayRefund(p) \/ SettlePay(p) \/ FeeCredit(p)
  BY <1>1, <1>9, OpsOfCalls DEF PayRefund, SettlePay, FeeCredit, At, Job
<1> QED
  BY <1>7, <1>8, <1>9 DEF LedgerMoves

LEMMA AttemptStep ==
  ASSUME Known, [Act /\ Calm]_progVars
  PROVE  Attempt'
<1> USE WithdrawalsAssumption
<1>1. /\ ProgOK /\ Attempt /\ Underway /\ Fresh /\ DocFits /\ Placed /\ doc \in Doc
      /\ Creation \in Chargeable /\ Creation \in Op
  BY DEF Known, Settled, Base, ProgOK, Op, Chargeable
<1>2. ASSUME NEW p \in Process, \A q \in Process \ {p} : proc'[q] = proc[q],
             ~Job(p, {"create", "healInit"})',
             log'[Creation] = log[Creation], money'[Creation] = money[Creation],
             Creation \in sealed' <=> Creation \in sealed,
             worth'[Creation] = worth[Creation],
             doc'.status = doc.status \/ doc'.status \notin Transient,
             doc'.fee = doc.fee \/ doc'.status \notin Transient,
             \A q \in Process \ {p} :
               /\ Job(q, {"create"}) => doc'.status = doc.status
               /\ Job(q, {"healInit"}) /\ ~At(q, "claim") => doc'.status = doc.status
      PROVE  Attempt'
  <2>1. \A q, r \in Process : Job(q, {"create"})' /\ Job(r, {"create"})' => q = r
    BY <1>1, <1>2 DEF Attempt, Job
  <2>2. ASSUME NEW q \in Process, Job(q, {"create"})' PROVE TellsCreator(q)'
    <3>1. q # p /\ proc'[q] = proc[q] /\ TellsCreator(q) /\ Job(q, {"create"})
      BY <1>1, <1>2, <2>2 DEF Attempt, Job
    <3> QED
      BY <1>2, <3>1 DEF TellsCreator
  <2>3. \A q \in Process : (Job(q, {"healInit"}) /\ ~At(q, "claim"))'
                             => doc'.status = "failed_init"
    BY <1>1, <1>2 DEF Attempt, Job, At
  <2>4. \A q \in Process : Job(q, {"create", "healInit"})' => proc'[q].cost = worth'[Creation]
    BY <1>1, <1>2 DEF Attempt, Job
  <2>5. /\ doc'.status = "initializing" => /\ log'[Creation] \in {"open", "applied"}
                                           /\ Creation \notin sealed'
                                           /\ money'[Creation] # "back"
        /\ doc'.status \in Transient => worth'[Creation] = Amount + doc'.fee
    BY <1>1, <1>2 DEF Attempt, Transient
  <2> QED
    BY <2>1, <2>2, <2>3, <2>4, <2>5 DEF Attempt
<1>3. CASE UNCHANGED progVars
  BY <1>1, <1>3 DEF progVars, ledgerVars, Attempt, TellsCreator, Job, At
<1>4. ASSUME NEW p \in Process, NEW l \in Local, Reads(p, l), Starting(p, l)
      PROVE  Attempt'
  <2>1. CASE l.job \notin {"create", "healInit"}
    BY <1>2, <1>4, <2>1 DEF Reads, ledgerVars, Job
  <2>2. CASE l.job \in {"create", "healInit"}
    <3>1. /\ l.job = "healInit" /\ l.cost = Amount + doc.fee
          /\ \/ l.at = "claim" /\ doc.status = "initializing"
             \/ l.at = "burn" /\ doc.status = "failed_init"
      BY <1>4, <2>2 DEF Starting, HealTakes, Idle
    <3> QED
      BY <1>1, <1>4, <3>1 DEF Reads, ledgerVars, Attempt, TellsCreator, Job, At, Transient
  <2> QED
    BY <2>1, <2>2
<1>5. ASSUME NEW p \in Process, NEW f \in Fees, Creates(p, f) PROVE Attempt'
  <2>1. \A q \in Process : ~Job(q, {"create", "healInit"})
    BY <1>5, Creators DEF Creates
  <2>2. /\ log[Creation] = "open" /\ Creation \notin sealed
        /\ money[Creation] = "none" /\ UNCHANGED <<log, sealed, money>>
    BY <1>1, <1>5 DEF Creates, Fresh
  <2>3. /\ \A q \in Process \ {p} : ~Job(q, {"create", "healInit"})'
        /\ proc'[p].job = "create" /\ proc'[p].at = "ensure"
        /\ proc'[p].cost = Amount + f /\ worth'[Creation] = Amount + f
        /\ doc'.status = "initializing" /\ doc'.fee = f
    BY <1>5, <2>1 DEF Creates, Job
  <2> QED
    BY <2>2, <2>3 DEF Attempt, TellsCreator, Job, At, Transient
<1>6. ASSUME NEW p \in Process, LedgerMoves(p) PROVE Attempt'
  <2>1. CASE proc[p].op = Creation
    BY <1>6, <2>1, AttemptMoves
  <2>2. CASE proc[p].op # Creation
    <3>1. /\ doc' = doc /\ worth' = worth /\ Touches(p)
          /\ Ends(p) \/ \E call \in Calls : Goes(p, call)
      BY <1>6, LedgerGoes
    <3>2. ~Job(p, {"create", "healInit"})'
      BY <2>2, <3>1, Creators DEF Ends, Goes, Idle, Job
    <3> QED
      BY <1>1, <1>2, <2>2, <3>1, <3>2 DEF Ends, Goes, Touches
  <2> QED
    BY <2>1, <2>2
<1>7. ASSUME NEW p \in Process, UNCHANGED ledgerVars, DocMoves(p) PROVE Attempt'
  <2>1. \A q \in Process \ {p} : proc'[q] = proc[q]
    BY <1>7 DEF DocMoves, LeftAlone, PaidOff, Deleted, Activated, MovedOn,
       Redebited, Compensated, Planned, Reverted, Failed, Released, Ends, Goes
  <2>2. CASE /\ ~Job(p, {"create", "healInit"})'
             /\ doc'.status = doc.status \/ doc'.status \notin Transient
             /\ doc'.fee = doc.fee \/ doc'.status \notin Transient
             /\ \A q \in Process \ {p} :
                  /\ Job(q, {"create"}) => doc'.status = doc.status
                  /\ Job(q, {"healInit"}) /\ ~At(q, "claim")
                       => doc'.status = doc.status
    BY <1>2, <1>7, <2>1, <2>2 DEF ledgerVars
  <2>3. Ends(p) => ~Job(p, {"create", "healInit"})'
    BY DEF Ends, Idle, Job
  <2>4. CASE LeftAlone(p)
    <3>1. CASE \/ Ends(p)
               \/ proc[p].op \in Refund /\ Goes(p, "reread")
               \/ proc'[p].job = "staff"
      <4>1. ~Job(p, {"create", "healInit"})'
        BY <1>1, <2>3, <3>1, Creators DEF Goes, Job
      <4> QED
        BY <2>2, <2>4, <4>1 DEF LeftAlone
    <3>2. CASE /\ At(p, "finish") /\ Job(p, {"create"}) /\ doc.status # "initializing"
               /\ Goes(p, "burn")
      BY <1>1, <1>7, <2>4, <3>2
         DEF LeftAlone, Goes, Attempt, TellsCreator, Job, At, ledgerVars, Transient
    <3>3. \/ Ends(p)
          \/ proc[p].op \in Refund /\ Goes(p, "reread")
          \/ proc'[p].job = "staff"
          \/ /\ At(p, "finish") /\ Job(p, {"create"}) /\ doc.status # "initializing"
             /\ Goes(p, "burn")
      BY <2>4, Zenon DEF LeftAlone
    <3> QED
      BY <3>1, <3>2, <3>3
  <2>5. CASE PaidOff(p)
    <3>1. proc[p].op \in Refund
      BY <1>1, <2>5 DEF PaidOff, Doc
    <3>2. ~Job(p, {"create", "healInit"})'
      BY <2>3, <2>5, <3>1, Creators DEF PaidOff, Goes, Job
    <3> QED
      BY <1>1, <2>2, <2>5, <3>2 DEF PaidOff, Doc
  <2>6. CASE Deleted(p) \/ Activated(p)
    <3>1. Job(p, {"create"}) /\ doc.status = "initializing" /\ Ends(p)
      BY <2>6 DEF Deleted, Activated
    <3>2. doc'.status \in {"absent", "pending"}
      <4>1. CASE Deleted(p)
        BY <4>1 DEF Deleted, NoDoc
      <4>2. CASE Activated(p)
        BY <1>1, <4>2 DEF Activated, Doc
      <4> QED
        BY <2>6, <4>1, <4>2
    <3>3. \A q \in Process \ {p} : /\ ~Job(q, {"create"})
                                   /\ ~(Job(q, {"healInit"}) /\ ~At(q, "claim"))
      BY <1>1, <3>1 DEF Attempt
    <3> QED
      BY <2>2, <2>3, <3>1, <3>2, <3>3 DEF Transient
  <2>7. CASE MovedOn(p) \/ Compensated(p)
    <3>1. doc.status \in Live /\ Ends(p)
      <4>1. CASE MovedOn(p)
        BY <4>1 DEF MovedOn
      <4>2. CASE Compensated(p)
        <5>1. doc.redebit # None
          BY <4>2 DEF Compensated, Op, Chargeable
        <5> QED
          BY <1>1, <4>2, <5>1 DEF Compensated, Underway
      <4> QED
        BY <2>7, <4>1, <4>2
    <3>2. doc'.status \in Live \cup {"rejected"}
      BY <1>1, <2>7 DEF MovedOn, Compensated, Doc
    <3>3. \A q \in Process : /\ ~Job(q, {"create"})
                             /\ ~(Job(q, {"healInit"}) /\ ~At(q, "claim"))
      BY <1>1, <3>1 DEF Attempt, TellsCreator, Live, Transient
    <3> QED
      BY <2>2, <2>3, <3>1, <3>2, <3>3 DEF Transient, Live
  <2>8. CASE Redebited(p) \/ Planned(p) \/ Released(p)
    <3>1. doc'.status = doc.status /\ doc'.fee = doc.fee
      BY <1>1, <2>8 DEF Redebited, Planned, Released, Doc
    <3> QED
      BY <2>2, <2>3, <2>8, <3>1 DEF Redebited, Planned, Released
  <2>9. CASE Reverted(p)
    <3>1. doc.plan # None
      BY <2>9 DEF Reverted, Op, Chargeable
    <3>2. doc'.status = doc.status /\ doc.status \in Live
      BY <1>1, <2>9, <3>1 DEF Reverted, Underway, Doc
    <3> QED
      BY <2>2, <2>3, <2>9, <3>2 DEF Reverted, Live, Transient
  <2>10. CASE Failed(p)
    <3>1. /\ doc'.status = "failed_init" /\ doc'.fee = doc.fee
          /\ doc.status = "initializing"
      BY <1>1, <2>10 DEF Failed, Doc
    <3>2. /\ proc'[p].job = "healInit" /\ proc'[p].cost = worth[Creation]
      BY <1>1, <2>10 DEF Failed, Goes, Job, Attempt
    <3>3. \A q, r \in Process : Job(q, {"create"})' /\ Job(r, {"create"})' => q = r
      BY <1>1, <2>1, <3>2 DEF Attempt, Job
    <3>4. ASSUME NEW q \in Process, Job(q, {"create"})' PROVE TellsCreator(q)'
      <4>1. q # p /\ proc'[q] = proc[q] /\ TellsCreator(q)
        BY <1>1, <2>1, <3>2, <3>4 DEF Attempt, Job
      <4> QED
        BY <1>7, <3>1, <4>1 DEF TellsCreator, Transient, ledgerVars
    <3>5. \A q \in Process : Job(q, {"create", "healInit"})'
                               => proc'[q].cost = worth'[Creation]
      BY <1>1, <1>7, <2>1, <3>2 DEF Attempt, Job, ledgerVars
    <3> QED
      BY <1>1, <1>7, <3>1, <3>3, <3>4, <3>5 DEF Attempt, Transient, ledgerVars
  <2> QED
    BY <1>7, <2>4, <2>5, <2>6, <2>7, <2>8, <2>9, <2>10 DEF DocMoves
<1>8. ASSUME NEW p \in Process, NEW o \in Op, NEW c, Named(p, o, c), o # Creation,
             doc.status \in Live \cup {"rejected"},
             doc'.status \in Live \cup {"rejected", "cancelled"}
      PROVE  Attempt'
  <2>1. ~Job(p, {"create", "healInit"})'
    BY <1>8, CreatorsNext DEF Named
  <2>2. \A q \in Process : /\ ~Job(q, {"create"})
                           /\ ~(Job(q, {"healInit"}) /\ ~At(q, "claim"))
    BY <1>1, <1>8 DEF Attempt, TellsCreator, Live, Transient
  <2> QED
    BY <1>1, <1>2, <1>8, <2>1, <2>2 DEF Named, Transient, Live
<1>9. ASSUME NEW p \in Process, Refunded(p) PROVE Attempt'
  <2>1. PICK r \in Refund, s \in {"cancelled", "rejected"} :
          Refunds(p, r, s) /\ doc.status \in Live
    BY <1>9 DEF Refunded
  <2> QED
    BY <1>8, <2>1 DEF Refunds, Op
<1>10. ASSUME NEW p \in Process, Reopened(p) PROVE Attempt'
  <2>1. PICK d \in Redebit :
          Redebits(p, d) /\ doc.status = "rejected" /\ proc[p].want \in Live
    BY <1>10 DEF Reopened
  <2> QED
    BY <1>8, <2>1 DEF Redebits, Op, Chargeable
<1>11. ASSUME NEW p \in Process, FeeChanged(p) PROVE Attempt'
  <2>1. PICK f \in Fees, o \in FeeOp : Replans(p, o, f) /\ doc.status \in Live
    BY <1>11 DEF FeeChanged
  <2> QED
    BY <1>8, <2>1 DEF Replans, Op, Chargeable
<1>12. ASSUME NEW p \in Process, UNCHANGED <<doc, ledgerVars>>, Goes(p, "moneyless"),
              proc[p].op = None
       PROVE  Attempt'
  <2>1. ~Job(p, {"create", "healInit"})'
    BY <1>1, <1>12, Creators DEF Goes, Job
  <2> QED
    BY <1>2, <1>12, <2>1 DEF Goes, ledgerVars
<1> QED
  BY <1>3, <1>4, <1>5, <1>6, <1>7, <1>9, <1>10, <1>11, <1>12, StepKinds

\* Money that moved never counts as unmoved again.
LEMMA MoneyGrows ==
  ASSUME Known, NEW p \in Process, LedgerMoves(p)
  PROVE  \A x \in Op : money'[x] = "none" => money[x] = "none"
<1>1. ProgOK /\ Placed
  BY DEF Known, Base
<1> USE <1>1 DEF ProgOK
<1>2. CASE Ensure(p) \/ Outcome(p) \/ Refused(p) \/ Burn(p) \/ BurnToken(p) \/ MarkUndone(p)
  BY <1>2 DEF Ensure, Outcome, Refused, Burn, BurnToken, MarkUndone, ledgerVars
<1>3. CASE Charge(p)
  BY <1>3 DEF Charge, Move
<1>4. CASE GiveBack(p)
  BY <1>4 DEF GiveBack
<1>5. CASE PayRefund(p) \/ SettlePay(p) \/ FeeCredit(p)
  BY <1>5 DEF PayRefund, SettlePay, FeeCredit, Pay, Move
<1> QED
  BY <1>2, <1>3, <1>4, <1>5 DEF LedgerMoves

LEMMA PricedStep ==
  ASSUME Known, [Act /\ Calm]_progVars
  PROVE  Priced'
<1> USE WithdrawalsAssumption
<1>1. /\ ProgOK /\ Priced /\ Underway /\ Fresh /\ DocFits /\ RefundFits
      /\ doc \in Doc /\ Placed
  BY DEF Known, Settled, Base, ProgOK
<1>2. /\ doc.credit # None => doc.credit \in Refund /\ doc.credit \in Op
      /\ doc.redebit # None => doc.redebit \in Op
      /\ doc.plan # None => doc.plan \in Op
      /\ \A x \in Refund : x \in Op
  BY <1>1, DocTypes DEF Op, Chargeable
<1>3. ASSUME worth' = worth, named' = named,
             \A x \in Op : money'[x] = "none" => money[x] = "none",
             doc'.redebit \in {doc.redebit, None}, doc'.plan \in {doc.plan, None},
             \/ doc'.credit = doc.credit
             \/ doc'.credit = None /\ (\A r \in Refund \cap named : money[r] # "none"),
             doc'.revert = doc.revert \/ doc'.plan = None,
             \/ doc'.fee = doc.fee
             \/ doc'.redebit = None /\ doc'.plan = None /\ doc'.credit = None
      PROVE  Priced'
  <2>1. /\ doc'.redebit # None => worth'[doc'.redebit] = Amount + doc'.fee
        /\ doc'.plan # None => worth'[doc'.plan] = doc'.fee - doc'.revert
    BY <1>1, <1>3 DEF Priced
  <2>2. doc'.credit # None /\ money'[doc'.credit] = "none"
          => worth'[doc'.credit] = -(Amount + doc'.fee)
    BY <1>1, <1>2, <1>3 DEF Priced
  <2>3. \A r \in Refund \cap named' : money'[r] = "none" => doc'.credit = r
    BY <1>1, <1>2, <1>3 DEF Priced
  <2> QED
    BY <2>1, <2>2, <2>3 DEF Priced
<1>4. ASSUME UNCHANGED <<doc, ledgerVars>> PROVE Priced'
  BY <1>1, <1>4 DEF ledgerVars, Priced
<1>6. ASSUME NEW p \in Process, NEW f \in Fees, Creates(p, f) PROVE Priced'
  <2>1. doc.status = "absent"
    BY <1>1, <1>6 DEF Creates, DocFits
  <2>2. doc'.credit = None /\ doc'.redebit = None /\ doc'.plan = None
    BY <1>1, <1>6, <2>1 DEF Creates, DocFits, Underway, Live
  <2>3. \A r \in Refund \cap named' : money'[r] = "none" => doc'.credit = r
    BY <1>1, <1>6, <2>1, <2>2 DEF Creates, Priced
  <2> QED
    BY <2>2, <2>3 DEF Priced
<1>7. ASSUME NEW p \in Process, LedgerMoves(p) PROVE Priced'
  <2>1. doc' = doc /\ worth' = worth /\ named' = named
    BY <1>7, LedgerGoes
  <2> QED
    BY <1>3, <1>7, <2>1, MoneyGrows
<1>8. ASSUME NEW p \in Process, UNCHANGED ledgerVars, DocMoves(p) PROVE Priced'
  <2>1. worth' = worth /\ named' = named /\ money' = money
    BY <1>8 DEF ledgerVars
  <2>2. CASE LeftAlone(p)
    BY <1>4, <1>8, <2>2 DEF LeftAlone
  <2>3. CASE PaidOff(p)
    <3>1. \A r \in Refund \cap named : money[r] # "none"
      BY <1>1, <2>3 DEF PaidOff, Priced
    <3> QED
      BY <1>1, <1>3, <2>1, <2>3, <3>1 DEF PaidOff, Doc
  <2>4. CASE Deleted(p)
    <3>1. doc.credit = None /\ doc.redebit = None /\ doc.plan = None
      BY <1>1, <2>4 DEF Deleted, DocFits, Underway, Transient, Live
    <3>2. doc'.credit = None /\ doc'.redebit = None /\ doc'.plan = None
      BY <2>4 DEF Deleted, NoDoc
    <3> QED
      BY <1>3, <2>1, <3>1, <3>2
  <2>5. CASE Activated(p) \/ MovedOn(p) \/ Compensated(p) \/ Failed(p) \/ Released(p)
    <3>1. /\ doc'.credit = doc.credit /\ doc'.plan = doc.plan /\ doc'.fee = doc.fee
          /\ doc'.revert = doc.revert /\ doc'.redebit \in {doc.redebit, None}
      BY <1>1, <2>5 DEF Activated, MovedOn, Compensated, Failed, Released, Doc
    <3> QED
      BY <1>3, <2>1, <3>1
  <2>6. CASE Redebited(p)
    BY <1>1, <1>3, <2>1, <2>6 DEF Redebited, Doc
  <2>7. CASE Planned(p)
    BY <1>1, <1>3, <2>1, <2>7 DEF Planned, Doc
  <2>8. CASE Reverted(p)
    <3>1. doc.plan # None
      BY <2>8 DEF Reverted, Op, Chargeable
    <3>2. doc.redebit = None /\ doc.credit = None
      BY <1>1, <3>1 DEF Underway, RefundFits, Live
    <3>3. doc'.credit = None /\ doc'.redebit = None /\ doc'.plan = None
      BY <1>1, <2>8, <3>2 DEF Reverted, Doc
    <3> QED
      BY <1>3, <2>1, <3>2, <3>3
  <2> QED
    BY <1>8, <2>2, <2>3, <2>4, <2>5, <2>6, <2>7, <2>8 DEF DocMoves
<1>10. ASSUME NEW p \in Process, Refunded(p) PROVE Priced'
  <2>1. PICK r \in Refund, s \in {"cancelled", "rejected"} :
          /\ Refunds(p, r, s) /\ doc.plan = None /\ doc.redebit = None
          /\ doc.credit = None /\ doc.fee = proc[p].fee
    BY <1>10 DEF Refunded
  <2>2. /\ doc'.redebit = None /\ doc'.plan = None /\ doc'.fee = doc.fee
        /\ doc'.credit = r /\ worth'[r] = -(Amount + doc'.fee)
        /\ named' = named \cup {r}
    BY <2>1 DEF Refunds, Named
  <2>3. money' = money
    BY <2>1 DEF Refunds, Named
  <2>4. \A x \in Refund \cap named' : money'[x] = "none" => doc'.credit = x
    BY <1>1, <1>2, <2>1, <2>2, <2>3 DEF Priced
  <2> QED
    BY <2>2, <2>3, <2>4 DEF Priced
<1>11. ASSUME NEW p \in Process, Reopened(p) PROVE Priced'
  <2>1. PICK d \in Redebit :
          /\ Redebits(p, d) /\ doc.credit = None /\ doc.fee = proc[p].fee
          /\ doc.status = "rejected"
    BY <1>11 DEF Reopened
  <2>2. /\ doc'.redebit = d /\ doc'.plan = doc.plan /\ doc'.fee = doc.fee
        /\ doc'.credit = None /\ worth'[d] = Amount + doc'.fee
        /\ named' = named \cup {d} /\ d \in Op /\ d \notin Refund
    BY <2>1 DEF Redebits, Named, Op, Chargeable
  <2>3. doc.plan = None
    BY <1>1, <2>1 DEF Underway, Live
  <2>4. money' = money
    BY <2>1 DEF Redebits, Named
  <2>5. \A x \in Refund \cap named' : money'[x] = "none" => doc'.credit = x
    BY <1>1, <2>1, <2>2, <2>4 DEF Priced
  <2> QED
    BY <2>2, <2>3, <2>4, <2>5 DEF Priced
<1>12. ASSUME NEW p \in Process, FeeChanged(p) PROVE Priced'
  <2>1. PICK f \in Fees, o \in FeeOp :
          Replans(p, o, f) /\ doc.status \in Live /\ doc.redebit = None
    BY <1>12 DEF FeeChanged
  <2>2. /\ doc'.plan = o /\ doc'.redebit = doc.redebit /\ doc'.credit = doc.credit
        /\ worth'[o] = doc'.fee - doc'.revert
        /\ named' = named \cup {o} /\ money' = money /\ o \notin Refund
    BY <2>1 DEF Replans, Named
  <2>3. doc.redebit = None /\ doc.credit = None
    BY <1>1, <2>1 DEF RefundFits, Live
  <2>4. \A x \in Refund \cap named' : money'[x] = "none" => doc'.credit = x
    BY <1>1, <2>2 DEF Priced
  <2> QED
    BY <2>1, <2>2, <2>3, <2>4 DEF Priced
<1> QED
  BY <1>4, <1>6, <1>7, <1>8, <1>10, <1>11, <1>12, StepKinds DEF progVars, Reads

\* What a call on balances.py adds to the charge, or takes from it.
LEMMA BalanceMoves ==
  ASSUME Known, [Act /\ Calm]_progVars, NEW p \in Process, LedgerMoves(p)
  PROVE  charged' = Balance'
<1> USE WithdrawalsAssumption
<1>1. /\ ProgOK /\ Underway /\ Fresh /\ DocFits /\ RefundFits /\ Books
      /\ Alone /\ Debits /\ Attempt /\ Priced /\ charged = Balance
      /\ doc \in Doc /\ Fits(proc[p])
  BY DEF Known, Settled, Base, ProgOK, Placed
<1>2. doc' = doc /\ worth' = worth
  BY LedgerGoes
<1>3. /\ worth \in [Op -> Int] /\ money \in [Op -> {"none", "moved", "back"}]
      /\ charged \in Int /\ Amount \in Int /\ doc.fee \in Int /\ doc.revert \in Int
  <2>1. Amount \in Int /\ doc.fee \in Int /\ doc.revert \in Int
    BY <1>1, Amounts
  <2> QED
    BY <1>1, <2>1 DEF ProgOK
<1>4. ASSUME charged' = charged, money' = money PROVE charged' = Balance'
  BY <1>1, <1>2, <1>4 DEF Balance, Pending
<1>5. CASE Ensure(p) \/ Outcome(p) \/ Refused(p) \/ Burn(p) \/ BurnToken(p) \/ MarkUndone(p)
  BY <1>4, <1>5 DEF Ensure, Outcome, Refused, Burn, BurnToken, MarkUndone, ledgerVars
<1>6. ASSUME NEW o \in Debit, o = proc[p].op, Move(o), money[o] = "none"
      PROVE  charged' = Balance'
  <2>1. /\ o \in Op /\ o # None
        /\ money' = [money EXCEPT ![o] = "moved"] /\ charged' = charged + worth[o]
    BY <1>6 DEF Move, Debit, Op, Chargeable
  <2>2. money'[o] = "moved" /\ worth[o] \in Int
    BY <1>3, <2>1
  <2>3. CASE o \in Redebit
    <3>1. doc.redebit = o /\ doc.status \in Live /\ doc.plan = None
      BY <1>1, <1>6, <2>1, <2>3 DEF Alone, Underway
    <3>2. worth[o] = Amount + doc.fee /\ Pending(doc.redebit)
      BY <1>1, <1>6, <2>1, <3>1 DEF Priced, Pending
    <3>3. charged = 0
      BY <1>1, <3>1, <3>2 DEF Balance
    <3>4. ~Pending(doc.redebit)' /\ ~Pending(doc.plan)'
      BY <1>2, <2>2, <3>1 DEF Pending
    <3>5. Balance' = Amount + doc.fee
      BY <1>2, <3>1, <3>4 DEF Balance
    <3> QED
      BY <1>3, <2>1, <3>2, <3>3, <3>5
  <2>4. CASE o \in FeeOp
    <3>1. doc.plan = o /\ doc.status \in Live /\ doc.redebit = None
      BY <1>1, <1>6, <2>1, <2>4 DEF Alone, Underway
    <3>2. worth[o] = doc.fee - doc.revert /\ Pending(doc.plan) /\ ~Pending(doc.redebit)
      BY <1>1, <1>6, <2>1, <3>1 DEF Priced, Pending
    <3>3. charged = Amount + doc.revert
      BY <1>1, <3>1, <3>2 DEF Balance
    <3>4. ~Pending(doc.redebit)' /\ ~Pending(doc.plan)'
      BY <1>2, <2>2, <3>1 DEF Pending
    <3>5. Balance' = Amount + doc.fee
      BY <1>2, <3>1, <3>4 DEF Balance
    <3> QED
      BY <1>3, <2>1, <3>2, <3>3, <3>5
  <2> QED
    BY <1>6, <2>3, <2>4 DEF Debit
<1>7. CASE Charge(p)
  <2>1. CASE charged' = charged /\ money' = money
    BY <1>4, <2>1
  <2>2. CASE Move(proc[p].op) /\ money[proc[p].op] = "none"
    <3>1. \/ proc[p].op \in Debit
          \/ proc[p].op = Creation /\ proc[p].job = "create"
      BY <1>1, <1>7 DEF Charge, At, Fits, Idle, Debit
    <3>2. CASE proc[p].op = Creation /\ proc[p].job = "create"
      <4>1. doc.status \in Transient
        BY <1>1, <3>2 DEF Attempt, TellsCreator, Job
      <4>2. /\ charged' = charged + worth[Creation]
            /\ money' = [money EXCEPT ![Creation] = "moved"] /\ Creation \in Op
        BY <2>2, <3>2 DEF Move, Op, Chargeable
      <4>3. charged = 0
        BY <1>1, <2>2, <3>2, <4>1 DEF Balance, Transient, Live
      <4>4. Balance' = worth[Creation]
        BY <1>2, <1>3, <4>1, <4>2 DEF Balance, Transient, Live
      <4> QED
        BY <1>3, <4>2, <4>3, <4>4
    <3> QED
      BY <1>6, <2>2, <3>1, <3>2
  <2> QED
    BY <1>7, <2>1, <2>2 DEF Charge
<1>8. CASE GiveBack(p)
  <2>1. CASE charged' = charged /\ money' = money
    BY <1>4, <2>1
  <2>2. CASE /\ money[proc[p].op] = "moved" /\ charged' = charged - proc[p].cost
             /\ money' = [money EXCEPT ![proc[p].op] = "back"]
    <3>1. proc[p].op \notin Debit
      BY <1>1, <1>8 DEF GiveBack, At, Debits, TellsDebit
    <3>2. proc[p].op = Creation /\ proc[p].job \in {"create", "healInit"}
      BY <1>1, <1>8, <3>1 DEF GiveBack, At, Fits, Idle, Debit, DebitCalls
    <3>3. doc.status = "failed_init" /\ proc[p].cost = worth[Creation]
      BY <1>1, <1>8, <3>2 DEF GiveBack, At, Attempt, TellsCreator, Job
    <3>4. charged = worth[Creation] /\ Creation \in Op
      BY <1>1, <2>2, <3>2, <3>3 DEF Balance, Transient, Live, Op, Chargeable
    <3>5. Balance' = 0
      BY <1>2, <1>3, <2>2, <3>2, <3>3, <3>4 DEF Balance, Transient, Live
    <3> QED
      BY <1>3, <2>2, <3>3, <3>4, <3>5
  <2> QED
    BY <1>8, <2>1, <2>2 DEF GiveBack
<1>9. CASE PayRefund(p) \/ SettlePay(p)
  <2>1. CASE charged' = charged /\ money' = money
    BY <1>4, <2>1
  <2>2. CASE Move(proc[p].op) /\ money[proc[p].op] = "none"
    <3> DEFINE r == proc[p].op
    <3>1. r \in Refund
      BY <1>1, <1>9 DEF PayRefund, SettlePay, At, Job, Fits, Idle, DebitCalls
    <3>2. r \in Op /\ r # None /\ r \in named
      BY <1>1, <3>1 DEF Fresh, Op
    <3>3. doc.credit = r
      BY <1>1, <2>2, <3>1, <3>2 DEF Priced
    <3>4. worth[r] = -(Amount + doc.fee) /\ Pending(doc.credit)
      BY <1>1, <2>2, <3>2, <3>3 DEF Priced, Pending
    <3>5. doc.status \in {"rejected", "cancelled"}
      BY <1>1, <3>2, <3>3 DEF DocFits, RefundFits, NotBoth, Doc, Status,
         Transient, Live
    <3>6. charged = Amount + doc.fee
      BY <1>1, <3>4, <3>5 DEF Balance, Live
    <3>7. /\ charged' = charged + worth[r] /\ money'[r] = "moved"
      BY <1>3, <2>2, <3>2 DEF Move
    <3>8. ~Pending(doc.credit)'
      BY <1>2, <3>3, <3>7 DEF Pending
    <3>9. Balance' = 0
      BY <1>2, <3>5, <3>8 DEF Balance, Live
    <3> QED
      BY <1>3, <3>4, <3>6, <3>7, <3>9
  <2> QED
    BY <1>9, <2>1, <2>2 DEF PayRefund, SettlePay, Pay
<1>10. CASE FeeCredit(p)
  <2>1. CASE charged' = charged /\ money' = money
    BY <1>4, <2>1
  <2>2. CASE Move(proc[p].op) /\ money[proc[p].op] = "none"
    <3>1. proc[p].op \in Debit
      BY <1>1, <1>10 DEF FeeCredit, At, Job, Fits, Idle, DebitCalls, Debit
    <3> QED
      BY <1>6, <2>2, <3>1
  <2> QED
    BY <1>10, <2>1, <2>2 DEF FeeCredit, Pay
<1> QED
  BY <1>5, <1>7, <1>8, <1>9, <1>10 DEF LedgerMoves

\* A refund is published by a document that owes nothing else, and leaves the
\* charge of a live withdrawal.
LEMMA BalanceClaims ==
  ASSUME Known, [Act /\ Calm]_progVars, NEW p \in Process,
         Refunded(p) \/ Reopened(p) \/ FeeChanged(p)
  PROVE  charged' = Balance'
<1> USE WithdrawalsAssumption
<1>1. /\ ProgOK /\ Underway /\ Fresh /\ RefundFits
      /\ charged = Balance /\ doc \in Doc
  BY DEF Known, Settled, Base, ProgOK
<1>2. ASSUME NEW o \in Op, NEW c, Named(p, o, c)
      PROVE  /\ money'[o] = "none" /\ money' = money /\ charged' = charged
             /\ o # None
  BY <1>1, <1>2 DEF Named, Fresh
<1>3. CASE Refunded(p)
  <2>1. PICK r \in Refund, s \in {"cancelled", "rejected"} :
          /\ Refunds(p, r, s) /\ doc.status \in Live
          /\ doc.plan = None /\ doc.redebit = None
    BY <1>3 DEF Refunded
  <2>2. r \in Op
    BY DEF Op
  <2>3. charged' = charged /\ money'[r] = "none" /\ r # None
    BY <1>2, <2>1, <2>2 DEF Refunds
  <2>4. doc'.status = s /\ doc'.credit = r /\ doc'.fee = doc.fee
    BY <2>1 DEF Refunds
  <2>5. charged = Amount + doc.fee
    BY <1>1, <2>1 DEF Balance, Pending
  <2>6. Balance' = Amount + doc.fee
    BY <2>3, <2>4 DEF Balance, Pending, Live
  <2> QED
    BY <2>3, <2>5, <2>6
<1>4. CASE Reopened(p)
  <2>1. PICK d \in Redebit :
          /\ Redebits(p, d) /\ doc.status = "rejected" /\ doc.credit = None
          /\ proc[p].want \in Live
    BY <1>4 DEF Reopened
  <2>2. d \in Op
    BY DEF Op, Chargeable
  <2>3. charged' = charged /\ money'[d] = "none" /\ d # None
    BY <1>2, <2>1, <2>2 DEF Redebits
  <2>4. doc'.status \in Live /\ doc'.redebit = d
    BY <2>1 DEF Redebits
  <2>5. charged = 0
    BY <1>1, <2>1 DEF Balance, Pending, Live
  <2>6. Balance' = 0
    BY <2>3, <2>4 DEF Balance, Pending
  <2> QED
    BY <2>3, <2>5, <2>6
<1>5. CASE FeeChanged(p)
  <2>1. PICK f \in Fees, o \in FeeOp :
          /\ Replans(p, o, f) /\ doc.status \in Live /\ doc.plan = None
          /\ doc.redebit = None
    BY <1>5 DEF FeeChanged
  <2>2. o \in Op
    BY DEF Op, Chargeable
  <2>3. charged' = charged /\ money'[o] = "none" /\ o # None
    BY <1>2, <2>1, <2>2 DEF Replans
  <2>4. doc'.status = doc.status /\ doc'.plan = o /\ doc'.redebit = doc.redebit
        /\ doc'.revert = doc.fee
    BY <2>1 DEF Replans
  <2>5. charged = Amount + doc.fee
    BY <1>1, <2>1 DEF Balance, Pending
  <2>6. Balance' = Amount + doc.fee
    BY <2>1, <2>3, <2>4 DEF Balance, Pending
  <2> QED
    BY <2>3, <2>5, <2>6
<1> QED
  BY <1>3, <1>4, <1>5

\* What the other writes of the document do to what it owes: nothing.
LEMMA BalanceWrites ==
  ASSUME Known, [Act /\ Calm]_progVars, NEW p \in Process, UNCHANGED ledgerVars, DocMoves(p)
  PROVE  charged' = Balance'
<1> USE WithdrawalsAssumption
<1>1. /\ ProgOK /\ Underway /\ DocFits /\ RefundFits
      /\ Debits /\ Attempt /\ Priced /\ charged = Balance /\ doc \in Doc
  BY DEF Known, Settled, Base, ProgOK
<1>2. money' = money /\ worth' = worth /\ charged' = charged
  BY DEF ledgerVars
<1>3. Amount \in Nat \ {0} /\ doc.fee \in Nat /\ doc.revert \in Nat
  BY <1>1, Amounts
<1>4. Redebit \cap FeeOp = {} /\ \A o \in Debit : o # None
  BY DEF Op, Chargeable, Debit
<1>5. CASE LeftAlone(p)
  BY <1>1, <1>2, <1>5 DEF LeftAlone, Balance, Pending
<1>6. CASE PaidOff(p)
  <2>1. doc.credit # None /\ money[doc.credit] = "moved"
    BY <1>6 DEF PaidOff
  <2>2. doc'.status = doc.status /\ doc'.redebit = doc.redebit /\ doc'.plan = doc.plan
        /\ doc'.fee = doc.fee /\ doc'.revert = doc.revert /\ doc'.credit = None
    BY <1>1, <1>6 DEF PaidOff, Doc
  <2> QED
    BY <1>1, <1>2, <2>1, <2>2 DEF Balance, Pending
<1>7. CASE Deleted(p)
  <2>1. money[Creation] = "none" /\ doc.status = "initializing"
    BY <1>1, <1>7 DEF Deleted, Attempt, TellsCreator, At
  <2>2. doc'.status = "absent"
    BY <1>7 DEF Deleted, NoDoc
  <2> QED
    BY <1>1, <1>2, <2>1, <2>2 DEF Balance, Live, Transient
<1>8. CASE Activated(p)
  <2>1. /\ money[Creation] = "moved" /\ doc.status = "initializing"
        /\ worth[Creation] = Amount + doc.fee
    BY <1>1, <1>8 DEF Activated, Attempt, TellsCreator, At, Transient
  <2>2. doc.redebit = None /\ doc.plan = None
    BY <1>1, <2>1 DEF DocFits, Underway, Transient, Live
  <2>3. /\ doc'.status = "pending" /\ doc'.redebit = None /\ doc'.plan = None
        /\ doc'.fee = doc.fee
    BY <1>1, <1>8, <2>2 DEF Activated, Doc
  <2>4. charged = worth[Creation]
    BY <1>1, <2>1 DEF Balance, Live, Transient
  <2>5. Balance' = Amount + doc.fee
    BY <2>3 DEF Balance, Pending, Live
  <2> QED
    BY <1>2, <2>1, <2>4, <2>5
<1>9. CASE MovedOn(p)
  <2>1. /\ doc.status \in Live /\ doc'.status \in Live
        /\ doc'.redebit = doc.redebit /\ doc'.plan = doc.plan
        /\ doc'.fee = doc.fee /\ doc'.revert = doc.revert
    BY <1>1, <1>9 DEF MovedOn, Doc
  <2> QED
    BY <1>1, <1>2, <2>1 DEF Balance, Pending
<1>10. CASE Redebited(p)
  <2> DEFINE d == doc.redebit
  <2>1. /\ d # None /\ proc[p].op \in Debit /\ doc.redebit = proc[p].op
        /\ At(p, "finish")
    BY <1>4, <1>10 DEF Redebited, Debit
  <2>2. worth[d] = Amount + doc.fee /\ doc.status \in Live
    BY <1>1, <2>1 DEF Priced, Underway
  <2>3. ~Pending(doc.redebit)
    BY <1>1, <1>3, <2>1, <2>2 DEF Debits, TellsDebit, Pending
  <2>4. /\ doc'.status = doc.status /\ doc'.redebit = None /\ doc'.plan = doc.plan
        /\ doc'.fee = doc.fee /\ doc'.revert = doc.revert
    BY <1>1, <1>10 DEF Redebited, Doc
  <2>5. ~Pending(doc.redebit)' /\ Pending(doc.plan)' = Pending(doc.plan)
    BY <1>2, <2>4 DEF Pending
  <2> HIDE DEF d
  <2> QED
    BY <1>1, <1>2, <2>2, <2>3, <2>4, <2>5 DEF Balance
<1>11. CASE Compensated(p)
  <2>1. /\ doc.redebit # None /\ proc[p].op \in Debit /\ doc.redebit = proc[p].op
        /\ At(p, "abort")
    BY <1>4, <1>11 DEF Compensated, Debit
  <2>2. money[doc.redebit] = "none" /\ doc.status \in Live
    BY <1>1, <2>1 DEF Debits, TellsDebit, Underway, At
  <2>3. charged = 0
    BY <1>1, <2>1, <2>2 DEF Balance, Pending
  <2>4. doc'.status = "rejected" /\ doc'.credit = doc.credit
    BY <1>1, <1>11 DEF Compensated, Doc
  <2>5. doc.credit = None
    BY <1>1, <2>2 DEF DocFits, RefundFits, NotBoth
  <2>6. Balance' = 0
    BY <2>4, <2>5 DEF Balance, Pending, Live
  <2> QED
    BY <1>2, <2>3, <2>6
<1>12. CASE Planned(p)
  <2>1. /\ doc.plan # None /\ proc[p].op \in Debit /\ doc.plan = proc[p].op
        /\ At(p, "finish")
    BY <1>4, <1>12 DEF Planned, Debit
  <2>2. /\ doc.status \in Live /\ doc.redebit = None
        /\ worth[doc.plan] = doc.fee - doc.revert
    BY <1>1, <2>1 DEF Underway, Priced
  <2>3. ~Pending(doc.plan) \/ doc.fee = doc.revert
    BY <1>1, <1>3, <2>1, <2>2 DEF Debits, TellsDebit, Pending
  <2>4. charged = Amount + doc.fee
    BY <1>1, <2>2, <2>3 DEF Balance, Pending
  <2>5. /\ doc'.status = doc.status /\ doc'.redebit = None /\ doc'.plan = None
        /\ doc'.fee = doc.fee
    BY <1>1, <1>12, <2>2 DEF Planned, Doc
  <2>6. Balance' = Amount + doc.fee
    BY <2>2, <2>5 DEF Balance, Pending
  <2> QED
    BY <1>2, <2>4, <2>6
<1>13. CASE Reverted(p)
  <2>1. /\ doc.plan # None /\ proc[p].op \in Debit /\ doc.plan = proc[p].op
        /\ At(p, "abort")
    BY <1>4, <1>13 DEF Reverted, Debit
  <2>2. /\ doc.status \in Live /\ doc.redebit = None /\ money[doc.plan] = "none"
    BY <1>1, <2>1 DEF Underway, Debits, TellsDebit, At
  <2>3. charged = Amount + doc.revert
    BY <1>1, <2>1, <2>2 DEF Balance, Pending
  <2>4. /\ doc'.status = doc.status /\ doc'.redebit = None /\ doc'.plan = None
        /\ doc'.fee = doc.revert
    BY <1>1, <1>13, <2>2 DEF Reverted, Doc
  <2>5. Balance' = Amount + doc.revert
    BY <2>2, <2>4 DEF Balance, Pending
  <2> QED
    BY <1>2, <2>3, <2>5
<1>14. CASE Failed(p) \/ Released(p)
  <2>1. /\ doc.status \in Transient /\ doc'.status \in Transient
    BY <1>1, <1>14 DEF Failed, Released, Doc, Transient
  <2> QED
    BY <1>1, <1>2, <2>1 DEF Balance, Live, Transient
<1> QED
  BY <1>5, <1>6, <1>7, <1>8, <1>9, <1>10, <1>11, <1>12, <1>13, <1>14 DEF DocMoves

LEMMA BalanceStep ==
  ASSUME Known, [Act /\ Calm]_progVars
  PROVE  charged' = Balance'
<1>1. charged = Balance /\ Fresh /\ ProgOK
  BY DEF Known, Settled, Base
<1>2. ASSUME UNCHANGED <<doc, ledgerVars>> PROVE charged' = Balance'
  BY <1>1, <1>2 DEF ledgerVars, Balance, Pending
<1>3. ASSUME NEW p \in Process, NEW f \in Fees, Creates(p, f) PROVE charged' = Balance'
  <2>1. doc.status = "absent" /\ money[Creation] = "none"
    BY <1>1, <1>3 DEF Known, Base, Creates, DocFits, Fresh, Op, Chargeable
  <2>2. doc'.status = "initializing" /\ money' = money /\ charged' = charged
    BY <1>3 DEF Creates
  <2> QED
    BY <1>1, <2>1, <2>2 DEF Balance, Live, Transient
<1> QED
  BY <1>2, <1>3, StepKinds, BalanceMoves, BalanceWrites, BalanceClaims
     DEF progVars, Reads

LEMMA SettledStep ==
  Known /\ [Act /\ Calm]_progVars => Settled'
BY UnderwayStep, AloneStep, DebitsStep, AttemptStep, PricedStep, BalanceStep DEF Settled

LEMMA InitSettled == Init => Settled
<1> SUFFICES ASSUME Init PROVE Settled
  OBVIOUS
<1> USE WithdrawalsAssumption
<1>1. /\ doc.status \in {"pending", "absent"} /\ doc.credit = None
      /\ doc.redebit = None /\ doc.plan = None /\ doc.fee = 0
      /\ doc.status = "pending" <=> Created
  BY DEF Init, NoDoc
<1>2. \A p \in Process : /\ proc[p].job = "none" /\ proc[p].op = None
                         /\ proc[p].at = "idle"
  BY DEF Init, Idle
<1>3. \A o \in Debit : o \in Op /\ o \in Chargeable /\ o # Creation /\ o # None
  BY DEF Debit, Op, Chargeable
<1>4. Underway
  BY <1>1, <1>2 DEF Underway, Transient, Job
<1>5. Alone
  BY <1>2, <1>3 DEF Alone, Debit
<1>6. Debits
  <2>1. ASSUME NEW o \in Debit PROVE Told(o)
    <3>1. log[o] = "open" /\ money[o] = "none" /\ worth[o] = 0 /\ o \notin sealed
      BY <1>3 DEF Init
    <3> QED
      BY <3>1 DEF Told
  <2> QED
    BY <2>1, <1>2, <1>3 DEF Debits
<1>7. Attempt
  BY <1>1, <1>2 DEF Attempt, Transient, Job
<1>8. Priced
  <2>1. Refund \cap named = {}
    BY DEF Init
  <2> QED
    BY <1>1, <1>2, <2>1 DEF Priced, Job
<1>9. charged = Balance
  <2>1. charged = IF Created THEN Amount ELSE 0
    BY DEF Init
  <2>2. Amount + 0 = Amount
    OBVIOUS
  <2> QED
    BY <1>1, <2>1, <2>2 DEF Balance, Pending, Live, Transient
<1> QED
  BY <1>4, <1>5, <1>6, <1>7, <1>8, <1>9 DEF Settled

\* The history remembers what the flows do not allow for.
LEMMA CalmStep ==
  ASSUME [Next]_vars, strayed' = {}
  PROVE  strayed = {} /\ [Act /\ Calm]_progVars
<1>1. CASE UNCHANGED vars
  BY <1>1 DEF vars
<1>2. CASE Next
  <2>1. strayed = {} /\ \A x \in Stray : ~Strays(x)
    BY <1>2 DEF Next
  <2>2. Calm
    BY <2>1 DEF Calm, Strays, Stray
  <2> QED
    BY <1>2, <2>1, <2>2 DEF Next
<1> QED
  BY <1>1, <1>2

\* Once every intention is cleared, the client has paid for the withdrawal
\* exactly what it is worth while it lives and nothing once it is rejected,
\* cancelled or was never created: whatever the requests, the healer and their
\* deaths did, and whichever requests the constants allow, until a step does
\* one of the things of Stray.
THEOREM ChargedRight == Spec => []ChargedExactly
<1> DEFINE Sound == strayed = {} => RefundFits /\ Settled
<1>1. Init => Sound
  BY InitSettled, InitRefundFits
<1>2. Base /\ Sound /\ [Next]_vars => Sound'
  <2> SUFFICES ASSUME Base, Sound, [Next]_vars, strayed' = {}
               PROVE  RefundFits' /\ Settled'
    OBVIOUS
  <2>1. [Act /\ Calm]_progVars /\ RefundFits /\ Settled
    BY CalmStep
  <2>2. [Act /\ ~Unseen]_progVars
    BY <2>1 DEF Calm
  <2> QED
    BY <2>1, <2>2, SettledStep, RefundFitsStep DEF Known
<1>3. Base /\ Sound => ChargedExactly
  <2> SUFFICES ASSUME Base, Settled, strayed = {}, Quiet PROVE charged = Due
    BY DEF ChargedExactly
  <2>1. /\ doc.credit = None /\ doc.redebit = None /\ doc.plan = None /\ ~doc.init
        /\ charged = Balance
    BY DEF Quiet, Settled
  <2>2. doc.status \in Transient => money[Creation] # "moved"
    BY <2>1 DEF Base, DocFits, FailedInitSettled, Transient
  <2> QED
    BY <2>1, <2>2 DEF Balance, Pending, Due
<1> QED
  BY <1>1, <1>2, <1>3, Invariant, PTL DEF Spec

-----------------------------------------------------------------------------
(* The op_ids as operations of OpLedger                                    *)

\* A fee changed on a creation that is still half made is the one request that
\* makes the healer give back another amount than was charged.
FeesAfterCreation == ~({"create", "fee"} \subseteq Kinds)

\* Who charges, burns or gives back an op_id holds what it is worth.
OnDebit(l) ==
  \/ l.job \in {"create", "healInit"}
  \/ l.op \in Chargeable /\ l.at \in DebitCalls \ {"finish"}

TellsCost(p) == LET l == proc[p] IN
  /\ OnDebit(l) => l.cost = worth[l.op] /\ worth[l.op] > 0
  /\ l.at \in {"pay", "settlePay"} => worth[l.op] < 0

\* What each intention of the document is worth to the client.
Costs ==
  /\ \A o \in Op : worth[o] \in Worths \cup {0}
  /\ doc.credit # None => worth[doc.credit] < 0
  /\ doc.redebit # None => worth[doc.redebit] > 0
  /\ doc.status \in Transient => worth[Creation] = Amount + doc.fee
  /\ \A o \in sealed : worth[o] > 0

\* Who is there only because of the requests made, and of how it all began.
Origins ==
  /\ doc.status \in Transient => "create" \in Kinds
  /\ doc.plan # None => "fee" \in Kinds
  /\ Created => Creation \in named /\ doc.status \notin Transient \cup {"absent"}
  /\ \A p \in Process :
       /\ Job(p, {"create", "healInit"}) => "create" \in Kinds /\ ~Created
       /\ Job(p, {"fee", "healFee"}) => "fee" \in Kinds

Costed == Costs /\ Origins /\ \A p \in Process : TellsCost(p)

\* What a process tells of its op_id stands while others step.
LEMMA OthersCost ==
  ASSUME Base, NEW q \in Process, TellsCost(q), proc'[q] = proc[q],
         \A x \in named : worth'[x] = worth[x]
  PROVE  TellsCost(q)'
<1> USE WithdrawalsAssumption
<1>1. Fits(proc[q]) /\ proc[q].op \in named \cup {None}
  BY DEF Base, Placed, Fresh
<1>2. /\ proc[q].job \in {"create", "healInit"} => proc[q].op # None
      /\ proc[q].at \in {"pay", "settlePay"} => proc[q].op # None
      /\ proc[q].op \in Chargeable => proc[q].op # None
  <2>1. proc[q].job \in {"create", "healInit"} => proc[q].op = Creation
    BY <1>1 DEF Fits, Idle
  <2>2. proc[q].at \in {"pay", "settlePay"} => proc[q].op \in Op
    BY OpsOfCalls DEF Base, At, Op, Chargeable
  <2> QED
    BY <2>1, <2>2 DEF Op, Chargeable
<1> QED
  BY <1>1, <1>2 DEF TellsCost, OnDebit

\* A process that idles, or has nothing in hand, tells nothing.
LEMMA IdleCost ==
  ASSUME NEW p \in Process, proc'[p] = Idle
  PROVE  TellsCost(p)'
  BY WithdrawalsAssumption DEF TellsCost, OnDebit, Idle, DebitCalls

\* A call that leads to another keeps what it tells.
LEMMA GotoCost ==
  ASSUME Base, NEW p \in Process, TellsCost(p), worth' = worth,
         NEW call \in Calls \ {"pay", "settlePay"}, Goto(p, call),
         \/ call \notin DebitCalls \ {"finish"}
         \/ proc[p].op \notin Chargeable
         \/ proc[p].at \in DebitCalls \ {"finish"}
         \/ proc[p].job \in {"create", "healInit"}
  PROVE  TellsCost(p)'
<1>1. /\ proc'[p].at = call /\ proc'[p].job = proc[p].job
      /\ proc'[p].op = proc[p].op /\ proc'[p].cost = proc[p].cost
  BY GotoStep DEF Base
<1> QED
  BY <1>1 DEF TellsCost, OnDebit

-----------------------------------------------------------------------------
\* No step brings in what no request could have begun.
LEMMA OriginsStep ==
  ASSUME Base, Origins, [Act]_progVars
  PROVE  Origins'
<1> USE WithdrawalsAssumption
<1>0. ProgOK /\ Placed /\ DocFits /\ doc \in Doc
  BY DEF Base, ProgOK
<1>1. CASE UNCHANGED progVars
  BY <1>1 DEF progVars, ledgerVars, Origins, Job
<1>2. ASSUME NEW p \in Process, NEW l, Reads(p, l),
             l.job \in {"create", "healInit"} => "create" \in Kinds /\ ~Created,
             l.job \in {"fee", "healFee"} => "fee" \in Kinds
      PROVE  Origins'
  BY <1>2 DEF Reads, ledgerVars, Origins, Job
<1>3. ASSUME NEW p \in Process, DocKeeps, named \subseteq named',
             \A q \in Process \ {p} : proc'[q] = proc[q],
             proc'[p].job \in {proc[p].job, "none"},
             doc'.plan # None => doc.plan # None \/ proc[p].job \in {"fee", "healFee"}
      PROVE  Origins'
  BY <1>0, <1>3 DEF DocKeeps, Origins, Job, Transient
<1>4. ASSUME NEW p \in Request, Ask(p) PROVE Origins'
  <2>1. p \in Process
    BY DEF Process
  <2>2. CASE "create" \in Kinds /\ CreateInsert(p)
    <3>1. PICK f \in Fees : Creates(p, f)
      BY <1>0, <2>1, <2>2, CreateStep
    <3>2. ~Created
      BY <3>1 DEF Creates, Origins
    <3> QED
      BY <2>2, <3>1, <3>2 DEF Creates, Origins, Job
  <2>3. CASE CancelRead(p) \/ StaffRead(p) \/ (Delivered /\ MarkPaidRead(p))
    BY <1>0, <1>2, <2>1, <2>3, CancelReads, StaffReads, MarkPaidReads
  <2>4. CASE "fee" \in Kinds /\ FeeRead(p)
    BY <1>0, <1>2, <2>1, <2>4, FeeReads
  <2> QED
    BY <1>4, <2>2, <2>3, <2>4 DEF Ask
<1>5. CASE Heal
  <2>1. PICK l \in Local : Reads(Healer, l) /\ HealTakes(l)
    BY <1>0, <1>5, HealStep
  <2>2. /\ l.job \in {"create", "healInit"} => "create" \in Kinds /\ ~Created
        /\ l.job \in {"fee", "healFee"} => "fee" \in Kinds
    BY <2>1 DEF HealTakes, Origins, Transient
  <2> QED
    BY <1>2, <2>1, <2>2 DEF Process
<1>6. ASSUME NEW p \in Process, Run(p) PROVE Origins'
  <2>1. CASE CancelClaim(p) \/ EnterRejected(p) \/ LeaveRejected(p) \/ FeeClaim(p)
    <3>1. named \subseteq named'
      BY <2>1 DEF CancelClaim, EnterRejected, LeaveRejected, FeeClaim, Refunding, Name
    <3>2. /\ DocKeeps /\ proc'[p].job \in {proc[p].job, "none"}
          /\ \A q \in Process \ {p} : proc'[q] = proc[q]
      BY <1>0, <2>1, DocClaim
    <3>3. doc'.plan # None => doc.plan # None \/ proc[p].job \in {"fee", "healFee"}
      <4>1. CASE FeeClaim(p)
        BY <4>1 DEF FeeClaim, Job
      <4>2. CASE CancelClaim(p) \/ EnterRejected(p) \/ LeaveRejected(p)
        BY <1>0, <4>2 DEF CancelClaim, EnterRejected, LeaveRejected, Refunding, Doc
      <4> QED
        BY <2>1, <4>1, <4>2
    <3> QED
      BY <1>3, <3>1, <3>2, <3>3
  <2>2. CASE ~(CancelClaim(p) \/ EnterRejected(p) \/ LeaveRejected(p) \/ FeeClaim(p))
    <3>1. Continues(p)
      BY <1>0, <1>6, <2>2, RunContinues
    <3>2. DocKeeps /\ DocDrops /\ named' = named
      <4>1. CASE \/ Ensure(p) \/ Charge(p) \/ Outcome(p) \/ Refused(p)
                 \/ Burn(p) \/ BurnToken(p) \/ GiveBack(p) \/ MarkUndone(p)
                 \/ PayRefund(p) \/ SettlePay(p) \/ FeeCredit(p)
        BY <1>0, <4>1, LedgerTouches DEF DocKeeps, DocDrops, DocFits
      <4>2. CASE \/ ClearRefund(p) \/ SettleClear(p) \/ Reread(p)
                 \/ CreateDelete(p) \/ CreateActivate(p)
                 \/ MoneylessClaim(p) \/ PlainClaim(p)
                 \/ RedebitFinish(p) \/ RedebitAbort(p)
                 \/ MarkPaidClaim(p) \/ FeeFinish(p) \/ FeeRevert(p)
                 \/ HealInitClaim(p) \/ HealInitDone(p)
        BY <1>0, <4>2, DocRun, DocRunDrops DEF ledgerVars
      <4> QED
        BY <1>6, <2>2, <4>1, <4>2 DEF Run
    <3> QED
      BY <1>3, <3>1, <3>2 DEF Continues, DocDrops
  <2> QED
    BY <2>1, <2>2
<1>7. ASSUME NEW p \in Process, Die(p) PROVE Origins'
  <2>1. proc'[p].job = "none" /\ \A q \in Process \ {p} : proc'[q] = proc[q]
    BY <1>0, <1>7, EndStep DEF Die, Idle
  <2> QED
    BY <1>7, <2>1 DEF Die, ledgerVars, Origins, Job
<1> QED
  BY <1>1, <1>4, <1>5, <1>6, <1>7 DEF Act

-----------------------------------------------------------------------------
\* Only a change of fee writes the fee of a withdrawal that is half made.
LEMMA HalfMadeFee ==
  ASSUME Base, NEW p \in Process,
         \/ ClearRefund(p) \/ SettleClear(p) \/ Reread(p)
         \/ CreateDelete(p) \/ CreateActivate(p)
         \/ MoneylessClaim(p) \/ PlainClaim(p) \/ RedebitFinish(p) \/ RedebitAbort(p)
         \/ MarkPaidClaim(p) \/ FeeFinish(p) \/ FeeRevert(p)
         \/ HealInitClaim(p) \/ HealInitDone(p),
         doc'.status \in Transient
  PROVE  doc'.fee = doc.fee \/ proc[p].job \in {"fee", "healFee"}
<1>1. doc \in Doc
  BY DEF Base, ProgOK
<1> USE <1>1 DEF Doc
<1>2. CASE ClearRefund(p) \/ SettleClear(p)
  BY <1>2 DEF ClearRefund, SettleClear, ClearMarker
<1>3. CASE Reread(p)
  BY <1>3 DEF Reread
<1>4. CASE CreateDelete(p)
  BY <1>4 DEF CreateDelete, NoDoc, Transient
<1>5. CASE CreateActivate(p)
  BY <1>5 DEF CreateActivate
<1>6. CASE MoneylessClaim(p)
  <2>1. doc' = doc \/ doc' = [doc EXCEPT !.status = proc[p].want]
    BY <1>6, Zenon DEF MoneylessClaim
  <2> QED
    BY <2>1
<1>7. CASE PlainClaim(p)
  <2>1. doc' = doc \/ doc' = [doc EXCEPT !.status = proc[p].want]
    BY <1>7, Zenon DEF PlainClaim
  <2> QED
    BY <2>1
<1>8. CASE RedebitFinish(p) \/ RedebitAbort(p) \/ MarkPaidClaim(p)
  <2>1. CASE RedebitFinish(p)
    BY <2>1 DEF RedebitFinish
  <2>2. CASE RedebitAbort(p)
    BY <2>2 DEF RedebitAbort
  <2>3. CASE MarkPaidClaim(p)
    BY <2>3 DEF MarkPaidClaim
  <2> QED
    BY <1>8, <2>1, <2>2, <2>3
<1>9. CASE FeeFinish(p) \/ FeeRevert(p)
  BY <1>9 DEF FeeFinish, FeeRevert, Job
<1>10. CASE HealInitClaim(p) \/ HealInitDone(p)
  BY <1>10 DEF HealInitClaim, HealInitDone
<1> QED
  BY <1>2, <1>3, <1>4, <1>5, <1>6, <1>7, <1>8, <1>9, <1>10

\* What an op_id can be given.
LEMMA WorthsOf ==
  ASSUME NEW f \in Fees, NEW g \in Fees
  PROVE  /\ Amount + f \in Worths /\ -(Amount + f) \in Worths /\ f - g \in Worths
         /\ Amount + f > 0 /\ -(Amount + f) < 0
<1>1. f \in Nat /\ Amount \in Nat \ {0}
  BY WithdrawalsAssumption
<1>2. Amount + f > 0 /\ -(Amount + f) < 0
  BY <1>1
<1> QED
  BY <1>2 DEF Worths

\* Each intention keeps what it is worth until it is cleared.
LEMMA CostsStep ==
  ASSUME FeesAfterCreation, Base, Costed, [Act]_progVars
  PROVE  Costs'
<1> USE WithdrawalsAssumption
<1>0. /\ ProgOK /\ Placed /\ DocFits /\ Fresh /\ Costs /\ Origins /\ doc \in Doc
      /\ \A p \in Process : proc[p].fee \in Fees /\ Fits(proc[p])
      /\ Creation \in Op /\ Refund \subseteq Op /\ Redebit \subseteq Op
      /\ FeeOp \subseteq Op /\ sealed \subseteq Op /\ named \subseteq Op
  BY DEF Base, ProgOK, Costed, Placed, Local, Op, Chargeable
<1>1. ASSUME doc' = doc, worth' = worth, sealed' = sealed PROVE Costs'
  BY <1>0, <1>1 DEF Costs
<1>2. ASSUME NEW o \in Op, NEW c \in Worths, o \notin named, worth'[o] = c,
             \A x \in Op \ {o} : worth'[x] = worth[x], sealed' = sealed,
             doc'.credit # doc.credit => doc'.credit = o /\ c < 0,
             doc'.redebit # doc.redebit => doc'.redebit = o /\ c > 0,
             doc'.status \in Transient =>
               \/ doc.status \in Transient /\ doc'.fee = doc.fee
               \/ o = Creation /\ c = Amount + doc'.fee
      PROVE  Costs'
  <2>1. \A x \in named \cap Op : worth'[x] = worth[x]
    BY <1>2
  <2>2. \A x \in sealed : x \in named
    BY <1>0 DEF Fresh, ProgOK
  <2>3. doc.status \in Transient => Creation \in named
    BY <1>0 DEF DocFits, Transient
  <2>4. {doc.credit, doc.redebit} \subseteq named \cup {None} /\ o # None
    BY <1>0, <1>2 DEF Fresh
  <2>5. \A x \in Op : worth'[x] \in Worths \cup {0}
    BY <1>0, <1>2 DEF Costs
  <2>6. (\A x \in sealed : worth[x] > 0)'
    BY <1>0, <1>2, <2>1, <2>2 DEF Costs
  <2>7. (doc.credit # None => worth[doc.credit] < 0)'
    BY <1>0, <1>2, <2>1, <2>4 DEF Costs, Doc
  <2>8. (doc.redebit # None => worth[doc.redebit] > 0)'
    BY <1>0, <1>2, <2>1, <2>4 DEF Costs, Doc
  <2>9. (doc.status \in Transient => worth[Creation] = Amount + doc.fee)'
    BY <1>0, <1>2, <2>1, <2>3 DEF Costs
  <2> QED
    BY <2>5, <2>6, <2>7, <2>8, <2>9 DEF Costs
<1>3. ASSUME NEW p \in Request, Ask(p) PROVE Costs'
  <2>1. p \in Process
    BY DEF Process
  <2>2. CASE CreateInsert(p)
    <3>1. PICK f \in Fees : Creates(p, f)
      BY <1>0, <2>1, <2>2, CreateStep
    <3> QED
      BY <1>0, <1>2, <3>1, WorthsOf DEF Creates
  <2>3. CASE CancelRead(p) \/ StaffRead(p) \/ (Delivered /\ MarkPaidRead(p)) \/ FeeRead(p)
    BY <1>1, <2>3 DEF CancelRead, StaffRead, MarkPaidRead, FeeRead, ledgerVars
  <2> QED
    BY <1>3, <2>2, <2>3 DEF Ask
<1>4. CASE Heal
  BY <1>1, <1>4 DEF Heal, HealCredit, HealInit, HealRedebit, HealFee, HealStart, ledgerVars
<1>5. ASSUME NEW p \in Process, NEW s \in {"cancelled", "rejected"}, Refunding(p, s),
             UNCHANGED <<log, sealed, money, charged>>
      PROVE  Costs'
  <2>1. PICK r \in Refund : Refunds(p, r, s)
    BY <1>0, <1>5, RefundStep DEF Status
  <2>2. -(Amount + proc[p].fee) \in Worths /\ -(Amount + proc[p].fee) < 0
    BY <1>0, WorthsOf
  <2> QED
    BY <1>0, <1>2, <1>5, <2>1, <2>2 DEF Refunds, Named, Transient
<1>6. ASSUME NEW p \in Process, Run(p) PROVE Costs'
  <2>1. CASE CancelClaim(p)
    BY <1>1, <1>5, <2>1 DEF CancelClaim
  <2>2. CASE EnterRejected(p)
    BY <1>1, <1>5, <2>2 DEF EnterRejected
  <2>3. CASE LeaveRejected(p)
    <3>1. ASSUME NEW d \in Redebit, Redebits(p, d), Leavable(p) PROVE Costs'
      <4>1. Amount + proc[p].fee \in Worths /\ Amount + proc[p].fee > 0
        BY <1>0, WorthsOf
      <4>2. proc[p].want \in Live \cup {"rejected"}
        <5>1. proc[p].job = "staff"
          BY <2>3 DEF LeaveRejected, StaffClaims, Job
        <5> QED
          BY <1>0, <5>1 DEF Fits, Idle
      <4> QED
        BY <1>0, <1>2, <3>1, <4>1, <4>2 DEF Redebits, Named, Transient, Live
    <3> QED
      BY <1>0, <1>1, <2>3, <3>1, RedebitStep
  <2>4. CASE FeeClaim(p)
    <3>1. ASSUME NEW f \in Fees, NEW o \in FeeOp, Replans(p, o, f) PROVE Costs'
      <4>1. doc.status \notin Transient
        BY <1>0, <2>4 DEF FeeClaim, Job, Origins, FeesAfterCreation
      <4>2. f - doc.fee \in Worths
        BY <1>0, WorthsOf DEF Doc
      <4> QED
        BY <1>0, <1>2, <3>1, <4>1, <4>2 DEF Replans, Named
    <3> QED
      BY <1>0, <1>1, <2>4, <3>1, ReplanStep
  <2>5. CASE BurnToken(p)
    <3>1. proc[p].op \in Chargeable /\ worth[proc[p].op] > 0
      BY <1>0, <2>5, OpsOfCalls DEF BurnToken, At, Costed, TellsCost, OnDebit, DebitCalls
    <3>2. doc' = doc /\ worth' = worth /\ sealed' = sealed \cup {proc[p].op}
      BY <2>5 DEF BurnToken
    <3> QED
      BY <1>0, <3>1, <3>2 DEF Costs
  <2>6. CASE \/ Ensure(p) \/ Charge(p) \/ Outcome(p) \/ Refused(p)
             \/ Burn(p) \/ GiveBack(p) \/ MarkUndone(p)
             \/ PayRefund(p) \/ SettlePay(p) \/ FeeCredit(p)
    BY <1>1, <2>6 DEF Ensure, Charge, Outcome, Refused, Burn, GiveBack, MarkUndone,
       PayRefund, SettlePay, FeeCredit, Pay, ledgerVars
  <2>7. CASE \/ ClearRefund(p) \/ SettleClear(p) \/ Reread(p)
             \/ CreateDelete(p) \/ CreateActivate(p)
             \/ MoneylessClaim(p) \/ PlainClaim(p) \/ RedebitFinish(p) \/ RedebitAbort(p)
             \/ MarkPaidClaim(p) \/ FeeFinish(p) \/ FeeRevert(p)
             \/ HealInitClaim(p) \/ HealInitDone(p)
    <3>1. DocDrops /\ DocKeeps /\ worth' = worth /\ sealed' = sealed
      BY <1>0, <2>7, DocRunDrops, DocRun DEF ledgerVars
    <3>2. doc'.status \in Transient => doc.status \in Transient /\ doc'.fee = doc.fee
      <4>1. doc'.status \in Transient => doc.status \in Transient
        BY <3>1 DEF DocKeeps, Transient
      <4>2. proc[p].job \in {"fee", "healFee"} => doc.status \notin Transient
        BY <1>0 DEF Origins, FeesAfterCreation, Job
      <4> QED
        BY <2>7, <4>1, <4>2, HalfMadeFee
    <3> QED
      BY <1>0, <3>1, <3>2 DEF Costs, DocDrops
  <2> QED
    BY <1>6, <2>1, <2>2, <2>3, <2>4, <2>5, <2>6, <2>7 DEF Run
<1>7. ASSUME NEW p \in Process, Die(p) PROVE Costs'
  BY <1>1, <1>7 DEF Die, ledgerVars
<1>8. CASE UNCHANGED progVars
  BY <1>1, <1>8 DEF progVars, ledgerVars
<1> QED
  BY <1>3, <1>4, <1>6, <1>7, <1>8 DEF Act

\* A step of a helper leaves its process with the cost it had.
LEMMA TellsRun ==
  ASSUME Base, Costed, NEW p \in Process,
         \/ Ensure(p) \/ Charge(p) \/ Outcome(p) \/ Refused(p)
         \/ Burn(p) \/ BurnToken(p) \/ GiveBack(p) \/ MarkUndone(p)
         \/ PayRefund(p) \/ SettlePay(p) \/ FeeCredit(p)
  PROVE  TellsCost(p)'
<1>0. ProgOK /\ Fits(proc[p]) /\ TellsCost(p) /\ worth' = worth /\ Placed
  <2>1. worth' = worth
    BY LedgerTouches DEF Base
  <2> QED
    BY <2>1 DEF Base, Placed, Costed
<1>1. CASE End(p)
  BY <1>0, <1>1, EndStep, IdleCost
<1>2. ASSUME NEW call \in Calls \ {"pay", "settlePay"}, Goto(p, call),
             proc[p].at \in DebitCalls \ {"finish"}
      PROVE  TellsCost(p)'
  BY <1>0, <1>2, GotoCost
<1>3. CASE Ensure(p) \/ Charge(p) \/ Outcome(p) \/ Refused(p)
  BY <1>2, <1>3 DEF Ensure, Charge, Outcome, Refused, At, DebitCalls, Calls
<1>4. CASE Burn(p) \/ BurnToken(p) \/ GiveBack(p) \/ MarkUndone(p)
  BY <1>1, <1>2, <1>4 DEF Burn, BurnToken, GiveBack, MarkUndone, AfterBurn, At,
     DebitCalls, Calls
<1>5. CASE PayRefund(p) \/ SettlePay(p) \/ FeeCredit(p)
  <2>1. \/ Goto(p, "clear") \/ Goto(p, "settleClear") \/ Goto(p, "finish")
    BY <1>5 DEF PayRefund, SettlePay, FeeCredit, Pay
  <2> QED
    BY <1>0, <2>1, GotoCost DEF Calls, DebitCalls
<1> QED
  BY <1>3, <1>4, <1>5

\* So does a step that writes the document.
LEMMA TellsDoc ==
  ASSUME Base, Costed, NEW p \in Process,
         \/ ClearRefund(p) \/ SettleClear(p) \/ Reread(p)
         \/ CreateDelete(p) \/ CreateActivate(p)
         \/ MoneylessClaim(p) \/ PlainClaim(p) \/ RedebitFinish(p) \/ RedebitAbort(p)
         \/ MarkPaidClaim(p) \/ FeeFinish(p) \/ FeeRevert(p)
         \/ HealInitClaim(p) \/ HealInitDone(p)
  PROVE  TellsCost(p)'
<1>0. ProgOK /\ Fits(proc[p]) /\ TellsCost(p) /\ worth' = worth
  <2>1. worth' = worth
    BY DocRunDrops DEF Base, ledgerVars
  <2> QED
    BY <2>1 DEF Base, Placed, Costed
<1>1. CASE End(p)
  BY <1>0, <1>1, EndStep, IdleCost
<1>2. CASE SettleClear(p)
  BY <1>0, <1>2, GotoCost DEF SettleClear, Calls, DebitCalls
<1>3. CASE Goto(p, "burn") /\ (CreateActivate(p) \/ HealInitClaim(p))
  BY <1>0, <1>3, GotoCost DEF CreateActivate, HealInitClaim, Job, Calls
<1>4. CASE Reread(p)
  <2> DEFINE l == [proc[p] EXCEPT !.at = "claim", !.seen = doc.status,
                                  !.fee = doc.fee, !.op = None]
  <2>1. proc[p].job = "staff"
    BY <1>0, <1>4 DEF Reread, Fits, At, Idle, DebitCalls
  <2>2. l.at = "claim" /\ l.job = "staff"
    BY <1>0, <2>1 DEF ProgOK, Local
  <2>3. proc'[p] = l
    BY <1>0, <1>4 DEF Reread, ProgOK
  <2> HIDE DEF l
  <2> QED
    BY <2>2, <2>3 DEF TellsCost, OnDebit, DebitCalls
<1> QED
  BY <1>1, <1>2, <1>3, <1>4 DEF ClearRefund, CreateDelete, CreateActivate,
      MoneylessClaim, PlainClaim, RedebitFinish, RedebitAbort, MarkPaidClaim,
      FeeFinish, FeeRevert, HealInitClaim, HealInitDone

\* Every step leaves every process with what it tells.
LEMMA TellsStep ==
  ASSUME FeesAfterCreation, Base, Costed, [Act]_progVars
  PROVE  \A p \in Process : TellsCost(p)'
<1> USE WithdrawalsAssumption
<1>0. /\ ProgOK /\ Placed /\ DocFits /\ Fresh /\ Costs /\ Origins /\ doc \in Doc
      /\ \A p \in Process : /\ proc[p].fee \in Fees /\ Fits(proc[p])
                            /\ TellsCost(p)
      /\ Creation \in Op /\ Refund \subseteq Op /\ Redebit \subseteq Op
      /\ FeeOp \subseteq Op /\ named \subseteq Op
  BY DEF Base, ProgOK, Costed, Placed, Local, Op, Chargeable
<1>1. ASSUME NEW p \in Process, \A q \in Process \ {p} : proc'[q] = proc[q],
             \A x \in named : worth'[x] = worth[x], TellsCost(p)'
      PROVE  \A q \in Process : TellsCost(q)'
  BY <1>0, <1>1, OthersCost
<1>2. CASE UNCHANGED progVars
  <2>1. \A q \in Process : proc'[q] = proc[q] /\ worth' = worth
    BY <1>2 DEF progVars, ledgerVars
  <2> QED
    BY <1>0, <2>1, OthersCost
<1>3. ASSUME NEW p \in Process, NEW l \in Local, Reads(p, l),
             OnDebit(l) => l.cost = worth[l.op] /\ worth[l.op] > 0,
             l.at \in {"pay", "settlePay"} => worth[l.op] < 0
      PROVE  \A q \in Process : TellsCost(q)'
  <2>1. TellsCost(p)'
    BY <1>3 DEF Reads, ledgerVars, TellsCost, OnDebit
  <2> QED
    BY <1>1, <1>3, <2>1 DEF Reads, ledgerVars
<1>4. ASSUME NEW p \in Request, Ask(p) PROVE \A q \in Process : TellsCost(q)'
  <2>1. p \in Process
    BY DEF Process
  <2>2. CASE CreateInsert(p)
    <3>1. PICK f \in Fees : Creates(p, f)
      BY <1>0, <2>1, <2>2, CreateStep
    <3>2. TellsCost(p)'
      BY <3>1, WorthsOf DEF Creates, TellsCost, OnDebit
    <3>3. \A x \in named : worth'[x] = worth[x]
      BY <1>0, <3>1 DEF Creates
    <3> QED
      BY <1>1, <2>1, <3>1, <3>2, <3>3 DEF Creates
  <2>3. CASE CancelRead(p)
    <3>1. PICK l \in Local : Reads(p, l) /\ l.job = "cancel" /\ l.op = None
      BY <1>0, <2>1, <2>3, CancelReads
    <3>2. ~OnDebit(l) /\ l.at \notin {"pay", "settlePay"}
      BY <3>1 DEF Reads, Fits, OnDebit, Idle, Op, Chargeable
    <3> QED
      BY <1>3, <2>1, <3>1, <3>2
  <2>4. CASE StaffRead(p)
    <3>1. PICK l \in Local : /\ Reads(p, l) /\ l.job = "staff" /\ l.op = doc.credit
                             /\ l.at = IF doc.credit = None THEN "claim" ELSE "settlePay"
      BY <1>0, <2>1, <2>4, StaffReads
    <3>2. ~OnDebit(l)
      BY <3>1 DEF OnDebit, DebitCalls
    <3>3. l.at \in {"pay", "settlePay"} => worth[l.op] < 0
      BY <1>0, <3>1 DEF Costs
    <3> QED
      BY <1>3, <2>1, <3>1, <3>2, <3>3
  <2>5. CASE Delivered /\ MarkPaidRead(p)
    <3>1. PICK l \in Local : Reads(p, l) /\ l.job = "markPaid" /\ l.op = None
      BY <1>0, <2>1, <2>5, MarkPaidReads
    <3>2. ~OnDebit(l) /\ l.at \notin {"pay", "settlePay"}
      BY <3>1 DEF Reads, Fits, OnDebit, Idle, Op, Chargeable
    <3> QED
      BY <1>3, <2>1, <3>1, <3>2
  <2>6. CASE FeeRead(p)
    <3>1. PICK l \in Local : Reads(p, l) /\ l.job = "fee" /\ l.op = None
      BY <1>0, <2>1, <2>6, FeeReads
    <3>2. ~OnDebit(l) /\ l.at \notin {"pay", "settlePay"}
      BY <3>1 DEF Reads, Fits, OnDebit, Idle, Op, Chargeable
    <3> QED
      BY <1>3, <2>1, <3>1, <3>2
  <2> QED
    BY <1>4, <2>2, <2>3, <2>4, <2>5, <2>6 DEF Ask
<1>5. CASE Heal
  <2>1. PICK l \in Local : Reads(Healer, l) /\ HealTakes(l)
    BY <1>0, <1>5, HealStep
  <2>2. CASE l.job = "healCredit" /\ l.at = "pay" /\ l.op = doc.credit /\ doc.credit # None
    <3>1. ~OnDebit(l) /\ worth[l.op] < 0
      BY <1>0, <2>2 DEF OnDebit, DebitCalls, Costs
    <3> QED
      BY <1>3, <2>1, <3>1 DEF Process
  <2>3. CASE /\ l.job = "healInit" /\ l.op = Creation /\ l.cost = Amount + doc.fee
             /\ l.at \in {"claim", "burn"} /\ doc.status \in Transient
    <3>1. l.cost = worth[l.op] /\ worth[l.op] > 0
      BY <1>0, <2>3, WorthsOf DEF Costs, Doc
    <3> QED
      BY <1>3, <2>1, <2>3, <3>1 DEF Process
  <2>4. CASE /\ l.job = "healRedebit" /\ l.at = "ensure" /\ l.op = doc.redebit
             /\ doc.redebit # None /\ l.cost = worth[doc.redebit]
    <3>1. l.cost = worth[l.op] /\ worth[l.op] > 0
      BY <1>0, <2>4 DEF Costs
    <3> QED
      BY <1>3, <2>1, <2>4, <3>1 DEF Process
  <2>5. CASE /\ l.job = "healFee" /\ l.at = SettleAt(worth[doc.plan]) /\ l.op = doc.plan
             /\ doc.plan # None /\ l.cost = worth[doc.plan]
    <3>1. worth[l.op] \in Int
      BY <1>0, <2>5 DEF Doc, ProgOK
    <3>2. /\ l.at \in DebitCalls \ {"finish"} => worth[l.op] > 0
          /\ l.at \in {"pay", "settlePay"} => worth[l.op] < 0
      BY <2>5, <3>1 DEF SettleAt, DebitCalls
    <3>3. OnDebit(l) => l.cost = worth[l.op] /\ worth[l.op] > 0
      BY <2>5, <3>2 DEF OnDebit
    <3> QED
      BY <1>3, <2>1, <3>2, <3>3 DEF Process
  <2> QED
    BY <2>1, <2>2, <2>3, <2>4, <2>5 DEF HealTakes, Transient
<1>6. ASSUME NEW p \in Process, Run(p) PROVE \A q \in Process : TellsCost(q)'
  <2>0. Fits(proc[p]) /\ TellsCost(p) /\ "moneyless" \in Calls
    BY <1>0 DEF Calls
  <2>1. ASSUME NEW o \in Op, NEW c \in Int, Named(p, o, c), TellsCost(p)'
        PROVE  \A q \in Process : TellsCost(q)'
    <3>1. \A x \in named : worth'[x] = worth[x]
      BY <1>0, <2>1 DEF Named
    <3> QED
      BY <1>1, <2>1, <3>1 DEF Named
  <2>2. ASSUME NEW s \in {"cancelled", "rejected"}, Refunding(p, s),
               UNCHANGED <<log, sealed, money, charged>>,
               proc[p].job \notin {"create", "healInit"}
        PROVE  \A q \in Process : TellsCost(q)'
    <3>1. PICK r \in Refund : Refunds(p, r, s)
      BY <1>0, <2>2, RefundStep DEF Status
    <3>2. -(Amount + proc[p].fee) \in Int /\ -(Amount + proc[p].fee) < 0
      BY <1>0, Amounts
    <3>3. TellsCost(p)'
      BY <2>2, <3>1, <3>2 DEF Refunds, Named, TellsCost, OnDebit, DebitCalls
    <3> QED
      BY <1>0, <2>1, <3>1, <3>2, <3>3 DEF Refunds
  <2>3. ASSUME UNCHANGED worth, End(p) \/ Goto(p, "moneyless")
        PROVE  \A q \in Process : TellsCost(q)'
    <3>1. TellsCost(p)'
      BY <1>0, <2>0, <2>3, EndStep, IdleCost, GotoCost DEF DebitCalls
    <3>2. \A q \in Process \ {p} : proc'[q] = proc[q]
      BY <1>0, <2>0, <2>3, EndStep, GotoStep
    <3> QED
      BY <1>1, <2>3, <3>1, <3>2
  <2>4. CASE CancelClaim(p)
    BY <2>2, <2>3, <2>4 DEF CancelClaim, Job
  <2>5. CASE EnterRejected(p)
    BY <2>2, <2>3, <2>5 DEF EnterRejected, StaffClaims, Job
  <2>6. CASE LeaveRejected(p)
    <3>1. ASSUME NEW d \in Redebit, Redebits(p, d) PROVE \A q \in Process : TellsCost(q)'
      <4>1. Amount + proc[p].fee \in Int /\ Amount + proc[p].fee > 0
        BY <1>0, Amounts
      <4>2. TellsCost(p)'
        BY <3>1, <4>1 DEF Redebits, Named, TellsCost
      <4> QED
        BY <1>0, <2>1, <3>1, <4>1, <4>2 DEF Redebits
    <3> QED
      BY <1>0, <2>0, <2>3, <2>6, <3>1, RedebitStep
  <2>7. CASE FeeClaim(p)
    <3>1. ASSUME NEW f \in Fees, NEW o \in FeeOp, Replans(p, o, f)
          PROVE  \A q \in Process : TellsCost(q)'
      <4>1. f - doc.fee \in Int /\ proc[p].job = "fee"
        <5>1. f \in Nat /\ doc.fee \in Nat
          BY <1>0, Amounts
        <5>2. proc[p].job = "fee"
          BY <2>7 DEF FeeClaim, Job
        <5> QED
          BY <5>1, <5>2
      <4>2. TellsCost(p)'
        BY <3>1, <4>1 DEF Replans, Named, TellsCost, OnDebit, SettleAt, DebitCalls
      <4> QED
        BY <1>0, <2>1, <3>1, <4>1, <4>2 DEF Replans
    <3> QED
      BY <1>0, <2>3, <2>7, <3>1, ReplanStep
  <2>8. CASE ~(CancelClaim(p) \/ EnterRejected(p) \/ LeaveRejected(p) \/ FeeClaim(p))
    <3>1. \A q \in Process \ {p} : proc'[q] = proc[q]
      BY <1>0, <1>6, <2>8, RunContinues DEF Continues
    <3>2. TellsCost(p)' /\ worth' = worth
      <4>1. CASE \/ Ensure(p) \/ Charge(p) \/ Outcome(p) \/ Refused(p)
                 \/ Burn(p) \/ BurnToken(p) \/ GiveBack(p) \/ MarkUndone(p)
                 \/ PayRefund(p) \/ SettlePay(p) \/ FeeCredit(p)
        BY <1>0, <4>1, TellsRun, LedgerTouches
      <4>2. CASE ~(\/ Ensure(p) \/ Charge(p) \/ Outcome(p) \/ Refused(p)
                   \/ Burn(p) \/ BurnToken(p) \/ GiveBack(p) \/ MarkUndone(p)
                   \/ PayRefund(p) \/ SettlePay(p) \/ FeeCredit(p))
        BY <1>0, <1>6, <2>8, <4>2, TellsDoc, DocRunDrops DEF Run, ledgerVars
      <4> QED
        BY <4>1, <4>2
    <3> QED
      BY <1>1, <3>1, <3>2
  <2> QED
    BY <2>4, <2>5, <2>6, <2>7, <2>8
<1>7. ASSUME NEW p \in Process, Die(p) PROVE \A q \in Process : TellsCost(q)'
  <2>1. proc'[p] = Idle /\ (\A q \in Process \ {p} : proc'[q] = proc[q]) /\ worth' = worth
    BY <1>0, <1>7, EndStep DEF Die, ledgerVars
  <2> QED
    BY <1>1, <2>1, IdleCost
<1> QED
  BY <1>2, <1>4, <1>5, <1>6, <1>7 DEF Act

\* At first nobody holds a cost.
LEMMA InitCosted == Init => Costed
<1> SUFFICES ASSUME Init PROVE Costed
  OBVIOUS
<1> USE WithdrawalsAssumption
<1>1. /\ doc.credit = None /\ doc.redebit = None /\ doc.plan = None
      /\ doc.status = IF Created THEN "pending" ELSE "absent"
  BY DEF Init, NoDoc
<1>2. \A o \in Op : worth[o] \in {Amount, 0}
  BY DEF Init
<1>3. Amount \in Worths
  <2>1. Amount + 0 \in Worths
    BY WorthsOf
  <2> QED
    BY <2>1
<1>4. sealed = {}
  BY DEF Init
<1>5. Costs
  BY <1>1, <1>2, <1>3, <1>4 DEF Costs, Transient
<1>6. \A p \in Process : proc[p] = Idle
  BY DEF Init
<1>7. Origins
  BY <1>1, <1>6 DEF Origins, Init, Job, Idle, Transient
<1>8. \A p \in Process : TellsCost(p)
  BY <1>6 DEF TellsCost, OnDebit, Idle, DebitCalls
<1> QED
  BY <1>5, <1>7, <1>8 DEF Costed

\* Together these are inductive.
LEMMA CostedInductive == FeesAfterCreation /\ Base /\ Costed /\ [Act]_progVars => Costed'
<1> SUFFICES ASSUME FeesAfterCreation, Base, Costed, [Act]_progVars PROVE Costed'
  OBVIOUS
<1>1. Origins'
  BY OriginsStep DEF Costed
<1> QED
  BY <1>1, CostsStep, TellsStep DEF Costed

-----------------------------------------------------------------------------
\* The first states of a withdrawal are first states of the ledger.
LEMMA InitLedger == Init => Ledger!LedgerInit
<1> SUFFICES ASSUME Init PROVE Ledger!LedgerInit
  OBVIOUS
<1> USE WithdrawalsAssumption
<1>1. -charged = IF Created THEN -Amount ELSE 0
  BY DEF Init
<1>2. ASSUME NEW x \in CreditOp \cup DebitOp PROVE OpStatus[x] = "open"
  <2>1. x[1] \in Op /\ x[2] # 0
    BY <1>2 DEF CreditOp, DebitOp, Op, Chargeable
  <2>2. x[1] = Creation => ~Created
    BY <1>2 DEF CreditOp, DebitOp
  <2>3. money[x[1]] = "none" /\ x[1] \notin sealed
    BY <2>1, <2>2 DEF Init
  <2> QED
    BY <2>3 DEF OpStatus
<1>3. OpStatus = [x \in CreditOp \cup DebitOp |-> "open"]
  BY <1>2 DEF OpStatus
<1> QED
  BY <1>1, <1>3 DEF Ledger!LedgerInit, Ledger!Op

\* An operation of the ledger is an op_id and what it is worth.
LEMMA LedgerOps ==
  ASSUME NEW x \in CreditOp \cup DebitOp
  PROVE  x[1] \in Op /\ x = <<x[1], x[2]>>
<1>1. CASE x \in CreditOp
  <2>1. x \in (Refund \cup FeeOp) \X Worths
    BY <1>1 DEF CreditOp
  <2> QED
    BY <2>1 DEF Op, Chargeable
<1>2. CASE x \in DebitOp
  <2>1. x \in Chargeable \X Worths
    BY <1>2 DEF DebitOp
  <2> QED
    BY <2>1 DEF Op
<1> QED
  BY <1>1, <1>2

\* A step that moves no money, and seals nothing, stutters.
LEMMA LedgerStutters ==
  ASSUME UNCHANGED <<worth, money, sealed, charged>>
  PROVE  UNCHANGED Ledger!ledgerVars
  BY DEF Ledger!ledgerVars, OpStatus

\* So does one that gives out an op_id: its money has not moved.
LEMMA NamingStutters ==
  ASSUME Base, NEW o \in Op, o \notin named, UNCHANGED <<money, sealed, charged>>,
         \A x \in Op \ {o} : worth'[x] = worth[x]
  PROVE  UNCHANGED Ledger!ledgerVars
<1>1. money[o] = "none" /\ o \notin sealed
  BY DEF Base, Fresh, ProgOK
<1>2. ASSUME NEW x \in CreditOp \cup DebitOp PROVE OpStatus'[x] = OpStatus[x]
  <2>1. x[1] \in Op
    BY <1>2, LedgerOps
  <2> QED
    BY <1>1, <2>1 DEF OpStatus
<1>3. OpStatus' = OpStatus
  BY <1>2 DEF OpStatus
<1> QED
  BY <1>3 DEF Ledger!ledgerVars

\* The operation that op_id o is, and the others, after a step about o.
LEMMA OtherOps ==
  ASSUME NEW o \in Op, worth' = worth,
         \A y \in Op \ {o} : money'[y] = money[y] /\ (y \in sealed' <=> y \in sealed)
  PROVE  \A x \in CreditOp \cup DebitOp :
           x # <<o, worth[o]>> => OpStatus'[x] = OpStatus[x]
<1> SUFFICES ASSUME NEW x \in CreditOp \cup DebitOp, x # <<o, worth[o]>>
             PROVE  OpStatus'[x] = OpStatus[x]
  OBVIOUS
<1>1. x[1] \in Op /\ x = <<x[1], x[2]>>
  BY LedgerOps
<1>2. CASE x[1] = o
  BY <1>1, <1>2 DEF OpStatus
<1>3. CASE x[1] # o
  BY <1>1, <1>3 DEF OpStatus
<1> QED
  BY <1>2, <1>3

\* And how far it got, before and after.
Reached(m, void) ==
  IF m = "moved" THEN "applied" ELSE IF m = "back" THEN "undone"
  ELSE IF void THEN "void" ELSE "open"

\* How far op_id o got, read off its money and its token.
LEMMA StatusOf ==
  ASSUME NEW o, NEW x \in CreditOp \cup DebitOp, x = <<o, worth[o]>>
  PROVE  /\ OpStatus[x] = Reached(money[o], o \in sealed)
         /\ worth' = worth => OpStatus'[x] = Reached(money'[o], o \in sealed')
<1>1. x[1] = o /\ x[2] = worth[x[1]]
  OBVIOUS
<1> QED
  BY <1>1 DEF OpStatus, Reached

\* When one operation gets further and the others do not.
LEMMA StatusStep ==
  ASSUME NEW x \in CreditOp \cup DebitOp, NEW s, OpStatus'[x] = s,
         \A y \in CreditOp \cup DebitOp : y # x => OpStatus'[y] = OpStatus[y]
  PROVE  OpStatus' = [OpStatus EXCEPT ![x] = s]
<1>1. /\ OpStatus = [y \in CreditOp \cup DebitOp |-> OpStatus[y]]
      /\ OpStatus' = [y \in CreditOp \cup DebitOp |-> OpStatus'[y]]
  BY DEF OpStatus
<1> QED
  BY <1>1

\* An op_id that is charged, burned or given back is a debit of the ledger.
LEMMA DebitOps ==
  ASSUME Base, Costed, NEW p \in Process, proc[p].op \in Chargeable, OnDebit(proc[p])
  PROVE  LET o == proc[p].op IN
         /\ o \in Op /\ worth[o] \in Worths /\ worth[o] > 0
         /\ proc[p].cost = worth[o]
         /\ <<o, worth[o]>> \in DebitOp
<1> DEFINE o == proc[p].op
<1> USE WithdrawalsAssumption
<1>1. o \in Op /\ proc[p].cost = worth[o] /\ worth[o] > 0
  BY DEF Costed, TellsCost, Op
<1>2. worth[o] \in Worths
  BY <1>1 DEF Costed, Costs
<1>3. o = Creation => ~Created
  <2>1. o = Creation => proc[p].job \in {"create", "healInit"}
    BY DEF Base, Placed, Fits, Idle, Op, Chargeable
  <2> QED
    BY <2>1 DEF Costed, Origins, Job
<1> QED
  BY <1>1, <1>2, <1>3 DEF DebitOp

\* A charge applies a debit.
LEMMA ChargeRefines ==
  ASSUME Base, Costed, NEW p \in Process, Charge(p)
  PROVE  [Ledger!LedgerNext]_(Ledger!ledgerVars)
<1> DEFINE o == proc[p].op
<1> DEFINE x == <<o, worth[o]>>
<1>1. o \in Chargeable /\ OnDebit(proc[p]) /\ ProgOK
  BY OpsOfCalls DEF Base, Charge, At, OnDebit, DebitCalls
<1>2. o \in Op /\ worth[o] \in Worths /\ worth[o] > 0 /\ x \in DebitOp
  BY <1>1, DebitOps
<1>3. worth' = worth /\ sealed' = sealed
  BY DEF Charge
<1>4. CASE UNCHANGED <<money, charged>>
  BY <1>3, <1>4, LedgerStutters
<1>5. CASE money[o] = "none" /\ o \notin sealed /\ Move(o)
  <2>1. money' = [money EXCEPT ![o] = "moved"] /\ charged' = charged + worth[o]
    BY <1>5 DEF Move
  <2>2. OpStatus[x] = "open" /\ OpStatus'[x] = "applied"
    <3>1. /\ OpStatus[x] = Reached(money[o], o \in sealed)
          /\ OpStatus'[x] = Reached(money'[o], o \in sealed')
      BY <1>2, <1>3, StatusOf
    <3>2. money'[o] = "moved"
      BY <1>1, <1>2, <2>1 DEF ProgOK
    <3> QED
      BY <1>5, <3>1, <3>2 DEF Reached
  <2>3. \A y \in CreditOp \cup DebitOp : y # x => OpStatus'[y] = OpStatus[y]
    BY <1>1, <1>2, <1>3, <2>1, OtherOps DEF ProgOK
  <2>4. OpStatus' = [OpStatus EXCEPT ![x] = "applied"]
    BY <1>2, <2>2, <2>3, StatusStep
  <2>5. -charged' = -charged - Moves[x]
    <3>1. Moves[x] = worth[o] /\ worth[o] \in Int /\ charged \in Int
      BY <1>1, <1>2 DEF Moves, ProgOK
    <3> QED
      BY <2>1, <3>1
  <2>6. Ledger!ApplyDebit(x)
    BY <1>2, <2>2, <2>4, <2>5 DEF Ledger!ApplyDebit
  <2> QED
    BY <1>2, <2>6 DEF Ledger!LedgerNext
<1> QED
  BY <1>4, <1>5 DEF Charge

\* A burn token voids a debit that was not charged.
LEMMA TokenRefines ==
  ASSUME Base, Costed, NEW p \in Process, BurnToken(p)
  PROVE  [Ledger!LedgerNext]_(Ledger!ledgerVars)
<1> DEFINE o == proc[p].op
<1> DEFINE x == <<o, worth[o]>>
<1>1. o \in Chargeable /\ OnDebit(proc[p]) /\ ProgOK
  BY OpsOfCalls DEF Base, BurnToken, At, OnDebit, DebitCalls
<1>2. o \in Op /\ x \in DebitOp
  BY <1>1, DebitOps
<1>3. UNCHANGED <<worth, money, charged>> /\ sealed' = sealed \cup {o}
  BY DEF BurnToken
<1>4. \A y \in CreditOp \cup DebitOp : y # x => OpStatus'[y] = OpStatus[y]
  BY <1>2, <1>3, OtherOps
<1>5. CASE money[o] # "none" \/ o \in sealed
  <2>1. OpStatus'[x] = OpStatus[x]
    <3>1. /\ OpStatus[x] = Reached(money[o], o \in sealed)
          /\ OpStatus'[x] = Reached(money'[o], o \in sealed')
      BY <1>2, <1>3, StatusOf
    <3>2. money[o] \in {"none", "moved", "back"} /\ money'[o] = money[o]
      BY <1>1, <1>2, <1>3 DEF ProgOK
    <3> QED
      BY <1>3, <1>5, <3>1, <3>2 DEF Reached
  <2>2. OpStatus' = OpStatus
    BY <1>4, <2>1 DEF OpStatus
  <2> QED
    BY <1>3, <2>2 DEF Ledger!ledgerVars
<1>6. CASE money[o] = "none" /\ o \notin sealed
  <2>1. OpStatus[x] = "open" /\ OpStatus'[x] = "void"
    <3>1. /\ OpStatus[x] = Reached(money[o], o \in sealed)
          /\ OpStatus'[x] = Reached(money'[o], o \in sealed')
      BY <1>2, <1>3, StatusOf
    <3> QED
      BY <1>3, <1>6, <3>1 DEF Reached
  <2>2. OpStatus' = [OpStatus EXCEPT ![x] = "void"]
    BY <1>2, <1>4, <2>1, StatusStep
  <2>3. Ledger!Seal(x)
    BY <1>3, <2>1, <2>2 DEF Ledger!Seal
  <2> QED
    BY <1>2, <2>3 DEF Ledger!LedgerNext
<1> QED
  BY <1>5, <1>6

\* A compensation undoes a charged debit, by exactly its charge.
LEMMA GiveBackRefines ==
  ASSUME Base, Costed, NEW p \in Process, GiveBack(p)
  PROVE  [Ledger!LedgerNext]_(Ledger!ledgerVars)
<1> DEFINE o == proc[p].op
<1> DEFINE x == <<o, worth[o]>>
<1>1. o \in Chargeable /\ OnDebit(proc[p]) /\ ProgOK
  BY OpsOfCalls DEF Base, GiveBack, At, OnDebit, DebitCalls
<1>2. /\ o \in Op /\ worth[o] > 0 /\ x \in DebitOp
      /\ proc[p].cost = worth[o]
  BY <1>1, DebitOps
<1>3. worth' = worth /\ sealed' = sealed
  BY DEF GiveBack
<1>4. CASE UNCHANGED <<money, charged>>
  BY <1>3, <1>4, LedgerStutters
<1>5. CASE /\ money[o] = "moved" /\ money' = [money EXCEPT ![o] = "back"]
           /\ charged' = charged - proc[p].cost
  <2>1. OpStatus[x] = "applied" /\ OpStatus'[x] = "undone"
    <3>1. /\ OpStatus[x] = Reached(money[o], o \in sealed)
          /\ OpStatus'[x] = Reached(money'[o], o \in sealed')
      BY <1>2, <1>3, StatusOf
    <3>2. money'[o] = "back"
      BY <1>1, <1>2, <1>5 DEF ProgOK
    <3> QED
      BY <1>5, <3>1, <3>2 DEF Reached
  <2>2. \A y \in CreditOp \cup DebitOp : y # x => OpStatus'[y] = OpStatus[y]
    BY <1>1, <1>2, <1>3, <1>5, OtherOps DEF ProgOK
  <2>3. OpStatus' = [OpStatus EXCEPT ![x] = "undone"]
    BY <1>2, <2>1, <2>2, StatusStep
  <2>4. -charged' = -charged + Moves[x]
    <3>1. Moves[x] = worth[o] /\ worth[o] \in Int /\ charged \in Int
      BY <1>1, <1>2 DEF Moves, ProgOK
    <3> QED
      BY <1>2, <1>5, <3>1
  <2>5. Ledger!GiveBack(x)
    BY <2>1, <2>3, <2>4 DEF Ledger!GiveBack
  <2> QED
    BY <1>2, <2>5 DEF Ledger!LedgerNext
<1> QED
  BY <1>4, <1>5 DEF GiveBack

\* A refund is a credit applied once.
LEMMA PayRefines ==
  ASSUME Base, Costed, NEW p \in Process,
         PayRefund(p) \/ SettlePay(p) \/ FeeCredit(p)
  PROVE  [Ledger!LedgerNext]_(Ledger!ledgerVars)
<1> USE WithdrawalsAssumption
<1> DEFINE o == proc[p].op
<1> DEFINE x == <<o, worth[o]>>
<1>1. /\ worth' = worth /\ sealed' = sealed /\ ProgOK
      /\ IF money[o] = "none" THEN Move(o) ELSE UNCHANGED <<money, charged>>
  BY DEF Base, PayRefund, SettlePay, FeeCredit, Pay
<1>2. o \in Refund \cup FeeOp /\ worth[o] < 0
  <2>1. proc[p].at \in {"pay", "settlePay"}
    BY DEF PayRefund, SettlePay, FeeCredit, At
  <2> QED
    BY <2>1, OpsOfCalls DEF Base, Costed, TellsCost, At
<1>3. o \in Op /\ worth[o] \in Int
  BY <1>1, <1>2 DEF Op, Chargeable, ProgOK
<1>4. worth[o] \in Worths /\ x \in CreditOp
  <2>1. worth[o] \in Worths
    BY <1>2, <1>3 DEF Costed, Costs
  <2> QED
    BY <1>2, <2>1 DEF CreditOp
<1>5. o \notin sealed
  BY <1>2, <1>3 DEF Costed, Costs
<1>6. CASE UNCHANGED <<money, charged>>
  BY <1>1, <1>6, LedgerStutters
<1>7. CASE money[o] = "none" /\ Move(o)
  <2>1. money' = [money EXCEPT ![o] = "moved"] /\ charged' = charged + worth[o]
    BY <1>7 DEF Move
  <2>2. OpStatus[x] = "open" /\ OpStatus'[x] = "applied"
    <3>1. /\ OpStatus[x] = Reached(money[o], o \in sealed)
          /\ OpStatus'[x] = Reached(money'[o], o \in sealed')
      BY <1>1, <1>4, StatusOf
    <3>2. money'[o] = "moved"
      BY <1>1, <1>3, <2>1 DEF ProgOK
    <3> QED
      BY <1>1, <1>5, <1>7, <3>1, <3>2 DEF Reached
  <2>3. \A y \in CreditOp \cup DebitOp : y # x => OpStatus'[y] = OpStatus[y]
    BY <1>1, <1>3, <2>1, OtherOps DEF ProgOK
  <2>4. OpStatus' = [OpStatus EXCEPT ![x] = "applied"]
    BY <1>4, <2>2, <2>3, StatusStep
  <2>5. -charged' = -charged + Moves[x]
    <3>1. Moves[x] = -worth[o] /\ charged \in Int
      BY <1>1, <1>2, <1>3, <1>4 DEF Moves, ProgOK
    <3> QED
      BY <1>3, <2>1, <3>1
  <2>6. Ledger!ApplyCredit(x)
    BY <2>2, <2>4, <2>5 DEF Ledger!ApplyCredit
  <2> QED
    BY <1>4, <2>6 DEF Ledger!LedgerNext
<1> QED
  BY <1>1, <1>6, <1>7

\* A step of a withdrawal is one of the ledger, or a stutter.
LEMMA StepRefines ==
  ASSUME Base, Costed, [Act]_progVars
  PROVE  [Ledger!LedgerNext]_(Ledger!ledgerVars)
<1> USE WithdrawalsAssumption
<1>0. /\ ProgOK /\ \A p \in Process : Fits(proc[p])
      /\ Creation \in Op /\ Refund \subseteq Op /\ Redebit \subseteq Op /\ FeeOp \subseteq Op
  BY DEF Base, Placed, Op, Chargeable
<1>1. ASSUME UNCHANGED <<worth, money, sealed, charged>>
      PROVE  [Ledger!LedgerNext]_(Ledger!ledgerVars)
  BY <1>1, LedgerStutters
<1>2. ASSUME NEW p \in Process, NEW o \in Op, NEW c, Named(p, o, c)
      PROVE  [Ledger!LedgerNext]_(Ledger!ledgerVars)
  BY <1>2, NamingStutters DEF Named
<1>3. ASSUME NEW p \in Request, Ask(p) PROVE [Ledger!LedgerNext]_(Ledger!ledgerVars)
  <2>1. p \in Process
    BY DEF Process
  <2>2. CASE CreateInsert(p)
    <3>1. PICK f \in Fees : Creates(p, f)
      BY <1>0, <2>1, <2>2, CreateStep
    <3> QED
      BY <1>0, <3>1, NamingStutters DEF Creates
  <2>3. CASE CancelRead(p) \/ StaffRead(p) \/ (Delivered /\ MarkPaidRead(p)) \/ FeeRead(p)
    BY <1>1, <2>3 DEF CancelRead, StaffRead, MarkPaidRead, FeeRead, ledgerVars
  <2> QED
    BY <1>3, <2>2, <2>3 DEF Ask
<1>4. CASE Heal
  BY <1>1, <1>4 DEF Heal, HealCredit, HealInit, HealRedebit, HealFee, HealStart, ledgerVars
<1>5. ASSUME NEW p \in Process, Run(p) PROVE [Ledger!LedgerNext]_(Ledger!ledgerVars)
  <2>1. ASSUME NEW s \in {"cancelled", "rejected"}, Refunding(p, s),
               UNCHANGED <<log, sealed, money, charged>>
        PROVE  [Ledger!LedgerNext]_(Ledger!ledgerVars)
    <3>1. PICK r \in Refund : Refunds(p, r, s)
      BY <1>0, <2>1, RefundStep DEF Status
    <3> QED
      BY <1>0, <1>2, <3>1 DEF Refunds
  <2>2. CASE CancelClaim(p) \/ EnterRejected(p)
    BY <1>1, <2>1, <2>2 DEF CancelClaim, EnterRejected
  <2>3. CASE LeaveRejected(p)
    <3>1. ASSUME NEW d \in Redebit, Redebits(p, d)
          PROVE  [Ledger!LedgerNext]_(Ledger!ledgerVars)
      BY <1>0, <1>2, <3>1 DEF Redebits
    <3> QED
      BY <1>0, <1>1, <2>3, <3>1, RedebitStep
  <2>4. CASE FeeClaim(p)
    <3>1. ASSUME NEW f \in Fees, NEW o \in FeeOp, Replans(p, o, f)
          PROVE  [Ledger!LedgerNext]_(Ledger!ledgerVars)
      BY <1>0, <1>2, <3>1 DEF Replans
    <3> QED
      BY <1>0, <1>1, <2>4, <3>1, ReplanStep
  <2>5. CASE \/ Charge(p) \/ BurnToken(p) \/ GiveBack(p)
             \/ PayRefund(p) \/ SettlePay(p) \/ FeeCredit(p)
    BY <2>5, ChargeRefines, TokenRefines, GiveBackRefines, PayRefines
  <2>6. CASE Ensure(p) \/ Outcome(p) \/ Refused(p) \/ Burn(p) \/ MarkUndone(p)
    BY <1>1, <2>6 DEF Ensure, Outcome, Refused, Burn, MarkUndone, ledgerVars
  <2>7. CASE \/ ClearRefund(p) \/ SettleClear(p) \/ Reread(p)
             \/ CreateDelete(p) \/ CreateActivate(p)
             \/ MoneylessClaim(p) \/ PlainClaim(p) \/ RedebitFinish(p) \/ RedebitAbort(p)
             \/ MarkPaidClaim(p) \/ FeeFinish(p) \/ FeeRevert(p)
             \/ HealInitClaim(p) \/ HealInitDone(p)
    BY <1>0, <1>1, <2>7, DocRunDrops DEF ledgerVars
  <2> QED
    BY <1>5, <2>2, <2>3, <2>4, <2>5, <2>6, <2>7 DEF Run
<1>6. ASSUME NEW p \in Process, Die(p) PROVE [Ledger!LedgerNext]_(Ledger!ledgerVars)
  BY <1>1, <1>6 DEF Die, ledgerVars
<1>7. CASE UNCHANGED progVars
  BY <1>1, <1>7 DEF progVars, ledgerVars
<1> QED
  BY <1>3, <1>4, <1>5, <1>6, <1>7 DEF Act

\* The flows of a withdrawal implement OpLedger, unless fees change while it is
\* half made: each op_id moves its amount at most once and never after its
\* token, and a debit that is undone gives back exactly what it charged, also
\* where the requests together charge the client inexactly.
THEOREM Refinement == FeesAfterCreation /\ Spec => ImplementsLedger
<1>1. FeesAfterCreation /\ Base /\ Costed /\ [Next]_vars => Costed'
  BY NextStep, CostedInductive
<1>2. Base /\ Costed /\ [Next]_vars => [Ledger!LedgerNext]_(Ledger!ledgerVars)
  BY NextStep, StepRefines
<1>3. CASE FeesAfterCreation
  BY <1>1, <1>2, <1>3, Invariant, InitCosted, InitLedger, PTL
     DEF Spec, ImplementsLedger, Ledger!LedgerSpec
<1> QED
  BY <1>3
=============================================================================

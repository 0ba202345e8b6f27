------------------------------ MODULE OpLedger ------------------------------
(***************************************************************************)
(* What services/balances.py promises to the flows that call it: one       *)
(* client balance in one currency, and operations named by op_id.  An      *)
(* operation is open until its money moves, exactly once (applied).  A     *)
(* debit may be sealed instead, so that it can never move money again      *)
(* (void), and a debit that did move it may be given back, once (undone).  *)
(* CreditOps implements this specification with single-document updates.   *)
(***************************************************************************)
EXTENDS Integers

CONSTANTS Credit,    \* op_ids of credits: refunds, deposits, accumulations
          Debit,     \* op_ids of debits: withdrawals, redemptions, fees
          Forced,    \* the debits called with allow_negative=True
          Amount,    \* what each operation moves
          Opening,   \* the balance before the first operation
          Tolerance  \* what the sufficiency guard forgives (1e-6 in the code)

VARIABLES balance,  \* the client's money in the currency
          status    \* op_id -> how far the operation got

ledgerVars == <<balance, status>>

Op == Credit \cup Debit

StatusSet == {"open", "applied", "void", "undone"}

LedgerInit ==
  /\ balance = Opening
  /\ status = [o \in Op |-> "open"]

ApplyCredit(c) ==
  /\ status[c] = "open"
  /\ balance' = balance + Amount[c]
  /\ status' = [status EXCEPT ![c] = "applied"]

ApplyDebit(d) ==
  /\ status[d] = "open"
  /\ d \notin Forced => balance >= Amount[d] - Tolerance
  /\ balance' = balance - Amount[d]
  /\ status' = [status EXCEPT ![d] = "applied"]

Seal(d) ==
  /\ status[d] = "open"
  /\ status' = [status EXCEPT ![d] = "void"]
  /\ UNCHANGED balance

GiveBack(d) ==
  /\ status[d] = "applied"
  /\ balance' = balance + Amount[d]
  /\ status' = [status EXCEPT ![d] = "undone"]

LedgerNext ==
  \/ \E c \in Credit : ApplyCredit(c)
  \/ \E d \in Debit : ApplyDebit(d) \/ Seal(d) \/ GiveBack(d)

LedgerSpec == LedgerInit /\ [][LedgerNext]_ledgerVars
=============================================================================

---------------------------- MODULE MCWithdrawals ----------------------------
(* Bounds: one withdrawal, at most two requests and the healer, two fees and *)
(* one or two op_ids of each kind.                                           *)
EXTENDS Withdrawals, TLC

CONSTANTS r1, r2

\* The requests are alike, and so are the op_ids of one kind.
Symmetry ==
  Permutations(Request) \cup Permutations(Refund)
    \cup Permutations(Redebit) \cup Permutations(FeeOp)

\* The history only grows: beyond these states a run whose properties suppose
\* them has nothing left to check.
Unstrayed == strayed = {}
AtMostUndecided == strayed \subseteq {"undecided"}
=============================================================================

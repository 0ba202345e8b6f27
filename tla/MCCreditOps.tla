----------------------------- MODULE MCCreditOps -----------------------------
EXTENDS CreditOps, TLC

CONSTANTS t1, t2, t3, c1, d1, d2

\* Over a balance of 3 with a tolerance of 2, d1 can only lean on it (it takes
\* 3 to -2); then d2 is refused until c1 came in, and leans on a balance of -1.
MCAmount == [o \in Op |-> IF o = d1 THEN 5 ELSE 1]

TaskSymmetry == Permutations(Task)
=============================================================================

---------------------------- MODULE MCSpendLock -----------------------------
EXTENDS SpendLock, TLC

CONSTANTS t1, t2, t3, w1, w2, o1

MCAmount == [x \in Withdrawal \cup Op \cup Task |-> 2]

TaskSymmetry == Permutations(Task)
=============================================================================

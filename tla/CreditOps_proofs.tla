--------------------------- MODULE CreditOps_proofs ---------------------------
(***************************************************************************)
(* Proofs about CreditOps, for any number of tasks, operations and         *)
(* amounts: its inductive invariant, the safety invariants the runs check, *)
(* and that the helpers implement OpLedger.                                *)
(***************************************************************************)
EXTENDS CreditOps, TLAPS

\* The ids of different operations, and of different kinds, never collide.
LEMMA Ids ==
  /\ \A o \in Op : Real(o) \in LogId
  /\ \A d \in Debit : Undo(d) \in LogId
  /\ LogId \subseteq RegistryId
  /\ \A d \in Debit : Token(d) \in RegistryId /\ Token(d) \notin LogId
  /\ \A o, p \in Op : (Real(o) = Real(p) \/ Undo(o) = Undo(p) \/ Token(o) = Token(p)) => o = p
  /\ \A o, p \in Op : Real(o) # Undo(p) /\ Real(o) # Token(p) /\ Undo(o) # Token(p)
  /\ Credit \subseteq Op /\ Debit \subseteq Op
  BY OpsAssumption DEF Op, Real, Undo, Token, LogId, RegistryId

\* Init satisfies the inductive invariant.
LEMMA InitInv == Init => IInv
  <1> SUFFICES ASSUME Init PROVE IInv
    OBVIOUS
  <1> USE DEF Init
  <1>1. Idle \in TaskState /\ Idle.at = "idle"
    BY OpsAssumption DEF Idle, TaskState, Op, MaxTries
  <1>2. TypeOK
    BY <1>1, OpsAssumption DEF TypeOK, HistTypeOK, OpFits, LogState, CreditCalls, DebitCalls, BurnCalls
  <1>3. TaskKnows
    BY <1>1 DEF TaskKnows, Knows, CreditCalls
  <1>4. NoOverdraft
    BY OpsAssumption DEF NoOverdraft
  <1>5. UndoneOnlyIfCharged /\ BurnIsFinal /\ LogTellsTheTruth /\ LogBeforeToken
    BY Ids DEF UndoneOnlyIfCharged, BurnIsFinal, Decided, LogTellsTheTruth, LogBeforeToken
  <1> QED
    BY <1>2, <1>3, <1>4, <1>5 DEF IInv

-----------------------------------------------------------------------------
(* What one task knows, the steps of the others never take back.           *)

Monotone ==
  /\ registry \subseteq registry'
  /\ \A d \in Debit :
       /\ log[Real(d)] \in Closed => log'[Real(d)] \in Closed
       /\ log[Real(d)] \in {"burned", "undone"} => log'[Real(d)] \in {"burned", "undone"}

\* Where Goto takes the task, with which locals.
LEMMA GotoFacts ==
  ASSUME TypeOK, NEW t \in Task, NEW call, Goto(t, call),
         call \in {"idle"} \cup CreditCalls \cup DebitCalls \cup BurnCalls
  PROVE  /\ task' \in [Task -> TaskState]
         /\ \A u \in Task \ {t} : task'[u] = task[u]
         /\ task'[t].at = call
         /\ call # "idle" => /\ task'[t].op = task[t].op
                             /\ task'[t].back = task[t].back
                             /\ task'[t].tries = task[t].tries
  <1>1. task \in [Task -> TaskState]
    BY DEF TypeOK
  <1>2. CASE call = "idle"
    <2>1. Idle \in TaskState /\ Idle.at = "idle"
      BY OpsAssumption DEF Idle, TaskState, Op, MaxTries
    <2>2. task' = [task EXCEPT ![t] = Idle]
      BY <1>2 DEF Goto
    <2> QED
      BY <1>1, <1>2, <2>1, <2>2
  <1>3. CASE call # "idle"
    <2>1. task' = [task EXCEPT ![t] = [task[t] EXCEPT !.at = call]]
      BY <1>3 DEF Goto
    <2> QED
      BY <1>1, <1>3, <2>1 DEF TaskState
  <1> QED
    BY <1>2, <1>3

\* A step of t that changes the documents monotonically and leaves t with
\* true knowledge preserves everybody's knowledge.
LEMMA KnowledgeStep ==
  ASSUME TypeOK, TaskKnows, Monotone, NEW t \in Task, Knows(t)',
         \A u \in Task \ {t} : task'[u] = task[u]
  PROVE  TaskKnows'
  <1> SUFFICES ASSUME NEW u \in Task, u # t PROVE Knows(u)'
    BY DEF TaskKnows
  <1>1. task'[u] = task[u] /\ task[u].at \in {"idle"} \cup CreditCalls \cup DebitCalls \cup BurnCalls
    BY DEF TypeOK, TaskState
  <1>2. task[u].at \in DebitCalls \cup BurnCalls => task[u].op \in Debit
    BY DEF TypeOK, OpFits
  <1>3. Knows(u)
    BY DEF TaskKnows
  <1> QED
    BY <1>1, <1>2, <1>3 DEF Knows, Monotone, CreditId, DebitId, DebitToken, BurnCalls, DebitCalls

\* A step of t preserves the invariant when the documents it leaves do.
LEMMA DocStep ==
  ASSUME IInv, NEW t \in Task,
         task' \in [Task -> TaskState], \A u \in Task \ {t} : task'[u] = task[u],
         OpFits(t)', Knows(t)', Monotone,
         balance' \in Int, registry' \subseteq RegistryId,
         log' \in [LogId -> LogState], HistTypeOK',
         UndoneOnlyIfCharged', BurnIsFinal', LogTellsTheTruth', NoOverdraft',
         LogBeforeToken'
  PROVE  IInv'
  <1>1. TaskKnows'
    BY KnowledgeStep DEF IInv
  <1>2. \A u \in Task \ {t} : OpFits(u)'
    BY DEF IInv, TypeOK, OpFits
  <1>3. TypeOK'
    BY <1>2 DEF TypeOK
  <1> QED
    BY <1>1, <1>3 DEF IInv

\* The same for a step that leaves the documents as they are.
LEMMA QuietStep ==
  ASSUME IInv, NEW t \in Task,
         task' \in [Task -> TaskState], \A u \in Task \ {t} : task'[u] = task[u],
         OpFits(t)', Knows(t)', UNCHANGED docVars,
         HistTypeOK', BurnIsFinal'
  PROVE  IInv'
  <1>1. balance' = balance /\ registry' = registry /\ log' = log
    BY DEF docVars
  <1>2. Monotone
    BY <1>1 DEF Monotone
  <1>3. UndoneOnlyIfCharged' /\ LogTellsTheTruth' /\ NoOverdraft' /\ LogBeforeToken'
    BY <1>1 DEF IInv, UndoneOnlyIfCharged, LogTellsTheTruth, NoOverdraft, LogBeforeToken
  <1> QED
    BY <1>1, <1>2, <1>3, DocStep DEF IInv, TypeOK

LEMMA BurnStaysFinal ==
  ASSUME BurnIsFinal, UNCHANGED docVars, settled' = settled
  PROVE  BurnIsFinal'
  BY DEF BurnIsFinal, Decided, docVars

LEMMA HistUnchanged ==
  ASSUME TypeOK, UNCHANGED histVars
  PROVE  settled' = settled /\ HistTypeOK'
  BY DEF TypeOK, HistTypeOK, histVars

\* The two reads of _ops_log_ensure, for the credit.
LEMMA CreditFindStep ==
  ASSUME IInv, NEW t \in Task, task[t].at \in {"creditFind", "creditReread"},
         NEW insert \in {"creditInsert", "idle"},
         EnsureFind(t, CreditId(t), insert, "creditApply", task[t].back)
  PROVE  IInv'
  <1> DEFINE i == CreditId(t)
  <1>1. i \in LogId /\ log[i] \in LogState
    BY Ids DEF IInv, TypeOK, OpFits, CreditId, CreditCalls, Op
  <1> DEFINE call == IF log[i] = "absent" THEN insert
                     ELSE IF log[i] = "pending" THEN "creditApply" ELSE task[t].back
  <1>2. /\ Goto(t, call)
        /\ call \in {"idle", "creditInsert", "creditApply"} \/ (call = task[t].back /\ log[i] \in Closed)
    <2>1. Goto(t, call)
      BY DEF EnsureFind
    <2>2. call \in {"idle", "creditInsert", "creditApply"} \/ (call = task[t].back /\ log[i] \in Closed)
      BY <1>1 DEF CreditCalls, Closed, LogState
    <2> QED
      BY <2>1, <2>2
  <1> HIDE DEF call
  <1>3. task[t] \in TaskState /\ task[t].back \in {"idle", "sealApplied", "sealUndone"}
    BY DEF IInv, TypeOK, TaskState
  <1>4. call \in {"idle"} \cup CreditCalls \cup DebitCalls \cup BurnCalls
    BY <1>2, <1>3 DEF CreditCalls, BurnCalls
  <1>5. /\ task' \in [Task -> TaskState]
        /\ \A u \in Task \ {t} : task'[u] = task[u]
        /\ task'[t].at = call
        /\ call # "idle" => /\ task'[t].op = task[t].op
                            /\ task'[t].back = task[t].back
    BY <1>2, <1>4, GotoFacts DEF IInv
  <1>6. UNCHANGED <<docVars, histVars>> /\ registry' = registry /\ log' = log
    BY DEF EnsureFind, docVars
  <1>7. OpFits(t)'
    BY <1>2, <1>3, <1>5 DEF IInv, TypeOK, OpFits, CreditCalls, DebitCalls, BurnCalls
  <1>8. Knows(t)'
    <2>1. call \in {"sealApplied", "sealUndone"} => Undo(task[t].op) \in registry
      BY <1>1, <1>2, Ids DEF IInv, TypeOK, OpFits, CreditCalls, CreditId, Closed, LogTellsTheTruth, LogBeforeToken
    <2>2. call \in CreditCalls /\ task[t].back # "idle" => Real(task[t].op) \in registry
      BY DEF IInv, TaskKnows, Knows, CreditCalls
    <2> QED
      BY <1>2, <1>3, <1>5, <1>6, <2>1, <2>2 DEF Knows, CreditCalls
  <1> QED
    BY <1>5, <1>6, <1>7, <1>8, QuietStep, BurnStaysFinal, HistUnchanged DEF IInv, TypeOK

\* The insert of _ops_log_ensure, for both callers.
LEMMA InsertStep ==
  ASSUME IInv, NEW t \in Task, NEW i \in LogId, NEW apply, NEW reread,
         EnsureInsert(t, i, apply, reread),
         \/ task[t].at = "creditInsert" /\ apply = "creditApply" /\ reread = "creditReread"
         \/ task[t].at = "debitInsert" /\ apply = "debitApply" /\ reread = "debitReread"
  PROVE  IInv'
  <1>1. PICK call \in {apply, reread} : Goto(t, call)
    BY DEF EnsureInsert
  <1>2. call \in CreditCalls \cup DebitCalls
    BY DEF CreditCalls, DebitCalls
  <1>3. /\ task' \in [Task -> TaskState]
        /\ \A u \in Task \ {t} : task'[u] = task[u]
        /\ task'[t].at = call
        /\ call # "idle" => /\ task'[t].op = task[t].op
                            /\ task'[t].back = task[t].back
    BY <1>1, <1>2, GotoFacts DEF IInv
  <1>4. call # "idle" /\ task[t].at \in CreditCalls \cup DebitCalls
    BY <1>2 DEF CreditCalls, DebitCalls
  <1>5. OpFits(t)'
    BY <1>3, <1>4 DEF IInv, TypeOK, OpFits, CreditCalls, DebitCalls, BurnCalls
  <1>6. balance' = balance /\ registry' = registry /\ UNCHANGED histVars
    BY DEF EnsureInsert
  <1>7. Knows(t)'
    BY <1>3, <1>4, <1>6 DEF IInv, TaskKnows, Knows, CreditCalls
  <1>8. /\ log' \in [LogId -> LogState]
        /\ \A j \in LogId : log'[j] # log[j] => log[j] = "absent" /\ log'[j] = "pending"
    BY DEF EnsureInsert, IInv, TypeOK, LogState
  <1>9. Monotone
    BY <1>6, <1>8, Ids DEF Monotone, Closed, Op
  <1>10. UndoneOnlyIfCharged' /\ BurnIsFinal' /\ NoOverdraft'
    BY <1>6 DEF IInv, UndoneOnlyIfCharged, BurnIsFinal, Decided, histVars, NoOverdraft
  <1>11. LogTellsTheTruth' /\ LogBeforeToken'
    BY <1>6, <1>8, Ids DEF IInv, LogTellsTheTruth, LogBeforeToken, Op
  <1> QED
    BY <1>3, <1>5, <1>6, <1>7, <1>8, <1>9, <1>10, <1>11, DocStep, HistUnchanged DEF IInv, TypeOK

LEMMA CreditEnsureStep ==
  ASSUME IInv, NEW t \in Task, CreditEnsure(t) PROVE IInv'
  <1>1. task[t].at \in CreditCalls => CreditId(t) \in LogId
    BY Ids DEF IInv, TypeOK, OpFits, CreditId, CreditCalls, Op
  <1> QED
    BY <1>1, CreditFindStep, InsertStep DEF CreditEnsure, EnsureReread, CreditCalls

LEMMA DebitFindStep ==
  ASSUME IInv, NEW t \in Task, task[t].at \in {"debitFind", "debitReread"},
         NEW insert \in {"debitInsert", "idle"},
         EnsureFind(t, DebitId(t), insert, "debitApply", "idle")
  PROVE  IInv'
  <1> DEFINE call == IF log[DebitId(t)] = "absent" THEN insert
                     ELSE IF log[DebitId(t)] = "pending" THEN "debitApply" ELSE "idle"
  <1>1. Goto(t, call) /\ call \in {"debitInsert", "debitApply", "idle"}
    BY DEF EnsureFind
  <1> HIDE DEF call
  <1>2. call \in {"idle"} \cup CreditCalls \cup DebitCalls \cup BurnCalls
    BY <1>1 DEF DebitCalls
  <1>3. /\ task' \in [Task -> TaskState]
        /\ \A u \in Task \ {t} : task'[u] = task[u]
        /\ task'[t].at = call
        /\ call # "idle" => task'[t].op = task[t].op
    BY <1>1, <1>2, GotoFacts DEF IInv
  <1>4. UNCHANGED <<docVars, histVars>>
    BY DEF EnsureFind
  <1>5. OpFits(t)' /\ Knows(t)'
    BY <1>1, <1>3 DEF IInv, TypeOK, OpFits, Knows, CreditCalls, DebitCalls, BurnCalls
  <1> QED
    BY <1>3, <1>4, <1>5, QuietStep, BurnStaysFinal, HistUnchanged DEF IInv, TypeOK

LEMMA DebitEnsureStep ==
  ASSUME IInv, NEW t \in Task, DebitEnsure(t) PROVE IInv'
  <1>1. task[t].at \in DebitCalls => DebitId(t) \in LogId
    BY Ids DEF IInv, TypeOK, OpFits, DebitId, Op
  <1> QED
    BY <1>1, DebitFindStep, InsertStep DEF DebitEnsure, EnsureReread, DebitCalls

-----------------------------------------------------------------------------
(* The credit                                                              *)

LEMMA CreditApplyStep ==
  ASSUME IInv, NEW t \in Task, CreditApply(t) PROVE IInv'
  <1> DEFINE i == CreditId(t)
             o == task[t].op
  <1>1. /\ i \in LogId /\ o \in Op
        /\ \/ task[t].back = "idle" /\ o \in Credit /\ i = Real(o)
           \/ task[t].back # "idle" /\ o \in Debit /\ i = Undo(o) /\ Real(o) \in registry
    BY Ids DEF CreditApply, IInv, TypeOK, OpFits, TaskKnows, Knows, CreditId, CreditCalls
  <1>2. PICK call \in {"creditMark", "creditCheck"} : Goto(t, call)
    BY DEF CreditApply
  <1>3. call \in {"idle"} \cup CreditCalls \cup DebitCalls \cup BurnCalls
    BY DEF CreditCalls
  <1>4. /\ task' \in [Task -> TaskState]
        /\ \A u \in Task \ {t} : task'[u] = task[u]
        /\ task'[t].at = call
        /\ call # "idle" => /\ task'[t].op = task[t].op
                            /\ task'[t].back = task[t].back
    BY <1>2, <1>3, GotoFacts DEF IInv
  <1>5. /\ i \in registry' /\ registry' = registry \cup {i} /\ log' = log /\ UNCHANGED histVars
        /\ \/ balance' = balance + Amount[o]
           \/ balance' = balance /\ registry' = registry
    BY DEF CreditApply
  <1>6. OpFits(t)'
    BY <1>1, <1>4 DEF OpFits, CreditCalls, DebitCalls, BurnCalls
  <1>7. Knows(t)'
    BY <1>1, <1>4, <1>5 DEF Knows, CreditId, CreditCalls
  <1>8. Monotone
    BY <1>5 DEF Monotone
  <1>9. balance' \in Int /\ balance' >= balance /\ registry' \subseteq RegistryId
    BY <1>1, <1>5, Ids, OpsAssumption DEF IInv, TypeOK, Op
  <1>10. UndoneOnlyIfCharged' /\ LogBeforeToken'
    BY <1>1, <1>5, Ids DEF IInv, UndoneOnlyIfCharged, LogBeforeToken
  <1>11. BurnIsFinal'
    <2>1. \A d \in Debit : Real(d) \in registry' => Real(d) \in registry
      BY <1>1, <1>5, Ids, OpsAssumption
    <2> QED
      BY <1>5, <2>1 DEF IInv, BurnIsFinal, Decided, histVars, TypeOK, HistTypeOK
  <1>12. LogTellsTheTruth'
    BY <1>5 DEF IInv, LogTellsTheTruth
  <1>13. NoOverdraft'
    BY <1>5, <1>9, OpsAssumption DEF IInv, NoOverdraft, TypeOK
  <1> QED
    BY <1>4, <1>5, <1>6, <1>7, <1>8, <1>9, <1>10, <1>11, <1>12, <1>13, DocStep, HistUnchanged DEF IInv, TypeOK

\* The two calls that return: to the caller, or to the burn they serve.
LEMMA CreditCheckStep ==
  ASSUME IInv, NEW t \in Task, CreditCheck(t) PROVE IInv'
  <1>1. /\ CreditId(t) \in registry /\ Goto(t, "creditMark")
        /\ task[t].at \in CreditCalls
        /\ task[t].back # "idle" => Real(task[t].op) \in registry
    BY DEF IInv, TaskKnows, Knows, CreditCheck, CreditCalls
  <1>2. "creditMark" \in {"idle"} \cup CreditCalls \cup DebitCalls \cup BurnCalls
    BY DEF CreditCalls
  <1>3. /\ task' \in [Task -> TaskState]
        /\ \A u \in Task \ {t} : task'[u] = task[u]
        /\ task'[t].at = "creditMark"
        /\ task'[t].op = task[t].op
        /\ task'[t].back = task[t].back
    BY <1>1, <1>2, GotoFacts DEF IInv
  <1>4. UNCHANGED <<docVars, histVars>> /\ registry' = registry
    BY DEF CreditCheck, docVars
  <1>5. OpFits(t)'
    BY <1>1, <1>3 DEF IInv, TypeOK, OpFits, CreditCalls, DebitCalls, BurnCalls
  <1>6. Knows(t)'
    BY <1>1, <1>3, <1>4 DEF Knows, CreditId
  <1> QED
    BY <1>3, <1>4, <1>5, <1>6, QuietStep, BurnStaysFinal, HistUnchanged DEF IInv, TypeOK

\* MarkApplied only turns a pending row into an applied one.
LEMMA MarkAppliedFacts ==
  ASSUME IInv, NEW i \in LogId, MarkApplied(i)
  PROVE  /\ log' \in [LogId -> LogState]
         /\ \A j \in LogId : log'[j] # log[j] => /\ j = i
                                              /\ log[j] = "pending"
                                              /\ log'[j] = "applied"
  BY DEF MarkApplied, IInv, TypeOK, LogState

LEMMA CreditMarkStep ==
  ASSUME IInv, NEW t \in Task, CreditMark(t) PROVE IInv'
  <1> DEFINE i == CreditId(t)
             call == task[t].back
  <1>1. /\ i \in LogId /\ i \in registry
        /\ task[t].back # "idle" => task[t].op \in Debit /\ i = Undo(task[t].op)
    BY Ids DEF CreditMark, IInv, TypeOK, OpFits, TaskKnows, Knows, CreditId, CreditCalls
  <1>2. /\ log' \in [LogId -> LogState]
        /\ \A j \in LogId : log'[j] # log[j] => /\ j = i
                                             /\ log[j] = "pending"
                                             /\ log'[j] = "applied"
    BY <1>1, MarkAppliedFacts DEF CreditMark
  <1>3. Goto(t, call) /\ call \in {"idle", "sealApplied", "sealUndone"}
    BY DEF CreditMark, IInv, TypeOK, TaskState
  <1>4. /\ task' \in [Task -> TaskState]
        /\ \A u \in Task \ {t} : task'[u] = task[u]
        /\ task'[t].at = call
        /\ call # "idle" => task'[t].op = task[t].op
    BY <1>3, GotoFacts DEF IInv, BurnCalls
  <1>5. balance' = balance /\ registry' = registry /\ UNCHANGED histVars
    BY DEF CreditMark
  <1>6. OpFits(t)' /\ Knows(t)'
    BY <1>1, <1>3, <1>4, <1>5 DEF OpFits, Knows, CreditCalls, DebitCalls, BurnCalls
  <1>7. Monotone
    BY <1>2, <1>5, Ids DEF Monotone, Closed
  <1>8. UndoneOnlyIfCharged' /\ BurnIsFinal' /\ NoOverdraft'
    BY <1>5 DEF IInv, UndoneOnlyIfCharged, BurnIsFinal, Decided, histVars, NoOverdraft
  <1>9. LogTellsTheTruth' /\ LogBeforeToken'
    BY <1>1, <1>2, <1>5, Ids DEF IInv, LogTellsTheTruth, LogBeforeToken
  <1> QED
    BY <1>2, <1>4, <1>5, <1>6, <1>7, <1>8, <1>9, DocStep, HistUnchanged DEF IInv, TypeOK

-----------------------------------------------------------------------------
(* The debit                                                               *)

LEMMA DebitApplyStep ==
  ASSUME IInv, NEW t \in Task, DebitApply(t) PROVE IInv'
  <1> DEFINE d == task[t].op
  <1>1. d \in Debit
    BY DEF DebitApply, IInv, TypeOK, OpFits, DebitCalls
  <1>2. PICK call \in {"debitMark", "debitCheck"} :
          Goto(t, call) /\ (call = "debitMark" => Real(d) \in registry')
    BY DEF DebitApply, DebitId
  <1>3. call \in {"idle"} \cup CreditCalls \cup DebitCalls \cup BurnCalls
    BY DEF DebitCalls
  <1>4. /\ task' \in [Task -> TaskState]
        /\ \A u \in Task \ {t} : task'[u] = task[u]
        /\ task'[t].at = call
        /\ call # "idle" => task'[t].op = task[t].op
    BY <1>2, <1>3, GotoFacts DEF IInv
  <1>5. /\ log' = log /\ UNCHANGED histVars
        /\ \/ Chargeable(d) /\ balance' = balance - Amount[d] /\ registry' = registry \cup {Real(d)}
           \/ balance' = balance /\ registry' = registry
    BY DEF DebitApply, DebitId
  <1>6. OpFits(t)' /\ Knows(t)'
    BY <1>1, <1>2, <1>4 DEF OpFits, Knows, DebitId, DebitToken, CreditCalls, DebitCalls, BurnCalls
  <1>7. Monotone
    BY <1>5 DEF Monotone
  <1>8. balance' \in Int /\ registry' \subseteq RegistryId
    BY <1>1, <1>5, Ids, OpsAssumption DEF IInv, TypeOK, Op
  <1>9. UndoneOnlyIfCharged' /\ LogBeforeToken'
    BY <1>1, <1>5, Ids DEF IInv, UndoneOnlyIfCharged, LogBeforeToken
  <1>10. BurnIsFinal'
    <2>1. \A e \in Debit : Token(e) \in registry /\ Real(e) \in registry' => Real(e) \in registry
      BY <1>1, <1>5, Ids DEF Chargeable
    <2> QED
      BY <1>5, <2>1 DEF IInv, BurnIsFinal, Decided, histVars, TypeOK, HistTypeOK
  <1>11. LogTellsTheTruth'
    BY <1>5 DEF IInv, LogTellsTheTruth
  <1>12. NoOverdraft'
    <2>1. Amount[d] \in Nat /\ Tolerance \in Nat /\ balance \in Int
      BY <1>1, OpsAssumption DEF IInv, TypeOK
    <2> QED
      BY <1>1, <1>5, <2>1 DEF IInv, NoOverdraft, Chargeable
  <1> QED
    BY <1>4, <1>5, <1>6, <1>7, <1>8, <1>9, <1>10, <1>11, <1>12, DocStep, HistUnchanged DEF IInv, TypeOK

LEMMA DebitCheckStep ==
  ASSUME IInv, NEW t \in Task, DebitCheck(t) PROVE IInv'
  <1> DEFINE call == IF {DebitId(t), DebitToken(t)} \cap registry # {}
                     THEN "debitMark" ELSE "debitRelease"
  <1>1. Goto(t, call) /\ call \in {"debitMark", "debitRelease"} /\ task[t].op \in Debit
    BY DEF DebitCheck, IInv, TypeOK, OpFits, DebitCalls
  <1>2. call = "debitMark" => DebitId(t) \in registry \/ DebitToken(t) \in registry
    OBVIOUS
  <1> HIDE DEF call
  <1>3. call \in {"idle"} \cup CreditCalls \cup DebitCalls \cup BurnCalls
    BY <1>1 DEF DebitCalls
  <1>4. /\ task' \in [Task -> TaskState]
        /\ \A u \in Task \ {t} : task'[u] = task[u]
        /\ task'[t].at = call
        /\ call # "idle" => task'[t].op = task[t].op
    BY <1>1, <1>3, GotoFacts DEF IInv
  <1>5. UNCHANGED <<docVars, histVars>> /\ registry' = registry
    BY DEF DebitCheck, docVars
  <1>6. OpFits(t)' /\ Knows(t)'
    BY <1>1, <1>2, <1>4, <1>5 DEF OpFits, Knows, DebitId, DebitToken, CreditCalls, DebitCalls, BurnCalls
  <1> QED
    BY <1>4, <1>5, <1>6, QuietStep, BurnStaysFinal, HistUnchanged DEF IInv, TypeOK

\* A task that has nothing left to do knows nothing.
LEMMA IdleFacts ==
  ASSUME IInv, NEW t \in Task, Goto(t, "idle")
  PROVE  /\ task' \in [Task -> TaskState]
         /\ \A u \in Task \ {t} : task'[u] = task[u]
         /\ OpFits(t)' /\ Knows(t)'
  <1>1. /\ task' \in [Task -> TaskState]
        /\ \A u \in Task \ {t} : task'[u] = task[u]
        /\ task'[t].at = "idle"
    BY GotoFacts DEF IInv
  <1> QED
    BY <1>1 DEF OpFits, Knows, CreditCalls, DebitCalls, BurnCalls

\* When the debit's own op_id is absent, its token is there and the log
\* already says burned or undone: marking it applied changes nothing.
LEMMA DebitMarkStep ==
  ASSUME IInv, NEW t \in Task, DebitMark(t) PROVE IInv'
  <1>1. /\ task[t].op \in Debit /\ DebitId(t) \in LogId /\ DebitId(t) = Real(task[t].op)
        /\ DebitId(t) \in registry \/ DebitToken(t) \in registry
    BY Ids DEF DebitMark, IInv, TypeOK, OpFits, TaskKnows, Knows, DebitId, DebitCalls
  <1>2. /\ log' \in [LogId -> LogState]
        /\ \A j \in LogId : log'[j] # log[j] => /\ j = DebitId(t)
                                             /\ log[j] = "pending"
                                             /\ log'[j] = "applied"
    BY <1>1, MarkAppliedFacts DEF DebitMark
  <1>3. balance' = balance /\ registry' = registry /\ UNCHANGED histVars
    BY DEF DebitMark
  <1>4. /\ task' \in [Task -> TaskState]
        /\ \A u \in Task \ {t} : task'[u] = task[u]
        /\ OpFits(t)' /\ Knows(t)'
    BY IdleFacts DEF DebitMark
  <1>5. Monotone
    BY <1>2, <1>3, Ids DEF Monotone, Closed
  <1>6. UndoneOnlyIfCharged' /\ BurnIsFinal' /\ NoOverdraft'
    BY <1>3 DEF IInv, UndoneOnlyIfCharged, BurnIsFinal, Decided, histVars, NoOverdraft
  <1>7. log'[DebitId(t)] # log[DebitId(t)] => DebitId(t) \in registry
    BY <1>1, <1>2 DEF IInv, LogBeforeToken, DebitToken
  <1>8. LogTellsTheTruth' /\ LogBeforeToken'
    BY <1>1, <1>2, <1>3, <1>7, Ids DEF IInv, LogTellsTheTruth, LogBeforeToken
  <1> QED
    BY <1>2, <1>3, <1>4, <1>5, <1>6, <1>8, DocStep, HistUnchanged DEF IInv, TypeOK

LEMMA DebitReleaseStep ==
  ASSUME IInv, NEW t \in Task, DebitRelease(t) PROVE IInv'
  <1>1. balance' = balance /\ registry' = registry /\ UNCHANGED histVars
    BY DEF DebitRelease
  <1>2. /\ log' \in [LogId -> LogState]
        /\ \A j \in LogId : log'[j] # log[j] => log[j] = "pending" /\ log'[j] = "absent"
    BY DEF DebitRelease, IInv, TypeOK, LogState
  <1>3. /\ task' \in [Task -> TaskState]
        /\ \A u \in Task \ {t} : task'[u] = task[u]
        /\ OpFits(t)' /\ Knows(t)'
    BY IdleFacts DEF DebitRelease
  <1>4. Monotone
    BY <1>1, <1>2, Ids DEF Monotone, Closed
  <1>5. UndoneOnlyIfCharged' /\ BurnIsFinal' /\ NoOverdraft'
    BY <1>1 DEF IInv, UndoneOnlyIfCharged, BurnIsFinal, Decided, histVars, NoOverdraft
  <1>6. LogTellsTheTruth' /\ LogBeforeToken'
    BY <1>1, <1>2, Ids DEF IInv, LogTellsTheTruth, LogBeforeToken
  <1> QED
    BY <1>1, <1>2, <1>3, <1>4, <1>5, <1>6, DocStep, HistUnchanged DEF IInv, TypeOK

-----------------------------------------------------------------------------
(* The burn                                                                *)

\* The iterations are forgotten when the loop is left.
LEMMA NoTriesLeft ==
  ASSUME NEW r \in TaskState
  PROVE  /\ [r EXCEPT !.tries = 0] \in TaskState
         /\ [r EXCEPT !.tries = 0].at = r.at
         /\ [r EXCEPT !.tries = 0].op = r.op
         /\ [r EXCEPT !.tries = 0].back = r.back
  <1>1. 0 \in 0..MaxTries
    BY DEF MaxTries
  <1> QED
    BY <1>1 DEF TaskState

LEMMA UndoTask ==
  ASSUME TypeOK, NEW t \in Task, NEW seal \in {"sealApplied", "sealUndone"},
         StartUndo(t, seal)
  PROVE  /\ task' \in [Task -> TaskState]
         /\ \A u \in Task \ {t} : task'[u] = task[u]
         /\ task'[t].at = "creditFind" /\ task'[t].op = task[t].op /\ task'[t].back = seal
  <1> DEFINE r == [task[t] EXCEPT !.at = "creditFind", !.back = seal]
  <1>1. task \in [Task -> TaskState] /\ task[t] \in TaskState
    BY DEF TypeOK
  <1>2. /\ r \in TaskState
        /\ r.at = "creditFind" /\ r.op = task[t].op /\ r.back = seal
    BY <1>1 DEF TaskState, CreditCalls
  <1>3. task' = [task EXCEPT ![t] = [r EXCEPT !.tries = 0]]
    BY DEF StartUndo
  <1> HIDE DEF r
  <1> QED
    BY <1>1, <1>2, <1>3, NoTriesLeft

LEMMA StartUndoFacts ==
  ASSUME IInv, NEW t \in Task, NEW seal \in {"sealApplied", "sealUndone"},
         StartUndo(t, seal), task[t].op \in Debit, Real(task[t].op) \in registry,
         UNCHANGED docVars
  PROVE  IInv'
  <1>1. /\ task' \in [Task -> TaskState]
        /\ \A u \in Task \ {t} : task'[u] = task[u]
        /\ task'[t].at = "creditFind" /\ task'[t].op = task[t].op /\ task'[t].back = seal
    BY UndoTask DEF IInv
  <1>2. registry' = registry /\ UNCHANGED histVars
    BY DEF docVars, StartUndo
  <1>3. OpFits(t)' /\ Knows(t)'
    BY <1>1, <1>2 DEF OpFits, Knows, CreditCalls, DebitCalls, BurnCalls
  <1> QED
    BY <1>1, <1>2, <1>3, QuietStep, BurnStaysFinal, HistUnchanged DEF IInv, TypeOK

\* Returning from a burn whose debit is decided.
LEMMA SettleFacts ==
  ASSUME IInv, NEW t \in Task, Settle(t), task[t].op \in Debit,
         \/ Real(task[t].op) \in registry /\ Undo(task[t].op) \in registry
         \/ Token(task[t].op) \in registry /\ Real(task[t].op) \notin registry,
         registry' = registry
  PROVE  /\ task' \in [Task -> TaskState]
         /\ \A u \in Task \ {t} : task'[u] = task[u]
         /\ OpFits(t)' /\ Knows(t)'
         /\ HistTypeOK' /\ BurnIsFinal'
  <1>1. settled' = settled \cup {task[t].op} /\ UNCHANGED <<gaveUp, called, erred>>
    BY DEF Settle
  <1>2. BurnIsFinal' /\ HistTypeOK'
    BY <1>1 DEF IInv, BurnIsFinal, Decided, TypeOK, HistTypeOK
  <1> QED
    BY <1>2, IdleFacts DEF Settle

\* Where a claimed burn takes the task.
LEMMA ClaimedFacts ==
  ASSUME TypeOK, NEW t \in Task, Claimed(t)
  PROVE  /\ task' \in [Task -> TaskState]
         /\ \A u \in Task \ {t} : task'[u] = task[u]
         /\ task'[t].at = "burnToken" /\ task'[t].op = task[t].op
  <1> DEFINE r == [task[t] EXCEPT !.at = "burnToken"]
  <1>1. task \in [Task -> TaskState] /\ task[t] \in TaskState
    BY DEF TypeOK
  <1>2. r \in TaskState /\ r.at = "burnToken" /\ r.op = task[t].op
    BY <1>1 DEF TaskState, BurnCalls
  <1>3. task' = [task EXCEPT ![t] = [r EXCEPT !.tries = 0]]
    BY DEF Claimed
  <1> HIDE DEF r
  <1> QED
    BY <1>1, <1>2, <1>3, NoTriesLeft

LEMMA BurnReadStep ==
  ASSUME IInv, NEW t \in Task, BurnRead(t) PROVE IInv'
  <1> DEFINE d == task[t].op
  <1>1. /\ d \in Debit /\ Real(d) \in LogId /\ Undo(d) \in LogId /\ DebitId(t) = Real(d)
        /\ task[t].at = "burnRead" /\ task[t].tries > 0
    BY Ids DEF BurnRead, IInv, TypeOK, OpFits, TaskKnows, Knows, DebitId, BurnCalls, MaxTries
  <1>2. UNCHANGED docVars /\ registry' = registry /\ log' = log
    BY DEF BurnRead, docVars
  <1>3. CASE log[Real(d)] = "undone" /\ Settle(t)
    <2>1. Undo(d) \in registry /\ Real(d) \in registry
      BY <1>1, <1>3 DEF IInv, LogTellsTheTruth, UndoneOnlyIfCharged
    <2> QED
      BY <1>1, <1>2, <1>3, <2>1, SettleFacts, QuietStep
  <1>4. CASE log[Real(d)] = "applied" /\ StartUndo(t, "sealApplied")
    <2>1. Real(d) \in registry
      BY <1>1, <1>4 DEF IInv, LogTellsTheTruth
    <2> QED
      BY <1>1, <1>2, <1>4, <2>1, StartUndoFacts
  <1>5. CASE log[Real(d)] = "burned" /\ Claimed(t) /\ UNCHANGED histVars
    <2>1. OpFits(t)' /\ Knows(t)'
      BY <1>1, <1>2, <1>5, ClaimedFacts DEF IInv, OpFits, Knows, DebitId, CreditCalls, DebitCalls, BurnCalls
    <2> QED
      BY <1>2, <1>5, <2>1, ClaimedFacts, QuietStep, BurnStaysFinal, HistUnchanged DEF IInv, TypeOK
  <1>6. CASE Goto(t, "burnClaim") /\ UNCHANGED histVars
    <2>1. "burnClaim" \in {"idle"} \cup CreditCalls \cup DebitCalls \cup BurnCalls
      BY DEF BurnCalls
    <2>2. /\ task' \in [Task -> TaskState]
          /\ \A u \in Task \ {t} : task'[u] = task[u]
          /\ task'[t].at = "burnClaim" /\ task'[t].op = d /\ task'[t].tries = task[t].tries
      BY <1>6, <2>1, GotoFacts DEF IInv
    <2>3. OpFits(t)' /\ Knows(t)'
      BY <1>1, <2>2 DEF OpFits, Knows, CreditCalls, DebitCalls, BurnCalls
    <2> QED
      BY <1>2, <1>6, <2>2, <2>3, QuietStep, BurnStaysFinal, HistUnchanged DEF IInv, TypeOK
  <1> QED
    BY <1>1, <1>3, <1>4, <1>5, <1>6 DEF BurnRead

\* Leaving the loop without a decision settles nothing.
LEMMA BurnGiveUpStep ==
  ASSUME IInv, NEW t \in Task, BurnGiveUp(t) PROVE IInv'
  <1>1. task[t].op \in Debit
    BY DEF BurnGiveUp, IInv, TypeOK, OpFits, BurnCalls
  <1>2. /\ UNCHANGED docVars /\ UNCHANGED <<settled, called, erred>>
        /\ gaveUp' = gaveUp \cup ({task[t].op} \cap Once) /\ Goto(t, "idle")
    BY DEF BurnGiveUp
  <1>3. HistTypeOK' /\ BurnIsFinal'
    BY <1>1, <1>2 DEF IInv, TypeOK, HistTypeOK, BurnIsFinal, Decided, docVars
  <1> QED
    BY <1>2, <1>3, IdleFacts, QuietStep

\* A claim that took effect, in either half of its upsert, whether the task
\* learns of it (burnToken) or sees only an exception (burnRead).
LEMMA ClaimStep ==
  ASSUME IInv, NEW t \in Task, task[t].at \in {"burnClaim", "burnUpsert"},
         log[DebitId(t)] \notin Closed, log' = [log EXCEPT ![DebitId(t)] = "burned"],
         task' \in [Task -> TaskState], \A u \in Task \ {t} : task'[u] = task[u],
         task'[t].at \in {"burnToken", "burnRead"}, task'[t].op = task[t].op,
         UNCHANGED <<balance, registry, settled>>, HistTypeOK'
  PROVE  IInv'
  <1> DEFINE d == task[t].op
  <1>1. d \in Debit /\ Real(d) \in LogId /\ DebitId(t) = Real(d)
    BY Ids DEF IInv, TypeOK, OpFits, DebitId, BurnCalls
  <1>2. /\ log' \in [LogId -> LogState] /\ log'[Real(d)] = "burned"
        /\ \A j \in LogId : j # Real(d) => log'[j] = log[j]
    BY <1>1 DEF IInv, TypeOK, LogState
  <1>3. OpFits(t)' /\ Knows(t)'
    BY <1>1, <1>2 DEF OpFits, Knows, DebitId, CreditCalls, DebitCalls, BurnCalls
  <1>4. Monotone
    BY <1>1, <1>2, Ids DEF Monotone, Closed
  <1>5. UndoneOnlyIfCharged' /\ BurnIsFinal' /\ NoOverdraft'
    BY DEF IInv, UndoneOnlyIfCharged, BurnIsFinal, Decided, NoOverdraft
  <1>6. LogTellsTheTruth' /\ LogBeforeToken'
    BY <1>1, <1>2, Ids DEF IInv, LogTellsTheTruth, LogBeforeToken
  <1> QED
    BY <1>2, <1>3, <1>4, <1>5, <1>6, DocStep DEF IInv, TypeOK

LEMMA NextTryFacts ==
  ASSUME IInv, NEW t \in Task, task[t].at \in {"burnClaim", "burnUpsert"}, NextTry(t)
  PROVE  /\ task' \in [Task -> TaskState]
         /\ \A u \in Task \ {t} : task'[u] = task[u]
         /\ task'[t].at = "burnRead" /\ task'[t].op = task[t].op /\ task[t].op \in Debit
         /\ task'[t].tries = task[t].tries - 1
  <1>1. /\ task[t] \in TaskState /\ task[t].tries - 1 \in 0..MaxTries
        /\ task[t].op \in Debit
    BY DEF IInv, TypeOK, OpFits, TaskState, TaskKnows, Knows, MaxTries, BurnCalls
  <1> QED
    BY <1>1 DEF NextTry, IInv, TypeOK, TaskState, BurnCalls

LEMMA NextTryStep ==
  ASSUME IInv, NEW t \in Task, task[t].at \in {"burnClaim", "burnUpsert"},
         NextTry(t), UNCHANGED docVars, settled' = settled, HistTypeOK'
  PROVE  IInv'
  <1>1. OpFits(t)' /\ Knows(t)'
    BY NextTryFacts DEF OpFits, Knows, CreditCalls, DebitCalls, BurnCalls
  <1> QED
    BY <1>1, NextTryFacts, QuietStep, BurnStaysFinal DEF IInv

\* An exception of the claim, with the claim made or not, decides nothing.
LEMMA BurnClaimRaisedStep ==
  ASSUME IInv, NEW t \in Task, BurnClaimRaised(t) PROVE IInv'
  <1>1. HistTypeOK'
    BY DEF BurnClaimRaised, IInv, TypeOK, HistTypeOK
  <1>2. CASE UNCHANGED log
    BY <1>1, <1>2, NextTryStep DEF BurnClaimRaised, docVars
  <1>3. CASE /\ log[DebitId(t)] \in {"pending", "absent"}
             /\ log' = [log EXCEPT ![DebitId(t)] = "burned"]
    <2>1. log[DebitId(t)] \notin Closed
      BY <1>3 DEF Closed
    <2> QED
      BY <1>1, <1>3, <2>1, NextTryFacts, ClaimStep DEF BurnClaimRaised
  <1> QED
    BY <1>2, <1>3 DEF BurnClaimRaised

LEMMA BurnClaimStep ==
  ASSUME IInv, NEW t \in Task, BurnClaim(t) \/ BurnUpsert(t) PROVE IInv'
  <1>1. CASE /\ log[DebitId(t)] \notin Closed
             /\ log' = [log EXCEPT ![DebitId(t)] = "burned"]
             /\ Claimed(t)
    <2>1. settled' = settled /\ HistTypeOK'
      BY HistUnchanged DEF BurnClaim, BurnUpsert, IInv
    <2> QED
      BY <1>1, <2>1, ClaimStep, ClaimedFacts DEF BurnClaim, BurnUpsert, IInv
  <1>2. CASE NextTry(t) /\ UNCHANGED log
    <2>1. settled' = settled /\ HistTypeOK'
      BY HistUnchanged DEF BurnClaim, BurnUpsert, IInv
    <2> QED
      BY <1>2, <2>1, NextTryStep DEF BurnClaim, BurnUpsert, docVars
  <1>3. CASE task[t].at = "burnClaim" /\ Goto(t, "burnUpsert") /\ UNCHANGED log
    <2>1. UNCHANGED <<docVars, histVars>>
      BY <1>3 DEF BurnClaim, BurnUpsert, docVars
    <2>2. "burnUpsert" \in {"idle"} \cup CreditCalls \cup DebitCalls \cup BurnCalls
      BY DEF BurnCalls
    <2>3. task[t].op \in Debit /\ task[t].tries > 0
      BY <1>3 DEF IInv, TypeOK, OpFits, TaskKnows, Knows, BurnCalls
    <2>4. /\ task' \in [Task -> TaskState]
          /\ \A u \in Task \ {t} : task'[u] = task[u]
          /\ task'[t].at = "burnUpsert" /\ task'[t].op = task[t].op
          /\ task'[t].tries = task[t].tries
      BY <1>3, <2>2, GotoFacts DEF IInv
    <2>5. OpFits(t)' /\ Knows(t)'
      BY <2>3, <2>4 DEF OpFits, Knows, CreditCalls, DebitCalls, BurnCalls
    <2> QED
      BY <2>1, <2>4, <2>5, QuietStep, BurnStaysFinal, HistUnchanged DEF IInv, TypeOK
  <1> QED
    BY <1>1, <1>2, <1>3 DEF BurnClaim, BurnUpsert, Closed

LEMMA BurnTokenStep ==
  ASSUME IInv, NEW t \in Task, BurnToken(t) PROVE IInv'
  <1> DEFINE d == task[t].op
  <1>1. /\ d \in Debit /\ DebitId(t) = Real(d)
        /\ log[Real(d)] \in {"burned", "undone"}
    BY DEF BurnToken, IInv, TypeOK, OpFits, TaskKnows, Knows, DebitId, BurnCalls
  <1>2. /\ balance' = balance /\ log' = log /\ UNCHANGED histVars
        /\ registry' = registry \cup {Token(d)} /\ Goto(t, "burnEvidence")
    BY DEF BurnToken, DebitToken
  <1>3. "burnEvidence" \in {"idle"} \cup CreditCalls \cup DebitCalls \cup BurnCalls
    BY DEF BurnCalls
  <1>4. /\ task' \in [Task -> TaskState]
        /\ \A u \in Task \ {t} : task'[u] = task[u]
        /\ task'[t].at = "burnEvidence" /\ task'[t].op = d
    BY <1>2, <1>3, GotoFacts DEF IInv
  <1>5. OpFits(t)' /\ Knows(t)'
    BY <1>1, <1>2, <1>4 DEF OpFits, Knows, DebitId, DebitToken, CreditCalls, DebitCalls, BurnCalls
  <1>6. Monotone /\ registry' \subseteq RegistryId
    BY <1>1, <1>2, Ids DEF Monotone, IInv, TypeOK
  <1>7. UndoneOnlyIfCharged' /\ BurnIsFinal' /\ NoOverdraft'
    BY <1>1, <1>2, Ids DEF IInv, TypeOK, HistTypeOK, UndoneOnlyIfCharged, BurnIsFinal, Decided, histVars, NoOverdraft
  <1>8. LogTellsTheTruth' /\ LogBeforeToken'
    BY <1>1, <1>2, Ids DEF IInv, LogTellsTheTruth, LogBeforeToken
  <1> QED
    BY <1>2, <1>4, <1>5, <1>6, <1>7, <1>8, DocStep, HistUnchanged DEF IInv, TypeOK

LEMMA BurnEvidenceStep ==
  ASSUME IInv, NEW t \in Task, BurnEvidence(t) PROVE IInv'
  <1>1. /\ task[t].op \in Debit /\ DebitId(t) = Real(task[t].op)
        /\ Token(task[t].op) \in registry
    BY DEF BurnEvidence, IInv, TypeOK, OpFits, TaskKnows, Knows, DebitId, DebitToken, BurnCalls
  <1>2. UNCHANGED docVars /\ registry' = registry
    BY DEF BurnEvidence, docVars
  <1>3. CASE DebitId(t) \in registry /\ StartUndo(t, "sealUndone")
    BY <1>1, <1>2, <1>3, StartUndoFacts
  <1>4. CASE DebitId(t) \notin registry /\ Settle(t)
    BY <1>1, <1>2, <1>4, SettleFacts, QuietStep
  <1> QED
    BY <1>3, <1>4 DEF BurnEvidence

LEMMA SealUndoneStep ==
  ASSUME IInv, NEW t \in Task, SealUndone(t) PROVE IInv'
  <1> DEFINE d == task[t].op
  <1>1. /\ d \in Debit /\ Real(d) \in LogId /\ DebitId(t) = Real(d)
        /\ Undo(d) \in registry /\ Real(d) \in registry
    BY Ids DEF SealUndone, IInv, TypeOK, OpFits, TaskKnows, Knows, UndoneOnlyIfCharged, DebitId, BurnCalls
  <1>2. balance' = balance /\ registry' = registry /\ Settle(t)
    BY DEF SealUndone
  <1>3. /\ log' \in [LogId -> LogState]
        /\ \A j \in LogId : log'[j] # log[j] => j = Real(d) /\ log'[j] = "undone"
    BY <1>1 DEF SealUndone, IInv, TypeOK, LogState
  <1>4. /\ task' \in [Task -> TaskState]
        /\ \A u \in Task \ {t} : task'[u] = task[u]
        /\ OpFits(t)' /\ Knows(t)'
        /\ HistTypeOK' /\ BurnIsFinal'
    BY <1>1, <1>2, SettleFacts
  <1>5. Monotone
    BY <1>2, <1>3, Ids DEF Monotone, Closed
  <1>6. UndoneOnlyIfCharged' /\ NoOverdraft'
    BY <1>2 DEF IInv, UndoneOnlyIfCharged, NoOverdraft
  <1>7. LogTellsTheTruth' /\ LogBeforeToken'
    BY <1>1, <1>2, <1>3, Ids DEF IInv, LogTellsTheTruth, LogBeforeToken
  <1> QED
    BY <1>2, <1>3, <1>4, <1>5, <1>6, <1>7, DocStep, HistUnchanged DEF IInv, TypeOK

-----------------------------------------------------------------------------
(* The invariant                                                           *)

LEMMA StartStep ==
  ASSUME IInv, NEW t \in Task, Call(t) PROVE IInv'
  <1>1. PICK call \in {"creditFind", "debitFind", "burnRead"}, o \in Op, n \in {0, MaxTries} :
          /\ Start(t, call, o, n)
          /\ call = "creditFind" => o \in Credit
          /\ call # "creditFind" => o \in Debit
          /\ call = "burnRead" => n = MaxTries
    BY Ids DEF Call, CallCredit, CallDebit, CallBurn
  <1>2. task' = [task EXCEPT ![t] = [at |-> call, op |-> o, back |-> "idle", tries |-> n]]
    BY <1>1 DEF Start
  <1>3. [at |-> call, op |-> o, back |-> "idle", tries |-> n] \in TaskState
    BY DEF TaskState, CreditCalls, DebitCalls, BurnCalls, MaxTries
  <1>4. /\ task' \in [Task -> TaskState]
        /\ \A u \in Task \ {t} : task'[u] = task[u]
        /\ task'[t].at = call /\ task'[t].op = o
        /\ task'[t].back = "idle" /\ task'[t].tries = n
    BY <1>2, <1>3 DEF IInv, TypeOK
  <1>5. OpFits(t)' /\ Knows(t)'
    BY <1>1, <1>4 DEF OpFits, Knows, CreditCalls, DebitCalls, BurnCalls
  <1>6. /\ UNCHANGED docVars /\ UNCHANGED <<settled, gaveUp, erred>>
        /\ called' \subseteq called \cup Once
    BY DEF Call, CallCredit, CallDebit, CallBurn, Start, histVars
  <1>7. HistTypeOK' /\ BurnIsFinal'
    BY <1>6 DEF IInv, TypeOK, HistTypeOK, BurnIsFinal, Decided, docVars
  <1> QED
    BY <1>4, <1>5, <1>6, <1>7, QuietStep

LEMMA DieStep ==
  ASSUME IInv, NEW t \in Task, Die(t) PROVE IInv'
  <1>1. Goto(t, "idle") /\ UNCHANGED <<docVars, histVars>>
    BY DEF Die
  <1> QED
    BY <1>1, IdleFacts, QuietStep, BurnStaysFinal, HistUnchanged DEF IInv, TypeOK

LEMMA StepInv == IInv /\ [Next]_vars => IInv'
  <1> SUFFICES ASSUME IInv, [Next]_vars PROVE IInv'
    OBVIOUS
  <1>1. ASSUME NEW t \in Task, Call(t) \/ Run(t) \/ Die(t) PROVE IInv'
    <2>1. CASE Call(t)
      BY <2>1, StartStep
    <2>2. CASE CreditEnsure(t) \/ CreditApply(t) \/ CreditCheck(t) \/ CreditMark(t)
      BY <2>2, CreditEnsureStep, CreditApplyStep, CreditCheckStep, CreditMarkStep
    <2>3. CASE \/ DebitEnsure(t) \/ DebitApply(t) \/ DebitCheck(t) \/ DebitMark(t)
               \/ DebitRelease(t)
      BY <2>3, DebitEnsureStep, DebitApplyStep, DebitCheckStep, DebitMarkStep, DebitReleaseStep
    <2>4. CASE \/ BurnGiveUp(t) \/ BurnRead(t) \/ BurnClaim(t) \/ BurnUpsert(t)
               \/ BurnClaimRaised(t) \/ BurnToken(t) \/ BurnEvidence(t) \/ SealUndone(t)
      BY <2>4, BurnGiveUpStep, BurnReadStep, BurnClaimStep, BurnClaimRaisedStep, BurnTokenStep, BurnEvidenceStep, SealUndoneStep
    <2>5. CASE Die(t)
      BY <2>5, DieStep
    <2> QED
      BY <1>1, <2>1, <2>2, <2>3, <2>4, <2>5 DEF Run
  <1>2. CASE UNCHANGED vars
    <2> USE <1>2 DEF vars
    <2>1. TypeOK' /\ TaskKnows'
      BY DEF IInv, TypeOK, HistTypeOK, OpFits, TaskKnows, Knows, CreditId, DebitId, DebitToken, docVars, histVars
    <2>2. UndoneOnlyIfCharged' /\ BurnIsFinal' /\ LogTellsTheTruth' /\ NoOverdraft' /\ LogBeforeToken'
      BY DEF IInv, UndoneOnlyIfCharged, BurnIsFinal, Decided, docVars, histVars, LogTellsTheTruth, NoOverdraft, LogBeforeToken
    <2> QED
      BY <2>1, <2>2 DEF IInv
  <1> QED
    BY <1>1, <1>2 DEF Next

\* The invariant holds whatever the requests call and wherever they die.
THEOREM Invariant == Spec => []IInv
  BY InitInv, StepInv, PTL DEF Spec

\* Types, for every set of tasks and operations.
THEOREM TypeCorrect == Spec => []TypeOK
  <1>1. IInv => TypeOK
    BY DEF IInv
  <1> QED
    BY <1>1, Invariant, PTL

\* No interleaving of credits, debits, burns and crashes gives back money
\* that burn_or_undo_debit did not find taken.
THEOREM GiveBackSafe == Spec => []UndoneOnlyIfCharged
  <1>1. IInv => UndoneOnlyIfCharged
    BY DEF IInv
  <1> QED
    BY <1>1, Invariant, PTL

\* A debit for which burn_or_undo_debit has returned stays decided.
THEOREM BurnFinality == Spec => []BurnIsFinal
  <1>1. IInv => BurnIsFinal
    BY DEF IInv
  <1> QED
    BY <1>1, Invariant, PTL

\* The credit_ops log never claims money that did not move.
THEOREM LogTruth == Spec => []LogTellsTheTruth
  <1>1. IInv => LogTellsTheTruth
    BY DEF IInv
  <1> QED
    BY <1>1, Invariant, PTL

\* Without allow_negative debits the balance stays above -Tolerance.
THEOREM OverdraftBound == Spec => []NoOverdraft
  <1>1. IInv => NoOverdraft
    BY DEF IInv
  <1> QED
    BY <1>1, Invariant, PTL

-----------------------------------------------------------------------------
(* The loop of burn_or_undo_debit, for debits with one executor            *)

\* What a step of t can do to the log row of a debit.
LogMoves(t) ==
  \A d \in Debit :
    \/ log'[Real(d)] = log[Real(d)]
    \/ log'[Real(d)] \in Closed
    \/ log[Real(d)] = "pending" /\ log'[Real(d)] = "absent"
    \/ /\ log[Real(d)] = "absent" /\ log'[Real(d)] = "pending"
       /\ task[t].op = d /\ task[t].at = "debitInsert"
       /\ task'[t].at \in {"debitApply", "debitReread"}

\* How a step of t may enter the calls of a debit: from an earlier one of the
\* same call, or by the call itself.
CallMoves(t) ==
  \A d \in Once :
    /\ task'[t].op = d /\ task'[t].at \in DebitCalls
         => /\ d \in called'
            /\ d \notin called \/ (task[t].op = d /\ task[t].at \in DebitCalls)
    /\ task'[t].op = d /\ task'[t].at \in {"debitFind", "debitInsert"}
         => d \notin called \/ (task[t].op = d /\ task[t].at \in {"debitFind", "debitInsert"})

LEMMA OnceStep ==
  ASSUME IInv, OnceInv, NEW t \in Task,
         task' \in [Task -> TaskState], \A u \in Task \ {t} : task'[u] = task[u],
         LogMoves(t), CallMoves(t), called \subseteq called',
         \A d \in Debit : log[Real(d)] \in Closed => log'[Real(d)] \in Closed,
         gaveUp' \subseteq erred', erred \subseteq erred',
         task'[t].op \in Once \ erred' => TriesSpent(t)'
  PROVE  OnceInv'
  <1>0. Once \subseteq Debit
    BY OpsAssumption
  <1>1. ASSUME NEW d \in Once, PastInsert(d) PROVE PastInsert(d)'
    BY <1>1 DEF PastInsert, CallMoves
  <1>2. ASSUME NEW d \in Once, NEW u \in Task, task'[u].op = d, task'[u].at \in DebitCalls
        PROVE  /\ d \in called'
               /\ \A v \in Task \ {u} : task'[v].op = d => task'[v].at \notin DebitCalls
    <2>1. CASE u = t
      BY <1>2, <2>1 DEF CallMoves, OnceInv, OneExecutor
    <2>2. CASE u # t
      BY <1>2, <2>2 DEF CallMoves, OnceInv, OneExecutor
    <2> QED
      BY <2>1, <2>2
  <1>3. ASSUME NEW d \in Once, log'[Real(d)] = "pending" PROVE PastInsert(d)'
    <2>1. CASE log[Real(d)] = "pending"
      BY <1>1, <2>1 DEF OnceInv, OneExecutor
    <2>2. CASE log[Real(d)] # "pending"
      <3>1. task[t].op = d /\ task[t].at = "debitInsert" /\ task'[t].at \in {"debitApply", "debitReread"}
        BY <1>0, <1>3, <2>2 DEF LogMoves, Closed
      <3>2. d \in called /\ \A u \in Task \ {t} : task[u].op = d => task[u].at \notin DebitCalls
        BY <3>1 DEF OnceInv, OneExecutor, DebitCalls
      <3> QED
        BY <3>1, <3>2 DEF PastInsert, DebitCalls
    <2> QED
      BY <2>1, <2>2
  <1>4. OneExecutor'
    BY <1>2, <1>3 DEF OneExecutor
  <1>5. ASSUME NEW u \in Task \ {t}, task'[u].op \in Once \ erred' PROVE TriesSpent(u)'
    <2> DEFINE d == task[u].op
    <2>1. d \in Once /\ d \in Debit /\ task'[u] = task[u] /\ TriesSpent(u)
      BY <1>0, <1>5 DEF OnceInv
    <2>2. PastInsert(d) => PastInsert(d)'
      BY <1>1, <2>1
    <2>3. PastInsert(d) /\ log[Real(d)] # "pending" => log'[Real(d)] # "pending"
      BY <2>1 DEF LogMoves, PastInsert, Closed
    <2> QED
      BY <2>1, <2>2, <2>3 DEF TriesSpent, DebitId
  <1>6. \A u \in Task : task'[u].op \in Once \ erred' => TriesSpent(u)'
    BY <1>5
  <1> QED
    BY <1>4, <1>6 DEF OnceInv, BurnLoopSuffices

\* A step of t that leaves its debit calls and its burn loop, or never was
\* in them, and does not touch a debit's row except to close it.
Elsewhere == {"idle", "sealApplied", "sealUndone", "burnToken", "burnEvidence",
              "debitApply", "debitReread", "debitMark", "debitCheck", "debitRelease"}
                \cup CreditCalls

RowsClose == \A d \in Debit : log[Real(d)] \in Closed => log'[Real(d)] \in Closed

LEMMA LeaveStep ==
  ASSUME IInv, OnceInv, NEW t \in Task,
         task' \in [Task -> TaskState], \A u \in Task \ {t} : task'[u] = task[u],
         task'[t].at \in Elsewhere,
         task'[t].at # "idle" => task'[t].op = task[t].op,
         task'[t].at \in DebitCalls => task[t].at \in DebitCalls,
         LogMoves(t), RowsClose, UNCHANGED <<gaveUp, called, erred>>
  PROVE  OnceInv'
  <1>1. CallMoves(t)
    BY DEF CallMoves, OnceInv, OneExecutor, DebitCalls, Elsewhere, CreditCalls
  <1>2. TriesSpent(t)'
    BY DEF TriesSpent, Elsewhere, CreditCalls
  <1> QED
    BY <1>1, <1>2, OnceStep DEF OnceInv, BurnLoopSuffices, RowsClose

\* The same for a step that is a Goto.
LEMMA GotoLeaves ==
  ASSUME IInv, OnceInv, NEW t \in Task, NEW call \in Elsewhere, Goto(t, call),
         call \in DebitCalls => task[t].at \in DebitCalls,
         LogMoves(t), RowsClose, UNCHANGED <<gaveUp, called, erred>>
  PROVE  OnceInv'
  <1>1. call \in {"idle"} \cup CreditCalls \cup DebitCalls \cup BurnCalls
    BY DEF DebitCalls, BurnCalls, Elsewhere
  <1>2. /\ task' \in [Task -> TaskState]
        /\ \A u \in Task \ {t} : task'[u] = task[u]
        /\ task'[t].at = call
        /\ call # "idle" => task'[t].op = task[t].op
    BY <1>1, GotoFacts DEF IInv
  <1> QED
    BY <1>2, LeaveStep

LEMMA SameRows ==
  ASSUME \A d \in Debit : log'[Real(d)] = log[Real(d)], NEW t \in Task
  PROVE  LogMoves(t) /\ RowsClose
  BY DEF LogMoves, RowsClose

\* A credit works on a row of its own, or on that of a compensation.
LEMMA CreditRows ==
  ASSUME IInv, NEW t \in Task, task[t].at \in CreditCalls,
         \A j \in LogId : j # CreditId(t) => log'[j] = log[j]
  PROVE  \A d \in Debit : log'[Real(d)] = log[Real(d)]
  <1>1. \/ task[t].op \in Credit /\ CreditId(t) = Real(task[t].op)
        \/ task[t].op \in Debit /\ CreditId(t) = Undo(task[t].op)
    BY DEF CreditId, IInv, TypeOK, OpFits
  <1> QED
    BY <1>1, Ids, OpsAssumption

LEMMA OnceCredit ==
  ASSUME IInv, OnceInv, NEW t \in Task,
         CreditEnsure(t) \/ CreditApply(t) \/ CreditCheck(t) \/ CreditMark(t)
  PROVE  OnceInv'
  <1>1. task[t].back \in {"idle", "sealApplied", "sealUndone"}
    BY DEF IInv, TypeOK, TaskState
  <1>2. PICK call \in Elsewhere : Goto(t, call) /\ call \notin DebitCalls
    <2>1. CASE CreditEnsure(t)
      <3>1. ASSUME NEW insert \in {"creditInsert", "idle"},
                   EnsureFind(t, CreditId(t), insert, "creditApply", task[t].back)
            PROVE  \E c \in Elsewhere : Goto(t, c) /\ c \notin DebitCalls
        <4> DEFINE c == IF log[CreditId(t)] = "absent" THEN insert
                        ELSE IF log[CreditId(t)] = "pending" THEN "creditApply" ELSE task[t].back
        <4>1. Goto(t, c)
          BY <3>1 DEF EnsureFind
        <4>2. c \in Elsewhere /\ c \notin DebitCalls
          BY <1>1 DEF Elsewhere, CreditCalls, DebitCalls
        <4> QED
          BY <4>1, <4>2
      <3>2. CASE EnsureInsert(t, CreditId(t), "creditApply", "creditReread")
        BY <3>2 DEF EnsureInsert, Elsewhere, CreditCalls, DebitCalls
      <3> QED
        BY <2>1, <3>1, <3>2 DEF CreditEnsure, EnsureReread
    <2>2. CASE CreditApply(t)
      BY <2>2 DEF CreditApply, Elsewhere, CreditCalls, DebitCalls
    <2>3. CASE CreditMark(t)
      BY <1>1, <2>3 DEF CreditMark, Elsewhere, DebitCalls
    <2>4. CASE CreditCheck(t)
      <3>1. CreditId(t) \in registry
        BY <2>4 DEF CreditCheck, IInv, TaskKnows, Knows
      <3> QED
        BY <2>4, <3>1 DEF CreditCheck, Elsewhere, CreditCalls, DebitCalls
    <2> QED
      BY <2>1, <2>2, <2>3, <2>4
  <1>3. task[t].at \in CreditCalls /\ UNCHANGED histVars
    BY DEF CreditEnsure, CreditApply, CreditCheck, CreditMark, EnsureFind, EnsureInsert, EnsureReread, CreditCalls
  <1>4. \A j \in LogId : j # CreditId(t) => log'[j] = log[j]
    BY DEF CreditEnsure, CreditApply, CreditCheck, CreditMark, EnsureFind, EnsureInsert, EnsureReread, MarkApplied, docVars, IInv, TypeOK
  <1>5. LogMoves(t) /\ RowsClose
    BY <1>3, <1>4, CreditRows, SameRows
  <1> QED
    BY <1>2, <1>3, <1>5, GotoLeaves DEF histVars

LEMMA OnceCall ==
  ASSUME IInv, OnceInv, NEW t \in Task, Call(t) PROVE OnceInv'
  <1>1. PICK call \in {"creditFind", "debitFind", "burnRead"}, o \in Op, n \in {0, MaxTries} :
          /\ Start(t, call, o, n)
          /\ call = "creditFind" => o \in Credit
          /\ call = "burnRead" => n = MaxTries
          /\ called' = IF call = "debitFind" THEN called \cup ({o} \cap Once) ELSE called
          /\ call = "debitFind" => o \notin called
          /\ gaveUp' = gaveUp /\ erred' = erred
    BY Ids DEF Call, CallCredit, CallDebit, CallBurn, histVars
  <1>2. task' = [task EXCEPT ![t] = [at |-> call, op |-> o, back |-> "idle", tries |-> n]]
    BY <1>1 DEF Start
  <1>3. [at |-> call, op |-> o, back |-> "idle", tries |-> n] \in TaskState
    BY DEF TaskState, CreditCalls, DebitCalls, BurnCalls, MaxTries
  <1>4. /\ task' \in [Task -> TaskState]
        /\ \A u \in Task \ {t} : task'[u] = task[u]
        /\ task'[t].at = call /\ task'[t].op = o /\ task'[t].tries = n
    BY <1>2, <1>3 DEF IInv, TypeOK
  <1>5. LogMoves(t) /\ RowsClose
    BY <1>1, SameRows DEF Start, docVars
  <1>6. CallMoves(t)
    BY <1>1, <1>4, OpsAssumption DEF CallMoves, DebitCalls
  <1>7. TriesSpent(t)'
    BY <1>1, <1>4 DEF TriesSpent, MaxTries
  <1> QED
    BY <1>1, <1>4, <1>5, <1>6, <1>7, OnceStep DEF OnceInv, BurnLoopSuffices, RowsClose

\* Once its insert is reached the debit has been called, and nobody else is.
LEMMA OnceDebitFind ==
  ASSUME IInv, OnceInv, NEW t \in Task, task[t].at \in {"debitFind", "debitReread"},
         NEW insert \in {"debitInsert", "idle"},
         insert = "debitInsert" => task[t].at = "debitFind",
         EnsureFind(t, DebitId(t), insert, "debitApply", "idle")
  PROVE  OnceInv'
  <1> DEFINE call == IF log[DebitId(t)] = "absent" THEN insert
                     ELSE IF log[DebitId(t)] = "pending" THEN "debitApply" ELSE "idle"
  <1>1. Goto(t, call) /\ call \in {insert, "debitApply", "idle"}
    BY DEF EnsureFind
  <1> HIDE DEF call
  <1>2. LogMoves(t) /\ RowsClose /\ UNCHANGED <<gaveUp, called, erred>>
    BY SameRows DEF EnsureFind, docVars, histVars
  <1>3. CASE call = "debitInsert"
    <2>1. "debitInsert" \in {"idle"} \cup CreditCalls \cup DebitCalls \cup BurnCalls
      BY DEF DebitCalls
    <2>2. /\ task' \in [Task -> TaskState]
          /\ \A u \in Task \ {t} : task'[u] = task[u]
          /\ task'[t].at = "debitInsert" /\ task'[t].op = task[t].op
      BY <1>1, <1>3, <2>1, GotoFacts DEF IInv
    <2>3. CallMoves(t)
      BY <1>1, <1>2, <1>3, <2>2 DEF CallMoves, OnceInv, OneExecutor, DebitCalls
    <2>4. TriesSpent(t)'
      BY <2>2 DEF TriesSpent
    <2> QED
      BY <1>2, <2>2, <2>3, <2>4, OnceStep DEF OnceInv, BurnLoopSuffices, RowsClose
  <1>4. CASE call # "debitInsert"
    BY <1>1, <1>2, <1>4, GotoLeaves DEF Elsewhere, DebitCalls
  <1> QED
    BY <1>3, <1>4

LEMMA OnceDebitInsert ==
  ASSUME IInv, OnceInv, NEW t \in Task, task[t].at = "debitInsert",
         EnsureInsert(t, DebitId(t), "debitApply", "debitReread")
  PROVE  OnceInv'
  <1>1. /\ task[t].op \in Debit /\ DebitId(t) = Real(task[t].op)
        /\ DebitId(t) \in LogId /\ log \in [LogId -> LogState]
    BY Ids DEF IInv, TypeOK, OpFits, DebitId, DebitCalls
  <1>2. UNCHANGED <<gaveUp, called, erred>>
    BY DEF EnsureInsert, histVars
  <1>3. CASE Goto(t, "debitReread") /\ UNCHANGED log
    BY <1>2, <1>3, SameRows, GotoLeaves DEF Elsewhere, DebitCalls
  <1>4. ASSUME NEW call \in {"debitApply", "debitReread"}, Goto(t, call),
               log[DebitId(t)] = "absent", log' = [log EXCEPT ![DebitId(t)] = "pending"]
        PROVE  OnceInv'
    <2>1. call \in {"idle"} \cup CreditCalls \cup DebitCalls \cup BurnCalls
      BY DEF DebitCalls
    <2>2. task'[t].at = call
      BY <1>4, <2>1, GotoFacts DEF IInv
    <2>3. LogMoves(t) /\ RowsClose
      BY <1>1, <1>4, <2>2, Ids DEF LogMoves, RowsClose, Closed
    <2> QED
      BY <1>2, <1>4, <2>3, GotoLeaves DEF Elsewhere, DebitCalls
  <1> QED
    BY <1>3, <1>4 DEF EnsureInsert

LEMMA OnceDebit ==
  ASSUME IInv, OnceInv, NEW t \in Task,
         \/ DebitEnsure(t) \/ DebitApply(t) \/ DebitCheck(t) \/ DebitMark(t)
         \/ DebitRelease(t)
  PROVE  OnceInv'
  <1>1. CASE DebitEnsure(t)
    BY <1>1, OnceDebitFind, OnceDebitInsert DEF DebitEnsure, EnsureReread
  <1>2. CASE DebitApply(t) \/ DebitCheck(t)
    <2>1. PICK call \in {"debitMark", "debitCheck", "debitRelease"} : Goto(t, call)
      BY <1>2 DEF DebitApply, DebitCheck
    <2>2. log' = log /\ UNCHANGED <<gaveUp, called, erred>> /\ task[t].at \in DebitCalls
      BY <1>2 DEF DebitApply, DebitCheck, docVars, histVars, DebitCalls
    <2> QED
      BY <2>1, <2>2, SameRows, GotoLeaves DEF Elsewhere
  <1>3. CASE DebitMark(t) \/ DebitRelease(t)
    <2>1. Goto(t, "idle") /\ UNCHANGED <<gaveUp, called, erred>>
      BY <1>3 DEF DebitMark, DebitRelease, histVars
    <2>2. DebitId(t) \in LogId /\ log \in [LogId -> LogState]
      BY <1>3, Ids DEF DebitMark, DebitRelease, IInv, TypeOK, OpFits, DebitId, DebitCalls
    <2>3. LogMoves(t) /\ RowsClose
      BY <1>3, <2>2, Ids DEF DebitMark, DebitRelease, MarkApplied, LogMoves, RowsClose, Closed, LogState
    <2> QED
      BY <2>1, <2>3, GotoLeaves DEF Elsewhere, DebitCalls
  <1> QED
    BY <1>1, <1>2, <1>3

\* The row of a debit with one executor is closed, by whoever, before the
\* third iteration unless a claim raised: the loop does not run out.
LEMMA OnceGiveUp ==
  ASSUME IInv, OnceInv, NEW t \in Task, BurnGiveUp(t) PROVE OnceInv'
  <1>1. task[t].op \notin Once \ erred
    BY DEF BurnGiveUp, OnceInv, TriesSpent
  <1>2. gaveUp' \subseteq erred' /\ UNCHANGED <<called, erred>> /\ log' = log /\ Goto(t, "idle")
    BY <1>1 DEF BurnGiveUp, OnceInv, BurnLoopSuffices, docVars
  <1>3. /\ task' \in [Task -> TaskState]
        /\ \A u \in Task \ {t} : task'[u] = task[u]
        /\ task'[t].at = "idle"
    BY <1>2, GotoFacts DEF IInv
  <1>4. LogMoves(t) /\ RowsClose
    BY <1>2, SameRows
  <1>5. CallMoves(t) /\ TriesSpent(t)'
    BY <1>3 DEF CallMoves, TriesSpent, DebitCalls
  <1> QED
    BY <1>2, <1>3, <1>4, <1>5, OnceStep DEF RowsClose

LEMMA OnceRead ==
  ASSUME IInv, OnceInv, NEW t \in Task, BurnRead(t) PROVE OnceInv'
  <1>1. LogMoves(t) /\ RowsClose /\ UNCHANGED <<gaveUp, called, erred>>
    BY SameRows DEF BurnRead, docVars, histVars, Settle, StartUndo
  <1>2. CASE Settle(t)
    BY <1>1, <1>2, GotoLeaves DEF Settle, Elsewhere, DebitCalls
  <1>3. CASE StartUndo(t, "sealApplied")
    <2>1. /\ task' \in [Task -> TaskState]
          /\ \A u \in Task \ {t} : task'[u] = task[u]
          /\ task'[t].at = "creditFind" /\ task'[t].op = task[t].op
      BY <1>3, UndoTask DEF IInv
    <2> QED
      BY <1>1, <2>1, LeaveStep DEF Elsewhere, CreditCalls, DebitCalls
  <1>4. CASE Claimed(t)
    BY <1>1, <1>4, ClaimedFacts, LeaveStep DEF IInv, Elsewhere, DebitCalls
  <1>5. CASE log[DebitId(t)] \in {"absent", "pending"} /\ Goto(t, "burnClaim")
    <2>1. "burnClaim" \in {"idle"} \cup CreditCalls \cup DebitCalls \cup BurnCalls
      BY DEF BurnCalls
    <2>2. /\ task' \in [Task -> TaskState]
          /\ \A u \in Task \ {t} : task'[u] = task[u]
          /\ task'[t].at = "burnClaim" /\ task'[t].op = task[t].op
          /\ task'[t].tries = task[t].tries
      BY <1>5, <2>1, GotoFacts DEF IInv
    <2>3. CallMoves(t)
      BY <2>2 DEF CallMoves, DebitCalls
    <2>4. PastInsert(task[t].op) => PastInsert(task[t].op)'
      BY <1>1, <2>2 DEF PastInsert
    <2>5. task'[t].op \in Once \ erred => TriesSpent(t)'
      BY <1>5, <2>2, <2>4 DEF TriesSpent, OnceInv, BurnRead, Closed
    <2> QED
      BY <1>1, <2>2, <2>3, <2>5, OnceStep DEF OnceInv, BurnLoopSuffices, RowsClose
  <1> QED
    BY <1>2, <1>3, <1>4, <1>5 DEF BurnRead

LEMMA OnceClaim ==
  ASSUME IInv, OnceInv, NEW t \in Task, BurnClaim(t) \/ BurnUpsert(t) PROVE OnceInv'
  <1> DEFINE d == task[t].op
  <1>1. /\ d \in Debit /\ DebitId(t) = Real(d) /\ Real(d) \in LogId
        /\ log \in [LogId -> LogState] /\ UNCHANGED <<gaveUp, called, erred>>
        /\ task[t].at \in {"burnClaim", "burnUpsert"} /\ task[t].tries > 0
    BY Ids DEF BurnClaim, BurnUpsert, IInv, TypeOK, OpFits, TaskKnows, Knows, DebitId, BurnCalls, histVars
  <1>2. CASE /\ log[DebitId(t)] \notin Closed
             /\ log' = [log EXCEPT ![DebitId(t)] = "burned"] /\ Claimed(t)
    <2>1. LogMoves(t) /\ RowsClose
      BY <1>1, <1>2, Ids DEF LogMoves, RowsClose, Closed
    <2> QED
      BY <1>1, <1>2, <2>1, ClaimedFacts, LeaveStep DEF IInv, Elsewhere, DebitCalls
  <1>3. CASE log[Real(d)] = "absent" /\ Goto(t, "burnUpsert") /\ UNCHANGED log
                /\ task[t].at = "burnClaim"
    <2>1. "burnUpsert" \in {"idle"} \cup CreditCalls \cup DebitCalls \cup BurnCalls
      BY DEF BurnCalls
    <2>2. /\ task' \in [Task -> TaskState]
          /\ \A u \in Task \ {t} : task'[u] = task[u]
          /\ task'[t].at = "burnUpsert" /\ task'[t].op = d
          /\ task'[t].tries = task[t].tries
      BY <1>3, <2>1, GotoFacts DEF IInv
    <2>3. CallMoves(t)
      BY <2>2 DEF CallMoves, DebitCalls
    <2>4. PastInsert(d) => PastInsert(d)'
      BY <1>1, <2>2 DEF PastInsert
    <2>5. d \in Once \ erred => TriesSpent(t)'
      BY <1>1, <1>3, <2>2, <2>4 DEF TriesSpent, OnceInv, DebitId
    <2> QED
      BY <1>1, <1>3, <2>2, <2>3, <2>5, SameRows, OnceStep DEF OnceInv, BurnLoopSuffices, RowsClose
  <1>4. CASE /\ NextTry(t) /\ UNCHANGED log
             /\ log[Real(d)] \in Closed \/ (log[Real(d)] = "pending" /\ task[t].at = "burnUpsert")
    <2>1. task[t] \in TaskState /\ task[t].tries - 1 \in 0..MaxTries
      BY <1>1 DEF IInv, TypeOK, TaskState, MaxTries
    <2>2. /\ task' \in [Task -> TaskState]
          /\ \A u \in Task \ {t} : task'[u] = task[u]
          /\ task'[t].at = "burnRead" /\ task'[t].op = d
          /\ task'[t].tries = task[t].tries - 1
      BY <1>4, <2>1 DEF NextTry, IInv, TypeOK, TaskState, BurnCalls
    <2>3. CallMoves(t)
      BY <2>2 DEF CallMoves, DebitCalls
    <2>4. PastInsert(d) => PastInsert(d)'
      BY <1>1, <2>2 DEF PastInsert
    <2>5. d \in Once /\ log[Real(d)] = "pending" => PastInsert(d)
      BY DEF OnceInv, OneExecutor
    <2>6. d \in Once \ erred => task[t].tries = 3 \/ (task[t].tries = 2 /\ log[Real(d)] \in Closed)
      BY <1>1, <1>4 DEF OnceInv, TriesSpent, DebitId
    <2>7. d \in Once \ erred => TriesSpent(t)'
      BY <1>1, <1>4, <2>2, <2>4, <2>5, <2>6 DEF TriesSpent, DebitId
    <2> QED
      BY <1>1, <1>4, <2>2, <2>3, <2>7, SameRows, OnceStep DEF OnceInv, BurnLoopSuffices, RowsClose
  <1>5. log[Real(d)] \in {"absent", "pending"} \cup Closed
    BY <1>1 DEF LogState, Closed
  <1>6. "absent" \notin Closed /\ "pending" \notin Closed
    BY DEF Closed
  <1>7. CASE BurnClaim(t)
    BY <1>1, <1>2, <1>3, <1>4, <1>6, <1>7 DEF BurnClaim
  <1>8. CASE BurnUpsert(t)
    BY <1>1, <1>2, <1>4, <1>5, <1>6, <1>8 DEF BurnUpsert
  <1> QED
    BY <1>7, <1>8

\* After an exception of its claim nothing is said of the debit's iterations.
LEMMA OnceRaised ==
  ASSUME IInv, OnceInv, NEW t \in Task, BurnClaimRaised(t) PROVE OnceInv'
  <1> DEFINE d == task[t].op
  <1>1. /\ d \in Debit /\ DebitId(t) = Real(d) /\ Real(d) \in LogId
        /\ log \in [LogId -> LogState] /\ gaveUp' = gaveUp /\ called' = called
        /\ erred' = erred \cup ({d} \cap Once)
        /\ task[t].at \in {"burnClaim", "burnUpsert"}
    BY Ids DEF BurnClaimRaised, IInv, TypeOK, OpFits, DebitId, BurnCalls
  <1>2. /\ task' \in [Task -> TaskState]
        /\ \A u \in Task \ {t} : task'[u] = task[u]
        /\ task'[t].at = "burnRead" /\ task'[t].op = d
    BY <1>1, NextTryFacts DEF BurnClaimRaised
  <1>3. LogMoves(t) /\ RowsClose
    BY <1>1, Ids DEF BurnClaimRaised, LogMoves, RowsClose, Closed
  <1>4. CallMoves(t)
    BY <1>2 DEF CallMoves, DebitCalls
  <1> QED
    BY <1>1, <1>2, <1>3, <1>4, OnceStep DEF OnceInv, BurnLoopSuffices, RowsClose

LEMMA OnceResolve ==
  ASSUME IInv, OnceInv, NEW t \in Task,
         BurnToken(t) \/ BurnEvidence(t) \/ SealUndone(t)
  PROVE  OnceInv'
  <1>1. UNCHANGED <<gaveUp, called, erred>>
    BY DEF BurnToken, BurnEvidence, SealUndone, Settle, StartUndo, histVars
  <1>2. DebitId(t) \in LogId /\ log \in [LogId -> LogState]
    BY Ids DEF BurnToken, BurnEvidence, SealUndone, IInv, TypeOK, OpFits, DebitId, BurnCalls
  <1>3. LogMoves(t) /\ RowsClose
    BY <1>2, Ids DEF BurnToken, BurnEvidence, SealUndone, LogMoves, RowsClose, Closed, docVars
  <1>4. CASE StartUndo(t, "sealUndone")
    <2>1. /\ task' \in [Task -> TaskState]
          /\ \A u \in Task \ {t} : task'[u] = task[u]
          /\ task'[t].at = "creditFind" /\ task'[t].op = task[t].op
      BY <1>4, UndoTask DEF IInv
    <2> QED
      BY <1>1, <1>3, <2>1, LeaveStep DEF Elsewhere, CreditCalls, DebitCalls
  <1>5. CASE Goto(t, "idle") \/ Goto(t, "burnEvidence")
    BY <1>1, <1>3, <1>5, GotoLeaves DEF Elsewhere, DebitCalls
  <1> QED
    BY <1>4, <1>5 DEF BurnToken, BurnEvidence, SealUndone, Settle

LEMMA OnceInductive == IInv /\ OnceInv /\ [Next]_vars => OnceInv'
  <1> SUFFICES ASSUME IInv, OnceInv, [Next]_vars PROVE OnceInv'
    OBVIOUS
  <1>1. ASSUME NEW t \in Task, Call(t) \/ Run(t) \/ Die(t) PROVE OnceInv'
    <2>1. CASE Call(t) \/ Run(t)
      BY <2>1, OnceCall, OnceCredit, OnceDebit, OnceGiveUp, OnceRead, OnceClaim, OnceRaised, OnceResolve DEF Run
    <2>2. CASE Die(t)
      BY <2>2, SameRows, GotoLeaves DEF Die, Elsewhere, DebitCalls, docVars, histVars
    <2> QED
      BY <1>1, <2>1, <2>2
  <1>2. CASE UNCHANGED vars
    BY <1>2 DEF vars, docVars, histVars, OnceInv, OneExecutor, PastInsert, TriesSpent, BurnLoopSuffices, DebitId
  <1> QED
    BY <1>1, <1>2 DEF Next

\* A debit of Once has one executor at a time, its pending row is one whose
\* insert is behind every task, and each iteration that a burn of it lost was
\* lost to a change of that row, unless a claim of it raised.
LEMMA OnceDecides == Spec => []OnceInv
  <1>1. Init => OnceInv
    BY OpsAssumption, Ids DEF Init, OnceInv, OneExecutor, PastInsert, TriesSpent, BurnLoopSuffices, Idle, DebitCalls, TaskState
  <1> QED
    BY <1>1, Invariant, OnceInductive, PTL DEF Spec

\* burn_or_undo_debit leaves a debit with a single executor undecided, after
\* its three iterations, only if one of its claims raised in the driver: other
\* burns, the executor and crashes cannot use the iterations up.
THEOREM BurnDecides == Spec => []BurnLoopSuffices
  <1>1. OnceInv => BurnLoopSuffices
    BY DEF OnceInv
  <1> QED
    BY <1>1, OnceDecides, PTL

-----------------------------------------------------------------------------
(* The helpers implement OpLedger                                          *)

LEMMA InitRefines == Init => Ledger!LedgerInit
  BY DEF Init, Ledger!LedgerInit, OpStatus, Ledger!Op, Op

\* Only two updates touch the balance and only three the registry: every
\* other call leaves the abstract state alone.
LEMMA QuietStutters ==
  ASSUME balance' = balance, registry' = registry
  PROVE  UNCHANGED Ledger!ledgerVars
  BY DEF Ledger!ledgerVars, OpStatus

\* How the status of each operation follows from a registry that grew by i.
LEMMA StatusStep ==
  ASSUME NEW i, registry' = registry \cup {i}, NEW o \in Op,
         i \notin {Real(o), Undo(o), Token(o)}
  PROVE  OpStatus'[o] = OpStatus[o]
  BY DEF OpStatus

LEMMA CreditApplyRefines ==
  ASSUME IInv, NEW t \in Task, CreditApply(t)
  PROVE  [Ledger!LedgerNext]_(Ledger!ledgerVars)
  <1> DEFINE o == task[t].op
  <1>1. \/ task[t].back = "idle" /\ o \in Credit /\ CreditId(t) = Real(o)
        \/ o \in Debit /\ CreditId(t) = Undo(o) /\ Real(o) \in registry
    BY DEF CreditApply, IInv, TypeOK, OpFits, TaskKnows, Knows, CreditId, CreditCalls
  <1>2. CASE CreditId(t) \in registry
    BY <1>2, QuietStutters DEF CreditApply
  <1>3. CASE CreditId(t) \notin registry
    <2>1. /\ balance' = balance + Amount[o]
          /\ registry' = registry \cup {CreditId(t)}
      BY <1>3 DEF CreditApply
    <2>2. \A p \in Op : p # o => OpStatus'[p] = OpStatus[p]
      BY <1>1, <2>1, StatusStep, Ids
    <2>3. CASE o \in Credit /\ CreditId(t) = Real(o)
      <3>1. OpStatus[o] = "open" /\ OpStatus'[o] = "applied" /\ o \in Op
        BY <1>3, <2>1, <2>3, Ids, OpsAssumption DEF OpStatus
      <3>2. OpStatus' = [OpStatus EXCEPT ![o] = "applied"]
        BY <2>2, <3>1 DEF OpStatus
      <3>3. Ledger!ApplyCredit(o)
        BY <2>1, <3>1, <3>2 DEF Ledger!ApplyCredit
      <3> QED
        BY <2>3, <3>3 DEF Ledger!LedgerNext
    <2>4. CASE o \in Debit /\ CreditId(t) = Undo(o) /\ Real(o) \in registry
      <3>1. OpStatus[o] = "applied" /\ OpStatus'[o] = "undone" /\ o \in Op
        BY <1>3, <2>1, <2>4, Ids DEF OpStatus
      <3>2. OpStatus' = [OpStatus EXCEPT ![o] = "undone"]
        BY <2>2, <3>1 DEF OpStatus
      <3>3. Ledger!GiveBack(o)
        BY <2>1, <3>1, <3>2 DEF Ledger!GiveBack
      <3> QED
        BY <2>4, <3>3 DEF Ledger!LedgerNext
    <2> QED
      BY <1>1, <2>3, <2>4
  <1> QED
    BY <1>2, <1>3

LEMMA DebitApplyRefines ==
  ASSUME IInv, NEW t \in Task, DebitApply(t)
  PROVE  [Ledger!LedgerNext]_(Ledger!ledgerVars)
  <1> DEFINE d == task[t].op
  <1>1. d \in Debit /\ d \in Op
    BY Ids DEF DebitApply, IInv, TypeOK, OpFits, DebitCalls
  <1>2. CASE ~Chargeable(d)
    BY <1>2, QuietStutters DEF DebitApply
  <1>3. CASE Chargeable(d)
    <2>1. balance' = balance - Amount[d] /\ registry' = registry \cup {Real(d)}
      BY <1>3 DEF DebitApply, DebitId
    <2>2. \A p \in Op : p # d => OpStatus'[p] = OpStatus[p]
      BY <1>1, <2>1, StatusStep, Ids
    <2>3. Undo(d) \notin registry'
      BY <1>1, <1>3, <2>1, Ids DEF IInv, UndoneOnlyIfCharged, Chargeable
    <2>4. OpStatus[d] = "open" /\ OpStatus'[d] = "applied"
      BY <1>1, <1>3, <2>1, <2>3 DEF OpStatus, Chargeable
    <2>5. OpStatus' = [OpStatus EXCEPT ![d] = "applied"]
      BY <1>1, <2>2, <2>4 DEF OpStatus
    <2>6. Ledger!ApplyDebit(d)
      BY <1>3, <2>1, <2>4, <2>5 DEF Ledger!ApplyDebit, Chargeable
    <2> QED
      BY <1>1, <2>6 DEF Ledger!LedgerNext
  <1> QED
    BY <1>2, <1>3

LEMMA BurnTokenRefines ==
  ASSUME IInv, NEW t \in Task, BurnToken(t)
  PROVE  [Ledger!LedgerNext]_(Ledger!ledgerVars)
  <1> DEFINE d == task[t].op
  <1>1. d \in Debit /\ d \in Op
    BY Ids DEF BurnToken, IInv, TypeOK, OpFits, BurnCalls
  <1>2. balance' = balance /\ registry' = registry \cup {Token(d)}
    BY DEF BurnToken, DebitToken
  <1>3. \A p \in Op : p # d => OpStatus'[p] = OpStatus[p]
    BY <1>1, <1>2, StatusStep, Ids
  <1>4. CASE Real(d) \in registry \/ Token(d) \in registry
    <2>1. OpStatus'[d] = OpStatus[d]
      BY <1>1, <1>2, <1>4, Ids DEF OpStatus
    <2>2. OpStatus' = OpStatus
      BY <1>3, <2>1 DEF OpStatus
    <2> QED
      BY <1>2, <2>2 DEF Ledger!ledgerVars
  <1>5. CASE Real(d) \notin registry /\ Token(d) \notin registry
    <2>1. OpStatus[d] = "open" /\ OpStatus'[d] = "void"
      BY <1>1, <1>2, <1>5, Ids DEF OpStatus
    <2>2. OpStatus' = [OpStatus EXCEPT ![d] = "void"]
      BY <1>1, <1>3, <2>1 DEF OpStatus
    <2>3. Ledger!Seal(d)
      BY <1>2, <2>1, <2>2 DEF Ledger!Seal
    <2> QED
      BY <1>1, <2>3 DEF Ledger!LedgerNext
  <1> QED
    BY <1>4, <1>5

LEMMA StepRefines == IInv /\ [Next]_vars => [Ledger!LedgerNext]_(Ledger!ledgerVars)
  <1> SUFFICES ASSUME IInv, [Next]_vars PROVE [Ledger!LedgerNext]_(Ledger!ledgerVars)
    OBVIOUS
  <1>1. CASE UNCHANGED vars
    BY <1>1, QuietStutters DEF vars, docVars
  <1>2. ASSUME NEW t \in Task, Call(t) \/ Run(t) \/ Die(t)
        PROVE  [Ledger!LedgerNext]_(Ledger!ledgerVars)
    <2>1. CASE Call(t) \/ Die(t)
      BY <2>1, QuietStutters DEF Call, Die, CallCredit, CallDebit, CallBurn, Start, docVars
    <2>2. CASE CreditEnsure(t) \/ DebitEnsure(t)
      BY <2>2, QuietStutters DEF CreditEnsure, DebitEnsure, EnsureFind, EnsureInsert, EnsureReread, docVars
    <2>3. CASE \/ CreditCheck(t) \/ CreditMark(t) \/ DebitCheck(t) \/ DebitMark(t)
               \/ DebitRelease(t) \/ BurnGiveUp(t) \/ BurnRead(t) \/ BurnClaim(t)
               \/ BurnUpsert(t) \/ BurnClaimRaised(t) \/ BurnEvidence(t) \/ SealUndone(t)
      BY <2>3, QuietStutters DEF CreditCheck, CreditMark, DebitCheck, DebitMark, DebitRelease, BurnGiveUp, BurnRead, BurnClaim, BurnUpsert, BurnClaimRaised, BurnEvidence, SealUndone, docVars
    <2>4. CASE CreditApply(t) \/ DebitApply(t) \/ BurnToken(t)
      BY <2>4, CreditApplyRefines, DebitApplyRefines, BurnTokenRefines
    <2> QED
      BY <1>2, <2>1, <2>2, <2>3, <2>4 DEF Run
  <1> QED
    BY <1>1, <1>2 DEF Next

\* services/balances.py implements OpLedger: each op_id moves its money at
\* most once, never after it was sealed, and is given back at most once.
THEOREM Refinement == Spec => ImplementsLedger
  BY Invariant, InitRefines, StepRefines, PTL DEF Spec, ImplementsLedger, Ledger!LedgerSpec
=============================================================================

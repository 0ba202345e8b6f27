------------------------------ MODULE CreditOps ------------------------------
(***************************************************************************)
(* services/balances.py: the exactly-once credit, the exactly-once debit   *)
(* and burn_or_undo_debit, run by concurrent tasks (request handlers and   *)
(* the healer of credit_recovery.py) over a MongoDB without multi-document *)
(* transactions.  Every action is one MongoDB call, or one half of an      *)
(* upsert, whose query and insert are not atomic together; between two of  *)
(* them any other task may run, and a task may die.                        *)
(*                                                                         *)
(* The documents involved: credit_ops (one row per op_id, the durable log) *)
(* and the user's document (the balance and applied_credit_ops, the        *)
(* embedded registry, updated together by one atomic update).              *)
(*                                                                         *)
(* An operator named after a definition with a suffix (CreditApplyUn-      *)
(* filtered, BurnTokenSkipped, ...) is a mistake the code avoids: the runs *)
(* find the property it breaks, and nothing else uses it.                  *)
(***************************************************************************)
EXTENDS Integers, FiniteSets

CONSTANTS Task, Credit, Debit, Forced, Amount, Opening, Tolerance,
          Once  \* the debits only one executor ever calls, as the creation
                \* flows do (their healer only burns); a re-debit has several

ASSUME OpsAssumption ==
  /\ Credit \cup Debit # {}
  /\ Credit \cap Debit = {}
  /\ Forced \subseteq Debit
  /\ Amount \in [Credit \cup Debit -> Nat \ {0}]
  /\ Opening \in Nat
  /\ Tolerance \in Nat
  /\ Once \subseteq Debit

Op == Credit \cup Debit

\* The ids of the registry and of the log: an operation's own op_id, the id
\* op:undo of the credit that gives a debit back, and the token op:burn.
Real(o) == <<"real", o>>
Undo(d) == <<"undo", d>>
Token(d) == <<"burn", d>>

LogId == ({"real"} \X Op) \cup ({"undo"} \X Debit)
RegistryId == LogId \cup ({"burn"} \X Debit)

VARIABLES balance,  \* users.vip_balances[code] (+ vip_balance_usd for USD)
          registry, \* users.applied_credit_ops
          log,      \* credit_ops: log id -> state
          task,     \* task -> the MongoDB call it makes next, and its locals
          settled,  \* history: debits a burn_or_undo_debit decided
          gaveUp,   \* history: those of Once on which its loop ran out
          called,   \* history: those of Once already called
          erred     \* history: those of Once one of whose claims raised

docVars == <<balance, registry, log>>
histVars == <<settled, gaveUp, called, erred>>
vars == <<docVars, task, histVars>>

LogState == {"absent", "pending", "applied", "burned", "undone"}

\* _ops_log_ensure answers "applied" for these three states.
Closed == {"applied", "burned", "undone"}

TwoTries == 2

MaxTries == 3

CreditCalls == {"creditFind", "creditInsert", "creditReread", "creditApply",
                "creditMark", "creditCheck"}
DebitCalls == {"debitFind", "debitInsert", "debitReread", "debitApply",
               "debitMark", "debitCheck", "debitRelease"}
BurnCalls == {"burnRead", "burnClaim", "burnUpsert", "burnToken", "burnEvidence",
              "sealApplied", "sealUndone"}

\* at: the next call; op: the operation; back: where a credit returns to
\* (burn_or_undo_debit runs one inside); tries: loop iterations left.
TaskState == [at : {"idle"} \cup CreditCalls \cup DebitCalls \cup BurnCalls,
              op : Op,
              back : {"idle", "sealApplied", "sealUndone"},
              tries : 0..MaxTries]

\* What op says while the task is idle does not matter.
Idle == [at |-> "idle", op |-> CHOOSE o \in Op : TRUE,
         back |-> "idle", tries |-> 0]

OpFits(t) ==
  /\ task[t].at \in CreditCalls
       => task[t].op \in (IF task[t].back = "idle" THEN Credit ELSE Debit)
  /\ task[t].at \in DebitCalls \cup BurnCalls => task[t].op \in Debit

HistTypeOK == settled \subseteq Debit /\ gaveUp \cup called \cup erred \subseteq Once

TypeOK ==
  /\ balance \in Int
  /\ registry \in SUBSET RegistryId
  /\ log \in [LogId -> LogState]
  /\ task \in [Task -> TaskState]
  /\ \A t \in Task : OpFits(t)
  /\ HistTypeOK

Init ==
  /\ balance = Opening
  /\ registry = {}
  /\ log = [i \in LogId |-> "absent"]
  /\ task = [t \in Task |-> Idle]
  /\ settled = {} /\ gaveUp = {} /\ called = {} /\ erred = {}

Goto(t, call) ==
  task' = [task EXCEPT ![t] = IF call = "idle" THEN Idle
                              ELSE [@ EXCEPT !.at = call]]

Start(t, call, o, n) ==
  /\ task[t].at = "idle"
  /\ task' = [task EXCEPT ![t] = [at |-> call, op |-> o, back |-> "idle",
                                  tries |-> n]]
  /\ UNCHANGED docVars

\* The log id a running credit works on: its own, or op:undo inside a burn.
CreditId(t) == IF task[t].back = "idle" THEN Real(task[t].op)
               ELSE Undo(task[t].op)

DebitId(t) == Real(task[t].op)
DebitToken(t) == Token(task[t].op)

\* The update of _ops_log_mark_applied: no upsert, and a terminal decision
\* (burned, undone) is never overwritten.
MarkApplied(i) ==
  log' = IF log[i] \in {"absent", "burned", "undone"}
         THEN log ELSE [log EXCEPT ![i] = "applied"]

-----------------------------------------------------------------------------
(* _ops_log_ensure, shared by the credit and the debit: find the row, else *)
(* insert it, else (lost the race for the unique op_id) read it again.     *)

EnsureFind(t, i, insert, apply, closed) ==
  /\ Goto(t, IF log[i] = "absent" THEN insert
             ELSE IF log[i] = "pending" THEN apply ELSE closed)
  /\ UNCHANGED <<docVars, histVars>>

\* Every exception of the insert is taken for the lost race, one of the driver
\* too, and that one may come after the row went in.
EnsureInsert(t, i, apply, reread) ==
  /\ \/ /\ log[i] = "absent"
        /\ log' = [log EXCEPT ![i] = "pending"]
        /\ Goto(t, apply) \/ Goto(t, reread)
     \/ Goto(t, reread) /\ UNCHANGED log
  /\ UNCHANGED <<balance, registry, histVars>>

\* When the row is gone again the insert's exception ends the whole call.
EnsureReread(t, i, apply, closed) ==
  EnsureFind(t, i, "idle", apply, closed)

-----------------------------------------------------------------------------
(* credit_balance_idempotent: on its own, or for op:undo inside a burn.    *)

CallCredit(t, c) == Start(t, "creditFind", c, 0) /\ UNCHANGED histVars

CreditEnsure(t) ==
  \/ /\ task[t].at = "creditFind"
     /\ EnsureFind(t, CreditId(t), "creditInsert", "creditApply", task[t].back)
  \/ /\ task[t].at = "creditInsert"
     /\ EnsureInsert(t, CreditId(t), "creditApply", "creditReread")
  \/ /\ task[t].at = "creditReread"
     /\ EnsureReread(t, CreditId(t), "creditApply", task[t].back)

CreditApplyUnfiltered(t) ==
  /\ task[t].at = "creditApply"
  /\ balance' = balance + Amount[task[t].op]
  /\ registry' = registry \cup {CreditId(t)}
  /\ Goto(t, "creditMark")
  /\ UNCHANGED <<log, histVars>>

\* The $inc and the $push are one update, filtered by the op_id's absence.
CreditApply(t) ==
  /\ task[t].at = "creditApply"
  /\ \/ /\ CreditId(t) \notin registry
        /\ balance' = balance + Amount[task[t].op]
        /\ registry' = registry \cup {CreditId(t)}
        /\ Goto(t, "creditMark")
     \/ /\ CreditId(t) \in registry
        /\ Goto(t, "creditCheck")
        /\ UNCHANGED <<balance, registry>>
  /\ UNCHANGED <<log, histVars>>

\* Not applied now: repair the log if the registry shows it was applied.
CreditCheck(t) ==
  /\ task[t].at = "creditCheck"
  /\ Goto(t, IF CreditId(t) \in registry THEN "creditMark" ELSE task[t].back)
  /\ UNCHANGED <<docVars, histVars>>

CreditMark(t) ==
  /\ task[t].at = "creditMark"
  /\ MarkApplied(CreditId(t))
  /\ Goto(t, task[t].back)
  /\ UNCHANGED <<balance, registry, histVars>>

-----------------------------------------------------------------------------
(* debit_balance_idempotent                                                *)

CallDebit(t, d) ==
  /\ d \notin called
  /\ Start(t, "debitFind", d, 0)
  /\ called' = called \cup ({d} \cap Once)
  /\ UNCHANGED <<settled, gaveUp, erred>>

DebitEnsure(t) ==
  \/ /\ task[t].at = "debitFind"
     /\ EnsureFind(t, DebitId(t), "debitInsert", "debitApply", "idle")
  \/ /\ task[t].at = "debitInsert"
     /\ EnsureInsert(t, DebitId(t), "debitApply", "debitReread")
  \/ /\ task[t].at = "debitReread"
     /\ EnsureReread(t, DebitId(t), "debitApply", "idle")

ChargeableUnguarded(d) == {Real(d), Token(d)} \cap registry = {}

\* The filter of the debit's update: neither applied nor burned before, and
\* enough money up to the tolerance.
Chargeable(d) ==
  /\ {Real(d), Token(d)} \cap registry = {}
  /\ d \notin Forced => balance >= Amount[d] - Tolerance

DebitApply(t) ==
  /\ task[t].at = "debitApply"
  /\ \/ /\ Chargeable(task[t].op)
        /\ balance' = balance - Amount[task[t].op]
        /\ registry' = registry \cup {DebitId(t)}
        /\ Goto(t, "debitMark")
     \/ /\ ~Chargeable(task[t].op)
        /\ Goto(t, "debitCheck")
        /\ UNCHANGED <<balance, registry>>
  /\ UNCHANGED <<log, histVars>>

DebitCheck(t) ==
  /\ task[t].at = "debitCheck"
  /\ Goto(t, IF {DebitId(t), DebitToken(t)} \cap registry # {}
             THEN "debitMark" ELSE "debitRelease")
  /\ UNCHANGED <<docVars, histVars>>

DebitMark(t) ==
  /\ task[t].at = "debitMark"
  /\ MarkApplied(DebitId(t))
  /\ Goto(t, "idle")
  /\ UNCHANGED <<balance, registry, histVars>>

DebitReleaseAnyState(t) ==
  /\ task[t].at = "debitRelease"
  /\ log' = [log EXCEPT ![DebitId(t)] = "absent"]
  /\ Goto(t, "idle")
  /\ UNCHANGED <<balance, registry, histVars>>

\* Insufficient: the attempt's row is deleted while it is still pending.
DebitRelease(t) ==
  /\ task[t].at = "debitRelease"
  /\ log' = IF log[DebitId(t)] = "pending"
            THEN [log EXCEPT ![DebitId(t)] = "absent"] ELSE log
  /\ Goto(t, "idle")
  /\ UNCHANGED <<balance, registry, histVars>>

-----------------------------------------------------------------------------
(* burn_or_undo_debit: abort a plan.  Either the debit is blocked for ever *)
(* (its token enters the registry) or the money it took is given back.     *)

CallBurn(t, d) == Start(t, "burnRead", d, MaxTries) /\ UNCHANGED histVars

Settle(t) ==
  /\ Goto(t, "idle")
  /\ settled' = settled \cup {task[t].op}
  /\ UNCHANGED <<gaveUp, called, erred>>

StartUndo(t, seal) ==
  /\ task' = [task EXCEPT ![t] = [@ EXCEPT !.at = "creditFind", !.back = seal,
                                           !.tries = 0]]
  /\ UNCHANGED histVars

\* After its last iteration the loop is left: "burned" is reported although
\* nothing was decided.
BurnGiveUp(t) ==
  /\ task[t].at = "burnRead" /\ task[t].tries = 0
  /\ Goto(t, "idle")
  /\ gaveUp' = gaveUp \cup ({task[t].op} \cap Once)
  /\ UNCHANGED <<docVars, settled, called, erred>>

\* The log says burned: the iterations no longer count, the rest is straight.
Claimed(t) ==
  task' = [task EXCEPT ![t] = [@ EXCEPT !.at = "burnToken", !.tries = 0]]

\* One iteration of the loop: what the log says decides.
BurnRead(t) ==
  /\ task[t].at = "burnRead" /\ task[t].tries > 0
  /\ \/ log[DebitId(t)] = "undone" /\ Settle(t)
     \/ log[DebitId(t)] = "applied" /\ StartUndo(t, "sealApplied")
     \/ log[DebitId(t)] = "burned" /\ Claimed(t) /\ UNCHANGED histVars
     \/ /\ log[DebitId(t)] \in {"absent", "pending"}
        /\ Goto(t, "burnClaim")
        /\ UNCHANGED histVars
  /\ UNCHANGED docVars

NextTryCountsUp(t) ==
  task' = [task EXCEPT ![t].at = "burnRead", ![t].tries = @ + 1]

NextTry(t) == task' = [task EXCEPT ![t].at = "burnRead", ![t].tries = @ - 1]

\* The upsert that claims the burn.  Its query matches a pending row; with no
\* row at all an insert follows; a closed row makes that insert fail.
BurnClaim(t) ==
  /\ task[t].at = "burnClaim"
  /\ \/ /\ log[DebitId(t)] = "pending"
        /\ log' = [log EXCEPT ![DebitId(t)] = "burned"]
        /\ Claimed(t)
     \/ log[DebitId(t)] = "absent" /\ Goto(t, "burnUpsert") /\ UNCHANGED log
     \/ log[DebitId(t)] \in Closed /\ NextTry(t) /\ UNCHANGED log
  /\ UNCHANGED <<balance, registry, histVars>>

\* The insert loses to any row that appeared meanwhile (unique op_id).
BurnUpsert(t) ==
  /\ task[t].at = "burnUpsert"
  /\ \/ /\ log[DebitId(t)] = "absent"
        /\ log' = [log EXCEPT ![DebitId(t)] = "burned"]
        /\ Claimed(t)
     \/ log[DebitId(t)] # "absent" /\ NextTry(t) /\ UNCHANGED log
  /\ UNCHANGED <<balance, registry, histVars>>

\* The claim raised in the driver, in either half, with its effect made or
\* not.  The loop takes that for the duplicate key and spends an iteration.
BurnClaimRaised(t) ==
  /\ task[t].at \in {"burnClaim", "burnUpsert"}
  /\ \/ UNCHANGED log
     \/ /\ log[DebitId(t)] = IF task[t].at = "burnClaim" THEN "pending" ELSE "absent"
        /\ log' = [log EXCEPT ![DebitId(t)] = "burned"]
  /\ NextTry(t)
  /\ erred' = erred \cup ({task[t].op} \cap Once)
  /\ UNCHANGED <<balance, registry, settled, gaveUp, called>>

BurnTokenSkipped(t) ==
  /\ task[t].at = "burnToken"
  /\ Goto(t, "burnEvidence")
  /\ UNCHANGED <<balance, registry, log, histVars>>

BurnToken(t) ==
  /\ task[t].at = "burnToken"
  /\ registry' = registry \cup {DebitToken(t)}
  /\ Goto(t, "burnEvidence")
  /\ UNCHANGED <<balance, log, histVars>>

BurnEvidenceByToken(t) ==
  /\ task[t].at = "burnEvidence"
  /\ \/ {DebitId(t), DebitToken(t)} \cap registry # {} /\ StartUndo(t, "sealUndone")
     \/ {DebitId(t), DebitToken(t)} \cap registry = {} /\ Settle(t)
  /\ UNCHANGED docVars

\* Only the real op_id in the registry proves that money moved.
BurnEvidence(t) ==
  /\ task[t].at = "burnEvidence"
  /\ \/ DebitId(t) \in registry /\ StartUndo(t, "sealUndone")
     \/ DebitId(t) \notin registry /\ Settle(t)
  /\ UNCHANGED docVars

\* After the give-back: the path that found the row applied only overwrites
\* applied, the path that burned it overwrites whatever is there.
SealUndone(t) ==
  /\ task[t].at \in {"sealApplied", "sealUndone"}
  /\ log' = IF task[t].at = "sealUndone" \/ log[DebitId(t)] = "applied"
            THEN [log EXCEPT ![DebitId(t)] = "undone"] ELSE log
  /\ Settle(t)
  /\ UNCHANGED <<balance, registry>>

-----------------------------------------------------------------------------
\* The process dies, or the driver raises outside the two places above that
\* swallow it: the task never resumes.
Die(t) ==
  /\ task[t].at # "idle"
  /\ Goto(t, "idle")
  /\ UNCHANGED <<docVars, histVars>>

Call(t) ==
  \/ \E c \in Credit : CallCredit(t, c)
  \/ \E d \in Debit : CallDebit(t, d) \/ CallBurn(t, d)

Run(t) ==
  \/ CreditEnsure(t) \/ CreditApply(t) \/ CreditCheck(t) \/ CreditMark(t)
  \/ DebitEnsure(t) \/ DebitApply(t) \/ DebitCheck(t) \/ DebitMark(t)
  \/ DebitRelease(t)
  \/ BurnGiveUp(t) \/ BurnRead(t) \/ BurnClaim(t) \/ BurnUpsert(t)
  \/ BurnClaimRaised(t) \/ BurnToken(t) \/ BurnEvidence(t)
  \/ SealUndone(t)

Next == \E t \in Task : Call(t) \/ Run(t) \/ Die(t)

Spec == Init /\ [][Next]_vars

-----------------------------------------------------------------------------
(* Properties *)

\* Money is only given back when it was taken: the registry never shows the
\* compensation op:undo of a debit without the debit's own op_id, however
\* two recoverers and a late executor interleave in burn_or_undo_debit.
UndoneOnlyIfCharged ==
  \A d \in Debit : Undo(d) \in registry => Real(d) \in registry

\* Charged and given back, or never to be charged by any late executor.
Decided(d) ==
  \/ {Real(d), Undo(d)} \subseteq registry
  \/ Token(d) \in registry /\ Real(d) \notin registry

\* Once burn_or_undo_debit has resolved the evidence about a debit, by
\* whichever of its exits, the debit stays decided for good.
BurnIsFinal == \A d \in settled : Decided(d)

\* A log row that says "applied" is the proof op_was_applied takes it for:
\* the money of that operation did move; and "undone" means it came back.
LogTellsTheTruth ==
  /\ \A i \in LogId : log[i] = "applied" => i \in registry
  /\ \A d \in Debit : log[Real(d)] = "undone" => Undo(d) \in registry

\* The guards inside the debits let the balance fall below zero by the
\* tolerance at most, however many debits lean on it, unless an
\* allow_negative debit ran.
NoOverdraft ==
  (\A d \in Forced : Real(d) \notin registry) => balance >= -Tolerance

\* Three iterations are enough when the debit has a single executor, whose
\* one insert and one transition to applied cost one iteration each: such a
\* debit is left undecided only after a claim of its burn raised in the driver.
BurnLoopSuffices == gaveUp \subseteq erred

-----------------------------------------------------------------------------
(* What makes the properties above inductive.                              *)

\* A terminal decision in the log precedes its token in the registry, and
\* the row of a compensation is only ever pending or applied.
LogBeforeToken ==
  \A d \in Debit :
    /\ Token(d) \in registry => log[Real(d)] \in {"burned", "undone"}
    /\ log[Undo(d)] \notin {"burned", "undone"}

\* What a task knows, between two of its calls, that nobody can take back.
Knows(t) ==
  /\ task[t].at \in {"creditCheck", "creditMark"} => CreditId(t) \in registry
  /\ task[t].at \in CreditCalls /\ task[t].back # "idle"
       => Real(task[t].op) \in registry
  /\ task[t].at = "debitMark"
       => DebitId(t) \in registry \/ DebitToken(t) \in registry
  /\ task[t].at \in {"burnClaim", "burnUpsert"} => task[t].tries > 0
  /\ task[t].at \in {"burnToken", "burnEvidence"}
       => log[DebitId(t)] \in {"burned", "undone"}
  /\ task[t].at = "burnEvidence" => DebitToken(t) \in registry
  /\ task[t].at \in {"sealApplied", "sealUndone"}
       => Undo(task[t].op) \in registry

TaskKnows == \A t \in Task : Knows(t)

\* The debit d of Once was called and its insert is behind it: from here on
\* its row can only be decided.
PastInsert(d) ==
  /\ d \in called
  /\ \A t \in Task : task[t].op = d
                      => task[t].at \notin {"debitFind", "debitInsert"}

OneExecutor ==
  \A d \in Once :
    /\ \A t \in Task : task[t].op = d /\ task[t].at \in DebitCalls
         => /\ d \in called
            /\ \A u \in Task \ {t} : task[u].op = d => task[u].at \notin DebitCalls
    /\ log[Real(d)] = "pending" => PastInsert(d)

\* What each lost iteration of the burn's loop has been spent on, as long as
\* no claim of the debit raised.
TriesSpent(t) ==
  /\ task[t].at = "burnRead"
       => \/ task[t].tries = 3
          \/ task[t].tries = 2 /\ (log[DebitId(t)] \in Closed \/ PastInsert(task[t].op))
          \/ task[t].tries = 1 /\ log[DebitId(t)] \in Closed
  /\ task[t].at \in {"burnClaim", "burnUpsert"}
       => task[t].tries = 3 \/ (task[t].tries = 2 /\ PastInsert(task[t].op))
  /\ task[t].at = "burnUpsert" /\ task[t].tries = 2 => log[DebitId(t)] # "pending"

OnceInv ==
  /\ OneExecutor
  /\ \A t \in Task : task[t].op \in Once \ erred => TriesSpent(t)
  /\ BurnLoopSuffices

IInv ==
  /\ TypeOK
  /\ UndoneOnlyIfCharged
  /\ BurnIsFinal
  /\ LogTellsTheTruth
  /\ NoOverdraft
  /\ LogBeforeToken
  /\ TaskKnows

-----------------------------------------------------------------------------
(* Refinement: the registry alone decides how far an operation got.        *)

OpStatus ==
  [o \in Op |->
     IF Real(o) \in registry
     THEN IF o \in Debit /\ Undo(o) \in registry THEN "undone" ELSE "applied"
     ELSE IF o \in Debit /\ Token(o) \in registry THEN "void" ELSE "open"]

Ledger == INSTANCE OpLedger WITH status <- OpStatus

\* Every behaviour of the helpers is a behaviour of OpLedger: each operation
\* moves its amount once, a sealed debit never, a given-back one zero.
ImplementsLedger == Ledger!LedgerSpec
=============================================================================

----------------------------- MODULE Conversions -----------------------------
(***************************************************************************)
(* A client converts one of its currencies into another, or sweeps its     *)
(* small balances into USDT, from the browser to the last database call.   *)
(*                                                                         *)
(*   browser   BalanceConverterCard.jsx keeps the op_id of the intention   *)
(*             in a ref; DustSweepDialog.jsx confirms a previewed total    *)
(*   server    vip_convert and vip_convert_dust of routes/orders.py, one   *)
(*             executor per request: look the op_id up, quote, write the   *)
(*             durable rows, move the money, mark the rows                 *)
(*   healer    heal_pending_conversions of services/conversions.py, which  *)
(*             decides the rows an executor left in applying, compacts the *)
(*             markers of the user document and prunes its tombstones      *)
(*                                                                         *)
(* A server action is one MongoDB call, or the handler's code up to it.    *)
(* An executor may stop after any of them, an answer may be lost, and the  *)
(* user may retry, edit the form, close it or reload the page meanwhile.   *)
(* An operator named after an action with a suffix (MovePastTombstone,     *)
(* CompactFilterBlind, ...) is a mistake the code avoids, as in CreditOps. *)
(***************************************************************************)
EXTENDS Integers, FiniteSets, Functions

CONSTANTS
  Request,    \* the requests the browser may send; a request's marker_id is
              \* the request itself (a uuid drawn by its executor)
  OpId,       \* the uuids the converter may draw
  Currency, Usdt,
  Intent,     \* what a form may say: from, to and amount
  Rate, FirstRate,
  Yield,      \* [Intent \X Rate -> what the destination receives]
  Opening,    \* the balances before the first conversion
  Fee,        \* CONVERT_FEE_USDT, FLAT_FEE
  DustLimit,  \* SMALL_BALANCE_THRESHOLD_USDT
  MarkerCap,  \* CONVERSION_MARKER_CAP
  PruneMin,   \* TOMBSTONE_PRUNE_MIN
  Healer,     \* the processes that run the recovery loop
  MaxChanges, \* bound: changes of the rate and of the defensive mode
  NoOp, NoRequest

ASSUME ConversionsAssumption ==
  /\ IsFiniteSet(Request) /\ IsFiniteSet(Currency)
  /\ Intent # {}
  /\ Usdt \in Currency
  /\ Opening \in [Currency -> Nat]
  /\ Fee \in Nat
  /\ Intent \subseteq [from : Currency, to : Currency, amount : Nat \ {0}]
  /\ \A i \in Intent : i.from # i.to
  /\ FirstRate \in Rate
  /\ Rate \subseteq Nat \ {0}
  /\ Yield \in [Intent \X Rate -> Nat]
  /\ NoOp \notin OpId /\ NoRequest \notin Request

VARIABLES
  card,      \* browser: the converter's form, its opIdRef and its busy flag
  sweep,     \* browser: the request the sweep dialog awaits (its busy flag)
  exec,      \* server: request -> its executor, the next call and the locals
  rows,      \* conversions: marker -> source currency -> status of the row
  funds,     \* users.vip_balances
  markers,   \* users.recent_conversion_ids
  tombs,     \* users.cancelled_conversion_markers
  healer,    \* the recovery loop: the next call and its locals
  age,       \* marker -> 0, 1 (older than 600 s) or 2 (older than 24 h)
  world,     \* the current rate and the defensive mode
  moved,     \* history: the requests whose update moved the money
  told,      \* history: request -> the answer the browser received
  drawn      \* history: the uuids drawn by the converter

client == <<card, sweep>>
store == <<rows, funds, markers, tombs>>
hist == <<moved, told, drawn>>
vars == <<client, exec, store, healer, age, world, hist>>

\* The answers, by what the converter does with them: Unresolved keeps the
\* op_id (as a lost answer and a 5xx do), Success ends the intention, and any
\* other 4xx discards the op_id.
Success == {"done", "receipt"}
Unresolved == {"inProgress"}
Terminal == {"reused", "closed", "expired", "insufficient", "quoteChanged",
             "refused"}
Answer == Success \cup Unresolved \cup Terminal

\* What an answer says of the money: it moved; the attempt is closed; or only
\* that the browser need not keep the op_id.
Claim(a) == IF a \in Success THEN "moved"
            ELSE IF a \in {"closed", "expired", "insufficient"} THEN "closed"
            ELSE IF a \in Terminal THEN "discarded"
            ELSE "nothing"

Live == {"sent", "lookup", "quote", "record", "move", "markFailed",
         "checkClosed", "markApplied"}

\* A plan is what an executor is about to write: per source currency the debit
\* and the credit of its row, and the common destination.  The fee goes with
\* the plan: one fee per conversion, and one per sweep.
NoPlan == [to |-> Usdt, out |-> <<>>, got |-> <<>>]

ConvertPlan(i, rate) ==
  [to |-> i.to,
   out |-> [c \in {i.from} |-> i.amount],
   got |-> [c \in {i.from} |-> Yield[<<i, rate>>]]]

Dust(balances, rate) ==
  {c \in Currency \ {Usdt} : balances[c] > 0 /\ balances[c] * rate < DustLimit}

SweepPlan(balances, rate) ==
  [to |-> Usdt,
   out |-> [c \in Dust(balances, rate) |-> balances[c]],
   got |-> [c \in Dust(balances, rate) |-> balances[c] * rate]]

Total(f) == FoldFunction(LAMBDA x, y : x + y, 0, f)

Cost(p, c) == (IF c \in DOMAIN p.out THEN p.out[c] ELSE 0)
                + (IF c = Usdt THEN Fee ELSE 0)

Gain(p, c) == IF c = p.to THEN Total(p.got) ELSE 0

\* Amounts are exact here: the tolerance of sufficiency_epsilon, one part in 10^9
\* for the noise of floats, is left out.
Affords(balances, p) == \A c \in Currency : balances[c] >= Cost(p, c)

\* The rows an op_id names: uniq_user_op lets one request insert one.
RowOf(op) == {r \in Request : exec[r].op = op /\ DOMAIN rows[r] # {}}

Applying(r) == \E c \in DOMAIN rows[r] : rows[r][c] = "applying"

Settle(r, status) ==
  rows' = [rows EXCEPT ![r] = [c \in DOMAIN @ |->
             IF @[c] = "applying" THEN status ELSE @[c]]]

Idle == [at |-> "idle", marker |-> NoRequest, verdict |-> "failed", cand |-> {}]

Unsent == [at |-> "unsent", op |-> NoOp, kind |-> "convert", intent |-> CHOOSE i \in Intent : TRUE, quoted |-> 0,
           seen |-> Opening, plan |-> NoPlan, answer |-> "none"]

\* The form is filled in when it is opened.
Closed(r) == [open |-> FALSE, intent |-> CHOOSE i \in Intent : TRUE,
              op |-> NoOp, waiting |-> r]

\* An executor that will do nothing more, and whose answer nobody awaits.
Gone(r) == [exec EXCEPT ![r] = [@ EXCEPT !.at = "gone", !.quoted = 0,
                                         !.seen = Opening, !.answer = "none"]]

Init ==
  /\ card = Closed(NoRequest)
  /\ sweep = NoRequest
  /\ exec = [r \in Request |-> Unsent]
  /\ rows = [r \in Request |-> <<>>]
  /\ funds = Opening
  /\ markers = {} /\ tombs = {}
  /\ healer = [h \in Healer |-> Idle]
  /\ age = [r \in Request |-> 0]
  /\ world = [rate |-> FirstRate, defensive |-> FALSE, changes |-> 0]
  /\ moved = {} /\ told = [r \in Request |-> "nothing"] /\ drawn = {}

-----------------------------------------------------------------------------
(* The converter card.  The effect on [fromCode, toCode, amount, open]     *)
(* forgets the op_id whenever the form changes, is opened or is closed.    *)

OpenCard ==
  /\ ~card.open
  /\ \E i \in Intent :
       card' = [card EXCEPT !.open = TRUE, !.intent = i, !.op = NoOp]
  /\ UNCHANGED <<sweep, exec, store, healer, age, world, hist>>

EditCardKeepingOp ==
  /\ card.open
  /\ \E i \in Intent \ {card.intent} : card' = [card EXCEPT !.intent = i]
  /\ UNCHANGED <<sweep, exec, store, healer, age, world, hist>>

EditCard ==
  /\ card.open
  /\ \E i \in Intent \ {card.intent} :
       card' = [card EXCEPT !.intent = i, !.op = NoOp]
  /\ UNCHANGED <<sweep, exec, store, healer, age, world, hist>>

CloseCard ==
  /\ card.open
  /\ card' = Closed(card.waiting)
  /\ UNCHANGED <<sweep, exec, store, healer, age, world, hist>>

\* The page is left or reloaded: both components lose their state, and the
\* executors go on.
Reload ==
  /\ card' = Closed(NoRequest)
  /\ sweep' = NoRequest
  /\ exec' = [r \in Request |->
       IF exec[r].at = "answered" THEN Gone(r)[r] ELSE exec[r]]
  /\ UNCHANGED <<store, healer, age, world, hist>>

\* submit: an op_id is drawn only when the intention has none.  The rate sent
\* is the one the preview shows; that it may be old by the time the server
\* quotes is the delay of the request.
Submit(r) ==
  /\ card.open /\ card.waiting = NoRequest /\ exec[r].at = "unsent"
  /\ \E op \in IF card.op = NoOp THEN OpId \ drawn ELSE {card.op} :
       /\ card' = [card EXCEPT !.op = op, !.waiting = r]
       /\ drawn' = drawn \cup {op}
       /\ exec' = [exec EXCEPT ![r] =
            [@ EXCEPT !.at = "sent", !.kind = "convert", !.op = op,
                      !.intent = card.intent, !.quoted = world.rate]]
  /\ UNCHANGED <<sweep, store, healer, age, world, moved, told>>

\* The answer of the awaited request, by its kind.  A success also closes the
\* dialog.
OnAnswer(r) ==
  /\ card.waiting = r /\ exec[r].at = "answered"
  /\ told' = [told EXCEPT ![r] = Claim(exec[r].answer)]
  /\ exec' = Gone(r)
  /\ LET a == exec[r].answer IN
     card' = IF a \in Success THEN Closed(NoRequest)
             ELSE [card EXCEPT !.waiting = NoRequest,
                               !.op = IF a \in Unresolved THEN @ ELSE NoOp]
  /\ UNCHANGED <<sweep, store, healer, age, world, moved, drawn>>

Unheard(r) == exec' = IF exec[r].at = "answered" THEN Gone(r) ELSE exec

\* No answer: the network failed, the proxy or the handler answered 5xx.
OnSilence(r) ==
  /\ card.waiting = r
  /\ card' = [card EXCEPT !.waiting = NoRequest]
  /\ Unheard(r)
  /\ UNCHANGED <<sweep, store, healer, age, world, hist>>

-----------------------------------------------------------------------------
(* The sweep dialog.  It has no op_id: it sends the total of its preview.  *)

Preview == Total(SweepPlan(funds, world.rate).got)

SubmitSweep(r) ==
  /\ Preview > 0 /\ sweep = NoRequest /\ exec[r].at = "unsent"
  /\ sweep' = r
  /\ exec' = [exec EXCEPT ![r] = [@ EXCEPT !.at = "sent", !.kind = "dust",
                                           !.quoted = Preview]]
  /\ UNCHANGED <<card, store, healer, age, world, hist>>

OnSweepAnswer(r) ==
  /\ sweep = r /\ exec[r].at = "answered"
  /\ told' = [told EXCEPT ![r] = Claim(exec[r].answer)]
  /\ sweep' = NoRequest
  /\ exec' = Gone(r)
  /\ UNCHANGED <<card, store, healer, age, world, moved, drawn>>

OnSweepSilence(r) ==
  /\ sweep = r
  /\ sweep' = NoRequest
  /\ Unheard(r)
  /\ UNCHANGED <<card, store, healer, age, world, hist>>

-----------------------------------------------------------------------------
(* The executor of a request.                                              *)

Goto(r, call) == exec' = [exec EXCEPT ![r].at = call]

Reply(r, answer) ==
  exec' = IF r \in {card.waiting, sweep}
          THEN [Gone(r) EXCEPT ![r].at = "answered", ![r].answer = answer]
          ELSE Gone(r)

\* The session, the client document it carries and the gates before the
\* op_id is looked at (the defensive mode refuses with 403).
Enter(r) ==
  /\ exec[r].at = "sent"
  /\ IF world.defensive THEN Reply(r, "refused")
     ELSE exec' = [exec EXCEPT ![r] =
            [@ EXCEPT !.at = IF exec[r].op = NoOp THEN "quote" ELSE "lookup",
                      !.seen = funds]]
  /\ UNCHANGED <<client, store, healer, age, world, hist>>

\* find_conversion_by_op: what the row of an earlier request says.
Lookup(r) ==
  /\ exec[r].at = "lookup"
  /\ LET prior == RowOf(exec[r].op) IN
     IF prior = {} THEN Goto(r, "quote")
     ELSE \E p \in prior :
            Reply(r, IF Applying(p) THEN "inProgress"
                     ELSE IF \E c \in DOMAIN rows[p] : rows[p][c] = "failed"
                       THEN "closed"
                     ELSE IF exec[p].intent = exec[r].intent THEN "receipt"
                     ELSE "reused")
  /\ UNCHANGED <<client, store, healer, age, world, hist>>

Quoted(r, p) ==
  IF exec[r].kind = "convert" THEN world.rate = exec[r].quoted
  ELSE Total(p.got) = exec[r].quoted

\* The balance and the fee are checked on the client document read at the
\* entry, the rate is the one of now.
Quote(r) ==
  /\ exec[r].at = "quote"
  /\ LET p == IF exec[r].kind = "convert"
                THEN ConvertPlan(exec[r].intent, world.rate)
                ELSE SweepPlan(exec[r].seen, world.rate)
     IN IF DOMAIN p.out = {} \/ ~Affords(exec[r].seen, p) THEN Reply(r, "refused")
        ELSE IF ~Quoted(r, p) THEN Reply(r, "quoteChanged")
        ELSE IF Total(p.got) = 0 THEN Reply(r, "refused")
        ELSE exec' = [exec EXCEPT ![r] = [@ EXCEPT !.at = "record", !.plan = p,
                                  !.quoted = 0, !.seen = Opening]]
  /\ UNCHANGED <<client, store, healer, age, world, hist>>

InsertRow(r, c) ==
  rows' = [rows EXCEPT ![r] = [d \in DOMAIN @ \cup {c} |->
             IF d = c THEN "applying" ELSE @[d]]]

RecordWithoutIndex(r) ==
  /\ exec[r].at = "record"
  /\ \E c \in DOMAIN exec[r].plan.out \ DOMAIN rows[r] :
       /\ InsertRow(r, c)
       /\ Goto(r, IF DOMAIN rows'[r] = DOMAIN exec[r].plan.out
                  THEN "move" ELSE "record")
  /\ UNCHANGED <<client, funds, markers, tombs, healer, age, world, hist>>

\* record_conversion, once per source currency: the unique index on (user,
\* op_id) rejects the row of a second request.
Record(r) ==
  /\ exec[r].at = "record"
  /\ \E c \in DOMAIN exec[r].plan.out \ DOMAIN rows[r] :
       IF exec[r].op # NoOp /\ RowOf(exec[r].op) # {}
       THEN Reply(r, "inProgress") /\ UNCHANGED rows
       ELSE /\ InsertRow(r, c)
            /\ Goto(r, IF DOMAIN rows'[r] = DOMAIN exec[r].plan.out
                       THEN "move" ELSE "record")
  /\ UNCHANGED <<client, funds, markers, tombs, healer, age, world, hist>>

MoveIf(r, condition) ==
  /\ exec[r].at = "move"
  /\ IF condition
     THEN /\ funds' = [c \in Currency |-> funds[c] - Cost(exec[r].plan, c)
                                            + Gain(exec[r].plan, c)]
          /\ markers' = markers \cup {r}
          /\ moved' = moved \cup {r}
          /\ Goto(r, "markApplied")
     ELSE Goto(r, "markFailed") /\ UNCHANGED <<funds, markers, moved>>
  /\ UNCHANGED <<client, rows, tombs, healer, age, world, told, drawn>>

MovePastTombstone(r) == MoveIf(r, Affords(funds, exec[r].plan))

MoveUnconditioned(r) == MoveIf(r, r \notin tombs)

\* The one update of the user document: the balances, the fee and the marker,
\* if the balances still suffice and the marker is not buried.
Move(r) == MoveIf(r, r \notin tombs /\ Affords(funds, exec[r].plan))

MarkFailed(r) ==
  /\ exec[r].at = "markFailed"
  /\ Settle(r, "failed")
  /\ Goto(r, "checkClosed")
  /\ UNCHANGED <<client, funds, markers, tombs, healer, age, world, hist>>

CheckClosed(r) ==
  /\ exec[r].at = "checkClosed"
  /\ Reply(r, IF r \in tombs THEN "expired" ELSE "insufficient")
  /\ UNCHANGED <<client, store, healer, age, world, hist>>

MarkApplied(r) ==
  /\ exec[r].at = "markApplied"
  /\ Settle(r, "applied")
  /\ Reply(r, "done")
  /\ UNCHANGED <<client, funds, markers, tombs, healer, age, world, hist>>

\* The process dies, or the handler raises: the browser hears a 5xx or nothing.
Die(r) ==
  /\ exec[r].at \in Live
  /\ exec' = Gone(r)
  /\ UNCHANGED <<client, store, healer, age, world, hist>>

-----------------------------------------------------------------------------
(* The recovery loop: rows, then compaction, then pruning.                 *)

OverdueUnburied == {r \in Request : Applying(r) /\ age[r] > 0 /\ r \notin tombs}

Overdue == {r \in Request : Applying(r) /\ age[r] > 0}

HealerGoto(h, call) == healer' = [healer EXCEPT ![h].at = call]

HealPick(h) ==
  /\ healer[h].at = "idle"
  /\ \E r \in Overdue :
       healer' = [healer EXCEPT ![h] = [@ EXCEPT !.at = "evidence", !.marker = r]]
  /\ UNCHANGED <<client, exec, store, age, world, hist>>

\* Is the marker among the spent ones?
HealEvidence(h) ==
  /\ healer[h].at = "evidence"
  /\ healer' = [healer EXCEPT ![h] =
       IF healer[h].marker \in markers
       THEN [@ EXCEPT !.at = "mark", !.verdict = "applied"]
       ELSE [@ EXCEPT !.at = "bury"]]
  /\ UNCHANGED <<client, exec, store, age, world, hist>>

HealBuryUnchecked(h) ==
  /\ healer[h].at = "bury"
  /\ tombs' = tombs \cup {healer[h].marker}
  /\ healer' = [healer EXCEPT ![h] = [@ EXCEPT !.at = "mark",
                                               !.verdict = "failed"]]
  /\ UNCHANGED <<client, exec, rows, funds, markers, age, world, hist>>

HealBuryAsSpent(h) ==
  /\ healer[h].at = "bury"
  /\ markers' = markers \cup {healer[h].marker}
  /\ healer' = [healer EXCEPT ![h] = [@ EXCEPT !.at = "mark",
                                               !.verdict = "failed"]]
  /\ UNCHANGED <<client, exec, rows, funds, tombs, age, world, hist>>

\* The burial is conditioned on the marker being still unspent.
HealBury(h) ==
  /\ healer[h].at = "bury"
  /\ LET spent == healer[h].marker \in markers IN
     /\ tombs' = IF spent THEN tombs ELSE tombs \cup {healer[h].marker}
     /\ healer' = [healer EXCEPT ![h] =
          [@ EXCEPT !.at = "mark",
                    !.verdict = IF spent THEN "applied" ELSE "failed"]]
  /\ UNCHANGED <<client, exec, rows, funds, markers, age, world, hist>>

HealMark(h) ==
  /\ healer[h].at = "mark"
  /\ Settle(healer[h].marker, healer[h].verdict)
  /\ healer' = [healer EXCEPT ![h] = Idle]
  /\ UNCHANGED <<client, exec, funds, markers, tombs, age, world, hist>>

\* The oldest markers beyond the cap are candidates; the order of the list is
\* abstracted to any choice of that many.
CompactRead(h) ==
  /\ healer[h].at = "idle" /\ Overdue = {}
  /\ Cardinality(markers) > MarkerCap
  /\ \E cand \in SUBSET markers :
       /\ Cardinality(cand) = Cardinality(markers) - MarkerCap
       /\ healer' = [healer EXCEPT ![h] = [@ EXCEPT !.at = "compact",
                                                    !.cand = cand]]
  /\ UNCHANGED <<client, exec, store, age, world, hist>>

CompactFilterBlind(h) ==
  /\ healer[h].at = "compact"
  /\ healer' = [healer EXCEPT ![h].at = "pull"]
  /\ UNCHANGED <<client, exec, store, age, world, hist>>

\* A marker with a row in applying is the proof the rows are decided by.
CompactFilter(h) ==
  /\ healer[h].at = "compact"
  /\ healer' = [healer EXCEPT ![h] =
       [@ EXCEPT !.at = "pull", !.cand = {m \in healer[h].cand : ~Applying(m)}]]
  /\ UNCHANGED <<client, exec, store, age, world, hist>>

CompactPull(h) ==
  /\ healer[h].at = "pull"
  /\ markers' = markers \ healer[h].cand
  /\ healer' = [healer EXCEPT ![h] = Idle]
  /\ UNCHANGED <<client, exec, rows, funds, tombs, age, world, hist>>

\* The tombstones of conversions created in the last 24 hours stay.
PruneRead(h) ==
  /\ healer[h].at = "idle" /\ Overdue = {}
  /\ Cardinality(tombs) > PruneMin
  /\ \E m \in tombs : age[m] = 2
  /\ healer' = [healer EXCEPT ![h] =
       [@ EXCEPT !.at = "prune", !.cand = {m \in tombs : age[m] = 2}]]
  /\ UNCHANGED <<client, exec, store, age, world, hist>>

PrunePull(h) ==
  /\ healer[h].at = "prune"
  /\ tombs' = tombs \ healer[h].cand
  /\ healer' = [healer EXCEPT ![h] = Idle]
  /\ UNCHANGED <<client, exec, rows, funds, markers, age, world, hist>>

HealerDie(h) ==
  /\ healer[h].at # "idle"
  /\ healer' = [healer EXCEPT ![h] = Idle]
  /\ UNCHANGED <<client, exec, store, age, world, hist>>

-----------------------------------------------------------------------------
(* Time and the operator.                                                  *)

\* Ten minutes since created_at: the executor may well be alive.  The age is
\* only looked at for a row in applying, and the second one for a tombstone.
Overtake(r) ==
  /\ age[r] = 0 /\ Applying(r)
  /\ age' = [age EXCEPT ![r] = 1]
  /\ UNCHANGED <<client, exec, store, healer, world, hist>>

\* A day since created_at: no HTTP executor lives that long.
Expire(r) ==
  /\ age[r] = 1 /\ exec[r].at \notin Live /\ r \in tombs
  /\ age' = [age EXCEPT ![r] = 2]
  /\ UNCHANGED <<client, exec, store, healer, world, hist>>

ChangeRate ==
  /\ world.changes < MaxChanges
  /\ \E q \in Rate \ {world.rate} :
       world' = [world EXCEPT !.rate = q, !.changes = @ + 1]
  /\ UNCHANGED <<client, exec, store, healer, age, hist>>

SwitchDefensive ==
  /\ world.changes < MaxChanges
  /\ world' = [world EXCEPT !.defensive = ~@, !.changes = @ + 1]
  /\ UNCHANGED <<client, exec, store, healer, age, hist>>

-----------------------------------------------------------------------------
Browser ==
  \/ OpenCard \/ EditCard \/ CloseCard \/ Reload
  \/ \E r \in Request : Submit(r) \/ OnAnswer(r) \/ OnSilence(r)
                          \/ SubmitSweep(r) \/ OnSweepAnswer(r)
                          \/ OnSweepSilence(r)

Executor(r) ==
  \/ Enter(r) \/ Lookup(r) \/ Quote(r) \/ Record(r) \/ Move(r)
  \/ MarkFailed(r) \/ CheckClosed(r) \/ MarkApplied(r) \/ Die(r)

Heal(h) ==
  \/ HealPick(h) \/ HealEvidence(h) \/ HealBury(h) \/ HealMark(h)
  \/ CompactRead(h) \/ CompactFilter(h) \/ CompactPull(h)
  \/ PruneRead(h) \/ PrunePull(h)

Environment ==
  \/ \E r \in Request : Overtake(r) \/ Expire(r)
  \/ \E h \in Healer : HealerDie(h)
  \/ ChangeRate \/ SwitchDefensive

Next ==
  \/ Browser
  \/ \E r \in Request : Executor(r)
  \/ \E h \in Healer : Heal(h)
  \/ Environment

Spec == Init /\ [][Next]_vars

\* The scheduler runs the recovery loop again and again, a pass is not cut
\* short for ever, and time passes; no executor, browser or user owes anything.
FairSpec ==
  /\ Spec
  /\ <>[][\A h \in Healer : ~HealerDie(h)]_vars
  /\ \A h \in Healer : WF_vars(Heal(h))
  /\ \A r \in Request : WF_vars(Overtake(r))

-----------------------------------------------------------------------------
RowStatus == {"applying", "applied", "failed"}

IsPlan(p) ==
  /\ p.to \in Currency
  /\ DOMAIN p.out \subseteq Currency /\ DOMAIN p.got = DOMAIN p.out

\* Type invariant; and a reply, a row or a marker belongs to a sent request.
TypeOK ==
  /\ card \in [open : BOOLEAN, intent : Intent, op : OpId \cup {NoOp},
               waiting : Request \cup {NoRequest}]
  /\ sweep \in Request \cup {NoRequest}
  /\ \A r \in Request :
       /\ exec[r].at \in Live \cup {"unsent", "answered", "gone"}
       /\ exec[r].op \in OpId \cup {NoOp}
       /\ exec[r].answer \in Answer \cup {"none"}
       /\ IsPlan(exec[r].plan)
       /\ DOMAIN rows[r] \subseteq DOMAIN exec[r].plan.out
       /\ \A c \in DOMAIN rows[r] : rows[r][c] \in RowStatus
  /\ funds \in [Currency -> Int]
  /\ markers \subseteq moved /\ moved \subseteq Request
  /\ tombs \subseteq Request
  /\ age \in [Request -> 0..2]
  /\ \A h \in Healer : healer[h].cand \subseteq Request

\* A row says failed only if its money never moved and applied only if it did,
\* whoever wrote it: the executor, or a healer that decided on the markers
\* while the executor was alive (RT01, RF01).
RecordsTellTheTruth ==
  \A r \in Request : \A c \in DOMAIN rows[r] :
    /\ rows[r][c] = "failed" => r \notin moved
    /\ rows[r][c] = "applied" => r \in moved

SameOp(q, r) == q = r \/ (exec[q].op # NoOp /\ exec[q].op = exec[r].op)

\* What the browser was told of a closed attempt stays true: a success means
\* that this very conversion moved, under this identity; a closed, expired or
\* insufficient one never moves, not even later.
ReceiptsTellTheTruth ==
  \A r \in Request :
    /\ told[r] = "moved" =>
         \E q \in moved : SameOp(q, r) /\ exec[q].intent = exec[r].intent
    /\ told[r] = "closed" =>
         \A q \in moved : ~SameOp(q, r)

\* Retries of one identity move the money once, and no conversion leaves a
\* balance below zero, however many executors quote the same snapshot.
OneMovePerIdentity ==
  \A q, r \in moved : SameOp(q, r) => q = r

NeverBelowZero == \A c \in Currency : funds[c] >= 0

\* An identity never travels with two intentions: OP_ID_REUSED is a defence
\* this browser does not need.
IdentityFollowsIntent ==
  \A q, r \in Request : SameOp(q, r) => exec[q].intent = exec[r].intent

Effect(c) ==
  LET done == {r \in Request : \E d \in DOMAIN rows[r] : rows[r][d] = "applied"}
  IN Total([r \in done |-> Gain(exec[r].plan, c) - Cost(exec[r].plan, c)])

\* FX09: once no row is in applying, the applied rows and their fees account
\* for every change of the balances.
StatementExplains ==
  (\A r \in Request : ~Applying(r))
    => \A c \in Currency : funds[c] = Opening[c] + Effect(c)

\* No row stays in applying, whatever its executor did.
EveryRowSettles == \A r \in Request : []<>~Applying(r)

\* The comment of submit, BalanceConverterCard.jsx:189-194: the identity is
\* only discarded when the attempt was closed without executing, so that the
\* next confirmation never executes a second conversion.
DiscardedNeverMoves ==
  \A r \in Request :
    told[r] \in {"closed", "discarded"} => \A q \in moved : ~SameOp(q, r)
=============================================================================

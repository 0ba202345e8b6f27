-------------------------- MODULE Conversions_proofs --------------------------
(***************************************************************************)
(* For any number of requests, op_ids, currencies and healers: the rows of *)
(* a conversion tell what happened to the money (RecordsTellTheTruth), an  *)
(* identity never travels with two intentions (IdentityFollowsIntent) nor  *)
(* moves the money twice (OneMovePerIdentity), and an answer the browser   *)
(* received stays true (ReceiptsTellTheTruth).  The first is about the     *)
(* race between an executor and the healers: a request whose money moved   *)
(* keeps its marker while a row of it is undecided, and a request with a   *)
(* failed row can no longer move, its executor past the update or its      *)
(* marker buried.                                                          *)
(*                                                                         *)
(* The amounts come last: no balance goes below zero (NeverBelowZero), as  *)
(* the update that moves asks for what its plan takes out, and the applied *)
(* rows explain every balance (StatementExplains), since a balance is the  *)
(* opening one and what the requests that moved planned to change.         *)
(***************************************************************************)
EXTENDS Conversions, Sums

\* The calls before a request has rows, and before its update of the user.
Early == {"unsent", "sent", "lookup", "quote"}
BeforeMove == Early \cup {"record", "move"}

HasRows(r) == DOMAIN rows[r] # {}

Says(r, status) == \E c \in DOMAIN rows[r] : rows[r][c] = status

\* The request will never move the money.
Shut(r) == r \notin moved /\ (exec[r].at \in BeforeMove => r \in tombs)

Field == {"at", "op", "kind", "intent", "quoted", "seen", "plan", "answer"}

Shape ==
  /\ DOMAIN exec = Request /\ \A r \in Request : DOMAIN exec[r] = Field
  /\ DOMAIN rows = Request
  /\ \A r \in Request : \A c \in DOMAIN rows[r] : rows[r][c] \in RowStatus
  /\ DOMAIN age = Request
  /\ DOMAIN healer = Healer
  /\ \A h \in Healer : DOMAIN healer[h] = {"at", "marker", "verdict", "cand"}
  /\ markers \subseteq moved /\ moved \subseteq Request /\ tombs \subseteq Request

\* Where an executor is says whether its request has rows, has moved the money
\* and how old it can be.
Progress ==
  \A r \in Request :
    /\ exec[r].at \in Early => ~HasRows(r) /\ age[r] = 0
    /\ exec[r].at \in {"move", "markFailed", "checkClosed"} => HasRows(r)
    /\ r \in moved => HasRows(r) /\ exec[r].at \in {"markApplied", "answered", "gone"}
    /\ exec[r].at = "markApplied" => r \in moved
    /\ age[r] = 2 => exec[r].at \notin Live

\* The money of an undecided row moved only if the marker is still there.
Evidence == \A r \in moved : Applying(r) => r \in markers

Truth ==
  \A r \in Request : /\ Says(r, "failed") => Shut(r)
                     /\ Says(r, "applied") => r \in moved

\* What a healer is about to write is right, or would change no row.
Right(x) ==
  /\ x.at \in {"evidence", "bury", "mark"} => x.marker \in Request
  /\ x.at = "mark" =>
       \/ x.verdict = "applied" /\ x.marker \in moved
       \/ x.verdict = "failed" /\ Shut(x.marker)
       \/ x.verdict = "failed" /\ x.marker \in moved /\ ~Applying(x.marker)

\* What a healer is about to remove is no longer needed.
Spare(x) ==
  \A m \in x.cand :
    /\ x.at \in {"compact", "pull"} => m \in moved
    /\ x.at = "pull" => ~Applying(m)
    /\ x.at = "prune" => m \in Request /\ age[m] = 2

Verdicts == \A h \in Healer : Right(healer[h])
Candidates == \A h \in Healer : Spare(healer[h])

CoreInv == Shape /\ Progress /\ Evidence /\ Truth /\ Verdicts /\ Candidates

-----------------------------------------------------------------------------
\* The converter remembers the identities it drew, and keeps one only with the
\* form it was drawn for.
Identities ==
  /\ DOMAIN card = {"open", "intent", "op", "waiting"}
  /\ card.op \in drawn \cup {NoOp} /\ drawn \subseteq OpId
  /\ \A r \in Request :
       /\ exec[r].op \in drawn \cup {NoOp}
       /\ exec[r].at = "unsent" => exec[r].op = NoOp
       /\ exec[r].at = "lookup" => exec[r].op # NoOp
       /\ card.op # NoOp /\ exec[r].op = card.op => exec[r].intent = card.intent

\* uniq_user_op: an identity has the rows of one request.
OneRowPerIdentity ==
  \A q, r \in Request : HasRows(q) /\ HasRows(r) /\ SameOp(q, r) => q = r

\* What an answer claims holds when it is written.
Claimed(r, claim) ==
  /\ claim = "moved" =>
       \E q \in moved : SameOp(q, r) /\ exec[q].intent = exec[r].intent
  /\ claim = "closed" => \E q \in Request : SameOp(q, r) /\ Says(q, "failed")

Answers ==
  /\ DOMAIN told = Request
  /\ \A r \in Request :
       /\ exec[r].at = "answered" => Claimed(r, Claim(exec[r].answer))
       /\ exec[r].at = "checkClosed" => Says(r, "failed")
       /\ exec[r].at = "unsent" => told[r] = "nothing"
       /\ Claimed(r, told[r])

IInv == CoreInv /\ Identities /\ IdentityFollowsIntent /\ OneRowPerIdentity /\ Answers

-----------------------------------------------------------------------------
(* What a step writes                                                      *)

\* A request keeps what it asked for.
Keeps(r) == /\ exec'[r].op = exec[r].op
            /\ exec'[r].intent = exec[r].intent

\* The executors other than r's do nothing.
Alone(r) == \A q \in Request \ {r} : exec'[q] = exec[q]

ExecShape == DOMAIN exec = Request /\ \A r \in Request : DOMAIN exec[r] = Field

LEMMA GotoWrites ==
  ASSUME ExecShape, NEW r \in Request, NEW s, Goto(r, s)
  PROVE  /\ ExecShape' /\ Alone(r) /\ Keeps(r)
         /\ exec'[r].at = s
BY DEF ExecShape, Goto, Alone, Keeps, Field

LEMMA GoneWrites ==
  ASSUME ExecShape, NEW r \in Request, exec' = Gone(r)
  PROVE  /\ ExecShape' /\ Alone(r) /\ Keeps(r)
         /\ exec'[r].at = "gone"
BY DEF ExecShape, Gone, Alone, Keeps, Field

LEMMA ReplyWrites ==
  ASSUME ExecShape, NEW r \in Request, NEW a, Reply(r, a)
  PROVE  /\ ExecShape' /\ Alone(r) /\ Keeps(r)
         /\ exec'[r].at \in {"answered", "gone"}
         /\ exec'[r].at = "answered" => exec'[r].answer = a
<1>1. CASE exec' = Gone(r)
  BY <1>1, GoneWrites
<1>2. CASE exec' = [Gone(r) EXCEPT ![r].at = "answered", ![r].answer = a]
  <2> DEFINE g == Gone(r)
  <2>1. /\ DOMAIN g = Request /\ \A q \in Request : DOMAIN g[q] = Field
        /\ g[r].op = exec[r].op /\ g[r].intent = exec[r].intent
        /\ \A q \in Request \ {r} : g[q] = exec[q]
    BY DEF ExecShape, Gone, Field
  <2>2. exec' = [g EXCEPT ![r] = [[g[r] EXCEPT !.at = "answered"] EXCEPT !.answer = a]]
    BY <1>2
  <2> HIDE DEF g
  <2> QED  BY <2>1, <2>2 DEF ExecShape, Alone, Keeps, Field
<1> QED  BY <1>1, <1>2 DEF Reply

\* Settling writes the rows in applying of one request, and no others.
LEMMA SettleWrites ==
  ASSUME DOMAIN rows = Request, NEW r \in Request, NEW s, Settle(r, s)
  PROVE  /\ DOMAIN rows' = Request
         /\ \A q \in Request : DOMAIN rows'[q] = DOMAIN rows[q]
         /\ \A q \in Request \ {r} : rows'[q] = rows[q]
         /\ \A c \in DOMAIN rows[r] :
              rows'[r][c] = IF rows[r][c] = "applying" THEN s ELSE rows[r][c]
BY DEF Settle

\* A new row is in applying.
LEMMA RecordWrites ==
  ASSUME DOMAIN rows = Request, NEW r \in Request, NEW c, c \notin DOMAIN rows[r],
         InsertRow(r, c)
  PROVE  /\ DOMAIN rows' = Request
         /\ DOMAIN rows'[r] = DOMAIN rows[r] \cup {c}
         /\ \A q \in Request \ {r} : rows'[q] = rows[q]
         /\ rows'[r][c] = "applying"
         /\ \A d \in DOMAIN rows[r] : rows'[r][d] = rows[r][d]
BY DEF InsertRow

-----------------------------------------------------------------------------
(* The rows, the markers and the healers.  A step that only advances       *)
(* executors, and writes nothing of theirs, keeps CoreInv if each executor *)
(* goes where its calls lead.                                              *)

Advance(r) ==
  \/ exec'[r].at = exec[r].at
  \/ exec[r].at # "unsent" /\ exec'[r].at \in {"answered", "gone"}
  \/ exec[r].at \in Early /\ exec'[r].at \in {"sent", "lookup", "quote"}
  \/ exec[r].at = "quote" /\ exec'[r].at = "record"

LEMMA AdvanceKeepsCore ==
  ASSUME CoreInv, ExecShape', \A r \in Request : Advance(r),
         UNCHANGED <<rows, markers, tombs, healer, age, moved>>
  PROVE  CoreInv'
<1>1. Shape'
  BY DEF CoreInv, Shape, ExecShape, Early, BeforeMove, RowStatus
<1>2. Progress'
  BY DEF CoreInv, Shape, Progress, Advance, Early, HasRows, Live
<1>3. \A r \in Request : Shut(r) => Shut(r)'
  BY DEF CoreInv, Progress, Shut, Advance, Early, BeforeMove
<1>4. Evidence'
  BY DEF CoreInv, Evidence, Applying
<1>5. Truth'
  BY <1>3 DEF CoreInv, Truth, Says
<1>6. Verdicts'
  BY <1>3 DEF CoreInv, Verdicts, Right, Applying
<1>7. Candidates'
  BY DEF CoreInv, Candidates, Spare, Applying
<1> QED  BY <1>1, <1>2, <1>4, <1>5, <1>6, <1>7 DEF CoreInv

\* The calls that write nothing but the executor's own place.
Advancing ==
  \/ Browser
  \/ \E r \in Request : Enter(r) \/ Lookup(r) \/ Quote(r) \/ CheckClosed(r) \/ Die(r)
  \/ ChangeRate \/ SwitchDefensive

LEMMA AdvancingCore ==
  ASSUME CoreInv, Advancing
  PROVE  CoreInv'
<1> USE DEF Field, Early
<1>0. ExecShape
  BY DEF CoreInv, Shape, ExecShape
<1>a. SUFFICES /\ ExecShape' /\ \A r \in Request : Advance(r)
               /\ UNCHANGED <<rows, markers, tombs, healer, age, moved>>
  BY AdvanceKeepsCore
<1>1. CASE OpenCard \/ EditCard \/ CloseCard \/ ChangeRate \/ SwitchDefensive
  BY <1>0, <1>1 DEF OpenCard, EditCard, CloseCard, ChangeRate, SwitchDefensive,
     store, hist, client, ExecShape, Advance
<1>2. CASE Reload
  <2>1. \A r \in Request : exec'[r] =
          IF exec[r].at = "answered" THEN Gone(r)[r] ELSE exec[r]
    BY <1>2 DEF Reload
  <2>2. \A r \in Request : /\ DOMAIN Gone(r)[r] = Field
                           /\ Gone(r)[r].at = "gone"
    BY <1>0 DEF ExecShape, Gone
  <2>3. DOMAIN exec' = Request
    BY <1>2 DEF Reload
  <2> QED  BY <1>0, <1>2, <2>1, <2>2, <2>3 DEF Reload, ExecShape, Advance, store, hist
<1>3. ASSUME NEW r \in Request, Submit(r) \/ SubmitSweep(r)
      PROVE  /\ ExecShape' /\ \A q \in Request : Advance(q)
             /\ UNCHANGED <<rows, markers, tombs, healer, age, moved>>
  <2>1. CASE Submit(r)
    <3>1. PICK op : exec' = [exec EXCEPT ![r] =
            [@ EXCEPT !.at = "sent", !.kind = "convert", !.op = op,
                      !.intent = card.intent, !.quoted = world.rate]]
      BY <2>1 DEF Submit
    <3> QED  BY <1>0, <2>1, <3>1 DEF Submit, ExecShape, Advance, store, hist
  <2>2. CASE SubmitSweep(r)
    <3>1. exec' = [exec EXCEPT ![r] = [@ EXCEPT !.at = "sent", !.kind = "dust",
                                                !.quoted = Preview]]
      BY <2>2 DEF SubmitSweep
    <3> QED  BY <1>0, <2>2, <3>1 DEF SubmitSweep, ExecShape, Advance, store, hist
  <2> QED  BY <1>3, <2>1, <2>2
<1>4. ASSUME NEW r \in Request,
             OnAnswer(r) \/ OnSilence(r) \/ OnSweepAnswer(r) \/ OnSweepSilence(r)
      PROVE  /\ ExecShape' /\ \A q \in Request : Advance(q)
             /\ UNCHANGED <<rows, markers, tombs, healer, age, moved>>
  <2>1. exec' = exec \/ (exec[r].at = "answered" /\ exec' = Gone(r))
    <3>1. \/ exec[r].at = "answered" /\ exec' = Gone(r)
          \/ Unheard(r)
      BY <1>4, Zenon DEF OnAnswer, OnSilence, OnSweepAnswer, OnSweepSilence
    <3> QED  BY <3>1, Zenon DEF Unheard
  <2>2. ExecShape' /\ \A q \in Request : Advance(q)
    BY <1>0, <2>1, GoneWrites DEF ExecShape, Advance, Alone
  <2> QED  BY <1>4, <2>2 DEF OnAnswer, OnSilence, OnSweepAnswer, OnSweepSilence,
              store, hist
<1>5. ASSUME NEW r \in Request, Enter(r) \/ Lookup(r) \/ Quote(r) \/ CheckClosed(r)
                                  \/ Die(r)
      PROVE  /\ ExecShape' /\ \A q \in Request : Advance(q)
             /\ UNCHANGED <<rows, markers, tombs, healer, age, moved>>
  <2>1. exec[r].at # "unsent"
    BY <1>5 DEF Enter, Lookup, Quote, CheckClosed, Die, Live
  <2>2. UNCHANGED <<rows, markers, tombs, healer, age, moved>>
    BY <1>5 DEF Enter, Lookup, Quote, CheckClosed, Die, store, hist
  <2>3. ASSUME \/ \E a : Reply(r, a)
               \/ exec' = Gone(r)
               \/ exec[r].at = "lookup" /\ Goto(r, "quote")
        PROVE  ExecShape' /\ \A q \in Request : Advance(q)
    BY <1>0, <2>1, <2>3, ReplyWrites, GoneWrites, GotoWrites DEF Advance, Alone
  <2>4. CASE Enter(r)
    <3> DEFINE next == [exec EXCEPT ![r] =
                  [@ EXCEPT !.at = IF exec[r].op = NoOp THEN "quote" ELSE "lookup",
                            !.seen = funds]]
    <3>1. exec[r].at = "sent" /\ ((\E a : Reply(r, a)) \/ exec' = next)
      BY <2>4, Zenon DEF Enter
    <3>2. CASE exec' = next
      BY <1>0, <2>2, <3>1, <3>2 DEF ExecShape, Advance
    <3> QED  BY <2>2, <2>3, <3>1, <3>2
  <2>5. CASE Quote(r)
    <3>1. exec[r].at = "quote" /\
            \/ \E a : Reply(r, a)
            \/ \E p : exec' = [exec EXCEPT ![r] =
                 [@ EXCEPT !.at = "record", !.plan = p, !.quoted = 0,
                           !.seen = Opening]]
      <4> DEFINE p == IF exec[r].kind = "convert"
                        THEN ConvertPlan(exec[r].intent, world.rate)
                        ELSE SweepPlan(exec[r].seen, world.rate)
      <4>1. exec[r].at = "quote" /\
              \/ \E a : Reply(r, a)
              \/ exec' = [exec EXCEPT ![r] =
                   [@ EXCEPT !.at = "record", !.plan = p, !.quoted = 0,
                             !.seen = Opening]]
        BY <2>5, Zenon DEF Quote
      <4> HIDE DEF p
      <4> QED  BY <4>1, Zenon
    <3>2. ASSUME NEW p, exec' = [exec EXCEPT ![r] =
                   [@ EXCEPT !.at = "record", !.plan = p, !.quoted = 0,
                             !.seen = Opening]]
          PROVE  ExecShape' /\ \A q \in Request : Advance(q)
      BY <1>0, <3>1, <3>2 DEF ExecShape, Advance
    <3> QED  BY <2>2, <2>3, <3>1, <3>2
  <2>6. CASE Lookup(r)
    <3>1. \/ \E a : Reply(r, a)
          \/ exec[r].at = "lookup" /\ Goto(r, "quote")
      BY <2>6, Zenon DEF Lookup
    <3> QED  BY <2>2, <2>3, <3>1
  <2>7. CASE CheckClosed(r) \/ Die(r)
    <3>1. (\E a : Reply(r, a)) \/ exec' = Gone(r)
      BY <2>7, Zenon DEF CheckClosed, Die
    <3> QED  BY <2>2, <2>3, <3>1
  <2> QED  BY <1>5, <2>4, <2>5, <2>6, <2>7
<1> QED  BY <1>1, <1>2, <1>3, <1>4, <1>5, Zenon DEF Advancing, Browser

\* A row of a request that has not moved is inserted.
LEMMA RecordCore ==
  ASSUME CoreInv, NEW r \in Request, Record(r)
  PROVE  CoreInv'
<1>0. ExecShape
  BY DEF CoreInv, Shape, ExecShape
<1>1. CASE \E a : Reply(r, a) /\ UNCHANGED rows
  <2>1. ExecShape' /\ \A q \in Request : Advance(q)
    BY <1>0, <1>1, ReplyWrites DEF Advance, Alone, Record
  <2> QED  BY <1>1, <2>1, AdvanceKeepsCore DEF Record, hist
<1>2. ASSUME NEW c, c \notin DOMAIN rows[r], InsertRow(r, c),
             NEW s \in {"move", "record"}, Goto(r, s)
      PROVE  CoreInv'
  <2>1. /\ DOMAIN rows' = Request
        /\ DOMAIN rows'[r] = DOMAIN rows[r] \cup {c}
        /\ \A q \in Request \ {r} : rows'[q] = rows[q]
        /\ rows'[r][c] = "applying"
        /\ \A d \in DOMAIN rows[r] : rows'[r][d] = rows[r][d]
    BY <1>2, RecordWrites DEF CoreInv, Shape
  <2>2. ExecShape' /\ Alone(r) /\ exec[r].at = "record" /\ exec'[r].at = s
    BY <1>0, <1>2, GotoWrites DEF Record
  <2>3. UNCHANGED <<markers, tombs, healer, age, moved>>
    BY DEF Record, hist
  <2>4. Shape'
    BY <2>1, <2>2, <2>3 DEF CoreInv, Shape, ExecShape, RowStatus
  <2>5. r \notin moved
    BY <2>2 DEF CoreInv, Progress, Shape
  <2>6. Progress'
    BY <2>1, <2>2, <2>3, <2>5 DEF CoreInv, Progress, Alone, Early, HasRows, Live
  <2>7. \A q \in Request : Shut(q) => Shut(q)'
    BY <2>2, <2>3 DEF Shut, Alone, BeforeMove
  <2>8. \A q \in Request \ {r} : Applying(q) <=> Applying(q)'
    BY <2>1 DEF Applying
  <2>9. Evidence'
    BY <2>3, <2>5, <2>8 DEF CoreInv, Evidence, Shape
  <2>10. \A q \in Request : /\ Says(q, "failed")' => Says(q, "failed")
                            /\ Says(q, "applied")' => Says(q, "applied")
    BY <2>1 DEF Says
  <2>11. Truth'
    BY <2>3, <2>7, <2>10 DEF CoreInv, Truth
  <2>12. Verdicts'
    BY <2>3, <2>5, <2>7, <2>8 DEF CoreInv, Verdicts, Right
  <2>13. Candidates'
    BY <2>3, <2>5, <2>8 DEF CoreInv, Candidates, Spare, Shape
  <2> QED  BY <2>4, <2>6, <2>9, <2>11, <2>12, <2>13 DEF CoreInv
<1>3. \/ \E a : Reply(r, a) /\ UNCHANGED rows
      \/ \E c, s : /\ c \notin DOMAIN rows[r] /\ InsertRow(r, c)
                   /\ s \in {"move", "record"} /\ Goto(r, s)
  BY DEF Record
<1> QED  BY <1>1, <1>2, <1>3

\* The update of the user document, or its refusal.
LEMMA MoveCore ==
  ASSUME CoreInv, NEW r \in Request, Move(r)
  PROVE  CoreInv'
<1>0. ExecShape
  BY DEF CoreInv, Shape, ExecShape
<1>1. CASE r \notin tombs /\ Affords(funds, exec[r].plan)
  <2>1. /\ markers' = markers \cup {r} /\ moved' = moved \cup {r}
        /\ exec[r].at = "move" /\ Goto(r, "markApplied")
        /\ UNCHANGED <<rows, tombs, healer, age>>
    BY <1>1 DEF Move, MoveIf
  <2>2. ExecShape' /\ Alone(r) /\ exec'[r].at = "markApplied"
    BY <1>0, <2>1, GotoWrites
  <2>3. Shape'
    BY <2>1, <2>2 DEF CoreInv, Shape, ExecShape
  <2>4. Progress'
    BY <2>1, <2>2 DEF CoreInv, Progress, Alone, Early, HasRows, Live
  <2>5. \A q \in Request : Shut(q) => Shut(q)'
    BY <1>1, <2>1, <2>2 DEF Shut, Alone, BeforeMove
  <2>6. Evidence'
    BY <2>1 DEF CoreInv, Evidence, Applying
  <2>7. Truth'
    BY <2>1, <2>5 DEF CoreInv, Truth, Says
  <2>8. Verdicts'
    BY <2>1, <2>5 DEF CoreInv, Verdicts, Right, Applying
  <2>9. Candidates'
    BY <2>1 DEF CoreInv, Candidates, Spare, Applying
  <2> QED  BY <2>3, <2>4, <2>6, <2>7, <2>8, <2>9 DEF CoreInv
<1>2. CASE ~(r \notin tombs /\ Affords(funds, exec[r].plan))
  <2>1. /\ exec[r].at = "move" /\ Goto(r, "markFailed")
        /\ UNCHANGED <<rows, markers, moved, tombs, healer, age>>
    BY <1>2 DEF Move, MoveIf
  <2>2. ExecShape' /\ Alone(r) /\ exec'[r].at = "markFailed"
    BY <1>0, <2>1, GotoWrites
  <2>3. Shape'
    BY <2>1, <2>2 DEF CoreInv, Shape, ExecShape
  <2>4. Progress'
    BY <2>1, <2>2 DEF CoreInv, Progress, Alone, Early, HasRows, Live
  <2>5. \A q \in Request : Shut(q) => Shut(q)'
    BY <2>1, <2>2 DEF Shut, Alone, BeforeMove
  <2>6. Evidence'
    BY <2>1 DEF CoreInv, Evidence, Applying
  <2>7. Truth'
    BY <2>1, <2>5 DEF CoreInv, Truth, Says
  <2>8. Verdicts'
    BY <2>1, <2>5 DEF CoreInv, Verdicts, Right, Applying
  <2>9. Candidates'
    BY <2>1 DEF CoreInv, Candidates, Spare, Applying
  <2> QED  BY <2>3, <2>4, <2>6, <2>7, <2>8, <2>9 DEF CoreInv
<1> QED  BY <1>1, <1>2

\* Settling the rows of a request with what happened to its money; the writer,
\* an executor or a healer, moves on.
LEMMA SettleCore ==
  ASSUME CoreInv, NEW r \in Request, NEW s, Settle(r, s), ExecShape',
         \/ s = "applied" /\ r \in moved
         \/ s = "failed" /\ Shut(r)
         \/ s = "failed" /\ r \in moved /\ ~Applying(r),
         \A q \in Request :
           \/ exec'[q].at = exec[q].at
           \/ exec[q].at = "markApplied" /\ exec'[q].at \in {"answered", "gone"}
           \/ exec[q].at = "markFailed" /\ exec'[q].at = "checkClosed",
         DOMAIN healer' = Healer,
         \A h \in Healer : healer'[h] = healer[h] \/ healer'[h] = Idle,
         UNCHANGED <<markers, tombs, age, moved>>
  PROVE  CoreInv'
<1>1. /\ DOMAIN rows' = Request
      /\ \A q \in Request : DOMAIN rows'[q] = DOMAIN rows[q]
      /\ \A q \in Request \ {r} : rows'[q] = rows[q]
      /\ \A c \in DOMAIN rows[r] :
           rows'[r][c] = IF rows[r][c] = "applying" THEN s ELSE rows[r][c]
  BY SettleWrites DEF CoreInv, Shape
<1>2. \A q \in Request : Applying(q)' => Applying(q)
  BY <1>1 DEF Applying
<1>3. \A q \in Request : Shut(q) => Shut(q)'
  BY DEF Shut, BeforeMove, Early
<1>4. /\ DOMAIN Idle = {"at", "marker", "verdict", "cand"}
      /\ Idle.at = "idle"
  BY DEF Idle
<1>5. Shape'
  BY <1>1, <1>4 DEF CoreInv, Shape, ExecShape, RowStatus
<1>6. Progress'
  BY <1>1 DEF CoreInv, Progress, Early, HasRows, Live, Shape
<1>7. Evidence'
  BY <1>2 DEF CoreInv, Evidence, Shape
<1>8. Truth'
  <2>1. \A q \in Request : Says(q, "failed")' => Shut(q)
    BY <1>1 DEF CoreInv, Truth, Says, Applying
  <2>2. \A q \in Request : Says(q, "applied")' => q \in moved
    BY <1>1 DEF CoreInv, Truth, Says, Applying
  <2> QED  BY <1>3, <2>1, <2>2 DEF Truth
<1>9. Verdicts'
  BY <1>2, <1>3, <1>4 DEF CoreInv, Verdicts, Right
<1>10. Candidates'
  BY <1>2, <1>4 DEF CoreInv, Candidates, Spare, Shape
<1> QED  BY <1>5, <1>6, <1>7, <1>8, <1>9, <1>10 DEF CoreInv

LEMMA MarkCore ==
  ASSUME CoreInv, NEW r \in Request, MarkFailed(r) \/ MarkApplied(r)
  PROVE  CoreInv'
<1>0. ExecShape
  BY DEF CoreInv, Shape, ExecShape
<1>1. DOMAIN healer' = Healer /\ \A h \in Healer : healer'[h] = healer[h]
  BY DEF CoreInv, Shape, MarkFailed, MarkApplied
<1>2. UNCHANGED <<markers, tombs, age, moved>>
  BY DEF MarkFailed, MarkApplied, hist
<1>3. CASE MarkFailed(r)
  <2>1. /\ exec[r].at = "markFailed" /\ Settle(r, "failed")
        /\ Goto(r, "checkClosed")
    BY <1>3 DEF MarkFailed
  <2>2. ExecShape' /\ Alone(r) /\ exec'[r].at = "checkClosed"
    BY <1>0, <2>1, GotoWrites
  <2>3. Shut(r)
    BY <2>1 DEF CoreInv, Progress, Shut, BeforeMove
  <2> QED  BY <1>1, <1>2, <2>1, <2>2, <2>3, SettleCore DEF Alone
<1>4. CASE MarkApplied(r)
  <2>1. /\ exec[r].at = "markApplied" /\ Settle(r, "applied")
        /\ Reply(r, "done")
    BY <1>4 DEF MarkApplied
  <2>2. ExecShape' /\ Alone(r) /\ exec'[r].at \in {"answered", "gone"}
    BY <1>0, <2>1, ReplyWrites
  <2>3. r \in moved
    BY <2>1 DEF CoreInv, Progress
  <2> QED  BY <1>1, <1>2, <2>1, <2>2, <2>3, SettleCore DEF Alone
<1> QED  BY <1>3, <1>4

LEMMA HealMarkCore ==
  ASSUME CoreInv, NEW h \in Healer, HealMark(h)
  PROVE  CoreInv'
<1>1. /\ healer[h].at = "mark" /\ Settle(healer[h].marker, healer[h].verdict)
      /\ healer' = [healer EXCEPT ![h] = Idle]
      /\ UNCHANGED <<exec, markers, tombs, age, moved>>
  BY DEF HealMark, hist
<1>2. DOMAIN healer' = Healer /\ \A k \in Healer : healer'[k] = healer[k] \/ healer'[k] = Idle
  BY <1>1 DEF CoreInv, Shape
<1>3. ExecShape' /\ \A q \in Request : exec'[q].at = exec[q].at
  BY <1>1 DEF CoreInv, Shape, ExecShape
<1>4. /\ healer[h].marker \in Request
      /\ \/ healer[h].verdict = "applied" /\ healer[h].marker \in moved
         \/ healer[h].verdict = "failed" /\ Shut(healer[h].marker)
         \/ healer[h].verdict = "failed" /\ healer[h].marker \in moved
              /\ ~Applying(healer[h].marker)
  BY <1>1 DEF CoreInv, Verdicts, Right
<1> DEFINE r == healer[h].marker
           s == healer[h].verdict
<1>5. /\ r \in Request /\ Settle(r, s)
      /\ \/ s = "applied" /\ r \in moved
         \/ s = "failed" /\ Shut(r)
         \/ s = "failed" /\ r \in moved /\ ~Applying(r)
  BY <1>1, <1>4
<1> HIDE DEF r, s
<1> QED  BY <1>1, <1>2, <1>3, <1>5, SettleCore

\* A healer's own step: it loses no evidence and opens no shut request.
LEMMA HealerCore ==
  ASSUME CoreInv, NEW h \in Healer, NEW w, healer' = [healer EXCEPT ![h] = w],
         DOMAIN w = {"at", "marker", "verdict", "cand"},
         UNCHANGED <<exec, rows, age, moved>>,
         markers' \subseteq markers, tombs' \subseteq Request,
         \A r \in moved : Applying(r) /\ r \in markers => r \in markers',
         \A r \in Request : Shut(r) => Shut(r)',
         Right(w)', Spare(w)'
  PROVE  CoreInv'
<1>1. \A k \in Healer : healer'[k] = IF k = h THEN w ELSE healer[k]
  BY DEF CoreInv, Shape
<1>2. Shape'
  BY <1>1 DEF CoreInv, Shape
<1>3. Progress'
  BY DEF CoreInv, Progress, HasRows
<1>4. Evidence'
  BY DEF CoreInv, Evidence, Applying
<1>5. Truth'
  BY DEF CoreInv, Truth, Says
<1>6. Verdicts'
  BY <1>1 DEF CoreInv, Verdicts, Right, Applying
<1>7. Candidates'
  BY <1>1 DEF CoreInv, Candidates, Spare, Applying
<1> QED  BY <1>2, <1>3, <1>4, <1>5, <1>6, <1>7 DEF CoreInv

\* The record a healer goes on with.
LEMMA IdleRecord ==
  /\ DOMAIN Idle = {"at", "marker", "verdict", "cand"}
  /\ Idle.at = "idle" /\ Idle.cand = {}
BY DEF Idle

LEMMA HealCore ==
  ASSUME CoreInv, NEW h \in Healer, Heal(h) \/ HealerDie(h)
  PROVE  CoreInv'
<1> DEFINE x == healer[h]
<1>0. DOMAIN x = {"at", "marker", "verdict", "cand"} /\ Right(x) /\ Spare(x)
  BY DEF CoreInv, Shape, Verdicts, Candidates
<1>1. CASE HealPick(h)
  <2>1. PICK r \in Request : healer' = [healer EXCEPT ![h] =
          [x EXCEPT !.at = "evidence", !.marker = r]]
    BY <1>1 DEF HealPick, Overdue
  <2>0. PICK w : w = [x EXCEPT !.at = "evidence", !.marker = r]
    OBVIOUS
  <2>2. UNCHANGED <<exec, rows, markers, tombs, age, moved>>
    BY <1>1 DEF HealPick, store, hist
  <2>3. /\ DOMAIN w = DOMAIN x /\ w.at = "evidence" /\ w.marker = r
        /\ w.cand = x.cand
    BY <1>0, <2>0
  <2>4. Right(w)' /\ Spare(w)'
    BY <2>3 DEF Right, Spare
  <2> QED  BY <1>0, <2>0, <2>1, <2>2, <2>3, <2>4, HealerCore DEF Shut, CoreInv, Shape
<1>2. CASE HealEvidence(h)
  <2>0. PICK w : w = IF x.marker \in markers
                  THEN [x EXCEPT !.at = "mark", !.verdict = "applied"]
                  ELSE [x EXCEPT !.at = "bury"]
    OBVIOUS
  <2>1. x.at = "evidence" /\ healer' = [healer EXCEPT ![h] = w]
    BY <2>0, <1>2 DEF HealEvidence
  <2>2. UNCHANGED <<exec, rows, markers, tombs, age, moved>>
    BY <1>2 DEF HealEvidence, store, hist
  <2>3. /\ DOMAIN w = DOMAIN x /\ w.cand = x.cand /\ w.marker = x.marker
        /\ \/ w.at = "mark" /\ w.verdict = "applied" /\ x.marker \in markers
           \/ w.at = "bury"
    BY <1>0, <2>0
  <2>4. Right(w)' /\ Spare(w)'
    BY <1>0, <2>1, <2>2, <2>3 DEF Right, Spare, CoreInv, Shape
  <2> QED  BY <1>0, <2>0, <2>1, <2>2, <2>3, <2>4, HealerCore DEF Shut, CoreInv, Shape
<1>3. CASE HealBury(h)
  <2> DEFINE spent == x.marker \in markers
  <2>0. PICK w : w = [x EXCEPT !.at = "mark",
                          !.verdict = IF spent THEN "applied" ELSE "failed"]
    OBVIOUS
  <2>1. /\ x.at = "bury" /\ healer' = [healer EXCEPT ![h] = w]
        /\ tombs' = IF spent THEN tombs ELSE tombs \cup {x.marker}
    BY <2>0, <1>3 DEF HealBury
  <2>2. UNCHANGED <<exec, rows, markers, age, moved>>
    BY <1>3 DEF HealBury, hist
  <2>3. /\ DOMAIN w = DOMAIN x /\ w.cand = x.cand /\ w.marker = x.marker
        /\ w.at = "mark" /\ w.verdict = IF spent THEN "applied" ELSE "failed"
    BY <1>0, <2>0
  <2>4. x.marker \in Request
    BY <1>0, <2>1 DEF Right
  <2>5. \A r \in Request : Shut(r) => Shut(r)'
    BY <2>1, <2>2 DEF Shut
  <2>6. CASE spent
    BY <1>0, <2>1, <2>2, <2>3, <2>4, <2>5, <2>6, HealerCore
       DEF Right, Spare, CoreInv, Shape
  <2>7. CASE ~spent
    <3>0. PICK m \in Request : m = x.marker
      BY <2>4
    <3>1. m \in moved => ~Applying(m)
      BY <2>7, <3>0 DEF CoreInv, Evidence
    <3>2. m \notin moved => Shut(m)'
      BY <2>1, <2>2, <2>7, <3>0 DEF Shut
    <3>3. Right(w)' /\ Spare(w)'
      BY <2>1, <2>2, <2>3, <2>7, <3>0, <3>1, <3>2 DEF Right, Spare, Applying
    <3> QED  BY <1>0, <2>1, <2>2, <2>3, <2>4, <2>5, <3>3, HealerCore
             DEF CoreInv, Shape
  <2> QED  BY <2>6, <2>7
<1>4. CASE HealMark(h)
  BY <1>4, HealMarkCore
<1>5. CASE CompactRead(h)
  <2>1. PICK cand \in SUBSET markers : healer' = [healer EXCEPT ![h] =
          [x EXCEPT !.at = "compact", !.cand = cand]]
    BY <1>5 DEF CompactRead
  <2>0. PICK w : w = [x EXCEPT !.at = "compact", !.cand = cand]
    OBVIOUS
  <2>2. UNCHANGED <<exec, rows, markers, tombs, age, moved>>
    BY <1>5 DEF CompactRead, store, hist
  <2>3. DOMAIN w = DOMAIN x /\ w.at = "compact" /\ w.cand = cand
    BY <1>0, <2>0
  <2>4. Right(w)' /\ Spare(w)'
    BY <2>2, <2>3 DEF Right, Spare, CoreInv, Shape
  <2> QED  BY <1>0, <2>0, <2>1, <2>2, <2>3, <2>4, HealerCore DEF Shut, CoreInv, Shape
<1>6. CASE CompactFilter(h)
  <2>0. PICK w : w = [x EXCEPT !.at = "pull", !.cand = {m \in x.cand : ~Applying(m)}]
    OBVIOUS
  <2>1. x.at = "compact" /\ healer' = [healer EXCEPT ![h] = w]
    BY <2>0, <1>6 DEF CompactFilter
  <2>2. UNCHANGED <<exec, rows, markers, tombs, age, moved>>
    BY <1>6 DEF CompactFilter, store, hist
  <2>3. /\ DOMAIN w = DOMAIN x /\ w.at = "pull"
        /\ w.cand = {m \in x.cand : ~Applying(m)}
    BY <1>0, <2>0
  <2>4. Right(w)' /\ Spare(w)'
    BY <1>0, <2>1, <2>2, <2>3 DEF Right, Spare, Applying
  <2> QED  BY <1>0, <2>0, <2>1, <2>2, <2>3, <2>4, HealerCore DEF Shut, CoreInv, Shape
<1>7. CASE CompactPull(h)
  <2>1. /\ x.at = "pull" /\ healer' = [healer EXCEPT ![h] = Idle]
        /\ markers' = markers \ x.cand
        /\ UNCHANGED <<exec, rows, tombs, age, moved>>
    BY <1>7 DEF CompactPull, hist
  <2>2. Right(Idle)' /\ Spare(Idle)'
    BY IdleRecord DEF Right, Spare
  <2>3. \A m \in x.cand : ~Applying(m)
    BY <1>0, <2>1 DEF Spare
  <2> QED  BY <2>1, <2>2, <2>3, IdleRecord, HealerCore DEF Shut, CoreInv, Shape
<1>8. CASE PruneRead(h)
  <2>0. PICK w : w = [x EXCEPT !.at = "prune", !.cand = {m \in tombs : age[m] = 2}]
    OBVIOUS
  <2>1. healer' = [healer EXCEPT ![h] = w]
    BY <2>0, <1>8 DEF PruneRead
  <2>2. UNCHANGED <<exec, rows, markers, tombs, age, moved>>
    BY <1>8 DEF PruneRead, store, hist
  <2>3. /\ DOMAIN w = DOMAIN x /\ w.at = "prune"
        /\ w.cand = {m \in tombs : age[m] = 2}
    BY <1>0, <2>0
  <2>4. Right(w)' /\ Spare(w)'
    BY <2>2, <2>3 DEF Right, Spare, CoreInv, Shape
  <2> QED  BY <1>0, <2>0, <2>1, <2>2, <2>3, <2>4, HealerCore DEF Shut, CoreInv, Shape
<1>9. CASE PrunePull(h)
  <2>1. /\ x.at = "prune" /\ healer' = [healer EXCEPT ![h] = Idle]
        /\ tombs' = tombs \ x.cand
        /\ UNCHANGED <<exec, rows, markers, age, moved>>
    BY <1>9 DEF PrunePull, hist
  <2>2. Right(Idle)' /\ Spare(Idle)'
    BY IdleRecord DEF Right, Spare
  <2>3. \A m \in x.cand : m \in Request /\ age[m] = 2
    BY <1>0, <2>1 DEF Spare
  <2>4. \A m \in x.cand : exec[m].at \notin BeforeMove
    BY <2>3 DEF CoreInv, Progress, BeforeMove, Early, Live
  <2>5. \A r \in Request : Shut(r) => Shut(r)'
    BY <2>1, <2>4 DEF Shut
  <2> QED  BY <2>1, <2>2, <2>5, IdleRecord, HealerCore DEF CoreInv, Shape
<1>10. CASE HealerDie(h)
  <2>1. /\ healer' = [healer EXCEPT ![h] = Idle]
        /\ UNCHANGED <<exec, rows, markers, tombs, age, moved>>
    BY <1>10 DEF HealerDie, store, hist
  <2>2. Right(Idle)' /\ Spare(Idle)'
    BY IdleRecord DEF Right, Spare
  <2> QED  BY <2>1, <2>2, IdleRecord, HealerCore DEF Shut, CoreInv, Shape
<1> QED  BY <1>1, <1>2, <1>3, <1>4, <1>5, <1>6, <1>7, <1>8, <1>9, <1>10 DEF Heal

\* Time: a row is overtaken only once it exists, and expires only after its
\* executor.
LEMMA AgeCore ==
  ASSUME CoreInv, NEW r \in Request, Overtake(r) \/ Expire(r)
  PROVE  CoreInv'
<1>1. UNCHANGED <<exec, rows, markers, tombs, healer, moved>>
  BY DEF Overtake, Expire, store, hist
<1>2. /\ DOMAIN age' = Request
      /\ \A q \in Request \ {r} : age'[q] = age[q]
      /\ \/ age'[r] = 1 /\ age[r] = 0 /\ Applying(r)
         \/ age'[r] = 2 /\ age[r] = 1 /\ exec[r].at \notin Live
  BY DEF CoreInv, Shape, Overtake, Expire
<1>3. Shape'
  BY <1>1, <1>2 DEF CoreInv, Shape
<1>4. Progress'
  <2>1. HasRows(r) \/ age[r] # 0
    BY <1>2 DEF Applying, HasRows
  <2> QED  BY <1>1, <1>2, <2>1 DEF CoreInv, Progress, HasRows
<1>5. Evidence' /\ Truth' /\ Verdicts'
  BY <1>1 DEF CoreInv, Evidence, Truth, Verdicts, Right, Says, Shut, Applying
<1>6. Candidates'
  BY <1>1, <1>2 DEF CoreInv, Candidates, Spare, Applying
<1> QED  BY <1>3, <1>4, <1>5, <1>6 DEF CoreInv

LEMMA CoreInit == Init => CoreInv
<1> SUFFICES ASSUME Init PROVE CoreInv
  OBVIOUS
<1>1. Shape
  BY IdleRecord DEF Init, Shape, Unsent, Field
<1>2. Progress
  BY DEF Init, Progress, HasRows, Unsent, Early, Live
<1>3. Evidence /\ Truth
  BY DEF Init, Evidence, Truth, Says
<1>4. Verdicts /\ Candidates
  BY IdleRecord DEF Init, Verdicts, Candidates, Right, Spare
<1> QED  BY <1>1, <1>2, <1>3, <1>4 DEF CoreInv

LEMMA CoreNext == CoreInv /\ [Next]_vars => CoreInv'
<1> SUFFICES ASSUME CoreInv, [Next]_vars PROVE CoreInv'
  OBVIOUS
<1>1. CASE Advancing
  BY <1>1, AdvancingCore
<1>2. CASE \E r \in Request : Record(r)
  BY <1>2, RecordCore
<1>3. CASE \E r \in Request : Move(r)
  BY <1>3, MoveCore
<1>4. CASE \E r \in Request : MarkFailed(r) \/ MarkApplied(r)
  BY <1>4, MarkCore
<1>5. CASE \E h \in Healer : Heal(h) \/ HealerDie(h)
  BY <1>5, HealCore
<1>6. CASE \E r \in Request : Overtake(r) \/ Expire(r)
  BY <1>6, AgeCore
<1>7. CASE UNCHANGED vars
  <2>1. ExecShape' /\ \A r \in Request : Advance(r)
    BY <1>7 DEF CoreInv, Shape, ExecShape, Advance, vars
  <2> QED  BY <1>7, <2>1, AdvanceKeepsCore DEF vars, store, hist
<1> QED  BY <1>1, <1>2, <1>3, <1>4, <1>5, <1>6, <1>7, Zenon
         DEF Next, Executor, Environment, Advancing

-----------------------------------------------------------------------------
(* What every step keeps                                                   *)

\* A request that was sent keeps what it asked for, and what happened to its
\* rows and its money is not undone.
Forward ==
  /\ moved \subseteq moved'
  /\ \A r \in Request :
       /\ exec[r].at # "unsent" => Keeps(r) /\ exec'[r].at # "unsent"
       /\ HasRows(r) => HasRows(r)'
       /\ Says(r, "failed") => Says(r, "failed")'

\* What a step does to the executors, once the form is left aside.
ExecStep ==
  \A r \in Request :
    \/ exec'[r] = exec[r]
    \/ Keeps(r) /\ exec[r].at # "unsent" /\ exec'[r].at # "unsent"

LEMMA ForwardSettle ==
  ASSUME CoreInv, NEW r \in Request, NEW s, Settle(r, s),
         UNCHANGED moved, ExecStep
  PROVE  Forward
<1>1. /\ \A q \in Request : DOMAIN rows'[q] = DOMAIN rows[q]
      /\ \A q \in Request \ {r} : rows'[q] = rows[q]
      /\ \A c \in DOMAIN rows[r] :
           rows'[r][c] = IF rows[r][c] = "applying" THEN s ELSE rows[r][c]
  BY SettleWrites DEF CoreInv, Shape
<1>2. \A q \in Request : Says(q, "failed") => Says(q, "failed")'
  BY <1>1 DEF Says
<1> QED  BY <1>1, <1>2 DEF Forward, ExecStep, HasRows, Keeps

LEMMA ForwardServer ==
  ASSUME CoreInv, NEW r \in Request, Executor(r)
  PROVE  Forward /\ Alone(r) /\ Keeps(r) /\ exec'[r].at # "unsent"
<1>0. ExecShape
  BY DEF CoreInv, Shape, ExecShape
<1>1. exec[r].at # "unsent"
  BY DEF Executor, Enter, Lookup, Quote, Record, Move, MoveIf, MarkFailed,
     CheckClosed, MarkApplied, Die, Live
<1>2. Alone(r) /\ Keeps(r) /\ exec'[r].at # "unsent"
  <2>1. ASSUME \/ \E a : Reply(r, a)
               \/ exec' = Gone(r)
               \/ \E s : s # "unsent" /\ Goto(r, s)
        PROVE  Alone(r) /\ Keeps(r) /\ exec'[r].at # "unsent"
    BY <1>0, <2>1, ReplyWrites, GoneWrites, GotoWrites
  <2>2. CASE Enter(r)
    <3>1. \/ \E a : Reply(r, a)
          \/ exec' = [exec EXCEPT ![r] =
               [@ EXCEPT !.at = IF exec[r].op = NoOp THEN "quote" ELSE "lookup",
                         !.seen = funds]]
      BY <2>2, Zenon DEF Enter
    <3> QED  BY <1>0, <2>1, <3>1 DEF ExecShape, Alone, Keeps, Field
  <2>3. CASE Quote(r)
    <3>1. \/ \E a : Reply(r, a)
          \/ \E p : exec' = [exec EXCEPT ![r] =
               [@ EXCEPT !.at = "record", !.plan = p, !.quoted = 0,
                         !.seen = Opening]]
      <4> DEFINE p == IF exec[r].kind = "convert"
                        THEN ConvertPlan(exec[r].intent, world.rate)
                        ELSE SweepPlan(exec[r].seen, world.rate)
      <4>1. \/ \E a : Reply(r, a)
            \/ exec' = [exec EXCEPT ![r] =
                 [@ EXCEPT !.at = "record", !.plan = p, !.quoted = 0,
                           !.seen = Opening]]
        BY <2>3, Zenon DEF Quote
      <4> HIDE DEF p
      <4> QED  BY <4>1, Zenon
    <3> QED  BY <1>0, <2>1, <3>1 DEF ExecShape, Alone, Keeps, Field
  <2>4. CASE Lookup(r) \/ CheckClosed(r) \/ Die(r)
    <3>1. (\E a : Reply(r, a)) \/ exec' = Gone(r) \/ Goto(r, "quote")
      BY <2>4, Zenon DEF Lookup, CheckClosed, Die
    <3> QED  BY <2>1, <3>1
  <2>5. CASE Record(r)
    <3>1. (\E a : Reply(r, a)) \/ Goto(r, "move") \/ Goto(r, "record")
      BY <2>5, Zenon DEF Record
    <3> QED  BY <2>1, <3>1
  <2>6. CASE Move(r) \/ MarkFailed(r) \/ MarkApplied(r)
    <3>1. \/ \E a : Reply(r, a)
          \/ Goto(r, "markApplied") \/ Goto(r, "markFailed") \/ Goto(r, "checkClosed")
      BY <2>6, Zenon DEF Move, MoveIf, MarkFailed, MarkApplied
    <3> QED  BY <2>1, <3>1
  <2> QED  BY <2>2, <2>3, <2>4, <2>5, <2>6 DEF Executor
<1>3. ExecStep
  BY <1>1, <1>2 DEF ExecStep, Alone
<1>4. CASE MarkFailed(r) \/ MarkApplied(r)
  BY <1>2, <1>3, <1>4, ForwardSettle DEF MarkFailed, MarkApplied, hist
<1>5. CASE Record(r)
  <2>1. UNCHANGED rows \/ \E c : c \notin DOMAIN rows[r] /\ InsertRow(r, c)
    BY <1>5 DEF Record
  <2>2. \A q \in Request : /\ HasRows(q) => HasRows(q)'
                           /\ Says(q, "failed") => Says(q, "failed")'
    BY <2>1, RecordWrites DEF HasRows, Says, CoreInv, Shape
  <2> QED  BY <1>2, <1>3, <1>5, <2>2 DEF Forward, ExecStep, Record, hist, Keeps
<1>6. CASE Enter(r) \/ Lookup(r) \/ Quote(r) \/ Move(r) \/ CheckClosed(r) \/ Die(r)
  <2>1. UNCHANGED rows /\ moved \subseteq moved'
    BY <1>6 DEF Enter, Lookup, Quote, Move, MoveIf, CheckClosed, Die, store, hist
  <2> QED  BY <1>2, <1>3, <2>1 DEF Forward, ExecStep, HasRows, Says, Keeps
<1> QED  BY <1>2, <1>4, <1>5, <1>6 DEF Executor

LEMMA ForwardOther ==
  ASSUME CoreInv,
         \/ \E h \in Healer : Heal(h) \/ HealerDie(h)
         \/ \E r \in Request : Overtake(r) \/ Expire(r)
         \/ ChangeRate \/ SwitchDefensive
         \/ UNCHANGED vars
  PROVE  Forward /\ UNCHANGED <<client, exec, hist>>
<1>1. CASE \E h \in Healer : HealMark(h)
  <2>1. PICK h \in Healer : HealMark(h)
    BY <1>1
  <2>2. healer[h].marker \in Request
    BY <2>1 DEF CoreInv, Verdicts, Right, HealMark
  <2>3. PICK s : Settle(healer[h].marker, s)
    BY <2>1 DEF HealMark
  <2>4. UNCHANGED <<client, exec, hist>>
    BY <2>1 DEF HealMark
  <2>5. ExecStep /\ UNCHANGED moved
    BY <2>4 DEF ExecStep, hist
  <2> QED  BY <2>2, <2>3, <2>4, <2>5, ForwardSettle
<1>2. CASE UNCHANGED <<client, exec, rows, hist>>
  BY <1>2 DEF Forward, Keeps, HasRows, Says, hist
<1> QED  BY <1>1, <1>2 DEF Heal, HealPick, HealEvidence, HealBury, CompactRead,
         CompactFilter, CompactPull, PruneRead, PrunePull, HealerDie, Overtake,
         Expire, ChangeRate, SwitchDefensive, vars, store

-----------------------------------------------------------------------------
(* The identities                                                          *)

\* A step that draws no op_id.
LEMMA IdentitiesKept ==
  ASSUME Identities, IdentityFollowsIntent, UNCHANGED drawn,
         DOMAIN card' = DOMAIN card,
         card'.op = NoOp \/ (card'.op = card.op /\ card'.intent = card.intent),
         \A r \in Request : Keeps(r),
         \A r \in Request : exec'[r].at = "unsent" => exec[r].at = "unsent",
         \A r \in Request : exec'[r].at = "lookup" =>
                              exec[r].at = "lookup" \/ exec[r].op # NoOp
  PROVE  Identities' /\ IdentityFollowsIntent'
<1>1. Identities'
  BY DEF Identities, Keeps
<1>2. IdentityFollowsIntent'
  BY DEF IdentityFollowsIntent, SameOp, Keeps
<1> QED  BY <1>1, <1>2

\* What a step of the browser does to the requests, except Submit.
LEMMA BrowserWrites ==
  ASSUME CoreInv, DOMAIN card = {"open", "intent", "op", "waiting"}, Browser,
         ~(\E r \in Request : Submit(r))
  PROVE  /\ UNCHANGED <<rows, moved, drawn>>
         /\ \A r \in Request :
              /\ Keeps(r)
              /\ \/ exec'[r] = exec[r]
                 \/ exec[r].at = "unsent" /\ exec'[r].at = "sent"
                 \/ exec[r].at = "answered" /\ exec'[r].at = "gone"
         /\ DOMAIN card' = DOMAIN card
         /\ card'.op = NoOp \/ (card'.op = card.op /\ card'.intent = card.intent)
         /\ \/ UNCHANGED told
            \/ \E r \in Request :
                 /\ told' = [told EXCEPT ![r] = Claim(exec[r].answer)]
                 /\ exec[r].at = "answered" /\ exec'[r].at = "gone"
<1>0. ExecShape
  BY DEF CoreInv, Shape, ExecShape
<1>a. \A r : /\ DOMAIN Closed(r) = {"open", "intent", "op", "waiting"}
             /\ Closed(r).op = NoOp
  BY DEF Closed
<1>1. CASE OpenCard \/ EditCard \/ CloseCard
  <2>1. /\ DOMAIN card' = DOMAIN card /\ card'.op = NoOp
        /\ UNCHANGED <<exec, rows, moved, drawn, told>>
    BY <1>1, <1>a DEF OpenCard, EditCard, CloseCard, store, hist
  <2> QED  BY <2>1 DEF Keeps
<1>2. CASE Reload
  <2>1. \A r \in Request : exec'[r] =
          IF exec[r].at = "answered" THEN Gone(r)[r] ELSE exec[r]
    BY <1>2 DEF Reload
  <2>2. \A r \in Request : /\ Gone(r)[r].at = "gone"
                           /\ Gone(r)[r].op = exec[r].op
                           /\ Gone(r)[r].intent = exec[r].intent
    BY <1>0 DEF ExecShape, Gone, Field
  <2>3. /\ DOMAIN card' = DOMAIN card /\ card'.op = NoOp
        /\ UNCHANGED <<rows, moved, drawn, told>>
    BY <1>2, <1>a DEF Reload, store, hist
  <2> QED  BY <2>1, <2>2, <2>3 DEF Keeps
<1>3. ASSUME NEW r \in Request, SubmitSweep(r)
      PROVE  /\ Alone(r) /\ Keeps(r)
             /\ exec[r].at = "unsent" /\ exec'[r].at = "sent"
             /\ UNCHANGED <<card, rows, moved, drawn, told>>
  <2>1. exec' = [exec EXCEPT ![r] = [@ EXCEPT !.at = "sent", !.kind = "dust",
                                              !.quoted = Preview]]
    BY <1>3 DEF SubmitSweep
  <2> QED  BY <1>0, <1>3, <2>1 DEF SubmitSweep, store, hist, Alone, Keeps,
              ExecShape, Field
<1>4. ASSUME NEW r \in Request, OnAnswer(r) \/ OnSweepAnswer(r)
      PROVE  /\ Alone(r) /\ Keeps(r)
             /\ exec[r].at = "answered" /\ exec'[r].at = "gone"
             /\ UNCHANGED <<rows, moved, drawn>>
             /\ told' = [told EXCEPT ![r] = Claim(exec[r].answer)]
             /\ DOMAIN card' = DOMAIN card
             /\ card'.op = NoOp \/ (card'.op = card.op /\ card'.intent = card.intent)
  <2>1. exec' = Gone(r) /\ exec[r].at = "answered"
    BY <1>4 DEF OnAnswer, OnSweepAnswer
  <2>2. Alone(r) /\ Keeps(r) /\ exec'[r].at = "gone"
    BY <1>0, <2>1, GoneWrites
  <2>3. /\ UNCHANGED <<rows, moved, drawn>>
        /\ told' = [told EXCEPT ![r] = Claim(exec[r].answer)]
    BY <1>4 DEF OnAnswer, OnSweepAnswer, store
  <2>4. CASE OnAnswer(r)
    <3>1. \/ card' = Closed(NoRequest)
          \/ card' = [card EXCEPT !.waiting = NoRequest,
               !.op = IF exec[r].answer \in Unresolved THEN @ ELSE NoOp]
      BY <2>4, Zenon DEF OnAnswer
    <3> QED  BY <1>a, <2>1, <2>2, <2>3, <3>1
  <2>5. CASE OnSweepAnswer(r)
    BY <2>1, <2>2, <2>3, <2>5 DEF OnSweepAnswer
  <2> QED  BY <1>4, <2>4, <2>5
<1>5. ASSUME NEW r \in Request, OnSilence(r) \/ OnSweepSilence(r)
      PROVE  /\ Alone(r) /\ Keeps(r)
             /\ exec'[r] = exec[r] \/ (exec[r].at = "answered" /\ exec'[r].at = "gone")
             /\ UNCHANGED <<rows, moved, drawn, told>>
             /\ DOMAIN card' = DOMAIN card
             /\ card'.op = card.op /\ card'.intent = card.intent
  <2>1. Unheard(r)
    BY <1>5 DEF OnSilence, OnSweepSilence
  <2>2. exec' = exec \/ (exec[r].at = "answered" /\ exec' = Gone(r))
    BY <2>1, Zenon DEF Unheard
  <2>3. /\ Alone(r) /\ Keeps(r)
        /\ exec'[r] = exec[r] \/ (exec[r].at = "answered" /\ exec'[r].at = "gone")
    BY <1>0, <2>2, GoneWrites DEF Alone, Keeps
  <2>4. card' = [card EXCEPT !.waiting = NoRequest] \/ UNCHANGED card
    BY <1>5 DEF OnSilence, OnSweepSilence
  <2> QED  BY <1>5, <2>3, <2>4 DEF OnSilence, OnSweepSilence, store, hist
<1>6. CASE \E r \in Request : SubmitSweep(r)
  BY <1>3, <1>6 DEF Alone, Keeps
<1>7. CASE \E r \in Request : OnAnswer(r) \/ OnSweepAnswer(r)
  BY <1>4, <1>7 DEF Alone, Keeps
<1>8. CASE \E r \in Request : OnSilence(r) \/ OnSweepSilence(r)
  BY <1>5, <1>8 DEF Alone, Keeps
<1> QED  BY <1>1, <1>2, <1>6, <1>7, <1>8 DEF Browser

\* Submit draws an op_id or uses the one kept with the form.
LEMMA SubmitWrites ==
  ASSUME CoreInv, DOMAIN card = {"open", "intent", "op", "waiting"},
         NEW r \in Request, Submit(r)
  PROVE  /\ Alone(r) /\ exec[r].at = "unsent" /\ exec'[r].at = "sent"
         /\ exec'[r].op \in IF card.op = NoOp THEN OpId \ drawn ELSE {card.op}
         /\ exec'[r].intent = card.intent
         /\ drawn' = drawn \cup {exec'[r].op}
         /\ DOMAIN card' = DOMAIN card
         /\ card'.op = exec'[r].op /\ card'.intent = card.intent
         /\ UNCHANGED <<rows, moved, told>>
<1>0. ExecShape
  BY DEF CoreInv, Shape, ExecShape
<1>1. PICK op \in IF card.op = NoOp THEN OpId \ drawn ELSE {card.op} :
        /\ card' = [card EXCEPT !.op = op, !.waiting = r]
        /\ drawn' = drawn \cup {op}
        /\ exec' = [exec EXCEPT ![r] =
             [@ EXCEPT !.at = "sent", !.kind = "convert", !.op = op,
                       !.intent = card.intent, !.quoted = world.rate]]
  BY DEF Submit
<1>2. /\ Alone(r) /\ exec'[r].at = "sent" /\ exec'[r].op = op
      /\ exec'[r].intent = card.intent
  BY <1>0, <1>1 DEF ExecShape, Alone, Field
<1> QED  BY <1>1, <1>2 DEF Submit, store

LEMMA IdentitiesNext ==
  ASSUME CoreInv, Identities, IdentityFollowsIntent, [Next]_vars
  PROVE  Identities' /\ IdentityFollowsIntent'
<1>1. CASE \E r \in Request : Submit(r)
  <2>1. PICK r \in Request : Submit(r)
    BY <1>1
  <2>2. /\ Alone(r) /\ exec'[r].at = "sent"
        /\ exec'[r].op \in IF card.op = NoOp THEN OpId \ drawn ELSE {card.op}
        /\ exec'[r].intent = card.intent
        /\ drawn' = drawn \cup {exec'[r].op}
        /\ DOMAIN card' = DOMAIN card
        /\ card'.op = exec'[r].op /\ card'.intent = card.intent
    BY <2>1, SubmitWrites DEF Identities
  <2>3. /\ exec'[r].op # NoOp /\ exec'[r].op \in OpId
        /\ \A q \in Request : exec[q].op = exec'[r].op => exec[q].intent = card.intent
    BY <2>2, ConversionsAssumption DEF Identities
  <2>4. Identities'
    BY <2>2, <2>3 DEF Identities, Alone
  <2>5. IdentityFollowsIntent'
    BY <2>2, <2>3 DEF IdentityFollowsIntent, SameOp, Alone
  <2> QED  BY <2>4, <2>5
<1>2. CASE Browser /\ ~(\E r \in Request : Submit(r))
  BY <1>2, BrowserWrites, IdentitiesKept DEF Identities
<1>3. ASSUME NEW r \in Request, Executor(r)
      PROVE  Identities' /\ IdentityFollowsIntent'
  <2>1. Alone(r) /\ Keeps(r) /\ exec'[r].at # "unsent"
    BY <1>3, ForwardServer
  <2>2. UNCHANGED <<card, drawn>>
    BY <1>3 DEF Executor, Enter, Lookup, Quote, Record, Move, MoveIf, MarkFailed,
       CheckClosed, MarkApplied, Die, client, hist
  <2>3. exec'[r].at = "lookup" => exec[r].at = "lookup" \/ exec[r].op # NoOp
    <3>0. ExecShape
      BY DEF CoreInv, Shape, ExecShape
    <3>1. CASE Enter(r)
      <4>1. \/ \E a : Reply(r, a)
            \/ exec' = [exec EXCEPT ![r] =
                 [@ EXCEPT !.at = IF exec[r].op = NoOp THEN "quote" ELSE "lookup",
                           !.seen = funds]]
        BY <3>1, Zenon DEF Enter
      <4>2. CASE \E a : Reply(r, a)
        BY <3>0, <4>2, ReplyWrites
      <4>3. CASE exec' = [exec EXCEPT ![r] =
                 [@ EXCEPT !.at = IF exec[r].op = NoOp THEN "quote" ELSE "lookup",
                           !.seen = funds]]
        BY <3>0, <4>3 DEF ExecShape, Field
      <4> QED  BY <4>1, <4>2, <4>3
    <3>2. CASE Quote(r)
      <4>2. \/ \E a : Reply(r, a)
            \/ exec'[r].at = "record"
        <5> DEFINE p == IF exec[r].kind = "convert"
                          THEN ConvertPlan(exec[r].intent, world.rate)
                          ELSE SweepPlan(exec[r].seen, world.rate)
        <5>1. \/ \E a : Reply(r, a)
              \/ exec' = [exec EXCEPT ![r] =
                   [@ EXCEPT !.at = "record", !.plan = p, !.quoted = 0,
                             !.seen = Opening]]
          BY <3>2, Zenon DEF Quote
        <5> HIDE DEF p
        <5> QED  BY <3>0, <5>1 DEF ExecShape, Field
      <4> QED  BY <3>0, <4>2, ReplyWrites
    <3>3. CASE ~Enter(r) /\ ~Quote(r)
      <4>1. \/ \E a : Reply(r, a)
            \/ exec' = Gone(r)
            \/ \E s \in {"quote", "record", "move", "markFailed", "markApplied",
                         "checkClosed"} : Goto(r, s)
        <5>1. CASE Lookup(r) \/ CheckClosed(r) \/ Die(r)
          BY <5>1, Zenon DEF Lookup, CheckClosed, Die
        <5>2. CASE Record(r)
          BY <5>2, Zenon DEF Record
        <5>3. CASE Move(r) \/ MarkFailed(r) \/ MarkApplied(r)
          BY <5>3, Zenon DEF Move, MoveIf, MarkFailed, MarkApplied
        <5> QED  BY <1>3, <3>3, <5>1, <5>2, <5>3 DEF Executor
      <4> QED  BY <3>0, <4>1, ReplyWrites, GoneWrites, GotoWrites
    <3> QED  BY <3>1, <3>2, <3>3
  <2> QED  BY <2>1, <2>2, <2>3, IdentitiesKept DEF Alone, Keeps
<1>4. CASE \/ \E h \in Healer : Heal(h) \/ HealerDie(h)
           \/ \E r \in Request : Overtake(r) \/ Expire(r)
           \/ ChangeRate \/ SwitchDefensive
           \/ UNCHANGED vars
  <2>1. UNCHANGED <<client, exec, hist>>
    BY <1>4, ForwardOther
  <2> QED  BY <2>1, IdentitiesKept DEF client, hist, Keeps
<1> QED  BY <1>1, <1>2, <1>3, <1>4, Zenon DEF Next, Environment

-----------------------------------------------------------------------------
(* The rows of an identity and the answers                                 *)

LEMMA OneRowNext ==
  ASSUME CoreInv, Identities, OneRowPerIdentity, [Next]_vars
  PROVE  OneRowPerIdentity'
<1>1. CASE \E r \in Request : Executor(r)
  <2>1. PICK r \in Request : Executor(r)
    BY <1>1
  <2>2. \A q \in Request : Keeps(q)
    BY <2>1, ForwardServer DEF Alone, Keeps
  <2>3. CASE Record(r) /\ ~UNCHANGED rows
    <3>1. PICK c : c \notin DOMAIN rows[r] /\ InsertRow(r, c)
      BY <2>3 DEF Record
    <3>2. exec[r].op = NoOp \/ RowOf(exec[r].op) = {}
      BY <2>3 DEF Record
    <3>3. \A q \in Request \ {r} : HasRows(q)' => HasRows(q)
      BY <3>1, RecordWrites DEF HasRows, CoreInv, Shape
    <3>4. \A q \in Request \ {r} : HasRows(q) => ~SameOp(q, r)
      BY <3>2 DEF RowOf, HasRows, SameOp
    <3> QED  BY <2>2, <3>3, <3>4 DEF OneRowPerIdentity, SameOp, Keeps
  <2>4. CASE ~Record(r) \/ UNCHANGED rows
    <3>1. UNCHANGED rows \/ \E s : Settle(r, s)
      BY <2>1, <2>4 DEF Executor, Enter, Lookup, Quote, Move, MoveIf, MarkFailed,
         CheckClosed, MarkApplied, Die, store
    <3>2. \A q \in Request : HasRows(q)' = HasRows(q)
      BY <3>1, SettleWrites DEF HasRows, CoreInv, Shape
    <3> QED  BY <2>2, <3>2 DEF OneRowPerIdentity, SameOp, Keeps
  <2> QED  BY <2>3, <2>4
<1>2. CASE \E r \in Request : Submit(r)
  <2>1. PICK r \in Request : Submit(r)
    BY <1>2
  <2>2. Alone(r) /\ exec[r].at = "unsent" /\ UNCHANGED rows
    BY <2>1, SubmitWrites DEF Identities
  <2>3. ~HasRows(r)
    BY <2>2 DEF CoreInv, Progress, Early
  <2> QED  BY <2>2, <2>3 DEF OneRowPerIdentity, HasRows, SameOp, Alone
<1>3. CASE Browser /\ ~(\E r \in Request : Submit(r))
  <2>1. UNCHANGED rows /\ \A r \in Request : Keeps(r)
    BY <1>3, BrowserWrites DEF Identities
  <2> QED  BY <2>1 DEF OneRowPerIdentity, HasRows, SameOp, Keeps
<1>4. CASE \/ \E h \in Healer : Heal(h) \/ HealerDie(h)
           \/ \E r \in Request : Overtake(r) \/ Expire(r)
           \/ ChangeRate \/ SwitchDefensive
           \/ UNCHANGED vars
  <2>1. UNCHANGED exec
    BY <1>4, ForwardOther
  <2>2. UNCHANGED rows \/ \E h \in Healer : HealMark(h)
    BY <1>4 DEF Heal, HealPick, HealEvidence, HealBury, CompactRead,
       CompactFilter, CompactPull, PruneRead, PrunePull, HealerDie, Overtake,
       Expire, ChangeRate, SwitchDefensive, vars, store
  <2>3. UNCHANGED rows \/ \E r \in Request : \E s : Settle(r, s)
    BY <2>2 DEF HealMark, CoreInv, Verdicts, Right
  <2>4. \A q \in Request : HasRows(q)' = HasRows(q)
    BY <2>3, SettleWrites DEF HasRows, CoreInv, Shape
  <2> QED  BY <2>1, <2>4 DEF OneRowPerIdentity, SameOp
<1> QED  BY <1>1, <1>2, <1>3, <1>4, Zenon DEF Next, Environment

\* A claim about a request that was sent is not undone.
LEMMA ClaimsStay ==
  ASSUME CoreInv, Forward, NEW r \in Request, exec[r].at # "unsent",
         NEW claim, Claimed(r, claim)
  PROVE  Claimed(r, claim)'
<1>1. \A q \in Request : q \in moved \/ HasRows(q) =>
        exec[q].at # "unsent"
  BY DEF CoreInv, Progress, Early
<1>2. \A q \in Request : Says(q, "failed") => HasRows(q)
  BY DEF Says, HasRows
<1>3. ASSUME claim = "moved"
      PROVE  \E q \in moved' : SameOp(q, r)' /\ exec'[q].intent = exec'[r].intent
  <2>1. PICK q \in moved : SameOp(q, r) /\ exec[q].intent = exec[r].intent
    BY <1>3 DEF Claimed
  <2>2. q \in Request /\ exec[q].at # "unsent"
    BY <1>1 DEF CoreInv, Shape
  <2> QED  BY <2>1, <2>2 DEF Forward, Keeps, SameOp
<1>4. ASSUME claim = "closed"
      PROVE  \E q \in Request : SameOp(q, r)' /\ Says(q, "failed")'
  <2>1. PICK q \in Request : SameOp(q, r) /\ Says(q, "failed")
    BY <1>4 DEF Claimed
  <2>2. exec[q].at # "unsent"
    BY <1>1, <1>2, <2>1
  <2> QED  BY <2>1, <2>2 DEF Forward, Keeps, SameOp
<1> QED  BY <1>3, <1>4 DEF Claimed

\* An answer the executor writes is true.
LEMMA AnswerTrue ==
  ASSUME CoreInv, Identities, Answers, NEW r \in Request, Executor(r),
         exec'[r].at = "answered"
  PROVE  Claimed(r, Claim(exec'[r].answer))
<1>0. ExecShape
  BY DEF CoreInv, Shape, ExecShape
<1>a. \A a : Reply(r, a) => exec'[r].answer = a
  BY <1>0, ReplyWrites
<1>b. /\ Claim("refused") = "discarded" /\ Claim("quoteChanged") = "discarded"
      /\ Claim("reused") = "discarded" /\ Claim("inProgress") = "nothing"
      /\ Claim("closed") = "closed" /\ Claim("expired") = "closed"
      /\ Claim("insufficient") = "closed"
      /\ Claim("receipt") = "moved" /\ Claim("done") = "moved"
  BY DEF Claim, Success, Terminal
<1>c. ASSUME NEW a \in {"refused", "quoteChanged", "reused", "inProgress"},
             Reply(r, a)
      PROVE  Claimed(r, Claim(exec'[r].answer))
  BY <1>a, <1>b, <1>c DEF Claimed
<1>1. CASE Enter(r)
  <2>1. \/ Reply(r, "refused")
        \/ exec' = [exec EXCEPT ![r] =
             [@ EXCEPT !.at = IF exec[r].op = NoOp THEN "quote" ELSE "lookup",
                       !.seen = funds]]
    BY <1>1, Zenon DEF Enter
  <2>2. ~(exec' = [exec EXCEPT ![r] =
             [@ EXCEPT !.at = IF exec[r].op = NoOp THEN "quote" ELSE "lookup",
                       !.seen = funds]])
    BY <1>0 DEF ExecShape, Field
  <2> QED  BY <1>c, <2>1, <2>2
<1>2. CASE Quote(r)
  <2> DEFINE p == IF exec[r].kind = "convert"
                    THEN ConvertPlan(exec[r].intent, world.rate)
                    ELSE SweepPlan(exec[r].seen, world.rate)
  <2>1. \/ Reply(r, "refused") \/ Reply(r, "quoteChanged")
        \/ exec' = [exec EXCEPT ![r] = [@ EXCEPT !.at = "record", !.plan = p,
                                !.quoted = 0, !.seen = Opening]]
    BY <1>2, Zenon DEF Quote
  <2> HIDE DEF p
  <2>2. ~(exec' = [exec EXCEPT ![r] = [@ EXCEPT !.at = "record", !.plan = p,
                                !.quoted = 0, !.seen = Opening]])
    BY <1>0 DEF ExecShape, Field
  <2> QED  BY <1>c, <2>1, <2>2
<1>3. CASE Lookup(r)
  <2>1. CASE RowOf(exec[r].op) = {}
    <3>1. Goto(r, "quote")
      BY <1>3, <2>1, Zenon DEF Lookup
    <3> QED  BY <1>0, <3>1, GotoWrites
  <2>2. CASE RowOf(exec[r].op) # {}
    <3>1. PICK p \in RowOf(exec[r].op) :
            Reply(r, IF Applying(p) THEN "inProgress"
                     ELSE IF \E c \in DOMAIN rows[p] : rows[p][c] = "failed"
                       THEN "closed"
                     ELSE IF exec[p].intent = exec[r].intent THEN "receipt"
                     ELSE "reused")
      BY <1>3, <2>2, Zenon DEF Lookup
    <3>2. p \in Request /\ SameOp(p, r) /\ HasRows(p)
      BY <1>3 DEF RowOf, SameOp, HasRows, Lookup, Identities
    <3>3. CASE Applying(p)
      <4>1. Reply(r, "inProgress")
        BY <3>1, <3>3
      <4> QED  BY <1>c, <4>1
    <3>4. CASE ~Applying(p) /\ Says(p, "failed")
      <4>1. Reply(r, "closed")
        BY <3>1, <3>4 DEF Says
      <4> QED  BY <1>a, <1>b, <3>2, <3>4, <4>1 DEF Claimed
    <3>5. CASE ~Applying(p) /\ ~Says(p, "failed") /\ exec[p].intent = exec[r].intent
      <4>1. Reply(r, "receipt")
        BY <3>1, <3>5 DEF Says
      <4>2. Says(p, "applied")
        BY <3>2, <3>5 DEF HasRows, Says, Applying, CoreInv, Shape, RowStatus
      <4>3. p \in moved
        BY <3>2, <4>2 DEF CoreInv, Truth
      <4> QED  BY <1>a, <1>b, <3>2, <3>5, <4>1, <4>3 DEF Claimed
    <3>6. CASE ~Applying(p) /\ ~Says(p, "failed") /\ exec[p].intent # exec[r].intent
      <4>1. Reply(r, "reused")
        BY <3>1, <3>6 DEF Says
      <4> QED  BY <1>c, <4>1
    <3> QED  BY <3>3, <3>4, <3>5, <3>6
  <2> QED  BY <2>1, <2>2
<1>4. CASE Record(r)
  <2>1. Reply(r, "inProgress") \/ Goto(r, "move") \/ Goto(r, "record")
    BY <1>4, Zenon DEF Record
  <2> QED  BY <1>0, <1>c, <2>1, GotoWrites
<1>5. CASE CheckClosed(r)
  <2>1. Reply(r, "expired") \/ Reply(r, "insufficient")
    BY <1>5, Zenon DEF CheckClosed
  <2>2. SameOp(r, r) /\ Says(r, "failed")
    BY <1>5 DEF CheckClosed, Answers, SameOp
  <2>3. Claim(exec'[r].answer) = "closed"
    BY <1>a, <1>b, <2>1
  <2> QED  BY <2>2, <2>3 DEF Claimed
<1>6. CASE MarkApplied(r)
  <2>1. Reply(r, "done") /\ exec[r].at = "markApplied"
    BY <1>6 DEF MarkApplied
  <2>2. SameOp(r, r) /\ r \in moved
    BY <2>1 DEF SameOp, CoreInv, Progress
  <2>3. Claim(exec'[r].answer) = "moved"
    BY <1>a, <1>b, <2>1
  <2> QED  BY <2>2, <2>3 DEF Claimed
<1>7. CASE Move(r) \/ MarkFailed(r) \/ Die(r)
  <2>1. exec' = Gone(r) \/ \E s \in {"markApplied", "markFailed", "checkClosed"} : Goto(r, s)
    BY <1>7, Zenon DEF Move, MoveIf, MarkFailed, Die
  <2> QED  BY <1>0, <2>1, GoneWrites, GotoWrites
<1> QED  BY <1>1, <1>2, <1>3, <1>4, <1>5, <1>6, <1>7 DEF Executor

\* What the browser was told, and what an executor is about to tell it, stays
\* true in a step that writes no answer of its own.
LEMMA AnswersStay ==
  ASSUME CoreInv, Answers, Forward, DOMAIN told' = Request,
         NEW r \in Request,
         exec'[r].at = "unsent" => exec[r].at = "unsent",
         exec'[r].at = "answered" =>
           \/ exec[r].at = "answered" /\ exec'[r].answer = exec[r].answer
           \/ exec[r].at # "unsent" /\ Claimed(r, Claim(exec'[r].answer)),
         exec'[r].at = "checkClosed" => Says(r, "failed")',
         \/ told'[r] = told[r]
         \/ /\ exec[r].at = "answered" /\ exec'[r].at # "unsent"
            /\ told'[r] = Claim(exec[r].answer)
  PROVE  /\ exec'[r].at = "answered" => Claimed(r, Claim(exec[r].answer))'
         /\ exec'[r].at = "unsent" => told'[r] = "nothing"
         /\ Claimed(r, told[r])'
<1>1. exec'[r].at = "answered" => Claimed(r, Claim(exec[r].answer))'
  <2> SUFFICES ASSUME exec'[r].at = "answered"
               PROVE  Claimed(r, Claim(exec[r].answer))'
    OBVIOUS
  <2>1. PICK claim : claim = Claim(exec'[r].answer)
    OBVIOUS
  <2>2. exec[r].at # "unsent" /\ Claimed(r, claim)
    BY <2>1 DEF Answers
  <2>3. Claimed(r, claim)'
    BY <2>2, ClaimsStay
  <2> QED  BY <2>1, <2>3 DEF Claimed
<1>2. Claimed(r, told[r])'
  <2>1. PICK claim : claim = told'[r]
    OBVIOUS
  <2>2. CASE exec[r].at = "unsent"
    <3>1. claim = "nothing"
      BY <2>1, <2>2 DEF Answers
    <3> QED  BY <2>1, <3>1 DEF Claimed
  <2>3. CASE exec[r].at # "unsent"
    <3>1. Claimed(r, claim)
      BY <2>1 DEF Answers
    <3>2. Claimed(r, claim)'
      BY <2>3, <3>1, ClaimsStay
    <3> QED  BY <2>1, <3>2 DEF Claimed
  <2> QED  BY <2>2, <2>3
<1>3. exec'[r].at = "unsent" => told'[r] = "nothing"
  BY DEF Answers
<1> QED  BY <1>1, <1>2, <1>3

\* The calls before the row exists do not lead to the check of a closed one.
LEMMA NotClosing ==
  ASSUME ExecShape, NEW r \in Request,
         Enter(r) \/ Lookup(r) \/ Quote(r) \/ CheckClosed(r) \/ Die(r)
  PROVE  exec'[r].at # "checkClosed"
<1>1. CASE Enter(r)
  <2>1. \/ \E a : Reply(r, a)
        \/ exec' = [exec EXCEPT ![r] =
             [@ EXCEPT !.at = IF exec[r].op = NoOp THEN "quote" ELSE "lookup",
                       !.seen = funds]]
    BY <1>1, Zenon DEF Enter
  <2>2. CASE \E a : Reply(r, a)
    BY <2>2, ReplyWrites
  <2>3. CASE exec' = [exec EXCEPT ![r] =
             [@ EXCEPT !.at = IF exec[r].op = NoOp THEN "quote" ELSE "lookup",
                       !.seen = funds]]
    BY <2>3 DEF ExecShape, Field
  <2> QED  BY <2>1, <2>2, <2>3
<1>2. CASE Quote(r)
  <2> DEFINE p == IF exec[r].kind = "convert"
                    THEN ConvertPlan(exec[r].intent, world.rate)
                    ELSE SweepPlan(exec[r].seen, world.rate)
  <2>1. \/ \E a : Reply(r, a)
        \/ exec' = [exec EXCEPT ![r] = [@ EXCEPT !.at = "record", !.plan = p,
                                !.quoted = 0, !.seen = Opening]]
    BY <1>2, Zenon DEF Quote
  <2> HIDE DEF p
  <2>2. CASE \E a : Reply(r, a)
    BY <2>2, ReplyWrites
  <2>3. CASE exec' = [exec EXCEPT ![r] = [@ EXCEPT !.at = "record", !.plan = p,
                                !.quoted = 0, !.seen = Opening]]
    BY <2>3 DEF ExecShape, Field
  <2> QED  BY <2>1, <2>2, <2>3
<1>3. CASE Lookup(r) \/ CheckClosed(r) \/ Die(r)
  <2>1. (\E a : Reply(r, a)) \/ exec' = Gone(r) \/ Goto(r, "quote")
    BY <1>3, Zenon DEF Lookup, CheckClosed, Die
  <2> QED  BY <2>1, ReplyWrites, GoneWrites, GotoWrites
<1> QED  BY <1>1, <1>2, <1>3

LEMMA AnswersNext ==
  ASSUME CoreInv, Identities, Answers, [Next]_vars
  PROVE  Answers'
<1>1. CASE \E r \in Request : Submit(r)
  <2>1. PICK r \in Request : Submit(r)
    BY <1>1
  <2>2. /\ Alone(r) /\ exec[r].at = "unsent" /\ exec'[r].at = "sent"
        /\ UNCHANGED <<rows, moved, told>>
    BY <2>1, SubmitWrites DEF Identities
  <2>3. Forward
    BY <2>2 DEF Forward, Alone, Keeps, HasRows, Says
  <2>4. \A q \in Request : /\ exec'[q].at = "unsent" => exec[q].at = "unsent"
                           /\ exec'[q].at = "answered" =>
                                /\ exec[q].at = "answered"
                                /\ exec'[q].answer = exec[q].answer
                           /\ exec'[q].at = "checkClosed" => Says(q, "failed")'
    BY <2>2, <2>3 DEF Alone, Answers, Forward
  <2> QED  BY <2>2, <2>3, <2>4, AnswersStay DEF Answers
<1>2. CASE Browser /\ ~(\E r \in Request : Submit(r))
  <2>1. /\ UNCHANGED <<rows, moved>>
        /\ \A r \in Request :
             /\ Keeps(r)
             /\ \/ exec'[r] = exec[r]
                \/ exec[r].at = "unsent" /\ exec'[r].at = "sent"
                \/ exec[r].at = "answered" /\ exec'[r].at = "gone"
        /\ \/ UNCHANGED told
           \/ \E r \in Request :
                /\ told' = [told EXCEPT ![r] = Claim(exec[r].answer)]
                /\ exec[r].at = "answered" /\ exec'[r].at = "gone"
    BY <1>2, BrowserWrites DEF Identities
  <2>2. Forward
    BY <2>1 DEF Forward, HasRows, Says
  <2>3. DOMAIN told' = Request
    BY <2>1 DEF Answers
  <2>4. \A q \in Request : \/ told'[q] = told[q]
                           \/ /\ exec[q].at = "answered" /\ exec'[q].at # "unsent"
                              /\ told'[q] = Claim(exec[q].answer)
    BY <2>1 DEF Answers
  <2>5. \A q \in Request : exec'[q].at = "checkClosed" => Says(q, "failed")'
    BY <2>1 DEF Answers, Says
  <2> QED  BY <2>1, <2>2, <2>3, <2>4, <2>5, AnswersStay DEF Answers
<1>3. CASE \E r \in Request : Executor(r)
  <2>1. PICK r \in Request : Executor(r)
    BY <1>3
  <2>2. Forward /\ Alone(r) /\ exec'[r].at # "unsent"
    BY <2>1, ForwardServer
  <2>3. UNCHANGED told
    BY <2>1 DEF Executor, Enter, Lookup, Quote, Record, Move, MoveIf, MarkFailed,
       CheckClosed, MarkApplied, Die, hist
  <2>4. exec[r].at # "unsent"
    BY <2>1 DEF Executor, Enter, Lookup, Quote, Record, Move, MoveIf, MarkFailed,
       CheckClosed, MarkApplied, Die, Live
  <2>5. exec'[r].at = "checkClosed" => Says(r, "failed")'
    <3>1. CASE MarkFailed(r)
      <4>1. /\ exec[r].at = "markFailed" /\ Settle(r, "failed")
        BY <3>1 DEF MarkFailed
      <4>2. PICK c \in DOMAIN rows[r] : rows[r][c] \in {"applying", "failed"}
        BY <4>1 DEF CoreInv, Progress, Truth, HasRows, Says, Shape, RowStatus
      <4> QED  BY <4>1, <4>2, SettleWrites DEF Says, CoreInv, Shape
    <3>2. CASE ~MarkFailed(r)
      <4>0. ExecShape
        BY DEF CoreInv, Shape, ExecShape
      <4>1. CoreInv'
        BY CoreNext
      <4>2. exec'[r].at # "checkClosed"
        <5>1. CASE Enter(r) \/ Lookup(r) \/ Quote(r) \/ CheckClosed(r) \/ Die(r)
          BY <5>1, <4>0, NotClosing
        <5>2. CASE Record(r) \/ Move(r) \/ MarkApplied(r)
          <6>1. \/ \E a : Reply(r, a)
                \/ \E s \in {"move", "record", "markApplied", "markFailed"} : Goto(r, s)
            BY <5>2, Zenon DEF Record, Move, MoveIf, MarkApplied
          <6> QED  BY <4>0, <6>1, ReplyWrites, GotoWrites
        <5> QED  BY <2>1, <3>2, <5>1, <5>2 DEF Executor
      <4> QED  BY <4>2
    <3> QED  BY <3>1, <3>2
  <2>6. \A q \in Request \ {r} : exec'[q].at = "checkClosed" => Says(q, "failed")'
    BY <2>2 DEF Alone, Answers, Forward
  <2>7. exec'[r].at = "answered" => Claimed(r, Claim(exec'[r].answer))
    BY <2>1, AnswerTrue
  <2>8. \A q \in Request :
          /\ exec'[q].at = "unsent" => exec[q].at = "unsent"
          /\ exec'[q].at = "answered" =>
               \/ exec[q].at = "answered" /\ exec'[q].answer = exec[q].answer
               \/ exec[q].at # "unsent" /\ Claimed(q, Claim(exec'[q].answer))
    BY <2>2, <2>4, <2>7 DEF Alone
  <2> QED  BY <2>2, <2>3, <2>5, <2>6, <2>8, AnswersStay DEF Answers
<1>4. CASE \/ \E h \in Healer : Heal(h) \/ HealerDie(h)
           \/ \E r \in Request : Overtake(r) \/ Expire(r)
           \/ ChangeRate \/ SwitchDefensive
           \/ UNCHANGED vars
  <2>1. Forward /\ UNCHANGED <<exec, told>>
    BY <1>4, ForwardOther DEF hist
  <2>2. \A q \in Request : exec'[q].at = "checkClosed" => Says(q, "failed")'
    BY <2>1 DEF Answers, Forward
  <2> QED  BY <2>1, <2>2, AnswersStay DEF Answers
<1> QED  BY <1>1, <1>2, <1>3, <1>4, Zenon DEF Next, Environment

-----------------------------------------------------------------------------
(* The theorems                                                            *)

\* The invariant behind the others: CoreInv for the money, the identities of
\* the converter, and the truth of every answer given or on its way.
THEOREM Invariance == Spec => []IInv
<1>1. Init => IInv
  <2> SUFFICES ASSUME Init PROVE IInv
    OBVIOUS
  <2>1. CoreInv
    BY CoreInit
  <2>2. Identities /\ IdentityFollowsIntent
    BY DEF Init, Identities, IdentityFollowsIntent, SameOp, Closed, Unsent
  <2>3. OneRowPerIdentity /\ Answers
    BY DEF Init, OneRowPerIdentity, HasRows, Answers, Claimed, Unsent
  <2> QED  BY <2>1, <2>2, <2>3 DEF IInv
<1>2. IInv /\ [Next]_vars => IInv'
  BY CoreNext, IdentitiesNext, OneRowNext, AnswersNext DEF IInv
<1> QED  BY <1>1, <1>2, PTL DEF Spec

\* What a row says of the money is true, whoever wrote it.
THEOREM RecordsHold == Spec => []RecordsTellTheTruth
<1>1. IInv => RecordsTellTheTruth
  BY DEF IInv, CoreInv, Truth, Says, Shut, RecordsTellTheTruth
<1> QED  BY <1>1, Invariance, PTL

\* The converter never sends an op_id with another intention.
THEOREM IdentitiesHold == Spec => []IdentityFollowsIntent
<1>1. IInv => IdentityFollowsIntent
  BY DEF IInv
<1> QED  BY <1>1, Invariance, PTL

\* However often an identity is retried, one request of it moves the money.
THEOREM OneMove == Spec => []OneMovePerIdentity
<1>1. IInv => OneMovePerIdentity
  BY DEF IInv, CoreInv, Shape, Progress, OneRowPerIdentity, OneMovePerIdentity
<1> QED  BY <1>1, Invariance, PTL

\* A success the browser received moved the money, and an attempt it was told
\* is closed never moves it.
THEOREM ReceiptsHold == Spec => []ReceiptsTellTheTruth
<1>1. ASSUME IInv, NEW r \in Request, told[r] = "moved"
      PROVE  \E q \in moved : SameOp(q, r) /\ exec[q].intent = exec[r].intent
  BY <1>1 DEF IInv, Answers, Claimed
<1>2. ASSUME IInv, NEW r \in Request, told[r] = "closed", NEW q \in moved, SameOp(q, r)
      PROVE  FALSE
  <2>1. PICK p \in Request : SameOp(p, r) /\ Says(p, "failed")
    BY <1>2 DEF IInv, Answers, Claimed
  <2>2. q \in Request /\ HasRows(q) /\ HasRows(p)
    BY <1>2, <2>1 DEF IInv, CoreInv, Shape, Progress, HasRows, Says
  <2>3. SameOp(p, q)
    BY <1>2, <2>1 DEF SameOp
  <2>4. p = q
    BY <1>2, <2>2, <2>3 DEF IInv, OneRowPerIdentity
  <2> QED  BY <1>2, <2>1, <2>4 DEF IInv, CoreInv, Truth, Shut
<1>3. IInv => ReceiptsTellTheTruth
  BY <1>1, <1>2 DEF ReceiptsTellTheTruth
<1> QED  BY <1>3, Invariance, PTL

-----------------------------------------------------------------------------
(* The amounts                                                             *)

Places == Live \cup {"unsent", "answered", "gone"}

Money == UNION {[S -> Nat] : S \in SUBSET Currency}

Plan == {p \in [to : Currency, out : Money, got : Money] : DOMAIN p.got = DOMAIN p.out}

Execution ==
  [at : Places, op : OpId \cup {NoOp}, kind : {"convert", "dust"}, intent : Intent,
   quoted : Nat, seen : [Currency -> Nat], plan : Plan, answer : Answer \cup {"none"}]

Running == exec \in [Request -> Execution]

Typed ==
  /\ card \in [open : BOOLEAN, intent : Intent, op : OpId \cup {NoOp},
               waiting : Request \cup {NoRequest}]
  /\ sweep \in Request \cup {NoRequest}
  /\ Running
  /\ funds \in [Currency -> Nat]
  /\ DOMAIN world = {"rate", "defensive", "changes"} /\ world.rate \in Rate
  /\ age \in [Request -> 0..2]
  /\ \A r \in Request : DOMAIN rows[r] \subseteq DOMAIN exec[r].plan.out
  /\ \A h \in Healer : healer[h].cand \subseteq Request

\* What a request changes of a balance, if it moves; and what those that moved
\* changed of it.
Change(c) == [r \in Request |-> Gain(exec[r].plan, c) - Cost(exec[r].plan, c)]

Explained == \A c \in Currency : funds[c] = Opening[c] + SumOn(Change(c), moved)

LEMMA MoneyIs ==
  ASSUME NEW f \in Money
  PROVE  DOMAIN f \subseteq Currency /\ \A c \in DOMAIN f : f[c] \in Nat
BY DEF Money

LEMMA MakesMoney ==
  ASSUME NEW S \in SUBSET Currency, NEW f \in [S -> Nat]
  PROVE  f \in Money /\ DOMAIN f = S
BY DEF Money

LEMMA TotalIsSum == ASSUME NEW f PROVE Total(f) = SumOn(f, DOMAIN f)
BY DEF Total, FoldFunction, FoldFunctionOnSet, SumOn, MapThenFoldSet

LEMMA TotalNat == ASSUME NEW f \in Money PROVE Total(f) \in Nat
<1>1. IsFiniteSet(DOMAIN f)
  BY MoneyIs, FS_Subset, ConversionsAssumption
<1> QED
  BY <1>1, MoneyIs, SumNat, TotalIsSum

LEMMA PlanIs ==
  ASSUME NEW p \in Plan
  PROVE  /\ p.to \in Currency /\ p.out \in Money /\ p.got \in Money
         /\ DOMAIN p.got = DOMAIN p.out
BY DEF Plan

\* What a plan takes and what it brings.
LEMMA Flows ==
  ASSUME NEW p \in Plan, NEW c \in Currency
  PROVE  Cost(p, c) \in Nat /\ Gain(p, c) \in Nat
<1>1. /\ \A d \in DOMAIN p.out : p.out[d] \in Nat
      /\ Total(p.got) \in Nat
  BY PlanIs, MoneyIs, TotalNat
<1> QED
  BY <1>1, ConversionsAssumption DEF Cost, Gain

LEMMA NoPlanIs == NoPlan \in Plan
<1>1. <<>> \in [{} -> Nat]
  OBVIOUS
<1>2. <<>> \in Money /\ DOMAIN <<>> = {}
  BY <1>1, MakesMoney
<1> QED
  BY <1>2, ConversionsAssumption DEF NoPlan, Plan

LEMMA ConvertPlanIs ==
  ASSUME NEW i \in Intent, NEW q \in Rate
  PROVE  ConvertPlan(i, q) \in Plan
<1> DEFINE out == [c \in {i.from} |-> i.amount]
           got == [c \in {i.from} |-> Yield[<<i, q>>]]
<1>1. /\ i.from \in Currency /\ i.to \in Currency /\ i.amount \in Nat
      /\ Yield[<<i, q>>] \in Nat
  BY ConversionsAssumption
<1>2. out \in Money /\ got \in Money /\ DOMAIN out = {i.from} /\ DOMAIN got = {i.from}
  BY <1>1, MakesMoney
<1>3. ConvertPlan(i, q) = [to |-> i.to, out |-> out, got |-> got]
  BY DEF ConvertPlan
<1> HIDE DEF out, got
<1> QED
  BY <1>1, <1>2, <1>3 DEF Plan

LEMMA SweepPlanIs ==
  ASSUME NEW b \in [Currency -> Nat], NEW q \in Rate
  PROVE  SweepPlan(b, q) \in Plan
<1> DEFINE S == Dust(b, q)
           out == [c \in S |-> b[c]]
           got == [c \in S |-> b[c] * q]
<1>1. S \subseteq Currency /\ q \in Nat
  BY ConversionsAssumption DEF Dust
<1>2. \A c \in S : b[c] \in Nat /\ b[c] * q \in Nat
  BY <1>1
<1> HIDE DEF S
<1>3. out \in [S -> Nat] /\ got \in [S -> Nat]
  BY <1>2
<1>4. out \in Money /\ got \in Money /\ DOMAIN out = S /\ DOMAIN got = S
  BY <1>1, <1>3, MakesMoney
<1>5. SweepPlan(b, q) = [to |-> Usdt, out |-> out, got |-> got]
  BY DEF SweepPlan, S
<1> HIDE DEF out, got
<1> QED
  BY <1>4, <1>5, ConversionsAssumption DEF Plan

\* The steps of an executor, as they are written.
LEMMA GotoTyped ==
  ASSUME Running, NEW r \in Request, NEW s \in Places, Goto(r, s)
  PROVE  Running' /\ \A q \in Request : exec'[q].plan = exec[q].plan
BY DEF Running, Goto, Execution

LEMMA GoneTyped ==
  ASSUME Running, NEW r \in Request
  PROVE  /\ Gone(r) \in [Request -> Execution]
         /\ \A q \in Request : Gone(r)[q].plan = exec[q].plan
<1>1. 0 \in Nat /\ "gone" \in Places /\ "none" \in Answer \cup {"none"}
  BY DEF Places
<1>2. Opening \in [Currency -> Nat]
  BY ConversionsAssumption
<1> QED
  BY <1>1, <1>2 DEF Running, Gone, Execution

LEMMA ReplyTyped ==
  ASSUME Running, NEW r \in Request, NEW a \in Answer, Reply(r, a)
  PROVE  Running' /\ \A q \in Request : exec'[q].plan = exec[q].plan
<1> DEFINE g == Gone(r)
<1>1. g \in [Request -> Execution] /\ \A q \in Request : g[q].plan = exec[q].plan
  BY GoneTyped
<1>2. exec' = g \/ exec' = [g EXCEPT ![r].at = "answered", ![r].answer = a]
  BY DEF Reply
<1>3. "answered" \in Places
  BY DEF Places
<1> HIDE DEF g
<1>4. CASE exec' = g
  BY <1>1, <1>4 DEF Running
<1>5. CASE exec' = [g EXCEPT ![r].at = "answered", ![r].answer = a]
  <2>1. PICK x : x = [[g[r] EXCEPT !.at = "answered"] EXCEPT !.answer = a]
    OBVIOUS
  <2>2. x \in Execution /\ x.plan = g[r].plan
    BY <1>1, <1>3, <2>1 DEF Execution
  <2>3. exec' = [g EXCEPT ![r] = x]
    BY <1>5, <2>1
  <2> QED
    BY <1>1, <2>2, <2>3 DEF Running
<1> QED
  BY <1>2, <1>4, <1>5

LEMMA AnswersAre ==
  {"done", "receipt", "inProgress", "reused", "closed", "expired", "insufficient",
   "quoteChanged", "refused"} \subseteq Answer
BY DEF Answer, Success, Unresolved, Terminal

\* The browser's steps leave the plans alone.
LEMMA BrowserTyped ==
  ASSUME Typed, Browser
  PROVE  /\ card' \in [open : BOOLEAN, intent : Intent, op : OpId \cup {NoOp},
                       waiting : Request \cup {NoRequest}]
         /\ sweep' \in Request \cup {NoRequest}
         /\ Running' /\ \A q \in Request : exec'[q].plan = exec[q].plan
         /\ UNCHANGED <<rows, funds, healer, age, world, moved>>
<1> DEFINE Card == [open : BOOLEAN, intent : Intent, op : OpId \cup {NoOp},
                    waiting : Request \cup {NoRequest}]
           Same == \A q \in Request : exec'[q].plan = exec[q].plan
           Rest == UNCHANGED <<rows, funds, healer, age, world, moved>>
<1>0. ASSUME NEW r \in Request \cup {NoRequest} PROVE Closed(r) \in Card
  BY ConversionsAssumption DEF Closed
<1>1. CASE OpenCard \/ EditCard \/ CloseCard
  <2>1. card' \in Card
    BY <1>0, <1>1 DEF Typed, OpenCard, EditCard, CloseCard
  <2>2. UNCHANGED <<sweep, exec, rows, funds, healer, age, world, moved>>
    BY <1>1 DEF OpenCard, EditCard, CloseCard, store, hist
  <2> QED
    BY <2>1, <2>2 DEF Typed, Running
<1>2. CASE Reload
  <2>1. \A q \in Request : /\ exec'[q] \in {Gone(q)[q], exec[q]}
                           /\ exec'[q] \in Execution
                           /\ exec'[q].plan = exec[q].plan
    BY <1>2, GoneTyped DEF Typed, Running, Reload
  <2>2. exec' = [q \in Request |-> exec'[q]]
    BY <1>2 DEF Reload
  <2>3. card' \in Card /\ sweep' = NoRequest /\ Rest
    BY <1>0, <1>2 DEF Reload, store, hist
  <2> QED
    BY <2>1, <2>2, <2>3 DEF Typed, Running
<1>3. ASSUME NEW r \in Request, Submit(r) PROVE card' \in Card /\ Running' /\ Same
  <2>1. PICK op \in OpId \cup {NoOp} :
          /\ card' = [card EXCEPT !.op = op, !.waiting = r]
          /\ exec' = [exec EXCEPT ![r] =
               [@ EXCEPT !.at = "sent", !.kind = "convert", !.op = op,
                         !.intent = card.intent, !.quoted = world.rate]]
    BY <1>3 DEF Submit, Typed
  <2>2. card' \in Card
    BY <2>1 DEF Typed
  <2>3. PICK x : x = [exec[r] EXCEPT !.at = "sent", !.kind = "convert", !.op = op,
                                     !.intent = card.intent, !.quoted = world.rate]
    OBVIOUS
  <2>4. world.rate \in Nat /\ "sent" \in Places /\ card.intent \in Intent
    BY ConversionsAssumption DEF Typed, Places, Live
  <2>5. x \in Execution /\ x.plan = exec[r].plan
    <3>1. exec[r] \in Execution
      BY DEF Typed, Running
    <3> QED
      BY <2>3, <2>4, <3>1 DEF Execution
  <2>6. exec' = [exec EXCEPT ![r] = x]
    BY <2>1, <2>3
  <2> QED
    BY <2>2, <2>5, <2>6 DEF Typed, Running
<1>4. ASSUME NEW r \in Request, SubmitSweep(r) PROVE Running' /\ Same
  <2>1. exec' = [exec EXCEPT ![r] = [@ EXCEPT !.at = "sent", !.kind = "dust",
                                              !.quoted = Preview]]
    BY <1>4 DEF SubmitSweep
  <2>2. Preview \in Nat
    <3>1. SweepPlan(funds, world.rate) \in Plan
      BY SweepPlanIs DEF Typed
    <3> QED
      BY <3>1, PlanIs, TotalNat DEF Preview
  <2>3. PICK x : x = [exec[r] EXCEPT !.at = "sent", !.kind = "dust", !.quoted = Preview]
    OBVIOUS
  <2>4. x \in Execution /\ x.plan = exec[r].plan
    <3>1. exec[r] \in Execution /\ "sent" \in Places
      BY DEF Typed, Running, Places, Live
    <3> QED
      BY <2>2, <2>3, <3>1 DEF Execution
  <2>5. exec' = [exec EXCEPT ![r] = x]
    BY <2>1, <2>3
  <2> QED
    BY <2>4, <2>5 DEF Typed, Running
<1>5. ASSUME NEW r \in Request,
             OnAnswer(r) \/ OnSilence(r) \/ OnSweepAnswer(r) \/ OnSweepSilence(r)
      PROVE  Running' /\ Same
  <2>1. exec' = exec \/ exec' = Gone(r)
    <3>1. exec' = Gone(r) \/ Unheard(r)
      BY <1>5, Zenon DEF OnAnswer, OnSilence, OnSweepAnswer, OnSweepSilence
    <3> QED
      BY <3>1, Zenon DEF Unheard
  <2> QED
    BY <2>1, GoneTyped DEF Typed, Running
<1>6. ASSUME NEW r \in Request, Submit(r) \/ SubmitSweep(r) \/ OnAnswer(r)
               \/ OnSilence(r) \/ OnSweepAnswer(r) \/ OnSweepSilence(r)
      PROVE  sweep' \in Request \cup {NoRequest} /\ Rest
  BY <1>6 DEF Typed, Submit, SubmitSweep, OnAnswer, OnSilence, OnSweepAnswer,
     OnSweepSilence, store, hist
<1>7. ASSUME NEW r \in Request, OnAnswer(r) \/ OnSilence(r) \/ OnSweepAnswer(r)
               \/ OnSweepSilence(r) \/ SubmitSweep(r)
      PROVE  card' \in Card
  <2>1. CASE OnAnswer(r)
    <3>1. \/ card' = Closed(NoRequest)
          \/ \E op \in {card.op, NoOp} : card' = [card EXCEPT !.waiting = NoRequest, !.op = op]
      BY <2>1 DEF OnAnswer
    <3>2. card \in Card
      BY DEF Typed
    <3>3. ASSUME NEW op \in {card.op, NoOp},
                 card' = [card EXCEPT !.waiting = NoRequest, !.op = op]
          PROVE  card' \in Card
      BY <3>2, <3>3
    <3> QED
      BY <1>0, <3>1, <3>3
  <2>2. CASE OnSilence(r) \/ OnSweepAnswer(r) \/ OnSweepSilence(r) \/ SubmitSweep(r)
    BY <2>2 DEF Typed, OnSilence, OnSweepAnswer, OnSweepSilence, SubmitSweep
  <2> QED
    BY <1>7, <2>1, <2>2
<1> HIDE DEF Card, Same, Rest
<1>8. card' \in Card /\ sweep' \in Request \cup {NoRequest} /\ Running' /\ Same /\ Rest
  BY <1>1, <1>2, <1>3, <1>4, <1>5, <1>6, <1>7, Zenon DEF Browser, Card, Same, Rest
<1> QED
  BY <1>8 DEF Card, Same, Rest

\* Only a quotation writes a plan.
LEMMA ExecutorTyped ==
  ASSUME Typed, NEW r \in Request, Executor(r)
  PROVE  /\ Running' /\ \A q \in Request : \/ exec'[q].plan = exec[q].plan
                                           \/ exec[q].at = "quote" /\ rows' = rows
         /\ UNCHANGED <<card, sweep, healer, age, world>>
<1>0. Running /\ Live \subseteq Places
  BY DEF Typed, Places
<1> DEFINE Same == \A q \in Request : exec'[q].plan = exec[q].plan
<1>1. ASSUME \/ \E a \in Answer : Reply(r, a)
             \/ exec' = Gone(r)
             \/ \E s \in Places : Goto(r, s)
      PROVE  Running' /\ Same
  <2>1. CASE exec' = Gone(r)
    BY <1>0, <2>1, GoneTyped DEF Running
  <2> QED
    BY <1>0, <1>1, <2>1, ReplyTyped, GotoTyped
<1>2. UNCHANGED <<card, sweep, healer, age, world>>
  BY DEF Executor, Enter, Lookup, Quote, Record, Move, MoveIf, MarkFailed, CheckClosed,
     MarkApplied, Die, client
<1>3. CASE Enter(r)
  <2> DEFINE next == [exec[r] EXCEPT !.at = IF exec[r].op = NoOp THEN "quote" ELSE "lookup",
                                     !.seen = funds]
  <2>1. Reply(r, "refused") \/ exec' = [exec EXCEPT ![r] = next]
    BY <1>3, Zenon DEF Enter
  <2>2. next \in Execution /\ next.plan = exec[r].plan
    <3>1. /\ exec[r] \in Execution /\ funds \in [Currency -> Nat]
          /\ "quote" \in Places /\ "lookup" \in Places
      BY <1>0 DEF Typed, Running, Live
    <3> QED
      BY <3>1 DEF Execution
  <2> HIDE DEF next
  <2>3. CASE exec' = [exec EXCEPT ![r] = next]
    BY <1>0, <1>2, <2>2, <2>3 DEF Running
  <2> QED
    BY <1>1, <1>2, <2>1, <2>3, AnswersAre
<1>4. CASE Quote(r)
  <2> DEFINE p == IF exec[r].kind = "convert"
                    THEN ConvertPlan(exec[r].intent, world.rate)
                    ELSE SweepPlan(exec[r].seen, world.rate)
             next == [exec[r] EXCEPT !.at = "record", !.plan = p, !.quoted = 0,
                                     !.seen = Opening]
  <2>1. \/ Reply(r, "refused") \/ Reply(r, "quoteChanged")
        \/ exec' = [exec EXCEPT ![r] = next]
    BY <1>4, Zenon DEF Quote
  <2>2. p \in Plan
    <3>1. /\ exec[r].intent \in Intent /\ exec[r].seen \in [Currency -> Nat]
          /\ world.rate \in Rate
      BY DEF Typed, Running, Execution
    <3> QED
      BY <3>1, ConvertPlanIs, SweepPlanIs
  <2> HIDE DEF p
  <2>3. next \in Execution
    <3>1. /\ exec[r] \in Execution /\ Opening \in [Currency -> Nat]
          /\ "record" \in Places /\ 0 \in Nat
      BY <1>0, ConversionsAssumption DEF Typed, Running, Live
    <3> QED
      BY <2>2, <3>1 DEF Execution
  <2> HIDE DEF next
  <2>4. CASE exec' = [exec EXCEPT ![r] = next]
    <3>1. exec[r].at = "quote" /\ rows' = rows
      BY <1>4 DEF Quote, store
    <3> QED
      BY <1>0, <1>2, <2>3, <2>4, <3>1 DEF Running
  <2> QED
    BY <1>1, <1>2, <2>1, <2>4, AnswersAre
<1>5. CASE Lookup(r)
  <2>1. Goto(r, "quote") \/ \E a \in {"inProgress", "closed", "receipt", "reused"} : Reply(r, a)
    BY <1>5, Zenon DEF Lookup
  <2>2. "quote" \in Places
    BY <1>0 DEF Live
  <2> QED
    BY <1>1, <1>2, <2>1, <2>2, AnswersAre
<1>6. CASE Record(r)
  <2>1. Reply(r, "inProgress") \/ Goto(r, "move") \/ Goto(r, "record")
    BY <1>6, Zenon DEF Record
  <2>2. "move" \in Places /\ "record" \in Places
    BY <1>0 DEF Live
  <2> QED
    BY <1>1, <1>2, <2>1, <2>2, AnswersAre
<1>7. CASE Move(r) \/ MarkFailed(r) \/ Die(r) \/ CheckClosed(r) \/ MarkApplied(r)
  <2>1. \/ Goto(r, "markApplied") \/ Goto(r, "markFailed") \/ Goto(r, "checkClosed")
        \/ exec' = Gone(r)
        \/ Reply(r, "expired") \/ Reply(r, "insufficient") \/ Reply(r, "done")
    BY <1>7, Zenon DEF Move, MoveIf, MarkFailed, Die, CheckClosed, MarkApplied
  <2>2. {"markApplied", "markFailed", "checkClosed"} \subseteq Places
    BY <1>0 DEF Live
  <2> QED
    BY <1>1, <1>2, <2>1, <2>2, AnswersAre
<1> QED
  BY <1>3, <1>4, <1>5, <1>6, <1>7 DEF Executor

\* The healers, time and the operator leave the executors and the money alone.
LEMMA OtherTyped ==
  ASSUME Typed, Shape,
         \/ \E h \in Healer : Heal(h) \/ HealerDie(h)
         \/ \E r \in Request : Overtake(r) \/ Expire(r)
         \/ ChangeRate \/ SwitchDefensive \/ UNCHANGED vars
  PROVE  /\ UNCHANGED <<card, sweep, exec, funds, moved>>
         /\ DOMAIN world' = {"rate", "defensive", "changes"} /\ world'.rate \in Rate
         /\ age' \in [Request -> 0..2]
         /\ \A r \in Request : DOMAIN rows'[r] = DOMAIN rows[r]
         /\ \A h \in Healer : healer'[h].cand \subseteq Request
<1>1. UNCHANGED <<card, sweep, exec, funds, moved>>
  BY DEF Heal, HealPick, HealEvidence, HealBury, HealMark, CompactRead, CompactFilter,
     CompactPull, PruneRead, PrunePull, HealerDie, Overtake, Expire, ChangeRate,
     SwitchDefensive, vars, client, store, hist
<1>2. DOMAIN world' = {"rate", "defensive", "changes"} /\ world'.rate \in Rate
  <2>1. world' = world \/ ChangeRate \/ SwitchDefensive
    BY DEF Heal, HealPick, HealEvidence, HealBury, HealMark, CompactRead, CompactFilter,
       CompactPull, PruneRead, PrunePull, HealerDie, Overtake, Expire, vars
  <2>2. DOMAIN world = {"rate", "defensive", "changes"} /\ world.rate \in Rate
    BY DEF Typed
  <2>3. CASE ChangeRate
    <3>1. PICK q \in Rate : world' = [world EXCEPT !.rate = q, !.changes = @ + 1]
      BY <2>3 DEF ChangeRate
    <3> QED
      BY <2>2, <3>1
  <2>4. CASE SwitchDefensive
    <3>1. world' = [world EXCEPT !.defensive = ~@, !.changes = @ + 1]
      BY <2>4 DEF SwitchDefensive
    <3> QED
      BY <2>2, <3>1
  <2> QED
    BY <2>1, <2>2, <2>3, <2>4
<1>3. age' \in [Request -> 0..2]
  <2>1. age' = age \/ \E r \in Request : Overtake(r) \/ Expire(r)
    BY DEF Heal, HealPick, HealEvidence, HealBury, HealMark, CompactRead, CompactFilter,
       CompactPull, PruneRead, PrunePull, HealerDie, ChangeRate, SwitchDefensive, vars
  <2>2. ASSUME NEW r \in Request, Overtake(r) \/ Expire(r)
        PROVE  age' \in [Request -> 0..2]
    BY <2>2 DEF Overtake, Expire, Typed
  <2> QED
    BY <2>1, <2>2 DEF Typed
<1>4. \A r \in Request : DOMAIN rows'[r] = DOMAIN rows[r]
  <2>1. rows' = rows \/ \E h \in Healer : HealMark(h)
    BY DEF Heal, HealPick, HealEvidence, HealBury, CompactRead, CompactFilter,
       CompactPull, PruneRead, PrunePull, HealerDie, Overtake, Expire, ChangeRate,
       SwitchDefensive, vars, store
  <2>2. ASSUME NEW h \in Healer, HealMark(h)
        PROVE  \A r \in Request : DOMAIN rows'[r] = DOMAIN rows[r]
    BY <2>2 DEF HealMark, Settle, Shape
  <2> QED
    BY <2>1, <2>2
<1>5. ASSUME NEW h \in Healer, Heal(h) \/ HealerDie(h)
      PROVE  \A k \in Healer : healer'[k].cand \subseteq Request
  <2>0. /\ DOMAIN healer = Healer /\ \A k \in Healer : healer[k].cand \subseteq Request
        /\ DOMAIN healer[h] = {"at", "marker", "verdict", "cand"}
        /\ markers \subseteq Request /\ tombs \subseteq Request
    BY DEF Typed, Shape
  <2> DEFINE x == healer[h]
  <2>1. CASE \/ HealPick(h) \/ HealEvidence(h) \/ HealBury(h)
    <3>1. \/ \E r : healer' = [healer EXCEPT ![h] = [x EXCEPT !.at = "evidence", !.marker = r]]
          \/ healer' = [healer EXCEPT ![h] = [x EXCEPT !.at = "bury"]]
          \/ \E v : healer' = [healer EXCEPT ![h] = [x EXCEPT !.at = "mark", !.verdict = v]]
      BY <2>1, Zenon DEF HealPick, HealEvidence, HealBury
    <3> QED
      BY <2>0, <3>1
  <2>2. CASE HealMark(h) \/ CompactPull(h) \/ PrunePull(h) \/ HealerDie(h)
    BY <2>0, <2>2, IdleRecord DEF HealMark, CompactPull, PrunePull, HealerDie
  <2>3. CASE CompactRead(h) \/ CompactFilter(h) \/ PruneRead(h)
    <3>1. \E call : \E cand \in SUBSET Request :
            healer' = [healer EXCEPT ![h] = [x EXCEPT !.at = call, !.cand = cand]]
      <4>1. CASE CompactRead(h)
        BY <2>0, <4>1 DEF CompactRead
      <4>2. CASE CompactFilter(h)
        <5>1. {m \in x.cand : ~Applying(m)} \in SUBSET Request
          BY <2>0
        <5> QED
          BY <4>2, <5>1, Zenon DEF CompactFilter
      <4>3. CASE PruneRead(h)
        <5>1. {m \in tombs : age[m] = 2} \in SUBSET Request
          BY <2>0
        <5> QED
          BY <4>3, <5>1, Zenon DEF PruneRead
      <4> QED
        BY <2>3, <4>1, <4>2, <4>3
    <3> QED
      BY <2>0, <3>1
  <2> QED
    BY <1>5, <2>1, <2>2, <2>3 DEF Heal
<1>6. \A h \in Healer : healer'[h].cand \subseteq Request
  <2>1. CASE \E h \in Healer : Heal(h) \/ HealerDie(h)
    BY <1>5, <2>1
  <2>2. CASE healer' = healer
    BY <2>2 DEF Typed
  <2> QED
    BY <2>1, <2>2 DEF Overtake, Expire, ChangeRate, SwitchDefensive, vars
<1> QED
  BY <1>1, <1>2, <1>3, <1>4, <1>6

\* What a step does to the balances: nothing, or what one request planned and
\* can afford.
LEMMA FundsSteps ==
  ASSUME Typed, Shape, [Next]_vars
  PROVE  \/ UNCHANGED <<funds, moved>>
         \/ \E r \in Request :
              /\ exec[r].at = "move" /\ moved' = moved \cup {r}
              /\ \A c \in Currency : funds[c] >= Cost(exec[r].plan, c)
              /\ funds' = [c \in Currency |-> funds[c] - Cost(exec[r].plan, c)
                                                + Gain(exec[r].plan, c)]
<1>1. CASE Browser
  BY <1>1, BrowserTyped
<1>2. ASSUME NEW r \in Request, Executor(r), ~Move(r)
      PROVE  UNCHANGED <<funds, moved>>
  BY <1>2 DEF Executor, Enter, Lookup, Quote, Record, MarkFailed, CheckClosed,
     MarkApplied, Die, store, hist
<1>3. ASSUME NEW r \in Request, Move(r)
      PROVE  \/ UNCHANGED <<funds, moved>>
             \/ /\ exec[r].at = "move" /\ moved' = moved \cup {r}
                /\ \A c \in Currency : funds[c] >= Cost(exec[r].plan, c)
                /\ funds' = [c \in Currency |-> funds[c] - Cost(exec[r].plan, c)
                                                  + Gain(exec[r].plan, c)]
  BY <1>3 DEF Move, MoveIf, Affords
<1>4. CASE \/ \E h \in Healer : Heal(h) \/ HealerDie(h)
           \/ \E r \in Request : Overtake(r) \/ Expire(r)
           \/ ChangeRate \/ SwitchDefensive \/ UNCHANGED vars
  BY <1>4, OtherTyped
<1> QED
  BY <1>1, <1>2, <1>3, <1>4, Zenon DEF Next, Environment

LEMMA PlansStay ==
  ASSUME Typed, Shape, [Next]_vars
  PROVE  \A r \in Request : \/ exec'[r].plan = exec[r].plan
                            \/ exec[r].at = "quote" /\ rows' = rows
<1>1. CASE Browser
  BY <1>1, BrowserTyped
<1>2. CASE \E r \in Request : Executor(r)
  BY <1>2, ExecutorTyped
<1>3. CASE \/ \E h \in Healer : Heal(h) \/ HealerDie(h)
           \/ \E r \in Request : Overtake(r) \/ Expire(r)
           \/ ChangeRate \/ SwitchDefensive \/ UNCHANGED vars
  BY <1>3, OtherTyped
<1> QED
  BY <1>1, <1>2, <1>3, Zenon DEF Next, Environment

LEMMA TypedNext ==
  ASSUME CoreInv, Typed, [Next]_vars
  PROVE  Typed'
<1>0. Shape
  BY DEF CoreInv
<1>1. funds' \in [Currency -> Nat]
  <2>1. ASSUME NEW r \in Request,
               \A c \in Currency : funds[c] >= Cost(exec[r].plan, c),
               funds' = [c \in Currency |-> funds[c] - Cost(exec[r].plan, c)
                                              + Gain(exec[r].plan, c)]
        PROVE  funds' \in [Currency -> Nat]
    <3>1. exec[r].plan \in Plan
      BY DEF Typed, Running, Execution
    <3>2. ASSUME NEW c \in Currency
          PROVE  funds[c] - Cost(exec[r].plan, c) + Gain(exec[r].plan, c) \in Nat
      <4>1. /\ Cost(exec[r].plan, c) \in Nat /\ Gain(exec[r].plan, c) \in Nat
            /\ funds[c] \in Nat
        BY <3>1, Flows DEF Typed
      <4> QED
        BY <2>1, <4>1
    <3> QED
      BY <2>1, <3>2
  <2> QED
    BY <1>0, <2>1, FundsSteps DEF Typed
<1>2. \A r \in Request : DOMAIN rows'[r] \subseteq DOMAIN exec'[r].plan.out
  <2>1. ASSUME NEW r \in Request, DOMAIN rows'[r] = DOMAIN rows[r]
        PROVE  DOMAIN rows'[r] \subseteq DOMAIN exec'[r].plan.out
    <3>1. CASE exec'[r].plan = exec[r].plan
      BY <2>1, <3>1 DEF Typed
    <3>2. CASE exec[r].at = "quote"
      <4>1. DOMAIN rows[r] = {}
        BY <3>2 DEF CoreInv, Progress, Early, HasRows
      <4> QED
        BY <2>1, <4>1
    <3> QED
      BY <1>0, <3>1, <3>2, PlansStay
  <2>2. ASSUME NEW q \in Request, Record(q), NEW r \in Request,
               DOMAIN rows'[r] # DOMAIN rows[r]
        PROVE  DOMAIN rows'[r] \subseteq DOMAIN exec'[r].plan.out
    <3>1. PICK c \in DOMAIN exec[q].plan.out \ DOMAIN rows[q] :
            UNCHANGED rows \/ InsertRow(q, c)
      BY <2>2, Zenon DEF Record
    <3>2. r = q /\ DOMAIN rows'[r] = DOMAIN rows[r] \cup {c}
      BY <1>0, <2>2, <3>1, RecordWrites DEF Shape
    <3>3. exec'[r].plan = exec[r].plan
      <4>1. exec[q].at = "record"
        BY <2>2 DEF Record
      <4> QED
        BY <1>0, <3>2, <4>1, PlansStay
    <3> QED
      BY <3>1, <3>2, <3>3 DEF Typed
  <2>3. ASSUME NEW q \in Request, Executor(q), ~Record(q)
        PROVE  \A r \in Request : DOMAIN rows'[r] = DOMAIN rows[r]
    <3>1. CASE MarkFailed(q) \/ MarkApplied(q)
      BY <1>0, <3>1, SettleWrites DEF MarkFailed, MarkApplied, Shape
    <3>2. CASE ~(MarkFailed(q) \/ MarkApplied(q))
      BY <2>3, <3>2 DEF Executor, Enter, Lookup, Quote, Move, MoveIf, CheckClosed, Die,
         store
    <3> QED
      BY <3>1, <3>2
  <2>4. CASE Browser
    BY <2>1, <2>4, BrowserTyped
  <2>5. CASE \E q \in Request : Executor(q)
    BY <2>1, <2>2, <2>3, <2>5
  <2>6. CASE \/ \E h \in Healer : Heal(h) \/ HealerDie(h)
             \/ \E r \in Request : Overtake(r) \/ Expire(r)
             \/ ChangeRate \/ SwitchDefensive \/ UNCHANGED vars
    BY <1>0, <2>1, <2>6, OtherTyped
  <2> QED
    BY <2>4, <2>5, <2>6, Zenon DEF Next, Environment
<1> DEFINE Card == [open : BOOLEAN, intent : Intent, op : OpId \cup {NoOp},
                    waiting : Request \cup {NoRequest}]
           Rest == /\ card' \in Card
                   /\ sweep' \in Request \cup {NoRequest}
                   /\ Running'
                   /\ DOMAIN world' = {"rate", "defensive", "changes"}
                   /\ world'.rate \in Rate
                   /\ age' \in [Request -> 0..2]
                   /\ \A h \in Healer : healer'[h].cand \subseteq Request
<1>3. Rest
  <2>1. CASE Browser
    BY <2>1, BrowserTyped DEF Typed
  <2>2. CASE \E r \in Request : Executor(r)
    BY <2>2, ExecutorTyped DEF Typed
  <2>3. CASE \/ \E h \in Healer : Heal(h) \/ HealerDie(h)
             \/ \E r \in Request : Overtake(r) \/ Expire(r)
             \/ ChangeRate \/ SwitchDefensive \/ UNCHANGED vars
    BY <1>0, <2>3, OtherTyped DEF Typed, Running
  <2> HIDE DEF Rest
  <2> QED
    BY <2>1, <2>2, <2>3, Zenon DEF Next, Environment
<1> QED
  BY <1>1, <1>2, <1>3 DEF Typed

\* A request that moves adds its change to the balances; one that moved keeps
\* its plan.
LEMMA ExplainedNext ==
  ASSUME CoreInv, Typed, Explained, [Next]_vars
  PROVE  Explained'
<1>0. Shape /\ moved \subseteq Request /\ IsFiniteSet(moved)
  BY FS_Subset, ConversionsAssumption DEF CoreInv, Shape
<1>1. \A r \in moved : exec[r].at \notin {"quote", "move"}
  BY DEF CoreInv, Progress, Shape
<1>2. SUFFICES ASSUME NEW c \in Currency
               PROVE  funds'[c] = Opening[c] + SumOn(Change(c)', moved')
  BY DEF Explained
<1> DEFINE f == Change(c)
           g == Change(c)'
<1>3. \A r \in moved : f[r] = g[r]
  BY <1>0, <1>1, PlansStay DEF Change
<1>4. funds[c] = Opening[c] + SumOn(f, moved)
  BY DEF Explained
<1>5. SumOn(f, moved) = SumOn(g, moved)
  <2> HIDE DEF f, g
  <2> QED
    BY <1>0, <1>3, SumSame
<1>6. CASE UNCHANGED <<funds, moved>>
  BY <1>4, <1>5, <1>6
<1>7. ASSUME NEW r \in Request, exec[r].at = "move", moved' = moved \cup {r},
             funds' = [d \in Currency |-> funds[d] - Cost(exec[r].plan, d)
                                            + Gain(exec[r].plan, d)]
      PROVE  funds'[c] = Opening[c] + SumOn(g, moved')
  <2>1. r \notin moved /\ exec'[r].plan = exec[r].plan
    BY <1>0, <1>1, <1>7, PlansStay
  <2>2. /\ Cost(exec[r].plan, c) \in Nat /\ Gain(exec[r].plan, c) \in Nat
        /\ funds[c] \in Nat /\ Opening[c] \in Nat
    <3>1. exec[r].plan \in Plan
      BY DEF Typed, Running, Execution
    <3> QED
      BY <3>1, Flows, ConversionsAssumption DEF Typed
  <2>3. g[r] = Gain(exec[r].plan, c) - Cost(exec[r].plan, c)
    BY <2>1 DEF Change
  <2>4. \A q \in moved \cup {r} : g[q] \in Int
    <3>1. ASSUME NEW q \in moved PROVE f[q] \in Int
      <4>1. exec[q].plan \in Plan
        BY <1>0 DEF Typed, Running, Execution
      <4>2. Cost(exec[q].plan, c) \in Nat /\ Gain(exec[q].plan, c) \in Nat
        BY <4>1, Flows
      <4> QED
        BY <1>0, <4>2 DEF Change
    <3> QED
      BY <1>3, <2>2, <2>3, <3>1
  <2> HIDE DEF f, g
  <2>5. SumOn(g, moved \cup {r}) = g[r] + SumOn(g, moved)
    BY <1>0, <2>1, <2>4, SumAdds
  <2>6. SumOn(g, moved) \in Int
    BY <1>0, <2>4, SumType
  <2> QED
    BY <1>4, <1>5, <1>7, <2>2, <2>3, <2>5, <2>6
<1> QED
  BY <1>0, <1>6, <1>7, FundsSteps

\* The applied rows are those of the requests that moved, once none is undecided.
LEMMA AppliedMoved ==
  ASSUME CoreInv, \A r \in Request : ~Applying(r)
  PROVE  moved = {r \in Request : \E d \in DOMAIN rows[r] : rows[r][d] = "applied"}
<1>1. ASSUME NEW r \in moved PROVE \E d \in DOMAIN rows[r] : rows[r][d] = "applied"
  <2>1. r \in Request /\ HasRows(r)
    BY DEF CoreInv, Shape, Progress
  <2>2. PICK d \in DOMAIN rows[r] : rows[r][d] \in RowStatus
    BY <2>1 DEF HasRows, CoreInv, Shape
  <2>3. rows[r][d] # "failed"
    BY <2>1 DEF CoreInv, Truth, Says, Shut
  <2>4. rows[r][d] # "applying"
    BY <2>1 DEF Applying
  <2> QED
    BY <2>2, <2>3, <2>4 DEF RowStatus
<1>2. ASSUME NEW r \in Request, NEW d \in DOMAIN rows[r], rows[r][d] = "applied"
      PROVE  r \in moved
  BY <1>2 DEF CoreInv, Truth, Says
<1> QED
  BY <1>1, <1>2 DEF CoreInv, Shape

LEMMA TypedInit == Init => Typed /\ Explained
<1> SUFFICES ASSUME Init PROVE Typed /\ Explained
  OBVIOUS
<1>1. (CHOOSE i \in Intent : TRUE) \in Intent
  BY ConversionsAssumption
<1>2. Closed(NoRequest) \in [open : BOOLEAN, intent : Intent, op : OpId \cup {NoOp},
                             waiting : Request \cup {NoRequest}]
  BY <1>1 DEF Closed
<1>3. Unsent \in Execution
  BY <1>1, NoPlanIs, ConversionsAssumption DEF Unsent, Execution, Places
<1>4. Typed
  BY <1>2, <1>3, IdleRecord, ConversionsAssumption DEF Init, Typed, Running
<1>5. Explained
  BY SumOfNone, ConversionsAssumption DEF Init, Explained
<1> QED
  BY <1>4, <1>5

\* The amounts, whatever is converted: types, and what explains each balance.
THEOREM Amounts == Spec => [](Typed /\ Explained)
<1>1. IInv /\ (Typed /\ Explained) /\ [Next]_vars => (Typed /\ Explained)'
  BY TypedNext, ExplainedNext DEF IInv
<1> QED
  BY <1>1, TypedInit, Invariance, PTL DEF Spec

\* Every request, row, balance and marker stays in its type, and a row belongs to
\* a planned source currency.
THEOREM TypeCorrect == Spec => []TypeOK
<1>1. ASSUME IInv, Typed PROVE TypeOK
  <2>1. ASSUME NEW r \in Request
        PROVE  /\ exec[r].at \in Live \cup {"unsent", "answered", "gone"}
               /\ exec[r].op \in OpId \cup {NoOp}
               /\ exec[r].answer \in Answer \cup {"none"}
               /\ IsPlan(exec[r].plan)
               /\ DOMAIN rows[r] \subseteq DOMAIN exec[r].plan.out
    <3>1. exec[r] \in Execution
      BY <1>1 DEF Typed, Running
    <3>2. exec[r].plan \in Plan
      BY <3>1 DEF Execution
    <3>3. IsPlan(exec[r].plan)
      BY <3>2, PlanIs, MoneyIs DEF IsPlan
    <3> QED
      BY <1>1, <3>1, <3>3 DEF Execution, Places, Typed
  <2> QED
    BY <1>1, <2>1 DEF IInv, CoreInv, Shape, Typed, TypeOK
<1> QED
  BY <1>1, Amounts, Invariance, PTL

\* However many executors quote the same snapshot of the client, the balances the
\* update names are compared again in it (orders.py): none goes below zero.
THEOREM NoneOverdrawn == Spec => []NeverBelowZero
<1>1. Typed => NeverBelowZero
  BY DEF Typed, NeverBelowZero
<1> QED
  BY <1>1, Amounts, PTL

\* Once no row is in applying, the applied rows and their fees account for every
\* balance: the healer and the executors settle a row as its money went (FX09).
THEOREM StatementHolds == Spec => []StatementExplains
<1>1. ASSUME IInv, Typed, Explained PROVE StatementExplains
  <2> SUFFICES ASSUME \A r \in Request : ~Applying(r), NEW c \in Currency
               PROVE  funds[c] = Opening[c] + Effect(c)
    BY DEF StatementExplains
  <2> DEFINE f == [r \in moved |-> Gain(exec[r].plan, c) - Cost(exec[r].plan, c)]
  <2>1. Effect(c) = Total(f)
    BY <1>1, AppliedMoved DEF Effect, IInv
  <2>2. DOMAIN f = moved /\ \A r \in moved : f[r] = Change(c)[r]
    BY <1>1 DEF Change, IInv, CoreInv, Shape
  <2>3. IsFiniteSet(moved)
    BY <1>1, FS_Subset, ConversionsAssumption DEF IInv, CoreInv, Shape
  <2> HIDE DEF f
  <2>4. Total(f) = SumOn(Change(c), moved)
    BY <2>2, <2>3, SumSame, TotalIsSum
  <2> QED
    BY <1>1, <2>1, <2>4 DEF Explained
<1> QED
  BY <1>1, Amounts, Invariance, PTL
=============================================================================

--------------------------- MODULE SpendLock_proofs ---------------------------
(***************************************************************************)
(* For any number of requests, withdrawals, keys and amounts, with requests *)
(* of one key at once: the fund is never overdrawn, nor is the account     *)
(* until two requests of a key have worked on its document at once         *)
(* (Solvency); whoever spends has seen the balance as it is                *)
(* (FreshSpending); and until then a confirmed transfer is never aborted   *)
(* (ConfirmedForGood).                                                     *)
(*                                                                         *)
(* The argument follows the requests that can still spend: those past      *)
(* their authority check whose fence stands, or whose document is still    *)
(* pending and nobody else's.  There is at most one of them, and when it   *)
(* no longer holds the turn, whoever holds it has not read any balance     *)
(* yet.                                                                    *)
(*                                                                         *)
(* The types and the sums of the reservation are in Reservation_proofs.    *)
(***************************************************************************)
EXTENDS SpendLock, TLAPS

IsRequest(r) ==
  r = [at |-> r.at, kind |-> r.kind, of |-> r.of, was |-> r.was, seen |-> r.seen,
       held |-> r.held, account |-> r.account, sum |-> r.sum, again |-> r.again, ok |-> r.ok]

\* What each kind of live request is about.
Matched(t) ==
  Live(t) =>
    /\ Pays(t) \/ task[t].kind \in {"create", "createPay", "reject"}
         => task[t].of \in Withdrawal
    /\ task[t].kind = "transfer" => task[t].of = t
    /\ task[t].kind = "cash" => task[t].of \in Op
    /\ task[t].at = "heals" => task[t].kind \in {"create", "createPay"}
    /\ task[t].at \in {"fenced", "funded", "undo"} => Pays(t)
    /\ task[t].at \in {"provisional", "refused"} => Spends(t)

\* The next step of t, if it is its last write, spends.
Strong(t) ==
  /\ task[t].at = "authorised"
  /\ \/ Pays(t) /\ fence[task[t].of] = t
     \/ Spends(t) /\ transfer[DocOf(t)] = "pending" /\ ~crossed

\* t holds the turn and leans on the balance it read.
Leans(t) ==
  /\ lock = t
  /\ Pays(t) \/ Spends(t)
  /\ task[t].at \in {"funded", "read", "provisional", "authorised"}

\* t takes from the account, and has read what it holds.
FromAccount(t) == Spends(t) \/ (task[t].account /\ task[t].at # "funded")

Informed(t) ==
  Leans(t) \/ Strong(t) =>
    /\ Pays(t) => task[t].seen = Available /\ AmountOf(t) <= Available
    /\ ~crossed /\ FromAccount(t) => task[t].held = InAccount /\ AmountOf(t) <= InAccount

\* Nobody else confirms the document that t works on, nor works on it.
Unconfirmed(t) ==
  ~crossed => \A d \in Doc : WorksOn(t, d) => transfer[d] # "confirmed"

Private ==
  ~crossed => \A t, u \in Task, d \in Doc : WorksOn(t, d) /\ WorksOn(u, d) => t = u

\* A request that lost the turn and can still spend has a successor that has not
\* cleared the fences, or not aborted the documents, it is about to.
Superseded(e) ==
  /\ lock \in Task
  /\ \/ task[lock].at \in {"fences", "over"}
     \/ task[lock].at = "aborts" /\ Spends(e)

Alone == \A e \in Task : Strong(e) => lock = e \/ Superseded(e)

OneAtMost == \A e, f \in Task : Strong(e) /\ Strong(f) => e = f

Typed ==
  /\ lock \in Task \cup {None}
  /\ fence \in [Withdrawal -> Task \cup {None}]
  /\ transfer \in [Doc -> {"none", "pending", "confirmed", "aborted"}]
  /\ paid \in Int /\ unassigned \in Nat /\ moved \in Int /\ crossed \in BOOLEAN
  /\ task = [t \in Task |-> task[t]]
  /\ \A t \in Task : IsRequest(task[t])

IInv ==
  /\ Typed
  /\ \A t \in Task : Matched(t) /\ Informed(t) /\ Unconfirmed(t)
  /\ Private
  /\ Alone
  /\ OneAtMost
  /\ NeverOverdrawn

-----------------------------------------------------------------------------
\* A step of one request that neither takes, checks nor gives back the turn, and
\* moves no money unless two requests of a key have met.
LEMMA TaskStep ==
  ASSUME IInv, NEW t \in Task, NEW r, IsRequest(r),
         task' = [task EXCEPT ![t] = r],
         UNCHANGED <<lock, paid, unassigned>>,
         crossed' \in BOOLEAN, crossed => crossed',
         moved' \in Int, ~crossed' => moved' = moved,
         fence' \in [Withdrawal -> Task \cup {None}],
         \A w \in Withdrawal : fence'[w] = fence[w] \/ fence'[w] \in {None, t},
         transfer' \in [Doc -> {"none", "pending", "confirmed", "aborted"}],
         ~crossed' => \A d \in Doc :
           \/ transfer'[d] = transfer[d]
           \/ /\ transfer[d] # "confirmed" /\ transfer'[d] # "confirmed"
              /\ transfer'[d] # "pending" \/ \A u \in Task \ {t} : ~WorksOn(u, d),
         Matched(t)', Informed(t)', Unconfirmed(t)',
         r.at # "authorised",
         ~crossed' => \A d \in Doc : WorksOn(t, d)' =>
           WorksOn(t, d) \/ \A u \in Task \ {t} : ~WorksOn(u, d),
         task[t].at # "over",
         task[t].at \in {"fences", "aborts"} => r.at = "over"
  PROVE  IInv'
<1>1. \A x \in Task : task'[x] = IF x = t THEN r ELSE task[x]
  BY DEF IInv, Typed
<1>2. Typed'
  BY <1>1 DEF IInv, Typed
<1>3. /\ Available' = Available /\ (~crossed' => InAccount' = InAccount)
      /\ \A x \in Task : x # t =>
           /\ AmountOf(x)' = AmountOf(x) /\ FromAccount(x)' = FromAccount(x)
           /\ Pays(x)' = Pays(x) /\ Spends(x)' = Spends(x) /\ DocOf(x)' = DocOf(x)
           /\ \A d : WorksOn(x, d)' = WorksOn(x, d)
  <2>1. Available' = Available /\ (~crossed' => InAccount' = InAccount)
    BY DEF Available, InAccount
  <2>2. \A x \in Task : x # t => task'[x] = task[x]
    BY <1>1
  <2> QED  BY <2>1, <2>2 DEF AmountOf, FromAccount, Pays, Spends, DocOf, WorksOn
<1>4. \A x \in Task : Live(x) /\ Spends(x) => DocOf(x) \in Doc
  BY DEF IInv, Matched, Live, Spends, DocOf, Doc, Admin
<1>5. ~Strong(t)'
  BY <1>1 DEF Strong
<1>6. ASSUME NEW e \in Task, Strong(e)' PROVE Strong(e) /\ e # t
  <2>1. e # t /\ task'[e] = task[e] /\ task[e].at = "authorised" /\ Live(e)
    BY <1>1, <1>5, <1>6 DEF Strong, Live
  <2>2. CASE Pays(e) /\ fence'[task[e].of] = e
    <3>1. task[e].of \in Withdrawal
      BY <2>1, <2>2 DEF IInv, Matched
    <3> QED  BY <2>1, <2>2, <3>1, SpendAssumption DEF Strong
  <2>3. CASE Spends(e) /\ transfer'[DocOf(e)] = "pending" /\ ~crossed'
    <3>1. DocOf(e) \in Doc
      BY <1>4, <2>1, <2>3
    <3>2. WorksOn(e, DocOf(e)) /\ ~crossed
      BY <2>1, <2>3 DEF WorksOn
    <3>3. transfer[DocOf(e)] = "pending"
      BY <2>1, <2>3, <3>1, <3>2
    <3> QED  BY <2>1, <2>3, <3>2, <3>3 DEF Strong
  <2> QED  BY <1>3, <1>6, <2>1, <2>2, <2>3 DEF Strong
<1>7. ASSUME NEW x \in Task, x # t
      PROVE  Matched(x)' /\ Informed(x)' /\ Unconfirmed(x)'
  <2>1. task'[x] = task[x]
    BY <1>1, <1>7
  <2>2. Matched(x)'
    BY <2>1 DEF IInv, Matched, Live, Pays, Spends
  <2>3. Leans(x)' => Leans(x)
    BY <2>1 DEF Leans, Pays, Spends
  <2>4. Informed(x)'
    BY <1>3, <1>6, <1>7, <2>1, <2>3 DEF IInv, Informed
  <2>5. Unconfirmed(x)'
    BY <1>3, <1>7 DEF IInv, Unconfirmed
  <2> QED  BY <2>2, <2>4, <2>5
<1>8. Private'
  <2>1. ASSUME ~crossed', NEW x \in Task, NEW y \in Task, NEW d \in Doc,
               WorksOn(x, d)', WorksOn(y, d)'
        PROVE  x = y
    <3>1. \A u, v \in Task : WorksOn(u, d) /\ WorksOn(v, d) => u = v
      BY <2>1 DEF IInv, Private
    <3>2. \A u \in Task : u # t => WorksOn(u, d)' = WorksOn(u, d)
      BY <1>3
    <3> QED  BY <2>1, <3>1, <3>2
  <2> QED  BY <2>1 DEF Private
<1>9. Alone' /\ OneAtMost'
  <2>1. ASSUME NEW e \in Task, Strong(e)' PROVE lock = e \/ Superseded(e)'
    <3>1. Strong(e) /\ e # t /\ task'[e] = task[e]
      BY <1>1, <1>6, <2>1
    <3>2. CASE Superseded(e)
      BY <1>1, <3>1, <3>2 DEF Superseded, Spends
    <3> QED  BY <3>1, <3>2 DEF IInv, Alone
  <2> QED  BY <1>6, <2>1 DEF IInv, Alone, OneAtMost
<1>10. NeverOverdrawn'
  BY <1>3 DEF IInv, NeverOverdrawn
<1> QED  BY <1>2, <1>7, <1>8, <1>9, <1>10 DEF IInv

\* A request as it is once one or more of its fields have changed.
LEMMA Shapes ==
  ASSUME IInv, NEW t \in Task
  PROVE  /\ IsRequest(Idle)
         /\ \A at : /\ IsRequest(Kept(t, at)) /\ Kept(t, at).at = at
                    /\ Kept(t, at).seen = task[t].seen \/ at \in {"over", "leaves"}
                    /\ at # "over" => Kept(t, at).kind = task[t].kind
                                      /\ Kept(t, at).of = task[t].of
                    /\ at = "over" => Kept(t, at).kind = "none"
<1>1. IsRequest(task[t])
  BY DEF IInv, Typed
<1>2. IsRequest(Idle)
  BY DEF Idle, IsRequest
<1>3. ASSUME NEW at
      PROVE  /\ IsRequest(Kept(t, at)) /\ Kept(t, at).at = at
             /\ Kept(t, at).seen = task[t].seen \/ at \in {"over", "leaves"}
             /\ at # "over" => Kept(t, at).kind = task[t].kind
                               /\ Kept(t, at).of = task[t].of
             /\ at = "over" => Kept(t, at).kind = "none"
  BY <1>1 DEF Idle, IsRequest, Kept
<1> QED  BY <1>2, <1>3

\* A step of t that only changes where it stands, to a place where it leans on no
\* balance and on no document.
LEMMA GoesStep ==
  ASSUME IInv, NEW t \in Task, NEW at, Goes(t, at), Live(t),
         UNCHANGED <<lock, paid, unassigned, crossed>>,
         moved' \in Int, ~crossed => moved' = moved,
         fence' \in [Withdrawal -> Task \cup {None}],
         \A w \in Withdrawal : fence'[w] = fence[w] \/ fence'[w] \in {None, t},
         transfer' \in [Doc -> {"none", "pending", "confirmed", "aborted"}],
         ~crossed => \A d \in Doc :
           \/ transfer'[d] = transfer[d]
           \/ transfer[d] # "confirmed" /\ transfer'[d] = "aborted",
         at \notin {"heals", "funded", "read", "provisional", "authorised", "refused"},
         at \in {"fenced", "undo"} => Pays(t),
         task[t].at \in {"fences", "aborts"} => at = "over"
  PROVE  IInv'
<1>1. PICK r : r = Kept(t, at)
  OBVIOUS
<1>2. /\ IsRequest(r) /\ r.at = at
      /\ at # "over" => r.kind = task[t].kind /\ r.of = task[t].of
  BY <1>1, Shapes
<1>3. task' = [task EXCEPT ![t] = r] /\ task'[t] = r
  BY <1>1 DEF Goes, IInv, Typed
<1>4. Matched(t)'
  BY <1>2, <1>3 DEF IInv, Matched, Live, Pays, Spends
<1>5. Informed(t)' /\ Unconfirmed(t)' /\ \A d : ~WorksOn(t, d)'
  BY <1>2, <1>3 DEF Informed, Leans, Strong, Unconfirmed, WorksOn
<1>6. crossed' \in BOOLEAN /\ crossed' = crossed
  BY Zenon DEF IInv, Typed
<1>7. task[t].at # "over"
  BY DEF Live
<1>8. (crossed => crossed') /\ (~crossed' => ~crossed)
  BY <1>6
<1>9. ~crossed' => \A d \in Doc :
        \/ transfer'[d] = transfer[d]
        \/ /\ transfer[d] # "confirmed" /\ transfer'[d] # "confirmed"
           /\ transfer'[d] # "pending" \/ \A u \in Task \ {t} : ~WorksOn(u, d)
  BY <1>8
<1>10. ~crossed' => moved' = moved
  BY <1>8
<1>11. r.at # "authorised" /\ (task[t].at \in {"fences", "aborts"} => r.at = "over")
  BY <1>2
<1>12. crossed' \in BOOLEAN
  BY <1>6
<1> QED  BY <1>2, <1>3, <1>4, <1>5, <1>7, <1>8, <1>9, <1>10, <1>11, <1>12, TaskStep

-----------------------------------------------------------------------------
\* The requests for the reservation: they lean on no account.
LEMMA ReservationStep ==
  ASSUME IInv, NEW t \in Task,
         \/ GiveUp(t) \/ CreateReads(t) \/ Claim(t) \/ ClaimFails(t)
         \/ HealWrites(t) \/ Insert(t) \/ Release(t) \/ Recount(t) \/ Die(t)
  PROVE  IInv'
<1>0. /\ IsRequest(task[t]) /\ Matched(t) /\ Typed
      /\ fence \in [Withdrawal -> Task \cup {None}]
      /\ transfer \in [Doc -> {"none", "pending", "confirmed", "aborted"}]
  BY DEF IInv, Typed
<1>1. /\ UNCHANGED <<lock, paid, unassigned, moved, fence, transfer>> /\ Live(t)
      /\ crossed' = crossed /\ crossed' \in BOOLEAN /\ moved' \in Int
  <2>1. UNCHANGED <<lock, paid, unassigned, moved, fence, transfer>> /\ Live(t)
    BY DEF GiveUp, CreateReads, Claim, ClaimFails, HealWrites, Insert, Release,
       Recount, Die, Rewrite, budget, docs, money, Live
  <2>2. crossed' = crossed
    BY DEF GiveUp, CreateReads, Claim, ClaimFails, HealWrites, Insert, Release,
       Recount, Die, history
  <2>3. crossed' \in BOOLEAN
    BY <2>2, Zenon DEF IInv, Typed
  <2> QED  BY <2>1, <2>2, <2>3 DEF IInv, Typed
<1>2. ASSUME NEW at, Goes(t, at),
             at \notin {"heals", "funded", "read", "provisional", "authorised", "refused"},
             at \in {"fenced", "undo"} => Pays(t),
             task[t].at \in {"fences", "aborts"} => at = "over"
      PROVE  IInv'
  BY <1>0, <1>1, <1>2, GoesStep
<1>3. ASSUME NEW r, IsRequest(r), task' = [task EXCEPT ![t] = r],
             r.kind = task[t].kind, r.of = task[t].of,
             r.at \in {"read", "heals"} => r.kind \in {"create", "createPay"},
             r.at \notin {"fenced", "funded", "undo", "provisional", "authorised", "refused"},
             task[t].at \notin {"fences", "aborts"}
      PROVE  IInv'
  <2>1. task'[t] = r
    BY <1>0, <1>3 DEF Typed
  <2>2. Matched(t)'
    BY <1>0, <1>1, <1>3, <2>1 DEF Matched, Live, Pays, Spends
  <2>3. Informed(t)' /\ Unconfirmed(t)' /\ \A d : ~WorksOn(t, d)'
    BY <1>3, <2>1 DEF Informed, Leans, Strong, Unconfirmed, WorksOn, Pays, Spends
  <2> QED  BY <1>0, <1>1, <1>3, <2>2, <2>3, TaskStep DEF Live
<1>4. CASE GiveUp(t)
  BY <1>2, <1>4 DEF GiveUp, Pays
<1>5. CASE CreateReads(t)
  <2>1. PICK r : r = [task[t] EXCEPT !.at = "read", !.seen = Available]
    OBVIOUS
  <2>2. IsRequest(r) /\ r.at = "read" /\ r.kind = task[t].kind /\ r.of = task[t].of
    BY <1>0, <2>1 DEF IsRequest
  <2>3. task' = [task EXCEPT ![t] = r]
    BY <1>0, <1>5, <2>1 DEF CreateReads, Typed
  <2> QED  BY <1>3, <1>5, <2>2, <2>3 DEF CreateReads
<1>6. CASE Claim(t)
  <2>1. PICK k : k = Kept(t, "leaves")
    OBVIOUS
  <2>2. IsRequest(k) /\ k.at = "leaves" /\ k.kind = task[t].kind /\ k.of = task[t].of
    BY <2>1, Shapes
  <2>3. PICK r : r = [k EXCEPT !.ok = TRUE]
    OBVIOUS
  <2>4. IsRequest(r) /\ r.at = "leaves" /\ r.kind = task[t].kind /\ r.of = task[t].of
    BY <2>2, <2>3 DEF IsRequest
  <2>5. task' = [task EXCEPT ![t] = r]
    BY <1>6, <2>1, <2>3 DEF Claim
  <2> QED  BY <1>3, <1>6, <2>4, <2>5 DEF Claim
<1>7. CASE ClaimFails(t)
  <2>1. CASE MayHeal(t)
    <3>1. PICK r : r = [task[t] EXCEPT !.at = "heals", !.sum = PendingSum]
      OBVIOUS
    <3>2. /\ IsRequest(r) /\ r.at = "heals" /\ r.kind = task[t].kind
          /\ r.of = task[t].of
      BY <1>0, <3>1 DEF IsRequest
    <3>3. task' = [task EXCEPT ![t] = r]
      BY <1>0, <1>7, <2>1, <3>1 DEF ClaimFails, Typed
    <3> QED  BY <1>3, <1>7, <3>2, <3>3 DEF ClaimFails
  <2>2. CASE ~MayHeal(t)
    BY <1>2, <1>7, <2>2 DEF ClaimFails
  <2> QED  BY <2>1, <2>2
<1>8. CASE HealWrites(t)
  <2>1. PICK at : at = IF t \in current THEN "read" ELSE "leaves"
    OBVIOUS
  <2>2. PICK r : r = [task[t] EXCEPT !.at = at, !.again = TRUE]
    OBVIOUS
  <2>3. IsRequest(r) /\ r.at = at /\ r.kind = task[t].kind /\ r.of = task[t].of
    BY <1>0, <2>2 DEF IsRequest
  <2>4. task' = [task EXCEPT ![t] = r]
    BY <1>0, <1>8, <2>1, <2>2 DEF HealWrites, Typed
  <2>5. task[t].kind \in {"create", "createPay"}
    BY <1>0, <1>8
     DEF HealWrites, Matched, Live
  <2> QED  BY <1>3, <1>8, <2>1, <2>3, <2>4, <2>5 DEF HealWrites
<1>9. CASE Insert(t)
  <2>1. CASE Goes(t, "releases")
    BY <1>2, <1>9, <2>1 DEF Insert
  <2>2. CASE task' = [task EXCEPT ![t] =
               IF task[t].kind = "createPay"
               THEN [Idle EXCEPT !.at = "asks", !.kind = "payNew",
                                 !.of = task[t].of, !.was = "pending"]
               ELSE Kept(t, "over")]
    <3>1. CASE task[t].kind = "createPay"
      <4>1. PICK r : r = [Idle EXCEPT !.at = "asks", !.kind = "payNew",
                                      !.of = task[t].of, !.was = "pending"]
        OBVIOUS
      <4>2. /\ IsRequest(r) /\ r.at = "asks" /\ r.kind = "payNew"
            /\ r.of = task[t].of
        BY <4>1 DEF Idle, IsRequest
      <4>3. task' = [task EXCEPT ![t] = r] /\ task'[t] = r
        BY <1>0, <2>2, <3>1, <4>1 DEF Typed
      <4>4. Matched(t)'
        BY <1>0, <1>1, <3>1, <4>2, <4>3 DEF Matched, Live, Pays, Spends
      <4>5. Informed(t)' /\ Unconfirmed(t)' /\ \A d : ~WorksOn(t, d)'
        BY <4>2, <4>3 DEF Informed, Leans, Strong, Unconfirmed, WorksOn
      <4>6. task[t].at = "inserts"
        BY <1>9 DEF Insert
      <4> QED  BY <1>0, <1>1, <4>2, <4>3, <4>4, <4>5, <4>6, TaskStep
    <3>2. CASE task[t].kind # "createPay"
      <4>1. Goes(t, "over")
        BY <2>2, <3>2 DEF Goes
      <4> QED  BY <1>2, <4>1
    <3> QED  BY <3>1, <3>2
  <2> QED  BY <1>9, <2>1, <2>2 DEF Insert
<1>10. CASE Release(t)
  <2>1. CASE reserved >= AmountOf(t)
    BY <1>2, <1>10, <2>1 DEF Release, AfterRelease
  <2>2. CASE ~(reserved >= AmountOf(t))
    <3>1. PICK r : r = [task[t] EXCEPT !.at = "recounts", !.sum = PendingSum]
      OBVIOUS
    <3>2. /\ IsRequest(r) /\ r.at = "recounts" /\ r.kind = task[t].kind
          /\ r.of = task[t].of
      BY <1>0, <3>1 DEF IsRequest
    <3>3. task' = [task EXCEPT ![t] = r]
      BY <1>0, <1>10, <2>2, <3>1 DEF Release, Typed
    <3> QED  BY <1>3, <1>10, <3>2, <3>3 DEF Release
  <2> QED  BY <2>1, <2>2
<1>11. CASE Recount(t)
  BY <1>2, <1>11 DEF Recount, AfterRelease
<1>12. CASE Die(t)
  BY <1>2, <1>12 DEF Die
<1> QED  BY <1>4, <1>5, <1>6, <1>7, <1>8, <1>9, <1>10, <1>11, <1>12

\* The requests that pay and transfer, up to their authority check and after
\* they lost the turn.
LEMMA SpendingStep ==
  ASSUME IInv, NEW t \in Task,
         \/ PutFence(t) \/ PayReads(t) \/ PayAccount(t) \/ Undo(t) \/ Reject(t)
         \/ TransferReads(t) \/ Provisional(t) \/ AbortOwn(t)
         \/ PayAuthority(t) /\ lock # t
         \/ TransferAuthority(t) /\ lock # t
  PROVE  IInv'
<1>0. /\ IsRequest(task[t]) /\ Matched(t) /\ Informed(t) /\ Unconfirmed(t) /\ Typed
      /\ fence \in [Withdrawal -> Task \cup {None}]
      /\ transfer \in [Doc -> {"none", "pending", "confirmed", "aborted"}]
      /\ Live(t) /\ Spends(t) => DocOf(t) \in Doc
  BY DEF IInv, Typed, Matched, Spends, DocOf, Doc, Admin
<1>1. UNCHANGED <<lock, paid, unassigned>> /\ Live(t)
  BY DEF PutFence, PayReads, PayAccount, Undo, Reject, TransferReads, Provisional,
     AbortOwn, PayAuthority, TransferAuthority, budget, docs, money, Live
<1>a. crossed \in BOOLEAN /\ moved \in Int
  BY Zenon DEF IInv, Typed
<1>2. ASSUME NEW r, IsRequest(r), task' = [task EXCEPT ![t] = r],
             r.kind = task[t].kind, r.of = task[t].of,
             r.at \in {"funded", "read", "leaves"}, ~(task[t].at \in {"fences", "aborts"}),
             UNCHANGED <<docs, history>>,
             r.at = "funded" => Pays(t),
             r.at \in {"funded", "read"} /\ lock = t =>
               /\ Pays(t) => r.seen = Available /\ AmountOf(t) <= Available
               /\ r.at = "read" /\ (Spends(t) \/ r.account) /\ ~crossed =>
                    r.held = InAccount /\ AmountOf(t) <= InAccount
      PROVE  IInv'
  <2>1. /\ task'[t] = r /\ UNCHANGED <<lock, fence, transfer, paid, unassigned, moved>>
        /\ crossed' = crossed
    BY <1>0, <1>1, <1>2 DEF Typed, docs, money, history
  <2>2. Matched(t)'
    BY <1>0, <1>1, <1>2, <2>1 DEF Matched, Live, Pays, Spends
  <2>3. /\ AmountOf(t)' = AmountOf(t) /\ InAccount' = InAccount
        /\ Available' = Available /\ Pays(t)' = Pays(t)
        /\ FromAccount(t)' => Spends(t) \/ (r.account /\ r.at # "funded")
    BY <1>2, <2>1 DEF AmountOf, InAccount, Available, Pays, Spends, FromAccount
  <2>4. Leans(t)' => lock = t /\ r.at \in {"funded", "read"}
    BY <1>2, <2>1 DEF Leans
  <2>5. ~Strong(t)' /\ \A d : ~WorksOn(t, d)'
    BY <1>2, <2>1 DEF Strong, WorksOn
  <2>6. r.at = "funded" => ~Spends(t)
    BY <1>2 DEF Pays, Spends
  <2>7. Informed(t)' /\ Unconfirmed(t)'
    BY <1>2, <2>1, <2>3, <2>4, <2>5, <2>6 DEF Informed, Unconfirmed
  <2>8. crossed' \in BOOLEAN /\ (crossed => crossed') /\ (~crossed' => moved' = moved)
    BY <1>a, <2>1, Zenon
  <2> QED  BY <1>0, <1>1, <1>2, <1>a, <2>1, <2>2, <2>5, <2>7, <2>8, TaskStep DEF Live
<1>3. CASE PutFence(t)
  <2>1. /\ task[t].of \in Withdrawal /\ transfer' = transfer
        /\ UNCHANGED <<moved, crossed>>
    BY <1>0, <1>1, <1>3 DEF PutFence, Matched, money, history
  <2>2. /\ fence' \in [Withdrawal -> Task \cup {None}]
        /\ \A w \in Withdrawal : fence'[w] = fence[w] \/ fence'[w] \in {None, t}
    BY <1>0, <1>3, <2>1 DEF PutFence
  <2>3. PICK at \in {"fenced", "leaves"} : Goes(t, at)
    BY <1>3 DEF PutFence
  <2> QED  BY <1>0, <1>1, <1>a, <1>3, <2>1, <2>2, <2>3, GoesStep DEF PutFence
<1>4. CASE PayReads(t)
  <2>1. PICK at : at = IF AmountOf(t) <= Available THEN "funded" ELSE "leaves"
    OBVIOUS
  <2>2. PICK n : n = Available
    OBVIOUS
  <2>3. PICK r : r = [task[t] EXCEPT !.seen = n, !.at = at]
    OBVIOUS
  <2>4. /\ IsRequest(r) /\ r.at = at /\ r.kind = task[t].kind /\ r.of = task[t].of
        /\ r.seen = n
    BY <1>0, <2>3 DEF IsRequest
  <2>5. task' = [task EXCEPT ![t] = r]
    BY <1>0, <1>4, <2>1, <2>2, <2>3 DEF PayReads, Typed
  <2>6. Pays(t)
    BY <1>0, <1>1, <1>4 DEF PayReads, Matched
  <2> QED  BY <1>2, <1>4, <2>1, <2>2, <2>4, <2>5, <2>6 DEF PayReads
<1>b. CASE PayAccount(t)
  <2>0. Pays(t) /\ ~Spends(t) /\ task[t].at = "funded"
    BY <1>0, <1>1, <1>b DEF PayAccount, Matched, Pays, Spends
  <2>1. CASE Goes(t, "leaves")
    <3>1. /\ UNCHANGED <<moved, crossed>> /\ fence' = fence /\ transfer' = transfer
      BY <1>b DEF PayAccount, docs, money, history
    <3> QED  BY <1>0, <1>1, <1>a, <2>0, <2>1, <3>1, GoesStep
  <2>2. ASSUME NEW account \in BOOLEAN, account => AmountOf(t) <= InAccount,
               task' = [task EXCEPT ![t].held = InAccount, ![t].account = account,
                                    ![t].at = "read"]
        PROVE  IInv'
    <3>1. PICK n : n = InAccount
      OBVIOUS
    <3>2. PICK r : r = [task[t] EXCEPT !.held = n, !.account = account, !.at = "read"]
      OBVIOUS
    <3>3. /\ IsRequest(r) /\ r.at = "read" /\ r.kind = task[t].kind /\ r.of = task[t].of
          /\ r.seen = task[t].seen /\ r.held = n /\ r.account = account
      BY <1>0, <3>2 DEF IsRequest
    <3>4. task' = [task EXCEPT ![t] = r]
      BY <1>0, <2>2, <3>1, <3>2 DEF Typed
    <3>5. lock = t => task[t].seen = Available /\ AmountOf(t) <= Available
      BY <1>0, <2>0 DEF Informed, Leans
    <3>6. UNCHANGED <<docs, history>>
      BY <1>b DEF PayAccount
    <3> QED  BY <1>2, <2>0, <2>2, <3>1, <3>3, <3>4, <3>5, <3>6
  <2> QED  BY <1>b, <2>1, <2>2 DEF PayAccount
<1>5. CASE Undo(t)
  <2>0. /\ UNCHANGED <<moved, crossed>> /\ fence' = fence /\ transfer' = transfer
        /\ crossed' \in BOOLEAN
    <3>1. UNCHANGED <<moved, crossed>> /\ fence' = fence /\ transfer' = transfer
      BY <1>5 DEF Undo, money, history
    <3> QED  BY <1>a, <3>1, Zenon
  <2>1. CASE Goes(t, "over")
    BY <1>0, <1>1, <1>a, <2>0, <2>1, GoesStep
  <2>2. CASE task' = [task EXCEPT ![t].at = "releases", ![t].kind = "create"]
    <3>1. PICK r : r = [task[t] EXCEPT !.at = "releases", !.kind = "create"]
      OBVIOUS
    <3>2. IsRequest(r) /\ r.at = "releases" /\ r.kind = "create" /\ r.of = task[t].of
      BY <1>0, <3>1 DEF IsRequest
    <3>3. task' = [task EXCEPT ![t] = r] /\ task'[t] = r
      BY <1>0, <2>2, <3>1 DEF Typed
    <3>4. Matched(t)'
      BY <1>0, <1>1, <1>5, <3>2, <3>3 DEF Undo, Matched, Live, Pays, Spends
    <3>5. Informed(t)' /\ Unconfirmed(t)' /\ \A d : ~WorksOn(t, d)'
      BY <3>2, <3>3 DEF Informed, Leans, Strong, Unconfirmed, WorksOn
    <3> QED  BY <1>0, <1>1, <1>a, <1>5, <2>0, <3>2, <3>3, <3>4, <3>5, TaskStep DEF Undo
  <2> QED  BY <1>5, <2>1, <2>2 DEF Undo
<1>6. CASE Reject(t)
  <2>1. UNCHANGED <<moved, crossed>> /\ transfer' = transfer
    BY <1>6 DEF Reject, money, history
  <2>2. /\ fence' \in [Withdrawal -> Task \cup {None}]
        /\ \A w \in Withdrawal : fence'[w] = fence[w] \/ fence'[w] \in {None, t}
    BY <1>0, <1>6, <2>1 DEF Reject
  <2>3. PICK at \in {"releases", "over"} : Goes(t, at)
    BY <1>6 DEF Reject
  <2> QED  BY <1>0, <1>1, <1>a, <1>6, <2>1, <2>2, <2>3, GoesStep DEF Reject
<1>7. CASE TransferReads(t)
  <2>1. PICK was, at, n :
          /\ was = transfer[DocOf(t)] /\ n = InAccount
          /\ at = IF was # "confirmed" /\ AmountOf(t) <= InAccount
                  THEN "read" ELSE "leaves"
    OBVIOUS
  <2>2. PICK r : r = [task[t] EXCEPT !.was = was, !.held = n, !.at = at]
    OBVIOUS
  <2>3. /\ IsRequest(r) /\ r.at = at /\ r.kind = task[t].kind /\ r.of = task[t].of
        /\ r.held = n
    BY <1>0, <2>2 DEF IsRequest
  <2>4. task' = [task EXCEPT ![t] = r]
    BY <1>0, <1>7, <2>1, <2>2 DEF TransferReads, Typed
  <2>5. Spends(t) /\ ~Pays(t)
    BY <1>7 DEF TransferReads, Spends, Pays
  <2> QED  BY <1>2, <1>7, <2>1, <2>3, <2>4, <2>5 DEF TransferReads
<1>8. CASE PayAuthority(t) /\ lock # t
  <2>1. /\ Goes(t, "leaves") /\ UNCHANGED <<moved, crossed>>
        /\ fence' = fence /\ transfer' = transfer
    BY <1>8 DEF PayAuthority, docs, money, history
  <2> QED  BY <1>0, <1>1, <1>a, <1>8, <2>1, GoesStep DEF PayAuthority
<1>9. ASSUME NEW at \in {"provisional", "refused"}, Goes(t, at),
             task[t].at \in {"read", "provisional"}, Spends(t), moved' = moved,
             crossed' \in BOOLEAN, crossed => crossed', fence' = fence,
             DocOf(t) \in Doc, ~crossed' => transfer'[DocOf(t)] # "confirmed",
             transfer' \in [Doc -> {"none", "pending", "confirmed", "aborted"}],
             ~crossed' => \A d \in Doc :
               \/ transfer'[d] = transfer[d]
               \/ transfer[d] # "confirmed" /\ transfer'[d] = "pending" /\ d = DocOf(t),
             ~crossed' => \/ WorksOn(t, DocOf(t)) /\ transfer' = transfer
                          \/ \A u \in Task \ {t} : ~WorksOn(u, DocOf(t))
      PROVE  IInv'
  <2>1. PICK r : r = Kept(t, at)
    OBVIOUS
  <2>2. /\ IsRequest(r) /\ r.at = at /\ r.kind = task[t].kind /\ r.of = task[t].of
        /\ r.held = task[t].held
    BY <1>0, <1>9, <2>1 DEF Kept, Idle, IsRequest
  <2>3. task' = [task EXCEPT ![t] = r] /\ task'[t] = r
    BY <1>0, <1>9, <2>1 DEF Goes, Typed
  <2>4. Matched(t)'
    BY <1>0, <1>1, <1>9, <2>2, <2>3 DEF Matched, Live, Pays, Spends
  <2>5. /\ AmountOf(t)' = AmountOf(t) /\ InAccount' = InAccount /\ DocOf(t)' = DocOf(t)
        /\ ~Pays(t)' /\ ~Strong(t)' /\ (Leans(t)' => Leans(t)) /\ FromAccount(t)
        /\ \A d : WorksOn(t, d)' => d = DocOf(t)
    BY <1>1, <1>9, <2>2, <2>3 DEF AmountOf, InAccount, DocOf, Pays, Spends, Strong, Leans,
       FromAccount, WorksOn
  <2>6. Informed(t)'
    BY <1>0, <1>9, <2>2, <2>3, <2>5 DEF Informed
  <2>7. Unconfirmed(t)'
    BY <1>9, <2>5 DEF Unconfirmed
  <2>8. ~crossed' => \A d \in Doc : WorksOn(t, d)' =>
          WorksOn(t, d) \/ \A u \in Task \ {t} : ~WorksOn(u, d)
    BY <1>9, <2>5
  <2>9. ~crossed' => \A d \in Doc :
          \/ transfer'[d] = transfer[d]
          \/ /\ transfer[d] # "confirmed" /\ transfer'[d] # "confirmed"
             /\ transfer'[d] # "pending" \/ \A u \in Task \ {t} : ~WorksOn(u, d)
    BY <1>9
  <2>10. UNCHANGED <<lock, paid, unassigned>> /\ task[t].at # "over"
    BY <1>1 DEF Live
  <2> QED  BY <1>0, <1>a, <1>9, <2>2, <2>3, <2>4, <2>6, <2>7, <2>8, <2>9, <2>10, TaskStep
<1>10. CASE Provisional(t)
  <2>1. /\ task[t].at = "read" /\ Spends(t) /\ moved' = moved /\ fence' = fence
        /\ DocOf(t) \in Doc
    BY <1>0, <1>1, <1>10 DEF Provisional, money
  <2>2. /\ transfer' \in [Doc -> {"none", "pending", "confirmed", "aborted"}]
        /\ \A d \in Doc :
             \/ transfer'[d] = transfer[d]
             \/ transfer[d] # "confirmed" /\ transfer'[d] = "pending" /\ d = DocOf(t)
    BY <1>0, <1>10, <2>1 DEF Provisional
  <2>3. CASE transfer[DocOf(t)] = "confirmed"
    <3>1. Goes(t, "leaves") /\ crossed' = crossed /\ transfer' = transfer
      BY <1>10, <2>3 DEF Provisional
    <3> QED  BY <1>0, <1>1, <1>a, <2>1, <3>1, GoesStep
  <2>4. CASE transfer[DocOf(t)] # "confirmed"
    <3>1. Goes(t, "provisional") /\ transfer'[DocOf(t)] # "confirmed"
      BY <1>10, <2>1, <2>2, <2>4 DEF Provisional
    <3>2. crossed' = (crossed \/ \E u \in Task \ {t} : WorksOn(u, DocOf(t)))
      BY <1>10, <2>4 DEF Provisional
    <3>3. /\ crossed' \in BOOLEAN /\ (crossed => crossed')
          /\ ~crossed' => \A u \in Task \ {t} : ~WorksOn(u, DocOf(t))
      BY <1>a, <3>2, Zenon
    <3> QED  BY <1>9, <2>1, <2>2, <3>1, <3>3
  <2> QED  BY <2>3, <2>4
<1>11. CASE TransferAuthority(t) /\ lock # t
  <2>1. /\ Goes(t, "refused") /\ task[t].at = "provisional" /\ Spends(t)
        /\ UNCHANGED <<moved, crossed>> /\ fence' = fence /\ transfer' = transfer
    BY <1>0, <1>1, <1>11 DEF TransferAuthority, docs, money, history, Matched
  <2>2. DocOf(t) \in Doc /\ WorksOn(t, DocOf(t))
    BY <1>0, <1>1, <2>1 DEF WorksOn
  <2>3. crossed' \in BOOLEAN /\ (crossed => crossed') /\ (~crossed' => ~crossed)
    BY <1>a, <2>1
  <2>4. ~crossed' => transfer'[DocOf(t)] # "confirmed"
    BY <1>0, <2>1, <2>2, <2>3 DEF Unconfirmed
  <2> QED  BY <1>0, <1>9, <2>1, <2>2, <2>3, <2>4
<1>12. CASE AbortOwn(t)
  <2>1. Spends(t) /\ DocOf(t) \in Doc /\ WorksOn(t, DocOf(t))
    BY <1>0, <1>1, <1>12 DEF AbortOwn, Matched, WorksOn
  <2>2. AmountOf(t) \in Nat
    <3>1. task[t].of \in Op \cup Task
      BY <1>0, <1>1, <2>1 DEF Matched, Spends
    <3> QED  BY <3>1, SpendAssumption DEF AmountOf
  <2>3. ~crossed => transfer[DocOf(t)] # "confirmed"
    BY <1>0, <2>1 DEF Unconfirmed
  <2>4. transfer' \in [Doc -> {"none", "pending", "confirmed", "aborted"}]
    BY <1>0, <1>12, <2>1 DEF AbortOwn
  <2>5. moved' \in Int /\ (~crossed => moved' = moved)
    BY <1>a, <1>12, <2>2, <2>3 DEF AbortOwn
  <2>6. ~crossed => \A d \in Doc : \/ transfer'[d] = transfer[d]
                                   \/ transfer[d] # "confirmed" /\ transfer'[d] = "aborted"
    BY <1>0, <1>12, <2>1, <2>3 DEF AbortOwn
  <2>7. Goes(t, "leaves") /\ crossed' = crossed /\ fence' = fence /\ task[t].at = "refused"
    BY <1>12 DEF AbortOwn, history
  <2> QED  BY <1>0, <1>1, <2>4, <2>5, <2>6, <2>7, GoesStep
<1> QED  BY <1>3, <1>4, <1>b, <1>5, <1>6, <1>7, <1>8, <1>10, <1>11, <1>12

-----------------------------------------------------------------------------
\* A step of t that goes from a place where it cannot spend to another one.
LEMMA Elsewhere ==
  ASSUME IInv, NEW t \in Task, NEW at, Goes(t, at), Live(t),
         at \in {"fences", "aborts", "held", "over", "undo", "inserts"},
         at = "undo" => Pays(t)
  PROVE  /\ Typed => task' = [x \in Task |-> task'[x]]
         /\ \A x \in Task : IsRequest(task'[x]) /\ (x # t => task'[x] = task[x])
         /\ task'[t].at = at
         /\ Matched(t)'
         /\ \A x \in Task : Live(x)' /\ Spends(x)' =>
              Live(x) /\ Spends(x) /\ DocOf(x)' = DocOf(x)
<1>1. PICK r : r = Kept(t, at)
  OBVIOUS
<1>2. /\ IsRequest(r) /\ r.at = at
      /\ at # "over" => r.kind = task[t].kind /\ r.of = task[t].of
  BY <1>1, Shapes
<1>3. /\ task' = [task EXCEPT ![t] = r] /\ task'[t] = r
      /\ \A x \in Task : IsRequest(task[x])
      /\ task = [x \in Task |-> task[x]]
  BY <1>1 DEF Goes, IInv, Typed
<1>4. Matched(t)'
  BY <1>2, <1>3 DEF IInv, Matched, Live, Pays, Spends
<1>5. \A x \in Task : Live(x)' /\ Spends(x)' =>
        Live(x) /\ Spends(x) /\ DocOf(x)' = DocOf(x)
  BY <1>2, <1>3 DEF Live, Spends, DocOf
<1> QED  BY <1>2, <1>3, <1>4, <1>5

\* Taking the turn, clearing it of what an earlier holder left, and giving it
\* back.
LEMMA TurnStep ==
  ASSUME IInv, NEW t \in Task,
         Acquire(t) \/ ClearFences(t) \/ AbortPending(t) \/ Leave(t)
  PROVE  IInv'
<1>0. Leave(t) =>
        /\ task[t].at = "leaves"
        /\ fence' = [w \in Withdrawal |-> IF fence[w] = t THEN None ELSE fence[w]]
        /\ lock' = IF lock = t THEN None ELSE lock
        /\ transfer' = transfer /\ money' = money /\ history' = history
  BY Zenon DEF Leave
<1>1. PICK at :
        /\ Goes(t, at)
        /\ at \in {"fences", "aborts", "held", "over", "undo", "inserts"}
        /\ at = "undo" => Pays(t)
        /\ Acquire(t) => at = "fences"
        /\ ClearFences(t) => at = "aborts"
        /\ AbortPending(t) => at = "held"
  BY DEF Acquire, ClearFences, AbortPending, Leave, Pays
<1>2. Live(t) /\ UNCHANGED <<paid, unassigned, moved, crossed>>
  <2>1. Live(t) /\ UNCHANGED <<money, history>>
    BY <1>0 DEF Acquire, ClearFences, AbortPending, Live, docs
  <2> QED  BY <2>1 DEF money, history
<1>3. /\ task' = [x \in Task |-> task'[x]]
      /\ \A x \in Task : IsRequest(task'[x]) /\ (x # t => task'[x] = task[x])
      /\ task'[t].at = at
      /\ Matched(t)'
      /\ \A x \in Task : Live(x)' /\ Spends(x)' =>
           Live(x) /\ Spends(x) /\ DocOf(x)' = DocOf(x)
  BY <1>1, <1>2, Elsewhere DEF IInv
<1>4. /\ fence' \in [Withdrawal -> Task \cup {None}]
      /\ transfer' \in [Doc -> {"none", "pending", "confirmed", "aborted"}]
      /\ lock' \in Task \cup {None}
      /\ \A w \in Withdrawal : fence'[w] \in {fence[w], None}
      /\ \A d \in Doc : \/ transfer'[d] = transfer[d]
                        \/ transfer'[d] = "aborted" /\ transfer[d] = "pending"
  BY <1>0 DEF Acquire, ClearFences, AbortPending, IInv, Typed, docs, budget
<1>5. Typed'
  <2>1. crossed' \in BOOLEAN
    BY <1>2, Zenon DEF IInv, Typed
  <2> QED  BY <1>2, <1>3, <1>4, <2>1 DEF IInv, Typed
<1>6. /\ InAccount' = InAccount /\ Available' = Available
      /\ \A x \in Task : x # t => /\ AmountOf(x)' = AmountOf(x)
                                  /\ Spends(x)' = Spends(x) /\ Pays(x)' = Pays(x)
                                  /\ DocOf(x)' = DocOf(x) /\ Live(x)' = Live(x)
                                  /\ FromAccount(x)' = FromAccount(x)
                                  /\ \A d : WorksOn(x, d)' = WorksOn(x, d)
      /\ \A d : ~WorksOn(t, d)'
  <2>1. InAccount' = InAccount /\ Available' = Available
    BY <1>2 DEF InAccount, Available
  <2>2. \A d : ~WorksOn(t, d)'
    BY <1>1, <1>3 DEF WorksOn
  <2> QED  BY <1>3, <2>1, <2>2 DEF AmountOf, Spends, Pays, DocOf, Live, FromAccount, WorksOn
<1>7. \A x \in Task : Live(x) /\ Spends(x) => DocOf(x) \in Doc
  BY DEF IInv, Matched, Live, Spends, DocOf, Doc, Admin
<1>8. ASSUME NEW e \in Task, Strong(e)' PROVE Strong(e) /\ e # t
  <2>1. e # t /\ task'[e] = task[e] /\ task[e].at = "authorised" /\ Live(e)
    BY <1>1, <1>3, <1>8 DEF Strong, Live
  <2>2. CASE Pays(e) /\ fence'[task[e].of] = e
    <3>1. task[e].of \in Withdrawal
      BY <2>1, <2>2 DEF IInv, Matched
    <3> QED  BY <1>4, <2>1, <2>2, <3>1, SpendAssumption DEF Strong
  <2>3. CASE Spends(e) /\ transfer'[DocOf(e)] = "pending" /\ ~crossed'
    <3>1. DocOf(e) \in Doc
      BY <1>7, <2>1, <2>3
    <3> QED  BY <1>2, <1>4, <2>1, <2>3, <3>1 DEF Strong
  <2> QED  BY <1>6, <1>8, <2>1, <2>2, <2>3 DEF Strong
<1>9. ASSUME NEW x \in Task
      PROVE  Matched(x)' /\ Informed(x)' /\ Unconfirmed(x)'
  <2>1. CASE x = t
    <3>1. ~Leans(t)' /\ ~Strong(t)'
      BY <1>1, <1>3 DEF Leans, Strong
    <3> QED  BY <1>3, <1>6, <2>1, <3>1 DEF Informed, Unconfirmed
  <2>2. CASE x # t
    <3>1. Matched(x)'
      BY <1>3, <1>6, <2>2 DEF IInv, Matched
    <3>2. Leans(x)' => lock = x
      BY <1>0, <1>1, <1>3, <2>2, SpendAssumption DEF Acquire, ClearFences,
         AbortPending, Leans, budget
    <3>3. Informed(x)'
      BY <1>2, <1>3, <1>6, <1>8, <2>2, <3>2 DEF IInv, Informed, Leans
    <3>4. Unconfirmed(x)'
      BY <1>2, <1>4, <1>6, <2>2 DEF IInv, Unconfirmed
    <3> QED  BY <3>1, <3>3, <3>4
  <2> QED  BY <2>1, <2>2
<1>10. Private'
  BY <1>2, <1>6 DEF IInv, Private
<1>11. NeverOverdrawn'
  BY <1>2, <1>6 DEF IInv, NeverOverdrawn
<1>12. ASSUME NEW e \in Task, Strong(e)' PROVE lock' = e \/ Superseded(e)'
  <2>1. Strong(e) /\ e # t /\ task'[e] = task[e] /\ (lock = e \/ Superseded(e))
    BY <1>3, <1>8, <1>12 DEF IInv, Alone
  <2>2. CASE Acquire(t)
    BY <1>1, <1>3, <2>2 DEF Acquire, Superseded
  <2>3. CASE ClearFences(t)
    <3>1. lock' = lock
      BY <2>3 DEF ClearFences, budget
    <3>2. CASE lock = t
      <4>1. Pays(e) => fence'[task[e].of] = None
        BY <2>1, <2>3 DEF ClearFences, IInv, Matched, Strong, Live
      <4>2. Spends(e)'
        BY <1>6, <1>12, <2>1, <4>1, SpendAssumption DEF Strong
      <4> QED  BY <1>1, <1>3, <2>3, <3>1, <3>2, <4>2 DEF Superseded
    <3>3. CASE lock # t
      BY <1>3, <1>6, <2>1, <3>1, <3>3 DEF Superseded
    <3> QED  BY <3>2, <3>3
  <2>4. CASE AbortPending(t)
    <3>1. lock' = lock /\ fence' = fence
      BY <2>4 DEF AbortPending, budget
    <3>2. CASE lock = t
      <4>1. Spends(e)
        BY <2>1, <2>4, <3>2 DEF AbortPending, Superseded
      <4>2. DocOf(e) \in Doc
        BY <1>7, <2>1, <4>1 DEF Strong, Live
      <4>3. transfer'[DocOf(e)] # "pending"
        BY <2>4, <4>2 DEF AbortPending
      <4>4. ~Pays(e)
        BY <4>1 DEF Pays, Spends
      <4> QED  BY <1>6, <1>12, <2>1, <4>3, <4>4 DEF Strong
    <3>3. CASE lock # t
      BY <1>3, <1>6, <2>1, <3>1, <3>3 DEF Superseded
    <3> QED  BY <3>2, <3>3
  <2>5. CASE Leave(t)
    <3>1. lock # t
      BY <1>0, <2>1, <2>5 DEF Superseded
    <3>2. lock' = lock
      BY <1>0, <2>5, <3>1
    <3> QED  BY <1>3, <1>6, <2>1, <3>1, <3>2 DEF Superseded
  <2> QED  BY <2>2, <2>3, <2>4, <2>5
<1>13. Alone' /\ OneAtMost'
  BY <1>8, <1>12 DEF IInv, Alone, OneAtMost
<1> QED  BY <1>5, <1>9, <1>10, <1>11, <1>13 DEF IInv

\* The holder of the turn passes its authority check: from here on it can spend.
LEMMA AuthorityStep ==
  ASSUME IInv, NEW t \in Task, lock = t,
         PayAuthority(t) \/ TransferAuthority(t)
  PROVE  IInv'
<1>1. /\ Goes(t, "authorised")
      /\ UNCHANGED <<lock, paid, unassigned, moved, crossed>>
      /\ fence' = fence /\ transfer' = transfer
      /\ task[t].at \in {"read", "provisional"}
      /\ Pays(t) \/ Spends(t)
  <2>1. Typed /\ Matched(t)
    BY DEF IInv
  <2> QED  BY <2>1 DEF PayAuthority, TransferAuthority, budget, docs, money, history,
           Matched, Live
<1>2. PICK r : r = Kept(t, "authorised")
  OBVIOUS
<1>3. /\ IsRequest(r) /\ r.at = "authorised" /\ r.kind = task[t].kind
      /\ r.of = task[t].of /\ r.seen = task[t].seen /\ r.held = task[t].held
      /\ r.account = task[t].account
  <2>1. IsRequest(task[t])
    BY DEF IInv, Typed
  <2> QED  BY <1>2, <2>1 DEF Kept, Idle, IsRequest
<1>4. /\ task' = [task EXCEPT ![t] = r]
      /\ \A x \in Task : task'[x] = IF x = t THEN r ELSE task[x]
  BY <1>1, <1>2 DEF Goes, IInv, Typed
<1>5. Typed'
  <2>1. crossed' \in BOOLEAN
    BY <1>1, Zenon DEF IInv, Typed
  <2> QED  BY <1>1, <1>3, <1>4, <2>1 DEF IInv, Typed
<1>6. /\ InAccount' = InAccount /\ Available' = Available
      /\ \A x \in Task : /\ AmountOf(x)' = AmountOf(x) /\ DocOf(x)' = DocOf(x)
                         /\ Spends(x)' = Spends(x) /\ Pays(x)' = Pays(x)
                         /\ Live(x)' = Live(x)
                         /\ x # t => FromAccount(x)' = FromAccount(x)
                         /\ \A d : x # t => WorksOn(x, d)' = WorksOn(x, d)
  <2>1. InAccount' = InAccount /\ Available' = Available
    BY <1>1 DEF InAccount, Available
  <2> QED  BY <1>1, <1>3, <1>4, <2>1
           DEF AmountOf, DocOf, Spends, Pays, Live, FromAccount, WorksOn
<1>t. /\ FromAccount(t)' => FromAccount(t) /\ Leans(t)
      /\ \A d : WorksOn(t, d)' => WorksOn(t, d)
      /\ Leans(t)
  <2>1. Pays(t) => task[t].at = "read"
    BY <1>1 DEF IInv, Matched, Live, Pays, Spends
  <2>2. Spends(t) => task[t].at = "provisional"
    BY DEF PayAuthority, TransferAuthority, Pays, Spends, IInv, Matched, Live
  <2> QED  BY <1>1, <1>3, <1>4, <1>6, <2>1, <2>2 DEF FromAccount, WorksOn, Leans
<1>7. \A e \in Task : ~Strong(e)
  BY <1>1 DEF IInv, Alone, Strong, Superseded
<1>8. \A e \in Task : Strong(e)' => e = t
  BY <1>1, <1>4, <1>6, <1>7 DEF Strong
<1>9. ASSUME NEW x \in Task
      PROVE  Matched(x)' /\ Informed(x)' /\ Unconfirmed(x)'
  <2>1. Matched(x)'
    BY <1>1, <1>3, <1>4, <1>6 DEF IInv, Matched
  <2>2. Leans(x)' \/ Strong(x)' => Leans(x)
    BY <1>1, <1>3, <1>4, <1>6, <1>8, <1>t DEF Leans
  <2>3. FromAccount(x)' => FromAccount(x)
    BY <1>6, <1>t
  <2>4. task'[x].seen = task[x].seen /\ task'[x].held = task[x].held
    BY <1>3, <1>4
  <2>5. Informed(x)'
    BY <1>1, <1>6, <2>2, <2>3, <2>4 DEF IInv, Informed
  <2>6. Unconfirmed(x)'
    BY <1>1, <1>6, <1>t DEF IInv, Unconfirmed
  <2> QED  BY <2>1, <2>5, <2>6
<1>10. Private' /\ NeverOverdrawn'
  BY <1>1, <1>6, <1>t DEF IInv, Private, NeverOverdrawn
<1>11. Alone' /\ OneAtMost'
  BY <1>1, <1>8 DEF Alone, OneAtMost
<1> QED  BY <1>5, <1>9, <1>10, <1>11 DEF IInv

\* What the last write of a payment or of a transfer does.
LEMMA SpendFacts ==
  ASSUME IInv, NEW t \in Task, PayClaim(t) \/ Confirm(t)
  PROVE  /\ AmountOf(t) \in Nat
         /\ \/ /\ Strong(t) /\ PayClaim(t) /\ moved' = moved
               /\ task[t].seen = Available /\ AmountOf(t) <= Available
               /\ Available' = Available - AmountOf(t)
               /\ \/ ~task[t].account /\ InAccount' = InAccount
                  \/ /\ task[t].account /\ InAccount' = InAccount - AmountOf(t)
                     /\ ~crossed => task[t].held = InAccount /\ AmountOf(t) <= InAccount
            \/ /\ Strong(t) /\ Confirm(t) /\ UNCHANGED <<paid, unassigned>>
               /\ InAccount' = InAccount - AmountOf(t)
               /\ task[t].held = InAccount /\ AmountOf(t) <= InAccount
            \/ UNCHANGED <<paid, unassigned, moved, fence, transfer>>
            \/ crossed /\ Confirm(t) /\ UNCHANGED <<paid, unassigned, fence>>
         /\ \A d \in Doc : transfer[d] = "confirmed" => transfer'[d] = "confirmed"
<1>1. /\ Typed /\ Matched(t) /\ Informed(t) /\ task[t].at = "authorised" /\ Live(t)
      /\ paid \in Int /\ unassigned \in Int /\ moved \in Int /\ Funds \in Nat
  BY SpendAssumption DEF IInv, Typed, PayClaim, Confirm, Live
<1>2. AmountOf(t) \in Nat /\ (Spends(t) => DocOf(t) \in Doc)
  <2>1. Pays(t) \/ Spends(t)
    BY DEF PayClaim, Confirm
  <2>2. task[t].of \in Withdrawal \cup Op \cup Task
    BY <1>1, <2>1 DEF Matched, Pays, Spends
  <2> QED  BY <1>1, <2>2, SpendAssumption DEF AmountOf, Matched, Spends, DocOf, Doc,
           Admin
<1>3. CASE PayClaim(t)
  <2>1. Pays(t) /\ ~Spends(t) /\ transfer' = transfer /\ moved' = moved
    BY <1>3 DEF PayClaim, Pays, Spends
  <2>2. CASE status[task[t].of] = task[t].was /\ fence[task[t].of] = t
    <3>1. /\ paid' = paid + AmountOf(t)
          /\ unassigned' = unassigned + (IF task[t].account THEN 0 ELSE AmountOf(t))
      BY <1>3, <2>2 DEF PayClaim
    <3>2. Strong(t)
      BY <1>1, <2>1, <2>2 DEF Strong
    <3>3. /\ task[t].seen = Available /\ AmountOf(t) <= Available
          /\ task[t].account /\ ~crossed => task[t].held = InAccount
                                            /\ AmountOf(t) <= InAccount
      BY <1>1, <2>1, <3>2 DEF Informed, FromAccount
    <3>4. Available' = Available - AmountOf(t)
      BY <1>1, <1>2, <3>1 DEF Available
    <3>5. \/ ~task[t].account /\ InAccount' = InAccount
          \/ task[t].account /\ InAccount' = InAccount - AmountOf(t)
      BY <1>1, <1>2, <2>1, <3>1 DEF InAccount
    <3> QED  BY <1>2, <1>3, <2>1, <3>2, <3>3, <3>4, <3>5
  <2>3. CASE ~(status[task[t].of] = task[t].was /\ fence[task[t].of] = t)
    <3>1. UNCHANGED <<paid, unassigned, fence>>
      BY <1>3, <2>3 DEF PayClaim
    <3> QED  BY <1>2, <2>1, <3>1
  <2> QED  BY <2>2, <2>3
<1>4. CASE Confirm(t)
  <2>1. /\ Spends(t) /\ ~Pays(t) /\ DocOf(t) \in Doc
        /\ UNCHANGED <<paid, unassigned, fence>>
    BY <1>2, <1>4 DEF Confirm, Spends, Pays
  <2>2. \A d \in Doc : transfer[d] = "confirmed" => transfer'[d] = "confirmed"
    BY <1>1, <1>4, <2>1 DEF Confirm, Typed
  <2>3. CASE transfer[DocOf(t)] # "pending"
    BY <1>2, <1>4, <2>1, <2>2, <2>3 DEF Confirm
  <2>4. CASE transfer[DocOf(t)] = "pending" /\ ~crossed
    <3>1. Strong(t)
      BY <1>1, <2>1, <2>4 DEF Strong
    <3>2. task[t].held = InAccount /\ AmountOf(t) <= InAccount
      BY <1>1, <2>1, <2>4, <3>1 DEF Informed, FromAccount
    <3>3. moved' = moved + AmountOf(t)
      BY <1>4, <2>4 DEF Confirm
    <3>4. InAccount' = InAccount - AmountOf(t)
      BY <1>1, <1>2, <2>1, <3>3 DEF InAccount
    <3> QED  BY <1>2, <1>4, <2>1, <2>2, <3>1, <3>2, <3>4
  <2>5. CASE crossed
    BY <1>2, <1>4, <2>1, <2>2, <2>5
  <2> QED  BY <2>3, <2>4, <2>5
<1> QED  BY <1>3, <1>4

LEMMA LastStep ==
  ASSUME IInv, NEW t \in Task, PayClaim(t) \/ Confirm(t)
  PROVE  IInv'
<1>1. PICK r :
        /\ IsRequest(r) /\ task' = [task EXCEPT ![t] = r]
        /\ r.at \in {"leaves", "releases"} /\ r.kind = task[t].kind
        /\ r.of = task[t].of
  <2>1. \/ Goes(t, "leaves")
        \/ task' = [task EXCEPT ![t].at = "releases", ![t].ok = TRUE]
    BY DEF PayClaim, Confirm
  <2>2. CASE Goes(t, "leaves")
    <3>1. PICK r : r = Kept(t, "leaves")
      OBVIOUS
    <3>2. IsRequest(r) /\ r.at = "leaves" /\ r.kind = task[t].kind /\ r.of = task[t].of
      BY <3>1, Shapes
    <3> QED  BY <2>2, <3>1, <3>2 DEF Goes
  <2>3. CASE task' = [task EXCEPT ![t].at = "releases", ![t].ok = TRUE]
    <3>1. PICK r : r = [task[t] EXCEPT !.at = "releases", !.ok = TRUE]
      OBVIOUS
    <3>2. IsRequest(task[t]) /\ task = [x \in Task |-> task[x]]
      BY DEF IInv, Typed
    <3>3. IsRequest(r) /\ r.at = "releases" /\ r.kind = task[t].kind /\ r.of = task[t].of
      BY <3>1, <3>2 DEF IsRequest
    <3>4. task' = [task EXCEPT ![t] = r]
      BY <2>3, <3>1, <3>2
    <3> QED  BY <3>3, <3>4
  <2> QED  BY <2>1, <2>2, <2>3
<1>2. /\ \A x \in Task : task'[x] = IF x = t THEN r ELSE task[x]
      /\ UNCHANGED <<lock, crossed>>
      /\ task[t].at = "authorised" /\ Live(t) /\ Matched(t)
  BY <1>1 DEF IInv, Typed, PayClaim, Confirm, budget, history, Live
<1>3. /\ fence' \in [Withdrawal -> Task \cup {None}]
      /\ transfer' \in [Doc -> {"none", "pending", "confirmed", "aborted"}]
      /\ \A w \in Withdrawal : fence'[w] \in {fence[w], None}
      /\ \A d \in Doc : \/ transfer'[d] = transfer[d]
                        \/ transfer'[d] = "confirmed" /\ d = DocOf(t) /\ Spends(t)
      /\ paid' \in Int /\ unassigned' \in Nat /\ moved' \in Int
  <2>1. AmountOf(t) \in Nat
    BY SpendFacts
  <2>2. /\ paid' \in {paid, paid + AmountOf(t)}
        /\ unassigned' \in {unassigned, unassigned + AmountOf(t), unassigned + 0}
        /\ moved' \in {moved, moved + AmountOf(t)}
    BY DEF PayClaim, Confirm
  <2>3. paid \in Int /\ unassigned \in Nat /\ moved \in Int
    BY DEF IInv, Typed
  <2>4. paid' \in Int /\ unassigned' \in Nat /\ moved' \in Int
    BY <2>1, <2>2, <2>3
  <2> QED  BY <2>4 DEF IInv, Typed, PayClaim, Confirm
<1>4. Typed'
  <2>1. crossed' \in BOOLEAN
    BY <1>2, Zenon DEF IInv, Typed
  <2> QED  BY <1>1, <1>2, <1>3, <2>1 DEF IInv, Typed
<1>5. /\ \A x \in Task : x # t => /\ AmountOf(x)' = AmountOf(x) /\ DocOf(x)' = DocOf(x)
                                  /\ Spends(x)' = Spends(x) /\ Pays(x)' = Pays(x)
                                  /\ Live(x)' = Live(x)
                                  /\ FromAccount(x)' = FromAccount(x)
                                  /\ \A d : WorksOn(x, d)' = WorksOn(x, d)
      /\ \A d : ~WorksOn(t, d)'
      /\ ~Leans(t)' /\ ~Strong(t)' /\ Matched(t)'
  BY <1>1, <1>2 DEF AmountOf, DocOf, Spends, Pays, Live, FromAccount, WorksOn, Leans,
     Strong, Matched
<1>6. \A x \in Task : Live(x) /\ Spends(x) => DocOf(x) \in Doc
  BY DEF IInv, Matched, Live, Spends, DocOf, Doc, Admin
<1>7. ASSUME NEW e \in Task, Strong(e)' PROVE Strong(e) /\ e # t
  <2>1. e # t /\ task'[e] = task[e] /\ task[e].at = "authorised" /\ Live(e)
    BY <1>1, <1>2, <1>7 DEF Strong, Live
  <2>2. CASE Pays(e) /\ fence'[task[e].of] = e
    <3>1. task[e].of \in Withdrawal
      BY <2>1, <2>2 DEF IInv, Matched
    <3> QED  BY <1>3, <2>1, <2>2, <3>1, SpendAssumption DEF Strong
  <2>3. CASE Spends(e) /\ transfer'[DocOf(e)] = "pending" /\ ~crossed'
    <3>1. DocOf(e) \in Doc
      BY <1>6, <2>1, <2>3
    <3> QED  BY <1>2, <1>3, <2>1, <2>3, <3>1 DEF Strong
  <2> QED  BY <1>5, <1>7, <2>1, <2>2, <2>3 DEF Strong
<1>8. /\ Informed(t)' /\ Unconfirmed(t)' /\ crossed' \in BOOLEAN
      /\ (crossed => crossed') /\ (~crossed' => ~crossed)
  BY <1>2, <1>4, <1>5 DEF Informed, Unconfirmed, Typed
<1>9. CASE UNCHANGED <<paid, unassigned, moved, fence, transfer>>
  <2>1. UNCHANGED <<lock, paid, unassigned>> /\ moved' = moved /\ task[t].at # "over"
    BY <1>2, <1>9
  <2> QED  BY <1>1, <1>2, <1>3, <1>5, <1>8, <1>9, <2>1, TaskStep
<1>10. CASE crossed /\ UNCHANGED <<paid, unassigned, fence>>
  <2>1. UNCHANGED <<lock, paid, unassigned>> /\ task[t].at # "over" /\ fence' = fence
    BY <1>2, <1>10
  <2> QED  BY <1>1, <1>2, <1>3, <1>5, <1>8, <1>10, <2>1, TaskStep
<1>11. ASSUME Strong(t), Available' >= 0, ~crossed => InAccount' >= 0
       PROVE  IInv'
  <2>1. \A e \in Task : ~Strong(e)'
    BY <1>7, <1>11 DEF IInv, OneAtMost
  <2>2. ASSUME NEW x \in Task, x # t
        PROVE  Matched(x)' /\ Informed(x)' /\ Unconfirmed(x)'
    <3>1. Matched(x)'
      BY <1>2, <1>5, <2>2 DEF IInv, Matched
    <3>2. ~Leans(x)'
      BY <1>2, <1>5, <1>11, <2>2 DEF IInv, Alone, Leans, Superseded
    <3>3. Unconfirmed(x)'
      <4>1. ASSUME ~crossed, NEW d \in Doc, WorksOn(x, d) PROVE transfer'[d] # "confirmed"
        <5>1. transfer[d] # "confirmed"
          BY <2>2, <4>1 DEF IInv, Unconfirmed
        <5>2. ASSUME d = DocOf(t), Spends(t) PROVE FALSE
          <6>1. WorksOn(t, d)
            BY <1>2, <5>2 DEF WorksOn
          <6> QED  BY <2>2, <4>1, <6>1 DEF IInv, Private
        <5> QED  BY <1>3, <5>1, <5>2
      <4> QED  BY <1>5, <1>8, <2>2, <4>1 DEF Unconfirmed
    <3> QED  BY <2>1, <3>1, <3>2, <3>3 DEF Informed
  <2>3. Private'
    <3>1. ASSUME ~crossed', NEW x \in Task, NEW y \in Task, NEW d \in Doc,
                 WorksOn(x, d)', WorksOn(y, d)'
          PROVE  x = y
      <4>1. x # t /\ y # t
        BY <1>5, <3>1
      <4>2. WorksOn(x, d) /\ WorksOn(y, d) /\ ~crossed
        BY <1>5, <1>8, <3>1, <4>1
      <4> QED  BY <4>2 DEF IInv, Private
    <3> QED  BY <3>1 DEF Private
  <2>4. NeverOverdrawn'
    BY <1>8, <1>11 DEF NeverOverdrawn
  <2>5. Alone' /\ OneAtMost'
    BY <2>1 DEF Alone, OneAtMost
  <2>6. Matched(t)' /\ Informed(t)' /\ Unconfirmed(t)'
    BY <1>5, <1>8
  <2>7. \A x \in Task : Matched(x)' /\ Informed(x)' /\ Unconfirmed(x)'
    BY <2>2, <2>6
  <2> QED  BY <1>4, <2>3, <2>4, <2>5, <2>7 DEF IInv
<1>12. Available \in Int /\ InAccount \in Int /\ Available' \in Int /\ InAccount' \in Int
  BY <1>3, SpendAssumption DEF IInv, Typed, Available, InAccount
<1>13. Available >= 0 /\ (~crossed => InAccount >= 0) /\ AmountOf(t) \in Nat
  BY SpendFacts DEF IInv, NeverOverdrawn
<1>14. CASE /\ Strong(t)
            /\ AmountOf(t) <= Available /\ Available' = Available - AmountOf(t)
            /\ \/ InAccount' = InAccount
               \/ /\ InAccount' = InAccount - AmountOf(t)
                  /\ ~crossed => AmountOf(t) <= InAccount
  BY <1>11, <1>12, <1>13, <1>14
<1>15. CASE /\ Strong(t) /\ UNCHANGED <<paid, unassigned>>
            /\ InAccount' = InAccount - AmountOf(t) /\ AmountOf(t) <= InAccount
  <2>1. Available' = Available
    BY <1>15 DEF Available
  <2> QED  BY <1>11, <1>12, <1>13, <1>15, <2>1
<1> QED  BY <1>9, <1>10, <1>14, <1>15, SpendFacts

-----------------------------------------------------------------------------
\* A request comes in, also for a key that another one is about.
LEMMA StartStep ==
  ASSUME IInv, NEW t \in Task, Start(t)
  PROVE  IInv'
<1>1. PICK kind, of, at, was :
        /\ Starts(t, kind, of, at, was)
        /\ at \in {"asks", "rejects"}
        /\ \/ kind \in {"create", "createPay", "pay", "reject"} /\ of \in Withdrawal
           \/ kind = "transfer" /\ of = t
           \/ kind = "cash" /\ of \in Op
  BY DEF Start, StartCreate, StartPay, StartReject, StartTransfer, StartCash
<1>2. PICK r : r = [Idle EXCEPT !.at = at, !.kind = kind, !.of = of, !.was = was]
  OBVIOUS
<1>3. IsRequest(r) /\ r.at = at /\ r.kind = kind /\ r.of = of
  BY <1>2 DEF Idle, IsRequest
<1>4. /\ task' = [task EXCEPT ![t] = r]
      /\ lock' = lock /\ fence' = fence /\ transfer' = transfer
      /\ UNCHANGED <<paid, unassigned, moved, crossed>>
      /\ task[t] = Idle
  BY <1>1, <1>2 DEF Starts, budget, docs, money, history
<1>5. \A x \in Task : task'[x] = IF x = t THEN r ELSE task[x]
  BY <1>4 DEF IInv, Typed
<1>6. Typed'
  <2>1. crossed' \in BOOLEAN
    BY <1>4, Zenon DEF IInv, Typed
  <2> QED  BY <1>3, <1>4, <1>5, <2>1 DEF IInv, Typed
<1>7. /\ InAccount' = InAccount /\ Available' = Available
      /\ \A x \in Task : x # t =>
           /\ AmountOf(x)' = AmountOf(x) /\ DocOf(x)' = DocOf(x)
           /\ Spends(x)' = Spends(x) /\ Pays(x)' = Pays(x) /\ Live(x)' = Live(x)
           /\ FromAccount(x)' = FromAccount(x)
           /\ \A d : WorksOn(x, d)' = WorksOn(x, d)
      /\ \A d : ~WorksOn(t, d)'
  <2>1. InAccount' = InAccount /\ Available' = Available
    BY <1>4 DEF InAccount, Available
  <2>2. \A d : ~WorksOn(t, d)'
    BY <1>1, <1>3, <1>5 DEF WorksOn
  <2> QED  BY <1>5, <2>1, <2>2 DEF AmountOf, DocOf, Spends, Pays, Live, FromAccount, WorksOn
<1>8. \A e \in Task : Strong(e)' => Strong(e) /\ e # t
  BY <1>1, <1>3, <1>4, <1>5, <1>7 DEF Strong
<1>9. ASSUME NEW x \in Task
      PROVE  Matched(x)' /\ Informed(x)' /\ Unconfirmed(x)'
  <2>1. CASE x = t
    BY <1>1, <1>3, <1>5, <1>7, <2>1 DEF Matched, Pays, Spends, Informed, Leans, Strong,
       Unconfirmed
  <2>2. CASE x # t
    <3>1. task'[x] = task[x]
      BY <1>5, <2>2
    <3>2. Matched(x)' /\ Unconfirmed(x)'
      BY <1>4, <1>7, <2>2, <3>1 DEF IInv, Matched, Unconfirmed
    <3>3. Informed(x)'
      BY <1>4, <1>7, <1>8, <2>2, <3>1 DEF IInv, Informed, Leans
    <3> QED  BY <3>2, <3>3
  <2> QED  BY <2>1, <2>2
<1>10. Private'
  BY <1>4, <1>7 DEF IInv, Private
<1>11. Alone' /\ OneAtMost'
  <2>1. ASSUME NEW e \in Task, Superseded(e), Strong(e)' PROVE Superseded(e)'
    <3>1. task[t].at = "idle" /\ e # t
      BY <1>4, <1>8, <2>1 DEF Idle
    <3> QED  BY <1>4, <1>5, <1>7, <2>1, <3>1 DEF Superseded
  <2> QED  BY <1>4, <1>8, <2>1 DEF IInv, Alone, OneAtMost
<1>12. NeverOverdrawn'
  BY <1>4, <1>7 DEF IInv, NeverOverdrawn
<1> QED  BY <1>6, <1>9, <1>10, <1>11, <1>12 DEF IInv

\* The approval of a withdrawal, the scheduler and the clock.
LEMMA OtherStep ==
  ASSUME IInv,
         \/ \E w \in Withdrawal : Approve(w)
         \/ \E d \in Doc : AbortStale(d)
         \/ ResyncReads \/ ResyncWrites \/ Tick \/ Expire
         \/ UNCHANGED vars
  PROVE  IInv'
<1>1. /\ UNCHANGED <<lock, paid, unassigned, moved, task, crossed>>
      /\ fence' \in [Withdrawal -> Task \cup {None}]
      /\ transfer' \in [Doc -> {"none", "pending", "confirmed", "aborted"}]
      /\ \A w \in Withdrawal : fence'[w] \in {fence[w], None}
      /\ \A d \in Doc : \/ transfer'[d] = transfer[d]
                        \/ transfer'[d] = "aborted" /\ transfer[d] = "pending"
  BY DEF IInv, Typed, Approve, AbortStale, ResyncReads, ResyncWrites, Rewrite, Tick,
     Expire, vars, budget, docs, money, history
<1>2. Typed' /\ NeverOverdrawn' /\ Private'
  <2>1. crossed' \in BOOLEAN
    BY <1>1, Zenon DEF IInv, Typed
  <2>2. Typed'
    BY <1>1, <2>1 DEF IInv, Typed
  <2> QED  BY <1>1, <2>2 DEF IInv, NeverOverdrawn, InAccount, Available, Private, WorksOn,
           Spends, DocOf
<1>3. \A x \in Task : Live(x) /\ Spends(x) => DocOf(x) \in Doc
  BY DEF IInv, Matched, Live, Spends, DocOf, Doc, Admin
<1>4. \A x \in Task : Strong(x)' => Strong(x)
  BY <1>1, <1>3, SpendAssumption DEF IInv, Strong, Matched, Pays, Spends, DocOf, Live
<1>5. ASSUME NEW x \in Task
      PROVE  Matched(x)' /\ Informed(x)' /\ Unconfirmed(x)'
  <2>1. Matched(x)'
    BY <1>1 DEF IInv, Matched, Live, Pays, Spends
  <2>2. Informed(x)'
    BY <1>1, <1>4 DEF IInv, Informed, Leans, Pays, Spends, InAccount, Available,
       FromAccount, AmountOf
  <2>3. Unconfirmed(x)'
    BY <1>1 DEF IInv, Unconfirmed, WorksOn, Spends, DocOf
  <2> QED  BY <2>1, <2>2, <2>3
<1>6. Alone' /\ OneAtMost'
  BY <1>1, <1>4 DEF IInv, Alone, OneAtMost, Superseded, Spends
<1> QED  BY <1>2, <1>5, <1>6 DEF IInv

LEMMA NextStep ==
  ASSUME IInv, [Next]_vars
  PROVE  IInv'
<1>1. ASSUME NEW t \in Task, Step(t) PROVE IInv'
  <2>1. CASE Acquire(t) \/ ClearFences(t) \/ AbortPending(t) \/ Leave(t)
    BY <2>1, TurnStep
  <2>2. CASE \/ GiveUp(t) \/ CreateReads(t) \/ Claim(t) \/ ClaimFails(t)
             \/ HealWrites(t) \/ Insert(t) \/ Release(t) \/ Recount(t)
    BY <2>2, ReservationStep
  <2>3. CASE \/ PutFence(t) \/ PayReads(t) \/ PayAccount(t) \/ Undo(t) \/ Reject(t)
             \/ TransferReads(t) \/ Provisional(t) \/ AbortOwn(t)
    BY <2>3, SpendingStep
  <2>4. CASE PayAuthority(t) \/ TransferAuthority(t)
    <3>1. CASE lock = t
      BY <2>4, <3>1, AuthorityStep
    <3>2. CASE lock # t
      BY <2>4, <3>2, SpendingStep
    <3> QED  BY <3>1, <3>2
  <2>5. CASE PayClaim(t) \/ Confirm(t)
    BY <2>5, LastStep
  <2> QED  BY <1>1, <2>1, <2>2, <2>3, <2>4, <2>5 DEF Step
<1>2. ASSUME NEW t \in Task, Start(t) PROVE IInv'
  BY <1>2, StartStep
<1>3. ASSUME NEW t \in Task, Die(t) PROVE IInv'
  BY <1>3, ReservationStep
<1>4. CASE \/ \E w \in Withdrawal : Approve(w)
           \/ \E d \in Doc : AbortStale(d)
           \/ ResyncReads \/ ResyncWrites \/ Tick \/ Expire
           \/ UNCHANGED vars
  BY <1>4, OtherStep
<1> QED  BY <1>1, <1>2, <1>3, <1>4 DEF Next

LEMMA InitStep ==
  ASSUME Init
  PROVE  IInv
<1>1. /\ \A t \in Task : task[t] = Idle
      /\ task = [t \in Task |-> Idle]
      /\ Idle.at = "idle" /\ Idle.kind = "none" /\ IsRequest(Idle)
  BY DEF Init, Idle, IsRequest
<1>2. Typed
  <2>1. /\ lock \in Task \cup {None}
        /\ fence \in [Withdrawal -> Task \cup {None}]
        /\ transfer \in [Doc -> {"none", "pending", "confirmed", "aborted"}]
    BY DEF Init
  <2>2. /\ paid = 0 /\ unassigned = 0 /\ moved = 0
        /\ crossed = FALSE
    BY Zenon DEF Init
  <2>3. task = [t \in Task |-> task[t]]
    BY <1>1
  <2>4. \A t \in Task : IsRequest(task[t])
    BY <1>1, Zenon
  <2>5. crossed \in BOOLEAN
    BY <2>2, Zenon
  <2>6. paid \in Int /\ unassigned \in Nat /\ moved \in Int
    BY <2>2
  <2> QED  BY <2>1, <2>3, <2>4, <2>5, <2>6, Zenon DEF Typed
<1>3. \A t \in Task : Matched(t) /\ Informed(t) /\ Unconfirmed(t) /\ ~Strong(t)
  BY <1>1 DEF Matched, Informed, Unconfirmed, WorksOn, Strong, Leans, Live, Spends
<1>4. Private
  BY <1>1 DEF Private, WorksOn
<1>5. NeverOverdrawn
  <2>1. paid = 0 /\ unassigned = 0 /\ moved = 0
    BY DEF Init
  <2>2. Available = Funds /\ InAccount = Funds
    BY <2>1, SpendAssumption DEF InAccount, Available
  <2> QED  BY <2>2, SpendAssumption DEF NeverOverdrawn
<1> QED  BY <1>2, <1>3, <1>4, <1>5 DEF IInv, Alone, OneAtMost

LEMMA Invariance == Spec => []IInv
<1>1. Init => IInv
  BY InitStep
<1>2. IInv /\ [Next]_vars => IInv'
  BY NextStep
<1> QED  BY <1>1, <1>2, PTL DEF Spec

\* However slow the holders of the turn are, whoever takes it from them and
\* wherever they die, the fund never pays out more than it holds: the fences
\* (company_fund_budget.py:166-168) leave at most one payment that can still be
\* made, and it has read the fund as it is.  The account holds as well, until two
\* requests of one key have worked on its document at once: the abort of pending
\* documents (169-177) leaves at most one transfer that can still be confirmed.
THEOREM Solvency == Spec => []NeverOverdrawn
<1>1. IInv => NeverOverdrawn
  BY DEF IInv
<1> QED  BY <1>1, Invariance, PTL

\* A payment that is made has seen the fund it is made from; it and a transfer that
\* moves money have seen the account, until two requests of one key have worked on
\* its document at once (admin_company_funds.py:1463-1509,
\* company_fund_accounts.py:555-581).
THEOREM FreshSpending == Spec => SpendsWhatItSaw
<1>1. ASSUME IInv, NEW t \in Task
      PROVE  /\ PayClaim(t) => paid' = paid \/ task[t].seen = Available
             /\ ~crossed => /\ PayClaim(t) => InAccount' = InAccount
                                              \/ task[t].held = InAccount
                            /\ Confirm(t) => InAccount' = InAccount
                                             \/ task[t].held = InAccount
  <2>1. UNCHANGED <<paid, unassigned, moved>> => InAccount' = InAccount
    BY DEF InAccount
  <2>2. ~(PayClaim(t) /\ Confirm(t))
    BY DEF PayClaim, Confirm, Pays, Spends
  <2> QED  BY <1>1, <2>1, <2>2, SpendFacts
<1>2. IInv /\ [Next]_vars =>
        [\A t \in Task :
           /\ PayClaim(t) => paid' = paid \/ task[t].seen = Available
           /\ ~crossed => /\ PayClaim(t) => InAccount' = InAccount
                                            \/ task[t].held = InAccount
                          /\ Confirm(t) => InAccount' = InAccount
                                           \/ task[t].held = InAccount]_vars
  BY <1>1
<1> QED  BY <1>2, Invariance, PTL DEF Spec, SpendsWhatItSaw

\* A transfer that was confirmed is never aborted, neither by its own request
\* (courier_cash.py:321-329), nor by the next holder of the turn, nor by the
\* scheduler, until two requests of its key have worked on its document at once.
THEOREM ConfirmedForGood ==
  Spec => [][\A d \in Doc : transfer[d] = "confirmed" =>
               transfer'[d] = "confirmed" \/ crossed]_vars
<1>1. ASSUME IInv, [Next]_vars, NEW d \in Doc, transfer[d] = "confirmed", ~crossed
      PROVE  transfer'[d] = "confirmed"
  <2>1. ASSUME NEW t \in Task, AbortOwn(t) PROVE transfer'[d] = "confirmed"
    <3>1. Spends(t) /\ WorksOn(t, DocOf(t))
      BY <1>1, <2>1 DEF IInv, AbortOwn, Matched, Live, WorksOn
    <3>2. DocOf(t) # d
      BY <1>1, <3>1 DEF IInv, Unconfirmed
    <3> QED  BY <1>1, <2>1, <3>2 DEF AbortOwn, IInv, Typed
  <2>2. ASSUME NEW t \in Task, Provisional(t) PROVE transfer'[d] = "confirmed"
    BY <1>1, <2>2 DEF Provisional, IInv, Typed
  <2>3. ASSUME NEW t \in Task, PayClaim(t) \/ Confirm(t)
        PROVE  transfer'[d] = "confirmed"
    BY <1>1, <2>3, SpendFacts
  <2>4. ASSUME NEW t \in Task, AbortPending(t) PROVE transfer'[d] = "confirmed"
    BY <1>1, <2>4 DEF AbortPending
  <2>5. ASSUME NEW e \in Doc, AbortStale(e) PROVE transfer'[d] = "confirmed"
    BY <1>1, <2>5 DEF AbortStale, IInv, Typed
  <2>6. ASSUME NEW t \in Task, Leave(t) PROVE transfer'[d] = "confirmed"
    <3>1. transfer' = transfer
      BY <2>6, Zenon DEF Leave
    <3> QED  BY <1>1, <3>1
  <2>7. CASE \/ \E t \in Task :
                  \/ Start(t) \/ Die(t) \/ Acquire(t) \/ GiveUp(t) \/ ClearFences(t)
                  \/ CreateReads(t) \/ Claim(t) \/ ClaimFails(t) \/ HealWrites(t)
                  \/ Insert(t) \/ Release(t) \/ Recount(t) \/ PutFence(t)
                  \/ PayReads(t) \/ PayAccount(t) \/ PayAuthority(t) \/ Undo(t)
                  \/ Reject(t) \/ TransferReads(t) \/ TransferAuthority(t)
             \/ \E w \in Withdrawal : Approve(w)
             \/ ResyncReads \/ ResyncWrites \/ Tick \/ Expire \/ UNCHANGED vars
    BY <1>1, <2>7 DEF Start, StartCreate, StartPay, StartReject, StartTransfer,
       StartCash, Starts, Die, Acquire, GiveUp, ClearFences, CreateReads, Claim,
       ClaimFails, HealWrites, Insert, Release, Recount, PutFence, PayReads,
       PayAccount, PayAuthority, Undo, Reject, TransferReads, TransferAuthority,
       Approve, ResyncReads, ResyncWrites, Tick, Expire, vars, docs
  <2> QED  BY <1>1, <2>1, <2>2, <2>3, <2>4, <2>5, <2>6, <2>7 DEF Next, Step
<1>2. IInv /\ [Next]_vars =>
        [\A d \in Doc : transfer[d] = "confirmed" =>
           transfer'[d] = "confirmed" \/ crossed]_vars
  <2>1. crossed \in BOOLEAN \/ ~IInv
    BY DEF IInv, Typed
  <2> QED  BY <1>1, <2>1
<1> QED  BY <1>2, Invariance, PTL DEF Spec
=============================================================================

-------------------------- MODULE Reservation_proofs --------------------------
(***************************************************************************)
(* What the reservation of the spending turn is worth, for any number of   *)
(* requests, withdrawals and amounts, on top of SpendLock_proofs: unless   *)
(* it was set on the word of a request that stood still, or given back for *)
(* an insertion that had taken effect, it covers what is owed and what is  *)
(* on its way (Backed), so that everything promised fits in the fund       *)
(* (PromisesKept).                                                         *)
(*                                                                         *)
(* A request counts while its withdrawal and its reservation disagree.     *)
(* Every step is a statement about three sums: what is owed, what such     *)
(* requests hold and what creations still bring.                           *)
(***************************************************************************)
EXTENDS SpendLock_proofs, Sums

\* A creation that has reserved and not inserted yet; with those that have
\* settled a withdrawal and not released it, the requests that count.
Comes(r) ==
  r.kind \in {"create", "createPay"} /\ r.ok /\ r.at \in {"leaves", "inserts"}

Counts(r) == Comes(r) \/ r.at \in {"releases", "recounts"}

Extra(r) == IF Comes(r) THEN Amount[r.of] ELSE 0
Weight(r) == IF Counts(r) THEN Amount[r.of] ELSE 0

Coming == [t \in Task |-> Extra(task[t])]
Held == [t \in Task |-> Weight(task[t])]

Due == PendingSum + SumOn(Held, Task)
Promised == PendingSum + SumOn(Coming, Task)

AboutWithdrawals == {"create", "createPay", "pay", "payNew", "reject"}

\* What a request knows.
Proper(r) ==
  /\ r.at \in Places /\ r.sum \in Nat
  /\ r.kind \in AboutWithdrawals => r.of \in Withdrawal
  /\ r.at \in {"releases", "recounts"} => r.kind \in AboutWithdrawals
  /\ r.at = "inserts" => Comes(r)
  /\ r.at = "rejects" => r.kind = "reject"
  /\ r.kind \in {"create", "createPay"} /\ r.ok
       => r.at \in {"leaves", "inserts", "releases", "recounts"}
  /\ r.kind \in {"pay", "payNew", "reject"}
       => r.at \in {"leaves", "releases", "recounts", "undo"}
            \/ r.was \in {"pending", "approved"}

Sized ==
  /\ expired \in BOOLEAN /\ misled \in BOOLEAN
  /\ reserved \in Nat /\ quiet \in 0..2
  /\ current \subseteq Task \cup {None}
  /\ status \in [Withdrawal -> {"none", "pending", "approved", "paid", "rejected"}]
  /\ paid \in Nat /\ moved \in Int
  /\ resync # None => resync \in Nat
  /\ \A t \in Task : Proper(task[t])

\* The reservation covers what is owed and what is on its way.
Backed == ~misled => Due <= reserved

\* What is promised, and what creations are about to add, fits in the fund.
Room == ~misled => Promised <= Available

\* A sum that may still be written covers what will be due.
Recounted ==
  ~misled =>
    /\ \A t \in Task : t \in current /\ task[t].at \in {"heals", "recounts"}
         => Due - Weight(task[t]) <= task[t].sum
    /\ resync # None /\ None \in current => Due <= resync

\* A creation that holds the turn has seen the fund as it is.
SeenFund ==
  \A t \in Task :
    /\ lock = t /\ task[t].kind \in {"create", "createPay"}
    /\ task[t].at \in {"read", "heals"}
    => task[t].seen = Available

RInv == Sized /\ Backed /\ Room /\ Recounted /\ SeenFund

-----------------------------------------------------------------------------
LEMMA Weights ==
  ASSUME NEW r, Proper(r)
  PROVE  /\ Weight(r) \in Nat /\ Extra(r) \in Nat /\ Extra(r) <= Weight(r)
         /\ Weight(r) # 0 => Counts(r)
         /\ Counts(r) => r.of \in Withdrawal /\ Weight(r) = Amount[r.of]
<1>1. Counts(r) => r.of \in Withdrawal
  BY DEF Proper, Counts, Comes, AboutWithdrawals
<1>2. Comes(r) => Counts(r)
  BY DEF Counts
<1>3. \A w \in Withdrawal : Amount[w] \in Nat
  BY SpendAssumption
<1> QED  BY <1>1, <1>2, <1>3 DEF Weight, Extra

\* The sums are numbers, and a step of one request changes them by what it weighs.
LEMMA TaskSums ==
  ASSUME Sized
  PROVE  /\ SumOn(Held, Task) \in Nat /\ SumOn(Coming, Task) \in Nat
         /\ SumOn(Coming, Task) <= SumOn(Held, Task)
<1>1. /\ IsFiniteSet(Task)
      /\ \A t \in Task : Held[t] = Weight(task[t]) /\ Coming[t] = Extra(task[t])
  BY SpendAssumption DEF Held, Coming
<1>2. \A t \in Task : Held[t] \in Nat /\ Coming[t] \in Nat /\ Coming[t] <= Held[t]
  BY <1>1, Weights DEF Sized
<1>3. SumOn(Held, Task) \in Nat /\ SumOn(Coming, Task) \in Nat
  BY <1>1, <1>2, SumNat
<1>4. SumOn(Coming, Task) <= SumOn(Held, Task)
  BY <1>1, <1>2, SumLeq
<1> QED  BY <1>3, <1>4

LEMMA TaskChanges ==
  ASSUME Sized, NEW t \in Task, NEW r, Proper(r),
         task = [x \in Task |-> task[x]], task' = [task EXCEPT ![t] = r]
  PROVE  /\ SumOn(Held, Task)' = SumOn(Held, Task) - Weight(task[t]) + Weight(r)
         /\ SumOn(Coming, Task)' = SumOn(Coming, Task) - Extra(task[t]) + Extra(r)
<1>1. PICK f : f = Held
  OBVIOUS
<1>2. PICK g : g = Coming
  OBVIOUS
<1>3. PICK h : h = Held'
  OBVIOUS
<1>4. PICK k : k = Coming'
  OBVIOUS
<1>5. \A x \in Task : task'[x] = IF x = t THEN r ELSE task[x]
  OBVIOUS
<1>6. \A x \in Task :
        /\ f[x] = Weight(task[x]) /\ h[x] = IF x = t THEN Weight(r) ELSE Weight(task[x])
        /\ g[x] = Extra(task[x]) /\ k[x] = IF x = t THEN Extra(r) ELSE Extra(task[x])
  BY <1>1, <1>2, <1>3, <1>4, <1>5 DEF Held, Coming
<1>7. \A x \in Task : f[x] \in Nat /\ h[x] \in Nat /\ g[x] \in Nat /\ k[x] \in Nat
  BY <1>6, Weights DEF Sized
<1>8. IsFiniteSet(Task)
  BY SpendAssumption
<1>9. SumOn(h, Task) = SumOn(f, Task) - f[t] + h[t]
  BY <1>6, <1>7, <1>8, SumChanges
<1>10. SumOn(k, Task) = SumOn(g, Task) - g[t] + k[t]
  BY <1>6, <1>7, <1>8, SumChanges
<1>11. SumOn(Held, Task)' = SumOn(h, Task) /\ SumOn(Coming, Task)' = SumOn(k, Task)
  BY <1>3, <1>4
<1> QED  BY <1>1, <1>2, <1>6, <1>9, <1>10, <1>11

-----------------------------------------------------------------------------
\* What is owed, and what one change of status does to it.
LEMMA OwingSum == PendingSum = SumOn(Amount, Owing)
BY DEF PendingSum, SumOn

LEMMA OwingFacts ==
  /\ IsFiniteSet(Owing) /\ Owing \subseteq Withdrawal
  /\ PendingSum = SumOn(Amount, Owing) /\ PendingSum \in Nat
  /\ \A w \in Withdrawal : Amount[w] \in Nat
<1>1. IsFiniteSet(Owing) /\ Owing \subseteq Withdrawal
  <2>1. Owing \subseteq Withdrawal
    BY DEF Owing
  <2> QED  BY <2>1, SpendAssumption, FS_Subset
<1>2. \A w \in Withdrawal : Amount[w] \in Nat
  BY SpendAssumption
<1>3. SumOn(Amount, Owing) \in Nat
  BY <1>1, <1>2, SumNat
<1> QED  BY <1>1, <1>2, <1>3, OwingSum

LEMMA OwingNext == PendingSum' \in Nat
<1>1. (PendingSum \in Nat)'
  BY OwingFacts, PTL
<1> QED  BY <1>1

LEMMA OwesLess ==
  ASSUME Sized, NEW w \in Withdrawal, NEW s, s \notin {"pending", "approved"},
         status[w] \in {"pending", "approved"}, status' = [status EXCEPT ![w] = s]
  PROVE  PendingSum' = PendingSum - Amount[w]
<1>1. Owing' = Owing \ {w} /\ w \in Owing
  <2>1. \A x \in Withdrawal : status'[x] = IF x = w THEN s ELSE status[x]
    BY DEF Sized
  <2> QED  BY <2>1 DEF Owing
<1>2. PendingSum' = SumOn(Amount, Owing \ {w})
  <2>1. (PendingSum = SumOn(Amount, Owing))'
    BY OwingSum, PTL
  <2> QED  BY <1>1, <2>1
<1>3. SumOn(Amount, Owing) = Amount[w] + SumOn(Amount, Owing \ {w})
  BY <1>1, OwingFacts, SumTakes
<1>4. IsFiniteSet(Owing \ {w})
  BY OwingFacts, FS_Subset
<1>5. SumOn(Amount, Owing \ {w}) \in Nat
  BY <1>4, OwingFacts, SumNat
<1> QED  BY <1>2, <1>3, <1>5, OwingFacts

LEMMA OwesMore ==
  ASSUME Sized, NEW w \in Withdrawal, status' = [status EXCEPT ![w] = "pending"]
  PROVE  PendingSum' \in Nat /\ PendingSum' <= PendingSum + Amount[w]
<1>1. Owing' = Owing \cup {w}
  <2>1. \A x \in Withdrawal : status'[x] = IF x = w THEN "pending" ELSE status[x]
    BY DEF Sized
  <2> QED  BY <2>1 DEF Owing
<1>2. (PendingSum = SumOn(Amount, Owing))'
  BY OwingSum, PTL
<1>3. CASE w \in Owing
  <2>1. Owing' = Owing
    BY <1>1, <1>3
  <2> QED  BY <1>2, <2>1, OwingFacts
<1>4. CASE w \notin Owing
  <2>1. SumOn(Amount, Owing \cup {w}) = Amount[w] + SumOn(Amount, Owing)
    <3>1. \A x \in Owing \cup {w} : Amount[x] \in Int
      BY OwingFacts
    <3> QED  BY <1>4, <3>1, OwingFacts, SumAdds
  <2> QED  BY <1>1, <1>2, <2>1, OwingFacts
<1> QED  BY <1>3, <1>4

LEMMA OwesSame ==
  ASSUME Sized,
         \/ status' = status
         \/ \E w \in Withdrawal : status[w] = "pending"
                                  /\ status' = [status EXCEPT ![w] = "approved"]
  PROVE  PendingSum' = PendingSum
<1>1. Owing' = Owing
  <2>1. \A x \in Withdrawal :
           status'[x] = status[x] \/ (status[x] = "pending" /\ status'[x] = "approved")
    BY DEF Sized
  <2> QED  BY <2>1 DEF Owing
<1>2. (PendingSum = SumOn(Amount, Owing))'
  BY OwingSum, PTL
<1> QED  BY <1>1, <1>2, OwingFacts

-----------------------------------------------------------------------------
\* The three sums are numbers, and what is promised is due.
LEMMA DueFacts ==
  Sized => Due \in Nat /\ Promised \in Nat /\ Promised <= Due
<1> SUFFICES ASSUME Sized PROVE Due \in Nat /\ Promised \in Nat /\ Promised <= Due
  OBVIOUS
<1> QED  BY TaskSums, OwingFacts DEF Due, Promised

LEMMA DueFactsNext ==
  ASSUME Sized'
  PROVE  Due' \in Nat /\ Promised' \in Nat /\ Promised' <= Due'
<1>1. (Due \in Nat /\ Promised \in Nat /\ Promised <= Due)'
  BY DueFacts, PTL
<1> QED  BY <1>1

\* What a step of one request does to the sums.
LEMMA DueChanges ==
  ASSUME Sized, Sized', NEW t \in Task, NEW r, Proper(r),
         task = [x \in Task |-> task[x]], task' = [task EXCEPT ![t] = r],
         PendingSum' \in Nat
  PROVE  /\ Due' = Due + (PendingSum' - PendingSum) + (Weight(r) - Weight(task[t]))
         /\ Promised' = Promised + (PendingSum' - PendingSum)
                                 + (Extra(r) - Extra(task[t]))
<1>1. Proper(task[t])
  BY DEF Sized
<1>2. /\ Weight(r) \in Nat /\ Weight(task[t]) \in Nat
      /\ Extra(r) \in Nat /\ Extra(task[t]) \in Nat
  BY <1>1, Weights
<1>3. Due' = PendingSum' + SumOn(Held, Task)'
  BY DEF Due
<1>4. Promised' = PendingSum' + SumOn(Coming, Task)'
  BY DEF Promised
<1>5. PendingSum \in Nat /\ SumOn(Held, Task) \in Nat /\ SumOn(Coming, Task) \in Nat
  BY TaskSums, OwingFacts
<1>6. /\ SumOn(Held, Task)' = SumOn(Held, Task) - Weight(task[t]) + Weight(r)
      /\ SumOn(Coming, Task)' = SumOn(Coming, Task) - Extra(task[t]) + Extra(r)
  BY TaskChanges
<1> QED  BY <1>2, <1>3, <1>4, <1>5, <1>6 DEF Due, Promised

\* A step that adds to no sum and writes no reservation.
LEMMA CalmStep ==
  ASSUME RInv, Sized', SeenFund', UNCHANGED <<reserved, resync, misled>>,
         current' \subseteq current,
         Due' <= Due, Promised' + paid' <= Promised + paid,
         \A u \in Task : \/ task'[u] = task[u]
                         \/ task'[u].at \notin {"heals", "recounts"}
  PROVE  RInv'
<1>1. /\ Due \in Nat /\ Promised \in Nat /\ Due' \in Nat /\ Promised' \in Nat
      /\ reserved \in Nat /\ paid \in Nat /\ paid' \in Nat
      /\ Funds \in Nat
  BY DueFacts, DueFactsNext, SpendAssumption DEF RInv, Sized
<1>2. misled' = misled
  OBVIOUS
<1>3. Backed'
  <2>1. ~misled => Due' <= reserved
    BY <1>1 DEF RInv, Backed
  <2> QED  BY <2>1 DEF Backed
<1>4. Room'
  <2>0. ~misled => Promised <= Funds - paid
    BY DEF RInv, Room, Available
  <2>1. ASSUME ~misled PROVE Promised' <= Funds - paid'
    <3>1. Promised <= Funds - paid
      BY <2>0, <2>1
    <3>2. \A a, b, c, d, e \in Nat : c <= e - d /\ a + b <= c + d => a <= e - b
      OBVIOUS
    <3> QED  BY <1>1, <3>1, <3>2
  <2> QED  BY <2>1 DEF Room, Available
<1>5. Recounted'
  <2>0. misled' => Recounted'
    BY Zenon DEF Recounted
  <2> SUFFICES ASSUME ~misled PROVE Recounted'
    BY <1>2, <2>0
  <2>1. ASSUME NEW u \in Task, u \in current', task'[u].at \in {"heals", "recounts"}
        PROVE  Due' - Weight(task'[u]) <= task'[u].sum
    <3>1. task'[u] = task[u] /\ u \in current
      BY <2>1
    <3>2. Due - Weight(task[u]) <= task[u].sum
      BY <2>1, <3>1 DEF RInv, Recounted
    <3>3. Weight(task[u]) \in Nat /\ task[u].sum \in Nat
      <4>1. Proper(task[u])
        BY DEF RInv, Sized
      <4> QED  BY <4>1, Weights DEF Proper
    <3> QED  BY <1>1, <3>1, <3>2, <3>3
  <2>2. resync # None /\ None \in current' => Due' <= resync
    BY <1>1 DEF RInv, Recounted, Sized
  <2> QED  BY <2>1, <2>2 DEF Recounted
<1> QED  BY <1>3, <1>4, <1>5 DEF RInv

LEMMA CalmTask ==
  ASSUME IInv, RInv, NEW t \in Task, NEW r, Proper(r),
         task' = [task EXCEPT ![t] = r], r.at \notin {"heals", "recounts"},
         UNCHANGED <<reserved, resync, misled>>, current' \subseteq current,
         expired' \in BOOLEAN, quiet' \in 0..2,
         status' \in [Withdrawal -> {"none", "pending", "approved", "paid", "rejected"}],
         paid' \in Nat, moved' \in Int, PendingSum' \in Nat,
         PendingSum' + Weight(r) <= PendingSum + Weight(task[t]),
         PendingSum' + Extra(r) + paid' <= PendingSum + Extra(task[t]) + paid,
         SeenFund'
  PROVE  RInv'
<1>1. task = [x \in Task |-> task[x]]
  BY DEF IInv, Typed
<1>2. \A x \in Task : task'[x] = IF x = t THEN r ELSE task[x]
  BY <1>1
<1>3. Sized'
  <2>1. \A x \in Task : Proper(task'[x])
    BY <1>2 DEF RInv, Sized
  <2> QED  BY <2>1 DEF RInv, Sized
<1>4. /\ Due' = Due + (PendingSum' - PendingSum) + (Weight(r) - Weight(task[t]))
      /\ Promised' = Promised + (PendingSum' - PendingSum)
                              + (Extra(r) - Extra(task[t]))
  BY <1>1, <1>3, DueChanges DEF RInv
<1>5. /\ Weight(r) \in Nat /\ Weight(task[t]) \in Nat
      /\ Extra(r) \in Nat /\ Extra(task[t]) \in Nat
      /\ Due \in Nat /\ Promised \in Nat /\ PendingSum \in Nat /\ paid \in Nat
  BY Weights, DueFacts, OwingFacts DEF RInv, Sized
<1>6. Due' <= Due /\ Promised' + paid' <= Promised + paid
  <2>1. \A a, b, p, q, v, w \in Nat :
          a = b + (p - q) + (v - w) /\ p + v <= q + w => a <= b
    OBVIOUS
  <2>2. \A a, b, c, d, p, q, v, w \in Nat :
          a = b + (p - q) + (v - w) /\ p + v + c <= q + w + d => a + c <= b + d
    OBVIOUS
  <2>3. Due' \in Nat /\ Promised' \in Nat
    BY <1>3, DueFactsNext
  <2> QED  BY <1>4, <1>5, <2>1, <2>2, <2>3
<1> QED  BY <1>2, <1>3, <1>6, CalmStep

\* Whoever holds the turn at the end of a step has it from before, or is the one
\* that stepped.
LEMMA SeenStep ==
  ASSUME IInv, RInv, NEW t \in Task, NEW r, task' = [task EXCEPT ![t] = r],
         lock' \in {lock, t, None}, paid' = paid,
         lock' = t /\ r.kind \in {"create", "createPay"} /\ r.at \in {"read", "heals"}
           => r.seen = Available
  PROVE  SeenFund'
<1>1. \A x \in Task : task'[x] = IF x = t THEN r ELSE task[x]
  BY DEF IInv, Typed
<1>2. Available' = Available
  BY DEF Available
<1>3. \A x \in Task : lock' = x => lock = x \/ x = t
  BY SpendAssumption
<1> QED  BY <1>1, <1>2, <1>3 DEF SeenFund, RInv

-----------------------------------------------------------------------------
\* A request that only changes where it stands, and what it then weighs.
Fitting(t, at) ==
  /\ at \in Places \ {"heals", "recounts", "rejects"}
  /\ task[t].kind \in {"create", "createPay"} /\ task[t].ok
       => at \in {"leaves", "inserts", "releases", "over"}
  /\ at = "inserts" => task[t].kind \in {"create", "createPay"} /\ task[t].ok
  /\ at = "releases" => task[t].kind \in AboutWithdrawals
  /\ task[t].kind \in {"pay", "payNew", "reject"}
       => at \in {"leaves", "releases", "undo", "over"}
            \/ task[t].at \notin {"leaves", "releases", "recounts", "undo"}

LEMMA KeptProper ==
  ASSUME IInv, RInv, NEW t \in Task, NEW at, Goes(t, at), Fitting(t, at)
  PROVE  \E r : /\ Proper(r) /\ task' = [task EXCEPT ![t] = r] /\ r.at = at
                /\ Counts(r) => r.of = task[t].of
                /\ Counts(r) => \/ at = "releases"
                                \/ /\ task[t].kind \in {"create", "createPay"}
                                   /\ task[t].ok
                /\ Counts(r) => at \in {"leaves", "inserts", "releases"}
                /\ Comes(r) => task[t].kind \in {"create", "createPay"} /\ task[t].ok
                /\ at # "over" => r.kind = task[t].kind
                /\ at \notin {"leaves", "over"} => r.seen = task[t].seen
<1>1. PICK r : r = Kept(t, at)
  OBVIOUS
<1>2. IsRequest(task[t]) /\ Proper(task[t])
  BY DEF IInv, Typed, RInv, Sized
<1>3. CASE at = "over"
  <2>1. r.at = "over" /\ r.kind = "none" /\ r.sum = 0
    BY <1>1, <1>3 DEF Kept, Idle
  <2>2. Proper(r) /\ ~Counts(r) /\ ~Comes(r)
    BY <2>1 DEF Proper, Comes, Counts, AboutWithdrawals, Places
  <2> QED  BY <1>1, <1>3, <2>1, <2>2 DEF Goes
<1>4. CASE at = "leaves"
  <2>1. /\ r.at = "leaves" /\ r.kind = task[t].kind /\ r.of = task[t].of
        /\ r.ok = task[t].ok /\ r.sum = 0
    BY <1>1, <1>2, <1>4 DEF Kept, Idle, IsRequest
  <2>2. Proper(r)
    BY <1>2, <2>1 DEF Proper, Comes, AboutWithdrawals, Places
  <2>3. Counts(r) => task[t].kind \in {"create", "createPay"} /\ task[t].ok
    BY <2>1 DEF Counts, Comes
  <2> QED  BY <1>1, <1>4, <2>1, <2>2, <2>3 DEF Goes, Counts
<1>5. CASE at \notin {"leaves", "over"}
  <2>1. /\ r.at = at /\ r.kind = task[t].kind /\ r.of = task[t].of
        /\ r.ok = task[t].ok /\ r.sum = task[t].sum /\ r.was = task[t].was
        /\ r.seen = task[t].seen
    BY <1>1, <1>2, <1>5 DEF Kept, IsRequest
  <2>2. Proper(r)
    BY <1>2, <1>5, <2>1 DEF Proper, Comes, Fitting, AboutWithdrawals, Places
  <2>3. /\ Counts(r) => at \in {"leaves", "inserts", "releases"}
        /\ Comes(r) => task[t].kind \in {"create", "createPay"} /\ task[t].ok
        /\ Counts(r) => \/ at = "releases"
                        \/ /\ task[t].kind \in {"create", "createPay"}
                           /\ task[t].ok
    BY <2>1 DEF Counts, Comes, Fitting
  <2> QED  BY <1>1, <1>5, <2>1, <2>2, <2>3 DEF Goes
<1> QED  BY <1>3, <1>4, <1>5

LEMMA CalmGoes ==
  ASSUME IInv, RInv, NEW t \in Task, NEW at, Goes(t, at), Fitting(t, at), at # "read",
         UNCHANGED <<reserved, resync, misled>>, status' = status, paid' = paid,
         moved' \in Int, current' \subseteq current,
         expired' \in BOOLEAN, quiet' \in 0..2, lock' \in {lock, t, None},
         at \in {"leaves", "inserts"} /\ task[t].kind \in {"create", "createPay"}
           /\ task[t].ok => Comes(task[t]),
         at = "releases" => Counts(task[t])
  PROVE  RInv'
<1>1. PICK r : /\ Proper(r) /\ task' = [task EXCEPT ![t] = r] /\ r.at = at
               /\ Counts(r) => r.of = task[t].of
               /\ Counts(r) => \/ at = "releases"
                               \/ /\ task[t].kind \in {"create", "createPay"}
                                  /\ task[t].ok
               /\ Counts(r) => at \in {"leaves", "inserts", "releases"}
               /\ Comes(r) => task[t].kind \in {"create", "createPay"} /\ task[t].ok
  BY KeptProper
<1>2. Counts(r) => Counts(task[t])
  BY <1>1 DEF Counts
<1>3. Comes(r) => Comes(task[t]) /\ Counts(r)
  BY <1>1 DEF Comes, Counts
<1>4. Proper(task[t])
  BY DEF RInv, Sized
<1>5. /\ Weight(r) \in Nat /\ Weight(task[t]) \in Nat /\ Weight(r) <= Weight(task[t])
      /\ Extra(r) \in Nat /\ Extra(task[t]) \in Nat /\ Extra(r) <= Extra(task[t])
  <2>1. Weight(r) = Weight(task[t]) \/ Weight(r) = 0
    BY <1>1, <1>2 DEF Weight
  <2>2. Extra(r) = Extra(task[t]) \/ Extra(r) = 0
    BY <1>1, <1>3 DEF Extra
  <2>3. /\ Weight(r) \in Nat /\ Weight(task[t]) \in Nat
        /\ Extra(r) \in Nat /\ Extra(task[t]) \in Nat
    BY <1>1, <1>4, Weights
  <2> QED  BY <2>1, <2>2, <2>3
<1>6. PendingSum' = PendingSum /\ PendingSum \in Nat /\ paid \in Nat
  BY OwesSame, OwingFacts DEF RInv, Sized
<1>7. /\ PendingSum' + Weight(r) <= PendingSum + Weight(task[t])
      /\ PendingSum' + Extra(r) + paid' <= PendingSum + Extra(task[t]) + paid
  BY <1>5, <1>6
<1>8. r.at \notin {"heals", "recounts", "read"}
  BY <1>1 DEF Fitting
<1>9. SeenFund'
  BY <1>1, <1>8, SeenStep
<1>10. /\ status' \in [Withdrawal -> {"none", "pending", "approved", "paid", "rejected"}]
       /\ paid' \in Nat /\ PendingSum' \in Nat
  BY <1>6 DEF RInv, Sized
<1> QED  BY <1>1, <1>7, <1>8, <1>9, <1>10, CalmTask

LEMMA Ranges ==
  ASSUME RInv
  PROVE  /\ expired \in BOOLEAN /\ quiet \in 0..2 /\ moved \in Int /\ paid \in Nat
         /\ reserved \in Nat
         /\ status \in [Withdrawal -> {"none", "pending", "approved", "paid", "rejected"}]
         /\ \A t \in Task : Proper(task[t])
BY Zenon DEF RInv, Sized

\* The steps that leave the sums and the reservation alone.
LEMMA TurnKeeps ==
  ASSUME IInv, RInv, NEW t \in Task,
         Acquire(t) \/ GiveUp(t) \/ ClearFences(t) \/ AbortPending(t) \/ Die(t)
  PROVE  RInv'
<1>1. PICK at :
        /\ Goes(t, at) /\ at \in {"fences", "undo", "over", "aborts", "held"}
        /\ at # "over" => task[t].at \in {"asks", "fences", "aborts"}
        /\ at = "undo" => task[t].kind = "payNew"
  BY DEF Acquire, GiveUp, ClearFences, AbortPending, Die
<1>2. Proper(task[t])
  BY DEF RInv, Sized
<1>3. Fitting(t, at)
  BY <1>1, <1>2 DEF Fitting, Proper, Places
<1>4. /\ UNCHANGED <<reserved, resync, misled>> /\ status' = status /\ paid' = paid
      /\ moved' = moved /\ current' \subseteq current
      /\ expired' \in {expired, FALSE} /\ quiet' \in {quiet, 0}
      /\ lock' \in {lock, t, None}
  BY DEF Acquire, GiveUp, ClearFences, AbortPending, Die, Touch, budget, docs, money,
         history
<1>5. moved' \in Int /\ expired' \in BOOLEAN /\ quiet' \in 0..2
  <2>1. expired' \in BOOLEAN
    BY <1>4, Ranges, Zenon
  <2>2. moved' \in Int /\ quiet' \in 0..2
    BY <1>4, Ranges
  <2> QED  BY <2>1, <2>2
<1> QED  BY <1>1, <1>3, <1>4, <1>5, CalmGoes

LEMMA LeaveKeeps ==
  ASSUME IInv, RInv, NEW t \in Task, Leave(t)
  PROVE  RInv'
<1>1. PICK at : at = CASE task[t].kind \in {"create", "createPay"} /\ task[t].ok -> "inserts"
                       [] task[t].kind = "payNew" /\ ~task[t].ok -> "undo"
                       [] OTHER -> "over"
  OBVIOUS
<1>2. task[t].at = "leaves" /\ Goes(t, at)
  BY <1>1, Zenon DEF Leave
<1>3. \/ at = "inserts" /\ task[t].kind \in {"create", "createPay"} /\ task[t].ok
      \/ at = "undo" /\ task[t].kind = "payNew"
      \/ at = "over"
  BY <1>1, Zenon
<1>4. Fitting(t, at) /\ (at = "inserts" => Comes(task[t])) /\ at \notin {"read", "releases", "leaves"}
  BY <1>2, <1>3 DEF Fitting, Comes, Places
<1>5. /\ UNCHANGED <<reserved, resync, misled>> /\ status' = status /\ paid' = paid
      /\ moved' = moved
      /\ \/ lock = t /\ lock' = None /\ expired' = FALSE /\ Touch
         \/ UNCHANGED <<lock, expired, quiet, current>>
  BY Zenon DEF Leave, money, history
<1>6. /\ moved' \in Int /\ expired' \in BOOLEAN /\ quiet' \in 0..2
      /\ current' \subseteq current /\ lock' \in {lock, t, None}
  <2>1. expired' \in BOOLEAN
    BY <1>5, Ranges, Zenon
  <2>2. /\ moved' \in Int /\ quiet' \in 0..2
        /\ current' \subseteq current /\ lock' \in {lock, t, None}
    BY <1>5, Ranges DEF Touch
  <2> QED  BY <2>1, <2>2
<1> QED  BY <1>2, <1>4, <1>5, <1>6, CalmGoes

LEMMA GoesAway ==
  ASSUME IInv, RInv, NEW t \in Task, NEW at, Goes(t, at),
         at \in {"leaves", "fenced", "authorised", "provisional", "refused", "over"},
         at = "over"
           \/ task[t].at \notin {"leaves", "inserts", "releases", "recounts", "undo"},
         UNCHANGED <<budget, status, paid, resync, misled>>, moved' \in Int
  PROVE  RInv'
<1>1. Proper(task[t])
  BY Ranges
<1>2. Fitting(t, at)
  BY <1>1 DEF Fitting, Proper, Places
<1>3. at = "leaves" => ~(task[t].kind \in {"create", "createPay"} /\ task[t].ok)
  BY <1>1 DEF Proper
<1>4. /\ UNCHANGED <<reserved, resync, misled>> /\ status' = status /\ paid' = paid
      /\ current' \subseteq current /\ expired' = expired /\ quiet' \in 0..2
      /\ lock' \in {lock, t, None}
  BY Ranges DEF budget
<1>5. expired' \in BOOLEAN
  BY <1>4, Ranges, Zenon
<1> QED  BY <1>2, <1>3, <1>4, <1>5, CalmGoes

LEMMA SpendsAmount ==
  ASSUME IInv, NEW t \in Task, Live(t), Spends(t)
  PROVE  AmountOf(t) \in Nat
<1>1. task[t].of \in Op \cup Task
  BY DEF IInv, Matched, Spends
<1> QED  BY <1>1, SpendAssumption DEF AmountOf

LEMMA AwayKeeps ==
  ASSUME IInv, RInv, NEW t \in Task,
         \/ PutFence(t) \/ PayAuthority(t) \/ Provisional(t) \/ TransferAuthority(t)
         \/ AbortOwn(t) \/ Confirm(t)
  PROVE  RInv'
<1>1. CASE PutFence(t)
  BY <1>1, GoesAway, Ranges DEF PutFence, money, history
<1>2. CASE PayAuthority(t)
  <2>1. PICK at : at = IF lock = t THEN "authorised" ELSE "leaves"
    OBVIOUS
  <2> QED  BY <1>2, <2>1, GoesAway, Ranges DEF PayAuthority, docs, money, history
<1>3. CASE Provisional(t)
  <2>1. PICK at : at = IF transfer[DocOf(t)] = "confirmed" THEN "leaves" ELSE "provisional"
    OBVIOUS
  <2>2. /\ Goes(t, at) /\ task[t].at = "read"
        /\ UNCHANGED <<budget, status, money, resync, misled>>
    BY <1>3, <2>1 DEF Provisional
  <2> QED  BY <2>1, <2>2, GoesAway, Ranges DEF money
<1>4. CASE TransferAuthority(t)
  <2>1. PICK at : at = IF lock = t THEN "authorised" ELSE "refused"
    OBVIOUS
  <2> QED  BY <1>4, <2>1, GoesAway, Ranges DEF TransferAuthority, docs, money,
                              history
<1>5. CASE AbortOwn(t)
  <2>1. /\ Goes(t, "leaves") /\ task[t].at = "refused"
        /\ moved' \in {moved, moved - AmountOf(t)}
        /\ UNCHANGED <<budget, status, paid, resync, misled>>
    BY <1>5 DEF AbortOwn, history
  <2>2. AmountOf(t) \in Nat
    BY <1>5, <2>1, SpendsAmount DEF IInv, Matched, Live
  <2>3. moved' \in Int
    BY <2>1, <2>2, Ranges
  <2> QED  BY <2>1, <2>3, GoesAway
<1>6. CASE Confirm(t)
  <2>1. /\ Goes(t, "leaves") /\ task[t].at = "authorised"
        /\ moved' \in {moved, moved + AmountOf(t)}
        /\ UNCHANGED <<budget, status, paid, resync, misled>>
    BY <1>6 DEF Confirm, history
  <2>2. AmountOf(t) \in Nat
    BY <1>6, <2>1, SpendsAmount DEF Confirm, Live
  <2>3. moved' \in Int
    BY <2>1, <2>2, Ranges
  <2> QED  BY <2>1, <2>3, GoesAway
<1> QED  BY <1>1, <1>2, <1>3, <1>4, <1>5, <1>6

LEMMA WeighsNothing ==
  ASSUME IInv, RInv, NEW t \in Task, NEW r, Proper(r), ~Counts(r), r.at # "heals",
         task' = [task EXCEPT ![t] = r],
         r.kind \in {"create", "createPay"} /\ r.at = "read" => r.seen = Available,
         UNCHANGED <<budget, docs, resync, misled>>
  PROVE  RInv'
<1>1. ~Comes(r) /\ r.at \notin {"heals", "recounts"}
  BY DEF Counts
<1>2. /\ Weight(r) = 0 /\ Extra(r) = 0
      /\ Weight(task[t]) \in Nat /\ Extra(task[t]) \in Nat
  BY <1>1, Ranges, Weights DEF Weight, Extra
<1>3. /\ UNCHANGED <<reserved, resync, misled>> /\ status' = status /\ paid' = paid
      /\ moved' = moved /\ current' \subseteq current /\ expired' = expired
      /\ quiet' = quiet /\ lock' \in {lock, t, None}
  BY DEF budget, docs, money
<1>4. PendingSum' = PendingSum /\ PendingSum \in Nat
  BY <1>3, OwesSame, OwingFacts DEF RInv
<1>5. /\ PendingSum' \in Nat
      /\ PendingSum' + Weight(r) <= PendingSum + Weight(task[t])
      /\ PendingSum' + Extra(r) + paid' <= PendingSum + Extra(task[t]) + paid
  BY <1>2, <1>3, <1>4, Ranges
<1>6. SeenFund'
  BY <1>1, <1>3, SeenStep
<1>7. expired' \in BOOLEAN
  BY <1>3, Ranges, Zenon
<1>8. /\ quiet' \in 0..2 /\ paid' \in Nat /\ moved' \in Int
      /\ status' \in [Withdrawal -> {"none", "pending", "approved", "paid", "rejected"}]
  BY <1>3, Ranges
<1> QED  BY <1>1, <1>3, <1>5, <1>6, <1>7, <1>8, CalmTask

LEMMA ReadsKeep ==
  ASSUME IInv, RInv, NEW t \in Task,
         CreateReads(t) \/ PayReads(t) \/ PayAccount(t) \/ TransferReads(t)
  PROVE  RInv'
<1>1. /\ IsRequest(task[t]) /\ Proper(task[t]) /\ Matched(t) /\ Live(t)
      /\ task = [x \in Task |-> task[x]]
  BY Ranges DEF IInv, Typed, CreateReads, PayReads, PayAccount, TransferReads, Live
<1>2. UNCHANGED <<budget, docs, resync, misled>>
  BY DEF CreateReads, PayReads, PayAccount, TransferReads, history
<1>3. CASE CreateReads(t)
  <2>1. PICK r : r = [task[t] EXCEPT !.at = "read", !.seen = Available]
    OBVIOUS
  <2>2. /\ r.at = "read" /\ r.kind = task[t].kind /\ r.of = task[t].of
        /\ r.ok = task[t].ok /\ r.sum = task[t].sum /\ r.was = task[t].was
        /\ r.seen = Available
    BY <1>1, <2>1 DEF IsRequest
  <2>3. task[t].at = "held" /\ task[t].kind \in {"create", "createPay"}
    BY <1>3 DEF CreateReads
  <2>4. Proper(r) /\ ~Counts(r)
    BY <1>1, <2>2, <2>3 DEF Proper, Counts, Comes, Places, AboutWithdrawals
  <2>5. task' = [task EXCEPT ![t] = r]
    BY <1>1, <1>3, <2>1 DEF CreateReads
  <2> QED  BY <1>2, <2>2, <2>4, <2>5, WeighsNothing
<1>4. CASE PayReads(t)
  <2>1. PICK at : at = IF AmountOf(t) <= Available THEN "funded" ELSE "leaves"
    OBVIOUS
  <2>2. PICK r : r = [task[t] EXCEPT !.seen = Available, !.at = at]
    OBVIOUS
  <2>3. /\ r.at \in {"funded", "leaves"} /\ r.kind = task[t].kind /\ r.of = task[t].of
        /\ r.ok = task[t].ok /\ r.sum = task[t].sum /\ r.was = task[t].was
    BY <1>1, <2>1, <2>2 DEF IsRequest
  <2>4. task[t].at = "fenced" /\ task[t].kind \in {"pay", "payNew"}
    BY <1>1, <1>4 DEF PayReads, Matched, Pays
  <2>5. Proper(r) /\ ~Counts(r)
    BY <1>1, <2>3, <2>4 DEF Proper, Counts, Comes, Places, AboutWithdrawals
  <2>6. task' = [task EXCEPT ![t] = r]
    BY <1>1, <1>4, <2>1, <2>2 DEF PayReads
  <2> QED  BY <1>2, <2>3, <2>5, <2>6, WeighsNothing
<1>5. CASE PayAccount(t)
  <2>1. task[t].at = "funded" /\ task[t].kind \in {"pay", "payNew"}
    BY <1>1, <1>5 DEF PayAccount, Matched, Pays
  <2>2. CASE Goes(t, "leaves")
    BY <1>2, <2>1, <2>2, GoesAway, Ranges DEF docs, money
  <2>3. CASE ~Goes(t, "leaves")
    <3>1. PICK account \in BOOLEAN :
            task' = [task EXCEPT ![t].held = InAccount, ![t].account = account,
                                 ![t].at = "read"]
      BY <1>5, <2>3 DEF PayAccount
    <3>2. PICK r : r = [task[t] EXCEPT !.held = InAccount, !.account = account,
                                       !.at = "read"]
      OBVIOUS
    <3>3. /\ r.at = "read" /\ r.kind = task[t].kind /\ r.of = task[t].of
          /\ r.ok = task[t].ok /\ r.sum = task[t].sum /\ r.was = task[t].was
      BY <1>1, <3>2 DEF IsRequest
    <3>4. Proper(r) /\ ~Counts(r)
      BY <1>1, <2>1, <3>3 DEF Proper, Counts, Comes, Places, AboutWithdrawals
    <3>5. task' = [task EXCEPT ![t] = r]
      BY <1>1, <3>1, <3>2
    <3> QED  BY <1>2, <2>1, <3>3, <3>4, <3>5, WeighsNothing
  <2> QED  BY <2>2, <2>3
<1>6. CASE TransferReads(t)
  <2>1. PICK at : at = IF transfer[DocOf(t)] # "confirmed" /\ AmountOf(t) <= InAccount
                       THEN "read" ELSE "leaves"
    OBVIOUS
  <2>2. PICK r : r = [task[t] EXCEPT !.was = transfer[DocOf(t)], !.held = InAccount,
                                     !.at = at]
    OBVIOUS
  <2>3. /\ r.at \in {"read", "leaves"} /\ r.kind = task[t].kind
        /\ r.sum = task[t].sum
    BY <1>1, <2>1, <2>2 DEF IsRequest
  <2>4. task[t].kind \in {"transfer", "cash"}
    BY <1>6 DEF TransferReads, Spends
  <2>5. Proper(r) /\ ~Counts(r)
    BY <1>1, <2>3, <2>4 DEF Proper, Counts, Comes, Places, AboutWithdrawals
  <2>6. task' = [task EXCEPT ![t] = r]
    BY <1>1, <1>6, <2>1, <2>2 DEF TransferReads
  <2> QED  BY <1>2, <2>3, <2>4, <2>5, <2>6, WeighsNothing
<1> QED  BY <1>3, <1>4, <1>5, <1>6

LEMMA StartKeeps ==
  ASSUME IInv, RInv, NEW t \in Task, Start(t)
  PROVE  RInv'
<1>1. PICK kind, of, at, was :
        /\ Starts(t, kind, of, at, was) /\ at \in {"asks", "rejects"}
        /\ at = "rejects" => kind = "reject"
        /\ kind \in AboutWithdrawals => of \in Withdrawal
        /\ kind \in {"pay", "payNew", "reject"} => was \in {"pending", "approved"}
  BY DEF Start, StartCreate, StartPay, StartReject, StartTransfer, StartCash,
     AboutWithdrawals
<1>2. PICK r : r = [Idle EXCEPT !.at = at, !.kind = kind, !.of = of, !.was = was]
  OBVIOUS
<1>3. r.at = at /\ r.kind = kind /\ r.of = of /\ r.was = was /\ r.sum = 0 /\ ~r.ok
  BY <1>2 DEF Idle
<1>4. Proper(r) /\ ~Counts(r)
  BY <1>1, <1>3 DEF Proper, Counts, Comes, Places
<1>5. /\ task' = [task EXCEPT ![t] = r] /\ UNCHANGED <<budget, docs, resync, misled>>
  BY <1>1, <1>2 DEF Starts, history
<1> QED  BY <1>1, <1>3, <1>4, <1>5, WeighsNothing

\* A withdrawal stops being owed and its request still has to release it.
LEMMA SettleStep ==
  ASSUME IInv, RInv, NEW t \in Task, NEW r, Proper(r), NEW w \in Withdrawal,
         NEW s \in {"none", "paid", "rejected"},
         task' = [task EXCEPT ![t] = r], r.at = "releases", r.of = w,
         ~Counts(task[t]), status[w] \in {"pending", "approved"},
         status' = [status EXCEPT ![w] = s],
         paid' \in {paid, paid + Amount[w]}, moved' = moved,
         UNCHANGED <<budget, resync, misled>>, SeenFund'
  PROVE  RInv'
<1>1. Counts(r) /\ ~Comes(r) /\ ~Comes(task[t])
  BY DEF Counts, Comes
<1>2. /\ Weight(r) = Amount[w] /\ Extra(r) = 0
      /\ Weight(task[t]) = 0 /\ Extra(task[t]) = 0
  BY <1>1 DEF Weight, Extra
<1>3. /\ PendingSum' = PendingSum - Amount[w] /\ PendingSum \in Nat /\ Amount[w] \in Nat
      /\ paid \in Nat
  BY OwesLess, OwingFacts, Ranges DEF RInv
<1>4. PendingSum' \in Nat
  BY OwingNext
<1>5. /\ PendingSum' + Weight(r) <= PendingSum + Weight(task[t])
      /\ PendingSum' + Extra(r) + paid' <= PendingSum + Extra(task[t]) + paid
      /\ paid' \in Nat
  BY <1>2, <1>3
<1>6. /\ UNCHANGED <<reserved, resync, misled>> /\ current' \subseteq current
      /\ expired' = expired /\ quiet' = quiet
  BY DEF budget
<1>7. expired' \in BOOLEAN
  BY <1>6, Ranges, Zenon
<1>8. /\ quiet' \in 0..2 /\ moved' \in Int
      /\ status' \in [Withdrawal -> {"none", "pending", "approved", "paid", "rejected"}]
  BY <1>6, Ranges
<1> QED  BY <1>4, <1>5, <1>6, <1>7, <1>8, CalmTask

LEMMA SettlesKeep ==
  ASSUME IInv, RInv, NEW t \in Task, PayClaim(t) \/ Undo(t) \/ Reject(t)
  PROVE  RInv'
<1>1. /\ IsRequest(task[t]) /\ Proper(task[t]) /\ Matched(t) /\ Live(t)
      /\ task = [x \in Task |-> task[x]]
  BY Ranges DEF IInv, Typed, PayClaim, Undo, Reject, Live
<1>2. PICK w : w = task[t].of
  OBVIOUS
<1>3. CASE PayClaim(t)
  <2>1. CASE status[w] = task[t].was /\ fence[w] = t
    <3>1. task[t].at = "authorised" /\ task[t].kind \in {"pay", "payNew"} /\ Pays(t)
      BY <1>3 DEF PayClaim, Pays
    <3>2. PICK r : r = [task[t] EXCEPT !.at = "releases", !.ok = TRUE]
      OBVIOUS
    <3>3. /\ r.at = "releases" /\ r.kind = task[t].kind /\ r.of = w
          /\ r.sum = task[t].sum
      BY <1>1, <1>2, <3>2 DEF IsRequest
    <3>4. /\ Proper(r) /\ ~Counts(task[t]) /\ w \in Withdrawal
          /\ status[w] \in {"pending", "approved"}
      BY <1>1, <1>2, <2>1, <3>1, <3>3
       DEF Proper, Counts, Comes, Places, AboutWithdrawals
    <3>5. /\ task' = [task EXCEPT ![t] = r]
          /\ status' = [status EXCEPT ![w] = "paid"] /\ paid' = paid + Amount[w]
          /\ moved' = moved /\ UNCHANGED <<budget, resync, misled>>
      BY <1>1, <1>2, <1>3, <2>1, <3>2 DEF PayClaim, AmountOf, history
    <3>6. SeenFund'
      <4>1. Strong(t)
        BY <1>2, <2>1, <3>1 DEF Strong
      <4>2. \A x \in Task : task'[x] = IF x = t THEN r ELSE task[x]
        BY <1>1, <3>5
      <4>3. lock' = lock
        BY <3>5 DEF budget
      <4>4. \A x \in Task : lock = x => x = t \/ task[x].at \in {"fences", "aborts", "over"}
        BY <4>1 DEF IInv, Alone, Superseded
      <4> QED  BY <3>3, <4>2, <4>3, <4>4 DEF SeenFund
    <3> QED  BY <3>3, <3>4, <3>5, <3>6, SettleStep
  <2>2. CASE ~(status[w] = task[t].was /\ fence[w] = t)
    <3>1. /\ Goes(t, "leaves") /\ task[t].at = "authorised" /\ moved' = moved
          /\ UNCHANGED <<budget, status, paid, resync, misled>>
      BY <1>2, <1>3, <2>2 DEF PayClaim, history
    <3> QED  BY <3>1, GoesAway, Ranges
  <2> QED  BY <2>1, <2>2
<1>4. CASE Undo(t)
  <2>1. CASE status[w] = "pending"
    <3>1. task[t].at = "undo" /\ task[t].kind \in {"pay", "payNew"}
      BY <1>1, <1>4 DEF Undo, Matched, Pays
    <3>2. PICK r : r = [task[t] EXCEPT !.at = "releases", !.kind = "create"]
      OBVIOUS
    <3>3. /\ r.at = "releases" /\ r.kind = "create" /\ r.of = w
          /\ r.sum = task[t].sum
      BY <1>1, <1>2, <3>2 DEF IsRequest
    <3>4. /\ Proper(r) /\ ~Counts(task[t]) /\ w \in Withdrawal
      BY <1>1, <1>2, <3>1, <3>3
       DEF Proper, Counts, Comes, Places, AboutWithdrawals
    <3>5. /\ task' = [task EXCEPT ![t] = r]
          /\ status' = [status EXCEPT ![w] = "none"]
          /\ UNCHANGED <<money, budget, resync, misled>>
      BY <1>1, <1>2, <1>4, <2>1, <3>2 DEF Undo, history
    <3>6. SeenFund'
      BY <3>3, <3>5, SeenStep DEF budget, money
    <3> QED  BY <2>1, <3>3, <3>4, <3>5, <3>6, SettleStep DEF money
  <2>2. CASE status[w] # "pending"
    <3>1. /\ Goes(t, "over") /\ moved' = moved
          /\ UNCHANGED <<budget, status, paid, resync, misled>>
      BY <1>2, <1>4, <2>2 DEF Undo, money, history
    <3> QED  BY <3>1, GoesAway, Ranges
  <2> QED  BY <2>1, <2>2
<1>5. CASE Reject(t)
  <2>1. CASE status[w] = task[t].was
    <3>1. task[t].at = "rejects" /\ task[t].kind = "reject" /\ Goes(t, "releases")
      BY <1>1, <1>2, <1>5, <2>1 DEF Reject, Proper
    <3>2. Fitting(t, "releases")
      BY <3>1 DEF Fitting, Places, AboutWithdrawals
    <3>3. PICK r : /\ Proper(r) /\ task' = [task EXCEPT ![t] = r] /\ r.at = "releases"
                   /\ Counts(r) => r.of = task[t].of
      BY <3>1, <3>2, KeptProper
    <3>4. r.of = w
      BY <1>2, <3>3 DEF Counts
    <3>5. /\ ~Counts(task[t]) /\ w \in Withdrawal
          /\ status[w] \in {"pending", "approved"}
      BY <1>1, <1>2, <2>1, <3>1
       DEF Proper, Counts, Comes, Places, AboutWithdrawals
    <3>6. /\ status' = [status EXCEPT ![w] = "rejected"]
          /\ UNCHANGED <<money, budget, resync, misled>>
      BY <1>2, <1>5, <2>1 DEF Reject, history
    <3>7. SeenFund'
      BY <3>3, <3>6, SeenStep DEF budget, money
    <3> QED  BY <3>3, <3>4, <3>5, <3>6, <3>7, SettleStep DEF money
  <2>2. CASE status[w] # task[t].was
    <3>1. /\ Goes(t, "over") /\ moved' = moved
          /\ UNCHANGED <<budget, status, paid, resync, misled>>
      BY <1>2, <1>5, <2>2 DEF Reject, money, history
    <3> QED  BY <3>1, GoesAway, Ranges
  <2> QED  BY <2>1, <2>2
<1> QED  BY <1>3, <1>4, <1>5

\* The insertion: what was on its way is owed, or will be released.
LEMMA InsertKeeps ==
  ASSUME IInv, RInv, NEW t \in Task, Insert(t)
  PROVE  RInv'
<1>1. /\ IsRequest(task[t]) /\ Proper(task[t]) /\ task = [x \in Task |-> task[x]]
      /\ task[t].at = "inserts"
  BY Ranges DEF IInv, Typed, Insert
<1>2. /\ Comes(task[t]) /\ Counts(task[t])
      /\ task[t].kind \in {"create", "createPay"} /\ task[t].ok
  BY <1>1 DEF Proper, Counts, Comes
<1>3. PICK w : w = task[t].of
  OBVIOUS
<1>4. CASE Goes(t, "releases") /\ status' = status /\ misled' = misled
  <2>1. Fitting(t, "releases")
    BY <1>2 DEF Fitting, Places, AboutWithdrawals
  <2>2. UNCHANGED <<budget, money, resync, misled>>
    BY <1>4 DEF Insert
  <2>3. expired' \in BOOLEAN
    BY <2>2, Ranges, Zenon DEF budget
  <2>4. /\ UNCHANGED <<reserved, resync, misled>> /\ paid' = paid /\ moved' \in Int
        /\ current' \subseteq current /\ quiet' \in 0..2 /\ lock' \in {lock, t, None}
    BY <2>2, Ranges DEF budget, money
  <2> QED  BY <1>2, <1>4, <2>1, <2>3, <2>4, CalmGoes
<1>5. CASE /\ status' = [status EXCEPT ![w] = "pending"] /\ misled' = misled
           /\ task' = [task EXCEPT ![t] =
                IF task[t].kind = "createPay"
                THEN [Idle EXCEPT !.at = "asks", !.kind = "payNew",
                                  !.of = task[t].of, !.was = "pending"]
                ELSE Kept(t, "over")]
  <2>1. /\ status' = [status EXCEPT ![w] = "pending"]
        /\ UNCHANGED <<budget, money, resync, misled>>
    BY <1>5 DEF Insert
  <2>2. PICK r : /\ task' = [task EXCEPT ![t] = r] /\ Proper(r) /\ ~Counts(r)
                 /\ r.at \notin {"heals", "recounts", "read"}
    <3>1. CASE task[t].kind = "createPay"
      <4>1. PICK r : r = [Idle EXCEPT !.at = "asks", !.kind = "payNew",
                                      !.of = task[t].of, !.was = "pending"]
        OBVIOUS
      <4>2. /\ r.at = "asks" /\ r.kind = "payNew" /\ r.of = task[t].of
            /\ r.was = "pending" /\ r.sum = 0
        BY <4>1 DEF Idle
      <4>3. Proper(r) /\ ~Counts(r)
        BY <1>1, <1>2, <4>2 DEF Proper, Counts, Comes, Places, AboutWithdrawals
      <4>4. task' = [task EXCEPT ![t] = r]
        BY <1>5, <3>1, <4>1
      <4> QED  BY <4>2, <4>3, <4>4
    <3>2. CASE task[t].kind # "createPay"
      <4>1. Goes(t, "over") /\ Fitting(t, "over")
        BY <1>1, <1>5, <3>2 DEF Goes, Fitting, Places
      <4> QED  BY <4>1, KeptProper DEF Counts, Comes
    <3> QED  BY <3>1, <3>2
  <2>3. w \in Withdrawal /\ Weight(task[t]) = Amount[w] /\ Extra(task[t]) = Amount[w]
    BY <1>1, <1>2, <1>3, Weights DEF Weight, Extra
  <2>4. Weight(r) = 0 /\ Extra(r) = 0
    BY <2>2 DEF Weight, Extra, Counts
  <2>5. PendingSum' \in Nat /\ PendingSum' <= PendingSum + Amount[w]
    BY <2>1, <2>3, OwesMore DEF RInv
  <2>6. /\ UNCHANGED <<reserved, resync, misled>> /\ current' \subseteq current
        /\ expired' = expired /\ quiet' = quiet /\ paid' = paid /\ moved' = moved
        /\ lock' \in {lock, t, None}
    BY <2>1 DEF budget, money
  <2>7. expired' \in BOOLEAN
    BY <2>6, Ranges, Zenon
  <2>8. /\ quiet' \in 0..2 /\ paid' \in Nat /\ moved' \in Int
        /\ status' \in [Withdrawal -> {"none", "pending", "approved", "paid", "rejected"}]
    BY <2>1, <2>6, Ranges
  <2>9. /\ PendingSum' + Weight(r) <= PendingSum + Weight(task[t])
        /\ PendingSum' + Extra(r) + paid' <= PendingSum + Extra(task[t]) + paid
    BY <2>3, <2>4, <2>5, <2>6, OwingFacts, Ranges
  <2>10. SeenFund'
    BY <2>2, <2>6, SeenStep
  <2> QED  BY <2>2, <2>5, <2>6, <2>7, <2>8, <2>9, <2>10, CalmTask
<1>6. CASE /\ status' = [status EXCEPT ![w] = "pending"] /\ misled' = TRUE
           /\ Goes(t, "releases")
  <2>1. UNCHANGED <<budget, money, resync>>
    BY DEF Insert
  <2>2. Fitting(t, "releases")
    BY <1>2 DEF Fitting, Places, AboutWithdrawals
  <2>3. PICK r : Proper(r) /\ task' = [task EXCEPT ![t] = r] /\ r.at = "releases"
    BY <1>6, <2>2, KeptProper
  <2>4. /\ UNCHANGED <<reserved, resync, quiet, expired, current, paid, moved>>
        /\ lock' \in {lock, t, None}
    BY <2>1 DEF budget, money
  <2>5. Sized'
    <3>1. \A x \in Task : Proper(task'[x])
      BY <1>1, <2>3, Ranges
    <3>2. expired' \in BOOLEAN /\ misled' \in BOOLEAN
      BY <1>6, <2>4, Ranges, Zenon
    <3>3. /\ reserved' \in Nat /\ quiet' \in 0..2 /\ paid' \in Nat /\ moved' \in Int
          /\ status' \in [Withdrawal -> {"none", "pending", "approved", "paid", "rejected"}]
      BY <1>6, <2>4, Ranges
    <3>4. current' \subseteq Task \cup {None} /\ (resync' # None => resync' \in Nat)
      BY <2>4 DEF RInv, Sized
    <3> QED  BY <3>1, <3>2, <3>3, <3>4, Zenon DEF Sized
  <2>6. SeenFund'
    BY <2>3, <2>4, SeenStep
  <2>7. Backed' /\ Room' /\ Recounted'
    BY <1>6, Zenon DEF Backed, Room, Recounted
  <2> QED  BY <2>5, <2>6, <2>7 DEF RInv
<1> QED  BY <1>3, <1>4, <1>5, <1>6 DEF Insert

-----------------------------------------------------------------------------
\* A step that writes the reservation: nobody's reading is current any more.
LEMMA WriteStep ==
  ASSUME IInv, RInv, NEW t \in Task, NEW r, Proper(r),
         task' = [task EXCEPT ![t] = r],
         Touch, reserved' \in Nat, misled' \in BOOLEAN, misled => misled',
         UNCHANGED <<lock, expired, docs, resync>>,
         ~misled' => Due + Weight(r) <= reserved' + Weight(task[t]),
         ~misled' => Promised + Extra(r) <= Available + Extra(task[t]),
         lock = t /\ r.kind \in {"create", "createPay"} /\ r.at \in {"read", "heals"}
           => r.seen = Available
  PROVE  RInv'
<1>1. task = [x \in Task |-> task[x]]
  BY DEF IInv, Typed
<1>2. /\ status' = status /\ paid' = paid /\ moved' = moved /\ current' = {}
      /\ quiet' = 0 /\ expired' = expired /\ resync' = resync /\ lock' = lock
  BY DEF docs, money, Touch
<1>3. Sized'
  <2>1. \A x \in Task : Proper(task'[x])
    BY <1>1, Ranges
  <2>2. expired' \in BOOLEAN
    BY <1>2, Ranges, Zenon
  <2>3. resync' # None => resync' \in Nat
    BY <1>2 DEF RInv, Sized
  <2>4. /\ quiet' \in 0..2 /\ paid' \in Nat /\ moved' \in Int
        /\ current' \subseteq Task \cup {None}
        /\ status' \in [Withdrawal -> {"none", "pending", "approved", "paid", "rejected"}]
    BY <1>2, Ranges
  <2> QED  BY <2>1, <2>2, <2>3, <2>4, Zenon DEF Sized
<1>4. PendingSum' = PendingSum /\ PendingSum \in Nat
  BY <1>2, OwesSame, OwingFacts DEF RInv
<1>5. /\ Due' = Due + (PendingSum' - PendingSum) + (Weight(r) - Weight(task[t]))
      /\ Promised' = Promised + (PendingSum' - PendingSum)
                              + (Extra(r) - Extra(task[t]))
  BY <1>1, <1>3, <1>4, DueChanges DEF RInv
<1>6. /\ Weight(r) \in Nat /\ Weight(task[t]) \in Nat
      /\ Extra(r) \in Nat /\ Extra(task[t]) \in Nat
      /\ Due \in Nat /\ Promised \in Nat
  BY Weights, DueFacts, Ranges DEF RInv
<1>7. Backed'
  <2>1. ASSUME ~misled' PROVE Due' <= reserved'
    <3>1. Due + Weight(r) <= reserved' + Weight(task[t])
      BY <2>1
    <3> QED  BY <1>4, <1>5, <1>6, <3>1
  <2> QED  BY <2>1 DEF Backed
<1>8. Available' = Available /\ Available \in Int
  BY <1>2, Ranges, SpendAssumption DEF Available
<1>9. Room'
  <2>1. ASSUME ~misled' PROVE Promised' <= Available'
    <3>1. Promised + Extra(r) <= Available + Extra(task[t])
      BY <2>1
    <3> QED  BY <1>4, <1>5, <1>6, <1>8, <3>1
  <2> QED  BY <2>1 DEF Room
<1>10. Recounted'
  BY <1>2 DEF Recounted
<1>11. SeenFund'
  BY <1>2, SeenStep
<1> QED  BY <1>3, <1>7, <1>9, <1>10, <1>11 DEF RInv

\* A request that adds what it asks to the reservation under its turn has found
\* room for it in the fund.
LEMMA ClaimKeeps ==
  ASSUME IInv, RInv, NEW t \in Task, Claim(t)
  PROVE  RInv'
<1>1. /\ IsRequest(task[t]) /\ Proper(task[t]) /\ task[t].at = "read"
      /\ task[t].kind \in {"create", "createPay"}
  BY Ranges DEF IInv, Typed, Claim
<1>2. PICK k : k = Kept(t, "leaves")
  OBVIOUS
<1>3. /\ IsRequest(k) /\ k.at = "leaves" /\ k.kind = task[t].kind
      /\ k.of = task[t].of /\ k.sum = 0
  BY <1>1, <1>2 DEF Kept, Idle, IsRequest
<1>4. PICK r : r = [k EXCEPT !.ok = TRUE]
  OBVIOUS
<1>5. /\ r.at = "leaves" /\ r.kind = task[t].kind /\ r.of = task[t].of
      /\ r.sum = 0 /\ r.ok
  BY <1>3, <1>4 DEF IsRequest
<1>6. Proper(r) /\ Comes(r) /\ Counts(r) /\ ~Counts(task[t]) /\ ~Comes(task[t])
  BY <1>1, <1>5 DEF Proper, Counts, Comes, Places, AboutWithdrawals
<1>7. /\ Weight(r) = AmountOf(t) /\ Extra(r) = AmountOf(t)
      /\ Weight(task[t]) = 0 /\ Extra(task[t]) = 0 /\ AmountOf(t) \in Nat
  BY <1>5, <1>6, Weights DEF Weight, Extra, AmountOf
<1>8. /\ task' = [task EXCEPT ![t] = r] /\ Touch
      /\ reserved' = reserved + AmountOf(t)
      /\ UNCHANGED <<lock, expired, docs, resync>>
      /\ reserved <= task[t].seen - AmountOf(t)
  BY <1>2, <1>4 DEF Claim, Fits
<1>9. /\ misled' \in BOOLEAN /\ (misled => misled')
      /\ (~misled' => ~misled /\ lock = t)
  <2>1. misled' = (misled \/ lock # t)
    BY DEF Claim
  <2> QED  BY <2>1, Zenon
<1>10. /\ Due \in Nat /\ Promised \in Nat /\ Promised <= Due /\ reserved \in Nat
       /\ Available \in Int
  BY DueFacts, Ranges, SpendAssumption DEF RInv, Available
<1>11. ~misled' => Due + Weight(r) <= reserved' + Weight(task[t])
  <2>1. ~misled' => Due <= reserved
    BY <1>9 DEF RInv, Backed
  <2> QED  BY <1>7, <1>8, <1>10, <2>1
<1>12. ~misled' => Promised + Extra(r) <= Available + Extra(task[t])
  <2>1. ASSUME ~misled' PROVE Promised + AmountOf(t) <= Available
    <3>1. Due <= reserved /\ task[t].seen = Available
      BY <1>1, <1>9, <2>1 DEF RInv, Backed, SeenFund
    <3> QED  BY <1>7, <1>8, <1>10, <3>1
  <2> QED  BY <1>7, <1>10, <2>1
<1>13. reserved' \in Nat
  BY <1>7, <1>8, <1>10
<1> QED  BY <1>5, <1>6, <1>8, <1>9, <1>11, <1>12, <1>13, WriteStep

\* The request that a healed reservation lets try again has not weighed anything.
LEMMA HealKeeps ==
  ASSUME IInv, RInv, NEW t \in Task, HealWrites(t)
  PROVE  RInv'
<1>1. /\ IsRequest(task[t]) /\ Proper(task[t]) /\ task[t].at = "heals"
      /\ task[t].kind \in {"create", "createPay"} /\ task = [x \in Task |-> task[x]]
  BY Ranges DEF IInv, Typed, HealWrites, Matched, Live
<1>2. PICK at : at = IF t \in current THEN "read" ELSE "leaves"
  OBVIOUS
<1>3. PICK r : r = [task[t] EXCEPT !.at = at, !.again = TRUE]
  OBVIOUS
<1>4. /\ r.at = at /\ r.kind = task[t].kind /\ r.of = task[t].of /\ r.ok = task[t].ok
      /\ r.sum = task[t].sum /\ r.seen = task[t].seen
  BY <1>1, <1>3 DEF IsRequest
<1>5. ~task[t].ok
  BY <1>1 DEF Proper
<1>6. Proper(r) /\ ~Counts(r) /\ ~Comes(r) /\ ~Counts(task[t]) /\ ~Comes(task[t])
  BY <1>1, <1>2, <1>4, <1>5 DEF Proper, Counts, Comes, Places, AboutWithdrawals
<1>7. task' = [task EXCEPT ![t] = r]
  BY <1>1, <1>2, <1>3 DEF HealWrites
<1>8. CASE t \notin current
  <2>1. UNCHANGED <<budget, docs, resync, misled>> /\ r.at = "leaves"
    BY <1>2, <1>4, <1>8 DEF HealWrites, Rewrite, budget
  <2> QED  BY <1>6, <1>7, <2>1, WeighsNothing
<1>9. CASE t \in current
  <2>1. /\ Touch /\ reserved' = task[t].sum /\ UNCHANGED <<lock, expired, docs, resync>>
        /\ misled' = (misled \/ SomeUnsettled(t))
    BY <1>9 DEF HealWrites, Rewrite
  <2>2. misled' \in BOOLEAN /\ (misled => misled')
    <3>1. misled \in BOOLEAN
      BY Zenon DEF RInv, Sized
    <3> QED  BY <2>1, <3>1, Zenon DEF SomeUnsettled
  <2>3. Weight(r) = 0 /\ Weight(task[t]) = 0 /\ Extra(r) = 0 /\ Extra(task[t]) = 0
    BY <1>6 DEF Weight, Extra
  <2>4. reserved' \in Nat /\ Due \in Nat /\ Promised \in Nat /\ Available \in Int
    BY <1>1, <2>1, DueFacts, Ranges, SpendAssumption DEF RInv, Proper, Available
  <2>5. ~misled' => Due + Weight(r) <= reserved' + Weight(task[t])
    <3>1. ASSUME ~misled' PROVE Due - Weight(task[t]) <= task[t].sum
      BY <1>1, <1>9, <2>2, <3>1 DEF RInv, Recounted
    <3> QED  BY <2>1, <2>3, <2>4, <3>1
  <2>6. ~misled' => Promised + Extra(r) <= Available + Extra(task[t])
    <3>1. ~misled' => Promised <= Available
      BY <2>2 DEF RInv, Room
    <3> QED  BY <2>3, <2>4, <3>1
  <2>7. lock = t /\ r.kind \in {"create", "createPay"} => r.seen = Available
    BY <1>1, <1>4 DEF RInv, SeenFund
  <2>8. r.at \notin {"heals", "recounts"}
    BY <1>2, <1>4
  <2> QED  BY <1>6, <1>7, <2>1, <2>2, <2>4, <2>5, <2>6, <2>7, <2>8, WriteStep
<1> QED  BY <1>8, <1>9

\* The end of a release: by its guarded decrement, or by a recount.
LEMMA ReleaseKeeps ==
  ASSUME IInv, RInv, NEW t \in Task,
         \/ Release(t) /\ reserved >= AmountOf(t)
         \/ Recount(t)
  PROVE  RInv'
<1>1. /\ Proper(task[t]) /\ task[t].at \in {"releases", "recounts"}
      /\ task[t].kind \in AboutWithdrawals
  BY Ranges DEF Release, Recount, Proper
<1>2. PICK at : at = AfterRelease(t)
  OBVIOUS
<1>3. Goes(t, at)
  BY <1>2 DEF Release, Recount
<1>4. /\ at \in {"leaves", "over"}
      /\ at = "leaves" => task[t].kind \in {"pay", "payNew"}
  BY <1>2 DEF AfterRelease
<1>5. Fitting(t, at)
  BY <1>4 DEF Fitting, Places
<1>6. CASE Recount(t) /\ t \notin current
  <2>1. /\ UNCHANGED <<reserved, resync, misled, lock, expired, quiet, current, docs>>
    BY <1>6 DEF Recount, Rewrite
  <2>2. expired' \in BOOLEAN
    BY <2>1, Ranges, Zenon
  <2>3. /\ UNCHANGED <<reserved, resync, misled>> /\ status' = status /\ paid' = paid
        /\ moved' \in Int /\ current' \subseteq current /\ quiet' \in 0..2
        /\ lock' \in {lock, t, None}
    BY <2>1, Ranges DEF docs, money
  <2> QED  BY <1>3, <1>4, <1>5, <2>2, <2>3, CalmGoes
<1>7. CASE \/ Recount(t) /\ t \in current
           \/ Release(t) /\ reserved >= AmountOf(t)
  <2>1. PICK r : /\ Proper(r) /\ task' = [task EXCEPT ![t] = r] /\ r.at = at
                 /\ Counts(r) => \/ at = "releases"
                                 \/ task[t].kind \in {"create", "createPay"}
                 /\ Counts(r) => at \in {"leaves", "inserts", "releases"}
    BY <1>3, <1>5, KeptProper
  <2>2. ~Counts(r) /\ ~Comes(r) /\ Counts(task[t]) /\ ~Comes(task[t])
    BY <1>1, <1>4, <2>1 DEF Counts, Comes
  <2>3. /\ Weight(r) = 0 /\ Extra(r) = 0 /\ Extra(task[t]) = 0
        /\ Weight(task[t]) = AmountOf(t) /\ AmountOf(t) \in Nat
    BY <1>1, <2>2, Weights DEF Weight, Extra, AmountOf
  <2>4. misled \in BOOLEAN
    BY Zenon DEF RInv, Sized
  <2>5. /\ Touch /\ UNCHANGED <<lock, expired, docs, resync>>
        /\ misled' \in BOOLEAN /\ (misled => misled')
    <3>1. CASE Recount(t) /\ t \in current
      <4>1. /\ Touch /\ UNCHANGED <<lock, expired, docs, resync>>
            /\ misled' = (misled \/ SomeUnsettled(t))
        BY <3>1 DEF Recount, Rewrite
      <4> QED  BY <2>4, <4>1, Zenon DEF SomeUnsettled
    <3>2. CASE Release(t) /\ reserved >= AmountOf(t)
      <4>1. Touch /\ UNCHANGED <<lock, expired, docs, resync, misled>>
        BY <3>2 DEF Release
      <4> QED  BY <2>4, <4>1, Zenon
    <3> QED  BY <1>7, <3>1, <3>2
  <2>6. /\ Due \in Nat /\ Promised \in Nat /\ Available \in Int /\ reserved \in Nat
        /\ task[t].sum \in Nat
    BY <1>1, DueFacts, Ranges, SpendAssumption DEF RInv, Proper, Available
  <2>7. /\ reserved' \in Nat
        /\ ~misled' => Due + Weight(r) <= reserved' + Weight(task[t])
    <3>1. CASE Recount(t) /\ t \in current
      <4>1. reserved' = task[t].sum /\ task[t].at = "recounts"
        BY <3>1 DEF Recount, Rewrite
      <4>2. ASSUME ~misled' PROVE Due - Weight(task[t]) <= task[t].sum
        BY <2>5, <3>1, <4>1, <4>2 DEF RInv, Recounted
      <4> QED  BY <2>3, <2>6, <4>1, <4>2
    <3>2. CASE Release(t) /\ reserved >= AmountOf(t)
      <4>1. reserved' = reserved - AmountOf(t)
        BY <3>2 DEF Release
      <4>2. ASSUME ~misled' PROVE Due <= reserved
        BY <2>5, <4>2 DEF RInv, Backed
      <4> QED  BY <2>3, <2>6, <3>2, <4>1, <4>2
    <3> QED  BY <1>7, <3>1, <3>2
  <2>8. ~misled' => Promised + Extra(r) <= Available + Extra(task[t])
    <3>1. ~misled' => Promised <= Available
      BY <2>5 DEF RInv, Room
    <3> QED  BY <2>3, <2>6, <3>1
  <2>9. r.at \notin {"heals", "recounts", "read"}
    BY <1>4, <2>1
  <2> QED  BY <2>1, <2>5, <2>7, <2>8, <2>9, WriteStep
<1> QED  BY <1>6, <1>7

-----------------------------------------------------------------------------
\* With no other request in between, what is owed is all that is due.
LEMMA OthersSettled ==
  ASSUME RInv, NEW t \in Task, ~SomeUnsettled(t)
  PROVE  Due = PendingSum + Weight(task[t])
<1>1. /\ IsFiniteSet(Task)
      /\ \A u \in Task : Held[u] = Weight(task[u]) /\ Weight(task[u]) \in Nat
  BY Ranges, Weights, SpendAssumption DEF Held
<1>2. ASSUME NEW u \in Task \ {t} PROVE Held[u] = 0
  <2>1. ~Counts(task[u])
    BY <1>2 DEF SomeUnsettled, Unsettled, Counts, Comes
  <2> QED  BY <1>1, <2>1 DEF Weight
<1>3. SumOn(Held, Task) = Held[t]
  BY <1>1, <1>2, SumOnly
<1> QED  BY <1>1, <1>3 DEF Due

LEMMA AllSettled ==
  ASSUME RInv, ~SomeUnsettled(None)
  PROVE  Due = PendingSum
<1>1. IsFiniteSet(Task) /\ None \notin Task /\ \A u \in Task : Held[u] = Weight(task[u])
  BY SpendAssumption DEF Held
<1>2. ASSUME NEW u \in Task PROVE Held[u] = 0
  <2>1. ~Counts(task[u])
    BY <1>1, <1>2 DEF SomeUnsettled, Unsettled, Counts, Comes
  <2> QED  BY <1>1, <2>1 DEF Weight
<1>3. SumOn(Held, Task) = 0
  BY <1>1, <1>2, SumZero
<1> QED  BY <1>3, OwingFacts DEF Due

\* A request that reads the budget and adds up what is owed, to correct it.
LEMMA RecountReads ==
  ASSUME IInv, RInv, NEW t \in Task,
         \/ ClaimFails(t) /\ MayHeal(t)
         \/ Release(t) /\ ~(reserved >= AmountOf(t))
  PROVE  RInv'
<1>1. /\ IsRequest(task[t]) /\ Proper(task[t]) /\ task = [x \in Task |-> task[x]]
      /\ None \notin Task
  BY Ranges, SpendAssumption DEF IInv, Typed
<1>2. PICK at : \/ at = "heals" /\ ClaimFails(t) /\ MayHeal(t)
                \/ at = "recounts" /\ Release(t) /\ ~(reserved >= AmountOf(t))
  OBVIOUS
<1>3. PICK r : r = [task[t] EXCEPT !.at = at, !.sum = PendingSum]
  OBVIOUS
<1>4. /\ r.at = at /\ r.kind = task[t].kind /\ r.of = task[t].of /\ r.ok = task[t].ok
      /\ r.sum = PendingSum /\ r.seen = task[t].seen /\ r.was = task[t].was
  BY <1>1, <1>3 DEF IsRequest
<1>5. \/ /\ at = "heals" /\ task[t].at = "read" /\ task[t].kind \in {"create", "createPay"}
      \/ at = "recounts" /\ task[t].at = "releases"
  BY <1>2 DEF ClaimFails, Release
<1>6. /\ Proper(r) /\ ~Comes(r) /\ ~Comes(task[t]) /\ Counts(r) = Counts(task[t])
  BY <1>1, <1>4, <1>5, OwingFacts
   DEF Proper, Counts, Comes, Places, AboutWithdrawals
<1>7. /\ Weight(r) = Weight(task[t]) /\ Extra(r) = 0 /\ Extra(task[t]) = 0
      /\ Weight(task[t]) \in Nat
  BY <1>1, <1>4, <1>6, Weights DEF Weight, Extra
<1>8. /\ task' = [task EXCEPT ![t] = r] /\ current' = current \cup {t}
      /\ misled' = (misled \/ SomeUnsettled(t))
      /\ UNCHANGED <<lock, expired, reserved, quiet, docs, resync>>
  BY <1>1, <1>2, <1>3 DEF ClaimFails, Release
<1>9. /\ misled' \in BOOLEAN /\ (misled => misled')
      /\ (~misled' => ~misled /\ ~SomeUnsettled(t))
  <2>1. misled \in BOOLEAN
    BY Zenon DEF RInv, Sized
  <2> QED  BY <1>8, <2>1, Zenon DEF SomeUnsettled
<1>10. \A x \in Task : task'[x] = IF x = t THEN r ELSE task[x]
  BY <1>1, <1>8
<1>11. Sized'
  <2>1. \A x \in Task : Proper(task'[x])
    BY <1>6, <1>10, Ranges
  <2>2. expired' \in BOOLEAN
    BY <1>8, Ranges, Zenon
  <2>3. resync' # None => resync' \in Nat
    BY <1>8 DEF RInv, Sized
  <2>4. current' \subseteq Task \cup {None}
    BY <1>8 DEF RInv, Sized
  <2>5. /\ quiet' \in 0..2 /\ paid' \in Nat /\ moved' \in Int /\ reserved' \in Nat
        /\ status' \in [Withdrawal -> {"none", "pending", "approved", "paid", "rejected"}]
    BY <1>8, Ranges DEF docs, money
  <2> QED  BY <1>9, <2>1, <2>2, <2>3, <2>4, <2>5, Zenon DEF Sized
<1>12. Due' = Due /\ Promised' = Promised /\ Due \in Nat /\ PendingSum \in Nat
  <2>1. PendingSum' = PendingSum /\ PendingSum \in Nat
    BY <1>8, OwesSame, OwingFacts DEF RInv, docs
  <2>2. /\ Due' = Due + (PendingSum' - PendingSum) + (Weight(r) - Weight(task[t]))
        /\ Promised' = Promised + (PendingSum' - PendingSum)
                                + (Extra(r) - Extra(task[t]))
    BY <1>1, <1>6, <1>8, <1>11, <2>1, DueChanges DEF RInv
  <2>3. Due \in Nat /\ Promised \in Nat
    BY DueFacts DEF RInv
  <2> QED  BY <1>7, <2>1, <2>2, <2>3
<1>13. Available' = Available
  BY <1>8 DEF Available, docs, money
<1>14. Backed' /\ Room'
  BY <1>8, <1>9, <1>12, <1>13 DEF RInv, Backed, Room
<1>15. Recounted'
  <2> SUFFICES ASSUME ~misled'
               PROVE  /\ \A u \in Task :
                           u \in current' /\ task'[u].at \in {"heals", "recounts"}
                             => Due - Weight(task'[u]) <= task'[u].sum
                      /\ resync # None /\ None \in current' => Due <= resync
    BY <1>8, <1>12, Zenon DEF Recounted
  <2>1. ASSUME NEW u \in Task, u \in current', task'[u].at \in {"heals", "recounts"}
        PROVE  Due - Weight(task'[u]) <= task'[u].sum
    <3>1. CASE u = t
      <4>1. Due = PendingSum + Weight(task[t])
        BY <1>9, OthersSettled
      <4> QED  BY <1>4, <1>7, <1>10, <1>12, <3>1, <4>1
    <3>2. CASE u # t
      <4>1. task'[u] = task[u] /\ u \in current
        BY <1>8, <1>10, <2>1, <3>2
      <4> QED  BY <1>9, <2>1, <4>1 DEF RInv, Recounted
    <3> QED  BY <3>1, <3>2
  <2>2. resync # None /\ None \in current' => Due <= resync
    BY <1>1, <1>8, <1>9 DEF RInv, Recounted
  <2> QED  BY <2>1, <2>2
<1>16. SeenFund'
  <2>1. lock' \in {lock, t, None} /\ paid' = paid /\ lock' = lock
    BY <1>8 DEF docs, money
  <2>2. lock' = t /\ r.kind \in {"create", "createPay"} /\ r.at \in {"read", "heals"}
          => r.seen = Available
    BY <1>4, <1>5, <2>1 DEF RInv, SeenFund
  <2> QED  BY <1>8, <2>1, <2>2, SeenStep
<1> QED  BY <1>11, <1>14, <1>15, <1>16 DEF RInv

LEMMA SumsHold ==
  ASSUME task' = task, PendingSum' = PendingSum
  PROVE  Due' = Due /\ Promised' = Promised
<1>1. Held' = Held /\ Coming' = Coming
  BY DEF Held, Coming
<1>2. SumOn(Held, Task)' = SumOn(Held', Task) /\ SumOn(Coming, Task)' = SumOn(Coming', Task)
  OBVIOUS
<1> QED  BY <1>1, <1>2 DEF Due, Promised

LEMMA SameSums ==
  ASSUME RInv, task' = task, status' = status
  PROVE  Due' = Due /\ Promised' = Promised
BY OwesSame, SumsHold DEF RInv

\* The scheduler writes the sum it read, if nobody wrote the budget since.
LEMMA ResyncKeeps ==
  ASSUME IInv, RInv, ResyncReads \/ ResyncWrites
  PROVE  RInv'
<1>1. /\ UNCHANGED <<lock, expired, status, paid, moved, task>>
      /\ None \notin Task
  BY SpendAssumption DEF ResyncReads, ResyncWrites, docs, money
<1>2. /\ Due' = Due /\ Promised' = Promised /\ Available' = Available
      /\ Due \in Nat /\ PendingSum \in Nat
  BY <1>1, SameSums, DueFacts, OwingFacts DEF RInv, Available
<1>3. /\ misled' \in BOOLEAN /\ (misled => misled')
      /\ (ResyncReads /\ ~misled' => ~SomeUnsettled(None))
  <2>1. misled \in BOOLEAN
    BY Zenon DEF RInv, Sized
  <2>2. CASE ResyncReads
    <3>1. misled' = (misled \/ SomeUnsettled(None))
      BY <2>2 DEF ResyncReads
    <3> QED  BY <2>1, <3>1, Zenon DEF SomeUnsettled
  <2>3. CASE ResyncWrites /\ ~ResyncReads
    <3>1. misled' = (misled \/ SomeUnsettled(None)) \/ misled' = misled
      BY <2>3 DEF ResyncWrites, Rewrite
    <3> QED  BY <2>1, <2>3, <3>1, Zenon DEF SomeUnsettled
  <2> QED  BY <2>2, <2>3
<1>4. CASE ResyncReads
  <2>1. /\ resync' = PendingSum /\ current' = current \cup {None}
        /\ reserved' = reserved /\ quiet' = quiet
    BY <1>4 DEF ResyncReads
  <2>2. Sized'
    <3>1. expired' \in BOOLEAN
      BY <1>1, Ranges, Zenon
    <3>2. current' \subseteq Task \cup {None}
      BY <2>1 DEF RInv, Sized
    <3>3. /\ quiet' \in 0..2 /\ paid' \in Nat /\ moved' \in Int /\ reserved' \in Nat
          /\ status' \in [Withdrawal -> {"none", "pending", "approved", "paid", "rejected"}]
          /\ \A u \in Task : Proper(task'[u])
      BY <1>1, <2>1, Ranges
    <3>4. resync' # None => resync' \in Nat
      BY <1>2, <2>1
    <3> QED  BY <1>3, <3>1, <3>2, <3>3, <3>4, Zenon DEF Sized
  <2>3. Backed' /\ Room'
    BY <1>2, <1>3, <2>1 DEF RInv, Backed, Room
  <2>4. Recounted'
    <3> SUFFICES ASSUME ~misled'
                 PROVE  /\ \A u \in Task :
                             u \in current' /\ task'[u].at \in {"heals", "recounts"}
                               => Due' - Weight(task'[u]) <= task'[u].sum
                        /\ resync' # None /\ None \in current' => Due' <= resync'
      BY Zenon DEF Recounted
    <3>1. ASSUME NEW u \in Task, u \in current', task'[u].at \in {"heals", "recounts"}
          PROVE  Due' - Weight(task'[u]) <= task'[u].sum
      <4>1. u \in current /\ task'[u] = task[u]
        BY <1>1, <2>1, <3>1
      <4>2. Due - Weight(task[u]) <= task[u].sum
        BY <1>3, <3>1, <4>1 DEF RInv, Recounted
      <4> QED  BY <1>2, <4>1, <4>2
    <3>2. Due' <= resync'
      BY <1>2, <1>3, <1>4, <2>1, AllSettled
    <3> QED  BY <3>1, <3>2
  <2>5. SeenFund'
    BY <1>1, <1>2 DEF RInv, SeenFund
  <2> QED  BY <2>2, <2>3, <2>4, <2>5 DEF RInv
<1>5. CASE ResyncWrites
  <2>1. /\ resync' = None /\ resync \in Nat
        /\ \/ /\ None \in current /\ reserved' = resync /\ quiet' = 0 /\ current' = {}
           \/ UNCHANGED <<reserved, quiet, current>>
    BY <1>5 DEF ResyncWrites, Rewrite, Touch, RInv, Sized
  <2>2. Sized'
    <3>1. expired' \in BOOLEAN
      BY <1>1, Ranges, Zenon
    <3>2. current' \subseteq Task \cup {None}
      BY <2>1 DEF RInv, Sized
    <3>3. /\ quiet' \in 0..2 /\ paid' \in Nat /\ moved' \in Int /\ reserved' \in Nat
          /\ status' \in [Withdrawal -> {"none", "pending", "approved", "paid", "rejected"}]
          /\ \A u \in Task : Proper(task'[u])
      BY <1>1, <2>1, Ranges
    <3> QED  BY <1>3, <2>1, <3>1, <3>2, <3>3, Zenon DEF Sized
  <2>3. Backed'
    <3>1. ASSUME ~misled' PROVE Due <= reserved'
      <4>1. CASE None \in current /\ reserved' = resync
        <5>1. resync # None
          BY <1>5 DEF ResyncWrites
        <5> QED  BY <1>3, <3>1, <4>1, <5>1 DEF RInv, Recounted
      <4>2. CASE reserved' = reserved
        BY <1>3, <3>1, <4>2 DEF RInv, Backed
      <4> QED  BY <2>1, <4>1, <4>2
    <3> QED  BY <1>2, <3>1 DEF Backed
  <2>4. Room'
    BY <1>2, <1>3 DEF RInv, Room
  <2>5. Recounted'
    <3> SUFFICES ASSUME ~misled'
                 PROVE  \A u \in Task :
                          u \in current' /\ task'[u].at \in {"heals", "recounts"}
                            => Due' - Weight(task'[u]) <= task'[u].sum
      BY <2>1, Zenon DEF Recounted
    <3>1. ASSUME NEW u \in Task, u \in current', task'[u].at \in {"heals", "recounts"}
          PROVE  Due' - Weight(task'[u]) <= task'[u].sum
      <4>1. u \in current /\ task'[u] = task[u]
        BY <1>1, <2>1, <3>1
      <4>2. Due - Weight(task[u]) <= task[u].sum
        BY <1>3, <3>1, <4>1 DEF RInv, Recounted
      <4> QED  BY <1>2, <4>1, <4>2
    <3> QED  BY <3>1
  <2>6. SeenFund'
    BY <1>1, <1>2 DEF RInv, SeenFund
  <2> QED  BY <2>2, <2>3, <2>4, <2>5, <2>6 DEF RInv
<1> QED  BY <1>4, <1>5

\* The approval of a withdrawal, the documents the scheduler aborts, the clock.
LEMMA OthersKeep ==
  ASSUME IInv, RInv,
         \/ \E w \in Withdrawal : Approve(w)
         \/ \E d \in Doc : AbortStale(d)
         \/ Tick \/ Expire \/ UNCHANGED vars
  PROVE  RInv'
<1>1. /\ UNCHANGED <<lock, reserved, current, resync, misled, paid, moved, task>>
      /\ \/ status' = status
         \/ \E w \in Withdrawal : /\ status[w] = "pending"
                                  /\ status' = [status EXCEPT ![w] = "approved"]
  BY DEF Approve, AbortStale, Tick, Expire, vars, budget, docs, money, history
<1>2. quiet' \in 0..2
  <2>1. quiet' = quiet \/ (quiet < 2 /\ quiet' = quiet + 1)
    BY DEF Approve, AbortStale, Tick, Expire, vars, budget
  <2> QED  BY <2>1, Ranges
<1>3. expired' \in BOOLEAN
  <2>1. expired' = expired \/ expired' = TRUE
    BY Zenon DEF Approve, AbortStale, Tick, Expire, vars, budget
  <2> QED  BY <2>1, Ranges, Zenon
<1>4. Sized'
  <2>1. /\ current' \subseteq Task \cup {None} /\ paid' \in Nat /\ moved' \in Int
        /\ reserved' \in Nat /\ (resync' # None => resync' \in Nat)
        /\ \A u \in Task : Proper(task'[u])
    BY <1>1 DEF RInv, Sized
  <2>2. misled' \in BOOLEAN
    BY <1>1, Zenon DEF RInv, Sized
  <2>3. status' \in [Withdrawal -> {"none", "pending", "approved", "paid", "rejected"}]
    BY <1>1, Ranges
  <2> QED  BY <1>2, <1>3, <2>1, <2>2, <2>3, Zenon DEF Sized
<1>5. PendingSum' = PendingSum
  BY <1>1, OwesSame DEF RInv
<1>6. Due' = Due /\ Promised' = Promised /\ Due \in Nat /\ Promised \in Nat
  BY <1>1, <1>5, SumsHold, DueFacts DEF RInv
<1>7. SeenFund'
  BY <1>1 DEF RInv, SeenFund, Available
<1>8. Due' <= Due /\ Promised' + paid' <= Promised + paid
  BY <1>1, <1>6, Ranges
<1> QED  BY <1>1, <1>4, <1>7, <1>8, CalmStep

-----------------------------------------------------------------------------
LEMMA InitKeeps ==
  ASSUME Init
  PROVE  RInv
<1>1. \A t \in Task : task[t] = Idle
  BY DEF Init
<1>2. /\ Idle.at = "idle" /\ Idle.kind = "none" /\ Idle.sum = 0
      /\ Proper(Idle) /\ ~Counts(Idle) /\ ~Comes(Idle)
  <2>1. Idle.at = "idle" /\ Idle.kind = "none" /\ Idle.sum = 0
    BY DEF Idle
  <2>2. Proper(Idle) /\ ~Counts(Idle) /\ ~Comes(Idle)
    BY <2>1 DEF Proper, Counts, Comes, Places, AboutWithdrawals
  <2> QED  BY <2>1, <2>2
<1>3. PendingSum \in Nat /\ Funds \in Nat
  BY OwingFacts, SpendAssumption
<1>4. /\ reserved = PendingSum /\ PendingSum <= Funds /\ paid = 0 /\ moved = 0
      /\ expired = FALSE /\ misled = FALSE /\ quiet = 0 /\ current = {}
      /\ status \in [Withdrawal -> {"none", "pending", "approved"}] /\ resync = None
      /\ lock = None
  BY DEF Init
<1>5. Sized
  <2>1. expired \in BOOLEAN /\ misled \in BOOLEAN
    BY <1>4
  <2>2. /\ reserved \in Nat /\ quiet \in 0..2 /\ paid \in Nat /\ moved \in Int
        /\ current \subseteq Task \cup {None}
    BY <1>3, <1>4
  <2>3. status \in [Withdrawal -> {"none", "pending", "approved", "paid", "rejected"}]
    BY <1>4
  <2>4. \A t \in Task : Proper(task[t])
    BY <1>1, <1>2
  <2> QED  BY <1>4, <2>1, <2>2, <2>3, <2>4 DEF Sized
<1>6. SumOn(Held, Task) = 0 /\ SumOn(Coming, Task) = 0
  <2>1. \A t \in Task : Held[t] = 0 /\ Coming[t] = 0
    BY <1>1, <1>2 DEF Held, Coming, Weight, Extra
  <2>2. IsFiniteSet(Task)
    BY SpendAssumption
  <2> QED  BY <2>1, <2>2, SumZero
<1>7. Due = PendingSum /\ Promised = PendingSum
  BY <1>3, <1>6 DEF Due, Promised
<1>8. Backed /\ Room
  BY <1>3, <1>4, <1>7 DEF Backed, Room, Available
<1>9. Recounted
  BY <1>4 DEF Recounted
<1>10. SeenFund
  BY <1>1, <1>2 DEF SeenFund
<1> QED  BY <1>5, <1>8, <1>9, <1>10 DEF RInv

LEMMA NextKeeps ==
  ASSUME IInv, RInv, [Next]_vars
  PROVE  RInv'
<1>1. ASSUME NEW t \in Task, Step(t) PROVE RInv'
  <2>1. CASE Acquire(t) \/ GiveUp(t) \/ ClearFences(t) \/ AbortPending(t)
    BY <2>1, TurnKeeps
  <2>2. CASE Leave(t)
    BY <2>2, LeaveKeeps
  <2>3. CASE CreateReads(t) \/ PayReads(t) \/ PayAccount(t) \/ TransferReads(t)
    BY <2>3, ReadsKeep
  <2>4. CASE \/ PutFence(t) \/ PayAuthority(t) \/ Provisional(t)
             \/ TransferAuthority(t) \/ AbortOwn(t) \/ Confirm(t)
    BY <2>4, AwayKeeps
  <2>5. CASE PayClaim(t) \/ Undo(t) \/ Reject(t)
    BY <2>5, SettlesKeep
  <2>6. CASE Claim(t)
    BY <2>6, ClaimKeeps
  <2>7. CASE ClaimFails(t)
    <3>1. CASE MayHeal(t)
      BY <2>7, <3>1, RecountReads
    <3>2. CASE ~MayHeal(t)
      <4>1. /\ Goes(t, "leaves") /\ task[t].at = "read"
            /\ UNCHANGED <<budget, status, paid, moved, resync, misled>>
        BY <2>7, <3>2 DEF ClaimFails, budget, docs, money
      <4> QED  BY <4>1, GoesAway, Ranges
    <3> QED  BY <3>1, <3>2
  <2>8. CASE HealWrites(t)
    BY <2>8, HealKeeps
  <2>9. CASE Insert(t)
    BY <2>9, InsertKeeps
  <2>10. CASE Release(t)
    BY <2>10, ReleaseKeeps, RecountReads
  <2>11. CASE Recount(t)
    BY <2>11, ReleaseKeeps
  <2> QED  BY <1>1, <2>1, <2>2, <2>3, <2>4, <2>5, <2>6, <2>7, <2>8, <2>9, <2>10,
              <2>11 DEF Step
<1>2. ASSUME NEW t \in Task, Start(t) PROVE RInv'
  BY <1>2, StartKeeps
<1>3. ASSUME NEW t \in Task, Die(t) PROVE RInv'
  BY <1>3, TurnKeeps
<1>4. CASE ResyncReads \/ ResyncWrites
  BY <1>4, ResyncKeeps
<1>5. CASE \/ \E w \in Withdrawal : Approve(w)
           \/ \E d \in Doc : AbortStale(d)
           \/ Tick \/ Expire \/ UNCHANGED vars
  BY <1>5, OthersKeep
<1> QED  BY <1>1, <1>2, <1>3, <1>4, <1>5 DEF Next

\* What the reservation covers, in every state.
THEOREM Reserved == Spec => [](IInv /\ RInv)
<1>1. Init => RInv
  BY InitKeeps
<1>2. IInv /\ RInv /\ [Next]_vars => RInv'
  BY NextKeeps
<1> QED  BY <1>1, <1>2, Invariance, PTL DEF Spec

\* Every variable of the spending turn stays in its type.  That the reservation
\* never goes below zero is the guard of the decrement and the sums that correct
\* it (company_fund_budget.py:92-99, 131-143).
THEOREM TypeCorrect == Spec => []TypeOK
<1>1. IInv /\ RInv => TypeOK
  BY DEF IInv, Typed, RInv, Sized, Proper, TypeOK
<1> QED  BY <1>1, Reserved, PTL

\* However the creations, payments, rejections and recounts interleave and wherever
\* they die, the withdrawals that wait for their payment fit in the fund, unless
\* the reservation was set on the word of a request that stood still, or given
\* back for an insertion that had taken effect (company_fund_budget.py:83-85).
THEOREM PromisesKept == Spec => []PromisesFit
<1>1. ASSUME RInv PROVE PromisesFit
  <2>1. Promised <= Available => PendingSum <= Available
    <3>1. /\ SumOn(Coming, Task) \in Nat /\ PendingSum \in Nat
          /\ Promised = PendingSum + SumOn(Coming, Task)
      BY <1>1, TaskSums, OwingFacts DEF RInv, Promised
    <3>2. Available \in Int
      BY <1>1, Ranges, SpendAssumption DEF Available
    <3> QED  BY <3>1, <3>2
  <2> QED  BY <1>1, <2>1 DEF RInv, Room, PromisesFit
<1> QED  BY <1>1, Reserved, PTL
===============================================================================

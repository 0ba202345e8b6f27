--------------------------------- MODULE Sums ---------------------------------
(***************************************************************************)
(* Finite sums.  SpendLock and Conversions add up functions with the folds *)
(* of the community modules, which take the elements of a set in the order *)
(* CHOOSE gives them.  Here: the fold is a sum, in any order.              *)
(*                                                                         *)
(* The induction is over the subsets of a finite set, and is written with  *)
(* the set of counterexamples: one that is smallest cannot be.             *)
(***************************************************************************)
EXTENDS Integers, Functions, FiniteSets, FiniteSetTheorems, TLAPS

SumOn(f, S) == FoldFunctionOnSet(+, 0, f, S)

Pick(s) == CHOOSE x \in s : TRUE

\* g is the fold over the subsets of S.
IsFold(g, f, S) ==
  g = [s \in SUBSET S |-> IF s = {} THEN 0 ELSE f[Pick(s)] + g[s \ {Pick(s)}]]

LEMMA SumFolds ==
  ASSUME NEW f, NEW S
  PROVE  SumOn(f, S) = (CHOOSE g : IsFold(g, f, S))[S]
BY DEF SumOn, FoldFunctionOnSet, MapThenFoldSet, IsFold, Pick

LEMMA PickIn == ASSUME NEW s, s # {} PROVE Pick(s) \in s
BY DEF Pick

\* Of the counterexamples, one is smallest.
LEMMA Smallest ==
  ASSUME NEW S, IsFiniteSet(S), NEW T, T \subseteq SUBSET S, T # {}
  PROVE  \E u \in T : \A v \in T : v \subseteq u => v = u
<1>1. IsWellFoundedOn(StrictSubsetOrdering(S), SUBSET S)
  BY FS_StrictSubsetOrderingWellFounded, FS_FiniteSubsetsOfFinite
<1>2. PICK u \in T : \A v \in T : <<v, u>> \notin StrictSubsetOrdering(S)
  BY <1>1, WFMin
<1> QED
  BY <1>2 DEF StrictSubsetOrdering

-----------------------------------------------------------------------------
(* The fold exists, once                                                   *)

LEMMA FoldsAt ==
  ASSUME NEW f, NEW S, NEW g, IsFold(g, f, S), NEW s \in SUBSET S
  PROVE  g[s] = IF s = {} THEN 0 ELSE f[Pick(s)] + g[s \ {Pick(s)}]
<1> DEFINE F(u) == IF u = {} THEN 0 ELSE f[Pick(u)] + g[u \ {Pick(u)}]
<1>1. g = [u \in SUBSET S |-> F(u)]
  BY DEF IsFold
<1>2. g[s] = F(s)
  <2> HIDE DEF F
  <2> QED
    BY <1>1
<1> QED
  BY <1>2

LEMMA FoldsIf ==
  ASSUME NEW f, NEW S, NEW g, DOMAIN g = SUBSET S, g = [s \in SUBSET S |-> g[s]],
         \A s \in SUBSET S : g[s] = IF s = {} THEN 0 ELSE f[Pick(s)] + g[s \ {Pick(s)}]
  PROVE  IsFold(g, f, S)
BY DEF IsFold

LEMMA FoldsUnique ==
  ASSUME NEW f, NEW S, IsFiniteSet(S), NEW g, NEW h, IsFold(g, f, S), IsFold(h, f, S)
  PROVE  g = h
<1> DEFINE T == {s \in SUBSET S : g[s] # h[s]}
<1>1. T = {}
  <2> SUFFICES ASSUME T # {} PROVE FALSE
    OBVIOUS
  <2>1. PICK u \in T : \A v \in T : v \subseteq u => v = u
    <3>1. T \subseteq SUBSET S
      OBVIOUS
    <3> HIDE DEF T
    <3> QED
      BY <3>1, Smallest
  <2>2. u \in SUBSET S /\ g[u] # h[u]
    OBVIOUS
  <2>3. u # {} => Pick(u) \in u
    BY PickIn
  <2>4. u # {} => g[u \ {Pick(u)}] = h[u \ {Pick(u)}]
    BY <2>1, <2>2, <2>3
  <2> QED
    BY <2>2, <2>4, FoldsAt
<1>2. g = [s \in SUBSET S |-> g[s]] /\ h = [s \in SUBSET S |-> h[s]]
  BY DEF IsFold
<1>3. \A s \in SUBSET S : g[s] = h[s]
  BY <1>1
<1> HIDE DEF T
<1> QED
  BY <1>2, <1>3

LEMMA FoldsWithin ==
  ASSUME NEW f, NEW S, NEW T \in SUBSET S, NEW g, IsFold(g, f, S)
  PROVE  IsFold([s \in SUBSET T |-> g[s]], f, T)
<1> DEFINE h == [s \in SUBSET T |-> g[s]]
<1>1. ASSUME NEW s \in SUBSET T
      PROVE  h[s] = IF s = {} THEN 0 ELSE f[Pick(s)] + h[s \ {Pick(s)}]
  <2>1. g[s] = IF s = {} THEN 0 ELSE f[Pick(s)] + g[s \ {Pick(s)}]
    BY FoldsAt
  <2>2. s \ {Pick(s)} \in SUBSET T
    OBVIOUS
  <2> QED
    BY <2>1, <2>2
<1>2. DOMAIN h = SUBSET T /\ h = [s \in SUBSET T |-> h[s]]
  OBVIOUS
<1> HIDE DEF h
<1>3. IsFold(h, f, T)
  BY <1>1, <1>2, FoldsIf
<1> QED
  BY <1>3 DEF h

TheFold(f, S) == CHOOSE g : IsFold(g, f, S)

\* What a fold over S adds to an element is the fold over what is left.
LEMMA FoldsOver ==
  ASSUME NEW f, NEW S, IsFiniteSet(S), NEW g, IsFold(g, f, S), NEW T \in SUBSET S
  PROVE  g[T] = TheFold(f, T)[T]
<1> DEFINE h == [s \in SUBSET T |-> g[s]]
<1>1. IsFold(h, f, T)
  BY FoldsWithin
<1>2. IsFold(TheFold(f, T), f, T)
  BY <1>1 DEF TheFold
<1>3. IsFiniteSet(T)
  BY FS_Subset
<1>4. h = TheFold(f, T)
  BY <1>1, <1>2, <1>3, FoldsUnique
<1> QED
  BY <1>4

LEMMA FoldsExist ==
  ASSUME NEW f, NEW S, IsFiniteSet(S)
  PROVE  IsFold(TheFold(f, S), f, S)
<1> DEFINE T == {s \in SUBSET S : ~\E g : IsFold(g, f, s)}
<1>1. T = {}
  <2> SUFFICES ASSUME T # {} PROVE FALSE
    OBVIOUS
  <2>1. PICK u \in T : \A v \in T : v \subseteq u => v = u
    <3>1. T \subseteq SUBSET S
      OBVIOUS
    <3> HIDE DEF T
    <3> QED
      BY <3>1, Smallest
  <2>2. u \in SUBSET S /\ ~\E g : IsFold(g, f, u)
    OBVIOUS
  <2>3. ASSUME NEW v \in SUBSET u, v # u PROVE IsFold(TheFold(f, v), f, v)
    <3>1. v \in SUBSET S /\ v \notin T
      BY <2>1, <2>2, <2>3
    <3>2. \E g : IsFold(g, f, v)
      BY <3>1
    <3> QED
      BY <3>2 DEF TheFold
  <2> HIDE DEF T
  <2> DEFINE F(v) == IF v = {} THEN 0
                     ELSE f[Pick(v)] + TheFold(f, v \ {Pick(v)})[v \ {Pick(v)}]
             h == [v \in SUBSET u |-> F(v)]
  <2>4. ASSUME NEW v \in SUBSET u, v # u PROVE TheFold(f, v)[v] = F(v)
    <3>1. IsFold(TheFold(f, v), f, v) /\ IsFiniteSet(v) /\ v \in SUBSET v
      BY <2>2, <2>3, <2>4, FS_Subset
    <3>2. TheFold(f, v)[v] = IF v = {} THEN 0
                             ELSE f[Pick(v)] + TheFold(f, v)[v \ {Pick(v)}]
      BY <3>1, FoldsAt
    <3>3. TheFold(f, v)[v \ {Pick(v)}] = TheFold(f, v \ {Pick(v)})[v \ {Pick(v)}]
      BY <3>1, FoldsOver, v \ {Pick(v)} \in SUBSET v
    <3> QED
      BY <3>2, <3>3
  <2>5. ASSUME NEW v \in SUBSET u
        PROVE  h[v] = IF v = {} THEN 0 ELSE f[Pick(v)] + h[v \ {Pick(v)}]
    <3>1. h[v] = F(v)
      <4> HIDE DEF F
      <4> QED
        OBVIOUS
    <3>2. CASE v = {}
      BY <3>1, <3>2
    <3>3. CASE v # {}
      <4> DEFINE w == v \ {Pick(v)}
      <4>1. w \in SUBSET u /\ w # u
        BY <3>3, PickIn
      <4>2. h[w] = TheFold(f, w)[w]
        <5>1. h[w] = F(w)
          <6> HIDE DEF F, w
          <6> QED
            BY <4>1
        <5> HIDE DEF F, w
        <5> QED
          BY <4>1, <5>1, <2>4
      <4> QED
        BY <3>1, <3>3, <4>2
    <3> QED
      BY <3>2, <3>3
  <2>6. DOMAIN h = SUBSET u /\ h = [v \in SUBSET u |-> h[v]]
    <3> HIDE DEF F
    <3> QED
      OBVIOUS
  <2> HIDE DEF h
  <2>7. IsFold(h, f, u)
    BY <2>5, <2>6, FoldsIf
  <2> QED
    BY <2>2, <2>7
<1>2. \E g : IsFold(g, f, S)
  BY <1>1
<1> QED
  BY <1>2 DEF TheFold

LEMMA SumPicks ==
  ASSUME NEW f, NEW S, IsFiniteSet(S)
  PROVE  SumOn(f, S) = IF S = {} THEN 0 ELSE f[Pick(S)] + SumOn(f, S \ {Pick(S)})
<1>1. IsFold(TheFold(f, S), f, S)
  BY FoldsExist
<1>2. SumOn(f, S) = TheFold(f, S)[S] /\ S \in SUBSET S
  BY SumFolds DEF TheFold
<1>3. TheFold(f, S)[S] = IF S = {} THEN 0
                         ELSE f[Pick(S)] + TheFold(f, S)[S \ {Pick(S)}]
  BY <1>1, <1>2, FoldsAt
<1>4. TheFold(f, S)[S \ {Pick(S)}] = SumOn(f, S \ {Pick(S)})
  <2>1. TheFold(f, S)[S \ {Pick(S)}] = TheFold(f, S \ {Pick(S)})[S \ {Pick(S)}]
    BY <1>1, FoldsOver, S \ {Pick(S)} \in SUBSET S
  <2> QED
    BY <2>1, SumFolds DEF TheFold
<1> QED
  BY <1>2, <1>3, <1>4

-----------------------------------------------------------------------------
(* It is a sum                                                             *)

LEMMA SumOfNone == ASSUME NEW f PROVE SumOn(f, {}) = 0
BY SumPicks, FS_EmptySet

LEMMA SumType ==
  ASSUME NEW f, NEW S, IsFiniteSet(S), \A x \in S : f[x] \in Int
  PROVE  SumOn(f, S) \in Int
<1> DEFINE T == {s \in SUBSET S : SumOn(f, s) \notin Int}
<1>1. T = {}
  <2> SUFFICES ASSUME T # {} PROVE FALSE
    OBVIOUS
  <2>1. PICK u \in T : \A v \in T : v \subseteq u => v = u
    <3>1. T \subseteq SUBSET S
      OBVIOUS
    <3> HIDE DEF T
    <3> QED
      BY <3>1, Smallest
  <2>2. u \in SUBSET S /\ SumOn(f, u) \notin Int /\ IsFiniteSet(u)
    BY FS_Subset
  <2>3. CASE u = {}
    BY <2>2, <2>3, SumOfNone
  <2>4. CASE u # {}
    <3>1. Pick(u) \in u
      BY <2>4, PickIn
    <3>2. SumOn(f, u \ {Pick(u)}) \in Int /\ f[Pick(u)] \in Int
      BY <2>1, <2>2, <3>1
    <3> QED
      BY <2>2, <2>4, <3>2, SumPicks
  <2> QED
    BY <2>3, <2>4
<1> QED
  BY <1>1

\* Any element may be the first.
LEMMA SumTakes ==
  ASSUME NEW f, NEW S, IsFiniteSet(S), \A x \in S : f[x] \in Int, NEW e \in S
  PROVE  SumOn(f, S) = f[e] + SumOn(f, S \ {e})
<1> DEFINE T == {s \in SUBSET S : \E x \in s : SumOn(f, s) # f[x] + SumOn(f, s \ {x})}
<1>1. T = {}
  <2> SUFFICES ASSUME T # {} PROVE FALSE
    OBVIOUS
  <2>1. PICK u \in T : \A v \in T : v \subseteq u => v = u
    <3>1. T \subseteq SUBSET S
      OBVIOUS
    <3> HIDE DEF T
    <3> QED
      BY <3>1, Smallest
  <2>2. u \in SUBSET S /\ IsFiniteSet(u)
    BY FS_Subset
  <2>3. PICK x \in u : SumOn(f, u) # f[x] + SumOn(f, u \ {x})
    OBVIOUS
  <2>4. \A v \in SUBSET u : v # u => /\ IsFiniteSet(v) /\ SumOn(f, v) \in Int
                                    /\ \A y \in v : SumOn(f, v) = f[y] + SumOn(f, v \ {y})
    <3> SUFFICES ASSUME NEW v \in SUBSET u, v # u
                 PROVE  /\ IsFiniteSet(v) /\ SumOn(f, v) \in Int
                        /\ \A y \in v : SumOn(f, v) = f[y] + SumOn(f, v \ {y})
      OBVIOUS
    <3>1. v \in SUBSET S /\ v \notin T
      BY <2>1, <2>2
    <3>2. IsFiniteSet(v)
      BY <3>1, FS_Subset
    <3> QED
      BY <3>1, <3>2, SumType
  <2> HIDE DEF T
  <2> DEFINE p == Pick(u)
  <2>5. p \in u /\ SumOn(f, u) = f[p] + SumOn(f, u \ {p})
    BY <2>2, <2>3, PickIn, SumPicks
  <2> HIDE DEF p
  <2>6. x # p
    BY <2>3, <2>5
  <2>7. SumOn(f, u \ {p}) = f[x] + SumOn(f, (u \ {p}) \ {x})
    BY <2>3, <2>4, <2>5, <2>6
  <2>8. SumOn(f, u \ {x}) = f[p] + SumOn(f, (u \ {x}) \ {p})
    BY <2>3, <2>4, <2>5, <2>6
  <2>9. (u \ {p}) \ {x} = (u \ {x}) \ {p}
    OBVIOUS
  <2>10. SumOn(f, (u \ {p}) \ {x}) \in Int /\ f[x] \in Int /\ f[p] \in Int
    BY <2>2, <2>3, <2>4, <2>5
  <2> DEFINE rest == SumOn(f, (u \ {p}) \ {x})
  <2>11. SumOn(f, u) = f[p] + (f[x] + rest)
    BY <2>5, <2>7
  <2>12. SumOn(f, u \ {x}) = f[p] + rest
    BY <2>8, <2>9
  <2>13. rest \in Int
    BY <2>10
  <2> HIDE DEF rest
  <2>14. f[p] + (f[x] + rest) = f[x] + (f[p] + rest)
    BY <2>10, <2>13
  <2> QED
    BY <2>3, <2>11, <2>12, <2>14
<1> QED
  BY <1>1

LEMMA SumAdds ==
  ASSUME NEW f, NEW S, IsFiniteSet(S), NEW e, e \notin S,
         \A x \in S \cup {e} : f[x] \in Int
  PROVE  SumOn(f, S \cup {e}) = f[e] + SumOn(f, S)
<1>1. IsFiniteSet(S \cup {e}) /\ (S \cup {e}) \ {e} = S
  BY FS_AddElement
<1> QED
  BY <1>1, SumTakes

LEMMA SumSame ==
  ASSUME NEW f, NEW g, NEW S, IsFiniteSet(S), \A x \in S : f[x] = g[x]
  PROVE  SumOn(f, S) = SumOn(g, S)
<1> DEFINE T == {s \in SUBSET S : SumOn(f, s) # SumOn(g, s)}
<1>1. T = {}
  <2> SUFFICES ASSUME T # {} PROVE FALSE
    OBVIOUS
  <2>1. PICK u \in T : \A v \in T : v \subseteq u => v = u
    <3>1. T \subseteq SUBSET S
      OBVIOUS
    <3> HIDE DEF T
    <3> QED
      BY <3>1, Smallest
  <2>2. u \in SUBSET S /\ SumOn(f, u) # SumOn(g, u) /\ IsFiniteSet(u)
    BY FS_Subset
  <2>3. CASE u = {}
    BY <2>2, <2>3, SumOfNone
  <2>4. CASE u # {}
    <3>1. Pick(u) \in u
      BY <2>4, PickIn
    <3>2. SumOn(f, u \ {Pick(u)}) = SumOn(g, u \ {Pick(u)}) /\ f[Pick(u)] = g[Pick(u)]
      BY <2>1, <2>2, <3>1
    <3> QED
      BY <2>2, <2>4, <3>2, SumPicks
  <2> QED
    BY <2>3, <2>4
<1> QED
  BY <1>1

LEMMA SumNat ==
  ASSUME NEW f, NEW S, IsFiniteSet(S), \A x \in S : f[x] \in Nat
  PROVE  SumOn(f, S) \in Nat
<1> DEFINE T == {s \in SUBSET S : SumOn(f, s) \notin Nat}
<1>1. T = {}
  <2> SUFFICES ASSUME T # {} PROVE FALSE
    OBVIOUS
  <2>1. PICK u \in T : \A v \in T : v \subseteq u => v = u
    <3>1. T \subseteq SUBSET S
      OBVIOUS
    <3> HIDE DEF T
    <3> QED
      BY <3>1, Smallest
  <2>2. u \in SUBSET S /\ SumOn(f, u) \notin Nat /\ IsFiniteSet(u)
    BY FS_Subset
  <2>3. CASE u = {}
    BY <2>2, <2>3, SumOfNone
  <2>4. CASE u # {}
    <3>1. Pick(u) \in u
      BY <2>4, PickIn
    <3>2. SumOn(f, u \ {Pick(u)}) \in Nat /\ f[Pick(u)] \in Nat
      BY <2>1, <2>2, <3>1
    <3> QED
      BY <2>2, <2>4, <3>2, SumPicks
  <2> QED
    BY <2>3, <2>4
<1> QED
  BY <1>1

LEMMA SumLeq ==
  ASSUME NEW f, NEW g, NEW S, IsFiniteSet(S),
         \A x \in S : f[x] \in Int /\ g[x] \in Int /\ f[x] <= g[x]
  PROVE  SumOn(f, S) <= SumOn(g, S)
<1> DEFINE T == {s \in SUBSET S : ~(SumOn(f, s) <= SumOn(g, s))}
<1>1. T = {}
  <2> SUFFICES ASSUME T # {} PROVE FALSE
    OBVIOUS
  <2>1. PICK u \in T : \A v \in T : v \subseteq u => v = u
    <3>1. T \subseteq SUBSET S
      OBVIOUS
    <3> HIDE DEF T
    <3> QED
      BY <3>1, Smallest
  <2>2. u \in SUBSET S /\ ~(SumOn(f, u) <= SumOn(g, u)) /\ IsFiniteSet(u)
    BY FS_Subset
  <2>3. CASE u = {}
    BY <2>2, <2>3, SumOfNone
  <2>4. CASE u # {}
    <3>1. Pick(u) \in u
      BY <2>4, PickIn
    <3>2. PICK v : v = u \ {Pick(u)}
      OBVIOUS
    <3>3. SumOn(f, v) <= SumOn(g, v) /\ f[Pick(u)] \in Int /\ g[Pick(u)] \in Int /\ f[Pick(u)] <= g[Pick(u)]
         
      BY <2>1, <2>2, <3>1, <3>2
    <3>4. SumOn(f, u) = f[Pick(u)] + SumOn(f, v) /\ SumOn(g, u) = g[Pick(u)] + SumOn(g, v)
      BY <2>2, <2>4, <3>1, <3>2, SumPicks
    <3>5. SumOn(f, v) \in Int /\ SumOn(g, v) \in Int
      <4>1. IsFiniteSet(v) /\ \A x \in v : f[x] \in Int /\ g[x] \in Int
        BY <2>2, <3>2, FS_Subset
      <4> QED
        BY <4>1, SumType
    <3> QED
      BY <2>2, <3>3, <3>4, <3>5
  <2> QED
    BY <2>3, <2>4
<1> QED
  BY <1>1

LEMMA SumZero ==
  ASSUME NEW f, NEW S, IsFiniteSet(S), \A x \in S : f[x] = 0
  PROVE  SumOn(f, S) = 0
<1> DEFINE T == {s \in SUBSET S : SumOn(f, s) # 0}
<1>1. T = {}
  <2> SUFFICES ASSUME T # {} PROVE FALSE
    OBVIOUS
  <2>1. PICK u \in T : \A v \in T : v \subseteq u => v = u
    <3>1. T \subseteq SUBSET S
      OBVIOUS
    <3> HIDE DEF T
    <3> QED
      BY <3>1, Smallest
  <2>2. u \in SUBSET S /\ SumOn(f, u) # 0 /\ IsFiniteSet(u)
    BY FS_Subset
  <2>3. CASE u = {}
    BY <2>2, <2>3, SumOfNone
  <2>4. CASE u # {}
    <3>1. Pick(u) \in u
      BY <2>4, PickIn
    <3>2. PICK v : v = u \ {Pick(u)}
      OBVIOUS
    <3>3. SumOn(f, v) = 0 /\ f[Pick(u)] = 0
      BY <2>1, <2>2, <3>1, <3>2
    <3>4. SumOn(f, u) = f[Pick(u)] + SumOn(f, v)
      BY <2>2, <2>4, <3>1, <3>2, SumPicks
    <3> QED
      BY <2>2, <3>1, <3>3, <3>4
  <2> QED
    BY <2>3, <2>4
<1> QED
  BY <1>1

\* What changing one entry does to the sum.
LEMMA SumChanges ==
  ASSUME NEW f, NEW g, NEW S, IsFiniteSet(S), NEW e \in S,
         \A x \in S : f[x] \in Int /\ g[x] \in Int,
         \A x \in S \ {e} : g[x] = f[x]
  PROVE  SumOn(g, S) = SumOn(f, S) - f[e] + g[e]
<1>1. IsFiniteSet(S \ {e})
  BY FS_Subset
<1>2. SumOn(f, S) = f[e] + SumOn(f, S \ {e}) /\ SumOn(g, S) = g[e] + SumOn(g, S \ {e})
  BY SumTakes
<1>3. SumOn(f, S \ {e}) = SumOn(g, S \ {e})
  BY <1>1, SumSame
<1>4. SumOn(f, S \ {e}) \in Int
  BY <1>1, SumType
<1> QED
  BY <1>2, <1>3, <1>4

\* Only one entry counts.
LEMMA SumOnly ==
  ASSUME NEW f, NEW S, IsFiniteSet(S), NEW e \in S, f[e] \in Int,
         \A x \in S \ {e} : f[x] = 0
  PROVE  SumOn(f, S) = f[e]
<1> DEFINE z == [x \in S |-> 0]
           T == S \ {e}
<1>1. IsFiniteSet(T) /\ \A x \in S : f[x] \in Int
  BY FS_Subset
<1>2. SumOn(f, S) = f[e] + SumOn(f, T)
  BY <1>1, SumTakes
<1>3. SumOn(f, T) = 0
  BY <1>1, SumZero
<1> QED
  BY <1>2, <1>3
===============================================================================

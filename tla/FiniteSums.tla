----------------------------- MODULE FiniteSums -----------------------------
(***************************************************************************)
(* Sums over finite sets, as the models take them with MapThenSumSet: the  *)
(* sum over a set with one element more, of values that change in one      *)
(* place, and how sums compare.                                            *)
(*                                                                         *)
(* MapThenSumSet is a function on the subsets of a set that is defined by  *)
(* recursion.  That there is one such function (SumExists, SumsAgree), and *)
(* that it does not depend on the element it chooses first (TotalWithout),   *)
(* is shown with a smallest subset for which it would fail.                *)
(***************************************************************************)
EXTENDS Sums, FiniteSetTheorems, TLAPS

Chosen(s) == CHOOSE x \in s : TRUE

\* The function that MapThenSumSet evaluates.
IsSum(g, f, S) ==
    g = [s \in SUBSET S |-> IF s = {} THEN 0 ELSE f[Chosen(s)] + g[s \ {Chosen(s)}]]

-----------------------------------------------------------------------------
(* The recursion *)

\* Of the subsets of a finite set that fail there is a smallest.
LEMMA SmallestFails ==
    ASSUME NEW S, IsFiniteSet(S), NEW Fails, Fails \subseteq SUBSET S, Fails # {}
    PROVE  \E t \in Fails : \A u \in Fails : u \subseteq t => u = t
<1>1. IsWellFoundedOn(StrictSubsetOrdering(S), FiniteSubsetsOf(S))
  BY FS_StrictSubsetOrderingWellFounded
<1>2. Fails \subseteq FiniteSubsetsOf(S)
  BY FS_Subset DEF FiniteSubsetsOf
<1>3. PICK t \in Fails : \A u \in Fails : ~ (<<u, t>> \in StrictSubsetOrdering(S))
  BY <1>1, <1>2, WFMin
<1> QED
  BY <1>3 DEF StrictSubsetOrdering

LEMMA ChosenIn == \A s : s # {} => Chosen(s) \in s
BY DEF Chosen

LEMMA SumUnfolds ==
    ASSUME NEW f, NEW S, NEW g, IsSum(g, f, S), NEW s \in SUBSET S
    PROVE  g[s] = IF s = {} THEN 0 ELSE f[Chosen(s)] + g[s \ {Chosen(s)}]
BY DEF IsSum

LEMMA SumsAgree ==
    ASSUME NEW S, IsFiniteSet(S), NEW T \in SUBSET S, NEW f,
           NEW g, NEW h, IsSum(g, f, S), IsSum(h, f, T)
    PROVE  \A s \in SUBSET T : g[s] = h[s]
<1> DEFINE Fails == {s \in SUBSET T : g[s] # h[s]}
<1>1. SUFFICES ASSUME Fails # {} PROVE FALSE
  OBVIOUS
<1>2. PICK t \in Fails : \A u \in Fails : u \subseteq t => u = t
  <2>1. Fails \subseteq SUBSET S
    OBVIOUS
  <2> HIDE DEF Fails
  <2> QED
    BY <1>1, <2>1, SmallestFails
<1>3. g[t] = IF t = {} THEN 0 ELSE f[Chosen(t)] + g[t \ {Chosen(t)}]
  <2>1. t \in SUBSET S
    OBVIOUS
  <2> QED
    BY <2>1, SumUnfolds
<1>4. h[t] = IF t = {} THEN 0 ELSE f[Chosen(t)] + h[t \ {Chosen(t)}]
  BY SumUnfolds
<1>5. t # {}
  BY <1>3, <1>4
<1>6. t \ {Chosen(t)} \notin Fails
  BY <1>2, <1>5, ChosenIn
<1>7. g[t \ {Chosen(t)}] = h[t \ {Chosen(t)}]
  BY <1>6
<1> QED
  BY <1>3, <1>4, <1>5, <1>7

LEMMA SumExists ==
    ASSUME NEW S, IsFiniteSet(S), NEW f
    PROVE  \E g : IsSum(g, f, S)
<1> DEFINE Fails == {s \in SUBSET S : ~ \E g : IsSum(g, f, s)}
<1>1. SUFFICES ASSUME Fails # {} PROVE FALSE
  OBVIOUS
<1>2. PICK t \in Fails : \A u \in Fails : u \subseteq t => u = t
  <2>1. Fails \subseteq SUBSET S
    OBVIOUS
  <2> HIDE DEF Fails
  <2> QED
    BY <1>1, <2>1, SmallestFails
<1> DEFINE sum(u) == CHOOSE g : IsSum(g, f, u)
           step(u) == IF u = {} THEN 0 ELSE f[Chosen(u)] + sum(u \ {Chosen(u)})[u \ {Chosen(u)}]
           all == [u \in SUBSET t |-> step(u)]
<1>3. \A u \in SUBSET t : u # t => IsSum(sum(u), f, u)
  BY <1>2
<1>4. ASSUME NEW u \in SUBSET t, u # {}
      PROVE  all[u \ {Chosen(u)}] = sum(u \ {Chosen(u)})[u \ {Chosen(u)}]
  <2> DEFINE v == u \ {Chosen(u)}
  <2>0. SUFFICES all[v] = sum(v)[v]
    OBVIOUS
  <2>1. v \in SUBSET t /\ v # t
    BY <1>4, ChosenIn
  <2>2. IsSum(sum(v), f, v)
    BY <1>3, <2>1
  <2>3. sum(v)[v] = IF v = {} THEN 0 ELSE f[Chosen(v)] + sum(v)[v \ {Chosen(v)}]
    <3> HIDE DEF sum, v
    <3> QED BY <2>2, SumUnfolds
  <2>4. CASE v = {}
    <3>1. all[v] = step(v)
      BY <2>1
    <3> HIDE DEF sum, v, all
    <3> QED
      BY <3>1, <2>3, <2>4
  <2>5. CASE v # {}
    <3> DEFINE w == v \ {Chosen(v)}
    <3>1. w \in SUBSET v /\ w # t /\ w \in SUBSET t
      BY <2>1, <2>5, ChosenIn
    <3>2. IsSum(sum(w), f, w)
      BY <1>3, <3>1
    <3>3. IsFiniteSet(v)
      BY <2>1, FS_Subset
    <3>4. sum(v)[w] = sum(w)[w]
      <4> HIDE DEF sum, w, v
      <4> QED BY <2>2, <3>1, <3>2, <3>3, SumsAgree
    <3>5. all[v] = step(v)
      BY <2>1
    <3> HIDE DEF sum, v, all
    <3> QED
      BY <3>5, <3>4, <2>3, <2>5
  <2> QED
    BY <2>4, <2>5
<1>5. IsSum(all, f, t)
  <2>1. \A u \in SUBSET t :
          all[u] = IF u = {} THEN 0 ELSE f[Chosen(u)] + all[u \ {Chosen(u)}]
    <3> TAKE u \in SUBSET t
    <3>1. all[u] = step(u)
      OBVIOUS
    <3> HIDE DEF all, sum
    <3> QED
      BY <1>4, <3>1
  <2>2. all = [u \in SUBSET t |-> all[u]]
    OBVIOUS
  <2> HIDE DEF all
  <2> QED
    BY <2>1, <2>2 DEF IsSum
<1> QED
  BY <1>2, <1>5

-----------------------------------------------------------------------------
(* What the sum over a set is *)

\* MapThenSumSet evaluates such a function.
LEMMA TotalIsSum ==
    ASSUME NEW S, IsFiniteSet(S), NEW f
    PROVE  \E g : IsSum(g, f, S) /\ Total(f, S) = g[S]
<1> DEFINE iter == CHOOSE g : IsSum(g, f, S)
<1>1. IsSum(iter, f, S)
  BY SumExists
<1>2. Total(f, S) = iter[S]
  BY DEF Total, MapThenSumSet, MapThenFoldSet, IsSum, Chosen
<1> QED
  BY <1>1, <1>2

LEMMA TotalOfNothing == \A f : Total(f, {}) = 0
<1> TAKE f
<1>1. IsFiniteSet({})
  BY FS_EmptySet
<1>2. PICK g : IsSum(g, f, {}) /\ Total(f, {}) = g[{}]
  BY <1>1, TotalIsSum
<1> QED
  BY <1>2, SumUnfolds

\* The sum over a subset is the same function's value there.
LEMMA TotalWithin ==
    ASSUME NEW S, IsFiniteSet(S), NEW f, NEW g, IsSum(g, f, S), NEW T \in SUBSET S
    PROVE  Total(f, T) = g[T]
<1>1. IsFiniteSet(T)
  BY FS_Subset
<1>2. PICK h : IsSum(h, f, T) /\ Total(f, T) = h[T]
  BY <1>1, TotalIsSum
<1> QED
  BY <1>2, SumsAgree

LEMMA TotalUnfolds ==
    ASSUME NEW S, IsFiniteSet(S), NEW f, S # {}
    PROVE  Total(f, S) = f[Chosen(S)] + Total(f, S \ {Chosen(S)})
<1>1. PICK g : IsSum(g, f, S)
  BY SumExists
<1>2. Total(f, S) = g[S] /\ Total(f, S \ {Chosen(S)}) = g[S \ {Chosen(S)}]
  BY <1>1, TotalWithin
<1> QED
  BY <1>1, <1>2, SumUnfolds

LEMMA TotalIsInt ==
    ASSUME NEW S, IsFiniteSet(S), NEW f, \A x \in S : f[x] \in Int
    PROVE  Total(f, S) \in Int
<1> DEFINE Fails == {s \in SUBSET S : Total(f, s) \notin Int}
<1>1. SUFFICES ASSUME Fails # {} PROVE FALSE
  OBVIOUS
<1>2. PICK t \in Fails : \A u \in Fails : u \subseteq t => u = t
  <2>1. Fails \subseteq SUBSET S
    OBVIOUS
  <2> HIDE DEF Fails
  <2> QED
    BY <1>1, <2>1, SmallestFails
<1>3. t \in SUBSET S /\ IsFiniteSet(t) /\ t # {}
  <2>1. Total(f, {}) \in Int
    BY TotalOfNothing
  <2> QED
    BY <2>1, FS_Subset
<1>4. Total(f, t) = f[Chosen(t)] + Total(f, t \ {Chosen(t)})
  BY <1>3, TotalUnfolds
<1>5. Total(f, t \ {Chosen(t)}) \in Int
  BY <1>2, <1>3, ChosenIn
<1> QED
  BY <1>3, <1>4, <1>5, ChosenIn

\* Any element may be taken first.
LEMMA TotalWithout ==
    ASSUME NEW S, IsFiniteSet(S), NEW f, \A x \in S : f[x] \in Int, NEW e \in S
    PROVE  Total(f, S) = f[e] + Total(f, S \ {e})
<1> DEFINE Fails == {s \in SUBSET S : \E x \in s : Total(f, s) # f[x] + Total(f, s \ {x})}
<1>1. SUFFICES ASSUME Fails # {} PROVE FALSE
  OBVIOUS
<1>2. PICK t \in Fails : \A u \in Fails : u \subseteq t => u = t
  <2>1. Fails \subseteq SUBSET S
    OBVIOUS
  <2> HIDE DEF Fails
  <2> QED
    BY <1>1, <2>1, SmallestFails
<1>3. PICK x \in t : Total(f, t) # f[x] + Total(f, t \ {x})
  OBVIOUS
<1>4. t \in SUBSET S /\ IsFiniteSet(t)
  BY FS_Subset
<1> DEFINE y == Chosen(t)
<1>5. y \in t
  BY <1>3, ChosenIn
<1>6. Total(f, t) = f[y] + Total(f, t \ {y})
  BY <1>3, <1>4, TotalUnfolds
<1> HIDE DEF y
<1>7. x # y
  BY <1>3, <1>6
<1>8. t \ {y} \notin Fails /\ t \ {x} \notin Fails
  BY <1>2, <1>5
<1>9. /\ Total(f, t \ {y}) = f[x] + Total(f, (t \ {y}) \ {x})
      /\ Total(f, t \ {x}) = f[y] + Total(f, (t \ {x}) \ {y})
  BY <1>4, <1>5, <1>7, <1>8
<1>10. (t \ {y}) \ {x} = (t \ {x}) \ {y}
  OBVIOUS
<1>11. Total(f, (t \ {x}) \ {y}) \in Int
  <2>1. IsFiniteSet((t \ {x}) \ {y})
    BY <1>4, FS_Subset
  <2> QED
    BY <2>1, <1>4, TotalIsInt
<1>12. f[x] \in Int /\ f[y] \in Int
  BY <1>4, <1>5
<1>13. Total(f, (t \ {y}) \ {x}) = Total(f, (t \ {x}) \ {y})
  BY <1>10
<1> QED
  <2> DEFINE rest == Total(f, (t \ {x}) \ {y})
             one == Total(f, t \ {x})
             other == Total(f, t \ {y})
  <2>1. /\ Total(f, t) = f[y] + other
        /\ other = f[x] + rest
        /\ one = f[y] + rest
        /\ Total(f, t) # f[x] + one
        /\ rest \in Int
    BY <1>3, <1>6, <1>9, <1>11, <1>13
  <2> HIDE DEF rest, one, other
  <2> QED
    BY <2>1, <1>12

LEMMA TotalWith ==
    ASSUME NEW S, IsFiniteSet(S), NEW f, NEW e, e \notin S, \A x \in S \cup {e} : f[x] \in Int
    PROVE  Total(f, S \cup {e}) = f[e] + Total(f, S)
<1>1. IsFiniteSet(S \cup {e})
  BY FS_AddElement
<1>2. (S \cup {e}) \ {e} = S
  OBVIOUS
<1> QED
  BY <1>1, <1>2, TotalWithout

-----------------------------------------------------------------------------
(* Sums compared *)

\* Of two sums, where each value is at most the other.
LEMMA TotalAtMost ==
    ASSUME NEW S, IsFiniteSet(S), NEW f, NEW g,
           \A x \in S : f[x] \in Int /\ g[x] \in Int /\ f[x] <= g[x]
    PROVE  Total(f, S) <= Total(g, S)
<1> DEFINE Fails == {s \in SUBSET S : ~ (Total(f, s) <= Total(g, s))}
<1>1. SUFFICES ASSUME Fails # {} PROVE FALSE
  OBVIOUS
<1>2. PICK t \in Fails : \A u \in Fails : u \subseteq t => u = t
  <2>1. Fails \subseteq SUBSET S
    OBVIOUS
  <2> HIDE DEF Fails
  <2> QED
    BY <1>1, <2>1, SmallestFails
<1>3. t \in SUBSET S /\ IsFiniteSet(t) /\ t # {}
  <2>1. Total(f, {}) <= Total(g, {})
    BY TotalOfNothing
  <2> QED
    BY <2>1, FS_Subset
<1>4. PICK x : x \in t
  BY <1>3
<1>5. Total(f, t \ {x}) <= Total(g, t \ {x})
  BY <1>2, <1>3, <1>4
<1>6. /\ Total(f, t) = f[x] + Total(f, t \ {x})
      /\ Total(g, t) = g[x] + Total(g, t \ {x})
  <2>1. /\ \A y \in t : f[y] \in Int
        /\ \A y \in t : g[y] \in Int
    BY <1>3
  <2> QED
    BY <2>1, <1>3, <1>4, TotalWithout
<1>7. Total(f, t \ {x}) \in Int /\ Total(g, t \ {x}) \in Int
  <2>1. IsFiniteSet(t \ {x})
    BY <1>3, FS_Subset
  <2>2. /\ \A y \in t \ {x} : f[y] \in Int
        /\ \A y \in t \ {x} : g[y] \in Int
    BY <1>3
  <2> QED
    BY <2>1, <2>2, TotalIsInt
<1>8. f[x] \in Int /\ g[x] \in Int /\ f[x] <= g[x] /\ ~ (Total(f, t) <= Total(g, t))
  BY <1>3, <1>4
<1> HIDE DEF Fails
<1> QED
  BY <1>5, <1>6, <1>7, <1>8

\* The sum depends on the values over the set only.
LEMMA TotalSame ==
    ASSUME NEW S, IsFiniteSet(S), NEW f, NEW g, \A x \in S : f[x] = g[x] /\ f[x] \in Int
    PROVE  Total(f, S) = Total(g, S)
<1>1. /\ \A x \in S : f[x] \in Int /\ g[x] \in Int /\ f[x] <= g[x]
      /\ \A x \in S : g[x] \in Int /\ f[x] \in Int /\ g[x] <= f[x]
  OBVIOUS
<1>2. Total(f, S) <= Total(g, S) /\ Total(g, S) <= Total(f, S)
  BY <1>1, TotalAtMost
<1>3. Total(f, S) \in Int /\ Total(g, S) \in Int
  BY <1>1, TotalIsInt
<1> QED
  BY <1>2, <1>3

\* What is left out of a sum is at most nothing, or at least nothing.
LEMMA TotalOfPart ==
    ASSUME NEW S, IsFiniteSet(S), NEW T \in SUBSET S, NEW f, \A x \in S : f[x] \in Int
    PROVE  /\ (\A x \in S \ T : f[x] <= 0) => Total(f, S) <= Total(f, T)
           /\ (\A x \in S \ T : f[x] >= 0) => Total(f, S) >= Total(f, T)
<1> DEFINE Fails == {s \in SUBSET (S \ T) :
                        ~ /\ (\A x \in S \ T : f[x] <= 0) => Total(f, T \cup s) <= Total(f, T)
                          /\ (\A x \in S \ T : f[x] >= 0) => Total(f, T \cup s) >= Total(f, T)}
<1>0. IsFiniteSet(S \ T) /\ IsFiniteSet(T) /\ \A x \in T : f[x] \in Int
  BY FS_Subset
<1>1. Total(f, T) \in Int
  BY <1>0, TotalIsInt
<1>2. ASSUME Fails # {} PROVE FALSE
  <2>1. PICK t \in Fails : \A u \in Fails : u \subseteq t => u = t
    <3>1. Fails \subseteq SUBSET (S \ T)
      OBVIOUS
    <3> HIDE DEF Fails
    <3> QED
      BY <1>0, <1>2, <3>1, SmallestFails
  <2>2. t # {}
    <3>1. T \cup {} = T
      OBVIOUS
    <3> QED
      BY <1>1, <3>1
  <2>3. PICK x : x \in t
    BY <2>2
  <2>4. t \ {x} \notin Fails /\ t \ {x} \in SUBSET (S \ T)
    BY <2>1, <2>3
  <2> DEFINE rest == T \cup (t \ {x})
  <2>5. /\ T \cup t = rest \cup {x} /\ x \notin rest /\ x \in S \ T
        /\ rest \in SUBSET S /\ IsFiniteSet(rest)
    BY <2>3, FS_Subset
  <2>6. Total(f, T \cup t) = f[x] + Total(f, rest)
    <3> HIDE DEF rest
    <3> QED
      BY <2>5, TotalWith
  <2>7. Total(f, rest) \in Int /\ f[x] \in Int
    <3> HIDE DEF rest
    <3> QED
      BY <2>5, TotalIsInt
  <2>8. ~ /\ (\A y \in S \ T : f[y] <= 0) => Total(f, T \cup t) <= Total(f, T)
          /\ (\A y \in S \ T : f[y] >= 0) => Total(f, T \cup t) >= Total(f, T)
    OBVIOUS
  <2>9. /\ (\A y \in S \ T : f[y] <= 0) => Total(f, rest) <= Total(f, T)
        /\ (\A y \in S \ T : f[y] >= 0) => Total(f, rest) >= Total(f, T)
    BY <2>4
  <2> HIDE DEF Fails, rest
  <2> QED
    BY <1>1, <2>5, <2>6, <2>7, <2>8, <2>9
<1>3. S \ T \notin Fails /\ T \cup (S \ T) = S
  BY <1>2
<1> QED
  BY <1>3

\* A sum of values one of which changes.
LEMMA TotalChanged ==
    ASSUME NEW S, IsFiniteSet(S), NEW e \in S, NEW f, NEW g, f[e] \in Int, g[e] \in Int,
           \A x \in S \ {e} : f[x] = g[x] /\ f[x] \in Int
    PROVE  Total(g, S) = Total(f, S) - f[e] + g[e]
<1>1. IsFiniteSet(S \ {e})
  BY FS_Subset
<1>2. Total(f, S \ {e}) = Total(g, S \ {e}) /\ Total(f, S \ {e}) \in Int
  BY <1>1, TotalSame, TotalIsInt
<1>3. /\ \A x \in S : f[x] \in Int
      /\ \A x \in S : g[x] \in Int
  OBVIOUS
<1>4. /\ Total(f, S) = f[e] + Total(f, S \ {e})
      /\ Total(g, S) = g[e] + Total(g, S \ {e})
  BY <1>3, TotalWithout
<1> QED
  BY <1>2, <1>4

\* A sum of differences.
LEMMA TotalOfDifferences ==
    ASSUME NEW S, IsFiniteSet(S), NEW f, NEW g, NEW h,
           \A x \in S : f[x] \in Int /\ g[x] \in Int /\ h[x] = f[x] - g[x]
    PROVE  Total(h, S) = Total(f, S) - Total(g, S)
<1> DEFINE Fails == {s \in SUBSET S : Total(h, s) # Total(f, s) - Total(g, s)}
<1> SUFFICES ASSUME Fails # {} PROVE FALSE
  OBVIOUS
<1>1. PICK t \in Fails : \A u \in Fails : u \subseteq t => u = t
  <2>1. Fails \subseteq SUBSET S
    OBVIOUS
  <2> HIDE DEF Fails
  <2> QED
    BY <2>1, SmallestFails
<1>2. t # {}
  <2>1. Total(h, {}) = Total(f, {}) - Total(g, {})
    BY TotalOfNothing
  <2> QED
    BY <2>1
<1>3. PICK x : x \in t
  BY <1>2
<1>4. t \in SUBSET S /\ IsFiniteSet(t) /\ x \in S
  BY <1>3, FS_Subset
<1> DEFINE u == t \ {x}
<1>5. u \in SUBSET S /\ IsFiniteSet(u) /\ u \notin Fails
  BY <1>1, <1>3, <1>4, FS_Subset
<1>6. Total(h, u) = Total(f, u) - Total(g, u)
  BY <1>5
<1>7. /\ \A y \in t : f[y] \in Int
      /\ \A y \in t : g[y] \in Int
      /\ \A y \in t : h[y] \in Int
  BY <1>4
<1>8. /\ Total(h, t) = h[x] + Total(h, u)
      /\ Total(f, t) = f[x] + Total(f, u)
      /\ Total(g, t) = g[x] + Total(g, u)
  BY <1>3, <1>4, <1>7, TotalWithout
<1>9. Total(f, u) \in Int /\ Total(g, u) \in Int
  BY <1>5, <1>7, TotalIsInt
<1>10. h[x] = f[x] - g[x] /\ f[x] \in Int /\ g[x] \in Int
  BY <1>4
<1>11. Total(h, t) # Total(f, t) - Total(g, t)
  OBVIOUS
<1> HIDE DEF Fails, u
<1> QED
  BY <1>6, <1>8, <1>9, <1>10, <1>11
=============================================================================

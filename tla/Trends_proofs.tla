---------------------------- MODULE Trends_proofs ----------------------------
(***************************************************************************)
(* What retention leaves of the trend of a supply, for every length of the *)
(* day, every retention period and every sequence of levels and runs.      *)
(*                                                                         *)
(* A run of retention holds exactly the samples older than its cutoff,     *)
(* because polls only add newer ones, and everything purged is older than  *)
(* everything left.  So the part of a day that is purged last contains the *)
(* latest sample of the day that is gone, although it replaces the row of  *)
(* the parts before it.                                                    *)
(*                                                                         *)
(* The estimate is about sums over days.  The second half of this module   *)
(* proves what it needs of them, for sums over any finite set.             *)
(***************************************************************************)
EXTENDS Trends, FiniteSetTheorems, NaturalsInduction, WellFoundedInduction, TLAPS

SelectedInv ==
    retention.op = "purge" =>
        /\ retention.selected = {t \in raw : t < retention.before}
        /\ retention.before < now

PurgedInv ==
    \A t \in Times : level[t] # NotTaken /\ t \notin raw => t < now /\ \A s \in raw : t < s

NothingAhead == \A t \in Times : level[t] # NotTaken => t <= now

IInv == TypeOK /\ SelectedInv /\ PurgedInv /\ NothingAhead /\ TrendKept

LEMMA InitIInv == Init => IInv
  <1> SUFFICES ASSUME Init PROVE IInv
    OBVIOUS
  <1>1. TypeOK
    BY TimeAssumption, LevelAssumption DEF Init, TypeOK, Times, Idle, NoForecast
  <1>2. SelectedInv /\ PurgedInv /\ NothingAhead /\ TrendKept
    BY DEF Init, SelectedInv, PurgedInv, NothingAhead, TrendKept, Purged, Idle
  <1> QED
    BY <1>1, <1>2 DEF IInv

LEMMA TickIInv == ASSUME IInv, Tick PROVE IInv'
  <1> USE DEF IInv, Tick
  <1>1. TypeOK'
    BY TimeAssumption DEF TypeOK, Times
  <1>2. SelectedInv' /\ PurgedInv' /\ NothingAhead'
    BY TimeAssumption DEF TypeOK, Times, SelectedInv, PurgedInv, NothingAhead, Idle
  <1>3. TrendKept'
    BY DEF TrendKept, Purged
  <1> QED
    BY <1>1, <1>2, <1>3

LEMMA SampleIInv == ASSUME IInv, NEW l \in Levels, Sample(l) PROVE IInv'
  <1> USE DEF IInv
  <1>1. /\ level' \in [Times -> Levels \cup {NotTaken}]
        /\ now \in Times /\ now' = now /\ level[now] = NotTaken /\ level'[now] # NotTaken
        /\ \A t \in Times : t # now => level'[t] = level[t]
    BY LevelAssumption DEF Sample, TypeOK
  <1>2. raw' = raw \cup {now} /\ daily' = daily /\ retention' = retention /\ forecast' = forecast
    BY DEF Sample
  <1>3. raw \subseteq 0 .. now /\ \A t \in raw : t \in Times
    BY TimeAssumption DEF TypeOK, Times
  <1>4. TypeOK'
    <2>1. raw' \subseteq {t \in 0 .. now' : level'[t] # NotTaken}
      <3>1. now \in 0 .. now
        BY <1>1, TimeAssumption DEF Times
      <3>2. \A t \in raw : level[t] # NotTaken
        BY DEF TypeOK
      <3> QED
        BY <1>1, <1>2, <1>3, <3>1, <3>2
    <2>2. \A d \in Days : daily'[d] \subseteq {t \in Times : level'[t] # NotTaken /\ DayOf(t) = d}
      BY <1>1, <1>2 DEF TypeOK
    <2>3. \A d \in Days : daily'[d] \cap raw' = {}
      BY <1>1, <1>2 DEF TypeOK
    <2> QED
      BY <1>1, <1>2, <2>1, <2>2, <2>3 DEF TypeOK
  <1>5. SelectedInv'
    BY <1>1, <1>2, <1>3, TimeAssumption DEF SelectedInv, TypeOK, Times, Idle
  <1>6. PurgedInv'
    BY <1>1, <1>2 DEF PurgedInv
  <1>7. NothingAhead'
    BY <1>1, TimeAssumption DEF NothingAhead, Times
  <1>8. TrendKept'
    <2>1. \A d \in Days : Purged(d)' = Purged(d)
      BY <1>1, <1>2 DEF Purged
    <2> QED
      BY <1>2, <2>1 DEF TrendKept
  <1> QED
    BY <1>4, <1>5, <1>6, <1>7, <1>8

LEMMA SelectIInv == ASSUME IInv, SelectOld PROVE IInv'
  <1> USE DEF IInv
  <1>1. /\ UNCHANGED <<now, level, raw, daily, forecast>>
        /\ retention' = [op |-> "purge", before |-> now - Keep,
                         selected |-> {t \in raw : t < now - Keep}]
    BY DEF SelectOld
  <1>2. now - Keep \in Int /\ now - Keep < now
    BY TimeAssumption DEF TypeOK, Times
  <1>3. TypeOK'
    BY <1>1, <1>2 DEF TypeOK
  <1>4. SelectedInv' /\ PurgedInv' /\ NothingAhead'
    BY <1>1, <1>2 DEF SelectedInv, PurgedInv, NothingAhead
  <1>5. TrendKept'
    BY <1>1 DEF TrendKept, Purged
  <1> QED
    BY <1>3, <1>4, <1>5

(* The commit of a run: what it deletes is what it aggregated.             *)
LEMMA PurgeIInv == ASSUME IInv, Purge PROVE IInv'
  <1> USE DEF IInv
  <1>1. /\ UNCHANGED <<now, level, forecast>>
        /\ raw' = {t \in raw : t >= retention.before}
        /\ daily' = [d \in Days |-> Aggregated(d)]
        /\ retention' = Idle
    BY DEF Purge
  <1>2. /\ retention.op = "purge" /\ retention.before \in Int
        /\ retention.selected = {t \in raw : t < retention.before}
        /\ retention.before < now
    BY DEF Purge, TypeOK, SelectedInv, Idle
  <1>3. now \in Int /\ raw \subseteq 0 .. now /\ raw \subseteq Times
        /\ \A t \in raw : level[t] # NotTaken
    BY TimeAssumption DEF TypeOK, Times
  <1>4. \A d \in Days : daily'[d] = IF SelectedOf(d) = {} THEN daily[d] ELSE SelectedOf(d)
    BY <1>1 DEF Aggregated
  <1>5. TypeOK'
    <2>1. raw' \subseteq {t \in 0 .. now' : level'[t] # NotTaken}
      BY <1>1, <1>3
    <2>2. \A d \in Days : SelectedOf(d) \subseteq {t \in Times : level[t] # NotTaken /\ DayOf(t) = d}
      BY <1>2, <1>3 DEF SelectedOf
    <2>3. \A d \in Days : daily'[d] \subseteq {t \in Times : level'[t] # NotTaken /\ DayOf(t) = d}
      BY <1>1, <1>4, <2>2 DEF TypeOK
    <2>4. \A d \in Days : SelectedOf(d) \cap raw' = {}
      <3> SUFFICES ASSUME NEW d \in Days, NEW t \in SelectedOf(d), t \in raw' PROVE FALSE
        OBVIOUS
      <3>1. t \in raw /\ t < retention.before
        BY <1>2 DEF SelectedOf
      <3>2. t >= retention.before
        BY <1>1
      <3>3. t \in Int
        BY <3>1, <1>3
      <3> QED
        BY <3>1, <3>2, <3>3, <1>2
    <2>5. \A d \in Days : daily'[d] \cap raw' = {}
      <3>1. \A d \in Days : daily[d] \cap raw = {}
        BY DEF TypeOK
      <3>2. raw' \subseteq raw
        BY <1>1
      <3> QED
        BY <1>4, <2>4, <3>1, <3>2
    <2> QED
      BY <1>1, <2>1, <2>3, <2>5 DEF TypeOK
  <1>6. SelectedInv'
    BY <1>1 DEF SelectedInv, Idle
  <1>7. PurgedInv'
    <2> SUFFICES ASSUME NEW t \in Times, level[t] # NotTaken, t \notin raw'
                 PROVE  t < now /\ \A s \in raw' : t < s
      BY <1>1 DEF PurgedInv
    <2>1. CASE t \in raw
      BY <2>1, <1>1, <1>2, <1>3 DEF Times
    <2>2. CASE t \notin raw
      BY <2>2, <1>1 DEF PurgedInv
    <2> QED
      BY <2>1, <2>2
  <1>8. NothingAhead'
    BY <1>1 DEF NothingAhead
  <1>9. TrendKept'
    <2> SUFFICES ASSUME NEW d \in Days, NEW t \in Times, level[t] # NotTaken, t \notin raw',
                        DayOf(t) = d,
                        \A s \in Times : level[s] # NotTaken /\ s \notin raw' /\ DayOf(s) = d => s <= t
                 PROVE  t \in daily'[d]
      BY <1>1 DEF TrendKept, Purged
    <2>1. CASE SelectedOf(d) = {}
      <3>1. t \notin raw
        BY <2>1, <1>1, <1>2, <1>3 DEF SelectedOf
      <3>2. t \in Purged(d) /\ \A s \in Purged(d) : s <= t
        BY <3>1, <1>1 DEF Purged
      <3> QED
        BY <2>1, <3>2, <1>4 DEF TrendKept
    <2>2. CASE SelectedOf(d) # {}
      <3>1. PICK s \in retention.selected : DayOf(s) = d
        BY <2>2 DEF SelectedOf
      <3>2. s \in raw /\ s \in Times /\ level[s] # NotTaken /\ s \notin raw'
        <4>1. s \in raw /\ s < retention.before
          BY <3>1, <1>2
        <4> QED
          BY <4>1, <1>1, <1>2, <1>3
      <3>3. s <= t
        BY <3>1, <3>2
      <3>4. t \in raw
        BY <3>2, <3>3 DEF PurgedInv, Times
      <3>5. t \in SelectedOf(d)
        BY <3>4, <1>1, <1>2, <1>3 DEF SelectedOf
      <3> QED
        BY <2>2, <3>5, <1>4
    <2> QED
      BY <2>1, <2>2
  <1> QED
    BY <1>5, <1>6, <1>7, <1>8, <1>9

LEMMA NextIInv == IInv /\ [Next]_vars => IInv'
  <1> SUFFICES ASSUME IInv, [Next]_vars PROVE IInv'
    OBVIOUS
  <1>1. CASE FailRetention
    BY <1>1 DEF FailRetention, IInv, TypeOK, SelectedInv, PurgedInv, NothingAhead, TrendKept,
                Purged, Idle
  <1>2. CASE Forecast
    <2>1. /\ UNCHANGED <<now, level, raw, daily, retention>>
          /\ forecast'.days \subseteq Days /\ forecast'.trend \subseteq forecast'.days
      BY <1>2 DEF Forecast, Estimate, TrendDays
    <2> QED
      BY <2>1 DEF IInv, TypeOK, SelectedInv, PurgedInv, NothingAhead, TrendKept, Purged
  <1>3. CASE UNCHANGED vars
    BY <1>3 DEF vars, IInv, TypeOK, SelectedInv, PurgedInv, NothingAhead, TrendKept, Purged
  <1> QED
    BY <1>1, <1>2, <1>3, TickIInv, SampleIInv, SelectIInv, PurgeIInv DEF Next

THEOREM InvariantHolds == Spec => []IInv
  BY InitIInv, NextIInv, PTL DEF Spec

(* Every variable keeps its type; no sample that is still there is counted *)
(* in the daily row of its day.                                            *)
THEOREM TypeCorrect == Spec => []TypeOK
<1>1. IInv => TypeOK
  BY DEF IInv
<1> QED
  BY <1>1, InvariantHolds, PTL

(* Retention never takes a sample the trend has not seen: the row of a day *)
(* knows the latest sample the day has lost.                               *)
THEOREM TrendIsKept == Spec => []TrendKept
<1>1. IInv => TrendKept
  BY DEF IInv
<1> QED
  BY <1>1, InvariantHolds, PTL

-----------------------------------------------------------------------------
(* Induction over the subsets of a finite set, and over numbers, for a set *)
(* of good ones instead of a predicate, so that it can be instantiated.    *)
LEMMA SubsetsWellFounded ==
    ASSUME NEW S, IsFiniteSet(S) PROVE IsWellFoundedOn(StrictSubsetOrdering(S), SUBSET S)
  BY FS_StrictSubsetOrderingWellFounded, FS_FiniteSubsetsOfFinite

(***************************************************************************)
(* A set of subsets of a finite set that has a subset whenever it has all  *)
(* smaller ones has every subset: a smallest one it has not cannot be.     *)
(***************************************************************************)
LEMMA SubsetsByInduction ==
    ASSUME NEW S, IsFiniteSet(S), NEW Good,
           \A T \in SUBSET S : (\A U \in SUBSET T : U # T => U \in Good) => T \in Good
    PROVE  \A T \in SUBSET S : T \in Good
  <1> DEFINE bad == {T \in SUBSET S : T \notin Good}
  <1> SUFFICES ASSUME bad # {} PROVE FALSE
    OBVIOUS
  <1>1. IsWellFoundedOn(StrictSubsetOrdering(S), SUBSET S)
    BY SubsetsWellFounded
  <1>2. bad \subseteq SUBSET S
    OBVIOUS
  <1> HIDE DEF bad
  <1>3. PICK T \in bad : \A U \in bad : <<U, T>> \notin StrictSubsetOrdering(S)
    BY <1>1, <1>2, WFMin
  <1>4. T \in SUBSET S /\ T \notin Good
    BY <1>3 DEF bad
  <1>5. ASSUME NEW U \in SUBSET T, U # T PROVE U \in Good
    <2>1. U \in SUBSET S
      BY <1>4, <1>5
    <2>2. <<U, T>> \in StrictSubsetOrdering(S)
      BY <1>4, <1>5, <2>1 DEF StrictSubsetOrdering
    <2> QED
      BY <1>3, <2>1, <2>2 DEF bad
  <1> QED
    BY <1>4, <1>5

(* The natural numbers, in the same form.                                  *)
LEMMA NumbersByInduction ==
    ASSUME NEW Good, 0 \in Good, \A n \in Nat : n \in Good => n + 1 \in Good
    PROVE  \A n \in Nat : n \in Good
  <1> DEFINE bad == {n \in Nat : n \notin Good}
  <1> SUFFICES ASSUME bad # {} PROVE FALSE
    OBVIOUS
  <1>1. IsWellFoundedOn(OpToRel(<, Nat), Nat)
    BY NatLessThanWellFounded
  <1>2. bad \subseteq Nat
    OBVIOUS
  <1> HIDE DEF bad
  <1>3. PICK n \in bad : \A m \in bad : <<m, n>> \notin OpToRel(<, Nat)
    BY <1>1, <1>2, WFMin
  <1>4. n \in Nat /\ n \notin Good
    BY <1>3 DEF bad
  <1>5. n - 1 \in Nat /\ n - 1 < n /\ (n - 1) + 1 = n
    BY <1>4
  <1>6. <<n - 1, n>> \in OpToRel(<, Nat)
    BY <1>4, <1>5 DEF OpToRel
  <1>7. n - 1 \in Good
    BY <1>3, <1>5, <1>6 DEF bad
  <1> QED
    BY <1>4, <1>5, <1>7

-----------------------------------------------------------------------------
(***************************************************************************)
(* Sums.  The library defines the sum of f over a finite set as the value  *)
(* of a recursive function on its subsets; that there is such a function   *)
(* follows by adding one subset size after another.                        *)
(***************************************************************************)
OneOf(s) == CHOOSE x \in s : TRUE

IsSum(g, f, D) == g = [s \in D |-> IF s = {} THEN 0 ELSE f[OneOf(s)] + g[s \ {OneOf(s)}]]

SumOf(f, S) == CHOOSE g : IsSum(g, f, SUBSET S)

(* The library's definition, in these terms.                               *)
LEMMA SumIsSumOf == ASSUME NEW f, NEW S PROVE SumFunctionOnSet(f, S) = SumOf(f, S)[S]
  BY DEF SumFunctionOnSet, FoldFunctionOnSet, MapThenFoldSet, SumOf, IsSum, OneOf

(* The recursion has a solution: one for the subsets of up to n elements   *)
(* gives one for those of up to n + 1.                                     *)
LEMMA SumExists ==
    ASSUME NEW f, NEW S, IsFiniteSet(S) PROVE IsSum(SumOf(f, S), f, SUBSET S)
  <1> DEFINE upTo(n) == {s \in SUBSET S : Cardinality(s) <= n}
             Good == {n \in Nat : \E g : IsSum(g, f, upTo(n))}
  <1>1. \A s \in SUBSET S : IsFiniteSet(s) /\ Cardinality(s) \in Nat
    BY FS_Subset, FS_CardinalityType
  <1>2. \A s \in SUBSET S : s # {} =>
           /\ OneOf(s) \in s /\ s \ {OneOf(s)} \in SUBSET S
           /\ Cardinality(s \ {OneOf(s)}) = Cardinality(s) - 1
    <2> SUFFICES ASSUME NEW s \in SUBSET S, s # {}
                 PROVE  /\ OneOf(s) \in s /\ s \ {OneOf(s)} \in SUBSET S
                        /\ Cardinality(s \ {OneOf(s)}) = Cardinality(s) - 1
      OBVIOUS
    <2>1. OneOf(s) \in s
      BY DEF OneOf
    <2> QED
      BY <1>1, <2>1, FS_RemoveElement
  <1>3. 0 \in Good
    <2> DEFINE g == [s \in upTo(0) |-> 0]
    <2>1. \A s \in upTo(0) : s = {}
      BY <1>1, FS_EmptySet
    <2>2. IsSum(g, f, upTo(0))
      BY <2>1 DEF IsSum
    <2> QED
      BY <2>2
  <1>4. ASSUME NEW n \in Nat, n \in Good PROVE n + 1 \in Good
    <2>1. PICK g : IsSum(g, f, upTo(n))
      BY <1>4
    <2> DEFINE h == [s \in upTo(n + 1) |-> IF s = {} THEN 0 ELSE f[OneOf(s)] + g[s \ {OneOf(s)}]]
    <2>2. \A s \in upTo(n) : s \in upTo(n + 1) /\ h[s] = g[s]
      <3>1. \A s \in upTo(n) : s \in upTo(n + 1)
        BY <1>1
      <3>2. \A s \in upTo(n) : g[s] = IF s = {} THEN 0 ELSE f[OneOf(s)] + g[s \ {OneOf(s)}]
        <4> HIDE DEF upTo
        <4> QED
          BY <2>1 DEF IsSum
      <3> HIDE DEF upTo
      <3> QED
        BY <3>1, <3>2
    <2>3. \A s \in upTo(n + 1) : s # {} => s \ {OneOf(s)} \in upTo(n)
      BY <1>1, <1>2
    <2> HIDE DEF upTo
    <2>4. \A s \in upTo(n + 1) :
             h[s] = IF s = {} THEN 0 ELSE f[OneOf(s)] + h[s \ {OneOf(s)}]
      BY <2>2, <2>3
    <2>5. IsSum(h, f, upTo(n + 1))
      BY <2>4 DEF IsSum
    <2> QED
      BY <2>5
  <1>5. Cardinality(S) \in Good
    <2> HIDE DEF Good
    <2> QED
      BY <1>1, <1>3, <1>4, NumbersByInduction
  <1>6. upTo(Cardinality(S)) = SUBSET S
    BY FS_Subset, <1>1
  <1>7. \E g : IsSum(g, f, SUBSET S)
    BY <1>5, <1>6
  <1> QED
    BY <1>7 DEF SumOf

(* The value for a subset does not depend on the set around it.            *)
LEMMA SumsAgree ==
    ASSUME NEW f, NEW S, IsFiniteSet(S), NEW T \in SUBSET S
    PROVE  SumOf(f, S)[T] = SumFunctionOnSet(f, T)
  <1> DEFINE g == SumOf(f, S)
             h == SumOf(f, T)
             Good == {U \in SUBSET T : g[U] = h[U]}
  <1>1. IsFiniteSet(T)
    BY FS_Subset
  <1>2. IsSum(g, f, SUBSET S) /\ IsSum(h, f, SUBSET T)
    BY <1>1, SumExists
  <1> HIDE DEF g, h
  <1>3. \A U \in SUBSET T : /\ g[U] = IF U = {} THEN 0 ELSE f[OneOf(U)] + g[U \ {OneOf(U)}]
                            /\ h[U] = IF U = {} THEN 0 ELSE f[OneOf(U)] + h[U \ {OneOf(U)}]
    BY <1>2 DEF IsSum
  <1>4. ASSUME NEW U \in SUBSET T, \A V \in SUBSET U : V # U => V \in Good PROVE U \in Good
    <2>1. CASE U = {}
      BY <1>3, <2>1
    <2>2. CASE U # {}
      <3>1. OneOf(U) \in U
        BY <2>2 DEF OneOf
      <3>2. U \ {OneOf(U)} \in SUBSET U /\ U \ {OneOf(U)} # U
        BY <3>1
      <3>3. g[U \ {OneOf(U)}] = h[U \ {OneOf(U)}]
        BY <1>4, <3>2
      <3> QED
        BY <1>3, <2>2, <3>3
    <2> QED
      BY <2>1, <2>2
  <1>5. T \in Good
    <2> HIDE DEF Good
    <2> QED
      BY <1>1, <1>4, SubsetsByInduction
  <1> QED
    BY <1>5, SumIsSumOf DEF g, h

(* A sum is 0 for no element, and otherwise some element and the sum of    *)
(* the others.                                                             *)
LEMMA SumEmpty == ASSUME NEW f PROVE SumFunctionOnSet(f, {}) = 0
  <1>1. IsSum(SumOf(f, {}), f, SUBSET {})
    BY FS_EmptySet, SumExists
  <1>2. SumOf(f, {})[{}] = 0
    BY <1>1 DEF IsSum
  <1> QED
    BY <1>2, SumIsSumOf

LEMMA SumParts ==
    ASSUME NEW S, IsFiniteSet(S), S # {}
    PROVE  \E x \in S : \A f : SumFunctionOnSet(f, S) = f[x] + SumFunctionOnSet(f, S \ {x})
  <1>1. OneOf(S) \in S
    BY DEF OneOf
  <1> SUFFICES ASSUME NEW f
               PROVE  SumFunctionOnSet(f, S) = f[OneOf(S)] + SumFunctionOnSet(f, S \ {OneOf(S)})
    BY <1>1
  <1>2. SumOf(f, S)[S] = f[OneOf(S)] + SumOf(f, S)[S \ {OneOf(S)}]
    <2> DEFINE g == SumOf(f, S)
    <2>1. IsSum(g, f, SUBSET S)
      BY SumExists
    <2> HIDE DEF g
    <2>2. g[S] = f[OneOf(S)] + g[S \ {OneOf(S)}]
      BY <2>1 DEF IsSum
    <2> QED
      BY <2>2 DEF g
  <1>3. SumOf(f, S)[S \ {OneOf(S)}] = SumFunctionOnSet(f, S \ {OneOf(S)})
    BY SumsAgree
  <1> QED
    BY <1>2, <1>3, SumIsSumOf

(* Sums of numbers are numbers, and a sum of naturals is 0 only if all are. *)
LEMMA SumType ==
    ASSUME NEW S, IsFiniteSet(S), NEW f, \A x \in S : f[x] \in Int
    PROVE  SumFunctionOnSet(f, S) \in Int
  <1> DEFINE Good == {T \in SUBSET S : SumFunctionOnSet(f, T) \in Int}
  <1>1. ASSUME NEW T \in SUBSET S, \A U \in SUBSET T : U # T => U \in Good PROVE T \in Good
    <2>1. CASE T = {}
      BY <2>1, SumEmpty
    <2>2. CASE T # {}
      <3>1. PICK x \in T : SumFunctionOnSet(f, T) = f[x] + SumFunctionOnSet(f, T \ {x})
        BY <2>2, FS_Subset, SumParts
      <3>2. T \ {x} \in Good
        BY <1>1
      <3> QED
        BY <3>1, <3>2
    <2> QED
      BY <2>1, <2>2
  <1>2. S \in Good
    <2> HIDE DEF Good
    <2> QED
      BY <1>1, SubsetsByInduction
  <1> QED
    BY <1>2

LEMMA SumPositive ==
    ASSUME NEW S, IsFiniteSet(S), NEW f, \A x \in S : f[x] \in Nat
    PROVE  /\ SumFunctionOnSet(f, S) \in Nat
           /\ SumFunctionOnSet(f, S) > 0 <=> \E x \in S : f[x] > 0
  <1> DEFINE Good == {T \in SUBSET S : /\ SumFunctionOnSet(f, T) \in Nat
                                       /\ SumFunctionOnSet(f, T) > 0 <=> \E x \in T : f[x] > 0}
  <1>1. ASSUME NEW T \in SUBSET S, \A U \in SUBSET T : U # T => U \in Good PROVE T \in Good
    <2>1. CASE T = {}
      BY <2>1, SumEmpty
    <2>2. CASE T # {}
      <3>1. PICK x \in T : SumFunctionOnSet(f, T) = f[x] + SumFunctionOnSet(f, T \ {x})
        BY <2>2, FS_Subset, SumParts
      <3>2. T \ {x} \in Good
        BY <1>1
      <3>3. f[x] \in Nat
        OBVIOUS
      <3>4. (\E y \in T : f[y] > 0) <=> f[x] > 0 \/ \E y \in T \ {x} : f[y] > 0
        OBVIOUS
      <3> QED
        BY <3>1, <3>2, <3>3, <3>4
    <2> QED
      BY <2>1, <2>2
  <1>2. S \in Good
    <2> HIDE DEF Good
    <2> QED
      BY <1>1, SubsetsByInduction
  <1> QED
    BY <1>2

(* The sum of a linear combination of three functions and a constant.      *)
IsCombination(e, S, f, g, h, a, b, c, k) ==
    /\ a \in Int /\ b \in Int /\ c \in Int /\ k \in Int
    /\ \A x \in S : /\ f[x] \in Int /\ g[x] \in Int /\ h[x] \in Int
                    /\ e[x] = a * f[x] + b * g[x] + c * h[x] + k

LEMMA SumOfCombination ==
    ASSUME NEW S, IsFiniteSet(S), NEW e, NEW f, NEW g, NEW h, NEW a, NEW b, NEW c, NEW k,
           IsCombination(e, S, f, g, h, a, b, c, k)
    PROVE  SumFunctionOnSet(e, S) = a * SumFunctionOnSet(f, S) + b * SumFunctionOnSet(g, S)
                                    + c * SumFunctionOnSet(h, S) + k * Cardinality(S)
  <1> DEFINE Sum(t, T) == SumFunctionOnSet(t, T)
             Good == {T \in SUBSET S :
                         Sum(e, T) = a * Sum(f, T) + b * Sum(g, T) + c * Sum(h, T) + k * Cardinality(T)}
  <1> HIDE DEF Sum
  <1>0. a \in Int /\ b \in Int /\ c \in Int /\ k \in Int
    BY DEF IsCombination
  <1>1. ASSUME NEW T \in SUBSET S, \A U \in SUBSET T : U # T => U \in Good PROVE T \in Good
    <2>1. CASE T = {}
      <3>1. Sum(e, T) = 0 /\ Sum(f, T) = 0 /\ Sum(g, T) = 0 /\ Sum(h, T) = 0 /\ Cardinality(T) = 0
        BY <2>1, SumEmpty, FS_EmptySet DEF Sum
      <3> QED
        BY <1>0, <3>1
    <2>2. CASE T # {}
      <3>1. IsFiniteSet(T)
        BY FS_Subset
      <3>2. PICK x \in T : \A t : Sum(t, T) = t[x] + Sum(t, T \ {x})
        BY <2>2, <3>1, SumParts DEF Sum
      <3>3. Sum(e, T) = e[x] + Sum(e, T \ {x}) /\ Sum(f, T) = f[x] + Sum(f, T \ {x})
            /\ Sum(g, T) = g[x] + Sum(g, T \ {x}) /\ Sum(h, T) = h[x] + Sum(h, T \ {x})
        BY <3>2
      <3>4. T \ {x} \in Good
        BY <1>1
      <3>5. /\ IsFiniteSet(T \ {x}) /\ Cardinality(T) = Cardinality(T \ {x}) + 1
            /\ Cardinality(T \ {x}) \in Int
        <4>1. Cardinality(T) \in Nat /\ Cardinality(T \ {x}) = Cardinality(T) - 1
          BY <3>1, FS_RemoveElement, FS_CardinalityType
        <4>2. IsFiniteSet(T \ {x})
          BY <3>1, FS_RemoveElement
        <4> QED
          BY <4>1, <4>2
      <3>6. /\ Sum(f, T \ {x}) \in Int /\ Sum(g, T \ {x}) \in Int /\ Sum(h, T \ {x}) \in Int
        BY <3>5, SumType DEF Sum, IsCombination
      <3>7. f[x] \in Int /\ g[x] \in Int /\ h[x] \in Int /\ e[x] = a * f[x] + b * g[x] + c * h[x] + k
        BY DEF IsCombination
      <3>8. \A i, j, m \in Int : i * (j + m) = i * j + i * m
        OBVIOUS
      <3>9. /\ a * Sum(f, T) = a * f[x] + a * Sum(f, T \ {x})
            /\ b * Sum(g, T) = b * g[x] + b * Sum(g, T \ {x})
            /\ c * Sum(h, T) = c * h[x] + c * Sum(h, T \ {x})
            /\ k * Cardinality(T) = k + k * Cardinality(T \ {x})
        <4> DEFINE sf == Sum(f, T \ {x})
                   sg == Sum(g, T \ {x})
                   sh == Sum(h, T \ {x})
                   n == Cardinality(T \ {x})
        <4>1. sf \in Int /\ sg \in Int /\ sh \in Int /\ n \in Int
          BY <3>5, <3>6
        <4>2. Sum(f, T) = f[x] + sf /\ Sum(g, T) = g[x] + sg /\ Sum(h, T) = h[x] + sh
              /\ Cardinality(T) = 1 + n
          BY <3>3, <3>5
        <4> HIDE DEF sf, sg, sh, n
        <4>3. a * (f[x] + sf) = a * f[x] + a * sf
          BY <1>0, <4>1, <3>7, <3>8
        <4>4. b * (g[x] + sg) = b * g[x] + b * sg
          BY <1>0, <4>1, <3>7, <3>8
        <4>5. c * (h[x] + sh) = c * h[x] + c * sh
          BY <1>0, <4>1, <3>7, <3>8
        <4>6. k * (1 + n) = k + k * n
          BY <1>0, <4>1
        <4> QED
          BY <4>2, <4>3, <4>4, <4>5, <4>6 DEF sf, sg, sh, n
      <3>10. \A i, j \in Int : i * j \in Int
        OBVIOUS
      <3>11. Sum(e, T) = a * Sum(f, T) + b * Sum(g, T) + c * Sum(h, T) + k * Cardinality(T)
        BY <1>0, <3>3, <3>4, <3>5, <3>6, <3>7, <3>9, <3>10
      <3> QED
        BY <3>11
    <2> QED
      BY <2>1, <2>2
  <1>2. S \in Good
    <2> HIDE DEF Good
    <2> QED
      BY <1>1, SubsetsByInduction
  <1> QED
    BY <1>2 DEF Sum

(* A finite set of numbers that is not empty has a least and a greatest.   *)
LEMMA ExtremaExist ==
    ASSUME NEW S \in SUBSET Int, IsFiniteSet(S), S # {}
    PROVE  /\ Min(S) \in S /\ \A x \in S : Min(S) <= x
           /\ Max(S) \in S /\ \A x \in S : x <= Max(S)
  <1> DEFINE hasExtrema(T) == /\ \E m \in T : \A x \in T : m <= x
                              /\ \E m \in T : \A x \in T : x <= m
             Good == {T \in SUBSET S : T = {} \/ hasExtrema(T)}
  <1>1. ASSUME NEW T \in SUBSET S, \A U \in SUBSET T : U # T => U \in Good PROVE T \in Good
    <2>1. CASE T = {}
      BY <2>1
    <2>2. CASE T # {}
      <3>1. PICK y \in T : TRUE
        BY <2>2
      <3>2. T \ {y} = {} \/ hasExtrema(T \ {y})
        BY <1>1
      <3>3. CASE T \ {y} = {}
        <4>1. \A x \in T : x = y
          BY <3>3
        <4> QED
          BY <3>1, <4>1
      <3>4. CASE hasExtrema(T \ {y})
        <4>1. PICK m \in T \ {y} : \A x \in T \ {y} : m <= x
          BY <3>4
        <4>2. PICK n \in T \ {y} : \A x \in T \ {y} : x <= n
          BY <3>4
        <4>3. \E i \in T : \A x \in T : i <= x
          <5>1. CASE m <= y
            BY <4>1, <5>1
          <5>2. CASE ~(m <= y)
            BY <3>1, <4>1, <5>2
          <5> QED
            BY <5>1, <5>2
        <4>4. \E i \in T : \A x \in T : x <= i
          <5>1. CASE y <= n
            BY <4>2, <5>1
          <5>2. CASE ~(y <= n)
            BY <3>1, <4>2, <5>2
          <5> QED
            BY <5>1, <5>2
        <4> QED
          BY <4>3, <4>4
      <3> QED
        BY <3>2, <3>3, <3>4
    <2> QED
      BY <2>1, <2>2
  <1>2. S \in Good
    <2> HIDE DEF Good
    <2> QED
      BY <1>1, SubsetsByInduction
  <1>3. hasExtrema(S)
    BY <1>2
  <1>4. Min(S) \in S /\ \A x \in S : Min(S) <= x
    BY <1>3 DEF Min
  <1>5. Max(S) \in S /\ \A x \in S : Max(S) >= x
    BY <1>3 DEF Max
  <1> QED
    BY <1>4, <1>5

-----------------------------------------------------------------------------
(***************************************************************************)
(* Least squares.  The slope is negative exactly if the sum over all two   *)
(* days of distance times drop is positive, because that sum is twice the  *)
(* numerator of the slope with the sign changed.                           *)
(***************************************************************************)
LEMMA SlopeSign ==
    ASSUME NEW trend \in SUBSET Int, IsFiniteSet(trend), trend # {},
           \A d \in trend : Average(d) \in Int
    PROVE  Falls(trend) <=> SumFunction(Drops(trend)) > 0
  <1> DEFINE x == [d \in trend |-> d - Min(trend)]
             y == [d \in trend |-> Average(d)]
             xy == [d \in trend |-> x[d] * y[d]]
             inner(c) == [d \in trend |-> (d - c) * (Average(c) - Average(d))]
             X == SumFunctionOnSet(x, trend)
             Y == SumFunctionOnSet(y, trend)
             XY == SumFunctionOnSet(xy, trend)
             n == Cardinality(trend)
  <1>1. Min(trend) \in Int
    BY ExtremaExist
  <1>2. \A d \in trend : x[d] \in Int /\ y[d] \in Int /\ x[d] * y[d] \in Int
    BY <1>1
  <1>3. \A d \in trend : xy[d] = x[d] * y[d] /\ xy[d] \in Int
    BY <1>2
  <1>4. X \in Int /\ Y \in Int /\ XY \in Int /\ n \in Int
    <2> HIDE DEF x, y, xy
    <2> QED
      <3>1. (\A d \in trend : x[d] \in Int) /\ (\A d \in trend : y[d] \in Int)
            /\ (\A d \in trend : xy[d] \in Int)
        BY <1>2, <1>3
      <3>2. X \in Int
        BY <3>1, SumType
      <3>3. Y \in Int
        BY <3>1, SumType
      <3>4. XY \in Int
        BY <3>1, SumType
      <3> QED
        BY <3>2, <3>3, <3>4, FS_CardinalityType
  <1>5. Falls(trend) <=> n * XY < X * Y
    BY DEF Falls, SumFunction
  <1>6. ASSUME NEW c \in trend PROVE Drops(trend)[c] = Y * x[c] + (-n) * xy[c] + X * y[c] + (-XY)
    <2>1. Drops(trend)[c] = SumFunctionOnSet(inner(c), trend)
      BY DEF Drops, SumFunction
    <2>2. ASSUME NEW d \in trend
          PROVE  inner(c)[d] = y[c] * x[d] + (-1) * xy[d] + x[c] * y[d] + (-xy[c])
      <3>1. \A i, j, m, p, q \in Int :
               (i - j) * (p - q) = p * (i - m) + (-1) * ((i - m) * q) + (j - m) * q + (-((j - m) * p))
        OBVIOUS
      <3> QED
        BY <1>1, <3>1
    <2>3. y[c] \in Int /\ x[c] \in Int /\ xy[c] \in Int /\ -xy[c] \in Int /\ -1 \in Int
      BY <1>2, <1>3
    <2> HIDE DEF x, y, xy, inner
    <2>4. SumFunctionOnSet(inner(c), trend) = y[c] * X + (-1) * XY + x[c] * Y + (-xy[c]) * n
      <3>1. IsCombination(inner(c), trend, x, xy, y, y[c], -1, x[c], -xy[c])
        BY <1>2, <1>3, <2>2, <2>3 DEF IsCombination
      <3> QED
        BY <3>1, SumOfCombination
    <2> HIDE DEF X, Y, XY, n
    <2>5. y[c] * X = X * y[c] /\ x[c] * Y = Y * x[c] /\ (-xy[c]) * n = (-n) * xy[c]
      BY <1>4, <2>3
    <2>6. /\ X * y[c] \in Int /\ Y * x[c] \in Int /\ (-n) * xy[c] \in Int /\ (-1) * XY = -XY
      BY <1>4, <2>3
    <2> QED
      BY <1>4, <2>1, <2>4, <2>5, <2>6
  <1>7. SumFunction(Drops(trend)) = Y * X + (-n) * XY + X * Y + (-XY) * n
    <2>1. SumFunction(Drops(trend)) = SumFunctionOnSet(Drops(trend), trend)
      BY DEF SumFunction, Drops
    <2> HIDE DEF x, y, xy
    <2>2. -n \in Int /\ -XY \in Int
      BY <1>4
    <2>3. SumFunctionOnSet(Drops(trend), trend)
             = Y * SumFunctionOnSet(x, trend) + (-n) * SumFunctionOnSet(xy, trend)
               + X * SumFunctionOnSet(y, trend) + (-XY) * Cardinality(trend)
      <3> HIDE DEF X, Y, XY, n
      <3> QED
        <4>1. IsCombination(Drops(trend), trend, x, xy, y, Y, -n, X, -XY)
          BY <1>2, <1>3, <1>4, <1>6, <2>2 DEF IsCombination
        <4> QED
          BY <4>1, SumOfCombination
    <2> QED
      BY <2>1, <2>3
  <1> HIDE DEF X, Y, XY, n
  <1>8. Y * X + (-n) * XY + X * Y + (-XY) * n = 2 * (X * Y - n * XY)
    BY <1>4
  <1>9. X * Y \in Int /\ n * XY \in Int
    BY <1>4
  <1> QED
    BY <1>5, <1>7, <1>8, <1>9

(* A trend of one day does not fall.                                       *)
LEMMA OneDayIsFlat ==
    ASSUME NEW trend \in SUBSET Int, IsFiniteSet(trend), Falls(trend),
           \A d \in trend : Average(d) \in Int
    PROVE  Cardinality(trend) >= 2
  <1> SUFFICES ASSUME Cardinality(trend) < 2 PROVE FALSE
    BY FS_CardinalityType
  <1> DEFINE x == [d \in trend |-> d - Min(trend)]
             y == [d \in trend |-> Average(d)]
             xy == [d \in trend |-> x[d] * y[d]]
  <1>1. Cardinality(trend) * SumFunctionOnSet(xy, trend)
           < SumFunctionOnSet(x, trend) * SumFunctionOnSet(y, trend)
    BY DEF Falls, SumFunction
  <1>2. trend # {}
    <2> SUFFICES ASSUME trend = {} PROVE FALSE
      OBVIOUS
    <2>1. Cardinality(trend) = 0 /\ SumFunctionOnSet(xy, trend) = 0
          /\ SumFunctionOnSet(x, trend) = 0 /\ SumFunctionOnSet(y, trend) = 0
      BY FS_EmptySet, SumEmpty
    <2> QED
      BY <1>1, <2>1
  <1>3. PICK a \in trend : \A f : SumFunctionOnSet(f, trend) = f[a] + SumFunctionOnSet(f, trend \ {a})
    BY <1>2, SumParts
  <1>4. Cardinality(trend) \in Nat /\ Cardinality(trend \ {a}) = Cardinality(trend) - 1
        /\ IsFiniteSet(trend \ {a})
    BY FS_RemoveElement, FS_CardinalityType
  <1>5. Cardinality(trend) = 1 /\ trend \ {a} = {}
    <2>1. Cardinality(trend \ {a}) \in Nat
      BY <1>4, FS_CardinalityType
    <2>2. Cardinality(trend \ {a}) = 0 /\ Cardinality(trend) = 1
      BY <1>4, <2>1
    <2> QED
      BY <1>4, <2>2, FS_EmptySet
  <1>6. Min(trend) \in Int
    BY <1>2, ExtremaExist
  <1>7. x[a] \in Int /\ y[a] \in Int /\ x[a] * y[a] \in Int /\ xy[a] = x[a] * y[a]
    BY <1>6
  <1> HIDE DEF x, y, xy
  <1>8. SumFunctionOnSet(x, trend) = x[a] /\ SumFunctionOnSet(y, trend) = y[a]
        /\ SumFunctionOnSet(xy, trend) = xy[a]
    <2>1. \A f : SumFunctionOnSet(f, trend) = f[a] + 0
      BY <1>3, <1>5, SumEmpty
    <2> QED
      BY <1>7, <2>1
  <1> QED
    BY <1>1, <1>5, <1>7, <1>8

-----------------------------------------------------------------------------
LEMMA DaysFinite == Days \subseteq Int /\ IsFiniteSet(Days) /\ \A d \in Days : d \in Nat
  <1>1. DayOf(MaxTime) \in Int
    BY TimeAssumption DEF DayOf
  <1> QED
    BY <1>1, FS_Interval DEF Days

(* A day has at most as many samples as it has ticks, so its average is a  *)
(* number of units, and not 0 unless every sample was.                     *)
LEMMA AverageType ==
    ASSUME TypeOK, NEW d \in Days, daily[d] # {}
    PROVE  /\ Average(d) \in Int
           /\ Average(d) > 0 <=> \E t \in daily[d] : level[t] > 0
  <1> DEFINE first == DayLength * d
             total == SumFunctionOnSet(level, daily[d])
             count == Cardinality(daily[d])
  <1>1. \A t \in daily[d] : t \in Times /\ level[t] \in Nat /\ DayOf(t) = d
    <2>1. level \in [Times -> Levels \cup {NotTaken}]
          /\ daily[d] \subseteq {t \in Times : level[t] # NotTaken /\ DayOf(t) = d}
      BY DEF TypeOK
    <2>2. Levels \subseteq Nat
      BY LevelAssumption
    <2> QED
      BY <2>1, <2>2
  <1>2. first \in Int /\ DayLength \in Nat \ {0}
    BY DaysFinite, TimeAssumption
  <1>3. \A t \in Nat, n \in Nat \ {0} : n * (t \div n) <= t /\ t <= n * (t \div n) + n - 1
    OBVIOUS
  <1>4. daily[d] \subseteq first .. (first + DayLength - 1)
    <2> SUFFICES ASSUME NEW t \in daily[d] PROVE t \in first .. (first + DayLength - 1)
      OBVIOUS
    <2>1. t \in Nat /\ t \div DayLength = d
      BY <1>1, TimeAssumption DEF Times, DayOf
    <2>2. first <= t /\ t <= first + DayLength - 1
      BY <1>2, <1>3, <2>1
    <2> QED
      BY <1>2, <2>1, <2>2
  <1>5. IsFiniteSet(daily[d]) /\ count \in Nat \ {0} /\ count <= DayLength
    <2> HIDE DEF first
    <2>1. /\ IsFiniteSet(first .. (first + DayLength - 1))
          /\ Cardinality(first .. (first + DayLength - 1)) = DayLength
      <3>1. first + DayLength - 1 \in Int /\ ~(first > first + DayLength - 1)
            /\ (first + DayLength - 1) - first + 1 = DayLength
        BY <1>2
      <3> QED
        BY <1>2, <3>1, FS_Interval
    <2>2. IsFiniteSet(daily[d]) /\ count <= DayLength
      BY <1>4, <2>1, FS_Subset
    <2> QED
      BY <2>2, FS_CardinalityType, FS_EmptySet
  <1>6. Unit \in Nat /\ Unit >= DayLength
    <2>1. Unit \in Nat \ {0} /\ Unit % DayLength = 0
      BY <1>2, UnitAssumption
    <2>2. \A u \in Nat \ {0}, n \in Nat \ {0} : u < n => u % n = u
      OBVIOUS
    <2> QED
      BY <1>2, <2>1, <2>2
  <1>7. total \in Nat /\ (total > 0 <=> \E t \in daily[d] : level[t] > 0)
    BY <1>1, <1>5, SumPositive
  <1> HIDE DEF total, count
  <1>8. Unit * total \in Nat /\ (total = 0 => Unit * total = 0)
        /\ (total > 0 => Unit * total >= count)
    <2>1. \A u, s, n \in Nat : n <= u /\ s > 0 => u * s >= n
      OBVIOUS
    <2> QED
      BY <1>2, <1>5, <1>6, <1>7, <2>1
  <1>9. \A p \in Nat, n \in Nat \ {0} :
           p \div n \in Int /\ (p = 0 => p \div n = 0) /\ (p >= n => p \div n > 0)
    OBVIOUS
  <1>10. Average(d) = (Unit * total) \div count
    BY DEF Average, total, count
  <1> QED
    BY <1>5, <1>7, <1>8, <1>9, <1>10

-----------------------------------------------------------------------------
(* The days since the last reset are those since the last rise.            *)
LEMMA TrendDaysAre ==
    ASSUME NEW days \in SUBSET Int, IsFiniteSet(days), days # {},
           \A d \in days : Average(d) \in Int
    PROVE  /\ TrendDays(days) = SinceRise(days)
           /\ Max(days) \in TrendDays(days)
  <1> DEFINE resets == {d \in days : /\ \E c \in days : c < d
                                     /\ Average(d) - Average(Before(d, days)) > Jump * Unit}
  <1>1. Jump * Unit \in Int
    BY LevelAssumption, UnitAssumption
  <1>2. ASSUME NEW d \in days PROVE d \in resets <=> Rises(d, days)
    <2> DEFINE earlier == {c \in days : c < d}
    <2>1. CASE earlier = {}
      BY <2>1 DEF Rises
    <2>2. CASE earlier # {}
      <3>1. earlier \in SUBSET Int /\ IsFiniteSet(earlier)
        BY FS_Subset
      <3>2. Before(d, days) \in earlier /\ \A c \in earlier : c <= Before(d, days)
        <4> HIDE DEF earlier
        <4>1. Max(earlier) \in earlier /\ \A c \in earlier : c <= Max(earlier)
          BY <2>2, <3>1, ExtremaExist
        <4> QED
          BY <4>1 DEF Before, earlier
      <3> DEFINE b == Before(d, days)
      <3> HIDE DEF b
      <3>3. b \in days /\ b < d /\ \A c \in days : c < d => c <= b
        BY <3>2 DEF b
      <3>4. \A c \in days : (c < d /\ \A e \in days : ~(c < e /\ e < d)) <=> c = b
        BY <3>3
      <3>5. Average(d) \in Int /\ Average(b) \in Int
        BY <3>3
      <3>6. Rises(d, days) <=> Average(d) > Average(b) + Jump * Unit
        BY <3>3, <3>4 DEF Rises
      <3>7. d \in resets <=> Average(d) - Average(b) > Jump * Unit
        BY <3>3 DEF b
      <3> QED
        BY <1>1, <3>5, <3>6, <3>7
    <2> QED
      BY <2>1, <2>2
  <1>3. Max(days) \in days /\ (\A d \in days : d <= Max(days))
        /\ Min(days) \in days /\ (\A d \in days : Min(days) <= d)
    BY ExtremaExist
  <1>4. resets \subseteq days /\ resets \in SUBSET Int /\ IsFiniteSet(resets)
    BY FS_Subset
  <1>5. LastReset(days) = IF resets = {} THEN Min(days) ELSE Max(resets)
    BY DEF LastReset
  <1> HIDE DEF resets
  <1>6. LastReset(days) \in days /\ \A d \in days : d >= LastReset(days) <=> \A e \in resets : ~(e > d)
    <2>1. CASE resets = {}
      BY <1>3, <1>5, <2>1
    <2>2. CASE resets # {}
      <3>1. Max(resets) \in resets /\ \A e \in resets : e <= Max(resets)
        BY <1>4, <2>2, ExtremaExist
      <3>2. ASSUME NEW d \in days PROVE d >= Max(resets) <=> \A e \in resets : ~(e > d)
        <4>1. d \in Int /\ Max(resets) \in Int /\ \A e \in resets : e \in Int
          BY <1>4, <3>1
        <4> QED
          BY <3>1, <4>1
      <3> QED
        BY <1>4, <1>5, <2>2, <3>1, <3>2
    <2> QED
      BY <2>1, <2>2
  <1>7. TrendDays(days) = SinceRise(days)
    BY <1>2, <1>4, <1>6 DEF TrendDays, SinceRise
  <1>8. Max(days) \in TrendDays(days)
    BY <1>3, <1>6 DEF TrendDays
  <1> QED
    BY <1>7, <1>8

(* The estimate is the one the property describes.                         *)
LEMMA EstimateIsRight ==
    ASSUME TypeOK, NEW days \in SUBSET Days, days # {}, \A d \in days : daily[d] # {}
    PROVE  Estimate(days) = FallingDays(days)
  <1> DEFINE trend == SinceRise(days)
             last == CHOOSE d \in days : \A e \in days : e <= d
  <1>1. days \in SUBSET Int /\ IsFiniteSet(days) /\ \A d \in days : Average(d) \in Int
    BY DaysFinite, AverageType, FS_Subset
  <1>2. TrendDays(days) = trend /\ Max(days) \in trend
    BY <1>1, TrendDaysAre
  <1>3. trend \subseteq days /\ trend \in SUBSET Int /\ IsFiniteSet(trend) /\ trend # {}
        /\ \A d \in trend : Average(d) \in Int
    BY <1>1, <1>2, FS_Subset DEF SinceRise
  <1>4. /\ Min(trend) \in trend /\ \A d \in trend : Min(trend) <= d
        /\ Max(trend) \in trend /\ \A d \in trend : d <= Max(trend)
    BY <1>3, ExtremaExist
  <1>5. Max(days) \in days /\ \A d \in days : d <= Max(days)
    BY <1>1, ExtremaExist
  <1>6. last \in days /\ \A e \in days : e <= last
    BY <1>5
  <1>7. FallingDays(days) = IF /\ Cardinality(trend) >= MinPoints
                               /\ \E d \in trend : last - d >= MinSpan
                               /\ SumFunction(Drops(trend)) > 0
                               /\ \E t \in daily[last] : level[t] > 0
                            THEN trend ELSE {}
    BY DEF FallingDays
  <1> HIDE DEF trend, last
  <1>8. Max(trend) = last
    <2>1. Max(days) \in Int /\ last \in Int /\ Max(trend) \in Int
      BY <1>1, <1>3, <1>4, <1>5, <1>6
    <2>2. Max(days) <= last /\ last <= Max(days)
      BY <1>5, <1>6
    <2>3. Max(trend) <= Max(days) /\ Max(days) <= Max(trend)
      BY <1>2, <1>3, <1>4, <1>5
    <2> QED
      BY <2>1, <2>2, <2>3
  <1>9. Max(trend) - Min(trend) >= MinSpan <=> \E d \in trend : last - d >= MinSpan
    <2>1. (\A d \in trend : d \in Int) /\ last \in Int /\ MinSpan \in Int
      BY <1>1, <1>3, <1>6, TrendAssumption
    <2>2. \A d \in trend : last - d <= last - Min(trend)
      BY <1>4, <2>1
    <2> QED
      BY <1>4, <1>8, <2>1, <2>2
  <1>10. Falls(trend) <=> SumFunction(Drops(trend)) > 0
    BY <1>3, SlopeSign
  <1>11. Falls(trend) => Cardinality(trend) >= 2
    BY <1>3, OneDayIsFlat
  <1>12. Average(last) > 0 <=> \E t \in daily[last] : level[t] > 0
    BY <1>6, AverageType
  <1> QED
    BY <1>2, <1>7, <1>8, <1>9, <1>10, <1>11, <1>12 DEF Estimate

(* Only a forecast changes the row, and it writes its estimate.            *)
LEMMA NextForecast ==
    ASSUME TypeOK, [Next]_vars, forecast' # forecast
    PROVE  forecast'.trend = FallingDays(forecast'.days)
  <1> DEFINE days == {d \in Days : daily[d] # {} /\ d >= DayOf(now) - Lookback}
  <1>1. Forecast
    BY DEF Next, vars, Tick, Sample, SelectOld, Purge, FailRetention
  <1>2. days # {} /\ forecast'.days = days /\ forecast'.trend = Estimate(days)
    BY <1>1 DEF Forecast
  <1>3. Estimate(days) = FallingDays(days)
    BY <1>2, EstimateIsRight
  <1> QED
    BY <1>2, <1>3

(* A date of exhaustion is given exactly for a cartridge that empties: the *)
(* sign of the slope is that of the drops between the days, and the days   *)
(* are those since the last replacement.                                   *)
THEOREM DatesMeanFalling == Spec => DateMeansFalling
<1>1. IInv /\ [Next]_vars => [forecast' # forecast => forecast'.trend = FallingDays(forecast'.days)]_vars
  BY NextForecast DEF IInv
<1> QED
  BY <1>1, InvariantHolds, PTL DEF Spec, DateMeansFalling
=============================================================================

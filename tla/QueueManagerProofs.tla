------------------------- MODULE QueueManagerProofs -------------------------
(***************************************************************************)
(* Proofs about the QueueManager, for any set of queues and workers, any   *)
(* number of tasks and any retry budget. The inductive invariant says that *)
(* each container lists exactly the tasks whose status and queue name it:  *)
(* a move of a task then is a change of one Task object, and the           *)
(* containers of the other tasks are seen to be untouched. The module      *)
(* begins with what is needed about sequences that list a set, about the   *)
(* sum of a finite function and about counting tasks; it ends with what    *)
(* each method does to the Task objects, on which the proofs about the     *)
(* Broker rest.                                                            *)
(***************************************************************************)
EXTENDS TaskEffects, FiniteSetTheorems, SequenceTheorems, TLAPS

-----------------------------------------------------------------------------
(***************************************************************************)
(* The deques and ordered dicts of the broker as sequences that list the   *)
(* members of a set, each once; and what appending, prepending, popping    *)
(* and filtering do to that set.                                           *)
(***************************************************************************)
(* s lists the members of S, each once.                                    *)
Lists(s, S) ==
  /\ s \in Seq(S)
  /\ IsInjective(s)
  /\ Range(s) = S

(* The empty sequence lists nothing.                                       *)
LEMMA ListsEmpty == Lists(<< >>, {})
BY DEF Lists, IsInjective, Range

(* A one-element sequence lists its element.                               *)
LEMMA ListsSingleton == ASSUME NEW e PROVE Lists(<<e>>, {e})
BY DEF Lists, IsInjective, Range

(* Only the empty sequence lists the empty set.                            *)
LEMMA ListsNothing == ASSUME NEW s, Lists(s, {}) PROVE s = << >>
BY LenProperties DEF Lists, Range

(* Putting one list before another lists both sets, if they are disjoint.  *)
LEMMA ListsConcat ==
  ASSUME NEW s, NEW S, NEW r, NEW R, Lists(s, S), Lists(r, R), S \cap R = {}
  PROVE  Lists(s \o r, S \cup R)
<1> DEFINE U == S \cup R
<1>1. s \in Seq(U) /\ r \in Seq(U)
  BY SeqMonotonic DEF Lists
<1>2. s \o r \in Seq(U) /\ Range(s \o r) = U
  BY <1>1, ConcatProperties, RangeConcatenation DEF Lists
<1>3. IsInjective(s \o r)
  <2>1. /\ Len(s) \in Nat /\ Len(r) \in Nat
        /\ DOMAIN s = 1..Len(s) /\ DOMAIN r = 1..Len(r)
        /\ DOMAIN (s \o r) = 1..(Len(s) + Len(r))
    BY <1>1, <1>2, LenProperties, ConcatProperties
  <2>2. \A i \in 1..(Len(s) + Len(r)) :
          (s \o r)[i] = IF i <= Len(s) THEN s[i] ELSE r[i - Len(s)]
    BY <1>1, ConcatProperties
  <2>3. \A i \in 1..Len(s) : s[i] \in S
    BY <2>1 DEF Lists, Range
  <2>4. \A i \in 1..Len(r) : r[i] \in R
    BY <2>1 DEF Lists, Range
  <2> SUFFICES ASSUME NEW i \in 1..(Len(s) + Len(r)),
                      NEW j \in 1..(Len(s) + Len(r)),
                      (s \o r)[i] = (s \o r)[j]
               PROVE  i = j
    BY <2>1 DEF IsInjective
  <2>5. CASE i <= Len(s) /\ j <= Len(s)
    BY <2>1, <2>2, <2>5 DEF Lists, IsInjective
  <2>6. CASE i > Len(s) /\ j > Len(s)
    <3>1. i - Len(s) \in 1..Len(r) /\ j - Len(s) \in 1..Len(r)
      BY <2>1, <2>6
    <3>2. r[i - Len(s)] = r[j - Len(s)]
      BY <2>1, <2>2, <2>6
    <3>3. i - Len(s) = j - Len(s)
      BY <3>1, <3>2, <2>1 DEF Lists, IsInjective
    <3> QED BY <3>3, <2>1
  <2>7. CASE i <= Len(s) /\ j > Len(s)
    BY <2>1, <2>2, <2>3, <2>4, <2>7
  <2>8. CASE i > Len(s) /\ j <= Len(s)
    BY <2>1, <2>2, <2>3, <2>4, <2>8
  <2> QED BY <2>1, <2>5, <2>6, <2>7, <2>8
<1> QED BY <1>2, <1>3 DEF Lists

(* deque.appendleft of a new element.                                      *)
LEMMA ListsPrepend ==
  ASSUME NEW s, NEW S, Lists(s, S), NEW e, e \notin S
  PROVE  Lists(<<e>> \o s, S \cup {e})
<1>1. Lists(<<e>> \o s, {e} \cup S)
  BY ListsSingleton, ListsConcat, Zenon
<1> QED BY <1>1, {e} \cup S = S \cup {e}

(* deque.append of a new element.                                          *)
LEMMA ListsAppend ==
  ASSUME NEW s, NEW S, Lists(s, S), NEW e, e \notin S
  PROVE  Lists(Append(s, e), S \cup {e})
<1>1. Lists(s \o <<e>>, S \cup {e})
  BY ListsSingleton, ListsConcat, Zenon
<1>2. s \in Seq(S \cup {e})
  BY SeqMonotonic DEF Lists
<1>3. Append(s, e) = s \o <<e>>
  BY <1>2, AppendIsConcat
<1> QED BY <1>1, <1>3

(* deque.popleft of a non-empty deque.                                     *)
LEMMA ListsTail ==
  ASSUME NEW s, NEW S, Lists(s, S), s # << >>
  PROVE  Head(s) \in S /\ Lists(Tail(s), S \ {Head(s)})
<1>1. /\ Len(s) \in Nat \ {0}
      /\ DOMAIN s = 1..Len(s)
      /\ Head(s) = s[1]
      /\ Tail(s) \in Seq(S)
      /\ Len(Tail(s)) = Len(s) - 1
      /\ DOMAIN Tail(s) = 1..(Len(s) - 1)
      /\ \A i \in 1..(Len(s) - 1) : Tail(s)[i] = s[i + 1]
  BY EmptySeq, LenProperties, HeadTailProperties DEF Lists
<1>2. Head(s) \in S
  BY <1>1 DEF Lists, Range
<1>3. IsInjective(Tail(s))
  BY <1>1 DEF Lists, IsInjective
<1>4. Range(Tail(s)) = S \ {Head(s)}
  <2>1. ASSUME NEW e \in Range(Tail(s)) PROVE e \in S \ {Head(s)}
    <3>1. PICK i \in 1..(Len(s) - 1) : e = s[i + 1]
      BY <2>1, <1>1 DEF Range
    <3>2. i + 1 \in 1..Len(s) /\ i + 1 # 1 /\ 1 \in 1..Len(s)
      BY <1>1
    <3> QED BY <3>1, <3>2, <1>1 DEF Lists, IsInjective, Range
  <2>2. ASSUME NEW e \in S \ {Head(s)} PROVE e \in Range(Tail(s))
    <3>1. PICK i \in 1..Len(s) : e = s[i]
      BY <2>2, <1>1 DEF Lists, Range
    <3>2. i - 1 \in 1..(Len(s) - 1) /\ (i - 1) + 1 = i
      BY <3>1, <1>1
    <3> QED BY <3>1, <3>2, <1>1, Zenon DEF Range
  <2> QED BY <2>1, <2>2
<1>5. Tail(s) \in Seq(S \ {Head(s)})
  BY <1>1, <1>4, SeqOfRange, Zenon
<1> QED BY <1>2, <1>3, <1>4, <1>5 DEF Lists

(* A bijection from 1..n lists its range.                                  *)
LEMMA ListsBijection ==
  ASSUME NEW S, NEW n \in Nat, NEW s \in Bijection(1..n, S)
  PROVE  Lists(s, S)
<1>1. s \in [1..n -> S]
  BY DEF Bijection, Injection
<1>2. s \in Seq(S)
  BY <1>1, SeqDef
<1>3. Range(s) = S
  BY <1>1 DEF Bijection, Surjection, Range
<1> QED BY <1>2, <1>3 DEF Lists, Bijection, Injection

(* So does an increasing surjection from 1..n onto a set of integers.      *)
LEMMA ListsIncreasing ==
  ASSUME NEW S \in SUBSET Int, NEW n \in Nat, NEW s \in Surjection(1..n, S),
         \A i, j \in DOMAIN s : i < j => s[i] < s[j]
  PROVE  Lists(s, S)
<1>1. s \in [1..n -> S] /\ DOMAIN s = 1..n
  BY DEF Surjection
<1>2. IsInjective(s)
  <2> SUFFICES ASSUME NEW i \in 1..n, NEW j \in 1..n, s[i] = s[j]
               PROVE  i = j
    BY <1>1 DEF IsInjective
  <2>1. s[i] \in Int /\ s[j] \in Int
    BY <1>1, Zenon
  <2>2. ~(i < j) /\ ~(j < i)
    BY <1>1, <2>1
  <2> QED BY <2>2
<1>3. s \in Bijection(1..n, S)
  BY <1>1, <1>2 DEF Bijection, Injection
<1> QED BY <1>3, ListsBijection

(* Filtering a list by position: OrderedDict without some of its keys.     *)
LEMMA ListsInOrder ==
  ASSUME NEW s, NEW S, Lists(s, S), NEW keep \in SUBSET DOMAIN s,
         NEW r \in InOrder(s, keep)
  PROVE  Lists(r, {s[i] : i \in keep})
<1> DEFINE n == Cardinality(keep)
           K == {s[i] : i \in keep}
<1>1. DOMAIN s = 1..Len(s) /\ Len(s) \in Nat
  BY LenProperties DEF Lists
<1>2. n \in Nat /\ keep \in SUBSET Int
  <2>1. IsFiniteSet(1..Len(s)) /\ keep \in SUBSET (1..Len(s))
    BY <1>1, FS_Interval
  <2>2. IsFiniteSet(keep)
    BY <2>1, FS_Subset
  <2> QED BY <1>1, <2>1, <2>2, FS_CardinalityType
<1>3. PICK f \in Surjection(1..n, keep) :
        /\ \A i, j \in DOMAIN f : i < j => f[i] < f[j]
        /\ r = [i \in 1..n |-> s[f[i]]]
  BY DEF InOrder
<1>4. Lists(f, keep)
  BY <1>2, <1>3, ListsIncreasing
<1>5. f \in [1..n -> keep]
  BY <1>3 DEF Surjection
<1>6. r \in [1..n -> K]
  BY <1>3, <1>5
<1>7. r \in Injection(1..n, K)
  BY <1>3, <1>4, <1>5, <1>6 DEF Injection, IsInjective, Lists
<1>8. r \in Surjection(1..n, K)
  BY <1>3, <1>5, <1>6 DEF Surjection
<1> QED BY <1>2, <1>7, <1>8, ListsBijection DEF Bijection

(* DeadLetterQueue without the keys in S (remove, retry, per-queue purge). *)
LEMMA ListsDrop ==
  ASSUME NEW D, Lists(dlq, D), NEW S, DLQDrop(S)
  PROVE  Lists(dlq', D \ S)
<1> DEFINE keep == {i \in DOMAIN dlq : dlq[i] \notin S}
<1>1. Lists(dlq', {dlq[i] : i \in keep})
  BY ListsInOrder DEF DLQDrop
<1>2. {dlq[i] : i \in keep} = D \ S
  BY DEF Lists, Range
<1> QED BY <1>1, <1>2

(* A sequence that lists a set is as long as the set is large.             *)
LEMMA ListsLength ==
  ASSUME NEW s, NEW S, Lists(s, S)
  PROVE  IsFiniteSet(S) /\ Cardinality(S) = Len(s)
<1>1. Len(s) \in Nat /\ DOMAIN s = 1..Len(s) /\ Range(s) = S
  BY DEF Lists
<1>2. /\ s \in [1..Len(s) -> S]
      /\ \A i, j \in 1..Len(s) : s[i] = s[j] => i = j
      /\ \A e \in S : \E i \in 1..Len(s) : s[i] = e
  BY <1>1 DEF Lists, IsInjective, Range
<1>3. s \in Bijection(1..Len(s), S)
  <2>1. s \in Injection(1..Len(s), S)
    BY <1>2 DEF Injection, Lists
  <2>2. s \in Surjection(1..Len(s), S)
    BY <1>2 DEF Surjection
  <2> QED BY <2>1, <2>2 DEF Bijection
<1>4. IsFiniteSet(1..Len(s)) /\ Cardinality(1..Len(s)) = Len(s)
  <2>1. PICK n \in Nat : n = Len(s)
    BY <1>1, Zenon
  <2>2. IsFiniteSet(1..n) /\ Cardinality(1..n) = IF 1 > n THEN 0 ELSE n - 1 + 1
    BY FS_Interval
  <2>3. Cardinality(1..n) = n
    BY <2>2
  <2> QED BY <2>1, <2>2, <2>3
<1>5. ExistsBijection(1..Len(s), S)
  BY <1>3 DEF ExistsBijection
<1> QED BY <1>4, <1>5, FS_Bijection

(* The sum of a finite function.  FoldFunction picks the members of the    *)
(* domain one after the other; the function it defines by recursion on the *)
(* subsets of the domain exists if the domain is finite.                   *)

Sums(f) == FoldFunction(+, 0, f)

Pick(s) == CHOOSE x \in s : TRUE

(* What the fold makes of s, if g is what it makes of the smaller sets.    *)
Total(f, g, s) == IF s = {} THEN 0 ELSE f[Pick(s)] + g[s \ {Pick(s)}]

(* g has the sum of f over each subset of S.                               *)
Adds(f, S, g) == g = [s \in SUBSET S |-> Total(f, g, s)]

LEMMA SumsIs ==
  ASSUME NEW f
  PROVE  Sums(f) = (CHOOSE g : Adds(f, DOMAIN f, g))[DOMAIN f]
BY DEF Sums, FoldFunction, FoldFunctionOnSet, MapThenFoldSet, Adds, Total, Pick

(* Induction over the subsets of a finite set: the library's theorem about *)
(* minimal members, for the set of those that are not in G.                *)
LEMMA SubsetInduction ==
  ASSUME NEW S, IsFiniteSet(S), NEW G,
         \A s \in SUBSET S : (\A u \in SUBSET s : u # s => u \in G) => s \in G
  PROVE  \A s \in SUBSET S : s \in G
<1> DEFINE B == (SUBSET S) \ G
<1>1. IsWellFoundedOn(StrictSubsetOrdering(S), FiniteSubsetsOf(S))
  BY FS_StrictSubsetOrderingWellFounded
<1>2. B \subseteq FiniteSubsetsOf(S)
  BY FS_Subset DEF FiniteSubsetsOf
<1>3. CASE B # {}
  <2> HIDE DEF B
  <2>1. PICK s \in B : \A u \in B : <<u, s>> \notin StrictSubsetOrdering(S)
    BY <1>1, <1>2, <1>3, WFMin
  <2> USE DEF B
  <2>2. \A u \in SUBSET s : u # s => u \in G
    BY <2>1, Zenon DEF StrictSubsetOrdering
  <2> QED BY <2>1, <2>2
<1> QED BY <1>3

LEMMA Picked == \A s : s # {} => Pick(s) \in s
BY Zenon DEF Pick

LEMMA AddsValue ==
  ASSUME NEW f, NEW S, NEW g, Adds(f, S, g), NEW s \in SUBSET S
  PROVE  g[s] = Total(f, g, s)
BY Zenon DEF Adds

LEMMA AddsAgree ==
  ASSUME NEW f, NEW S, IsFiniteSet(S), NEW g, Adds(f, S, g),
         NEW w \in SUBSET S, NEW h, Adds(f, w, h)
  PROVE  g[w] = h[w]
<1> DEFINE G == {s \in SUBSET S : s \subseteq w => g[s] = h[s]}
<1>1. ASSUME NEW s \in SUBSET S, \A u \in SUBSET s : u # s => u \in G, s \subseteq w
      PROVE  g[s] = h[s]
  <2>1. g[s] = Total(f, g, s)
    BY AddsValue
  <2>2. h[s] = Total(f, h, s)
    <3>1. s \in SUBSET w
      BY <1>1
    <3> HIDE DEF G
    <3> QED BY <3>1, AddsValue
  <2>3. CASE s # {}
    <3> DEFINE r == s \ {Pick(s)}
    <3>1. r \in SUBSET s /\ r # s
      BY <2>3, Picked
    <3>2. g[r] = h[r]
      BY <1>1, <3>1
    <3> QED BY <2>1, <2>2, <2>3, <3>2 DEF Total
  <2> QED BY <2>1, <2>2, <2>3 DEF Total
<1>2. \A s \in SUBSET S : (\A u \in SUBSET s : u # s => u \in G) => s \in G
  BY <1>1
<1> HIDE DEF G
<1>3. \A s \in SUBSET S : s \in G
  BY <1>2, SubsetInduction
<1> QED BY <1>3 DEF G

LEMMA AddsExists ==
  ASSUME NEW f, NEW S, IsFiniteSet(S)
  PROVE  \E g : Adds(f, S, g)
<1> DEFINE G == {v \in SUBSET S : \E g : Adds(f, v, g)}
           A(v) == CHOOSE g : Adds(f, v, g)
           F(u) == Total(f, A(u \ {Pick(u)}), u)
<1>1. \A v \in G : Adds(f, v, A(v))
  BY Zenon
<1>2. ASSUME NEW s \in SUBSET S, \A u \in SUBSET s : u # s => u \in G
      PROVE  s \in G
  <2> DEFINE h == [u \in SUBSET s |-> F(u)]
  <2>1. ASSUME NEW u \in SUBSET s, u # {}
        PROVE  h[u \ {Pick(u)}] = A(u \ {Pick(u)})[u \ {Pick(u)}]
    <3> DEFINE r == u \ {Pick(u)}
               q == r \ {Pick(r)}
    <3>1. r \in SUBSET s /\ r # s /\ r \in G /\ r \in SUBSET S
      BY <1>2, <2>1, Picked
    <3>2. Adds(f, r, A(r))
      BY <1>1, <3>1
    <3>3. A(r)[r] = Total(f, A(r), r)
      <4> HIDE DEF r, A
      <4> QED BY <3>2, AddsValue
    <3>4. CASE r # {}
      <4>1. q \in SUBSET s /\ q # s /\ q \in G /\ q \subseteq r /\ q \in SUBSET S
        BY <1>2, <3>1, <3>4, Picked
      <4>2. Adds(f, q, A(q))
        BY <1>1, <4>1
      <4>3. A(r)[q] = A(q)[q]
        <5>1. IsFiniteSet(r) /\ q \in SUBSET r
          BY <3>1, <4>1, FS_Subset
        <5> HIDE DEF r, A, q, G
        <5> QED BY <3>2, <4>2, <5>1, AddsAgree
      <4>4. h[r] = f[Pick(r)] + A(q)[q]
        BY <3>1, <3>4 DEF Total
      <4> QED BY <3>3, <3>4, <4>3, <4>4 DEF Total
    <3>5. CASE r = {}
      BY <3>1, <3>3, <3>5 DEF Total
    <3> QED BY <3>4, <3>5
  <2>2. \A u \in SUBSET s : F(u) = Total(f, h, u)
    <3> HIDE DEF h, A
    <3> QED BY <2>1 DEF Total
  <2>3. h = [u \in SUBSET s |-> Total(f, h, u)]
    <3>1. h = [u \in SUBSET s |-> F(u)]
      OBVIOUS
    <3> HIDE DEF h, F
    <3> QED BY <2>2, <3>1, Zenon
  <2> HIDE DEF h
  <2> QED BY <2>3 DEF Adds
<1> HIDE DEF G
<1>3. \A s \in SUBSET S : s \in G
  BY <1>2, SubsetInduction
<1> QED BY <1>3 DEF G

LEMMA AddsAll ==
  ASSUME NEW N, IsFiniteSet(N), NEW f, DOMAIN f = N
  PROVE  \E g : Sums(f) = g[N] /\ Adds(f, N, g)
<1>1. \E g : Adds(f, N, g)
  BY AddsExists
<1> DEFINE g == CHOOSE g : Adds(f, N, g)
<1>2. Adds(f, N, g)
  BY <1>1, Zenon
<1>3. Sums(f) = g[N]
  BY SumsIs, Zenon
<1> HIDE DEF g
<1> QED BY <1>2, <1>3, Zenon

LEMMA SumsType ==
  ASSUME NEW N, IsFiniteSet(N), NEW f \in [N -> Nat]
  PROVE  Sums(f) \in Nat
<1>1. PICK g : Sums(f) = g[N] /\ Adds(f, N, g)
  BY AddsAll
<1> DEFINE G == {s \in SUBSET N : g[s] \in Nat}
<1>2. ASSUME NEW s \in SUBSET N, \A u \in SUBSET s : u # s => u \in G PROVE s \in G
  <2>1. g[s] = Total(f, g, s)
    BY <1>1, AddsValue
  <2>2. CASE s # {}
    <3>1. Pick(s) \in s
      BY <2>2, Picked
    <3>2. g[s \ {Pick(s)}] \in Nat /\ f[Pick(s)] \in Nat
      BY <1>2, <3>1
    <3> QED BY <2>1, <2>2, <3>2 DEF Total
  <2> QED BY <2>1, <2>2 DEF Total
<1> HIDE DEF G
<1>3. \A s \in SUBSET N : s \in G
  BY <1>2, SubsetInduction
<1> QED BY <1>1, <1>3 DEF G

LEMMA SumsZero ==
  ASSUME NEW N, IsFiniteSet(N)
  PROVE  Sums([n \in N |-> 0]) = 0
<1> DEFINE f == [n \in N |-> 0]
<1>0. DOMAIN f = N /\ \A n \in N : f[n] = 0
  OBVIOUS
<1> HIDE DEF f
<1>1. PICK g : Sums(f) = g[N] /\ Adds(f, N, g)
  BY <1>0, AddsAll
<1> DEFINE G == {s \in SUBSET N : g[s] = 0}
<1>2. ASSUME NEW s \in SUBSET N, \A u \in SUBSET s : u # s => u \in G PROVE s \in G
  <2>1. g[s] = Total(f, g, s)
    BY <1>1, AddsValue
  <2>2. CASE s # {}
    <3>1. Pick(s) \in s
      BY <2>2, Picked
    <3>2. g[s \ {Pick(s)}] = 0 /\ f[Pick(s)] = 0
      BY <1>0, <1>2, <3>1
    <3> QED BY <2>1, <2>2, <3>2 DEF Total
  <2> QED BY <2>1, <2>2 DEF Total
<1> HIDE DEF G
<1>3. \A s \in SUBSET N : s \in G
  BY <1>2, SubsetInduction
<1> QED BY <1>1, <1>3 DEF G, f

LEMMA SumsIncremented ==
  ASSUME NEW N, IsFiniteSet(N), NEW f \in [N -> Nat], NEW n \in N,
         NEW e, e = [f EXCEPT ![n] = f[n] + 1]
  PROVE  Sums(e) = Sums(f) + 1
<1>0. /\ DOMAIN f = N /\ DOMAIN e = N
      /\ \A m \in N : f[m] \in Nat /\ e[m] = IF m = n THEN f[m] + 1 ELSE f[m]
  OBVIOUS
<1>1. PICK g : Sums(f) = g[N] /\ Adds(f, N, g)
  BY <1>0, AddsAll
<1>2. PICK h : Sums(e) = h[N] /\ Adds(e, N, h)
  BY <1>0, AddsAll, Zenon
<1> DEFINE G == {s \in SUBSET N : /\ g[s] \in Nat
                                  /\ h[s] = IF n \in s THEN g[s] + 1 ELSE g[s]}
<1>3. ASSUME NEW s \in SUBSET N, \A u \in SUBSET s : u # s => u \in G PROVE s \in G
  <2>1. /\ g[s] = Total(f, g, s)
        /\ h[s] = Total(e, h, s)
    <3>1. g[s] = Total(f, g, s)
      BY <1>1, AddsValue
    <3>2. h[s] = Total(e, h, s)
      BY <1>2, AddsValue
    <3> QED BY <3>1, <3>2
  <2>2. CASE s # {}
    <3> DEFINE x == Pick(s)
               r == s \ {x}
    <3>1. x \in s /\ x \in N /\ r \in SUBSET s /\ r # s
      BY <2>2, Picked
    <3>2. /\ g[r] \in Nat /\ h[r] = IF n \in r THEN g[r] + 1 ELSE g[r]
          /\ f[x] \in Nat /\ e[x] = IF x = n THEN f[x] + 1 ELSE f[x]
      BY <1>0, <1>3, <3>1
    <3>3. n \in r <=> n \in s /\ n # x
      OBVIOUS
    <3>4. g[s] = f[x] + g[r] /\ h[s] = e[x] + h[r]
      BY <2>1, <2>2 DEF Total
    <3> HIDE DEF x, r
    <3> QED BY <3>1, <3>2, <3>3, <3>4
  <2>3. CASE s = {}
    BY <2>1, <2>3 DEF Total
  <2> QED BY <2>2, <2>3
<1> HIDE DEF G
<1>4. \A s \in SUBSET N : s \in G
  BY <1>3, SubsetInduction
<1> QED BY <1>1, <1>2, <1>4 DEF G

-----------------------------------------------------------------------------
(***************************************************************************)
(* Counting tasks.                                                         *)
(***************************************************************************)

(* Any set of tasks is finite.                                             *)
LEMMA FinitePlace ==
  ASSUME NEW S \in SUBSET TaskId
  PROVE  IsFiniteSet(S) /\ Cardinality(S) \in Nat
<1>1. IsFiniteSet(TaskId)
  BY TypesAssumption, FS_Interval DEF TaskId
<1> QED BY <1>1, FS_Subset, FS_CardinalityType

(* A set whose elements are all equal.                                     *)
LEMMA AtMostOne ==
  ASSUME NEW S, \A x, y \in S : x = y
  PROVE  Cardinality(S) <= 1
<1>1. CASE S = {}
  BY <1>1, FS_EmptySet
<1>2. CASE S # {}
  <2>1. PICK x : S = {x}
    BY <1>2
  <2> QED BY <2>1, FS_Singleton
<1> QED BY <1>1, <1>2

(* Finite sets that grow by one element at most.                           *)
LEMMA GrowsByOne ==
  ASSUME NEW S, IsFiniteSet(S), NEW x, NEW T, T \subseteq S \cup {x}
  PROVE  /\ Cardinality(T) <= Cardinality(S) + 1
         /\ T \subseteq S => Cardinality(T) <= Cardinality(S)
<1>1. /\ IsFiniteSet(S \cup {x})
      /\ Cardinality(S \cup {x}) <= Cardinality(S) + 1
      /\ Cardinality(S) \in Nat
  BY FS_AddElement, FS_CardinalityType
<1>2. /\ Cardinality(T) <= Cardinality(S \cup {x})
      /\ Cardinality(T) \in Nat /\ Cardinality(S \cup {x}) \in Nat
  BY <1>1, FS_Subset, FS_CardinalityType
<1>3. T \subseteq S => Cardinality(T) <= Cardinality(S)
  BY FS_Subset
<1> QED BY <1>1, <1>2, <1>3

(* A count of tasks that grows by one at most.                             *)
LEMMA CountGrows ==
  ASSUME NEW S \in SUBSET TaskId, NEW T \in SUBSET TaskId, NEW n \in Nat, NEW m,
         Cardinality(S) <= n,
         \/ T \subseteq S /\ m \in {n, n + 1}
         \/ \E x : T \subseteq S \cup {x} /\ m = n + 1
  PROVE  Cardinality(T) <= m
<1>1. IsFiniteSet(S) /\ Cardinality(S) \in Nat /\ Cardinality(T) \in Nat
  BY FinitePlace
<1>2. /\ T \subseteq S => Cardinality(T) <= Cardinality(S)
      /\ \A x : T \subseteq S \cup {x} => Cardinality(T) <= Cardinality(S) + 1
  BY <1>1, FS_Subset, GrowsByOne
<1> QED BY <1>1, <1>2

(* What c dispatches, a acknowledgements and n refusals, d of them final,  *)
(* say of the tasks in flight and of the dead ones.                        *)
Balance(c, a, n, d, flying, dead) ==
  /\ c \in Nat /\ a \in Nat /\ n \in Nat /\ d \in Nat
  /\ a + n + Cardinality(flying) <= c
  /\ Cardinality(dead) <= d
  /\ d <= n

(* How the counts follow a change of the two sets.                         *)
LEMMA BalanceMoves ==
  ASSUME NEW c, NEW a, NEW n, NEW d, NEW F \in SUBSET TaskId, NEW D \in SUBSET TaskId,
         Balance(c, a, n, d, F, D),
         NEW G \in SUBSET TaskId, NEW E \in SUBSET TaskId
  PROVE  /\ G \subseteq F /\ E \subseteq D => Balance(c, a, n, d, G, E)
         /\ G = {} /\ E = {} => Balance(0, 0, 0, 0, G, E)
         /\ (\E t : G \subseteq F \cup {t}) /\ E \subseteq D
              => Balance(c + 1, a, n, d, G, E)
         /\ \A t \in F : G \subseteq F \ {t} =>
              /\ E \subseteq D => Balance(c, a + 1, n, d, G, E)
              /\ E \subseteq D => Balance(c, a, n + 1, d, G, E)
              /\ E \subseteq D \cup {t} => Balance(c, a, n + 1, d + 1, G, E)
<1>1. /\ IsFiniteSet(F) /\ IsFiniteSet(D) /\ IsFiniteSet(G) /\ IsFiniteSet(E)
      /\ Cardinality(F) \in Nat /\ Cardinality(D) \in Nat
      /\ Cardinality(G) \in Nat /\ Cardinality(E) \in Nat
  BY FinitePlace
<1>2. /\ G \subseteq F => Cardinality(G) <= Cardinality(F)
      /\ E \subseteq D => Cardinality(E) <= Cardinality(D)
  BY <1>1, FS_Subset
<1>3. /\ \A t : G \subseteq F \cup {t} => Cardinality(G) <= Cardinality(F) + 1
      /\ \A t : E \subseteq D \cup {t} => Cardinality(E) <= Cardinality(D) + 1
  BY <1>1, GrowsByOne
<1>4. \A t \in F : G \subseteq F \ {t} => Cardinality(G) + 1 <= Cardinality(F)
  <2> SUFFICES ASSUME NEW t \in F, G \subseteq F \ {t}
               PROVE  Cardinality(G) + 1 <= Cardinality(F)
    OBVIOUS
  <2>1. /\ IsFiniteSet(F \ {t}) /\ Cardinality(F \ {t}) = Cardinality(F) - 1
    BY <1>1, FS_RemoveElement
  <2>2. Cardinality(G) <= Cardinality(F \ {t})
    BY <2>1, FS_Subset
  <2> QED BY <1>1, <2>1, <2>2
<1>5. Cardinality({}) = 0
  BY FS_EmptySet
<1>6. G \subseteq F /\ E \subseteq D => Balance(c, a, n, d, G, E)
  BY <1>1, <1>2 DEF Balance
<1>7. G = {} /\ E = {} => Balance(0, 0, 0, 0, G, E)
  BY <1>5 DEF Balance
<1>8. (\E t : G \subseteq F \cup {t}) /\ E \subseteq D => Balance(c + 1, a, n, d, G, E)
  BY <1>1, <1>2, <1>3 DEF Balance
<1>9. ASSUME NEW t \in F, G \subseteq F \ {t}
      PROVE  /\ E \subseteq D => Balance(c, a + 1, n, d, G, E)
             /\ E \subseteq D => Balance(c, a, n + 1, d, G, E)
             /\ E \subseteq D \cup {t} => Balance(c, a, n + 1, d + 1, G, E)
  <2>1. Cardinality(G) + 1 <= Cardinality(F)
    BY <1>4, <1>9
  <2>2. E \subseteq D => Balance(c, a + 1, n, d, G, E)
    BY <1>1, <1>2, <2>1 DEF Balance
  <2>3. E \subseteq D => Balance(c, a, n + 1, d, G, E)
    BY <1>1, <1>2, <2>1 DEF Balance
  <2>4. E \subseteq D \cup {t} => Balance(c, a, n + 1, d + 1, G, E)
    BY <1>1, <1>3, <2>1 DEF Balance
  <2> QED BY <2>2, <2>3, <2>4
<1> QED BY <1>6, <1>7, <1>8, <1>9

-----------------------------------------------------------------------------
(***************************************************************************)
(* The QueueManager.                                                       *)
(***************************************************************************)

(* The tasks with a given status and queue, among the Task objects f.      *)
Pending(f, q) == {t \in TaskId : f[t].status = "pending" /\ f[t].queue_name = q}

Having(f, st) == {t \in TaskId : f[t].status = st}

(* The Task objects and counters, apart from the containers.               *)
ObjectsOK ==
  /\ created \in Seq(Queues)
  /\ task \in [TaskId -> Task \cup {NoTask}]
  /\ nextId \in 1..(MaxTasks + 1)
  /\ \A t \in TaskId :
       /\ task[t].assigned_worker = None
            <=> task[t].status \in {"pending", "none"}
       /\ t >= nextId => task[t] = NoTask

(* The containers, against the Task objects.                               *)
Placed ==
  /\ queues = [q \in Queues |-> queues[q]]
  /\ \A q \in Queues : Lists(queues[q], Pending(task, q))
  /\ in_flight = Having(task, "in_flight")
  /\ completed = Having(task, "done")
  /\ Lists(dlq, Having(task, "dead_lettered"))

QMInd == ObjectsOK /\ Placed

-----------------------------------------------------------------------------
(* The inductive invariant implies the type invariant.                     *)
LEMMA IndType == QMInd => QMTypeOK
<1> SUFFICES ASSUME QMInd PROVE QMTypeOK
  OBVIOUS
<1>1. /\ \A q \in Queues : Pending(task, q) \subseteq TaskId
      /\ \A st : Having(task, st) \subseteq TaskId
  BY DEF Pending, Having
<1>2. \A q \in Queues : queues[q] \in Seq(TaskId)
  BY <1>1, SeqMonotonic DEF QMInd, Placed, Lists
<1>3. dlq \in Seq(TaskId)
  BY <1>1, SeqMonotonic DEF QMInd, Placed, Lists
<1>4. queues \in [Queues -> Seq(TaskId)]
  BY <1>2 DEF QMInd, Placed
<1> QED BY <1>1, <1>3, <1>4 DEF QMInd, ObjectsOK, Placed, QMTypeOK

(* ... that the status of a task names the place that holds it ...         *)
LEMMA IndStatus == QMInd => StatusNamesPlace
<1> SUFFICES ASSUME QMInd PROVE StatusNamesPlace
  OBVIOUS
<1>1. /\ \A q \in Queues : Range(queues[q]) = Pending(task, q)
      /\ Range(dlq) = Having(task, "dead_lettered")
      /\ in_flight = Having(task, "in_flight")
      /\ completed = Having(task, "done")
  BY DEF QMInd, Placed, Lists
<1>2. \A t \in TaskId : task[t].assigned_worker = None
                            <=> task[t].status \in {"pending", "none"}
  BY DEF QMInd, ObjectsOK
<1> QED BY <1>1, <1>2 DEF StatusNamesPlace, Pending, Having

(* ... and that no task is in two places.                                  *)
LEMMA IndExclusive == QMInd => ExclusivePlacement
<1> SUFFICES ASSUME QMInd PROVE ExclusivePlacement
  OBVIOUS
<1>1. /\ \A q \in Queues : /\ IsInjective(queues[q])
                           /\ Range(queues[q]) = Pending(task, q)
      /\ IsInjective(dlq)
      /\ Range(dlq) = Having(task, "dead_lettered")
      /\ in_flight = Having(task, "in_flight")
      /\ completed = Having(task, "done")
  BY DEF QMInd, Placed, Lists
<1>2. \A t \in Queued : t \in Having(task, "pending")
  BY <1>1 DEF Queued, Pending, Having
<1>3. \A p, q \in Queues : p # q => Pending(task, p) \cap Pending(task, q) = {}
  BY DEF Pending
<1> QED BY <1>1, <1>2, <1>3 DEF ExclusivePlacement, Having

(* _ensure_queue keeps the keys of _queues a sequence of queue names.      *)
LEMMA EnsureQueueType ==
  ASSUME created \in Seq(Queues), NEW q \in Queues
  PROVE  EnsureQueue(q) \in Seq(Queues)
BY AppendProperties DEF EnsureQueue

-----------------------------------------------------------------------------
(* Each method preserves the inductive invariant.                          *)

(* enqueue                                                                 *)
LEMMA EnqueueInd ==
  ASSUME QMInd, NEW q \in Queues, NEW p \in Payload, Enqueue(q, p)
  PROVE  QMInd'
<1> USE TypesAssumption
<1> DEFINE t == nextId
<1>1. t \in TaskId /\ nextId' = nextId + 1 /\ nextId' \in 1..(MaxTasks + 1)
  BY DEF Enqueue, QMInd, ObjectsOK, TaskId
<1>2. task[t] = NoTask
  BY <1>1 DEF QMInd, ObjectsOK, TaskId
<1>3. NewTask(q, p, 0) \in Task
  BY DEF NewTask, Task
<1>4. /\ task' \in [TaskId -> Task \cup {NoTask}]
      /\ task'[t] = NewTask(q, p, 0)
      /\ \A u \in TaskId \ {t} : task'[u] = task[u]
  BY <1>1, <1>3 DEF Enqueue, QMInd, ObjectsOK
<1>5. ObjectsOK'
  <2>1. created' \in Seq(Queues)
    BY EnsureQueueType DEF Enqueue, QMInd, ObjectsOK
  <2>2. ASSUME NEW u \in TaskId
        PROVE  /\ task'[u].assigned_worker = None
                    <=> task'[u].status \in {"pending", "none"}
               /\ u >= nextId' => task'[u] = NoTask
    <3>1. CASE u = t
      <4>1. /\ task'[u].assigned_worker = None
            /\ task'[u].status = "pending"
        BY <1>4, <3>1 DEF NewTask
      <4>2. ~(u >= nextId')
        BY <1>1, <3>1 DEF TaskId
      <4> QED BY <4>1, <4>2
    <3>2. CASE u # t
      <4>1. task'[u] = task[u]
        BY <1>4, <3>2
      <4>2. u >= nextId' => u >= nextId
        BY <1>1 DEF TaskId
      <4> QED BY <4>1, <4>2 DEF QMInd, ObjectsOK
    <3> QED BY <3>1, <3>2
  <2> QED BY <1>1, <1>4, <2>1, <2>2 DEF ObjectsOK
<1>6. /\ Pending(task', q) = Pending(task, q) \cup {t}
      /\ t \notin Pending(task, q)
      /\ \A r \in Queues \ {q} : Pending(task', r) = Pending(task, r)
  BY <1>1, <1>2, <1>4 DEF NewTask, NoTask, Pending
<1>7. \A st \in {"in_flight", "done", "dead_lettered"} :
        Having(task', st) = Having(task, st)
  BY <1>1, <1>2, <1>4 DEF NewTask, NoTask, Having
<1>8. ASSUME NEW r \in Queues PROVE Lists(queues'[r], Pending(task', r))
  <2>1. CASE r = q
    <3>1. queues'[r] = Append(queues[q], t)
      BY <2>1 DEF Enqueue, QMInd, Placed
    <3> QED BY <2>1, <3>1, <1>6, ListsAppend DEF QMInd, Placed
  <2>2. CASE r # q
    <3>1. queues'[r] = queues[r]
      BY <2>2 DEF Enqueue, QMInd, Placed
    <3> QED BY <2>2, <3>1, <1>6 DEF QMInd, Placed
  <2> QED BY <2>1, <2>2
<1>9. Placed'
  BY <1>7, <1>8, Zenon DEF Enqueue, QMInd, Placed
<1> QED BY <1>5, <1>9 DEF QMInd

(* dequeue, of a named queue or of "*"                                     *)
LEMMA PopLeftInd ==
  ASSUME QMInd, NEW q \in Queues, NEW w \in Workers, PopLeft(q, w),
         created' \in Seq(Queues)
  PROVE  QMInd'
<1> USE TypesAssumption
<1> DEFINE t == Head(queues[q])
<1>1. t \in Pending(task, q) /\ Lists(Tail(queues[q]), Pending(task, q) \ {t})
  BY ListsTail DEF PopLeft, QMInd, Placed
<1>2. t \in TaskId /\ task[t].status = "pending" /\ task[t].queue_name = q
  BY <1>1 DEF Pending
<1>3. task[t] \in Task
  BY <1>2 DEF QMInd, ObjectsOK, NoTask
<1>4. /\ task' \in [TaskId -> Task \cup {NoTask}]
      /\ task'[t].status = "in_flight"
      /\ task'[t].assigned_worker = w
      /\ \A u \in TaskId \ {t} : task'[u] = task[u]
  <2> DEFINE new == [task[t] EXCEPT !.status = "in_flight",
                                    !.assigned_worker = w,
                                    !.attempts = task[t].attempts + 1]
  <2>0. task[t].attempts + 1 \in Nat
    BY <1>3 DEF Task
  <2>1. new \in Task /\ new.status = "in_flight" /\ new.assigned_worker = w
    BY <1>3, <2>0, Zenon DEF Task
  <2>2. task' = [task EXCEPT ![t] = new]
    BY DEF PopLeft
  <2> HIDE DEF new
  <2> QED BY <1>2, <2>1, <2>2 DEF QMInd, ObjectsOK
<1>5. ObjectsOK'
  <2>1. task[t] # NoTask
    BY <1>2 DEF NoTask
  <2>2. ASSUME NEW u \in TaskId
        PROVE  /\ task'[u].assigned_worker = None
                    <=> task'[u].status \in {"pending", "none"}
               /\ u >= nextId' => task'[u] = NoTask
    BY <1>2, <1>4, <2>1 DEF PopLeft, QMInd, ObjectsOK
  <2> QED BY <1>4, <2>2 DEF PopLeft, QMInd, ObjectsOK
<1>6. /\ Pending(task', q) = Pending(task, q) \ {t}
      /\ \A r \in Queues \ {q} : Pending(task', r) = Pending(task, r)
  BY <1>2, <1>4 DEF Pending
<1>7. /\ Having(task', "in_flight") = Having(task, "in_flight") \cup {t}
      /\ Having(task', "done") = Having(task, "done")
      /\ Having(task', "dead_lettered") = Having(task, "dead_lettered")
  BY <1>2, <1>4 DEF Having
<1>8. ASSUME NEW r \in Queues PROVE Lists(queues'[r], Pending(task', r))
  BY <1>1, <1>6, Zenon DEF PopLeft, QMInd, Placed
<1>9. Placed'
  BY <1>7, <1>8, Zenon DEF PopLeft, QMInd, Placed
<1> QED BY <1>5, <1>9 DEF QMInd

(* acknowledge                                                             *)
LEMMA AcknowledgeInd ==
  ASSUME QMInd, NEW t \in TaskId, Acknowledge(t)
  PROVE  QMInd'
<1> USE TypesAssumption
<1>1. task[t].status = "in_flight" /\ task[t] \in Task /\ task[t] # NoTask
  BY DEF Acknowledge, QMInd, ObjectsOK, Placed, Having, NoTask
<1>2. /\ task' \in [TaskId -> Task \cup {NoTask}]
      /\ task'[t].status = "done"
      /\ task'[t].assigned_worker = task[t].assigned_worker
      /\ \A u \in TaskId \ {t} : task'[u] = task[u]
  BY <1>1 DEF Acknowledge, QMInd, ObjectsOK, Task
<1>3. ObjectsOK'
  BY <1>1, <1>2 DEF Acknowledge, QMInd, ObjectsOK
<1>4. /\ \A r \in Queues : Pending(task', r) = Pending(task, r)
      /\ Having(task', "in_flight") = Having(task, "in_flight") \ {t}
      /\ Having(task', "done") = Having(task, "done") \cup {t}
      /\ Having(task', "dead_lettered") = Having(task, "dead_lettered")
  BY <1>1, <1>2 DEF Pending, Having
<1>5. Placed'
  BY <1>4, Zenon DEF Acknowledge, QMInd, Placed
<1> QED BY <1>3, <1>5 DEF QMInd

(* requeue_by_id, and negative_acknowledge with retries left               *)
LEMMA ToFrontInd ==
  ASSUME QMInd, NEW t \in in_flight, ToFront(t), in_flight' = in_flight \ {t},
         UNCHANGED <<completed, dlq, nextId>>
  PROVE  QMInd'
<1> USE TypesAssumption
<1> DEFINE q == task[t].queue_name
<1>1. /\ t \in TaskId /\ task[t].status = "in_flight"
      /\ task[t] \in Task /\ task[t] # NoTask /\ q \in Queues
  BY DEF QMInd, ObjectsOK, Placed, Having, NoTask, Task
<1>2. /\ task' \in [TaskId -> Task \cup {NoTask}]
      /\ task'[t].status = "pending"
      /\ task'[t].assigned_worker = None
      /\ task'[t].queue_name = q
      /\ \A u \in TaskId \ {t} : task'[u] = task[u]
  BY <1>1 DEF ToFront, QMInd, ObjectsOK, Task
<1>3. ObjectsOK'
  <2>1. created' \in Seq(Queues)
    BY <1>1, EnsureQueueType DEF ToFront, QMInd, ObjectsOK
  <2> QED BY <1>1, <1>2, <2>1 DEF QMInd, ObjectsOK
<1>4. /\ Pending(task', q) = Pending(task, q) \cup {t}
      /\ t \notin Pending(task, q)
      /\ \A r \in Queues \ {q} : Pending(task', r) = Pending(task, r)
  BY <1>1, <1>2 DEF Pending
<1>5. /\ Having(task', "in_flight") = Having(task, "in_flight") \ {t}
      /\ Having(task', "done") = Having(task, "done")
      /\ Having(task', "dead_lettered") = Having(task, "dead_lettered")
  BY <1>1, <1>2 DEF Having
<1>6. Lists(<<t>> \o queues[q], Pending(task', q))
  BY <1>1, <1>4, ListsPrepend DEF QMInd, Placed
<1>7. ASSUME NEW r \in Queues PROVE Lists(queues'[r], Pending(task', r))
  BY <1>1, <1>4, <1>6, Zenon DEF ToFront, QMInd, Placed
<1>8. Placed'
  BY <1>1, <1>5, <1>7, Zenon DEF ToFront, QMInd, Placed
<1> QED BY <1>3, <1>8 DEF QMInd

(* negative_acknowledge                                                    *)
LEMMA NegativeAcknowledgeInd ==
  ASSUME QMInd, NEW t \in TaskId, NegativeAcknowledge(t)
  PROVE  QMInd'
<1> USE TypesAssumption
<1>1. CASE ~Exhausted(t)
  BY <1>1, ToFrontInd DEF NegativeAcknowledge
<1>2. CASE Exhausted(t)
  <2>1. task[t].status = "in_flight" /\ task[t] \in Task /\ task[t] # NoTask
    BY DEF NegativeAcknowledge, QMInd, ObjectsOK, Placed, Having, NoTask
  <2>2. /\ task' \in [TaskId -> Task \cup {NoTask}]
        /\ task'[t].status = "dead_lettered"
        /\ task'[t].assigned_worker = task[t].assigned_worker
        /\ \A u \in TaskId \ {t} : task'[u] = task[u]
    BY <1>2, <2>1 DEF NegativeAcknowledge, QMInd, ObjectsOK, Task
  <2>3. ObjectsOK'
    BY <1>2, <2>1, <2>2 DEF NegativeAcknowledge, QMInd, ObjectsOK
  <2>4. /\ \A r \in Queues : Pending(task', r) = Pending(task, r)
        /\ Having(task', "in_flight") = Having(task, "in_flight") \ {t}
        /\ Having(task', "done") = Having(task, "done")
        /\ Having(task', "dead_lettered")
             = Having(task, "dead_lettered") \cup {t}
        /\ t \notin Having(task, "dead_lettered")
    BY <2>1, <2>2 DEF Pending, Having
  <2>5. dlq' = Append(dlq, t)
    BY <1>2, <2>4 DEF NegativeAcknowledge, DLQAdd, QMInd, Placed, Lists
  <2>6. Lists(dlq', Having(task', "dead_lettered"))
    BY <2>4, <2>5, ListsAppend DEF QMInd, Placed
  <2>7. Placed'
    BY <1>2, <2>4, <2>6 DEF NegativeAcknowledge, QMInd, Placed
  <2> QED BY <2>3, <2>7 DEF QMInd
<1> QED BY <1>1, <1>2

(* The eviction of dead workers: requeue_by_id of each of their tasks      *)
LEMMA RequeueEachInd ==
  ASSUME QMInd, NEW S, RequeueEach(S)
  PROVE  QMInd'
<1> USE TypesAssumption
<1> DEFINE found == S \cap in_flight
           of(q) == {t \in found : task[t].queue_name = q}
<1>1. \A t \in found : /\ t \in TaskId /\ task[t].status = "in_flight"
                       /\ task[t] \in Task /\ task[t] # NoTask
  BY DEF QMInd, ObjectsOK, Placed, Having, NoTask
<1>2. task' = [t \in TaskId |-> IF t \in found
                 THEN [task[t] EXCEPT !.status = "pending",
                                      !.assigned_worker = None]
                 ELSE task[t]]
  BY Zenon DEF RequeueEach
<1>3. /\ \A t \in found : /\ task'[t] \in Task
                           /\ task'[t].status = "pending"
                           /\ task'[t].assigned_worker = None
                           /\ task'[t].queue_name = task[t].queue_name
      /\ \A t \in TaskId \ found : task'[t] = task[t]
  BY <1>1, <1>2, Zenon DEF Task
<1>4. task' \in [TaskId -> Task \cup {NoTask}]
  BY <1>2, <1>3, Zenon DEF QMInd, ObjectsOK
<1>5. ObjectsOK'
  BY <1>1, <1>3, <1>4, Zenon DEF RequeueEach, QMInd, ObjectsOK
<1>6. ASSUME NEW q \in Queues
      PROVE  /\ Pending(task', q) = of(q) \cup Pending(task, q)
             /\ of(q) \cap Pending(task, q) = {}
  BY <1>1, <1>3 DEF Pending
<1>7. /\ Having(task', "in_flight") = Having(task, "in_flight") \ found
      /\ Having(task', "done") = Having(task, "done")
      /\ Having(task', "dead_lettered") = Having(task, "dead_lettered")
  BY <1>1, <1>3 DEF Having
<1>8. PICK front : /\ \A q \in Queues :
                         front[q] \in Bijection(1..Cardinality(of(q)), of(q))
                   /\ queues' = [q \in Queues |-> front[q] \o queues[q]]
  BY Zenon DEF RequeueEach
<1>9. ASSUME NEW q \in Queues PROVE Lists(queues'[q], Pending(task', q))
  <2>1. Cardinality(of(q)) \in Nat
    BY <1>1, FinitePlace
  <2>2. Lists(front[q], of(q))
    BY <1>8, <2>1, ListsBijection
  <2>3. Lists(front[q] \o queues[q], of(q) \cup Pending(task, q))
    BY <1>6, <2>2, ListsConcat DEF QMInd, Placed
  <2> QED BY <1>6, <1>8, <2>3, Zenon
<1>10. Placed'
  BY <1>7, <1>8, <1>9, Zenon DEF RequeueEach, QMInd, Placed
<1> QED BY <1>5, <1>10 DEF QMInd

(* DeadLetterQueue.remove, and both forms of DLQ_PURGE: the dead letters   *)
(* in S are dropped with their Task objects.                               *)
LEMMA DropInd ==
  ASSUME QMInd, NEW S, S \subseteq Range(dlq),
         Lists(dlq', Having(task, "dead_lettered") \ S),
         task' = [t \in TaskId |-> IF t \in S THEN NoTask ELSE task[t]],
         UNCHANGED <<queues, created, in_flight, completed, nextId>>
  PROVE  QMInd'
<1> USE TypesAssumption
<1>1. \A t \in S : t \in TaskId /\ task[t].status = "dead_lettered"
  BY DEF QMInd, Placed, Lists, Having
<1>2. /\ task' \in [TaskId -> Task \cup {NoTask}]
      /\ \A t \in S : task'[t] = NoTask
      /\ \A t \in TaskId \ S : task'[t] = task[t]
  BY <1>1 DEF QMInd, ObjectsOK
<1>3. ObjectsOK'
  BY <1>2, Zenon DEF QMInd, ObjectsOK, NoTask
<1>4. /\ \A r \in Queues : Pending(task', r) = Pending(task, r)
      /\ Having(task', "in_flight") = Having(task, "in_flight")
      /\ Having(task', "done") = Having(task, "done")
      /\ Having(task', "dead_lettered") = Having(task, "dead_lettered") \ S
  BY <1>1, <1>2 DEF Pending, Having, NoTask
<1>5. Placed'
  BY <1>4 DEF QMInd, Placed
<1> QED BY <1>3, <1>5 DEF QMInd

LEMMA DlqRemoveInd ==
  ASSUME QMInd, NEW S, DlqRemove(S)
  PROVE  QMInd'
<1>1. Lists(dlq', Having(task, "dead_lettered") \ S)
  BY ListsDrop DEF DlqRemove, QMInd, Placed
<1> QED BY <1>1, DropInd DEF DlqRemove

LEMMA DlqPurgeInd ==
  ASSUME QMInd, DlqPurge
  PROVE  QMInd'
<1>1. Having(task, "dead_lettered") \ Range(dlq) = {}
  BY DEF QMInd, Placed, Lists
<1>2. Lists(dlq', Having(task, "dead_lettered") \ Range(dlq))
  BY <1>1, ListsEmpty, Zenon DEF DlqPurge, DLQPurge
<1> QED BY <1>2, DropInd DEF DlqPurge

(* DeadLetterQueue.retry followed by requeue                               *)
LEMMA DlqRetryInd ==
  ASSUME QMInd, NEW t \in TaskId, DlqRetry(t)
  PROVE  QMInd'
<1> USE TypesAssumption
<1> DEFINE q == task[t].queue_name
<1>1. /\ task[t].status = "dead_lettered"
      /\ task[t] \in Task /\ task[t] # NoTask /\ q \in Queues
  BY DEF DlqRetry, QMInd, ObjectsOK, Placed, Lists, Having, NoTask, Task
<1>2. /\ task' \in [TaskId -> Task \cup {NoTask}]
      /\ task'[t].status = "pending"
      /\ task'[t].assigned_worker = None
      /\ task'[t].queue_name = q
      /\ \A u \in TaskId \ {t} : task'[u] = task[u]
  <2> DEFINE new == [task[t] EXCEPT !.status = "pending", !.attempts = 0,
                                    !.assigned_worker = None]
  <2>1. /\ new \in Task /\ new.status = "pending"
        /\ new.assigned_worker = None /\ new.queue_name = q
    BY <1>1, Zenon DEF Task
  <2>2. task' = [task EXCEPT ![t] = new]
    BY DEF DlqRetry
  <2> HIDE DEF new
  <2> QED BY <2>1, <2>2 DEF QMInd, ObjectsOK
<1>3. ObjectsOK'
  <2>1. created' \in Seq(Queues)
    BY <1>1, EnsureQueueType DEF DlqRetry, QMInd, ObjectsOK
  <2> QED BY <1>1, <1>2, <2>1 DEF DlqRetry, QMInd, ObjectsOK
<1>4. /\ Pending(task', q) = Pending(task, q) \cup {t}
      /\ t \notin Pending(task, q)
      /\ \A r \in Queues \ {q} : Pending(task', r) = Pending(task, r)
  BY <1>1, <1>2 DEF Pending
<1>5. /\ Having(task', "in_flight") = Having(task, "in_flight")
      /\ Having(task', "done") = Having(task, "done")
      /\ Having(task', "dead_lettered") = Having(task, "dead_lettered") \ {t}
  BY <1>1, <1>2 DEF Having
<1>6. Lists(Append(queues[q], t), Pending(task', q))
  BY <1>1, <1>4, ListsAppend DEF QMInd, Placed
<1>7. ASSUME NEW r \in Queues PROVE Lists(queues'[r], Pending(task', r))
  BY <1>1, <1>4, <1>6, Zenon DEF DlqRetry, QMInd, Placed
<1>8. Lists(dlq', Having(task, "dead_lettered") \ {t})
  <2>1. Lists(dlq, Having(task, "dead_lettered"))
    BY DEF QMInd, Placed
  <2>2. DLQDrop({t})
    BY DEF DlqRetry
  <2> QED BY <2>1, <2>2, ListsDrop
<1>9. Placed'
  BY <1>1, <1>5, <1>7, <1>8, Zenon DEF DlqRetry, QMInd, Placed
<1> QED BY <1>3, <1>9 DEF QMInd

(* The replay of all dead letters: each goes to the back of its queue.     *)
LEMMA DlqRetryAllInd ==
  ASSUME QMInd, DlqRetryAll
  PROVE  QMInd'
<1> USE TypesAssumption
<1> DEFINE at(q) == {i \in DOMAIN dlq : task[dlq[i]].queue_name = q}
           of(q) == {dlq[i] : i \in at(q)}
<1>1. /\ Range(dlq) \subseteq TaskId
      /\ \A t \in Range(dlq) : /\ task[t].status = "dead_lettered"
                               /\ task[t] \in Task /\ task[t] # NoTask
  BY DEF QMInd, ObjectsOK, Placed, Lists, Having, NoTask
<1>2. task' = [t \in TaskId |-> IF t \in Range(dlq)
                 THEN [task[t] EXCEPT !.status = "pending", !.attempts = 0,
                                      !.assigned_worker = None]
                 ELSE task[t]]
  BY Zenon DEF DlqRetryAll
<1>3. /\ \A t \in Range(dlq) : /\ task'[t] \in Task
                               /\ task'[t].status = "pending"
                               /\ task'[t].assigned_worker = None
                               /\ task'[t].queue_name = task[t].queue_name
      /\ \A t \in TaskId \ Range(dlq) : task'[t] = task[t]
  BY <1>1, <1>2, Zenon DEF Task
<1>4. task' \in [TaskId -> Task \cup {NoTask}]
  BY <1>2, <1>3, Zenon DEF QMInd, ObjectsOK
<1>5. ObjectsOK'
  BY <1>1, <1>3, <1>4, Zenon DEF DlqRetryAll, QMInd, ObjectsOK
<1>6. ASSUME NEW q \in Queues
      PROVE  /\ Pending(task', q) = Pending(task, q) \cup of(q)
             /\ Pending(task, q) \cap of(q) = {}
  <2>1. of(q) = {t \in Range(dlq) : task[t].queue_name = q}
    BY DEF Range
  <2> HIDE DEF of
  <2> QED BY <1>1, <1>3, <2>1 DEF Pending
<1>7. /\ Having(task', "in_flight") = Having(task, "in_flight")
      /\ Having(task', "done") = Having(task, "done")
  BY <1>1, <1>3 DEF Having
<1>8. Having(task', "dead_lettered") = {}
  <2>1. Having(task, "dead_lettered") = Range(dlq)
    BY DEF QMInd, Placed, Lists
  <2> QED BY <1>1, <1>3, <2>1 DEF Having
<1>9. PICK back : /\ \A q \in Queues : back[q] \in InOrder(dlq, at(q))
                  /\ queues' = [q \in Queues |-> queues[q] \o back[q]]
  BY Zenon DEF DlqRetryAll
<1>10. ASSUME NEW q \in Queues PROVE Lists(queues'[q], Pending(task', q))
  <2>1. Lists(dlq, Having(task, "dead_lettered"))
    BY DEF QMInd, Placed
  <2>2. back[q] \in InOrder(dlq, at(q)) /\ at(q) \in SUBSET DOMAIN dlq
    BY <1>9
  <2>3. Lists(back[q], of(q))
    <3> HIDE DEF at
    <3> QED BY <2>1, <2>2, ListsInOrder
  <2>4. Lists(queues[q], Pending(task, q))
    BY DEF QMInd, Placed
  <2>5. Lists(queues[q] \o back[q], Pending(task, q) \cup of(q))
    <3> HIDE DEF of
    <3> QED BY <1>6, <2>3, <2>4, ListsConcat
  <2>6. queues'[q] = queues[q] \o back[q]
    BY <1>9, Zenon
  <2> QED BY <1>6, <2>5, <2>6, Zenon
<1>11. queues' = [q \in Queues |-> queues'[q]]
  BY <1>9, Zenon
<1>12. Placed'
  BY <1>7, <1>8, <1>10, <1>11, ListsEmpty, Zenon DEF DlqRetryAll, DLQPurge, QMInd, Placed
<1> QED BY <1>5, <1>12 DEF QMInd

(* reset                                                                   *)
LEMMA ResetInd ==
  ASSUME QMInd, Reset
  PROVE  QMInd'
<1>1. task' \in [TaskId -> Task \cup {NoTask}] /\ \A t \in TaskId : task'[t] = NoTask
  BY DEF Reset
<1>2. ObjectsOK'
  BY <1>1, EmptySeq DEF Reset, QMInd, ObjectsOK, NoTask
<1>3. /\ \A q \in Queues : Pending(task', q) = {}
      /\ \A st \in {"in_flight", "done", "dead_lettered"} : Having(task', st) = {}
  BY <1>1 DEF Pending, Having, NoTask
<1>4. Placed'
  BY <1>3, ListsEmpty, Zenon DEF Reset, DLQPurge, Placed
<1> QED BY <1>2, <1>4 DEF QMInd

(* dequeue of an empty queue                                               *)
LEMMA DequeueEmptyInd ==
  ASSUME QMInd, NEW q \in Queues, DequeueEmpty(q)
  PROVE  QMInd'
<1>1. created' \in Seq(Queues)
  BY EnsureQueueType DEF DequeueEmpty, QMInd, ObjectsOK
<1> QED BY <1>1 DEF DequeueEmpty, QMInd, ObjectsOK, Placed

(* The attributes of a new Task.                                           *)
LEMMA NewTaskFields ==
  ASSUME NEW q, NEW p, NEW a
  PROVE  /\ NewTask(q, p, a).status = "pending"
         /\ NewTask(q, p, a).queue_name = q
         /\ NewTask(q, p, a).payload = p
         /\ NewTask(q, p, a).attempts = a
         /\ NewTask(q, p, a).assigned_worker = None
         /\ ~NewTask(q, p, a).dead_lettered_at
BY DEF NewTask

(* What enqueue_recovered builds from the rows of the task table, at the   *)
(* first start or after a crash: the queues list the rows by queue name,   *)
(* every row has a pending Task object, and each queue in use is a key.    *)
LEMMA RecoveredLists ==
  ASSUME NEW rows, DOMAIN rows \subseteq TaskId,
         \A t \in DOMAIN rows : /\ rows[t].queue_name \in Queues
                                /\ rows[t].payload \in Payload
                                /\ rows[t].attempts \in Nat,
         NEW qs, NEW cr, NEW tk, Recovered(rows, qs, cr, tk)
  PROVE  /\ qs = [q \in Queues |-> qs[q]]
         /\ \A q \in Queues : Lists(qs[q], Pending(tk, q))
         /\ cr \in Seq(Queues)
         /\ Lists(cr, Range(cr))
         /\ \A t \in DOMAIN rows : rows[t].queue_name \in Range(cr)
         /\ tk \in [TaskId -> Task \cup {NoTask}]
         /\ \A t \in DOMAIN rows : /\ tk[t].status = "pending"
                                   /\ tk[t].queue_name = rows[t].queue_name
                                   /\ tk[t].payload = rows[t].payload
                                   /\ tk[t].attempts = rows[t].attempts
                                   /\ ~tk[t].dead_lettered_at
         /\ \A t \in TaskId \ DOMAIN rows : tk[t] = NoTask
         /\ \A t \in TaskId : /\ tk[t].status \in {"pending", "none"}
                              /\ tk[t].assigned_worker = None
<1> USE TypesAssumption
<1> DEFINE D == DOMAIN rows
           of(q) == {t \in D : rows[t].queue_name = q}
           used == {q \in Queues : of(q) # {}}
<1>1. \A t \in D : NewTask(rows[t].queue_name, rows[t].payload,
                           rows[t].attempts) \in Task
  BY DEF NewTask, Task
<1>2. tk = [t \in TaskId |->
              IF t \in D
              THEN NewTask(rows[t].queue_name, rows[t].payload, rows[t].attempts)
              ELSE NoTask]
  BY DEF Recovered
<1>3. /\ tk \in [TaskId -> Task \cup {NoTask}]
      /\ \A t \in D : tk[t] = NewTask(rows[t].queue_name, rows[t].payload,
                                      rows[t].attempts)
      /\ \A t \in TaskId \ D : tk[t] = NoTask
  BY <1>1, <1>2
<1>4. /\ \A t \in D : /\ tk[t].status = "pending"
                      /\ tk[t].queue_name = rows[t].queue_name
                      /\ tk[t].payload = rows[t].payload
                      /\ tk[t].attempts = rows[t].attempts
                      /\ tk[t].assigned_worker = None
                      /\ ~tk[t].dead_lettered_at
      /\ \A t \in TaskId : /\ tk[t].status \in {"pending", "none"}
                           /\ tk[t].assigned_worker = None
  <2>1. ASSUME NEW t \in D
        PROVE  /\ tk[t].status = "pending"
               /\ tk[t].queue_name = rows[t].queue_name
               /\ tk[t].payload = rows[t].payload
               /\ tk[t].attempts = rows[t].attempts
               /\ tk[t].assigned_worker = None
               /\ ~tk[t].dead_lettered_at
    BY <1>3, NewTaskFields
  <2>2. \A t \in TaskId \ D : tk[t].status = "none" /\ tk[t].assigned_worker = None
    BY <1>3 DEF NoTask
  <2> QED BY <2>1, <2>2
<1>5. Lists(cr, used)
  <2>1. cr \in Bijection(1..Cardinality(used), used)
    BY DEF Recovered
  <2>2. Cardinality(used) \in Nat
    <3> DEFINE f == [t \in D |-> rows[t].queue_name]
    <3>1. f \in Surjection(D, used)
      BY DEF Surjection
    <3>2. IsFiniteSet(D)
      BY FinitePlace
    <3> HIDE DEF used, f, D
    <3>3. IsFiniteSet(used)
      BY <3>1, <3>2, FS_Surjection
    <3> QED BY <3>3, FS_CardinalityType
  <2> HIDE DEF used
  <2> QED BY <2>1, <2>2, ListsBijection
<1>6. cr \in Seq(Queues)
  <2>1. used \in SUBSET Queues
    OBVIOUS
  <2> HIDE DEF used
  <2> QED BY <1>5, <2>1, SeqMonotonic DEF Lists
<1>7. Lists(cr, Range(cr)) /\ \A t \in D : rows[t].queue_name \in Range(cr)
  <2>1. \A t \in D : rows[t].queue_name \in used
    OBVIOUS
  <2> HIDE DEF used
  <2> QED BY <1>5, <2>1 DEF Lists
<1>8. ASSUME NEW q \in Queues PROVE Lists(qs[q], Pending(tk, q))
  <2>1. Pending(tk, q) = of(q)
    BY <1>3, <1>4 DEF Pending, NoTask
  <2>2. qs[q] \in Ascending(of(q))
    BY DEF Recovered
  <2>3. of(q) \in SUBSET TaskId /\ of(q) \in SUBSET Int
    BY DEF TaskId
  <2> HIDE DEF of
  <2>4. Cardinality(of(q)) \in Nat
    BY <2>3, FinitePlace
  <2>5. /\ qs[q] \in Surjection(1..Cardinality(of(q)), of(q))
        /\ \A i, j \in DOMAIN qs[q] : i < j => qs[q][i] < qs[q][j]
    BY <2>2 DEF Ascending
  <2>6. Lists(qs[q], of(q))
    BY <2>3, <2>4, <2>5, ListsIncreasing
  <2> QED BY <2>1, <2>6
<1>9. qs = [q \in Queues |-> qs[q]]
  BY DEF Recovered
<1> QED BY <1>3, <1>4, <1>6, <1>7, <1>8, <1>9

(* The broker starts with the invariant.                                   *)
LEMMA InitInd == QMInit => QMInd
<1> USE TypesAssumption
<1> SUFFICES ASSUME QMInit PROVE QMInd
  OBVIOUS
<1>1. PICK n \in 0..MaxTasks :
        /\ nextId = n + 1
        /\ \E rows \in [1..n -> [queue_name : Queues, payload : {0},
                                 attempts : 0..MaxRetries]] :
             Recovered([t \in 1..n |-> [rows[t] EXCEPT !.payload = t]],
                       queues, created, task)
  BY Zenon DEF QMInit
<1>2. PICK rows \in [1..n -> [queue_name : Queues, payload : {0},
                             attempts : 0..MaxRetries]] :
        Recovered([t \in 1..n |-> [rows[t] EXCEPT !.payload = t]],
                  queues, created, task)
  BY <1>1, Zenon
<1> DEFINE numbered == [t \in 1..n |-> [rows[t] EXCEPT !.payload = t]]
<1>3. /\ DOMAIN numbered = 1..n /\ 1..n \subseteq TaskId
      /\ \A t \in 1..n : /\ numbered[t].queue_name \in Queues
                         /\ numbered[t].payload \in Payload
                         /\ numbered[t].attempts \in Nat
  BY DEF Payload, TaskId
<1>4. Recovered(numbered, queues, created, task)
  BY <1>2
<1> HIDE DEF numbered
<1>8. /\ DOMAIN numbered \subseteq TaskId
      /\ \A t \in DOMAIN numbered : /\ numbered[t].queue_name \in Queues
                                   /\ numbered[t].payload \in Payload
                                   /\ numbered[t].attempts \in Nat
  BY <1>3
<1>5. /\ queues = [q \in Queues |-> queues[q]]
      /\ \A q \in Queues : Lists(queues[q], Pending(task, q))
      /\ created \in Seq(Queues)
      /\ task \in [TaskId -> Task \cup {NoTask}]
      /\ \A t \in TaskId \ 1..n : task[t] = NoTask
      /\ \A t \in TaskId : /\ task[t].status \in {"pending", "none"}
                           /\ task[t].assigned_worker = None
  BY <1>3, <1>4, <1>8, RecoveredLists
<1>6. ObjectsOK
  <2>1. nextId \in 1..(MaxTasks + 1) /\ \A t \in TaskId : t >= nextId => t \notin 1..n
    BY <1>1 DEF TaskId
  <2> QED BY <1>5, <2>1 DEF ObjectsOK
<1>7. \A st \in {"in_flight", "done", "dead_lettered"} : Having(task, st) = {}
  BY <1>5 DEF Having
<1> QED BY <1>5, <1>6, <1>7, ListsEmpty, Zenon DEF QMInd, Placed, QMInit, DLQInit

(* Every method call preserves the invariant.                              *)
LEMMA NextInd == QMInd /\ [QMNext]_qmVars => QMInd'
<1> USE TypesAssumption
<1> SUFFICES ASSUME QMInd, [QMNext]_qmVars PROVE QMInd'
  OBVIOUS
<1>1. ASSUME NEW q \in Queues, Enqueue(q, nextId) PROVE QMInd'
  <2>1. nextId \in Payload
    BY <1>1 DEF Enqueue, Payload, QMInd, ObjectsOK
  <2> QED BY <1>1, <2>1, EnqueueInd
<1>2. ASSUME NEW q \in Queues, DequeueEmpty(q) PROVE QMInd'
  BY <1>2, DequeueEmptyInd
<1>3. ASSUME NEW q \in Queues, DlqPurgeQueue(q) PROVE QMInd'
  BY <1>3, DlqRemoveInd DEF DlqPurgeQueue
<1>4. ASSUME NEW q \in Queues, NEW w \in Workers, Dequeue(q, w) PROVE QMInd'
  BY <1>4, PopLeftInd, EnsureQueueType DEF Dequeue, QMInd, ObjectsOK
<1>5. ASSUME NEW w \in Workers, DequeueAny(w) PROVE QMInd'
  <2>1. PICK i \in DOMAIN created : PopLeft(created[i], w)
    BY <1>5 DEF DequeueAny
  <2>2. created[i] \in Queues
    BY <2>1, ElementOfSeq DEF QMInd, ObjectsOK
  <2>3. created' \in Seq(Queues)
    BY <1>5 DEF DequeueAny, QMInd, ObjectsOK
  <2> QED BY <2>1, <2>2, <2>3, PopLeftInd
<1>6. ASSUME NEW t \in TaskId, Acknowledge(t) PROVE QMInd'
  BY <1>6, AcknowledgeInd
<1>7. ASSUME NEW t \in TaskId, NegativeAcknowledge(t) PROVE QMInd'
  BY <1>7, NegativeAcknowledgeInd
<1>8. ASSUME NEW t \in TaskId, RequeueById(t) PROVE QMInd'
  BY <1>8, ToFrontInd DEF RequeueById
<1>9. ASSUME NEW t \in TaskId, DlqRetry(t) PROVE QMInd'
  BY <1>9, DlqRetryInd
<1>10. ASSUME NEW t \in TaskId, DlqRemove({t}) PROVE QMInd'
  BY <1>10, DlqRemoveInd
<1>11. ASSUME NEW S \in SUBSET in_flight, RequeueEach(S) PROVE QMInd'
  BY <1>11, RequeueEachInd
<1>12. CASE UNCHANGED qmVars
  BY <1>12 DEF qmVars, QMInd, ObjectsOK, Placed
<1> QED BY <1>1, <1>2, <1>3, <1>4, <1>5, <1>6, <1>7, <1>8, <1>9, <1>10, <1>11,
           <1>12, DlqRetryAllInd, DlqPurgeInd, ResetInd, Zenon DEF QMNext

(* The containers and the Task objects of the QueueManager keep their      *)
(* types, whatever sequence of methods is called.                          *)
THEOREM QMTypeCorrect == QMSpec => []QMTypeOK
BY InitInd, NextInd, IndType, PTL DEF QMSpec

(* Task.status names the place that holds the task, always.                *)
THEOREM QMStatusNamesPlace == QMSpec => []StatusNamesPlace
BY InitInd, NextInd, IndStatus, PTL DEF QMSpec

(* No task is ever in two places, nor twice in one: no sequence of calls   *)
(* to the QueueManager hands the same task out to two workers.             *)
THEOREM QMExclusivePlacement == QMSpec => []ExclusivePlacement
BY InitInd, NextInd, IndExclusive, PTL DEF QMSpec

-----------------------------------------------------------------------------
(* The keys of _queues are listed once each and include the queue of every *)
(* Task object.                                                            *)
Named ==
  /\ Lists(created, Range(created))
  /\ \A t \in TaskId : task[t] # NoTask => task[t].queue_name \in Range(created)

LEMMA NamedExists == QMInd /\ Named => QueueOfTaskExists
<1> SUFFICES ASSUME QMInd, Named PROVE QueueOfTaskExists
  OBVIOUS
<1>1. IsInjective(created)
  BY DEF Named, Lists
<1>2. ASSUME NEW t \in Held PROVE t \in TaskId /\ task[t].status # "none"
  <2>1. /\ \A q \in Queues : Range(queues[q]) = Pending(task, q)
        /\ Range(dlq) = Having(task, "dead_lettered")
        /\ in_flight = Having(task, "in_flight")
        /\ completed = Having(task, "done")
    BY DEF QMInd, Placed, Lists
  <2>2. t \in Queued => t \in Having(task, "pending")
    BY <2>1 DEF Queued, Pending, Having
  <2> QED BY <1>2, <2>1, <2>2 DEF Held, Having
<1> QED BY <1>1, <1>2 DEF QueueOfTaskExists, Named, NoTask

(* _ensure_queue adds a key at most.                                       *)
LEMMA EnsureQueueNames ==
  ASSUME Lists(created, Range(created)), NEW q
  PROVE  /\ Lists(EnsureQueue(q), Range(EnsureQueue(q)))
         /\ Range(EnsureQueue(q)) = Range(created) \cup {q}
<1>1. CASE q \in Range(created)
  BY <1>1 DEF EnsureQueue
<1>2. CASE q \notin Range(created)
  <2>1. Lists(Append(created, q), Range(created) \cup {q})
    BY <1>2, ListsAppend
  <2>2. EnsureQueue(q) = Append(created, q)
    BY <1>2 DEF EnsureQueue
  <2> QED BY <2>1, <2>2 DEF Lists
<1> QED BY <1>1, <1>2

(* A method that keeps the queue of every object, or forgets the object,   *)
(* and ensures queue q or none.                                            *)
LEMMA NamedKept ==
  ASSUME Named,
         created' = created \/ \E q : created' = EnsureQueue(q),
         \A t \in TaskId : task'[t] # NoTask =>
           task[t] # NoTask /\ task'[t].queue_name = task[t].queue_name
  PROVE  Named'
<1>1. Lists(created', Range(created')) /\ Range(created) \subseteq Range(created')
  BY EnsureQueueNames DEF Named
<1> QED BY <1>1 DEF Named

LEMMA PopLeftNamed ==
  ASSUME QMInd, Named, NEW q \in Queues, NEW w \in Workers, PopLeft(q, w),
         created' = created \/ created' = EnsureQueue(q)
  PROVE  Named'
<1> DEFINE t == Head(queues[q])
<1>1. t \in Pending(task, q)
  BY ListsTail, Zenon DEF PopLeft, QMInd, Placed
<1>2. t \in TaskId /\ task[t].status = "pending" /\ task[t] \in Task
  BY <1>1 DEF Pending, QMInd, ObjectsOK, NoTask
<1>3. /\ task'[t].queue_name = task[t].queue_name
      /\ \A u \in TaskId \ {t} : task'[u] = task[u]
  <2> DEFINE new == [task[t] EXCEPT !.status = "in_flight",
                                    !.assigned_worker = w,
                                    !.attempts = task[t].attempts + 1]
  <2>1. new.queue_name = task[t].queue_name
    BY <1>2 DEF Task
  <2>2. task' = [task EXCEPT ![t] = new]
    BY DEF PopLeft
  <2> HIDE DEF new
  <2> QED BY <1>2, <2>1, <2>2 DEF QMInd, ObjectsOK
<1> QED BY <1>2, <1>3, NamedKept DEF NoTask

LEMMA NextNamed == QMInd /\ Named /\ [QMNext]_qmVars => Named'
<1> USE TypesAssumption
<1> SUFFICES ASSUME QMInd, Named, [QMNext]_qmVars PROVE Named'
  OBVIOUS
<1>0. /\ task \in [TaskId -> Task \cup {NoTask}] /\ created \in Seq(Queues)
      /\ \A t \in in_flight : t \in TaskId /\ task[t] # NoTask /\ task[t] \in Task
      /\ \A t \in Range(dlq) : t \in TaskId /\ task[t] # NoTask /\ task[t] \in Task
  BY DEF QMInd, ObjectsOK, Placed, Lists, Having, NoTask
<1>1. ASSUME NEW q \in Queues, Enqueue(q, nextId) PROVE Named'
  <2>1. nextId \in TaskId
    BY <1>1 DEF Enqueue, QMInd, ObjectsOK, TaskId
  <2>2. /\ task'[nextId].queue_name = q
        /\ \A u \in TaskId \ {nextId} : task'[u] = task[u]
    BY <1>0, <1>1, <2>1 DEF Enqueue, NewTask
  <2>3. created' = EnsureQueue(q)
    BY <1>1 DEF Enqueue
  <2>4. Lists(created', Range(created')) /\ Range(created') = Range(created) \cup {q}
    BY <2>3, EnsureQueueNames DEF Named
  <2> QED BY <2>2, <2>4 DEF Named
<1>2. ASSUME NEW q \in Queues, DequeueEmpty(q) PROVE Named'
  BY <1>2, NamedKept DEF DequeueEmpty
<1>3. ASSUME NEW S, DlqRemove(S) PROVE Named'
  BY <1>3, NamedKept DEF DlqRemove
<1>4. ASSUME NEW q \in Queues, NEW w \in Workers, Dequeue(q, w) PROVE Named'
  BY <1>4, PopLeftNamed DEF Dequeue
<1>5. ASSUME NEW w \in Workers, DequeueAny(w) PROVE Named'
  <2>1. PICK i \in DOMAIN created : PopLeft(created[i], w)
    BY <1>5 DEF DequeueAny
  <2>2. created[i] \in Queues
    BY <1>0, <2>1, ElementOfSeq
  <2>3. created' = created
    BY <1>5 DEF DequeueAny
  <2> QED BY <2>1, <2>2, <2>3, PopLeftNamed
<1>6. ASSUME NEW t \in TaskId, Acknowledge(t) PROVE Named'
  <2>1. \A u \in TaskId : task'[u] # NoTask =>
          task[u] # NoTask /\ task'[u].queue_name = task[u].queue_name
    BY <1>0, <1>6 DEF Acknowledge, Task
  <2> QED BY <1>6, <2>1, NamedKept DEF Acknowledge
<1>7. ASSUME NEW t \in in_flight, ToFront(t) PROVE Named'
  <2>1. \A u \in TaskId : task'[u] # NoTask =>
          task[u] # NoTask /\ task'[u].queue_name = task[u].queue_name
    BY <1>0, <1>7 DEF ToFront, Task
  <2> QED BY <1>7, <2>1, NamedKept, Zenon DEF ToFront
<1>8. ASSUME NEW t \in TaskId, NegativeAcknowledge(t) PROVE Named'
  <2>1. CASE ~Exhausted(t)
    BY <1>7, <1>8, <2>1 DEF NegativeAcknowledge
  <2>2. CASE Exhausted(t)
    <3>1. \A u \in TaskId : task'[u] # NoTask =>
            task[u] # NoTask /\ task'[u].queue_name = task[u].queue_name
      BY <1>0, <1>8, <2>2 DEF NegativeAcknowledge, Task
    <3> QED BY <1>8, <2>2, <3>1, NamedKept DEF NegativeAcknowledge
  <2> QED BY <2>1, <2>2
<1>9. ASSUME NEW t \in TaskId, RequeueById(t) PROVE Named'
  BY <1>7, <1>9 DEF RequeueById
<1>10. ASSUME NEW t \in TaskId, DlqRetry(t) PROVE Named'
  <2> DEFINE new == [task[t] EXCEPT !.status = "pending", !.attempts = 0,
                                    !.assigned_worker = None]
  <2>1. new.queue_name = task[t].queue_name
    BY <1>0, <1>10 DEF DlqRetry, Task
  <2>2. task' = [task EXCEPT ![t] = new] /\ task[t] # NoTask
    BY <1>0, <1>10 DEF DlqRetry
  <2> HIDE DEF new
  <2>3. \A u \in TaskId : task'[u] # NoTask =>
          task[u] # NoTask /\ task'[u].queue_name = task[u].queue_name
    BY <1>0, <2>1, <2>2
  <2> QED BY <1>10, <2>3, NamedKept DEF DlqRetry
<1>11. ASSUME NEW S, RequeueEach(S) PROVE Named'
  <2>1. \A u \in TaskId : task'[u] # NoTask =>
          task[u] # NoTask /\ task'[u].queue_name = task[u].queue_name
    BY <1>0, <1>11, Zenon DEF RequeueEach, Task
  <2> QED BY <1>11, <2>1, NamedKept, Zenon DEF RequeueEach
<1>12. CASE DlqRetryAll
  <2>1. \A u \in TaskId : task'[u] # NoTask =>
          task[u] # NoTask /\ task'[u].queue_name = task[u].queue_name
    BY <1>0, <1>12, Zenon DEF DlqRetryAll, Task
  <2> QED BY <1>12, <2>1, NamedKept, Zenon DEF DlqRetryAll
<1>13. CASE DlqPurge
  BY <1>13, NamedKept DEF DlqPurge
<1>14. CASE Reset
  <2>1. Lists(created', {}) /\ \A t \in TaskId : task'[t] = NoTask
    BY <1>14, ListsEmpty DEF Reset
  <2> QED BY <2>1 DEF Named, Lists
<1>15. CASE UNCHANGED qmVars
  BY <1>15 DEF qmVars, Named
<1> QED BY <1>1, <1>2, <1>3, <1>4, <1>5, <1>6, <1>8, <1>9, <1>10, <1>11, <1>12,
           <1>13, <1>14, <1>15, Zenon DEF QMNext, DlqPurgeQueue

LEMMA InitNamed == QMInit => Named
<1> USE TypesAssumption
<1> SUFFICES ASSUME QMInit PROVE Named
  OBVIOUS
<1>1. PICK n \in 0..MaxTasks :
        \E rows \in [1..n -> [queue_name : Queues, payload : {0},
                              attempts : 0..MaxRetries]] :
          Recovered([t \in 1..n |-> [rows[t] EXCEPT !.payload = t]],
                    queues, created, task)
  BY Zenon DEF QMInit
<1>2. PICK rows0 \in [1..n -> [queue_name : Queues, payload : {0},
                              attempts : 0..MaxRetries]] :
        Recovered([t \in 1..n |-> [rows0[t] EXCEPT !.payload = t]],
                  queues, created, task)
  BY <1>1, Zenon
<1> DEFINE rows == [t \in 1..n |-> [rows0[t] EXCEPT !.payload = t]]
<1>3. /\ DOMAIN rows = 1..n /\ 1..n \subseteq TaskId
      /\ \A t \in 1..n : /\ rows[t].queue_name \in Queues
                         /\ rows[t].payload \in Payload
                         /\ rows[t].attempts \in Nat
  BY DEF Payload, TaskId
<1>4. Recovered(rows, queues, created, task)
  BY <1>2
<1> HIDE DEF rows
<1>5. /\ Lists(created, Range(created))
      /\ \A t \in 1..n : rows[t].queue_name \in Range(created)
      /\ \A t \in 1..n : task[t].queue_name = rows[t].queue_name
      /\ \A t \in TaskId \ 1..n : task[t] = NoTask
  BY <1>3, <1>4, RecoveredLists
<1> QED BY <1>5, Zenon DEF Named

(* Every task the manager holds is in a queue that the wildcard dequeue    *)
(* walks, and no queue is walked twice.                                    *)
THEOREM QMQueueOfTaskExists == QMSpec => []QueueOfTaskExists
BY InitInd, NextInd, InitNamed, NextNamed, NamedExists, PTL DEF QMSpec

-----------------------------------------------------------------------------
(* What the methods of the QueueManager do to the Task objects.            *)

LEMMA EnqueueEffect ==
  ASSUME QMInd, NEW q \in Queues, NEW p \in Payload, Enqueue(q, p)
  PROVE  Created(q, p)
<1>1. nextId \in TaskId
  BY TypesAssumption DEF Enqueue, QMInd, ObjectsOK, TaskId
<1>2. task'[nextId] = NewTask(q, p, 0) /\ OthersSame({nextId})
  BY <1>1 DEF Enqueue, QMInd, ObjectsOK, OthersSame
<1> QED BY <1>1, <1>2, NewTaskFields DEF Enqueue, QMInd, ObjectsOK, TaskId, Created

LEMMA PopLeftEffect ==
  ASSUME QMInd, NEW q \in Queues, NEW w \in Workers, PopLeft(q, w),
         NEW t, t = Head(queues[q])
  PROVE  HandedOut(t)
<1>1. t \in Pending(task, q)
  BY ListsTail DEF PopLeft, QMInd, Placed
<1>2. /\ t \in TaskId /\ task[t] \in Task /\ task[t].status = "pending"
      /\ t < nextId
  BY <1>1 DEF Pending, QMInd, ObjectsOK, NoTask, TaskId
<1> DEFINE new == [task[t] EXCEPT !.status = "in_flight",
                                  !.assigned_worker = w,
                                  !.attempts = task[t].attempts + 1]
<1>3. /\ new.status = "in_flight" /\ new.payload = task[t].payload
      /\ new.queue_name = task[t].queue_name
      /\ new.attempts = task[t].attempts + 1
  BY <1>2 DEF Task
<1>4. task' = [task EXCEPT ![t] = new] /\ nextId' = nextId
  BY DEF PopLeft
<1> HIDE DEF new
<1> QED BY <1>2, <1>3, <1>4 DEF QMInd, ObjectsOK, HandedOut, Moved, OthersSame

LEMMA AcknowledgeEffect ==
  ASSUME QMInd, NEW t \in TaskId, Acknowledge(t)
  PROVE  Completed(t)
<1>1. task[t] \in Task /\ task[t].status = "in_flight" /\ t < nextId
  BY DEF Acknowledge, QMInd, ObjectsOK, Placed, Having, NoTask, TaskId
<1>2. Moved(t, "in_flight", "done")
  BY <1>1 DEF Acknowledge, QMInd, ObjectsOK, Task, Moved
<1> QED BY <1>1, <1>2 DEF Acknowledge, QMInd, ObjectsOK, Completed, OthersSame

LEMMA NegativeAcknowledgeEffect ==
  ASSUME QMInd, NEW t \in TaskId, NegativeAcknowledge(t)
  PROVE  Failed(t)
<1>1. task[t] \in Task /\ task[t].status = "in_flight" /\ t < nextId
  BY DEF NegativeAcknowledge, QMInd, ObjectsOK, Placed, Having, NoTask, TaskId
<1>2. task \in [TaskId -> Task \cup {NoTask}] /\ nextId' = nextId
  BY DEF NegativeAcknowledge, QMInd, ObjectsOK
<1>3. CASE Exhausted(t)
  <2>1. task' = [task EXCEPT ![t].status = "dead_lettered",
                             ![t].dead_lettered_at = TRUE]
    BY <1>3 DEF NegativeAcknowledge
  <2> QED BY <1>1, <1>2, <1>3, <2>1 DEF Task, Failed, Moved, OthersSame
<1>4. CASE ~Exhausted(t)
  <2>1. task' = [task EXCEPT ![t].status = "pending",
                             ![t].assigned_worker = None]
    BY <1>4 DEF NegativeAcknowledge, ToFront
  <2> QED BY <1>1, <1>2, <1>4, <2>1 DEF Task, Failed, Moved, OthersSame
<1> QED BY <1>3, <1>4

LEMMA RequeueEachEffect ==
  ASSUME QMInd, NEW S, RequeueEach(S)
  PROVE  Requeued(S)
<1>1. \A t \in in_flight : t \in TaskId /\ task[t] \in Task /\ task[t].status = "in_flight"
  BY DEF QMInd, ObjectsOK, Placed, Having, NoTask
<1>2. task' = [t \in TaskId |-> IF t \in S \cap in_flight
                                THEN [task[t] EXCEPT !.status = "pending",
                                                     !.assigned_worker = None]
                                ELSE task[t]]
  BY Zenon DEF RequeueEach
<1>3. nextId' = nextId /\ \A u \in TaskId \ (S \cap in_flight) : task'[u] = task[u]
  BY <1>2, Zenon DEF RequeueEach
<1>4. ASSUME NEW t \in S \cap in_flight
      PROVE  /\ task'[t].status = "pending"
             /\ task'[t].payload = task[t].payload
             /\ task'[t].queue_name = task[t].queue_name
             /\ task'[t].attempts = task[t].attempts
  <2>1. t \in TaskId /\ task[t] \in Task
    BY <1>1
  <2>2. task'[t] = [task[t] EXCEPT !.status = "pending", !.assigned_worker = None]
    BY <1>2, <2>1, Zenon
  <2> QED BY <2>1, <2>2 DEF Task
<1> QED BY <1>1, <1>3, <1>4 DEF Requeued, Moved, OthersSame

LEMMA DlqRetryEffect ==
  ASSUME QMInd, NEW t \in TaskId, DlqRetry(t)
  PROVE  Revived({t})
<1>1. task[t] \in Task /\ task[t].status = "dead_lettered" /\ t < nextId
  BY DEF DlqRetry, QMInd, ObjectsOK, Placed, Lists, Having, NoTask, TaskId
<1> DEFINE new == [task[t] EXCEPT !.status = "pending", !.attempts = 0,
                                  !.assigned_worker = None]
<1>2. /\ new.status = "pending" /\ new.payload = task[t].payload
      /\ new.queue_name = task[t].queue_name /\ new.attempts = 0
  BY <1>1 DEF Task
<1>3. task' = [task EXCEPT ![t] = new] /\ nextId' = nextId
  BY DEF DlqRetry
<1> HIDE DEF new
<1> QED BY <1>1, <1>2, <1>3 DEF QMInd, ObjectsOK, Revived, Moved, OthersSame

LEMMA DlqRetryAllEffect ==
  ASSUME QMInd, DlqRetryAll
  PROVE  Revived({t \in TaskId : task[t].status = "dead_lettered"})
<1>1. \A t \in TaskId : t \in Range(dlq) <=> task[t].status = "dead_lettered"
  BY DEF QMInd, Placed, Lists, Having
<1>2. \A t \in Range(dlq) : t \in TaskId /\ task[t] \in Task
  BY DEF QMInd, ObjectsOK, Placed, Lists, Having, NoTask
<1>3. \A t \in TaskId : IF task[t].status = "dead_lettered"
                        THEN /\ Moved(t, "dead_lettered", "pending")
                             /\ task'[t].attempts = 0
                        ELSE task'[t] = task[t]
  BY <1>1, <1>2, Zenon DEF DlqRetryAll, Task, Moved
<1> QED BY <1>3, Zenon DEF DlqRetryAll, Revived, OthersSame

(* _handle_dlq_purge without a WAL.                                        *)
LEMMA DropEffect ==
  ASSUME QMInd, NEW Q \in SUBSET Queues,
         \/ Q = Queues /\ DlqPurge
         \/ \E q \in Queues : Q = {q} /\ DlqPurgeQueue(q)
  PROVE  Dropped({t \in TaskId : /\ task[t].status = "dead_lettered"
                                 /\ task[t].queue_name \in Q})
<1> DEFINE S == {t \in TaskId : /\ task[t].status = "dead_lettered"
                                /\ task[t].queue_name \in Q}
<1>1. /\ Range(dlq) = {t \in TaskId : task[t].status = "dead_lettered"}
      /\ \A t \in Range(dlq) : task[t].queue_name \in Queues
  BY DEF QMInd, ObjectsOK, Placed, Lists, Having, Task, NoTask
<1>2. /\ task' = [t \in TaskId |-> IF t \in S THEN NoTask ELSE task[t]]
      /\ nextId' = nextId
  BY <1>1, Zenon DEF DlqPurge, DlqPurgeQueue, DlqRemove
<1> QED BY <1>2 DEF Dropped, OthersSame

=============================================================================

--------------------------- MODULE QueueOpsProofs ---------------------------
(***************************************************************************)
(* What the operators that queues are built from return and preserve: sums *)
(* over finite sets and over the messages of a queue, and the operations   *)
(* of QueueOps.  Nothing here is about a particular specification.         *)
(***************************************************************************)
EXTENDS QueueOps, NaturalSets, SequenceTheorems, Functions

-----------------------------------------------------------------------------
(* Sums over finite sets, as SumFunctionOnSet computes them: the numbers are *)
(* added in an order that CHOOSE picks.                                    *)

Some(s) == CHOOSE x \in s : TRUE

SumStep(f, g, s) == IF s = {} THEN 0 ELSE f[Some(s)] + g[s \ {Some(s)}]

\* g has the sums of f over all subsets of S.
HasSums(g, f, S) == \A s \in SUBSET S : g[s] = SumStep(f, g, s)

LEMMA SomeElement ==
  ASSUME NEW s, s # {}
  PROVE  Some(s) \in s
BY DEF Some

LEMMA SmallerSubset ==
  ASSUME NEW S, IsFiniteSet(S), NEW s \in SUBSET S, NEW x \in s
  PROVE  /\ IsFiniteSet(s) /\ s \ {x} \in SUBSET S
         /\ Cardinality(s) \in Nat /\ Cardinality(s) # 0
         /\ Cardinality(s \ {x}) = Cardinality(s) - 1
<1>1. IsFiniteSet(s)
  BY FS_Subset
<1> QED BY <1>1, FS_CardinalityType, FS_RemoveElement, FS_EmptySet

\* The function that SumFunctionOnSet chooses exists.
LEMMA SumsExist ==
  ASSUME NEW f, NEW S, IsFiniteSet(S)
  PROVE  \E g : HasSums(g, f, S) /\ SumFunctionOnSet(f, S) = g[S]
<1> DEFINE P == {k \in Nat : \E g : \A s \in SUBSET S :
                   Cardinality(s) <= k => g[s] = SumStep(f, g, s)}
<1>1. 0 \in P
  <2> DEFINE g == [s \in SUBSET S |-> 0]
  <2>1. ASSUME NEW s \in SUBSET S, Cardinality(s) <= 0 PROVE g[s] = SumStep(f, g, s)
    <3>1. s = {}
      <4> SUFFICES ASSUME NEW x \in s PROVE FALSE
        OBVIOUS
      <4>1. Cardinality(s) \in Nat /\ Cardinality(s) # 0
        BY SmallerSubset
      <4> QED BY <2>1, <4>1
    <3> QED BY <3>1 DEF SumStep
  <2> HIDE DEF g
  <2> QED BY <2>1
<1>2. ASSUME NEW k \in Nat, k \in P PROVE k + 1 \in P
  <2>1. PICK g : \A s \in SUBSET S : Cardinality(s) <= k => g[s] = SumStep(f, g, s)
    BY <1>2
  <2> DEFINE h == [s \in SUBSET S |-> IF Cardinality(s) <= k THEN g[s] ELSE SumStep(f, g, s)]
  <2>2. ASSUME NEW s \in SUBSET S, Cardinality(s) <= k + 1 PROVE h[s] = SumStep(f, h, s)
    <3>1. h[s] = SumStep(f, g, s)
      BY <2>1
    <3>2. CASE s = {}
      BY <3>1, <3>2 DEF SumStep
    <3>3. CASE s # {}
      <4>1. Some(s) \in s
        BY <3>3, SomeElement
      <4>2. Cardinality(s \ {Some(s)}) <= k /\ s \ {Some(s)} \in SUBSET S
        BY <4>1, <2>2, SmallerSubset
      <4>3. h[s \ {Some(s)}] = g[s \ {Some(s)}]
        BY <4>2
      <4> HIDE DEF h
      <4> QED BY <3>1, <4>3 DEF SumStep
    <3> QED BY <3>2, <3>3
  <2> HIDE DEF h
  <2> QED BY <2>2
<1>3. Cardinality(S) \in P /\ Cardinality(S) \in Nat
  <2>1. Cardinality(S) \in Nat
    BY FS_CardinalityType
  <2> HIDE DEF P
  <2> QED BY <1>1, <1>2, <2>1, NatSetInduction
<1>4. PICK g : \A s \in SUBSET S : Cardinality(s) <= Cardinality(S) => g[s] = SumStep(f, g, s)
  BY <1>3
<1> HIDE DEF P
<1> DEFINE h == [s \in SUBSET S |-> g[s]]
<1>5. h = [s \in SUBSET S |-> SumStep(f, h, s)]
  <2>1. ASSUME NEW s \in SUBSET S PROVE h[s] = SumStep(f, h, s)
    <3>1. Cardinality(s) <= Cardinality(S)
      BY FS_Subset
    <3>2. h[s] = SumStep(f, g, s)
      BY <1>4, <3>1
    <3>3. SumStep(f, h, s) = SumStep(f, g, s)
      <4>1. s \ {Some(s)} \in SUBSET S
        OBVIOUS
      <4> QED BY <4>1 DEF SumStep
    <3> HIDE DEF h
    <3> QED BY <3>2, <3>3
  <2> QED BY <2>1
<1> DEFINE iter == CHOOSE j : j = [s \in SUBSET S |-> SumStep(f, j, s)]
<1>6. iter = [s \in SUBSET S |-> SumStep(f, iter, s)]
  <2> HIDE DEF h
  <2> QED BY <1>5
<1>7. SumFunctionOnSet(f, S) = iter[S]
  BY DEF SumFunctionOnSet, FoldFunctionOnSet, MapThenFoldSet, SumStep, Some
<1> HIDE DEF iter
<1>8. HasSums(iter, f, S)
  BY <1>6 DEF HasSums
<1> QED BY <1>7, <1>8

\* The sum may begin with any element.
LEMMA SumsCommute ==
  ASSUME NEW f, NEW g, NEW S, IsFiniteSet(S), HasSums(g, f, S), \A x \in S : f[x] \in Int
  PROVE  \A s \in SUBSET S : /\ g[s] \in Int
                             /\ \A x \in s : g[s] = f[x] + g[s \ {x}]
<1> DEFINE Good(s) == g[s] \in Int /\ \A x \in s : g[s] = f[x] + g[s \ {x}]
           P == {k \in Nat : \A s \in SUBSET S : Cardinality(s) <= k => Good(s)}
<1>0. g[{}] = 0
  BY DEF HasSums, SumStep
<1>1. 0 \in P
  <2>1. ASSUME NEW s \in SUBSET S, Cardinality(s) <= 0 PROVE s = {}
    <3> SUFFICES ASSUME NEW x \in s PROVE FALSE
      OBVIOUS
    <3>1. Cardinality(s) \in Nat /\ Cardinality(s) # 0
      BY SmallerSubset
    <3> QED BY <2>1, <3>1
  <2>2. Good({})
    BY <1>0
  <2> HIDE DEF Good
  <2> QED BY <2>1, <2>2
<1>2. ASSUME NEW k \in Nat, k \in P PROVE k + 1 \in P
  <2> SUFFICES ASSUME NEW s \in SUBSET S, Cardinality(s) <= k + 1, s # {} PROVE Good(s)
    <3>1. Good({})
      BY <1>0
    <3> HIDE DEF Good
    <3> QED BY <3>1
  <2>1. \A z \in s : s \ {z} \in SUBSET S /\ Good(s \ {z})
    <3> HIDE DEF Good
    <3>1. \A z \in s : /\ Cardinality(s \ {z}) = Cardinality(s) - 1
                      /\ Cardinality(s) \in Nat
                      /\ s \ {z} \in SUBSET S
      BY SmallerSubset
    <3> QED BY <1>2, <3>1
  <2>2. s # {}
    OBVIOUS
  <2> DEFINE y == Some(s)
  <2>3. y \in s /\ g[s] = f[y] + g[s \ {y}]
    BY <2>2, SomeElement DEF HasSums, SumStep
  <2> HIDE DEF y
  <2>4. g[s] \in Int
    <3>1. g[s \ {y}] \in Int /\ f[y] \in Int
      BY <2>1, <2>3
    <3> QED BY <2>3, <3>1
  <2>5. ASSUME NEW x \in s PROVE g[s] = f[x] + g[s \ {x}]
    <3>1. CASE x = y
      BY <2>3, <3>1
    <3>2. CASE x # y
      <4>1. g[s \ {y}] = f[x] + g[(s \ {y}) \ {x}]
        BY <2>1, <2>3, <3>2
      <4>2. g[s \ {x}] = f[y] + g[(s \ {x}) \ {y}]
        BY <2>1, <2>3, <3>2
      <4>3. (s \ {y}) \ {x} = (s \ {x}) \ {y}
        OBVIOUS
      <4>4. f[x] \in Int /\ f[y] \in Int /\ g[s \ {x}] \in Int /\ g[s \ {y}] \in Int
        BY <2>1, <2>3
      <4> DEFINE z == g[(s \ {x}) \ {y}]
      <4>5. z \in Int
        <5>1. y \in s \ {x} /\ s \ {x} \in SUBSET S /\ Cardinality(s \ {x}) = Cardinality(s) - 1
              /\ Cardinality(s) \in Nat
          BY <2>3, <3>2, SmallerSubset
        <5>2. /\ (s \ {x}) \ {y} \in SUBSET S
              /\ Cardinality((s \ {x}) \ {y}) = Cardinality(s \ {x}) - 1
          BY <5>1, SmallerSubset
        <5>3. Cardinality((s \ {x}) \ {y}) <= k
          BY <5>1, <5>2
        <5> QED BY <1>2, <5>2, <5>3
      <4> HIDE DEF z
      <4>7. g[s \ {y}] = f[x] + z /\ g[s \ {x}] = f[y] + z
        BY <4>1, <4>2, <4>3 DEF z
      <4> QED BY <2>3, <4>4, <4>5, <4>7
    <3> QED BY <3>1, <3>2
  <2> QED BY <2>4, <2>5
<1>3. Nat \subseteq P
  <2> HIDE DEF P
  <2> QED BY <1>1, <1>2, NatSetInduction
<1>4. \A s \in SUBSET S : Good(s)
  <2> HIDE DEF Good
  <2>1. \A s \in SUBSET S : Cardinality(s) \in Nat
    BY FS_Subset, FS_CardinalityType
  <2>2. \A k \in Nat : k <= k
    OBVIOUS
  <2> QED BY <1>3, <2>1, <2>2
<1> QED BY <1>4

\* Sums over a set depend only on the numbers.
LEMMA SumsUnique ==
  ASSUME NEW f, NEW g, NEW S, IsFiniteSet(S), HasSums(g, f, S),
         NEW e, NEW h, NEW T, IsFiniteSet(T), HasSums(h, e, T)
  PROVE  \A s \in SUBSET S : s \in SUBSET T /\ (\A x \in s : f[x] = e[x]) => g[s] = h[s]
<1> DEFINE Same(s) == s \in SUBSET T /\ (\A x \in s : f[x] = e[x]) => g[s] = h[s]
           P == {k \in Nat : \A s \in SUBSET S : Cardinality(s) <= k => Same(s)}
<1>0. g[{}] = 0 /\ h[{}] = 0
  BY DEF HasSums, SumStep
<1>1. 0 \in P
  <2>1. ASSUME NEW s \in SUBSET S, Cardinality(s) <= 0 PROVE s = {}
    <3> SUFFICES ASSUME NEW x \in s PROVE FALSE
      OBVIOUS
    <3>1. Cardinality(s) \in Nat /\ Cardinality(s) # 0
      BY SmallerSubset
    <3> QED BY <2>1, <3>1
  <2> QED BY <1>0, <2>1
<1>2. ASSUME NEW k \in Nat, k \in P PROVE k + 1 \in P
  <2> SUFFICES ASSUME NEW s \in SUBSET S, Cardinality(s) <= k + 1, s # {} PROVE Same(s)
    <3>1. Same({})
      BY <1>0
    <3> HIDE DEF Same
    <3> QED BY <3>1
  <2> SUFFICES ASSUME s \in SUBSET T, \A x \in s : f[x] = e[x] PROVE g[s] = h[s]
    OBVIOUS
  <2> DEFINE y == Some(s)
  <2>1. y \in s /\ g[s] = f[y] + g[s \ {y}] /\ h[s] = e[y] + h[s \ {y}]
    BY SomeElement DEF HasSums, SumStep
  <2> HIDE DEF y
  <2>2. /\ s \ {y} \in SUBSET S /\ Cardinality(s) \in Nat
        /\ Cardinality(s \ {y}) = Cardinality(s) - 1
    BY <2>1, SmallerSubset
  <2>3. Cardinality(s \ {y}) <= k
    BY <2>2
  <2>4. Same(s \ {y})
    <3> HIDE DEF Same
    <3> QED BY <1>2, <2>2, <2>3
  <2> QED BY <2>1, <2>4
<1>3. Nat \subseteq P
  <2> HIDE DEF P
  <2> QED BY <1>1, <1>2, NatSetInduction
<1>4. \A s \in SUBSET S : Same(s)
  <2> HIDE DEF Same
  <2>1. \A s \in SUBSET S : Cardinality(s) \in Nat
    BY FS_Subset, FS_CardinalityType
  <2>2. \A k \in Nat : k <= k
    OBVIOUS
  <2> QED BY <1>3, <2>1, <2>2
<1> QED BY <1>4

LEMMA SumAgrees ==
  ASSUME NEW f, NEW e, NEW S, IsFiniteSet(S), \A x \in S : f[x] = e[x]
  PROVE  SumFunctionOnSet(f, S) = SumFunctionOnSet(e, S)
<1>1. PICK g : HasSums(g, f, S) /\ SumFunctionOnSet(f, S) = g[S]
  BY SumsExist
<1>2. PICK h : HasSums(h, e, S) /\ SumFunctionOnSet(e, S) = h[S]
  BY SumsExist
<1>3. g[S] = h[S]
  BY <1>1, <1>2, SumsUnique
<1> QED BY <1>1, <1>2, <1>3

LEMMA SumOfNothing ==
  ASSUME NEW f
  PROVE  SumFunctionOnSet(f, {}) = 0
<1>1. PICK g : HasSums(g, f, {}) /\ SumFunctionOnSet(f, {}) = g[{}]
  BY SumsExist, FS_EmptySet
<1> QED BY <1>1 DEF HasSums, SumStep

LEMMA SumOne ==
  ASSUME NEW f, NEW S, IsFiniteSet(S), \A x \in S : f[x] \in Int
  PROVE  /\ SumFunctionOnSet(f, S) \in Int
         /\ \A x \in S : SumFunctionOnSet(f, S) = f[x] + SumFunctionOnSet(f, S \ {x})
<1>1. PICK g : HasSums(g, f, S) /\ SumFunctionOnSet(f, S) = g[S]
  BY SumsExist
<1>2. g[S] \in Int /\ \A x \in S : g[S] = f[x] + g[S \ {x}]
  BY <1>1, SumsCommute
<1>3. ASSUME NEW x \in S PROVE g[S \ {x}] = SumFunctionOnSet(f, S \ {x})
  <2> DEFINE T == S \ {x}
  <2>1. IsFiniteSet(T) /\ T \in SUBSET S
    BY FS_Subset
  <2> HIDE DEF T
  <2>2. PICK h : HasSums(h, f, T) /\ SumFunctionOnSet(f, T) = h[T]
    BY <2>1, SumsExist
  <2>3. g[T] = h[T]
    BY <1>1, <2>1, <2>2, SumsUnique
  <2> QED BY <2>2, <2>3 DEF T
<1> QED BY <1>1, <1>2, <1>3

\* A sum of natural numbers is one.
LEMMA SumNat ==
  ASSUME NEW f, NEW S, IsFiniteSet(S), \A x \in S : f[x] \in Nat
  PROVE  SumFunctionOnSet(f, S) \in Nat
<1> DEFINE Good(T) == SumFunctionOnSet(f, T) \in Nat
           P == {k \in Nat : \A T \in SUBSET S : Cardinality(T) <= k => Good(T)}
<1>0. Good({})
  BY SumOfNothing
<1> HIDE DEF Good
<1>1. 0 \in P
  <2>1. ASSUME NEW T \in SUBSET S, Cardinality(T) <= 0 PROVE T = {}
    <3> SUFFICES ASSUME NEW x \in T PROVE FALSE
      OBVIOUS
    <3>1. Cardinality(T) \in Nat /\ Cardinality(T) # 0
      BY SmallerSubset
    <3> QED BY <2>1, <3>1
  <2> QED BY <1>0, <2>1
<1>2. ASSUME NEW k \in Nat, k \in P PROVE k + 1 \in P
  <2> SUFFICES ASSUME NEW T \in SUBSET S, Cardinality(T) <= k + 1, NEW x \in T PROVE Good(T)
    BY <1>0
  <2>1. /\ IsFiniteSet(T) /\ T \ {x} \in SUBSET S /\ Cardinality(T) \in Nat
        /\ Cardinality(T \ {x}) = Cardinality(T) - 1
    BY SmallerSubset
  <2>2. Good(T \ {x})
    BY <1>2, <2>1
  <2>3. SumFunctionOnSet(f, T) = f[x] + SumFunctionOnSet(f, T \ {x})
    <3>1. \A y \in T : f[y] \in Int
      OBVIOUS
    <3> QED BY <2>1, <3>1, SumOne
  <2> QED BY <2>2, <2>3 DEF Good
<1>3. Cardinality(S) \in P /\ Cardinality(S) \in Nat
  <2>1. Cardinality(S) \in Nat
    BY FS_CardinalityType
  <2> HIDE DEF P
  <2> QED BY <1>1, <1>2, <2>1, NatSetInduction
<1>4. Good(S)
  BY <1>3
<1> QED BY <1>4 DEF Good

\* Changing one number changes the sum by as much.
LEMMA SumUpdate ==
  ASSUME NEW f, NEW e, NEW S, IsFiniteSet(S), NEW x \in S,
         \A y \in S : f[y] \in Int /\ e[y] \in Int,
         \A y \in S \ {x} : e[y] = f[y]
  PROVE  SumFunctionOnSet(e, S) = SumFunctionOnSet(f, S) + e[x] - f[x]
<1> DEFINE T == S \ {x}
<1>1. IsFiniteSet(T)
  BY FS_Subset
<1>2. SumFunctionOnSet(e, T) = SumFunctionOnSet(f, T) /\ SumFunctionOnSet(f, T) \in Int
  <2> \A y \in T : e[y] = f[y] /\ f[y] \in Int
    OBVIOUS
  <2> HIDE DEF T
  <2> QED BY <1>1, SumAgrees, SumOne
<1>3. SumFunctionOnSet(f, S) = f[x] + SumFunctionOnSet(f, T)
  BY SumOne
<1>4. SumFunctionOnSet(e, S) = e[x] + SumFunctionOnSet(e, T)
  BY SumOne
<1> HIDE DEF T
<1> QED BY <1>2, <1>3, <1>4

\* Adding elements that all have the number v.
LEMMA SumConstantPart ==
  ASSUME NEW f, NEW S, IsFiniteSet(S), \A x \in S : f[x] \in Int,
         NEW v \in Int, NEW K \in SUBSET S, \A x \in S \ K : f[x] = v
  PROVE  SumFunctionOnSet(f, S) = SumFunctionOnSet(f, K) + v * Cardinality(S \ K)
<1> DEFINE Good(T) == SumFunctionOnSet(f, T) = SumFunctionOnSet(f, K) + v * Cardinality(T \ K)
           P == {k \in Nat : \A T \in SUBSET S :
                   K \subseteq T /\ Cardinality(T \ K) = k => Good(T)}
<1>0. IsFiniteSet(K) /\ SumFunctionOnSet(f, K) \in Int
  <2>1. IsFiniteSet(K) /\ \A x \in K : f[x] \in Int
    BY FS_Subset
  <2> QED BY <2>1, SumOne
<1>1. 0 \in P
  <2>1. ASSUME NEW T \in SUBSET S, K \subseteq T, Cardinality(T \ K) = 0 PROVE Good(T)
    <3>1. IsFiniteSet(T \ K)
      BY FS_Subset
    <3>2. T \ K = {}
      BY <2>1, <3>1, FS_EmptySet
    <3>3. T = K
      BY <2>1, <3>2
    <3> QED BY <1>0, <2>1, <3>3
  <2> HIDE DEF Good
  <2> QED BY <2>1
<1>2. ASSUME NEW k \in Nat, k \in P PROVE k + 1 \in P
  <2> SUFFICES ASSUME NEW T \in SUBSET S, K \subseteq T, Cardinality(T \ K) = k + 1 PROVE Good(T)
    <3> HIDE DEF Good
    <3> QED OBVIOUS
  <2>1. T \ K # {}
    <3> SUFFICES ASSUME T \ K = {} PROVE FALSE
      OBVIOUS
    <3>1. Cardinality({}) = 0
      BY FS_EmptySet
    <3>2. Cardinality(T \ K) = Cardinality({})
      BY Zenon
    <3> QED BY <3>1, <3>2
  <2>2. PICK x \in T \ K : TRUE
    BY <2>1
  <2> DEFINE U == T \ {x}
  <2>3. IsFiniteSet(T) /\ IsFiniteSet(T \ K)
    BY FS_Subset
  <2>4. (T \ K) \ {x} = U \ K /\ K \subseteq U /\ U \in SUBSET S
    BY <2>2
  <2>5. Cardinality(U \ K) = k
    <3>1. Cardinality((T \ K) \ {x}) = Cardinality(T \ K) - 1
      BY <2>2, <2>3, FS_RemoveElement
    <3> HIDE DEF U
    <3> QED BY <3>1, <2>4
  <2>6. Good(U)
    <3> HIDE DEF Good, U
    <3> QED BY <1>2, <2>4, <2>5
  <2>7. SumFunctionOnSet(f, T) = f[x] + SumFunctionOnSet(f, U)
    <3>1. \A y \in T : f[y] \in Int
      OBVIOUS
    <3> QED BY <2>2, <2>3, <3>1, SumOne
  <2>8. f[x] = v
    BY <2>2
  <2> HIDE DEF U
  <2>9. v * (k + 1) = v * k + v /\ v * k \in Int
    OBVIOUS
  <2> QED BY <1>0, <2>5, <2>6, <2>7, <2>8, <2>9
<1>3. Cardinality(S \ K) \in P
  <2>1. Cardinality(S \ K) \in Nat
    BY FS_Subset, FS_CardinalityType
  <2> HIDE DEF P
  <2> QED BY <1>1, <1>2, <2>1, NatSetInduction
<1>4. Good(S)
  <2> HIDE DEF Good
  <2> QED BY <1>3
<1> QED BY <1>4

-----------------------------------------------------------------------------
(* Sums over the positions of a sequence. *)

LEMMA SumPrefix ==
  ASSUME NEW n \in Nat, NEW f, \A i \in 1 .. (n + 1) : f[i] \in Int
  PROVE  /\ SumFunctionOnSet(f, 1 .. n) \in Int
         /\ SumFunctionOnSet(f, 1 .. (n + 1)) = SumFunctionOnSet(f, 1 .. n) + f[n + 1]
<1>1. IsFiniteSet(1 .. n) /\ IsFiniteSet(1 .. (n + 1))
  BY FS_Interval
<1>2. SumFunctionOnSet(f, 1 .. n) \in Int
  <2>1. \A i \in 1 .. n : f[i] \in Int
    OBVIOUS
  <2> QED BY <1>1, <2>1, SumOne
<1>3. n + 1 \in 1 .. (n + 1) /\ (1 .. (n + 1)) \ {n + 1} = 1 .. n
  OBVIOUS
<1>4. SumFunctionOnSet(f, 1 .. (n + 1)) = f[n + 1] + SumFunctionOnSet(f, (1 .. (n + 1)) \ {n + 1})
  BY <1>1, <1>3, SumOne
<1>5. f[n + 1] \in Int
  BY <1>3
<1>6. SumFunctionOnSet(f, (1 .. (n + 1)) \ {n + 1}) = SumFunctionOnSet(f, 1 .. n)
  BY <1>3, Zenon
<1> QED BY <1>2, <1>4, <1>5, <1>6

LEMMA SumShift ==
  ASSUME NEW n \in Nat, NEW f, NEW e, \A i \in 1 .. (n + 1) : f[i] \in Int,
         \A i \in 1 .. n : e[i] = f[i + 1]
  PROVE  SumFunctionOnSet(f, 1 .. (n + 1)) = f[1] + SumFunctionOnSet(e, 1 .. n)
<1> DEFINE P == {k \in Nat : k <= n =>
                   SumFunctionOnSet(f, 1 .. (k + 1)) = f[1] + SumFunctionOnSet(e, 1 .. k)}
<1>0. 1 .. 0 = {} /\ 1 \in 1 .. (n + 1) /\ f[1] \in Int
  OBVIOUS
<1>1. 0 \in P
  <2>1. SumFunctionOnSet(f, 1 .. (0 + 1)) = SumFunctionOnSet(f, 1 .. 0) + f[0 + 1]
    <3>1. 0 \in Nat /\ \A i \in 1 .. (0 + 1) : f[i] \in Int
      BY <1>0
    <3> QED BY <3>1, SumPrefix
  <2>2. SumFunctionOnSet(f, 1 .. 0) = 0 /\ SumFunctionOnSet(e, 1 .. 0) = 0
    BY <1>0, SumOfNothing
  <2> QED BY <1>0, <2>1, <2>2
<1>2. ASSUME NEW k \in Nat, k \in P PROVE k + 1 \in P
  <2> SUFFICES ASSUME k + 1 <= n
               PROVE  SumFunctionOnSet(f, 1 .. (k + 1 + 1)) = f[1] + SumFunctionOnSet(e, 1 .. (k + 1))
    OBVIOUS
  <2>1. SumFunctionOnSet(f, 1 .. (k + 1)) = f[1] + SumFunctionOnSet(e, 1 .. k)
    BY <1>2
  <2>2. /\ SumFunctionOnSet(f, 1 .. (k + 1)) \in Int
        /\ SumFunctionOnSet(f, 1 .. (k + 1 + 1)) = SumFunctionOnSet(f, 1 .. (k + 1)) + f[k + 1 + 1]
    <3>1. k + 1 \in Nat /\ \A i \in 1 .. (k + 1 + 1) : f[i] \in Int
      OBVIOUS
    <3> QED BY <3>1, SumPrefix
  <2>3. /\ SumFunctionOnSet(e, 1 .. k) \in Int
        /\ SumFunctionOnSet(e, 1 .. (k + 1)) = SumFunctionOnSet(e, 1 .. k) + e[k + 1]
    <3>1. \A i \in 1 .. (k + 1) : e[i] \in Int
      OBVIOUS
    <3> QED BY <3>1, SumPrefix
  <2>4. e[k + 1] = f[k + 1 + 1] /\ e[k + 1] \in Int
    OBVIOUS
  <2> QED BY <1>0, <2>1, <2>2, <2>3, <2>4
<1>3. n \in P
  <2> HIDE DEF P
  <2> QED BY <1>1, <1>2, NatSetInduction
<1> QED BY <1>3

\* The sum of the weights w of the items of a sequence.
Total(w, s) == SumFunction([i \in DOMAIN s |-> w[s[i]]])

Weights(w, s) == [i \in 1 .. Len(s) |-> w[s[i]]]

LEMMA TotalIsSum ==
  ASSUME NEW S, NEW w \in [S -> Nat], NEW s \in Seq(S)
  PROVE  /\ Total(w, s) = SumFunctionOnSet(Weights(w, s), 1 .. Len(s))
         /\ Total(w, s) \in Nat
         /\ \A i \in 1 .. Len(s) : /\ Weights(w, s)[i] = w[s[i]]
                                   /\ Weights(w, s)[i] \in Int
<1> DEFINE g == Weights(w, s)
<1>1. DOMAIN s = 1 .. Len(s) /\ DOMAIN g = 1 .. Len(s) /\ Len(s) \in Nat
  BY DEF Weights
<1>2. \A i \in 1 .. Len(s) : s[i] \in S /\ w[s[i]] \in Nat
  BY ElementOfSeq
<1>3. \A i \in 1 .. Len(s) : g[i] = w[s[i]] /\ g[i] \in Nat
  BY <1>1, <1>2 DEF Weights
<1>4. IsFiniteSet(1 .. Len(s))
  BY <1>1, FS_Interval
<1>5. Total(w, s) = SumFunctionOnSet(g, 1 .. Len(s))
  <2>1. [i \in DOMAIN s |-> w[s[i]]] = g
    BY <1>1 DEF Weights
  <2>2. Total(w, s) = SumFunctionOnSet(g, DOMAIN g)
    BY <2>1 DEF Total, SumFunction
  <2> HIDE DEF g
  <2> QED BY <1>1, <2>2
<1> HIDE DEF g
<1>7. SumFunctionOnSet(g, 1 .. Len(s)) \in Nat
  BY <1>3, <1>4, SumNat
<1> QED BY <1>3, <1>5, <1>7 DEF g

LEMMA TotalType ==
  ASSUME NEW S, NEW w \in [S -> Nat], NEW s \in Seq(S)
  PROVE  Total(w, s) \in Nat
BY TotalIsSum

LEMMA TotalEmpty ==
  ASSUME NEW w
  PROVE  Total(w, <<>>) = 0
<1> DEFINE g == [i \in DOMAIN <<>> |-> w[<<>>[i]]]
<1>1. DOMAIN g = {}
  OBVIOUS
<1>2. Total(w, <<>>) = SumFunctionOnSet(g, DOMAIN g)
  BY DEF Total, SumFunction
<1> HIDE DEF g
<1>3. SumFunctionOnSet(g, DOMAIN g) = SumFunctionOnSet(g, {})
  BY <1>1, Zenon
<1> QED BY <1>2, <1>3, SumOfNothing

LEMMA TotalAppend ==
  ASSUME NEW S, NEW w \in [S -> Nat], NEW s \in Seq(S), NEW m \in S
  PROVE  Total(w, Append(s, m)) = Total(w, s) + w[m]
<1> DEFINE t == Append(s, m)
           f == Weights(w, t)
           e == Weights(w, s)
<1>1. /\ t \in Seq(S) /\ Len(t) = Len(s) + 1 /\ Len(s) \in Nat
      /\ t[Len(s) + 1] = m
      /\ \A i \in 1 .. Len(s) : t[i] = s[i]
  BY AppendProperties
<1> HIDE DEF t
<1>2. /\ Total(w, t) = SumFunctionOnSet(f, 1 .. Len(t))
      /\ \A i \in 1 .. Len(t) : f[i] = w[t[i]] /\ f[i] \in Int
  BY <1>1, TotalIsSum
<1>3. /\ Total(w, s) = SumFunctionOnSet(e, 1 .. Len(s))
      /\ \A i \in 1 .. Len(s) : e[i] = w[s[i]]
  BY TotalIsSum
<1> HIDE DEF f, e
<1>4. ASSUME NEW i \in 1 .. Len(s)
      PROVE  f[i] = e[i]
  <2>1. i \in 1 .. Len(t)
    BY <1>1
  <2>2. f[i] = w[t[i]]
    BY <2>1, <1>2, Zenon
  <2>3. t[i] = s[i]
    BY <1>1, Zenon
  <2>4. e[i] = w[s[i]]
    BY <1>3, Zenon
  <2> QED BY <2>2, <2>3, <2>4, Zenon
<1>5. SumFunctionOnSet(f, 1 .. Len(s)) = SumFunctionOnSet(e, 1 .. Len(s))
  <2>1. IsFiniteSet(1 .. Len(s))
    BY <1>1, FS_Interval
  <2> QED BY <1>4, <2>1, SumAgrees, Zenon
<1>6. SumFunctionOnSet(f, 1 .. (Len(s) + 1)) = SumFunctionOnSet(f, 1 .. Len(s)) + f[Len(s) + 1]
  BY <1>1, <1>2, SumPrefix
<1>7. f[Len(s) + 1] = w[m]
  BY <1>1, <1>2
<1> QED BY <1>1, <1>2, <1>3, <1>5, <1>6, <1>7 DEF t

\* Dropping the first item.
LEMMA TotalShorter ==
  ASSUME NEW S, NEW w \in [S -> Nat], NEW s \in Seq(S), NEW t \in Seq(S),
         Len(s) = Len(t) + 1, \A i \in 1 .. Len(t) : t[i] = s[i + 1]
  PROVE  Total(w, s) = w[s[1]] + Total(w, t)
<1> DEFINE f == Weights(w, s)
           e == Weights(w, t)
<1>0. Len(t) \in Nat
  OBVIOUS
<1>1. \A i \in 1 .. Len(s) : f[i] = w[s[i]]
  BY Zenon DEF Weights
<1>2. \A i \in 1 .. Len(t) : e[i] = w[t[i]]
  BY Zenon DEF Weights
<1>3. /\ Total(w, s) = SumFunctionOnSet(f, 1 .. Len(s))
      /\ \A i \in 1 .. Len(s) : f[i] \in Int
  BY TotalIsSum
<1>4. Total(w, t) = SumFunctionOnSet(e, 1 .. Len(t))
  BY TotalIsSum
<1> HIDE DEF f, e
<1>5. ASSUME NEW i \in 1 .. Len(t) PROVE e[i] = f[i + 1]
  <2>1. i + 1 \in 1 .. Len(s)
    BY <1>0
  <2> QED BY <1>1, <1>2, <2>1, ZenonT(40)
<1>6. SumFunctionOnSet(f, 1 .. (Len(t) + 1)) = f[1] + SumFunctionOnSet(e, 1 .. Len(t))
  BY <1>0, <1>3, <1>5, SumShift
<1>7. f[1] = w[s[1]]
  BY <1>0, <1>1, SMTT(20)
<1> QED BY <1>3, <1>4, <1>6, <1>7

LEMMA TotalTail ==
  ASSUME NEW S, NEW w \in [S -> Nat], NEW s \in Seq(S), s # <<>>
  PROVE  Total(w, s) = w[s[1]] + Total(w, Tail(s))
<1> DEFINE t == Tail(s)
<1>1. /\ t \in Seq(S) /\ Len(s) = Len(t) + 1
      /\ \A i \in 1 .. Len(t) : t[i] = s[i + 1]
  BY HeadTailProperties
<1> HIDE DEF t
<1>2. Total(w, s) = w[s[1]] + Total(w, t)
  BY <1>1, TotalShorter
<1> QED BY <1>2 DEF t

\* What dropping the first n elements of a sequence leaves.
LEMMA DropFacts ==
  ASSUME NEW S, NEW s \in Seq(S), NEW n \in 0 .. Len(s)
  PROVE  /\ Drop(s, n) \in Seq(S)
         /\ Len(Drop(s, n)) = Len(s) - n
         /\ \A i \in 1 .. (Len(s) - n) : Drop(s, n)[i] = s[n + i]
  BY DEF Drop

\* Items without weight at the front may be dropped.
LEMMA TotalDrop ==
  ASSUME NEW S, NEW w \in [S -> Nat], NEW s \in Seq(S), NEW n \in 0 .. Len(s),
         \A i \in 1 .. n : w[s[i]] = 0
  PROVE  Total(w, Drop(s, n)) = Total(w, s)
<1> DEFINE P == {k \in Nat : k <= n => Total(w, Drop(s, k)) = Total(w, s)}
<1>0. n \in Nat /\ Len(s) \in Nat
  OBVIOUS
<1>1. 0 \in P
  <2>1. Drop(s, 0) = s
    BY DEF Drop
  <2> QED BY <2>1
<1>2. ASSUME NEW k \in Nat, k \in P PROVE k + 1 \in P
  <2> SUFFICES ASSUME k + 1 <= n PROVE Total(w, Drop(s, k + 1)) = Total(w, s)
    OBVIOUS
  <2> DEFINE a == Drop(s, k)
             b == Drop(s, k + 1)
  <2>1. /\ a \in Seq(S) /\ Len(a) = Len(s) - k
        /\ \A i \in 1 .. (Len(s) - k) : a[i] = s[k + i]
    <3>1. k \in 0 .. Len(s)
      BY <1>0
    <3> QED BY <3>1, DropFacts
  <2>2. /\ b \in Seq(S) /\ Len(b) = Len(s) - (k + 1)
        /\ \A i \in 1 .. (Len(s) - (k + 1)) : b[i] = s[k + 1 + i]
    <3>1. k + 1 \in 0 .. Len(s)
      BY <1>0
    <3> QED BY <3>1, DropFacts
  <2>3. Total(w, a) = Total(w, s)
    BY <1>2, <1>0
  <2> HIDE DEF a, b
  <2>4. Len(a) = Len(b) + 1 /\ \A i \in 1 .. Len(b) : b[i] = a[i + 1]
    <3>1. Len(a) = Len(b) + 1
      BY <1>0, <2>1, <2>2
    <3>2. ASSUME NEW i \in 1 .. Len(b) PROVE b[i] = a[i + 1]
      <4>1. i \in 1 .. (Len(s) - (k + 1)) /\ i + 1 \in 1 .. (Len(s) - k)
        BY <1>0, <2>1, <2>2
      <4>2. b[i] = s[k + 1 + i] /\ a[i + 1] = s[k + (i + 1)]
        BY <2>1, <2>2, <4>1
      <4>3. k + 1 + i = k + (i + 1)
        BY <4>1
      <4> QED BY <4>2, <4>3
    <3> QED BY <3>1, <3>2
  <2>5. Total(w, a) = w[a[1]] + Total(w, b)
    <3>1. a \in Seq(S) /\ b \in Seq(S)
      BY <2>1, <2>2
    <3> QED BY <2>4, <3>1, TotalShorter, ZenonT(30)
  <2>6. a[1] = s[k + 1] /\ k + 1 \in 1 .. n
    BY <1>0, <2>1
  <2>7. Total(w, b) \in Nat
    BY <2>2, TotalType
  <2> QED BY <2>3, <2>5, <2>6, <2>7 DEF b
<1>3. n \in P
  <2> HIDE DEF P
  <2> QED BY <1>0, <1>1, <1>2, NatSetInduction
<1> QED BY <1>3

\* s and t agree but for item k.
SameExcept(s, t, k) == \A i \in 1 .. Len(s) : i # k => t[i] = s[i]

\* Replacing one item.
LEMMA TotalReplace ==
  ASSUME NEW S, NEW w \in [S -> Nat], NEW s \in Seq(S), NEW t \in Seq(S),
         Len(t) = Len(s), NEW k \in 1 .. Len(s), SameExcept(s, t, k)
  PROVE  Total(w, t) = Total(w, s) + w[t[k]] - w[s[k]]
<1> DEFINE f == Weights(w, s)
           e == Weights(w, t)
<1>0. Len(t) \in Nat /\ IsFiniteSet(1 .. Len(s))
  BY FS_Interval
<1>1. \A i \in 1 .. Len(s) : f[i] = w[s[i]]
  BY Zenon DEF Weights
<1>2. \A i \in 1 .. Len(t) : e[i] = w[t[i]]
  BY Zenon DEF Weights
<1>3. /\ Total(w, s) = SumFunctionOnSet(f, 1 .. Len(s))
      /\ \A i \in 1 .. Len(s) : f[i] \in Int
  BY TotalIsSum
<1>4. /\ Total(w, t) = SumFunctionOnSet(e, 1 .. Len(t))
      /\ \A i \in 1 .. Len(t) : e[i] \in Int
  BY TotalIsSum
<1> HIDE DEF f, e
<1>5. ASSUME NEW i \in (1 .. Len(s)) \ {k} PROVE e[i] = f[i]
  <2>1. e[i] = w[t[i]] /\ f[i] = w[s[i]]
    BY <1>1, <1>2
  <2>2. t[i] = s[i]
    BY DEF SameExcept
  <2> QED BY <2>1, <2>2
<1>6. SumFunctionOnSet(e, 1 .. Len(s)) = SumFunctionOnSet(f, 1 .. Len(s)) + e[k] - f[k]
  <2> DEFINE D == 1 .. Len(s)
  <2>1. IsFiniteSet(D) /\ k \in D /\ \A i \in D : f[i] \in Int /\ e[i] \in Int
    BY <1>0, <1>3, <1>4
  <2>2. \A i \in D \ {k} : e[i] = f[i]
    BY <1>5
  <2> HIDE DEF D
  <2>3. SumFunctionOnSet(e, D) = SumFunctionOnSet(f, D) + e[k] - f[k]
    BY <2>1, <2>2, SumUpdate, ZenonT(40)
  <2> QED BY <2>3 DEF D
<1> QED BY <1>1, <1>2, <1>3, <1>4, <1>6

\* Counting is adding up weights of 0 and 1.
LEMMA TotalCounts ==
  ASSUME NEW S, NEW w \in [S -> {0, 1}], NEW s \in Seq(S)
  PROVE  /\ Cardinality({i \in DOMAIN s : w[s[i]] = 1}) = Total(w, s)
         /\ w \in [S -> Nat]
<1> DEFINE f == Weights(w, s)
           C(k) == {i \in 1 .. k : w[s[i]] = 1}
           P == {k \in Nat : k <= Len(s) =>
                   /\ IsFiniteSet(C(k))
                   /\ Cardinality(C(k)) = SumFunctionOnSet(f, 1 .. k)}
<1>0. w \in [S -> Nat] /\ Len(s) \in Nat
  OBVIOUS
<1>1. \A i \in 1 .. Len(s) : f[i] = w[s[i]]
  BY <1>0, TotalIsSum
<1>2. /\ Total(w, s) = SumFunctionOnSet(f, 1 .. Len(s))
      /\ \A i \in 1 .. Len(s) : f[i] \in Int
  BY <1>0, TotalIsSum
<1> HIDE DEF f
<1>3. 0 \in P
  <2>1. C(0) = {} /\ 1 .. 0 = {}
    OBVIOUS
  <2> HIDE DEF C
  <2>2. IsFiniteSet(C(0)) /\ Cardinality(C(0)) = 0
    BY <2>1, FS_EmptySet
  <2>3. SumFunctionOnSet(f, 1 .. 0) = 0
    BY <2>1, SumOfNothing
  <2> QED BY <2>2, <2>3
<1>4. ASSUME NEW k \in Nat, k \in P PROVE k + 1 \in P
  <2> SUFFICES ASSUME k + 1 <= Len(s)
               PROVE  /\ IsFiniteSet(C(k + 1))
                      /\ Cardinality(C(k + 1)) = SumFunctionOnSet(f, 1 .. (k + 1))
    <3> HIDE DEF C
    <3> QED OBVIOUS
  <2>1. /\ IsFiniteSet(C(k))
        /\ Cardinality(C(k)) = SumFunctionOnSet(f, 1 .. k)
    <3> HIDE DEF C
    <3> QED BY <1>0, <1>4
  <2>2. /\ SumFunctionOnSet(f, 1 .. k) \in Int
        /\ SumFunctionOnSet(f, 1 .. (k + 1)) = SumFunctionOnSet(f, 1 .. k) + f[k + 1]
    <3>1. \A i \in 1 .. (k + 1) : f[i] \in Int
      BY <1>0, <1>2
    <3> QED BY <3>1, SumPrefix
  <2>3. k + 1 \in 1 .. Len(s) /\ f[k + 1] = w[s[k + 1]] /\ w[s[k + 1]] \in {0, 1}
    <3>1. k + 1 \in 1 .. Len(s)
      BY <1>0
    <3>2. s[k + 1] \in S
      BY <3>1, ElementOfSeq
    <3> QED BY <1>1, <3>1, <3>2
  <2>4. CASE w[s[k + 1]] = 1
    <3>1. C(k + 1) = C(k) \cup {k + 1} /\ k + 1 \notin C(k)
      BY <2>4
    <3> HIDE DEF C
    <3>2. IsFiniteSet(C(k + 1)) /\ Cardinality(C(k + 1)) = Cardinality(C(k)) + 1
      BY <2>1, <3>1, FS_AddElement
    <3> QED BY <2>1, <2>2, <2>3, <2>4, <3>2
  <2>5. CASE w[s[k + 1]] = 0
    <3>1. C(k + 1) = C(k)
      BY <2>5
    <3> HIDE DEF C
    <3> QED BY <2>1, <2>2, <2>3, <2>5, <3>1
  <2> QED BY <2>3, <2>4, <2>5
<1>5. Len(s) \in P
  <2> HIDE DEF P
  <2> QED BY <1>0, <1>3, <1>4, NatSetInduction
<1>6. C(Len(s)) = {i \in DOMAIN s : w[s[i]] = 1}
  OBVIOUS
<1>7. Cardinality(C(Len(s))) = SumFunctionOnSet(f, 1 .. Len(s))
  <2> HIDE DEF C
  <2> QED BY <1>0, <1>5
<1> HIDE DEF C, P
<1> QED BY <1>0, <1>2, <1>6, <1>7

-----------------------------------------------------------------------------
(* Output queues with messages M. *)

\* The type of a deadline range.
Ranges == [deadline : Nat, end : Nat]

OutQueues(M) ==
  [queue : Seq(M \cup {None}),
   num_slots_reserved : Nat,
   begin : Nat,
   deadline_range_ends : Seq([deadline : Nat, end : Nat]),
   timeout_index : Nat,
   num_messages : Nat]

\* There is a longest prefix of 1 .. N within a set.
LEMMA LongestPrefix ==
  ASSUME NEW N \in Nat, NEW T
  PROVE  \E n \in 0 .. N : /\ \A i \in 1 .. n : i \in T
                           /\ n < N => n + 1 \notin T
<1> DEFINE B == {i \in 1 .. N : i \notin T}
<1>1. CASE B = {}
  BY <1>1
<1>2. CASE B # {}
  <2>1. B \subseteq Nat
    OBVIOUS
  <2>2. \E m \in B : \A k \in B : m <= k
    <3> HIDE DEF B
    <3> QED BY <2>1, <1>2, LeastNatural
  <2>3. PICK m \in B : \A k \in B : m <= k
    BY <2>2
  <2>4. m - 1 \in 0 .. N
    BY <2>3
  <2>5. \A i \in 1 .. (m - 1) : i \in T
    BY <2>3
  <2>6. (m - 1) + 1 \notin T
    BY <2>3
  <2> QED BY <2>4, <2>5, <2>6
<1> QED BY <1>1, <1>2

\* LeadingNones, the number of tombstones that advance_to_next_message pops,
\* is the length of the longest prefix of tombstones.
LEMMA LeadingNonesFacts ==
  ASSUME NEW S, NEW s \in Seq(S)
  PROVE  /\ LeadingNones(s) \in 0 .. Len(s)
         /\ \A i \in 1 .. LeadingNones(s) : s[i] = None
         /\ LeadingNones(s) < Len(s) => s[LeadingNones(s) + 1] # None
<1> DEFINE T == {i \in 1 .. Len(s) : s[i] = None}
<1>1. PICK n \in 0 .. Len(s) : /\ \A i \in 1 .. n : i \in T
                               /\ n < Len(s) => n + 1 \notin T
  <2> Len(s) \in Nat OBVIOUS
  <2> HIDE DEF T
  <2> QED BY LongestPrefix
<1>2. \E m \in 0 .. Len(s) : /\ \A i \in 1 .. m : s[i] = None
                             /\ m < Len(s) => s[m + 1] # None
  BY <1>1
<1> QED BY <1>2 DEF LeadingNones

\* The fields of a deadline range are natural numbers.
LEMMA RangeFields ==
  ASSUME NEW r \in Seq(Ranges), NEW i \in 1 .. Len(r)
  PROVE  r[i].deadline \in Nat /\ r[i].end \in Nat
<1>1. r[i] \in Ranges
  BY ElementOfSeq
<1> QED BY <1>1 DEF Ranges

\* ConsumedRanges, the ranges that advance_to_next_message pops, is the longest
\* prefix of ranges that end at or before begin or timeout_index.
LEMMA ConsumedRangesFacts ==
  ASSUME NEW S, NEW r \in Seq(S), NEW b, NEW t
  PROVE  LET n == ConsumedRanges(r, b, t)
         IN  /\ n \in 0 .. Len(r)
             /\ \A i \in 1 .. n : r[i].end <= b \/ r[i].end <= t
             /\ n < Len(r) => ~(r[n + 1].end <= b \/ r[n + 1].end <= t)
<1> DEFINE T == {i \in 1 .. Len(r) : r[i].end <= b \/ r[i].end <= t}
<1>1. PICK n \in 0 .. Len(r) : /\ \A i \in 1 .. n : i \in T
                               /\ n < Len(r) => n + 1 \notin T
  <2> Len(r) \in Nat OBVIOUS
  <2> HIDE DEF T
  <2> QED BY LongestPrefix
<1>2. \E m \in 0 .. Len(r) :
        /\ \A i \in 1 .. m : r[i].end <= b \/ r[i].end <= t
        /\ m < Len(r) => ~(r[m + 1].end <= b \/ r[m + 1].end <= t)
  BY <1>1
<1> QED BY <1>2 DEF ConsumedRanges

\* ExpiredRanges, the ranges that TimedOutRequestsIter goes through, is the
\* longest prefix of ranges with a deadline that has been reached.
LEMMA ExpiredRangesFacts ==
  ASSUME NEW r \in Seq(Ranges), NEW time \in Nat
  PROVE  LET n == ExpiredRanges(r, time)
         IN  /\ n \in 0 .. Len(r)
             /\ \A i \in 1 .. n : r[i].deadline <= time
             /\ n < Len(r) => r[n + 1].deadline > time
<1> DEFINE T == {i \in 1 .. Len(r) : r[i].deadline <= time}
<1>1. PICK n \in 0 .. Len(r) : /\ \A i \in 1 .. n : i \in T
                               /\ n < Len(r) => n + 1 \notin T
  <2> Len(r) \in Nat OBVIOUS
  <2> HIDE DEF T
  <2> QED BY LongestPrefix
<1>2. \E m \in 0 .. Len(r) :
        /\ \A i \in 1 .. m : r[i].deadline <= time
        /\ m < Len(r) => r[m + 1].deadline > time
  <2>1. \A i \in 1 .. Len(r) : r[i].deadline \in Nat
    BY RangeFields
  <2>2. n < Len(r) => r[n + 1].deadline > time
    BY <1>1, <2>1
  <2> QED BY <1>1, <2>2
<1> QED BY <1>2 DEF ExpiredRanges

\* Skipping tombstones keeps every message, its absolute index included.
LEMMA AdvanceKeepsItems ==
  ASSUME NEW M, NEW p \in OutQueues(M)
  PROVE  LET r == AdvanceToNextMessage(p)
         IN  /\ r \in OutQueues(M)
             /\ r.begin >= p.begin
             /\ QueueEnd(r) = QueueEnd(p)
             /\ \A k \in p.begin .. (r.begin - 1) : k \in Indices(p) /\ Item(p, k) = None
             /\ \A k \in Indices(r) : k \in Indices(p) /\ Item(r, k) = Item(p, k)
             /\ FrontIsMessage(r)
             /\ Len(r.queue) <= Len(p.queue)
             /\ r.num_slots_reserved = p.num_slots_reserved
             /\ r.timeout_index = p.timeout_index
             /\ r.num_messages = p.num_messages
<1> DEFINE skip  == LeadingNones(p.queue)
           begin == p.begin + skip
           gone  == ConsumedRanges(p.deadline_range_ends, begin, p.timeout_index)
           r     == AdvanceToNextMessage(p)
<1>1. /\ p.queue \in Seq(M \cup {None})
      /\ p.deadline_range_ends \in Seq([deadline : Nat, end : Nat])
      /\ p.begin \in Nat
  BY DEF OutQueues
<1>2. /\ skip \in 0 .. Len(p.queue)
      /\ \A i \in 1 .. skip : p.queue[i] = None
      /\ skip < Len(p.queue) => p.queue[skip + 1] # None
  BY <1>1, LeadingNonesFacts
<1>3. gone \in 0 .. Len(p.deadline_range_ends)
  <2> HIDE DEF begin
  <2> QED BY <1>1, ConsumedRangesFacts
<1>4. r = [p EXCEPT !.queue = Drop(p.queue, skip),
                    !.begin = begin,
                    !.deadline_range_ends = Drop(p.deadline_range_ends, gone)]
  BY DEF AdvanceToNextMessage
<1> HIDE DEF skip, gone, r
<1>5. /\ Drop(p.queue, skip) \in Seq(M \cup {None})
      /\ Len(Drop(p.queue, skip)) = Len(p.queue) - skip
      /\ \A i \in 1 .. (Len(p.queue) - skip) : Drop(p.queue, skip)[i] = p.queue[skip + i]
  BY <1>1, <1>2, DropFacts
<1>6. Drop(p.deadline_range_ends, gone) \in Seq([deadline : Nat, end : Nat])
  BY <1>1, <1>3, DropFacts
<1>7. /\ r.queue = Drop(p.queue, skip)
      /\ r.begin = p.begin + skip
      /\ r.deadline_range_ends = Drop(p.deadline_range_ends, gone)
      /\ r.num_slots_reserved = p.num_slots_reserved
      /\ r.timeout_index = p.timeout_index
      /\ r.num_messages = p.num_messages
  BY <1>4 DEF OutQueues
<1>8. r \in OutQueues(M)
  <2>1. r = [queue |-> Drop(p.queue, skip),
             num_slots_reserved |-> p.num_slots_reserved,
             begin |-> begin,
             deadline_range_ends |-> Drop(p.deadline_range_ends, gone),
             timeout_index |-> p.timeout_index,
             num_messages |-> p.num_messages]
    BY <1>4 DEF OutQueues
  <2>2. begin \in Nat /\ p.num_slots_reserved \in Nat /\ p.timeout_index \in Nat
        /\ p.num_messages \in Nat
    BY <1>1, <1>2 DEF OutQueues
  <2> QED BY <2>1, <2>2, <1>5, <1>6 DEF OutQueues
<1>9. r.begin >= p.begin /\ QueueEnd(r) = QueueEnd(p) /\ Len(r.queue) <= Len(p.queue)
  BY <1>1, <1>2, <1>5, <1>7 DEF QueueEnd
<1>10. \A k \in p.begin .. (r.begin - 1) : k \in Indices(p) /\ Item(p, k) = None
  BY <1>1, <1>2, <1>7 DEF Indices, QueueEnd, Item
<1>11. \A k \in Indices(r) : k \in Indices(p) /\ Item(r, k) = Item(p, k)
  <2> SUFFICES ASSUME NEW k \in Indices(r)
               PROVE  k \in Indices(p) /\ Item(r, k) = Item(p, k)
    OBVIOUS
  <2>1. k \in p.begin + skip .. (p.begin + Len(p.queue) - 1)
    BY <1>1, <1>2, <1>5, <1>7 DEF Indices, QueueEnd
  <2>2. k - (p.begin + skip) + 1 \in 1 .. (Len(p.queue) - skip)
    BY <2>1, <1>1, <1>2
  <2>3. r.queue[k - r.begin + 1] = p.queue[skip + (k - (p.begin + skip) + 1)]
    BY <2>2, <1>5, <1>7
  <2>4. skip + (k - (p.begin + skip) + 1) = k - p.begin + 1
    BY <2>1, <1>1, <1>2
  <2>5. k \in p.begin .. (p.begin + Len(p.queue) - 1)
    BY <2>1, <1>1, <1>2
  <2>6. k \in Indices(p)
    BY <2>5, <1>1 DEF Indices, QueueEnd
  <2>7. Item(r, k) = Item(p, k)
    BY <2>3, <2>4 DEF Item
  <2> QED BY <2>6, <2>7
<1>12. FrontIsMessage(r)
  BY <1>2, <1>5, <1>7, <1>1 DEF FrontIsMessage
<1> QED BY <1>7, <1>8, <1>9, <1>10, <1>11, <1>12 DEF r

\* The deadline ranges that skipping tombstones discards are consumed.
LEMMA AdvanceRanges ==
  ASSUME NEW M, NEW p \in OutQueues(M)
  PROVE  LET r == AdvanceToNextMessage(p)
         IN  \E g \in 0 .. Len(p.deadline_range_ends) :
               /\ r.deadline_range_ends = Drop(p.deadline_range_ends, g)
               /\ \A i \in 1 .. g : \/ p.deadline_range_ends[i].end <= r.begin
                                    \/ p.deadline_range_ends[i].end <= p.timeout_index
               /\ g < Len(p.deadline_range_ends) =>
                    ~ \/ p.deadline_range_ends[g + 1].end <= r.begin
                      \/ p.deadline_range_ends[g + 1].end <= p.timeout_index
<1> DEFINE ranges == p.deadline_range_ends
           begin == p.begin + LeadingNones(p.queue)
           gone == ConsumedRanges(ranges, begin, p.timeout_index)
           r == AdvanceToNextMessage(p)
<1>1. r.begin = begin /\ r.deadline_range_ends = Drop(ranges, gone)
  BY DEF AdvanceToNextMessage, OutQueues
<1>2. ranges \in Seq(Ranges)
  BY DEF OutQueues, Ranges
<1>3. /\ gone \in 0 .. Len(ranges)
      /\ \A i \in 1 .. gone : ranges[i].end <= begin \/ ranges[i].end <= p.timeout_index
      /\ gone < Len(ranges) => ~(\/ ranges[gone + 1].end <= begin
                                 \/ ranges[gone + 1].end <= p.timeout_index)
  <2> HIDE DEF begin, ranges
  <2> QED BY <1>2, ConsumedRangesFacts
<1> HIDE DEF begin, gone, r, ranges
<1>4. \E g \in 0 .. Len(ranges) :
        /\ r.deadline_range_ends = Drop(ranges, g)
        /\ \A i \in 1 .. g : ranges[i].end <= r.begin \/ ranges[i].end <= p.timeout_index
        /\ g < Len(ranges) => ~(\/ ranges[g + 1].end <= r.begin
                                \/ ranges[g + 1].end <= p.timeout_index)
  BY <1>1, <1>3
<1> QED BY <1>4 DEF r, ranges

\* Types of the parts of a queue.
LEMMA QueueFields ==
  ASSUME NEW M, NEW p \in OutQueues(M)
  PROVE  /\ p.queue \in Seq(M \cup {None})
         /\ Len(p.queue) \in Nat
         /\ p.num_slots_reserved \in Nat
         /\ p.begin \in Nat
         /\ p.deadline_range_ends \in Seq(Ranges)
         /\ Len(p.deadline_range_ends) \in Nat
         /\ p.timeout_index \in Nat
         /\ p.num_messages \in Nat
         /\ QueueEnd(p) \in Nat
         /\ p.begin <= QueueEnd(p)
  BY DEF OutQueues, Ranges, QueueEnd

\* Skipping tombstones (advance_to_next_message) loses no message.
LEMMA AdvanceLive ==
  ASSUME NEW M, NEW p \in OutQueues(M)
  PROVE  Live(AdvanceToNextMessage(p)) = Live(p)
<1> DEFINE r == AdvanceToNextMessage(p)
<1>1. /\ r.begin \in Nat /\ p.begin \in Nat
      /\ QueueEnd(r) \in Nat
  <2>1. r \in OutQueues(M)
    BY AdvanceKeepsItems
  <2> HIDE DEF r
  <2> QED BY <2>1, QueueFields
<1>2. /\ r.begin >= p.begin
      /\ QueueEnd(r) = QueueEnd(p)
      /\ \A k \in p.begin .. (r.begin - 1) : Item(p, k) = None
      /\ \A k \in Indices(r) : k \in Indices(p) /\ Item(r, k) = Item(p, k)
  BY AdvanceKeepsItems
<1> HIDE DEF r
<1>3. \A k \in Indices(p) : k \in Indices(r) \/ k \in p.begin .. (r.begin - 1)
  BY <1>1, <1>2 DEF Indices
<1>4. Live(r) = Live(p)
  BY <1>2, <1>3 DEF Live
<1> QED BY <1>4 DEF r

\* Types of the fields of a queue.
HasFieldTypes(M, p) ==
  /\ p.queue \in Seq(M \cup {None})
  /\ p.num_slots_reserved \in Nat
  /\ p.begin \in Nat
  /\ p.deadline_range_ends \in Seq(Ranges)
  /\ p.timeout_index \in Nat
  /\ p.num_messages \in Nat

\* A record with the fields of a queue, of the right types, is a queue.
LEMMA MakeQueue ==
  ASSUME NEW M, NEW p, HasFieldTypes(M, p),
         p = [queue |-> p.queue, num_slots_reserved |-> p.num_slots_reserved,
              begin |-> p.begin, deadline_range_ends |-> p.deadline_range_ends,
              timeout_index |-> p.timeout_index, num_messages |-> p.num_messages]
  PROVE  p \in OutQueues(M)
<1>1. /\ p.queue \in Seq(M \cup {None}) /\ p.num_slots_reserved \in Nat
      /\ p.begin \in Nat /\ p.deadline_range_ends \in Seq([deadline : Nat, end : Nat])
      /\ p.timeout_index \in Nat /\ p.num_messages \in Nat
  BY DEF HasFieldTypes, Ranges
<1>2. \A a \in Seq(M \cup {None}), b \in Nat, c \in Nat,
        d \in Seq([deadline : Nat, end : Nat]), e \in Nat, f \in Nat :
        [queue |-> a, num_slots_reserved |-> b, begin |-> c, deadline_range_ends |-> d,
         timeout_index |-> e, num_messages |-> f] \in OutQueues(M)
  BY DEF OutQueues
<1>3. ASSUME NEW a, NEW b, NEW c, NEW d, NEW e, NEW f,
             /\ p.queue = a /\ p.num_slots_reserved = b /\ p.begin = c
             /\ p.deadline_range_ends = d /\ p.timeout_index = e /\ p.num_messages = f
      PROVE  p \in OutQueues(M)
  <2>1. p = [queue |-> a, num_slots_reserved |-> b, begin |-> c, deadline_range_ends |-> d,
             timeout_index |-> e, num_messages |-> f]
    BY <1>3
  <2> QED BY <2>1, <1>1, <1>2, <1>3
<1> QED BY <1>3

\* A queue has finitely many messages.
LEMMA LiveIsFinite ==
  ASSUME NEW M, NEW p \in OutQueues(M)
  PROVE  IsFiniteSet(Live(p)) /\ Cardinality(Live(p)) \in Nat
<1>0. p.begin \in Nat /\ QueueEnd(p) \in Nat
  BY QueueFields
<1>1. IsFiniteSet(Indices(p))
  BY <1>0, FS_Interval DEF Indices
<1>2. Live(p) \subseteq Indices(p)
  BY DEF Live
<1> QED BY <1>1, <1>2, FS_Subset, FS_CardinalityType

\* Absolute indices of a queue are positions of its sequence.
LEMMA PositionInQueue ==
  ASSUME NEW M, NEW p \in OutQueues(M), NEW k \in Indices(p)
  PROVE  /\ k - p.begin + 1 \in 1 .. Len(p.queue)
         /\ k \in Nat /\ p.begin <= k /\ k < QueueEnd(p)
         /\ Item(p, k) \in M \cup {None}
<1>0. p.begin \in Nat /\ Len(p.queue) \in Nat /\ p.queue \in Seq(M \cup {None})
  BY QueueFields
<1>1. k - p.begin + 1 \in 1 .. Len(p.queue) /\ k \in Nat /\ p.begin <= k /\ k < QueueEnd(p)
  BY <1>0 DEF Indices, QueueEnd
<1> QED BY <1>0, <1>1, ElementOfSeq DEF Item

\* A push adds one message at the end.
LEMMA PushItems ==
  ASSUME NEW M, NEW p \in OutQueues(M), NEW r \in OutQueues(M), NEW msg \in M, None \notin M,
         r.queue = Append(p.queue, msg), r.begin = p.begin
  PROVE  /\ Len(r.queue) = Len(p.queue) + 1
         /\ QueueEnd(r) = QueueEnd(p) + 1
         /\ Indices(r) = Indices(p) \cup {QueueEnd(p)}
         /\ QueueEnd(p) \notin Indices(p)
         /\ Item(r, QueueEnd(p)) = msg
         /\ \A k \in Indices(p) : Item(r, k) = Item(p, k)
         /\ Cardinality(Live(r)) = Cardinality(Live(p)) + 1
         /\ FrontIsMessage(p) => FrontIsMessage(r)
<1>0. /\ p.queue \in Seq(M \cup {None}) /\ r.queue \in Seq(M \cup {None})
      /\ Len(p.queue) \in Nat /\ p.begin \in Nat /\ QueueEnd(p) \in Nat
      /\ p.begin <= QueueEnd(p)
  BY QueueFields
<1>1. /\ Len(r.queue) = Len(p.queue) + 1
      /\ \A i \in 1 .. Len(p.queue) : r.queue[i] = p.queue[i]
      /\ r.queue[Len(p.queue) + 1] = msg
  BY <1>0, AppendProperties
<1>2. QueueEnd(r) = QueueEnd(p) + 1
  BY <1>0, <1>1 DEF QueueEnd
<1>3. /\ Indices(r) = Indices(p) \cup {QueueEnd(p)}
      /\ QueueEnd(p) \notin Indices(p)
  BY <1>0, <1>2 DEF Indices
<1>4. Item(r, QueueEnd(p)) = msg
  BY <1>0, <1>1 DEF Item, QueueEnd
<1>5. ASSUME NEW k \in Indices(p) PROVE Item(r, k) = Item(p, k)
  <2>1. k - p.begin + 1 \in 1 .. Len(p.queue)
    BY PositionInQueue
  <2> QED BY <1>1, <2>1 DEF Item
<1>6. msg # None
  OBVIOUS
<1>7. Live(r) = Live(p) \cup {QueueEnd(p)} /\ QueueEnd(p) \notin Live(p)
  BY <1>3, <1>4, <1>5, <1>6 DEF Live
<1>8. Cardinality(Live(r)) = Cardinality(Live(p)) + 1
  BY <1>7, LiveIsFinite, FS_AddElement
<1>9. FrontIsMessage(p) => FrontIsMessage(r)
  <2>1. CASE Len(p.queue) = 0
    BY <2>1, <1>0, <1>1, <1>6 DEF FrontIsMessage
  <2>2. CASE Len(p.queue) # 0
    BY <2>2, <1>0, <1>1 DEF FrontIsMessage
  <2> QED BY <2>1, <2>2
<1> QED BY <1>1, <1>2, <1>3, <1>4, <1>5, <1>8, <1>9

\* What decoding insists on, with what makes it inductive: timeout_index does
\* not run past the end of the queue.
WellFormed(M, p) ==
  /\ p \in OutQueues(M)
  /\ TestInvariants(p)
  /\ p.timeout_index <= QueueEnd(p)

\* What must hold of a queue whose tombstones and consumed ranges are yet to be
\* removed.
Cleanable(p) ==
  /\ RangesSorted(p)
  /\ \A i \in 1 .. Len(p.deadline_range_ends) :
       p.deadline_range_ends[i].end <= QueueEnd(p)
  /\ NoRequestBeforeTimeoutIndex(p)
  /\ MessageCountOk(p)
  /\ p.timeout_index <= QueueEnd(p)

\* Weights of queue items; tombstones have none.
Weighings(M) == {w \in [M \cup {None} -> Nat] : w[None] = 0}

\* advance_to_next_message restores the invariants.
LEMMA AdvanceCleans ==
  ASSUME NEW M, NEW p \in OutQueues(M), Cleanable(p)
  PROVE  WellFormed(M, AdvanceToNextMessage(p))
<1> DEFINE r  == AdvanceToNextMessage(p)
           ps == p.deadline_range_ends
           rs == r.deadline_range_ends
<1>1. /\ r \in OutQueues(M)
      /\ QueueEnd(r) = QueueEnd(p)
      /\ \A k \in Indices(r) : k \in Indices(p) /\ Item(r, k) = Item(p, k)
      /\ FrontIsMessage(r)
      /\ r.timeout_index = p.timeout_index
      /\ r.num_messages = p.num_messages
  BY AdvanceKeepsItems
<1>2. ps \in Seq(Ranges) /\ p.timeout_index \in Nat
  BY QueueFields
<1>3. PICK g \in 0 .. Len(ps) :
        /\ rs = Drop(ps, g)
        /\ \A i \in 1 .. g : ps[i].end <= r.begin \/ ps[i].end <= p.timeout_index
        /\ g < Len(ps) => ~(ps[g + 1].end <= r.begin \/ ps[g + 1].end <= p.timeout_index)
  BY AdvanceRanges
<1>4. Live(r) = Live(p)
  BY AdvanceLive
<1> HIDE DEF r, ps
<1>13. r.begin \in Nat /\ QueueEnd(r) \in Nat
  BY <1>1, QueueFields
<1>5. /\ Len(rs) = Len(ps) - g
      /\ \A j \in 1 .. Len(rs) : g + j \in 1 .. Len(ps) /\ rs[j] = ps[g + j]
  BY <1>2, <1>3, DropFacts
<1>6. \A i \in 1 .. Len(ps) : ps[i].end \in Nat /\ ps[i].deadline \in Nat
  BY <1>2, RangeFields
<1>7. /\ \A i, j \in 1 .. Len(ps) :
           i < j => ps[i].deadline < ps[j].deadline /\ ps[i].end < ps[j].end
      /\ \A i \in 1 .. Len(ps) : ps[i].end <= QueueEnd(p)
  BY DEF Cleanable, RangesSorted, ps
<1>8. RangesSorted(r)
  <2> SUFFICES ASSUME NEW i \in 1 .. Len(rs), NEW j \in 1 .. Len(rs), i < j
               PROVE  rs[i].deadline < rs[j].deadline /\ rs[i].end < rs[j].end
    BY DEF RangesSorted
  <2>1. /\ g + i \in 1 .. Len(ps) /\ rs[i] = ps[g + i]
        /\ g + j \in 1 .. Len(ps) /\ rs[j] = ps[g + j]
    BY <1>5
  <2>2. g + i < g + j
    BY <1>3
  <2> QED BY <2>1, <2>2, <1>7
<1>9. RangesInQueue(r)
  <2> SUFFICES ASSUME NEW j \in 1 .. Len(rs)
               PROVE  rs[j].end > r.begin /\ rs[j].end > r.timeout_index
                      /\ rs[j].end <= QueueEnd(r)
    BY DEF RangesInQueue
  <2>1. g < Len(ps) /\ g + 1 \in 1 .. Len(ps)
    BY <1>5, <1>2
  <2>2. ps[g + 1].end > r.begin /\ ps[g + 1].end > p.timeout_index
    BY <2>1, <1>3, <1>2, <1>6, <1>13
  <2>3. ps[g + 1].end <= ps[g + j].end
    BY <2>1, <1>5, <1>6, <1>7
  <2>4. g + j \in 1 .. Len(ps) /\ rs[j] = ps[g + j]
    BY <1>5
  <2>5. ps[g + j].end \in Nat /\ ps[g + 1].end \in Nat /\ ps[g + j].end <= QueueEnd(p)
    BY <2>1, <2>4, <1>6, <1>7
  <2>6. ps[g + j].end > r.begin /\ ps[g + j].end > p.timeout_index
    BY <2>2, <2>3, <2>5, <1>2, <1>13
  <2> QED BY <2>4, <2>5, <2>6, <1>1
<1>10. NoRequestBeforeTimeoutIndex(r)
  BY <1>1 DEF Cleanable, NoRequestBeforeTimeoutIndex
<1>11. MessageCountOk(r)
  BY <1>1, <1>4 DEF Cleanable, MessageCountOk
<1>12. r.timeout_index <= QueueEnd(r)
  BY <1>1 DEF Cleanable
<1> QED BY <1>1, <1>8, <1>9, <1>10, <1>11, <1>12 DEF WellFormed, TestInvariants, r

\* ... and keeps the total weight, whatever is weighed.
LEMMA AdvanceTotal ==
  ASSUME NEW M, NEW p \in OutQueues(M), NEW w \in Weighings(M)
  PROVE  Total(w, AdvanceToNextMessage(p).queue) = Total(w, p.queue)
<1>1. AdvanceToNextMessage(p).queue = Drop(p.queue, LeadingNones(p.queue))
  BY DEF AdvanceToNextMessage, OutQueues
<1>2. p.queue \in Seq(M \cup {None})
  BY QueueFields
<1>3. /\ LeadingNones(p.queue) \in 0 .. Len(p.queue)
      /\ \A i \in 1 .. LeadingNones(p.queue) : p.queue[i] = None
  BY <1>2, LeadingNonesFacts
<1>4. w \in [M \cup {None} -> Nat] /\ w[None] = 0
  BY DEF Weighings
<1>5. \A i \in 1 .. LeadingNones(p.queue) : w[p.queue[i]] = 0
  BY <1>3, <1>4
<1> QED BY <1>1, <1>2, <1>3, <1>4, <1>5, TotalDrop

\* Weighing tells the number of messages.
LiveWeight(M) == [x \in M \cup {None} |-> IF x = None THEN 0 ELSE 1]

\* num_messages, which the code keeps beside the queue, is a total too.
LEMMA LiveCount ==
  ASSUME NEW M, NEW p \in OutQueues(M)
  PROVE  /\ LiveWeight(M) \in Weighings(M)
         /\ Cardinality(Live(p)) = Total(LiveWeight(M), p.queue)
<1> DEFINE w == LiveWeight(M)
           C == {i \in DOMAIN p.queue : w[p.queue[i]] = 1}
           h == [i \in C |-> p.begin + i - 1]
<1>1. w \in [M \cup {None} -> {0, 1}] /\ w[None] = 0 /\ w \in Weighings(M)
  BY DEF LiveWeight, Weighings
<1>2. /\ p.queue \in Seq(M \cup {None}) /\ p.begin \in Nat /\ Len(p.queue) \in Nat
      /\ DOMAIN p.queue = 1 .. Len(p.queue)
  BY QueueFields
<1>3. Cardinality(C) = Total(w, p.queue)
  BY <1>1, <1>2, TotalCounts
<1>4. \A i \in 1 .. Len(p.queue) : w[p.queue[i]] = 1 <=> p.queue[i] # None
  <2> SUFFICES ASSUME NEW i \in 1 .. Len(p.queue) PROVE w[p.queue[i]] = 1 <=> p.queue[i] # None
    OBVIOUS
  <2>1. p.queue[i] \in M \cup {None}
    BY <1>2, ElementOfSeq
  <2> QED BY <2>1 DEF LiveWeight
<1> HIDE DEF w
<1>5. C = {i \in 1 .. Len(p.queue) : p.queue[i] # None}
  BY <1>2, <1>4
<1>6. ASSUME NEW k \in Live(p) PROVE k - p.begin + 1 \in C /\ h[k - p.begin + 1] = k
  <2>1. k \in Indices(p) /\ Item(p, k) # None
    BY DEF Live
  <2>2. k - p.begin + 1 \in 1 .. Len(p.queue) /\ k \in Nat
    BY <2>1, PositionInQueue
  <2>3. k - p.begin + 1 \in C
    BY <2>1, <2>2, <1>5 DEF Item
  <2>4. h[k - p.begin + 1] = p.begin + (k - p.begin + 1) - 1
    BY <2>3
  <2> HIDE DEF h, C
  <2> QED BY <2>2, <2>3, <2>4, <1>2
<1>7. ASSUME NEW i \in C PROVE h[i] \in Live(p) /\ h[i] = p.begin + i - 1 /\ i \in Nat
  <2>1. i \in 1 .. Len(p.queue) /\ p.queue[i] # None
    BY <1>5
  <2>2. h[i] = p.begin + i - 1
    OBVIOUS
  <2>3. p.begin + i - 1 \in Indices(p)
    BY <2>1, <1>2 DEF Indices, QueueEnd
  <2>4. (p.begin + i - 1) - p.begin + 1 = i
    BY <2>1, <1>2
  <2>5. p.begin + i - 1 \in Live(p)
    BY <2>1, <2>3, <2>4 DEF Live, Item
  <2> QED BY <2>1, <2>2, <2>5
<1>8. IsFiniteSet(C)
  <2>1. IsFiniteSet(1 .. Len(p.queue))
    BY <1>2, FS_Interval
  <2>2. C \subseteq 1 .. Len(p.queue)
    BY <1>5
  <2> QED BY <2>1, <2>2, FS_Subset
<1>9. h \in [C -> Live(p)] /\ DOMAIN h = C
  <2>1. \A i \in C : h[i] \in Live(p)
    BY <1>7
  <2> HIDE DEF C
  <2> QED BY <2>1
<1> HIDE DEF h, C
<1>10. \A i, j \in C : h[i] = h[j] => i = j
  BY <1>2, <1>7
<1>11. \A k \in Live(p) : \E i \in C : h[i] = k
  BY <1>6
<1>12. ExistsBijection(C, Live(p))
  <2>1. h \in Bijection(C, Live(p))
    BY <1>9, <1>10, <1>11 DEF Bijection, Injection, Surjection, IsInjective
  <2> QED BY <2>1 DEF ExistsBijection
<1>13. Cardinality(C) = Cardinality(Live(p))
  BY <1>8, <1>12, FS_Bijection
<1> QED BY <1>1, <1>3, <1>13 DEF w

\* A new queue.
LEMMA NewQueueWellFormed ==
  ASSUME NEW M
  PROVE  WellFormed(M, NewOutputQueue)
<1> DEFINE p == NewOutputQueue
<1>1. /\ p.queue = <<>> /\ p.num_slots_reserved = 0 /\ p.begin = 0
      /\ p.deadline_range_ends = <<>> /\ p.timeout_index = 0 /\ p.num_messages = 0
  BY DEF NewOutputQueue
<1>2. p \in OutQueues(M)
  BY DEF NewOutputQueue, OutQueues
<1>3. QueueEnd(p) = 0 /\ Indices(p) = {}
  BY <1>1 DEF QueueEnd, Indices
<1> HIDE DEF p
<1>4. Live(p) = {}
  BY <1>3 DEF Live
<1>5. Cardinality(Live(p)) = 0
  BY <1>4, FS_EmptySet
<1>6. Len(p.deadline_range_ends) = 0
  BY <1>1
<1>7. TestInvariants(p)
  BY <1>1, <1>3, <1>5, <1>6
  DEF TestInvariants, FrontIsMessage, RangesSorted, RangesInQueue,
      NoRequestBeforeTimeoutIndex, MessageCountOk
<1> QED BY <1>1, <1>2, <1>3, <1>7 DEF WellFormed, p

\* Reserving a slot.
LEMMA ReserveWellFormed ==
  ASSUME NEW M, NEW p, WellFormed(M, p)
  PROVE  LET r == ReserveSlot(p)
         IN  /\ WellFormed(M, r)
             /\ r.queue = p.queue
             /\ r.num_slots_reserved = p.num_slots_reserved + 1
<1> DEFINE r == ReserveSlot(p)
<1>1. p \in OutQueues(M) /\ TestInvariants(p) /\ p.timeout_index <= QueueEnd(p)
  BY DEF WellFormed
<1>2. /\ r.queue = p.queue /\ r.begin = p.begin
      /\ r.deadline_range_ends = p.deadline_range_ends
      /\ r.timeout_index = p.timeout_index /\ r.num_messages = p.num_messages
      /\ r.num_slots_reserved = p.num_slots_reserved + 1
      /\ r = [queue |-> r.queue, num_slots_reserved |-> r.num_slots_reserved,
              begin |-> r.begin, deadline_range_ends |-> r.deadline_range_ends,
              timeout_index |-> r.timeout_index, num_messages |-> r.num_messages]
  BY <1>1 DEF ReserveSlot, OutQueues
<1> HIDE DEF r
<1>3. r \in OutQueues(M)
  <2>0. HasFieldTypes(M, p)
    BY <1>1, QueueFields DEF HasFieldTypes
  <2>1. r.num_slots_reserved \in Nat
    BY <2>0, <1>2 DEF HasFieldTypes
  <2>2. HasFieldTypes(M, r)
    BY <2>0, <1>2, <2>1 DEF HasFieldTypes
  <2> QED BY <1>2, <2>2, MakeQueue
<1>4. /\ QueueEnd(r) = QueueEnd(p) /\ Indices(r) = Indices(p)
      /\ \A k : Item(r, k) = Item(p, k)
  BY <1>2 DEF QueueEnd, Indices, Item
<1>5. Live(r) = Live(p)
  BY <1>4 DEF Live
<1>6. TestInvariants(r)
  BY <1>1, <1>2, <1>4, <1>5
  DEF TestInvariants, FrontIsMessage, RangesSorted, RangesInQueue,
      NoRequestBeforeTimeoutIndex, MessageCountOk
<1> QED BY <1>1, <1>2, <1>3, <1>4, <1>6 DEF WellFormed, r

\* Pushing a request.
LEMMA PushRequestWellFormed ==
  ASSUME NEW M, None \notin M, NEW p, WellFormed(M, p), NEW msg \in M, NEW d \in Nat
  PROVE  LET r == PushRequest(p, msg, d)
         IN  /\ WellFormed(M, r)
             /\ r.queue = Append(p.queue, msg)
             /\ r.num_slots_reserved = p.num_slots_reserved
<1> SUFFICES ASSUME NEW q, q = PushRequest(p, msg, d)
             PROVE  /\ WellFormed(M, q)
                    /\ q.queue = Append(p.queue, msg)
                    /\ q.num_slots_reserved = p.num_slots_reserved
  OBVIOUS
<1> DEFINE r  == p.deadline_range_ends
           n  == Len(r)
           r2 == q.deadline_range_ends
<1>1. p \in OutQueues(M) /\ TestInvariants(p) /\ p.timeout_index <= QueueEnd(p)
  BY DEF WellFormed
<1>2. /\ q.queue = Append(p.queue, msg)
      /\ q.begin = p.begin
      /\ q.num_slots_reserved = p.num_slots_reserved
      /\ q.timeout_index = p.timeout_index
      /\ q.num_messages = p.num_messages + 1
      /\ r2 = IF n > 0 /\ r[n].deadline >= d
               THEN [r EXCEPT ![n] = [deadline |-> r[n].deadline, end |-> QueueEnd(p) + 1]]
               ELSE Append(r, [deadline |-> d, end |-> QueueEnd(p) + 1])
      /\ q = [queue |-> q.queue, num_slots_reserved |-> q.num_slots_reserved,
              begin |-> q.begin, deadline_range_ends |-> q.deadline_range_ends,
              timeout_index |-> q.timeout_index, num_messages |-> q.num_messages]
  BY <1>1 DEF PushRequest, OutQueues
<1>3. /\ p.queue \in Seq(M \cup {None}) /\ r \in Seq(Ranges)
      /\ p.begin \in Nat /\ QueueEnd(p) \in Nat /\ n \in Nat
      /\ Len(p.queue) \in Nat /\ p.num_slots_reserved \in Nat
      /\ p.num_messages \in Nat /\ p.timeout_index \in Nat /\ p.begin <= QueueEnd(p)
  BY <1>1, QueueFields
<1>4. \A j \in 1 .. n : r[j].deadline \in Nat /\ r[j].end \in Nat
  BY <1>3, RangeFields
<1>6. \A j \in 1 .. n : /\ r[j].end > p.begin /\ r[j].end > p.timeout_index
                        /\ r[j].end <= QueueEnd(p)
  BY <1>1 DEF TestInvariants, RangesInQueue
<1>7. \A i, j \in 1 .. n : i < j => r[i].deadline < r[j].deadline /\ r[i].end < r[j].end
  BY <1>1 DEF TestInvariants, RangesSorted
\* The last range is that of the new request; the ones before it are old.
<1>8. \E m \in Nat \ {0} :
        /\ r2 \in Seq(Ranges) /\ Len(r2) = m
        /\ r2[m].end = QueueEnd(p) + 1
        /\ \A j \in 1 .. (m - 1) : j \in 1 .. n /\ r2[j] = r[j]
                                   /\ r[j].deadline < r2[m].deadline
  <2>1. CASE n > 0 /\ r[n].deadline >= d
    <3>1. n \in 1 .. n
      BY <2>1, <1>3
    <3>2. [deadline |-> r[n].deadline, end |-> QueueEnd(p) + 1] \in Ranges
      BY <3>1, <1>3, <1>4 DEF Ranges
    <3>3. /\ r2 \in Seq(Ranges) /\ Len(r2) = n
          /\ r2[n] = [deadline |-> r[n].deadline, end |-> QueueEnd(p) + 1]
          /\ \A j \in 1 .. (n - 1) : r2[j] = r[j]
      BY <2>1, <3>2, <1>2, <1>3, ExceptSeq
    <3>4. \A j \in 1 .. (n - 1) : j \in 1 .. n /\ r[j].deadline < r[n].deadline
      BY <2>1, <1>3, <1>7
    <3>5. n \in Nat \ {0}
      BY <2>1, <1>3
    <3>6. r2[n].end = QueueEnd(p) + 1 /\ r2[n].deadline = r[n].deadline
      BY <3>3
    <3> HIDE DEF r2, n
    <3> QED BY <3>3, <3>4, <3>5, <3>6
  <2>2. CASE ~(n > 0 /\ r[n].deadline >= d)
    <3>1. [deadline |-> d, end |-> QueueEnd(p) + 1] \in Ranges
      BY <1>3 DEF Ranges
    <3>2. /\ r2 \in Seq(Ranges) /\ Len(r2) = n + 1
          /\ r2[n + 1] = [deadline |-> d, end |-> QueueEnd(p) + 1]
          /\ \A j \in 1 .. n : r2[j] = r[j]
      BY <2>2, <3>1, <1>2, <1>3, AppendProperties, SMTT(20)
    <3>3. ASSUME NEW j \in 1 .. n PROVE r[j].deadline < d
      <4>1. n \in 1 .. n /\ r[n].deadline < d /\ n > 0
        BY <2>2, <1>3, <1>4, SMTT(20)
      <4>2. j = n \/ r[j].deadline < r[n].deadline
        BY <4>1, <1>3, <1>7
      <4> QED BY <4>1, <4>2, <1>4
    <3>4. (n + 1) - 1 = n /\ n + 1 \in Nat \ {0}
      BY <1>3
    <3>5. r2[n + 1].end = QueueEnd(p) + 1 /\ r2[n + 1].deadline = d
      BY <3>2
    <3> HIDE DEF r2, n
    <3> QED BY <3>2, <3>3, <3>4, <3>5
  <2> QED BY <2>1, <2>2
<1>9. PICK m \in Nat \ {0} :
        /\ r2 \in Seq(Ranges) /\ Len(r2) = m
        /\ r2[m].end = QueueEnd(p) + 1
        /\ \A j \in 1 .. (m - 1) : j \in 1 .. n /\ r2[j] = r[j]
                                   /\ r[j].deadline < r2[m].deadline
  BY <1>8
<1>10. q \in OutQueues(M)
  <2>1. q.queue \in Seq(M \cup {None})
    BY <1>2, <1>3
  <2>2. q.num_messages \in Nat
    BY <1>2, <1>3, SMTT(20)
  <2> HIDE DEF r, n
  <2>3. HasFieldTypes(M, q)
    BY <2>1, <2>2, <1>2, <1>3, <1>9 DEF HasFieldTypes
  <2> QED BY <1>2, <2>3, MakeQueue
<1> HIDE DEF r, n, r2
<1>11. /\ QueueEnd(q) = QueueEnd(p) + 1
       /\ Indices(q) = Indices(p) \cup {QueueEnd(p)}
       /\ \A k \in Indices(p) : Item(q, k) = Item(p, k)
       /\ Cardinality(Live(q)) = Cardinality(Live(p)) + 1
       /\ FrontIsMessage(q)
  BY <1>1, <1>2, <1>10, PushItems DEF TestInvariants
<1>13. RangesSorted(q)
  <2> SUFFICES ASSUME NEW i \in 1 .. m, NEW j \in 1 .. m, i < j
               PROVE  r2[i].deadline < r2[j].deadline /\ r2[i].end < r2[j].end
    BY <1>9 DEF RangesSorted, r2
  <2>1. i \in 1 .. (m - 1)
    BY <1>9
  <2>2. CASE j = m
    <3>1. /\ r2[i] = r[i] /\ r[i].deadline < r2[m].deadline
          /\ r[i].end <= QueueEnd(p) /\ r[i].end \in Nat
      BY <2>1, <1>4, <1>6, <1>9
    <3> QED BY <3>1, <2>2, <1>3, <1>9
  <2>3. CASE j # m
    BY <2>1, <2>3, <1>7, <1>9
  <2> QED BY <2>2, <2>3
<1>14. RangesInQueue(q)
  <2> SUFFICES ASSUME NEW j \in 1 .. m
               PROVE  /\ r2[j].end > p.begin /\ r2[j].end > p.timeout_index
                      /\ r2[j].end <= QueueEnd(p) + 1
    BY <1>2, <1>9, <1>11 DEF RangesInQueue, r2
  <2>1. CASE j = m
    BY <2>1, <1>1, <1>3, <1>9
  <2>2. CASE j # m
    <3>1. j \in 1 .. n /\ r2[j] = r[j]
      BY <2>2, <1>9
    <3> QED BY <3>1, <1>3, <1>4, <1>6
  <2> QED BY <2>1, <2>2
<1>15. NoRequestBeforeTimeoutIndex(q)
  BY <1>1, <1>2, <1>3, <1>11 DEF TestInvariants, NoRequestBeforeTimeoutIndex
<1>16. MessageCountOk(q)
  BY <1>1, <1>2, <1>11 DEF TestInvariants, MessageCountOk
<1>17. q.timeout_index <= QueueEnd(q)
  BY <1>1, <1>2, <1>3, <1>11
<1>18. WellFormed(M, q)
  BY <1>10, <1>11, <1>13, <1>14, <1>15, <1>16, <1>17 DEF WellFormed, TestInvariants
<1> QED BY <1>2, <1>18

\* Pushing a response into its slot.
LEMMA PushResponseWellFormed ==
  ASSUME NEW M, None \notin M, NEW p, WellFormed(M, p), NEW msg \in M,
         p.num_slots_reserved > 0
  PROVE  LET r == PushResponse(p, msg)
         IN  /\ WellFormed(M, r)
             /\ r.queue = Append(p.queue, msg)
             /\ r.num_slots_reserved = p.num_slots_reserved - 1
<1> SUFFICES ASSUME NEW q, q = PushResponse(p, msg)
             PROVE  /\ WellFormed(M, q)
                    /\ q.queue = Append(p.queue, msg)
                    /\ q.num_slots_reserved = p.num_slots_reserved - 1
  OBVIOUS
<1>1. p \in OutQueues(M) /\ TestInvariants(p) /\ p.timeout_index <= QueueEnd(p)
  BY DEF WellFormed
<1>2. /\ q.queue = Append(p.queue, msg) /\ q.begin = p.begin
      /\ q.deadline_range_ends = p.deadline_range_ends
      /\ q.timeout_index = p.timeout_index /\ q.num_messages = p.num_messages + 1
      /\ q.num_slots_reserved = p.num_slots_reserved - 1
      /\ q = [queue |-> q.queue, num_slots_reserved |-> q.num_slots_reserved,
              begin |-> q.begin, deadline_range_ends |-> q.deadline_range_ends,
              timeout_index |-> q.timeout_index, num_messages |-> q.num_messages]
  BY <1>1 DEF PushResponse, OutQueues
<1>0. /\ p.queue \in Seq(M \cup {None}) /\ p.deadline_range_ends \in Seq(Ranges)
      /\ p.begin \in Nat /\ QueueEnd(p) \in Nat
      /\ Len(p.queue) \in Nat /\ p.num_slots_reserved \in Nat
      /\ p.num_messages \in Nat /\ p.timeout_index \in Nat /\ p.begin <= QueueEnd(p)
  BY <1>1, QueueFields
<1>3. q \in OutQueues(M)
  <2>1. q.queue \in Seq(M \cup {None})
    BY <1>0, <1>2
  <2>2. q.num_slots_reserved \in Nat /\ q.num_messages \in Nat
    BY <1>0, <1>2
  <2>4. HasFieldTypes(M, q)
    BY <1>0, <1>2, <2>1, <2>2 DEF HasFieldTypes
  <2> QED BY <1>2, <2>4, MakeQueue
<1>4. /\ QueueEnd(q) = QueueEnd(p) + 1
      /\ Indices(q) = Indices(p) \cup {QueueEnd(p)}
      /\ \A k \in Indices(p) : Item(q, k) = Item(p, k)
      /\ Cardinality(Live(q)) = Cardinality(Live(p)) + 1
      /\ FrontIsMessage(q)
  BY <1>1, <1>2, <1>3, PushItems DEF TestInvariants
<1>6. RangesSorted(q)
  BY <1>1, <1>2 DEF TestInvariants, RangesSorted
<1>7. RangesInQueue(q)
  <2> DEFINE r == p.deadline_range_ends
  <2>1. \A i \in 1 .. Len(r) : r[i].end \in Nat
    BY <1>0, RangeFields
  <2>2. \A i \in 1 .. Len(r) : /\ r[i].end > p.begin /\ r[i].end > p.timeout_index
                               /\ r[i].end <= QueueEnd(p)
    BY <1>1 DEF TestInvariants, RangesInQueue
  <2>3. \A i \in 1 .. Len(r) : r[i].end <= QueueEnd(p) + 1
    BY <2>1, <2>2, <1>0
  <2> QED BY <2>2, <2>3, <1>2, <1>4 DEF RangesInQueue
<1>8. NoRequestBeforeTimeoutIndex(q)
  BY <1>0, <1>1, <1>2, <1>4 DEF TestInvariants, NoRequestBeforeTimeoutIndex
<1>9. MessageCountOk(q)
  BY <1>1, <1>2, <1>4 DEF TestInvariants, MessageCountOk
<1>10. q.timeout_index <= QueueEnd(q)
  BY <1>0, <1>1, <1>2, <1>4
<1>11. WellFormed(M, q)
  BY <1>3, <1>4, <1>6, <1>7, <1>8, <1>9, <1>10 DEF WellFormed, TestInvariants
<1> QED BY <1>2, <1>11

\* A queue that holds messages has one at the front.
LEMMA FrontMessage ==
  ASSUME NEW M, NEW p, WellFormed(M, p), p.num_messages > 0
  PROVE  p.queue # <<>> /\ p.queue[1] \in M /\ Len(p.queue) > 0 /\ p.queue[1] # None
<1>1. p \in OutQueues(M) /\ TestInvariants(p)
  BY DEF WellFormed
<1>2. p.queue \in Seq(M \cup {None}) /\ Len(p.queue) \in Nat /\ p.begin \in Nat
  BY <1>1, QueueFields
<1>3. p.queue # <<>>
  <2> SUFFICES ASSUME p.queue = <<>> PROVE FALSE
    OBVIOUS
  <2>1. Indices(p) = {}
    BY <1>2 DEF Indices, QueueEnd
  <2>2. Live(p) = {}
    BY <2>1 DEF Live
  <2>3. Cardinality(Live(p)) = 0
    BY <2>2, FS_EmptySet
  <2> QED BY <2>3, <1>1 DEF TestInvariants, MessageCountOk
<1>4. Len(p.queue) > 0 /\ 1 \in 1 .. Len(p.queue)
  BY <1>2, <1>3
<1>5. p.queue[1] \in M \cup {None}
  BY <1>2, <1>4, ElementOfSeq
<1> QED BY <1>1, <1>3, <1>4, <1>5 DEF TestInvariants, FrontIsMessage

\* Popping the front message.
LEMMA PopWellFormed ==
  ASSUME NEW M, None \notin M, NEW p, WellFormed(M, p), p.num_messages > 0
  PROVE  LET r == PopOutputQueue(p)
         IN  /\ WellFormed(M, r)
             /\ Len(r.queue) <= Len(p.queue)
             /\ r.num_slots_reserved = p.num_slots_reserved
             /\ \A w \in Weighings(M) : Total(w, p.queue) = w[p.queue[1]] + Total(w, r.queue)
<1> SUFFICES ASSUME NEW q, q = [p EXCEPT !.queue = Tail(@), !.begin = @ + 1,
                                         !.num_messages = @ - 1],
                    NEW r, r = AdvanceToNextMessage(q)
             PROVE  /\ WellFormed(M, r)
                    /\ Len(r.queue) <= Len(p.queue)
                    /\ r.num_slots_reserved = p.num_slots_reserved
                    /\ \A w \in Weighings(M) :
                         Total(w, p.queue) = w[p.queue[1]] + Total(w, r.queue)
  BY DEF PopOutputQueue
<1>1. p \in OutQueues(M) /\ TestInvariants(p) /\ p.timeout_index <= QueueEnd(p)
  BY DEF WellFormed
<1>2. /\ q.queue = Tail(p.queue) /\ q.begin = p.begin + 1
      /\ q.num_messages = p.num_messages - 1
      /\ q.num_slots_reserved = p.num_slots_reserved
      /\ q.timeout_index = p.timeout_index
      /\ q.deadline_range_ends = p.deadline_range_ends
      /\ q = [queue |-> q.queue, num_slots_reserved |-> q.num_slots_reserved,
              begin |-> q.begin, deadline_range_ends |-> q.deadline_range_ends,
              timeout_index |-> q.timeout_index, num_messages |-> q.num_messages]
  BY <1>1 DEF OutQueues
<1>0. /\ p.queue \in Seq(M \cup {None}) /\ p.deadline_range_ends \in Seq(Ranges)
      /\ p.begin \in Nat /\ QueueEnd(p) \in Nat
      /\ Len(p.queue) \in Nat /\ p.num_slots_reserved \in Nat
      /\ p.num_messages \in Nat /\ p.timeout_index \in Nat /\ p.begin <= QueueEnd(p)
  BY <1>1, QueueFields
<1>20. p.queue # <<>> /\ Len(p.queue) > 0 /\ p.queue[1] # None
  BY FrontMessage
<1>3. /\ q.queue \in Seq(M \cup {None})
      /\ Len(q.queue) = Len(p.queue) - 1
      /\ \A i \in 1 .. (Len(p.queue) - 1) : q.queue[i] = p.queue[i + 1]
  BY <1>0, <1>2, <1>20, HeadTailProperties
<1>4. QueueEnd(q) = QueueEnd(p)
  BY <1>0, <1>2, <1>3 DEF QueueEnd
<1>5. Indices(q) = Indices(p) \ {p.begin} /\ p.begin \in Indices(p)
  <2>1. p.begin < QueueEnd(p)
    BY <1>0, <1>20 DEF QueueEnd
  <2> QED BY <2>1, <1>0, <1>2, <1>4 DEF Indices
<1>6. ASSUME NEW k \in Indices(q) PROVE Item(q, k) = Item(p, k)
  <2>1. k \in (p.begin + 1) .. (p.begin + Len(p.queue) - 1)
    <3>1. QueueEnd(q) = p.begin + Len(p.queue)
      BY <1>4 DEF QueueEnd
    <3> QED BY <1>2, <1>0, <3>1 DEF Indices
  <2>2. k - p.begin \in 1 .. (Len(p.queue) - 1) /\ k - q.begin + 1 = k - p.begin
    <3>1. q.begin = p.begin + 1 /\ p.begin \in Nat /\ Len(p.queue) \in Nat
      BY <1>0, <1>2
    <3>2. k \in Int /\ p.begin + 1 <= k /\ k <= p.begin + Len(p.queue) - 1
      BY <2>1, <3>1
    <3>3. k - p.begin \in 1 .. (Len(p.queue) - 1)
      BY <3>1, <3>2
    <3> QED BY <3>1, <3>2, <3>3
  <2> QED BY <2>2, <1>3 DEF Item
<1>7. Item(p, p.begin) # None
  <2>1. p.begin - p.begin + 1 = 1
    BY <1>0
  <2> QED BY <2>1, <1>20 DEF Item
<1>8. Live(q) = Live(p) \ {p.begin} /\ p.begin \in Live(p)
  BY <1>5, <1>6, <1>7 DEF Live
<1>9. Cardinality(Live(q)) = Cardinality(Live(p)) - 1
  BY <1>1, <1>8, LiveIsFinite, FS_RemoveElement
<1>10. q.num_messages = Cardinality(Live(q))
  BY <1>1, <1>2, <1>9 DEF TestInvariants, MessageCountOk
<1>11. q \in OutQueues(M)
  <2>1. q.begin \in Nat /\ q.num_messages \in Nat
    BY <1>0, <1>2, SMTT(20)
  <2>2. HasFieldTypes(M, q)
    BY <2>1, <1>0, <1>2, <1>3 DEF HasFieldTypes
  <2> QED BY <1>2, <2>2, MakeQueue
<1>12. Cleanable(q)
  <2>1. RangesSorted(q)
    BY <1>1, <1>2 DEF TestInvariants, RangesSorted
  <2>2. \A i \in 1 .. Len(q.deadline_range_ends) : q.deadline_range_ends[i].end <= QueueEnd(q)
    BY <1>1, <1>2, <1>4 DEF TestInvariants, RangesInQueue
  <2>3. NoRequestBeforeTimeoutIndex(q)
    BY <1>1, <1>2, <1>5, <1>6 DEF TestInvariants, NoRequestBeforeTimeoutIndex
  <2> QED BY <2>1, <2>2, <2>3, <1>1, <1>2, <1>4, <1>10 DEF Cleanable, MessageCountOk
<1>13. WellFormed(M, r)
  BY <1>11, <1>12, AdvanceCleans
<1>14. Len(r.queue) <= Len(q.queue) /\ r.num_slots_reserved = q.num_slots_reserved
  BY <1>11, AdvanceKeepsItems
<1>15. ASSUME NEW w \in Weighings(M)
       PROVE  Total(w, p.queue) = w[p.queue[1]] + Total(w, r.queue)
  <2>1. w \in [M \cup {None} -> Nat]
    BY DEF Weighings
  <2>2. Total(w, p.queue) = w[p.queue[1]] + Total(w, Tail(p.queue))
    BY <2>1, <1>0, <1>20, TotalTail
  <2>3. Total(w, r.queue) = Total(w, q.queue)
    BY <1>11, AdvanceTotal
  <2> QED BY <2>2, <2>3, <1>2
<1>16. Len(r.queue) <= Len(p.queue)
  <2>1. Len(r.queue) \in Nat
    BY <1>13, QueueFields DEF WellFormed
  <2> QED BY <2>1, <1>0, <1>3, <1>14
<1> QED BY <1>2, <1>13, <1>14, <1>15, <1>16

\* The items of p with the first j of those at the indices g turned into tombstones.
Marked(p, g, j) ==
  [i \in 1 .. Len(p.queue) |-> IF i <= j /\ p.begin + i - 1 \in g THEN None ELSE p.queue[i]]

LEMMA MarkedType ==
  ASSUME NEW M, NEW p \in OutQueues(M), NEW g, NEW j
  PROVE  Marked(p, g, j) \in Seq(M \cup {None}) /\ Len(Marked(p, g, j)) = Len(p.queue)
<1>0. p.queue \in Seq(M \cup {None}) /\ Len(p.queue) \in Nat /\ p.begin \in Nat
  BY QueueFields
<1> QED BY <1>0 DEF Marked

\* Marking item by item.
MarkedStep(M, p, g, j) ==
  IF p.begin + (j + 1) - 1 \in g
    THEN \A w \in Weighings(M) : Total(w, Marked(p, g, j))
                                   = w[p.queue[j + 1]] + Total(w, Marked(p, g, j + 1))
    ELSE Marked(p, g, j + 1) = Marked(p, g, j)

LEMMA MarkedFacts ==
  ASSUME NEW M, NEW p \in OutQueues(M), NEW g
  PROVE  /\ Marked(p, g, 0) = p.queue
         /\ \A j \in 0 .. (Len(p.queue) - 1) : MarkedStep(M, p, g, j)
<1>0. p.queue \in Seq(M \cup {None}) /\ Len(p.queue) \in Nat /\ p.begin \in Nat
  BY QueueFields
<1>1. ASSUME NEW j
      PROVE  Marked(p, g, j) \in Seq(M \cup {None}) /\ Len(Marked(p, g, j)) = Len(p.queue)
  BY MarkedType
<1>2. Marked(p, g, 0) = p.queue
  BY <1>0 DEF Marked
<1>3. ASSUME NEW j \in 0 .. (Len(p.queue) - 1), p.begin + (j + 1) - 1 \notin g
      PROVE  Marked(p, g, j + 1) = Marked(p, g, j)
  <2>1. ASSUME NEW i \in 1 .. Len(p.queue)
        PROVE  (IF i <= j + 1 /\ p.begin + i - 1 \in g THEN None ELSE p.queue[i])
                 = (IF i <= j /\ p.begin + i - 1 \in g THEN None ELSE p.queue[i])
    <3>1. CASE i = j + 1
      BY <3>1, <1>3
    <3>2. CASE i # j + 1
      BY <3>2, <1>0
    <3> QED BY <3>1, <3>2
  <2> QED BY <2>1 DEF Marked
<1>4. ASSUME NEW j \in 0 .. (Len(p.queue) - 1), p.begin + (j + 1) - 1 \in g,
             NEW w \in Weighings(M)
      PROVE  Total(w, Marked(p, g, j)) = w[p.queue[j + 1]] + Total(w, Marked(p, g, j + 1))
  <2> SUFFICES ASSUME NEW s, s = Marked(p, g, j), NEW t, t = Marked(p, g, j + 1)
               PROVE  Total(w, s) = w[p.queue[j + 1]] + Total(w, t)
    OBVIOUS
  <2>1. w \in [M \cup {None} -> Nat] /\ w[None] = 0
    BY DEF Weighings
  <2>2. s \in Seq(M \cup {None}) /\ t \in Seq(M \cup {None}) /\ Len(t) = Len(s)
        /\ Len(s) = Len(p.queue)
    BY <1>1
  <2>3. j + 1 \in 1 .. Len(s)
    BY <1>0, <2>2
  <2>4. s[j + 1] = p.queue[j + 1] /\ t[j + 1] = None
    <3>1. j + 1 \in 1 .. Len(p.queue) /\ ~(j + 1 <= j) /\ j + 1 <= j + 1
      BY <1>0
    <3> QED BY <3>1, <1>4 DEF Marked
  <2>5. ASSUME NEW i \in 1 .. Len(s), i # j + 1 PROVE t[i] = s[i]
    <3>1. i <= j + 1 <=> i <= j
      BY <2>5
    <3>2. i \in 1 .. Len(p.queue)
      BY <2>2
    <3> QED BY <3>1, <3>2 DEF Marked
  <2>6. Total(w, t) = Total(w, s) + w[t[j + 1]] - w[s[j + 1]]
    <3> SUFFICES ASSUME NEW k \in 1 .. Len(s), k = j + 1
                 PROVE  Total(w, t) = Total(w, s) + w[t[k]] - w[s[k]]
      BY <2>3
    <3>1. SameExcept(s, t, k)
      BY <2>5 DEF SameExcept
    <3>2. s \in Seq(M \cup {None}) /\ t \in Seq(M \cup {None}) /\ Len(t) = Len(s)
          /\ w \in [M \cup {None} -> Nat]
      BY <2>1, <2>2
    <3> QED BY <3>1, <3>2, TotalReplace
  <2>7. Total(w, s) \in Nat /\ w[s[j + 1]] \in Nat
    <3>1. s[j + 1] \in M \cup {None}
      BY <2>2, <2>3, ElementOfSeq
    <3> QED BY <3>1, <2>1, <2>2, TotalType
  <2> QED BY <2>1, <2>4, <2>6, <2>7
<1>5. ASSUME NEW j \in 0 .. (Len(p.queue) - 1)
      PROVE  MarkedStep(M, p, g, j)
  <2>1. CASE p.begin + (j + 1) - 1 \in g
    BY <1>4, <2>1, Zenon DEF MarkedStep
  <2>2. CASE p.begin + (j + 1) - 1 \notin g
    BY <1>3, <2>2, Zenon DEF MarkedStep
  <2> QED BY <2>1, <2>2
<1> QED BY <1>2, <1>5, Zenon

\* Timing requests out turns requests into tombstones and removes those at the front.
LEMMA TimeOutWellFormed ==
  ASSUME NEW M, NEW p, WellFormed(M, p), NEW time \in Nat
  PROVE  LET r == TimeOutRequests(p, time)
             g == TimedOut(p, time)
         IN  /\ WellFormed(M, r)
             /\ Len(r.queue) <= Len(p.queue)
             /\ r.num_slots_reserved = p.num_slots_reserved
             /\ \A k \in g : k \in Indices(p) /\ IsRequest(Item(p, k))
             /\ \A w \in Weighings(M) :
                  Total(w, r.queue) = Total(w, Marked(p, g, Len(p.queue)))
<1> SUFFICES ASSUME NEW q, q = TimeOutRequests(p, time),
                    NEW gone, gone = TimedOut(p, time)
             PROVE  /\ WellFormed(M, q)
                    /\ Len(q.queue) <= Len(p.queue)
                    /\ q.num_slots_reserved = p.num_slots_reserved
                    /\ \A k \in gone : k \in Indices(p) /\ IsRequest(Item(p, k))
                    /\ \A w \in Weighings(M) :
                         Total(w, q.queue) = Total(w, Marked(p, gone, Len(p.queue)))
  OBVIOUS
<1>1. p \in OutQueues(M) /\ TestInvariants(p) /\ p.timeout_index <= QueueEnd(p)
  BY DEF WellFormed
<1> DEFINE r    == p.deadline_range_ends
           n    == ExpiredRanges(r, time)
           from == IF p.timeout_index > p.begin THEN p.timeout_index ELSE p.begin
<1>2. /\ r \in Seq(Ranges) /\ Len(r) \in Nat /\ p.begin \in Nat /\ p.timeout_index \in Nat
      /\ QueueEnd(p) \in Nat /\ from \in Nat /\ p.queue \in Seq(M \cup {None})
      /\ Len(p.queue) \in Nat /\ p.num_slots_reserved \in Nat
  BY <1>1, QueueFields
<1>3. n \in 0 .. Len(r)
  <2> HIDE DEF r
  <2> QED BY <1>2, ExpiredRangesFacts
<1>4. \A j \in 1 .. Len(r) : r[j].deadline \in Nat /\ r[j].end \in Nat
  BY <1>2, RangeFields
<1>5. \A i, j \in 1 .. Len(r) : i < j => r[i].deadline < r[j].deadline /\ r[i].end < r[j].end
  BY <1>1 DEF TestInvariants, RangesSorted
<1>6. \A j \in 1 .. Len(r) : /\ r[j].end > p.begin /\ r[j].end > p.timeout_index
                             /\ r[j].end <= QueueEnd(p)
  BY <1>1 DEF TestInvariants, RangesInQueue
<1>10. CASE n = 0
  <2>1. q = p
    BY <1>10 DEF TimeOutRequests
  <2>2. gone = {}
    BY <1>10 DEF TimedOut
  <2>3. Marked(p, gone, Len(p.queue)) = p.queue
    BY <1>2, <2>2 DEF Marked
  <2> QED BY <2>1, <2>2, <2>3, <1>2
<1>11. CASE n # 0
  <2> SUFFICES ASSUME NEW s, s = [p EXCEPT !.queue = Marked(p, gone, Len(p.queue)),
                                           !.deadline_range_ends = Drop(r, n),
                                           !.timeout_index = r[n].end,
                                           !.num_messages = p.num_messages - Cardinality(gone)],
                      q = AdvanceToNextMessage(s)
               PROVE  /\ WellFormed(M, q)
                      /\ Len(q.queue) <= Len(p.queue)
                      /\ q.num_slots_reserved = p.num_slots_reserved
                      /\ \A k \in gone : k \in Indices(p) /\ IsRequest(Item(p, k))
                      /\ \A w \in Weighings(M) :
                           Total(w, q.queue) = Total(w, Marked(p, gone, Len(p.queue)))
    <3>1. Marked(p, gone, Len(p.queue))
            = [i \in 1 .. Len(p.queue) |-> IF p.begin + i - 1 \in gone THEN None ELSE p.queue[i]]
      <4>1. \A i \in 1 .. Len(p.queue) : i <= Len(p.queue)
        BY <1>2
      <4> QED BY <4>1, Zenon DEF Marked
    <3>2. q = AdvanceToNextMessage(
                [p EXCEPT !.queue = [i \in 1 .. Len(p.queue) |->
                                       IF p.begin + i - 1 \in gone THEN None ELSE p.queue[i]],
                          !.deadline_range_ends = Drop(r, n),
                          !.timeout_index = r[n].end,
                          !.num_messages = p.num_messages - Cardinality(gone)])
      BY <1>11 DEF TimeOutRequests
    <3> HIDE DEF n, r
    <3> QED BY <3>1, <3>2
  <2>2. n \in 1 .. Len(r) /\ r[n].end \in Nat
    <3> HIDE DEF n
    <3> QED BY <1>2, <1>3, <1>4, <1>11
  <2>3. gone = {k \in from .. (r[n].end - 1) : IsRequest(Item(p, k))}
    BY <1>11 DEF TimedOut
  <2> HIDE DEF n
  <2>4. \A k \in gone : k \in Indices(p) /\ IsRequest(Item(p, k)) /\ k < r[n].end
    BY <2>2, <2>3, <1>2, <1>6, SMTT(20) DEF Indices
  <2>5. \A k \in Indices(p) : IsRequest(Item(p, k)) /\ k < r[n].end => k \in gone
    <3> SUFFICES ASSUME NEW k \in Indices(p), IsRequest(Item(p, k)), k < r[n].end
                 PROVE  k \in gone
      OBVIOUS
    <3>1. k \in Nat /\ p.begin <= k
      BY <1>1, PositionInQueue
    <3>2. ~(k < p.timeout_index)
      BY <1>1 DEF TestInvariants, NoRequestBeforeTimeoutIndex
    <3> QED BY <3>1, <3>2, <2>2, <2>3, <1>2
  <2> DEFINE marked == Marked(p, gone, Len(p.queue))
  <2>6. /\ s.queue = marked
        /\ s.begin = p.begin
        /\ s.num_slots_reserved = p.num_slots_reserved
        /\ s.deadline_range_ends = Drop(r, n)
        /\ s.timeout_index = r[n].end
        /\ s.num_messages = p.num_messages - Cardinality(gone)
        /\ s = [queue |-> s.queue, num_slots_reserved |-> s.num_slots_reserved,
                begin |-> s.begin, deadline_range_ends |-> s.deadline_range_ends,
                timeout_index |-> s.timeout_index, num_messages |-> s.num_messages]
    <3> HIDE DEF marked, r
    <3> SUFFICES ASSUME NEW a, a = marked, NEW b, b = Drop(r, n), NEW c, c = r[n].end,
                        NEW d, d = p.num_messages - Cardinality(gone)
                 PROVE  /\ s.queue = a
                        /\ s.begin = p.begin
                        /\ s.num_slots_reserved = p.num_slots_reserved
                        /\ s.deadline_range_ends = b
                        /\ s.timeout_index = c
                        /\ s.num_messages = d
                        /\ s = [queue |-> s.queue, num_slots_reserved |-> s.num_slots_reserved,
                                begin |-> s.begin, deadline_range_ends |-> s.deadline_range_ends,
                                timeout_index |-> s.timeout_index,
                                num_messages |-> s.num_messages]
      BY Zenon
    <3>1. s = [p EXCEPT !.queue = a, !.deadline_range_ends = b, !.timeout_index = c,
                        !.num_messages = d]
      BY DEF marked
    <3> QED BY <1>1, <3>1 DEF OutQueues
  <2>7. marked \in Seq(M \cup {None}) /\ Len(marked) = Len(p.queue)
    BY <1>1, MarkedType
  <2>8. QueueEnd(s) = QueueEnd(p) /\ Indices(s) = Indices(p)
    BY <2>6, <2>7 DEF QueueEnd, Indices
  <2>9. ASSUME NEW k \in Indices(p)
        PROVE  Item(s, k) = IF k \in gone THEN None ELSE Item(p, k)
    <3>1. k - p.begin + 1 \in 1 .. Len(p.queue) /\ k \in Nat
      BY <1>1, PositionInQueue
    <3>2. p.begin + (k - p.begin + 1) - 1 = k /\ k - p.begin + 1 <= Len(p.queue)
      BY <3>1, <1>2
    <3>3. marked[k - p.begin + 1] = IF k \in gone THEN None ELSE p.queue[k - p.begin + 1]
      BY <3>1, <3>2 DEF Marked
    <3> QED BY <2>6, <3>3 DEF Item
  <2> HIDE DEF marked
  <2>10. Live(s) = Live(p) \ gone /\ gone \subseteq Live(p)
    BY <2>4, <2>8, <2>9 DEF Live, IsRequest
  <2>11. s.num_messages = Cardinality(Live(s)) /\ s.num_messages \in Nat
    <3>1. IsFiniteSet(Live(p)) /\ Cardinality(Live(p)) \in Nat
      BY <1>1, LiveIsFinite
    <3>2. IsFiniteSet(gone) /\ Cardinality(gone) \in Nat
      BY <3>1, <2>10, FS_Subset, FS_CardinalityType
    <3>3. /\ IsFiniteSet(Live(s))
          /\ Cardinality(Live(s)) = Cardinality(Live(p)) - Cardinality(Live(p) \cap gone)
      BY <3>1, <3>2, <2>10, FS_Difference
    <3>4. Live(p) \cap gone = gone
      BY <2>10
    <3>5. p.num_messages = Cardinality(Live(p))
      BY <1>1 DEF TestInvariants, MessageCountOk
    <3>6. Cardinality(Live(s)) \in Nat
      BY <3>3, FS_CardinalityType
    <3>7. s.num_messages = p.num_messages - Cardinality(gone)
      BY <2>6
    <3> QED BY <3>3, <3>4, <3>5, <3>6, <3>7
  <2>12. /\ Drop(r, n) \in Seq(Ranges)
         /\ Len(Drop(r, n)) = Len(r) - n
         /\ \A j \in 1 .. Len(Drop(r, n)) : /\ n + j \in 1 .. Len(r)
                                            /\ Drop(r, n)[j] = r[n + j]
    <3> HIDE DEF r
    <3>1. /\ Drop(r, n) \in Seq(Ranges)
          /\ Len(Drop(r, n)) = Len(r) - n
          /\ \A j \in 1 .. (Len(r) - n) : Drop(r, n)[j] = r[n + j]
      BY <1>2, <1>3, DropFacts
    <3> QED BY <3>1, <1>2, <1>3
  <2>13. s \in OutQueues(M)
    <3>1. HasFieldTypes(M, s)
      BY <1>2, <2>2, <2>6, <2>7, <2>11, <2>12 DEF HasFieldTypes
    <3> QED BY <2>6, <3>1, MakeQueue
  <2> HIDE DEF r
  <2>14. Cleanable(s)
    <3>1. RangesSorted(s)
      <4> SUFFICES ASSUME NEW i \in 1 .. Len(Drop(r, n)), NEW j \in 1 .. Len(Drop(r, n)), i < j
                   PROVE  /\ Drop(r, n)[i].deadline < Drop(r, n)[j].deadline
                          /\ Drop(r, n)[i].end < Drop(r, n)[j].end
        BY <2>6 DEF RangesSorted
      <4>1. n + i < n + j
        BY <2>2, <1>2
      <4> QED BY <4>1, <2>12, <1>5
    <3>2. \A i \in 1 .. Len(s.deadline_range_ends) :
            s.deadline_range_ends[i].end <= QueueEnd(s)
      BY <2>6, <2>8, <2>12, <1>6
    <3>3. NoRequestBeforeTimeoutIndex(s)
      BY <2>5, <2>6, <2>8, <2>9 DEF NoRequestBeforeTimeoutIndex, IsRequest
    <3>4. s.timeout_index <= QueueEnd(s)
      BY <2>2, <2>6, <2>8, <1>6
    <3> QED BY <3>1, <3>2, <3>3, <3>4, <2>11 DEF Cleanable, MessageCountOk
  <2>15. WellFormed(M, q)
    BY <2>13, <2>14, AdvanceCleans
  <2>16. Len(q.queue) <= Len(s.queue) /\ q.num_slots_reserved = s.num_slots_reserved
    BY <2>13, AdvanceKeepsItems, ZenonT(40)
  <2>17. \A w \in Weighings(M) : Total(w, q.queue) = Total(w, s.queue)
    BY <2>13, AdvanceTotal, ZenonT(40)
  <2> QED BY <2>4, <2>6, <2>7, <2>15, <2>16, <2>17 DEF marked
<1> QED BY <1>10, <1>11

\* Decoding what was encoded changes nothing.
LEMMA ReloadSame ==
  ASSUME NEW M, NEW p, WellFormed(M, p)
  PROVE  Reload(p) = p
BY DEF WellFormed, OutQueues, TestInvariants, MessageCountOk, Reload
=============================================================================

------------------------------ MODULE SumTheorems ------------------------------
(* Induction over the natural numbers, and sums of integers over a finite set.    *)
EXTENDS Integers, Functions, FiniteSetTheorems, WellFoundedInduction, TLAPS

\* The least of a set of numbers.
LEMMA Least ==
    ASSUME NEW S \in SUBSET Nat, S # {}
    PROVE  \E x \in S : \A y \in S : x <= y
<1>1. IsWellFoundedOn(OpToRel(<, Nat), Nat)
  BY NatLessThanWellFounded
<1>2. PICK x \in S : \A y \in S : ~(<<y, x>> \in OpToRel(<, Nat))
  BY <1>1, WFMin
<1>3. \A y \in Nat : <<y, x>> \in OpToRel(<, Nat) <=> y < x
  BY DEF OpToRel
<1>4. \A y \in S : ~(y < x)
  BY <1>2, <1>3, Zenon
<1>5. \A y \in S : x <= y
  BY <1>4
<1>6. QED
  BY <1>5

\* A set of numbers that has zero, and the successor of each it has, has them all.
LEMMA Induction ==
    ASSUME NEW S, 0 \in S, \A n \in Nat : n \in S => n + 1 \in S
    PROVE  \A n \in Nat : n \in S
<1> SUFFICES ASSUME Nat \ S # {} PROVE FALSE
  OBVIOUS
<1>1. PICK x \in Nat \ S : \A y \in Nat \ S : x <= y
  BY Least
<1>2. x - 1 \in Nat /\ x - 1 \in S
  BY <1>1
<1>3. QED
  BY <1>1, <1>2

-----------------------------------------------------------------------------
Total(g) == FoldFunction(LAMBDA x, y : x + y, 0, g)

\* The function the fold is computed by, which takes the elements in some order.
Pick(s) == CHOOSE x \in s : TRUE
Adding(g, f) == [s \in SUBSET DOMAIN g |-> IF s = {} THEN 0 ELSE g[Pick(s)] + f[s \ {Pick(s)}]]
Sums(g) == CHOOSE f : f = Adding(g, f)

LEMMA TotalIs == \A g : Total(g) = Sums(g)[DOMAIN g]
BY DEF Total, FoldFunction, FoldFunctionOnSet, MapThenFoldSet, Sums, Adding, Pick

LEMMA PickIn == \A s : s # {} => Pick(s) \in s
BY Zenon DEF Pick

LEMMA StepZero == \A g, f : Adding(g, f)[{}] = 0
BY DEF Adding

LEMMA StepType ==
    ASSUME NEW D, NEW g \in [D -> Int], NEW f \in [SUBSET D -> Int]
    PROVE  Adding(g, f) \in [SUBSET D -> Int]
<1>1. DOMAIN g = D
  OBVIOUS
<1>2. ASSUME NEW s \in SUBSET D, s # {}
      PROVE  g[Pick(s)] + f[s \ {Pick(s)}] \in Int
  <2>1. g[Pick(s)] \in Int /\ f[s \ {Pick(s)}] \in Int
    BY <1>2, PickIn
  <2>2. QED
    BY <2>1
<1>3. QED
  BY <1>1, <1>2 DEF Adding

\* What is left when one is taken.
LEMMA TakeOne ==
    ASSUME NEW s, IsFiniteSet(s), NEW n \in Nat, Cardinality(s) = n + 1
    PROVE  s # {} /\ Pick(s) \in s /\ Cardinality(s \ {Pick(s)}) = n
<1>1. s # {}
  BY FS_EmptySet
<1>2. Pick(s) \in s
  BY <1>1, PickIn
<1>3. QED
  BY <1>1, <1>2, FS_RemoveElement

\* Such a function exists: it is built up from the smaller sets to the larger.
LEMMA StepsMeet ==
    ASSUME NEW D, IsFiniteSet(D), NEW g \in [D -> Int]
    PROVE  \E f : f = Adding(g, f)
<1> DEFINE Upto(f, n) == \A s \in SUBSET D : Cardinality(s) <= n => f[s] = Adding(g, f)[s]
           Good == {n \in Nat : \E f \in [SUBSET D -> Int] : Upto(f, n)}
<1>1. \A s \in SUBSET D : IsFiniteSet(s) /\ Cardinality(s) \in Nat
  BY FS_Subset, FS_CardinalityType
<1>2. 0 \in Good
  <2> DEFINE zero == [s \in SUBSET D |-> 0]
  <2>1. zero \in [SUBSET D -> Int] /\ zero[{}] = 0
    OBVIOUS
  <2> HIDE DEF zero
  <2>2. ASSUME NEW s \in SUBSET D, Cardinality(s) <= 0 PROVE zero[s] = Adding(g, zero)[s]
    <3>1. s = {}
      BY <1>1, <2>2, FS_EmptySet
    <3>2. QED
      BY <2>1, <3>1, StepZero
  <2>3. QED
    BY <2>1, <2>2
<1>3. ASSUME NEW n \in Nat, n \in Good PROVE n + 1 \in Good
  <2>1. PICK f \in [SUBSET D -> Int] : Upto(f, n)
    BY <1>3
  <2>2. PICK h \in [SUBSET D -> Int] : h = Adding(g, f)
    BY StepType
  <2>3. ASSUME NEW s \in SUBSET D, Cardinality(s) <= n + 1 PROVE h[s] = Adding(g, h)[s]
    <3>1. CASE s = {}
      <4>1. h[s] = 0 /\ Adding(g, h)[s] = 0
        BY <2>2, <3>1, StepZero
      <4>2. QED
        BY <4>1
    <3>2. CASE s # {}
      <4> DEFINE t == s \ {Pick(s)}
      <4>1. t \in SUBSET D /\ Cardinality(t) <= n
        <5>1. Cardinality(t) = Cardinality(s) - 1
          <6>1. Pick(s) \in s
            BY <3>2, PickIn
          <6>2. QED
            BY <1>1, <6>1, FS_RemoveElement
        <5>2. QED
          BY <1>1, <2>3, <5>1
      <4>2. h[t] = f[t]
        BY <2>1, <2>2, <4>1
      <4>3. h[s] = g[Pick(s)] + f[t]
        BY <2>2, <3>2 DEF Adding
      <4>4. Adding(g, h)[s] = g[Pick(s)] + h[t]
        BY <3>2 DEF Adding
      <4>5. QED
        BY <4>2, <4>3, <4>4
    <3>3. QED
      BY <3>1, <3>2
  <2>4. QED
    BY <2>3
<1> HIDE DEF Good
<1>4. Cardinality(D) \in Good
  BY <1>1, <1>2, <1>3, Induction
<1> USE DEF Good
<1>5. PICK f \in [SUBSET D -> Int] : Upto(f, Cardinality(D))
  BY <1>4
<1>6. \A s \in SUBSET D : f[s] = Adding(g, f)[s]
  BY <1>5, FS_Subset
<1>7. DOMAIN f = SUBSET D /\ DOMAIN Adding(g, f) = SUBSET D
  BY DEF Adding
<1>8. f = Adding(g, f)
  <2>1. Adding(g, f) = [s \in SUBSET D |-> Adding(g, f)[s]] /\ f = [s \in SUBSET D |-> f[s]]
    BY <1>7 DEF Adding
  <2>2. QED
    BY <1>6, <2>1
<1>9. QED
  BY <1>8

\* What that function does, and that it is one of integers.
SumsUp(g, f, D) ==
    /\ f \in [SUBSET D -> Int]
    /\ f[{}] = 0
    /\ \A s \in SUBSET D : s # {} => f[s] = g[Pick(s)] + f[s \ {Pick(s)}]

LEMMA SumsAre ==
    ASSUME NEW D, IsFiniteSet(D), NEW g \in [D -> Int]
    PROVE  SumsUp(g, Sums(g), D)
<1>1. PICK f : f = Sums(g) /\ f = Adding(g, f)
  BY StepsMeet, Zenon DEF Sums
<1>2. /\ f[{}] = 0
      /\ \A s \in SUBSET D : s # {} => f[s] = g[Pick(s)] + f[s \ {Pick(s)}]
  <2>1. \A s : f[s] = Adding(g, f)[s]
    BY <1>1
  <2>2. f[{}] = 0
    BY <2>1, StepZero
  <2>3. ASSUME NEW s \in SUBSET D, s # {} PROVE f[s] = g[Pick(s)] + f[s \ {Pick(s)}]
    <3>1. Adding(g, f)[s] = g[Pick(s)] + f[s \ {Pick(s)}]
      BY <2>3 DEF Adding
    <3>2. QED
      BY <2>1, <3>1
  <2>4. QED
    BY <2>2, <2>3
<1> DEFINE Good == {n \in Nat : \A s \in SUBSET D : Cardinality(s) = n => f[s] \in Int}
<1>3. \A s \in SUBSET D : IsFiniteSet(s) /\ Cardinality(s) \in Nat
  BY FS_Subset, FS_CardinalityType
<1>4. 0 \in Good
  <2>1. \A s \in SUBSET D : Cardinality(s) = 0 => s = {}
    BY <1>3, FS_EmptySet
  <2>2. f[{}] \in Int
    BY <1>2
  <2>3. QED
    BY <2>1, <2>2
<1>5. ASSUME NEW n \in Nat, n \in Good PROVE n + 1 \in Good
  <2> SUFFICES ASSUME NEW s \in SUBSET D, Cardinality(s) = n + 1 PROVE f[s] \in Int
    OBVIOUS
  <2> DEFINE t == s \ {Pick(s)}
  <2>1. s # {} /\ Pick(s) \in s /\ Cardinality(t) = n
    BY <1>3, TakeOne
  <2>2. t \in SUBSET D /\ Pick(s) \in D
    BY <2>1
  <2>3. f[s] = g[Pick(s)] + f[t] /\ f[t] \in Int /\ g[Pick(s)] \in Int
    BY <1>2, <1>5, <2>1, <2>2
  <2>4. QED
    BY <2>3
<1>6. \A s \in SUBSET D : f[s] \in Int
  <2> HIDE DEF Good
  <2>1. \A n \in Nat : n \in Good
    BY <1>4, <1>5, Induction
  <2> USE DEF Good
  <2>2. QED
    BY <1>3, <2>1
<1>7. f \in [SUBSET D -> Int]
  <2>1. f = [s \in SUBSET D |-> Adding(g, f)[s]] /\ Adding(g, f) = f
    BY <1>1 DEF Adding
  <2>2. f = [s \in SUBSET D |-> f[s]]
    BY <2>1
  <2>3. QED
    BY <1>6, <2>2
<1>8. SumsUp(g, f, D)
  BY <1>2, <1>7 DEF SumsUp
<1>9. QED
  BY <1>1, <1>8

\* The order does not matter.
LEMMA AnyOrder ==
    ASSUME NEW D, IsFiniteSet(D), NEW g \in [D -> Int], NEW f, SumsUp(g, f, D)
    PROVE  \A s \in SUBSET D : \A y \in s : f[s] = g[y] + f[s \ {y}]
<1> DEFINE Good == {n \in Nat : \A s \in SUBSET D : Cardinality(s) = n =>
                                    \A y \in s : f[s] = g[y] + f[s \ {y}]}
<1>1. \A s \in SUBSET D : IsFiniteSet(s) /\ Cardinality(s) \in Nat
  BY FS_Subset, FS_CardinalityType
<1>2. /\ f \in [SUBSET D -> Int]
      /\ \A s \in SUBSET D : s # {} => f[s] = g[Pick(s)] + f[s \ {Pick(s)}]
  BY DEF SumsUp
<1>3. 0 \in Good
  BY <1>1, FS_EmptySet
<1>4. ASSUME NEW n \in Nat, n \in Good PROVE n + 1 \in Good
  <2> SUFFICES ASSUME NEW s \in SUBSET D, Cardinality(s) = n + 1, NEW y \in s
               PROVE  f[s] = g[y] + f[s \ {y}]
    OBVIOUS
  <2>1. PICK x \in s : f[s] = g[x] + f[s \ {x}]
    <3>1. Pick(s) \in s /\ s # {}
      BY PickIn
    <3>2. f[s] = g[Pick(s)] + f[s \ {Pick(s)}]
      BY <1>2, <3>1
    <3>3. QED
      BY <3>1, <3>2
  <2>2. CASE x = y
    BY <2>1, <2>2
  <2>3. CASE x # y
    <3>1. Cardinality(s \ {x}) = n /\ Cardinality(s \ {y}) = n
      <4>1. IsFiniteSet(s)
        BY <1>1
      <4>2. /\ Cardinality(s \ {x}) = Cardinality(s) - 1
            /\ Cardinality(s \ {y}) = Cardinality(s) - 1
        BY <4>1, FS_RemoveElement
      <4>3. QED
        BY <4>2
    <3>2. y \in s \ {x} /\ x \in s \ {y} /\ (s \ {x}) \ {y} = (s \ {y}) \ {x}
      BY <2>1, <2>3
    <3>3. f[s \ {x}] = g[y] + f[(s \ {x}) \ {y}] /\ f[s \ {y}] = g[x] + f[(s \ {y}) \ {x}]
      BY <1>4, <3>1, <3>2
    <3>4. g[x] \in Int /\ g[y] \in Int /\ f[(s \ {x}) \ {y}] \in Int
      BY <1>2, <2>1
    <3>5. f[s] = g[x] + (g[y] + f[(s \ {x}) \ {y}])
      BY <2>1, <3>3
    <3>6. f[s \ {y}] = g[x] + f[(s \ {x}) \ {y}]
      BY <3>2, <3>3
    <3>7. QED
      BY <3>4, <3>5, <3>6
  <2>4. QED
    BY <2>2, <2>3
<1>5. \A n \in Nat : n \in Good
  <2> HIDE DEF Good
  <2>1. QED
    BY <1>3, <1>4, Induction
<1>6. QED
  BY <1>1, <1>5

\* The sum over a set depends on the values there only.
LEMMA SameSums ==
    ASSUME NEW D, IsFiniteSet(D), NEW g \in [D -> Int], NEW f, SumsUp(g, f, D),
           NEW E \in SUBSET D, NEW h \in [E -> Int], NEW k, SumsUp(h, k, E),
           \A x \in E : g[x] = h[x]
    PROVE  f[E] = k[E]
<1> DEFINE Good == {n \in Nat : \A s \in SUBSET E : Cardinality(s) = n => f[s] = k[s]}
<1>1. \A s \in SUBSET E : IsFiniteSet(s) /\ Cardinality(s) \in Nat
  BY FS_Subset, FS_CardinalityType
<1>2. 0 \in Good
  BY <1>1, FS_EmptySet DEF SumsUp
<1>3. ASSUME NEW n \in Nat, n \in Good PROVE n + 1 \in Good
  <2> SUFFICES ASSUME NEW s \in SUBSET E, Cardinality(s) = n + 1 PROVE f[s] = k[s]
    OBVIOUS
  <2> DEFINE t == s \ {Pick(s)}
  <2>1. s # {} /\ Pick(s) \in s /\ Cardinality(t) = n
    BY <1>1, TakeOne
  <2>2. t \in SUBSET E /\ Pick(s) \in E /\ s \in SUBSET D
    BY <2>1
  <2>3. f[t] = k[t]
    BY <1>3, <2>1, <2>2
  <2>4. f[s] = g[Pick(s)] + f[t]
    BY <2>1, <2>2 DEF SumsUp
  <2>5. k[s] = h[Pick(s)] + k[t]
    BY <2>1, <2>2 DEF SumsUp
  <2>6. QED
    BY <2>2, <2>3, <2>4, <2>5
<1>4. \A n \in Nat : n \in Good
  <2> HIDE DEF Good
  <2>1. QED
    BY <1>2, <1>3, Induction
<1>5. QED
  BY <1>1, <1>4

-----------------------------------------------------------------------------
(* What the proofs of the contracts use *)

\* The sum over the empty set, and over a set with one more element.
LEMMA TotalEmpty == \A g : DOMAIN g = {} => Total(g) = 0
<1> SUFFICES ASSUME NEW g, DOMAIN g = {} PROVE Total(g) = 0
  OBVIOUS
<1>1. Sums(g) = Adding(g, Sums(g))
  <2> DEFINE f == [s \in {{}} |-> 0]
  <2>1. f = Adding(g, f)
    BY DEF Adding
  <2> HIDE DEF f
  <2>2. QED
    BY <2>1, Zenon DEF Sums
<1>2. Sums(g)[{}] = 0
  BY <1>1, StepZero
<1>3. QED
  BY <1>2, TotalIs

LEMMA TotalInt ==
    ASSUME NEW D, IsFiniteSet(D), NEW g \in [D -> Int]
    PROVE  Total(g) \in Int
<1>1. SumsUp(g, Sums(g), D) /\ Total(g) = Sums(g)[D]
  BY SumsAre, TotalIs
<1>2. QED
  BY <1>1 DEF SumsUp

LEMMA TotalMore ==
    ASSUME NEW D, IsFiniteSet(D), NEW g \in [D -> Int], NEW x \in D,
           NEW h \in [D \ {x} -> Int], \A y \in D \ {x} : h[y] = g[y]
    PROVE  Total(g) = g[x] + Total(h)
<1>1. PICK E : E = D \ {x}
  OBVIOUS
<1>2. IsFiniteSet(E) /\ E \in SUBSET D /\ h \in [E -> Int] /\ DOMAIN g = D /\ DOMAIN h = E
  BY <1>1, FS_RemoveElement
<1>3. PICK f : f = Sums(g) /\ SumsUp(g, f, D) /\ Total(g) = f[D]
  BY SumsAre, TotalIs
<1>4. PICK k : k = Sums(h) /\ SumsUp(h, k, E) /\ Total(h) = k[E]
  BY <1>2, SumsAre, TotalIs
<1>5. f[D] = g[x] + f[E]
  BY <1>1, <1>3, AnyOrder
<1>6. f[E] = k[E]
  BY <1>1, <1>2, <1>3, <1>4, SameSums
<1>7. QED
  BY <1>3, <1>4, <1>5, <1>6

\* A change of one value changes the sum by as much.
LEMMA TotalChange ==
    ASSUME NEW D, IsFiniteSet(D), NEW g \in [D -> Int], NEW h \in [D -> Int], NEW x \in D,
           \A y \in D \ {x} : h[y] = g[y]
    PROVE  Total(h) = Total(g) + (h[x] - g[x])
<1> DEFINE rest == [y \in D \ {x} |-> g[y]]
<1>1. rest \in [D \ {x} -> Int] /\ \A y \in D \ {x} : rest[y] = g[y] /\ rest[y] = h[y]
  OBVIOUS
<1>2. IsFiniteSet(D \ {x}) /\ Total(rest) \in Int
  BY <1>1, FS_RemoveElement, TotalInt
<1> HIDE DEF rest
<1>3. Total(g) = g[x] + Total(rest) /\ Total(h) = h[x] + Total(rest)
  BY <1>1, TotalMore
<1>4. QED
  BY <1>2, <1>3

\* A part of naturals adds up to no more than the whole.
LEMMA TotalPart ==
    ASSUME NEW D, IsFiniteSet(D), NEW g \in [D -> Nat],
           NEW E \in SUBSET D, NEW h \in [E -> Nat], \A x \in E : h[x] = g[x]
    PROVE  Total(h) \in Nat /\ Total(h) <= Total(g)
<1>1. IsFiniteSet(E) /\ g \in [D -> Int] /\ h \in [E -> Int]
  BY FS_Subset
<1>2. PICK f : SumsUp(g, f, D) /\ Total(g) = f[D]
  BY <1>1, SumsAre, TotalIs
<1>3. PICK k : SumsUp(h, k, E) /\ Total(h) = k[E]
  BY <1>1, SumsAre, TotalIs
<1>4. f[E] = k[E]
  BY <1>1, <1>2, <1>3, SameSums
<1>5. /\ f \in [SUBSET D -> Int] /\ f[{}] = 0
      /\ \A s \in SUBSET D : \A y \in s : f[s] = g[y] + f[s \ {y}]
  <2>1. \A s \in SUBSET D : \A y \in s : f[s] = g[y] + f[s \ {y}]
    <3> SUFFICES ASSUME NEW s \in SUBSET D, NEW y \in s
                 PROVE  f[s] = g[y] + f[s \ {y}]
      OBVIOUS
    <3>1. g \in [D -> Int] /\ SumsUp(g, f, D)
      BY <1>1, <1>2
    <3>2. QED
      BY <3>1, AnyOrder
  <2>2. QED
    BY <1>2, <2>1 DEF SumsUp
<1>6. ASSUME NEW B \in SUBSET D, NEW s \in SUBSET D, B \subseteq s
      PROVE  f[B] <= f[s]
  <2> DEFINE Good == {n \in Nat : \A t \in SUBSET D :
                        B \subseteq t /\ Cardinality(t \ B) = n => f[B] <= f[t]}
  <2>1. \A t \in SUBSET D : IsFiniteSet(t \ B) /\ Cardinality(t \ B) \in Nat
    BY FS_Subset, FS_CardinalityType
  <2>2. 0 \in Good
    <3> SUFFICES ASSUME NEW t \in SUBSET D, B \subseteq t, Cardinality(t \ B) = 0
                 PROVE  f[B] <= f[t]
      OBVIOUS
    <3>1. t \ B = {}
      BY <2>1, FS_EmptySet
    <3>2. t = B /\ f[B] \in Int
      BY <1>5, <3>1
    <3>3. QED
      BY <3>2
  <2>3. ASSUME NEW n \in Nat, n \in Good PROVE n + 1 \in Good
    <3> SUFFICES ASSUME NEW t \in SUBSET D, B \subseteq t, Cardinality(t \ B) = n + 1
                 PROVE  f[B] <= f[t]
      OBVIOUS
    <3>1. PICK y \in t \ B : Cardinality((t \ B) \ {y}) = n
      BY <2>1, TakeOne
    <3>2. t \ {y} \in SUBSET D /\ B \subseteq t \ {y} /\ (t \ {y}) \ B = (t \ B) \ {y}
      OBVIOUS
    <3>3. f[B] <= f[t \ {y}]
      BY <2>3, <3>1, <3>2
    <3>4. f[t] = g[y] + f[t \ {y}] /\ g[y] \in Nat
      BY <1>5
    <3>5. f[B] \in Int /\ f[t \ {y}] \in Int
      BY <1>5, <3>2
    <3>6. QED
      BY <3>3, <3>4, <3>5
  <2>4. \A n \in Nat : n \in Good
    <3> HIDE DEF Good
    <3>1. QED
      BY <2>2, <2>3, Induction
  <2>5. QED
    BY <1>6, <2>1, <2>4
<1>7. f[{}] <= f[E] /\ f[E] <= f[D]
  BY <1>6
<1>8. QED
  BY <1>2, <1>3, <1>4, <1>5, <1>7

\* One value throughout, zero for one.
LEMMA TotalSame ==
    ASSUME NEW D, IsFiniteSet(D), NEW c \in Int, NEW g \in [D -> Int], \A x \in D : g[x] = c
    PROVE  Cardinality(D) \in Nat /\ Total(g) = c * Cardinality(D)
<1>1. PICK f : SumsUp(g, f, D) /\ Total(g) = f[D]
  BY SumsAre, TotalIs
<1> DEFINE Good == {n \in Nat : \A s \in SUBSET D : Cardinality(s) = n => f[s] = c * n}
<1>2. \A s \in SUBSET D : IsFiniteSet(s) /\ Cardinality(s) \in Nat
  BY FS_Subset, FS_CardinalityType
<1>3. 0 \in Good
  <2>1. c * 0 = 0
    OBVIOUS
  <2>2. QED
    BY <1>1, <1>2, <2>1, FS_EmptySet DEF SumsUp
<1>4. ASSUME NEW n \in Nat, n \in Good PROVE n + 1 \in Good
  <2> SUFFICES ASSUME NEW s \in SUBSET D, Cardinality(s) = n + 1
               PROVE  f[s] = c * (n + 1)
    OBVIOUS
  <2>1. s # {} /\ Pick(s) \in s /\ Cardinality(s \ {Pick(s)}) = n
    BY <1>2, TakeOne
  <2>2. s \ {Pick(s)} \in SUBSET D /\ Pick(s) \in D
    BY <2>1
  <2>3. f[s \ {Pick(s)}] = c * n /\ g[Pick(s)] = c
    BY <1>4, <2>1, <2>2
  <2>4. f[s] = g[Pick(s)] + f[s \ {Pick(s)}]
    BY <1>1, <2>1 DEF SumsUp
  <2>5. c + c * n = c * (n + 1)
    OBVIOUS
  <2>6. QED
    BY <2>3, <2>4, <2>5
<1>5. \A n \in Nat : n \in Good
  <2> HIDE DEF Good
  <2>1. QED
    BY <1>3, <1>4, Induction
<1>6. Cardinality(D) \in Nat
  BY <1>2
<1>7. QED
  BY <1>1, <1>5, <1>6

LEMMA TotalZero ==
    ASSUME NEW D, IsFiniteSet(D), NEW g \in [D -> Int], \A x \in D : g[x] = 0
    PROVE  Total(g) = 0
<1>1. Cardinality(D) \in Nat /\ Total(g) = 0 * Cardinality(D)
  BY TotalSame
<1>2. QED
  BY <1>1

\* Summands that have each their own bound add up to no more than the bounds.
LEMMA TotalInto ==
    ASSUME NEW D, IsFiniteSet(D), NEW g \in [D -> Nat],
           NEW E, IsFiniteSet(E), NEW h \in [E -> Nat],
           NEW m \in [E -> D], \A x, y \in E : m[x] = m[y] => x = y,
           \A x \in E : h[x] <= g[m[x]]
    PROVE  Total(h) <= Total(g)
<1>1. g \in [D -> Int] /\ h \in [E -> Int]
  OBVIOUS
<1>2. PICK f : SumsUp(g, f, D) /\ Total(g) = f[D]
  BY <1>1, SumsAre, TotalIs
<1>3. PICK k : SumsUp(h, k, E) /\ Total(h) = k[E]
  BY <1>1, SumsAre, TotalIs
<1>4. f \in [SUBSET D -> Int] /\ k \in [SUBSET E -> Int] /\ k[{}] = 0
  BY <1>2, <1>3 DEF SumsUp
<1>5. \A t \in SUBSET D : \A y \in t : f[t] = g[y] + f[t \ {y}]
  <2> SUFFICES ASSUME NEW t \in SUBSET D, NEW y \in t
               PROVE  f[t] = g[y] + f[t \ {y}]
    OBVIOUS
  <2>1. QED
    BY <1>1, <1>2, AnyOrder
<1> DEFINE Good == {n \in Nat : \A s \in SUBSET E, t \in SUBSET D :
              Cardinality(s) = n /\ (\A x \in s : m[x] \in t) => k[s] <= f[t]}
<1>6. \A s \in SUBSET E : IsFiniteSet(s) /\ Cardinality(s) \in Nat
  BY FS_Subset, FS_CardinalityType
<1>7. \A t \in SUBSET D : 0 <= f[t]
  <2> SUFFICES ASSUME NEW t \in SUBSET D PROVE 0 <= f[t]
    OBVIOUS
  <2>1. PICK p : p = [x \in t |-> g[x]]
    OBVIOUS
  <2>2. IsFiniteSet(t) /\ p \in [t -> Nat] /\ p \in [t -> Int] /\ \A x \in t : p[x] = g[x]
    BY <2>1, FS_Subset
  <2>3. PICK q : SumsUp(p, q, t) /\ Total(p) = q[t]
    BY <2>2, SumsAre, TotalIs
  <2>4. f[t] = q[t]
    BY <1>1, <1>2, <2>2, <2>3, SameSums
  <2>5. Total(p) \in Nat
    BY <2>2, TotalPart
  <2>6. QED
    BY <2>3, <2>4, <2>5
<1>8. 0 \in Good
  <2> SUFFICES ASSUME NEW s \in SUBSET E, NEW t \in SUBSET D, Cardinality(s) = 0
               PROVE  k[s] <= f[t]
    OBVIOUS
  <2>1. s = {}
    BY <1>6, FS_EmptySet
  <2>2. QED
    BY <1>4, <1>7, <2>1
<1>9. ASSUME NEW n \in Nat, n \in Good PROVE n + 1 \in Good
  <2> SUFFICES ASSUME NEW s \in SUBSET E, NEW t \in SUBSET D, Cardinality(s) = n + 1,
                      \A x \in s : m[x] \in t
               PROVE  k[s] <= f[t]
    OBVIOUS
  <2>1. PICK x \in s : Cardinality(s \ {x}) = n /\ k[s] = h[x] + k[s \ {x}]
    <3>1. s # {} /\ Pick(s) \in s /\ Cardinality(s \ {Pick(s)}) = n
      BY <1>6, TakeOne
    <3>2. k[s] = h[Pick(s)] + k[s \ {Pick(s)}]
      BY <1>3, <3>1 DEF SumsUp
    <3>3. QED
      BY <3>1, <3>2
  <2>2. PICK y \in t : y = m[x] /\ h[x] <= g[y] /\ h[x] \in Nat /\ g[y] \in Nat
    <3>1. m[x] \in t /\ x \in E
      BY <2>1
    <3>2. h[x] <= g[m[x]] /\ h[x] \in Nat /\ g[m[x]] \in Nat
      BY <3>1
    <3>3. QED
      BY <3>1, <3>2
  <2>3. PICK s1 \in SUBSET E : s1 = s \ {x}
    OBVIOUS
  <2>4. PICK t1 \in SUBSET D : t1 = t \ {y}
    OBVIOUS
  <2>5. \A z \in s1 : m[z] \in t1
    BY <2>1, <2>2, <2>3, <2>4
  <2>6. k[s1] <= f[t1]
    BY <1>9, <2>1, <2>3, <2>4, <2>5
  <2>7. f[t] = g[y] + f[t1] /\ k[s] = h[x] + k[s1]
    BY <1>5, <2>1, <2>3, <2>4
  <2>8. f[t1] \in Int /\ k[s1] \in Int
    BY <1>4
  <2>9. QED
    BY <2>2, <2>6, <2>7, <2>8
<1>10. \A n \in Nat : n \in Good
  <2> HIDE DEF Good
  <2>1. QED
    BY <1>8, <1>9, Induction
<1>11. Cardinality(E) \in Nat /\ Cardinality(E) \in Good
  <2>1. Cardinality(E) \in Nat
    BY <1>6
  <2> HIDE DEF Good
  <2>2. QED
    BY <1>10, <2>1
<1>12. k[E] <= f[D]
  BY <1>11
<1>13. QED
  BY <1>2, <1>3, <1>12
=============================================================================

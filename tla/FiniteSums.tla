----------------------------- MODULE FiniteSums -----------------------------
(***************************************************************************)
(* What SumFunctionOnSet of the module Functions computes: the facts about *)
(* sums over finite sets that the ledgers of cubby and varu rest on.  The  *)
(* operator is a recursive function on subsets; the inductions below take  *)
(* the set of cases as a set, and find its least counterexample.           *)
(***************************************************************************)
EXTENDS FiniteSetTheorems, TLAPS

(* Induction on the naturals, the claim being membership in a set.         *)
LEMMA NatRule ==
  ASSUME NEW C, 0 \in C, \A n \in Nat : n \in C => n + 1 \in C
  PROVE  \A n \in Nat : n \in C
<1> DEFINE T == Nat \ C
<1> SUFFICES ASSUME T # {} PROVE FALSE
  OBVIOUS
<1>1. PICK m \in T : \A k \in T : ~(<<k, m>> \in OpToRel(<, Nat))
  <2>1. T \subseteq Nat
    OBVIOUS
  <2> HIDE DEF T
  <2> QED
    BY <2>1, NatLessThanWellFounded, WFMin
<1>2. \A k \in T : ~(k < m)
  BY <1>1 DEF OpToRel
<1>3. m # 0 /\ m - 1 \in Nat /\ m - 1 \in T
  BY <1>2
<1> QED
  BY <1>2, <1>3

(* Induction on the subsets of a finite set, one element at a time.        *)
LEMMA SubsetRule ==
  ASSUME NEW S, IsFiniteSet(S), NEW C, {} \in C,
         \A T \in SUBSET S, x \in S : T \in C /\ x \notin T => T \cup {x} \in C
  PROVE  S \in C
<1> DEFINE N == {n \in Nat : \A T \in SUBSET S : Cardinality(T) = n => T \in C}
<1>1. \A T \in SUBSET S : IsFiniteSet(T) /\ Cardinality(T) \in Nat
  BY FS_Subset, FS_CardinalityType
<1>2. 0 \in N
  BY <1>1, FS_EmptySet
<1>3. ASSUME NEW n \in Nat, n \in N PROVE n + 1 \in N
  <2> SUFFICES ASSUME NEW T \in SUBSET S, Cardinality(T) = n + 1 PROVE T \in C
    OBVIOUS
  <2> HIDE DEF N
  <2>1. PICK x \in T : TRUE
    BY <1>1, FS_EmptySet
  <2>2. Cardinality(T \ {x}) = n
    <3>1. Cardinality(T \ {x}) = Cardinality(T) - 1
      BY <1>1, FS_RemoveElement
    <3> QED
      BY <3>1
  <2>3. T \ {x} \in C
    BY <1>3, <2>2 DEF N
  <2>4. (T \ {x}) \cup {x} = T
    BY <2>1
  <2> QED
    BY <2>3, <2>4
<1> HIDE DEF N
<1>4. \A n \in Nat : n \in N
  BY <1>2, <1>3, NatRule
<1> QED
  BY <1>1, <1>4 DEF N

-----------------------------------------------------------------------------
(* The recursion that SumFunctionOnSet abbreviates.                        *)

Some(s) == CHOOSE x \in s : TRUE

(* g maps each set of D to the sum of f over it.                           *)
Sums(f, D, g) ==
  g = [s \in D |-> IF s = {} THEN 0 ELSE f[Some(s)] + g[s \ {Some(s)}]]

LEMMA SumUnfolds ==
  ASSUME NEW f, NEW S
  PROVE  SumFunctionOnSet(f, S) = (CHOOSE g : Sums(f, SUBSET S, g))[S]
  BY DEF SumFunctionOnSet, FoldFunctionOnSet, MapThenFoldSet, Sums, Some

(* The recursion has a solution: it is extended from the sets of up to n   *)
(* elements to those of n + 1.                                             *)
LEMMA SumsExist ==
  ASSUME NEW f, NEW S, IsFiniteSet(S)
  PROVE  \E g : Sums(f, SUBSET S, g)
<1> DEFINE Layer(n) == {s \in SUBSET S : Cardinality(s) <= n}
           N == {n \in Nat : \E g : Sums(f, Layer(n), g)}
<1>1. \A s \in SUBSET S : IsFiniteSet(s) /\ Cardinality(s) \in Nat
                          /\ Cardinality(s) <= Cardinality(S)
  BY FS_Subset, FS_CardinalityType
<1>2. \A s \in SUBSET S : s # {} =>
        /\ s \ {Some(s)} \in SUBSET S
        /\ Cardinality(s \ {Some(s)}) = Cardinality(s) - 1
  BY <1>1, FS_RemoveElement DEF Some
<1>3. 0 \in N
  <2>1. \A s \in Layer(0) : s = {}
    BY <1>1, FS_EmptySet
  <2>2. Sums(f, Layer(0), [s \in Layer(0) |-> 0])
    BY <2>1 DEF Sums
  <2> QED
    BY <2>2
<1>4. ASSUME NEW n \in Nat, n \in N PROVE n + 1 \in N
  <2>1. PICK g : Sums(f, Layer(n), g)
    BY <1>4
  <2> DEFINE h == [s \in Layer(n + 1) |->
                     IF Cardinality(s) <= n THEN g[s]
                     ELSE f[Some(s)] + g[s \ {Some(s)}]]
  <2>2. \A s \in Layer(n + 1) : s # {} => s \ {Some(s)} \in Layer(n)
    BY <1>1, <1>2
  <2>3. \A s \in Layer(n) : s \in Layer(n + 1) /\ h[s] = g[s]
    BY <1>1
  <2>4. \A s \in Layer(n) :
          g[s] = IF s = {} THEN 0 ELSE f[Some(s)] + g[s \ {Some(s)}]
    <3> HIDE DEF Layer
    <3> QED
      BY <2>1 DEF Sums
  <2>5. \A s \in Layer(n + 1) : s \notin Layer(n) =>
          s # {} /\ ~(Cardinality(s) <= n)
    BY <1>1, FS_EmptySet
  <2>6. \A s \in Layer(n + 1) :
          h[s] = IF s = {} THEN 0 ELSE f[Some(s)] + h[s \ {Some(s)}]
    <3> SUFFICES ASSUME NEW s \in Layer(n + 1)
                 PROVE  h[s] = IF s = {} THEN 0 ELSE f[Some(s)] + h[s \ {Some(s)}]
      OBVIOUS
    <3>1. CASE s \in Layer(n)
      <4> HIDE DEF h, Layer
      <4> QED
        BY <3>1, <2>2, <2>3, <2>4
    <3>2. CASE s \notin Layer(n)
      <4>1. s # {} /\ h[s] = f[Some(s)] + g[s \ {Some(s)}]
        BY <3>2, <2>5
      <4> HIDE DEF h, Layer
      <4> QED
        BY <4>1, <2>2, <2>3
    <3> QED
      BY <3>1, <3>2
  <2>7. h = [s \in Layer(n + 1) |-> h[s]]
    OBVIOUS
  <2> HIDE DEF h, Layer
  <2>8. h = [s \in Layer(n + 1) |->
               IF s = {} THEN 0 ELSE f[Some(s)] + h[s \ {Some(s)}]]
    BY <2>6, <2>7
  <2>9. Sums(f, Layer(n + 1), h)
    BY <2>8 DEF Sums
  <2> QED
    BY <2>9
<1>5. Layer(Cardinality(S)) = SUBSET S
  BY <1>1
<1>6. Cardinality(S) \in Nat
  BY FS_CardinalityType
<1>7. \A n \in Nat : n \in N
  <2> HIDE DEF N
  <2> QED
    BY <1>3, <1>4, NatRule
<1> QED
  BY <1>5, <1>6, <1>7

(* Sums of functions that agree on a set agree there.                      *)
LEMMA SumsAgree ==
  ASSUME NEW f1, NEW f2, NEW g1, NEW g2, NEW S1, NEW S2,
         Sums(f1, SUBSET S1, g1), Sums(f2, SUBSET S2, g2),
         NEW T, IsFiniteSet(T), T \subseteq S1, T \subseteq S2,
         \A x \in T : f1[x] = f2[x]
  PROVE  g1[T] = g2[T]
<1> DEFINE N == {n \in Nat : \A s \in SUBSET T :
                               Cardinality(s) = n => g1[s] = g2[s]}
<1>1. \A s \in SUBSET T : IsFiniteSet(s) /\ Cardinality(s) \in Nat
  BY FS_Subset, FS_CardinalityType
<1>2. \A s \in SUBSET T :
        /\ g1[s] = IF s = {} THEN 0 ELSE f1[Some(s)] + g1[s \ {Some(s)}]
        /\ g2[s] = IF s = {} THEN 0 ELSE f2[Some(s)] + g2[s \ {Some(s)}]
  BY DEF Sums
<1>3. \A s \in SUBSET T : s # {} => Some(s) \in s
  BY DEF Some
<1>4. 0 \in N
  BY <1>1, <1>2, FS_EmptySet
<1>5. ASSUME NEW n \in Nat, n \in N PROVE n + 1 \in N
  <2> SUFFICES ASSUME NEW s \in SUBSET T, Cardinality(s) = n + 1
               PROVE  g1[s] = g2[s]
    OBVIOUS
  <2>1. s # {} /\ Some(s) \in T
    BY <1>1, <1>3, FS_EmptySet
  <2>2. Cardinality(s \ {Some(s)}) = n
    <3> HIDE DEF N
    <3>1. Some(s) \in s /\ IsFiniteSet(s)
      BY <1>1, <1>3, <2>1
    <3>2. Cardinality(s \ {Some(s)}) = Cardinality(s) - 1
      BY <3>1, FS_RemoveElement
    <3> QED
      BY <3>2
  <2>3. g1[s \ {Some(s)}] = g2[s \ {Some(s)}]
    BY <1>5, <2>2
  <2> QED
    BY <1>2, <2>1, <2>3
<1>6. \A n \in Nat : n \in N
  <2> HIDE DEF N
  <2> QED
    BY <1>4, <1>5, NatRule
<1> QED
  BY <1>1, <1>6

-----------------------------------------------------------------------------
(* The facts the other modules cite.                                       *)

LEMMA SumEmpty ==
  ASSUME NEW f
  PROVE  SumFunctionOnSet(f, {}) = 0
<1>1. PICK g : Sums(f, SUBSET {}, g)
  BY SumsExist, FS_EmptySet
<1> DEFINE i == CHOOSE h : Sums(f, SUBSET {}, h)
<1>2. Sums(f, SUBSET {}, i)
  BY <1>1
<1>3. i[{}] = 0
  <2> HIDE DEF i
  <2> QED
    BY <1>2 DEF Sums
<1> QED
  BY <1>3, SumUnfolds

(* Functions that agree on a set have the same sum over it.                *)
LEMMA SumCongruence ==
  ASSUME NEW f, NEW g, NEW S, IsFiniteSet(S), \A x \in S : f[x] = g[x]
  PROVE  SumFunctionOnSet(f, S) = SumFunctionOnSet(g, S)
<1> DEFINE i == CHOOSE h : Sums(f, SUBSET S, h)
           j == CHOOSE h : Sums(g, SUBSET S, h)
<1>1. Sums(f, SUBSET S, i) /\ Sums(g, SUBSET S, j)
  BY SumsExist
<1> HIDE DEF i, j
<1>2. i[S] = j[S]
  BY <1>1, SumsAgree
<1> QED
  BY <1>2, SumUnfolds DEF i, j

LEMMA SumStep ==
  ASSUME NEW f, NEW S, IsFiniteSet(S), S # {}
  PROVE  SumFunctionOnSet(f, S)
           = f[Some(S)] + SumFunctionOnSet(f, S \ {Some(S)})
<1> DEFINE R == S \ {Some(S)}
           i == CHOOSE g : Sums(f, SUBSET S, g)
           j == CHOOSE g : Sums(f, SUBSET R, g)
<1>1. IsFiniteSet(R)
  BY FS_RemoveElement
<1>2. Sums(f, SUBSET S, i)
  BY SumsExist
<1>3. Sums(f, SUBSET R, j)
  BY <1>1, SumsExist
<1>4. R \subseteq S
  OBVIOUS
<1> HIDE DEF i, j
<1>5. i[S] = f[Some(S)] + i[R]
  BY <1>2 DEF Sums
<1>6. i[R] = j[R]
  <2> HIDE DEF R
  <2> QED
    BY <1>1, <1>2, <1>3, <1>4, SumsAgree
<1> QED
  BY <1>5, <1>6, SumUnfolds DEF i, j

LEMMA SumInt ==
  ASSUME NEW f, NEW S, IsFiniteSet(S), \A x \in S : f[x] \in Int
  PROVE  SumFunctionOnSet(f, S) \in Int
<1> DEFINE N == {n \in Nat : \A s \in SUBSET S :
                   Cardinality(s) = n => SumFunctionOnSet(f, s) \in Int}
<1>1. \A s \in SUBSET S : IsFiniteSet(s) /\ Cardinality(s) \in Nat
  BY FS_Subset, FS_CardinalityType
<1>2. 0 \in N
  BY <1>1, FS_EmptySet, SumEmpty
<1>3. ASSUME NEW n \in Nat, n \in N PROVE n + 1 \in N
  <2> SUFFICES ASSUME NEW s \in SUBSET S, Cardinality(s) = n + 1
               PROVE  SumFunctionOnSet(f, s) \in Int
    OBVIOUS
  <2>1. IsFiniteSet(s) /\ s # {}
    BY <1>1, FS_EmptySet
  <2>2. Some(s) \in s
    BY <2>1 DEF Some
  <2>3. Cardinality(s \ {Some(s)}) = n
    <3>1. Cardinality(s \ {Some(s)}) = Cardinality(s) - 1
      BY <2>1, <2>2, FS_RemoveElement
    <3> QED
      BY <3>1
  <2>4. SumFunctionOnSet(f, s \ {Some(s)}) \in Int
    BY <1>3, <2>3
  <2>5. f[Some(s)] \in Int
    BY <2>2
  <2> QED
    BY <2>1, <2>4, <2>5, SumStep
<1> HIDE DEF N
<1>4. \A n \in Nat : n \in N
  BY <1>2, <1>3, NatRule
<1> QED
  BY <1>1, <1>4 DEF N

(* The order in which the elements are taken does not matter.              *)
LEMMA SumWithout ==
  ASSUME NEW f, NEW S, IsFiniteSet(S), \A x \in S : f[x] \in Int, NEW z \in S
  PROVE  SumFunctionOnSet(f, S) = f[z] + SumFunctionOnSet(f, S \ {z})
<1> DEFINE N == {n \in Nat : \A s \in SUBSET S, x \in S :
                   Cardinality(s) = n /\ x \in s =>
                     SumFunctionOnSet(f, s)
                       = f[x] + SumFunctionOnSet(f, s \ {x})}
<1>1. \A s \in SUBSET S : IsFiniteSet(s) /\ Cardinality(s) \in Nat
  BY FS_Subset, FS_CardinalityType
<1>2. 0 \in N
  BY <1>1, FS_EmptySet
<1>3. ASSUME NEW n \in Nat, n \in N PROVE n + 1 \in N
  <2> SUFFICES ASSUME NEW s \in SUBSET S, NEW x \in S,
                      Cardinality(s) = n + 1, x \in s
               PROVE  SumFunctionOnSet(f, s) = f[x] + SumFunctionOnSet(f, s \ {x})
    OBVIOUS
  <2> DEFINE c == Some(s)
  <2>1. IsFiniteSet(s) /\ s # {} /\ c \in s
    BY <1>1 DEF Some
  <2>2. SumFunctionOnSet(f, s) = f[c] + SumFunctionOnSet(f, s \ {c})
    BY <2>1, SumStep
  <2> HIDE DEF c
  <2>3. CASE x = c
    BY <2>2, <2>3
  <2>4. CASE x # c
    <3>1. Cardinality(s \ {c}) = n /\ Cardinality(s \ {x}) = n
      <4>1. /\ Cardinality(s \ {c}) = Cardinality(s) - 1
            /\ Cardinality(s \ {x}) = Cardinality(s) - 1
        BY <2>1, FS_RemoveElement
      <4> QED
        BY <4>1
    <3>2. /\ s \ {c} \in SUBSET S /\ s \ {x} \in SUBSET S
          /\ x \in s \ {c} /\ c \in s \ {x} /\ c \in S
      BY <2>1, <2>4
    <3>3. SumFunctionOnSet(f, s \ {c})
            = f[x] + SumFunctionOnSet(f, (s \ {c}) \ {x})
      BY <1>3, <3>1, <3>2
    <3>4. SumFunctionOnSet(f, s \ {x})
            = f[c] + SumFunctionOnSet(f, (s \ {x}) \ {c})
      BY <1>3, <3>1, <3>2
    <3>5. (s \ {c}) \ {x} = (s \ {x}) \ {c}
      OBVIOUS
    <3>6. SumFunctionOnSet(f, (s \ {x}) \ {c}) \in Int
      <4>1. (s \ {x}) \ {c} \in SUBSET S
        OBVIOUS
      <4> QED
        BY <1>1, <4>1, SumInt
    <3>7. f[x] \in Int /\ f[c] \in Int
      BY <3>2
    <3> DEFINE rest == SumFunctionOnSet(f, (s \ {x}) \ {c})
    <3>8. /\ SumFunctionOnSet(f, s \ {c}) = f[x] + rest
          /\ SumFunctionOnSet(f, s \ {x}) = f[c] + rest
      BY <3>3, <3>4, <3>5, Zenon
    <3> HIDE DEF rest
    <3> QED
      BY <2>2, <3>6, <3>7, <3>8 DEF rest
  <2> QED
    BY <2>3, <2>4
<1> HIDE DEF N
<1>4. \A n \in Nat : n \in N
  BY <1>2, <1>3, NatRule
<1>5. Cardinality(S) \in Nat
  BY FS_CardinalityType
<1> QED
  BY <1>4, <1>5 DEF N

LEMMA SumWith ==
  ASSUME NEW f, NEW S, IsFiniteSet(S), NEW z, z \notin S,
         \A x \in S \cup {z} : f[x] \in Int
  PROVE  SumFunctionOnSet(f, S \cup {z}) = SumFunctionOnSet(f, S) + f[z]
<1>1. IsFiniteSet(S \cup {z})
  BY FS_AddElement
<1>2. SumFunctionOnSet(f, S \cup {z})
        = f[z] + SumFunctionOnSet(f, (S \cup {z}) \ {z})
  BY <1>1, SumWithout
<1>3. (S \cup {z}) \ {z} = S
  OBVIOUS
<1>4. SumFunctionOnSet(f, S) \in Int
  BY SumInt
<1>5. f[z] \in Int
  OBVIOUS
<1>6. SumFunctionOnSet(f, S \cup {z}) = f[z] + SumFunctionOnSet(f, S)
  BY <1>2, <1>3, Zenon
<1> QED
  BY <1>4, <1>5, <1>6

(* A sum after one of its terms has changed.                               *)
LEMMA SumChanged ==
  ASSUME NEW f, NEW g, NEW S, IsFiniteSet(S), NEW z \in S,
         \A x \in S : f[x] \in Int /\ g[x] \in Int,
         \A x \in S \ {z} : g[x] = f[x]
  PROVE  SumFunctionOnSet(g, S) = SumFunctionOnSet(f, S) - f[z] + g[z]
<1>1. IsFiniteSet(S \ {z})
  BY FS_RemoveElement
<1>2. SumFunctionOnSet(f, S) = f[z] + SumFunctionOnSet(f, S \ {z})
  BY SumWithout
<1>3. SumFunctionOnSet(g, S) = g[z] + SumFunctionOnSet(g, S \ {z})
  BY SumWithout
<1>4. SumFunctionOnSet(g, S \ {z}) = SumFunctionOnSet(f, S \ {z})
  BY <1>1, SumCongruence
<1>5. SumFunctionOnSet(f, S \ {z}) \in Int
  BY <1>1, SumInt
<1>6. f[z] \in Int /\ g[z] \in Int
  OBVIOUS
<1> QED
  BY <1>2, <1>3, <1>4, <1>5, <1>6

(* A sum is at most the sum of larger terms.                               *)
LEMMA SumMonotonic ==
  ASSUME NEW f, NEW g, NEW S, IsFiniteSet(S),
         \A x \in S : f[x] \in Int /\ g[x] \in Int /\ f[x] <= g[x]
  PROVE  SumFunctionOnSet(f, S) <= SumFunctionOnSet(g, S)
<1> DEFINE C == {s \in SUBSET S :
                   SumFunctionOnSet(f, s) <= SumFunctionOnSet(g, s)}
<1>1. {} \in C
  BY SumEmpty
<1>2. ASSUME NEW T \in SUBSET S, NEW x \in S, T \in C, x \notin T
      PROVE  T \cup {x} \in C
  <2>1. IsFiniteSet(T)
    BY FS_Subset
  <2>2. SumFunctionOnSet(f, T \cup {x}) = SumFunctionOnSet(f, T) + f[x]
    BY <1>2, <2>1, SumWith
  <2>3. SumFunctionOnSet(g, T \cup {x}) = SumFunctionOnSet(g, T) + g[x]
    BY <1>2, <2>1, SumWith
  <2>4. SumFunctionOnSet(f, T) \in Int
    BY <2>1, SumInt
  <2>5. SumFunctionOnSet(g, T) \in Int
    BY <2>1, SumInt
  <2>6. SumFunctionOnSet(f, T) <= SumFunctionOnSet(g, T)
    BY <1>2
  <2>7. f[x] \in Int /\ g[x] \in Int /\ f[x] <= g[x]
    OBVIOUS
  <2>8. SumFunctionOnSet(f, T \cup {x}) <= SumFunctionOnSet(g, T \cup {x})
    BY <2>2, <2>3, <2>4, <2>5, <2>6, <2>7
  <2> QED
    BY <2>8
<1> HIDE DEF C
<1>3. S \in C
  BY <1>1, <1>2, SubsetRule
<1> QED
  BY <1>3 DEF C

LEMMA SumZero ==
  ASSUME NEW f, NEW S, IsFiniteSet(S), \A x \in S : f[x] = 0
  PROVE  SumFunctionOnSet(f, S) = 0
<1> DEFINE C == {s \in SUBSET S : SumFunctionOnSet(f, s) = 0}
<1>1. {} \in C
  BY SumEmpty
<1>2. ASSUME NEW T \in SUBSET S, NEW x \in S, T \in C, x \notin T
      PROVE  T \cup {x} \in C
  <2>1. IsFiniteSet(T)
    BY FS_Subset
  <2>2. \A y \in T \cup {x} : f[y] = 0 /\ f[y] \in Int
    OBVIOUS
  <2>3. SumFunctionOnSet(f, T \cup {x}) = SumFunctionOnSet(f, T) + f[x]
    BY <1>2, <2>1, <2>2, SumWith
  <2> QED
    BY <1>2, <2>3, <2>2
<1> HIDE DEF C
<1>3. S \in C
  BY <1>1, <1>2, SubsetRule
<1> QED
  BY <1>3 DEF C

LEMMA SumNat ==
  ASSUME NEW f, NEW S, IsFiniteSet(S), \A x \in S : f[x] \in Nat
  PROVE  SumFunctionOnSet(f, S) \in Nat
<1> DEFINE zero == [x \in S |-> 0]
<1>1. SumFunctionOnSet(zero, S) = 0
  BY SumZero
<1>2. SumFunctionOnSet(zero, S) <= SumFunctionOnSet(f, S)
  BY SumMonotonic
<1>3. SumFunctionOnSet(f, S) \in Int
  BY SumInt
<1> QED
  BY <1>1, <1>2, <1>3

(* A sum of terms that are all at most k.                                  *)
LEMMA SumBound ==
  ASSUME NEW f, NEW S, IsFiniteSet(S), NEW k \in Int,
         \A x \in S : f[x] \in Int /\ f[x] <= k
  PROVE  SumFunctionOnSet(f, S) <= Cardinality(S) * k
<1> DEFINE C == {s \in SUBSET S : SumFunctionOnSet(f, s) <= Cardinality(s) * k}
<1>1. {} \in C
  BY SumEmpty, FS_EmptySet
<1>2. ASSUME NEW T \in SUBSET S, NEW x \in S, T \in C, x \notin T
      PROVE  T \cup {x} \in C
  <2>1. IsFiniteSet(T) /\ Cardinality(T) \in Nat
    BY FS_Subset, FS_CardinalityType
  <2>2. Cardinality(T \cup {x}) = Cardinality(T) + 1
    BY <1>2, <2>1, FS_AddElement
  <2>3. SumFunctionOnSet(f, T \cup {x}) = SumFunctionOnSet(f, T) + f[x]
    BY <1>2, <2>1, SumWith
  <2>4. SumFunctionOnSet(f, T) \in Int
    BY <2>1, SumInt
  <2>5. ASSUME NEW n \in Nat, NEW a \in Int, a <= n * k, NEW b \in Int, b <= k
        PROVE  a + b <= (n + 1) * k
    <3>1. (n + 1) * k = n * k + k
      OBVIOUS
    <3> QED
      BY <2>5, <3>1
  <2>6. SumFunctionOnSet(f, T) + f[x] <= (Cardinality(T) + 1) * k
    BY <1>2, <2>1, <2>4, <2>5
  <2> QED
    BY <2>2, <2>3, <2>6
<1> HIDE DEF C
<1>3. S \in C
  BY <1>1, <1>2, SubsetRule
<1> QED
  BY <1>3 DEF C

-----------------------------------------------------------------------------
(* The same for SumFunction, which sums a function over its domain: the    *)
(* form in which the other modules cite these facts.                       *)

LEMMA TotalInt ==
  ASSUME NEW S, IsFiniteSet(S), NEW f \in [S -> Int]
  PROVE  SumFunction(f) \in Int
  BY SumInt DEF SumFunction

LEMMA TotalNat ==
  ASSUME NEW S, IsFiniteSet(S), NEW f \in [S -> Nat]
  PROVE  SumFunction(f) \in Nat
  BY SumNat DEF SumFunction

LEMMA TotalZero ==
  ASSUME NEW S, IsFiniteSet(S), NEW f, DOMAIN f = S, \A x \in S : f[x] = 0
  PROVE  SumFunction(f) = 0
  BY SumZero DEF SumFunction

LEMMA TotalMonotonic ==
  ASSUME NEW S, IsFiniteSet(S), NEW f \in [S -> Int], NEW g \in [S -> Int],
         \A x \in S : f[x] <= g[x]
  PROVE  SumFunction(f) <= SumFunction(g)
  BY SumMonotonic DEF SumFunction

LEMMA TotalBound ==
  ASSUME NEW S, IsFiniteSet(S), NEW f \in [S -> Int], NEW k \in Int, \A x \in S : f[x] <= k
  PROVE  SumFunction(f) <= Cardinality(S) * k
  BY SumBound DEF SumFunction

(* g is f without its term at z.                                           *)
Rest(S, f, z, g) ==
  /\ IsFiniteSet(S) /\ z \in S
  /\ f \in [S -> Int] /\ g \in [S \ {z} -> Int]
  /\ \A x \in S \ {z} : g[x] = f[x]

LEMMA TotalOfRest ==
  ASSUME NEW S, NEW f, NEW z, NEW g, Rest(S, f, z, g)
  PROVE  /\ SumFunction(f) = f[z] + SumFunction(g)
         /\ SumFunction(g) \in Int /\ f[z] \in Int
<1>1. IsFiniteSet(S \ {z})
  BY FS_RemoveElement DEF Rest
<1>2. SumFunctionOnSet(f, S) = f[z] + SumFunctionOnSet(f, S \ {z})
  BY SumWithout DEF Rest
<1>3. SumFunctionOnSet(f, S \ {z}) = SumFunctionOnSet(g, S \ {z})
  BY <1>1, SumCongruence DEF Rest
<1>4. SumFunctionOnSet(g, S \ {z}) \in Int
  BY <1>1, SumInt DEF Rest
<1> QED
  BY <1>2, <1>3, <1>4 DEF SumFunction, Rest

(* f and g differ at most at z.                                            *)
DifferAt(S, f, z, g) ==
  /\ IsFiniteSet(S) /\ z \in S
  /\ f \in [S -> Int] /\ g \in [S -> Int]
  /\ \A x \in S \ {z} : g[x] = f[x]

LEMMA TotalChanged ==
  ASSUME NEW S, NEW f, NEW z, NEW g, DifferAt(S, f, z, g)
  PROVE  /\ SumFunction(g) = SumFunction(f) - f[z] + g[z]
         /\ SumFunction(f) \in Int /\ f[z] \in Int /\ g[z] \in Int
<1>1. SumFunctionOnSet(g, S) = SumFunctionOnSet(f, S) - f[z] + g[z]
  BY SumChanged DEF DifferAt
<1>2. SumFunctionOnSet(f, S) \in Int
  BY SumInt DEF DifferAt
<1> QED
  BY <1>1, <1>2 DEF SumFunction, DifferAt
=============================================================================

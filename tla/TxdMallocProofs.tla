--------------------------- MODULE TxdMallocProofs ---------------------------
(***************************************************************************)
(* Proofs about TxdMalloc, for every set of blocks, every set of sizes and *)
(* every width of the counter.                                             *)
(***************************************************************************)
EXTENDS TxdMalloc, FiniteSets,
        WellFoundedInduction, FiniteSetTheorems, TLAPS

-----------------------------------------------------------------------------
(* Sums of the values of a function: the bytes in the live blocks.         *)
(*                                                                         *)
(* SumFunctionOnSet is a recursive function that CHOOSEs the index to add  *)
(* next.  Its values are found by induction on the number of indices, in   *)
(* the form of NatSet, which speaks of sets of numbers and not of          *)
(* operators.                                                              *)

(* Induction: a set of numbers that has 0 and the successor of each number *)
(* it has, has them all.                                                   *)
LEMMA NatSet ==
  ASSUME NEW P, 0 \in P, \A n \in Nat : n \in P => n + 1 \in P
  PROVE  Nat \subseteq P
<1> DEFINE R == OpToRel(<, Nat)
<1>1. \A x, y \in Nat : x < y => <<x, y>> \in R
  BY DEF OpToRel
<1>2. IsWellFoundedOn(R, Nat)
  BY NatLessThanWellFounded
<1> HIDE DEF R
<1> DEFINE T == Nat \ P
<1>3. SUFFICES ASSUME T # {} PROVE FALSE
  OBVIOUS
<1>4. PICK m \in T : \A y \in T : ~(<<y, m>> \in R)
  <2> HIDE DEF T
  <2> T \subseteq Nat
    BY DEF T
  <2> QED BY <1>2, <1>3, WFMin
<1>5. m # 0 /\ m - 1 \in Nat /\ m - 1 < m
  OBVIOUS
<1>6. <<m - 1, m>> \in R
  BY <1>1, <1>5
<1> QED
  BY <1>4, <1>5, <1>6

(* SumFunctionOnSet, unfolded: F holds the sums over the sets of D.        *)
Chosen(s) == CHOOSE x \in s : TRUE
Rest(s)   == s \ {Chosen(s)}

SumsOf(f, D, F) ==
  F = [s \in D |-> IF s = {} THEN 0 ELSE f[Chosen(s)] + F[Rest(s)]]

(* The chosen index is in the set, and the rest is one smaller.            *)
LEMMA RestSmaller ==
  ASSUME NEW s, IsFiniteSet(s), s # {}
  PROVE  /\ Chosen(s) \in s
         /\ Rest(s) \subseteq s
         /\ IsFiniteSet(Rest(s))
         /\ Cardinality(Rest(s)) = Cardinality(s) - 1
         /\ Cardinality(s) \in Nat
         /\ Cardinality(s) # 0
<1>1. Chosen(s) \in s
  BY DEF Chosen
<1>2. Cardinality(s) \in Nat /\ Cardinality(s) # 0
  BY FS_CardinalityType, FS_EmptySet
<1> QED
  BY <1>1, <1>2, FS_RemoveElement DEF Rest

(* A function of all the sums over parts of a finite set exists: a longer  *)
(* one is built from a shorter.                                            *)
LEMMA SumsExist ==
  ASSUME NEW f, NEW S, IsFiniteSet(S)
  PROVE  \E F : SumsOf(f, SUBSET S, F)
<1> DEFINE Small(n) == {s \in SUBSET S : Cardinality(s) <= n}
           P == {n \in Nat : \E F : SumsOf(f, Small(n), F)}
<1>1. \A s \in SUBSET S : IsFiniteSet(s) /\ Cardinality(s) \in Nat /\ Cardinality(s) <= Cardinality(S)
  BY FS_Subset, FS_CardinalityType
<1>2. 0 \in P
  <2> DEFINE F == [s \in Small(0) |-> 0]
  <2>1. \A s \in Small(0) : s = {}
    BY <1>1, FS_EmptySet
  <2>2. SumsOf(f, Small(0), F)
    BY <2>1 DEF SumsOf
  <2> QED
    BY <2>2
<1>3. ASSUME NEW n \in Nat, n \in P
      PROVE  n + 1 \in P
  <2>1. PICK F : SumsOf(f, Small(n), F)
    BY <1>3
  <2> DEFINE G == [s \in Small(n + 1) |-> IF s = {} THEN 0 ELSE f[Chosen(s)] + F[Rest(s)]]
  <2>2. \A s \in Small(n + 1) : s # {} => Rest(s) \in Small(n)
    BY <1>1, RestSmaller
  <2>3. \A s \in Small(n) : s \in Small(n + 1)
    BY <1>1
  <2>4. \A s \in Small(n) : F[s] = G[s]
    BY <2>1, <2>3 DEF SumsOf
  <2>5. SumsOf(f, Small(n + 1), G)
    BY <2>2, <2>4 DEF SumsOf
  <2> HIDE DEF G, Small
  <2> QED
    BY <2>5
<1>4. Nat \subseteq P
  <2> HIDE DEF P
  <2> QED BY <1>2, <1>3, NatSet
<1>5. Cardinality(S) \in Nat
  BY FS_CardinalityType
<1>6. Small(Cardinality(S)) = SUBSET S
  BY <1>1
<1>7. \E F : SumsOf(f, Small(Cardinality(S)), F)
  BY <1>4, <1>5
<1> QED
  BY <1>6, <1>7

(* SumFunctionOnSet is the value of such a function.                       *)
LEMMA SumIsSums ==
  ASSUME NEW f, NEW S, IsFiniteSet(S)
  PROVE  \E F : SumsOf(f, SUBSET S, F) /\ SumFunctionOnSet(f, S) = F[S]
<1>1. SumFunctionOnSet(f, S) = (CHOOSE F : SumsOf(f, SUBSET S, F))[S]
  BY DEF SumFunctionOnSet, FoldFunctionOnSet, MapThenFoldSet, SumsOf, Chosen,
         Rest
<1> QED
  BY <1>1, SumsExist

(* Two such functions agree where both are defined.                        *)
LEMMA SumsAgree ==
  ASSUME NEW f, NEW S, NEW F, NEW G, NEW U \in SUBSET S, IsFiniteSet(U),
         SumsOf(f, SUBSET S, F), SumsOf(f, SUBSET U, G)
  PROVE  F[U] = G[U]
<1> DEFINE P == {n \in Nat : \A s \in SUBSET U : Cardinality(s) = n => F[s] = G[s]}
<1>1. \A s \in SUBSET U : IsFiniteSet(s) /\ Cardinality(s) \in Nat
  BY FS_Subset, FS_CardinalityType
<1>2. \A s \in SUBSET U :
        /\ F[s] = IF s = {} THEN 0 ELSE f[Chosen(s)] + F[Rest(s)]
        /\ G[s] = IF s = {} THEN 0 ELSE f[Chosen(s)] + G[Rest(s)]
  BY DEF SumsOf
<1>3. 0 \in P
  BY <1>1, <1>2, FS_EmptySet
<1>4. ASSUME NEW n \in Nat, n \in P
      PROVE  n + 1 \in P
  <2> SUFFICES ASSUME NEW s \in SUBSET U, Cardinality(s) = n + 1
               PROVE  F[s] = G[s]
    OBVIOUS
  <2>1. s # {}
    BY <1>1, FS_EmptySet
  <2>2. /\ Chosen(s) \in s
        /\ Rest(s) \subseteq s
        /\ Cardinality(Rest(s)) = n
    BY <1>1, <2>1, RestSmaller
  <2>3. F[Rest(s)] = G[Rest(s)]
    BY <1>4, <2>2
  <2> QED
    BY <1>2, <2>1, <2>2, <2>3
<1>5. Nat \subseteq P
  <2> HIDE DEF P
  <2> QED BY <1>3, <1>4, NatSet
<1> QED
  BY <1>1, <1>5

(* Sums depend only on the values at the indices summed up.                *)
LEMMA SumAgrees ==
  ASSUME NEW f, NEW g, NEW S, IsFiniteSet(S), \A x \in S : f[x] = g[x]
  PROVE  SumFunctionOnSet(f, S) = SumFunctionOnSet(g, S)
<1>1. PICK F : SumsOf(f, SUBSET S, F) /\ SumFunctionOnSet(f, S) = F[S]
  BY SumIsSums
<1>2. PICK G : SumsOf(g, SUBSET S, G) /\ SumFunctionOnSet(g, S) = G[S]
  BY SumIsSums
<1>3. \A s \in SUBSET S : s # {} => Chosen(s) \in S
  BY DEF Chosen
<1>4. SumsOf(f, SUBSET S, G)
  BY <1>2, <1>3 DEF SumsOf
<1>5. F[S] = G[S]
  <2> DEFINE U == S
  <2>1. U \in SUBSET S /\ IsFiniteSet(U) /\ SumsOf(f, SUBSET U, G)
    BY <1>4
  <2> HIDE DEF U
  <2>2. F[U] = G[U]
    BY <1>1, <2>1, SumsAgree
  <2> QED
    BY <2>2 DEF U
<1> QED
  BY <1>1, <1>2, <1>5

(* Nothing sums up to 0.                                                   *)
LEMMA SumEmpty == \A f : SumFunctionOnSet(f, {}) = 0
<1> TAKE f
<1>1. IsFiniteSet({})
  BY FS_EmptySet
<1>2. PICK F : SumsOf(f, SUBSET {}, F) /\ SumFunctionOnSet(f, {}) = F[{}]
  BY <1>1, SumIsSums
<1> QED
  BY <1>2 DEF SumsOf

(* One step of the summation.                                              *)
LEMMA SumStep ==
  ASSUME NEW f, NEW S, IsFiniteSet(S), S # {}
  PROVE  SumFunctionOnSet(f, S) = f[Chosen(S)] + SumFunctionOnSet(f, Rest(S))
<1>1. Rest(S) \subseteq S /\ IsFiniteSet(Rest(S))
  BY RestSmaller
<1>2. PICK F : SumsOf(f, SUBSET S, F) /\ SumFunctionOnSet(f, S) = F[S]
  BY SumIsSums
<1>3. PICK G : SumsOf(f, SUBSET Rest(S), G) /\ SumFunctionOnSet(f, Rest(S)) = G[Rest(S)]
  BY <1>1, SumIsSums
<1>5. F[Rest(S)] = G[Rest(S)]
  <2> DEFINE R == Rest(S)
  <2>1. R \in SUBSET S /\ IsFiniteSet(R) /\ SumsOf(f, SUBSET R, G)
    BY <1>1, <1>3
  <2> HIDE DEF R
  <2>2. F[R] = G[R]
    BY <1>2, <2>1, SumsAgree
  <2> QED
    BY <2>2 DEF R
<1>6. F[S] = f[Chosen(S)] + F[Rest(S)]
  BY <1>2 DEF SumsOf
<1> QED
  BY <1>2, <1>3, <1>5, <1>6

(* A set that holds 0 and all its sums of two holds the larger sums.       *)
LEMMA SumsClosed ==
  ASSUME NEW f, NEW S, IsFiniteSet(S),
         NEW K, 0 \in K, \A x, y \in K : x + y \in K,
         \A x \in S : f[x] \in K
  PROVE  \A s \in SUBSET S : SumFunctionOnSet(f, s) \in K
<1> DEFINE P == {n \in Nat : \A s \in SUBSET S :
                   Cardinality(s) = n => SumFunctionOnSet(f, s) \in K}
<1>1. \A s \in SUBSET S : IsFiniteSet(s) /\ Cardinality(s) \in Nat
  BY FS_Subset, FS_CardinalityType
<1>2. 0 \in P
  BY <1>1, FS_EmptySet, SumEmpty
<1>3. ASSUME NEW n \in Nat, n \in P
      PROVE  n + 1 \in P
  <2> SUFFICES ASSUME NEW s \in SUBSET S, Cardinality(s) = n + 1
               PROVE  SumFunctionOnSet(f, s) \in K
    OBVIOUS
  <2>1. IsFiniteSet(s) /\ s # {}
    BY <1>1, FS_EmptySet
  <2>2. /\ Chosen(s) \in s
        /\ Rest(s) \subseteq s
        /\ Cardinality(Rest(s)) = n
    BY <2>1, RestSmaller
  <2>3. SumFunctionOnSet(f, Rest(s)) \in K
    BY <1>3, <2>2
  <2>4. SumFunctionOnSet(f, s) = f[Chosen(s)] + SumFunctionOnSet(f, Rest(s))
    BY <2>1, SumStep
  <2> QED
    BY <2>2, <2>3, <2>4
<1>4. Nat \subseteq P
  <2> HIDE DEF P
  <2> QED BY <1>2, <1>3, NatSet
<1> QED
  BY <1>1, <1>4

(* Sums of integers are integers, and of natural numbers natural numbers.  *)
LEMMA SumsType ==
  ASSUME NEW f, NEW S, IsFiniteSet(S), \A x \in S : f[x] \in Int
  PROVE  \A s \in SUBSET S : SumFunctionOnSet(f, s) \in Int
<1>1. 0 \in Int /\ \A x, y \in Int : x + y \in Int
  OBVIOUS
<1> DEFINE K == Int
<1>2. 0 \in K /\ (\A x, y \in K : x + y \in K) /\ \A x \in S : f[x] \in K
  BY <1>1
<1>3. \A s \in SUBSET S : SumFunctionOnSet(f, s) \in K
  <2> HIDE DEF K
  <2> QED BY <1>2, SumsClosed
<1> QED
  BY <1>3

(* An index may be taken out of the sum wherever it stands.                *)
LEMMA SumsSplit ==
  ASSUME NEW f, NEW S, IsFiniteSet(S), \A x \in S : f[x] \in Int
  PROVE  \A s \in SUBSET S : \A x \in s :
           SumFunctionOnSet(f, s) = f[x] + SumFunctionOnSet(f, s \ {x})
<1> DEFINE Good(s) == \A x \in s :
             SumFunctionOnSet(f, s) = f[x] + SumFunctionOnSet(f, s \ {x})
           P == {n \in Nat : \A s \in SUBSET S : Cardinality(s) = n => Good(s)}
<1>1. \A s \in SUBSET S : IsFiniteSet(s) /\ Cardinality(s) \in Nat
  BY FS_Subset, FS_CardinalityType
<1>2. 0 \in P
  BY <1>1, FS_EmptySet
<1>3. ASSUME NEW n \in Nat, n \in P
      PROVE  n + 1 \in P
  <2> SUFFICES ASSUME NEW s \in SUBSET S, Cardinality(s) = n + 1, NEW x \in s
               PROVE  SumFunctionOnSet(f, s) = f[x] + SumFunctionOnSet(f, s \ {x})
    OBVIOUS
  <2>1. IsFiniteSet(s) /\ s # {}
    BY <1>1, FS_EmptySet
  <2>2. PICK c \in s : SumFunctionOnSet(f, s) = f[c] + SumFunctionOnSet(f, s \ {c})
    BY <2>1, SumStep, RestSmaller DEF Rest
  <2>3. ASSUME NEW y \in s
        PROVE  s \ {y} \in SUBSET S /\ Cardinality(s \ {y}) = n
    <3>1. Cardinality(s \ {y}) = Cardinality(s) - 1
      BY <2>1, FS_RemoveElement
    <3> QED
      BY <3>1
  <2>4. \A y \in s : Good(s \ {y})
    BY <1>3, <2>3
  <2>5. CASE x = c
    BY <2>5, <2>2
  <2>6. CASE x # c
    <3> DEFINE both == SumFunctionOnSet(f, (s \ {c}) \ {x})
    <3>1. SumFunctionOnSet(f, s \ {c}) = f[x] + both
      BY <2>4, <2>6
    <3>2. (s \ {c}) \ {x} = (s \ {x}) \ {c}
      OBVIOUS
    <3>3. SumFunctionOnSet(f, s \ {x}) = f[c] + both
      BY <2>4, <2>6, <3>2
    <3>4. f[x] \in Int /\ f[c] \in Int /\ both \in Int
      BY SumsType
    <3> HIDE DEF both
    <3> QED
      BY <2>2, <3>1, <3>3, <3>4
  <2> QED
    BY <2>5, <2>6
<1>4. Nat \subseteq P
  <2> HIDE DEF P
  <2> QED BY <1>2, <1>3, NatSet
<1> QED
  BY <1>1, <1>4

(* A set of indices may be taken out of the sum.                           *)
LEMMA SumsPart ==
  ASSUME NEW f, NEW S, IsFiniteSet(S), \A x \in S : f[x] \in Int
  PROVE  \A B \in SUBSET S :
           SumFunctionOnSet(f, S) = SumFunctionOnSet(f, B) + SumFunctionOnSet(f, S \ B)
<1> DEFINE Parts(B) ==
             SumFunctionOnSet(f, S) = SumFunctionOnSet(f, B) + SumFunctionOnSet(f, S \ B)
           P == {n \in Nat : \A B \in SUBSET S : Cardinality(B) = n => Parts(B)}
<1>1. \A B \in SUBSET S : IsFiniteSet(B) /\ Cardinality(B) \in Nat
  BY FS_Subset, FS_CardinalityType
<1>2. \A B \in SUBSET S : SumFunctionOnSet(f, B) \in Int
  BY SumsType
<1>3. 0 \in P
  <2>1. SUFFICES ASSUME NEW B \in SUBSET S, Cardinality(B) = 0
                 PROVE  Parts(B)
    OBVIOUS
  <2> DEFINE E == S \ B
  <2>2. B = {} /\ E = S
    BY <1>1, <2>1, FS_EmptySet
  <2>3. SumFunctionOnSet(f, {}) = 0 /\ SumFunctionOnSet(f, S) \in Int
    BY <1>2, SumEmpty
  <2> HIDE DEF E
  <2>4. SumFunctionOnSet(f, S) = SumFunctionOnSet(f, B) + SumFunctionOnSet(f, E)
    BY <2>2, <2>3
  <2> QED
    BY <2>4 DEF E
<1>4. ASSUME NEW n \in Nat, n \in P
      PROVE  n + 1 \in P
  <2> SUFFICES ASSUME NEW B \in SUBSET S, Cardinality(B) = n + 1
               PROVE  Parts(B)
    OBVIOUS
  <2>1. B # {} /\ IsFiniteSet(B)
    BY <1>1, FS_EmptySet
  <2> DEFINE c == Chosen(B)
             A == Rest(B)
  <2>2. /\ c \in B
        /\ A = B \ {c}
        /\ A \in SUBSET S
        /\ Cardinality(A) = n
    BY <2>1, RestSmaller DEF Rest
  <2>3. Parts(A)
    BY <1>4, <2>2
  <2>4. SumFunctionOnSet(f, B) = f[c] + SumFunctionOnSet(f, A)
    BY <2>1, SumStep
  <2> DEFINE D == S \ A
             E == S \ B
  <2>5. D \in SUBSET S /\ c \in D /\ E = D \ {c} /\ E \in SUBSET S
    BY <2>2
  <2>6. f[c] \in Int /\ A \in SUBSET S
    BY <2>2
  <2>7. SumFunctionOnSet(f, S) = SumFunctionOnSet(f, A) + SumFunctionOnSet(f, D)
    BY <2>3
  <2> HIDE DEF c, A, D, E
  <2>8. SumFunctionOnSet(f, D) = f[c] + SumFunctionOnSet(f, E)
    BY <2>5, SumsSplit
  <2>9. SumFunctionOnSet(f, A) \in Int /\ SumFunctionOnSet(f, E) \in Int
    BY <1>2, <2>5, <2>6
  <2>10. SumFunctionOnSet(f, S) = SumFunctionOnSet(f, B) + SumFunctionOnSet(f, E)
    BY <2>4, <2>6, <2>7, <2>8, <2>9
  <2> QED
    BY <2>10 DEF E
<1>5. Nat \subseteq P
  <2> HIDE DEF P
  <2> QED BY <1>3, <1>4, NatSet
<1> QED
  BY <1>1, <1>5

-----------------------------------------------------------------------------
(* What a program changes in a function, in terms of its sum.              *)

(* The sum of all values is an integer.                                    *)
LEMMA SumType ==
  ASSUME NEW f, IsFiniteSet(DOMAIN f), \A x \in DOMAIN f : f[x] \in Int
  PROVE  SumFunction(f) \in Int
  BY SumsType DEF SumFunction

(* A new index adds its value to the sum.                                  *)
LEMMA SumWith ==
  ASSUME NEW h, IsFiniteSet(DOMAIN h), \A x \in DOMAIN h : h[x] \in Int,
         NEW b, b \notin DOMAIN h, NEW n \in Int
  PROVE  SumFunction([x \in DOMAIN h \cup {b} |-> IF x = b THEN n ELSE h[x]])
           = SumFunction(h) + n
<1> DEFINE S == DOMAIN h
           T == S \cup {b}
           g == [x \in T |-> IF x = b THEN n ELSE h[x]]
<1>1. /\ b \in T
      /\ T \ {b} = S
      /\ DOMAIN g = T
      /\ \A x \in T : g[x] \in Int
      /\ \A x \in S : g[x] = h[x]
      /\ g[b] = n
  OBVIOUS
<1>2. IsFiniteSet(T) /\ IsFiniteSet(S)
  BY FS_AddElement
<1> HIDE DEF g, T, S
<1>3. SumFunctionOnSet(g, T) = n + SumFunctionOnSet(g, S)
  BY <1>1, <1>2, SumsSplit
<1>4. SumFunctionOnSet(g, S) = SumFunctionOnSet(h, S)
  BY <1>1, <1>2, SumAgrees
<1>5. SumFunctionOnSet(h, S) \in Int
  BY <1>2, SumsType DEF S
<1>6. SumFunction(g) = SumFunction(h) + n
  BY <1>1, <1>3, <1>4, <1>5 DEF SumFunction, S
<1> QED
  BY <1>6 DEF g, T, S

(* Indices that leave take their values out of the sum.                    *)
LEMMA SumWithout ==
  ASSUME NEW h, IsFiniteSet(DOMAIN h), \A x \in DOMAIN h : h[x] \in Int,
         NEW B \in SUBSET DOMAIN h
  PROVE  SumFunction([x \in DOMAIN h \ B |-> h[x]])
           = SumFunction(h) - SumFunctionOnSet(h, B)
<1> DEFINE S == DOMAIN h
           T == S \ B
           g == [x \in T |-> h[x]]
<1>1. DOMAIN g = T /\ T \in SUBSET S /\ \A x \in T : g[x] = h[x]
  OBVIOUS
<1>2. IsFiniteSet(S) /\ IsFiniteSet(T)
  BY FS_Difference
<1>3. SumFunctionOnSet(h, S) = SumFunctionOnSet(h, B) + SumFunctionOnSet(h, T)
  BY SumsPart
<1>4. SumFunctionOnSet(h, B) \in Int /\ SumFunctionOnSet(h, T) \in Int
  BY SumsType
<1> HIDE DEF g, T, S
<1>5. SumFunctionOnSet(g, T) = SumFunctionOnSet(h, T)
  BY <1>1, <1>2, SumAgrees
<1>6. SumFunction(g) = SumFunction(h) - SumFunctionOnSet(h, B)
  BY <1>1, <1>3, <1>4, <1>5 DEF SumFunction, S
<1> QED
  BY <1>6 DEF g, T, S

(* One index.                                                              *)
LEMMA SumOne ==
  ASSUME NEW h, NEW b, h[b] \in Int
  PROVE  SumFunctionOnSet(h, {b}) = h[b]
<1> DEFINE S == {b}
<1>1. IsFiniteSet(S) /\ S # {} /\ Chosen(S) = b /\ Rest(S) = {}
  BY FS_Singleton DEF Chosen, Rest
<1> HIDE DEF S
<1>2. SumFunctionOnSet(h, S) = h[b] + SumFunctionOnSet(h, {})
  BY <1>1, SumStep
<1> QED
  BY <1>2, SumEmpty DEF S

(* Two indices.                                                            *)
LEMMA SumTwo ==
  ASSUME NEW h, NEW a, NEW b, a # b, h[a] \in Int, h[b] \in Int
  PROVE  SumFunctionOnSet(h, {a, b}) = h[a] + h[b]
<1> DEFINE S == {a, b}
           T == S \ {a}
<1>1. IsFiniteSet(S) /\ a \in S /\ \A x \in S : h[x] \in Int
  <2>1. IsFiniteSet({a} \cup {b})
    BY FS_Singleton, FS_AddElement
  <2>2. {a} \cup {b} = S
    OBVIOUS
  <2> HIDE DEF S
  <2>3. IsFiniteSet(S)
    BY <2>1, <2>2
  <2> QED
    BY <2>3 DEF S
<1>2. T = {b}
  OBVIOUS
<1>3. SumFunctionOnSet(h, {b}) = h[b]
  BY SumOne
<1> HIDE DEF S, T
<1>4. SumFunctionOnSet(h, S) = h[a] + SumFunctionOnSet(h, T)
  BY <1>1, SumsSplit DEF T
<1>5. SumFunctionOnSet(h, S) = h[a] + h[b]
  BY <1>2, <1>3, <1>4
<1> QED
  BY <1>5 DEF S

-----------------------------------------------------------------------------
(* Remainders, which the provers do not reason about when the modulus is a *)
(* constant of the specification.                                          *)

(* A remainder is smaller than the modulus.                                *)
LEMMA ModRange ==
  ASSUME NEW m \in Nat \ {0}, NEW a \in Int
  PROVE  a % m \in 0 .. m - 1
  OBVIOUS

(* Division with remainder.                                                *)
LEMMA DivMod ==
  ASSUME NEW m \in Nat \ {0}, NEW a \in Int
  PROVE  a \div m \in Int /\ a = (a \div m) * m + (a % m)
  OBVIOUS

(* The only multiple of m between -m and m is 0.                           *)
LEMMA SmallMultiple ==
  ASSUME NEW m \in Nat \ {0}, NEW k \in Int, k * m < m, -m < k * m
  PROVE  k = 0
<1>1. CASE k >= 1
  <2>1. k * m >= m
    <3>1. (k - 1) * m \in Nat
      BY <1>1, SMT
    <3> QED
      BY <3>1
  <2> QED
    BY <2>1
<1>2. CASE k <= -1
  <2>1. -k * m >= m
    <3>1. (-k - 1) * m \in Nat
      BY <1>2, SMT
    <3> QED
      BY <3>1
  <2> QED
    BY <2>1
<1> QED
  BY <1>1, <1>2

(* There is only one remainder.                                            *)
LEMMA ModUnique ==
  ASSUME NEW m \in Nat \ {0}, NEW a \in Int, NEW q \in Int, NEW r \in 0 .. m - 1,
         a = q * m + r
  PROVE  a % m = r
<1>1. a = (a \div m) * m + (a % m) /\ a \div m \in Int /\ a % m \in 0 .. m - 1
  BY DivMod, ModRange
<1> DEFINE d == a \div m
           s == a % m
<1>2. a = d * m + s /\ d \in Int /\ s \in 0 .. m - 1
  BY <1>1
<1> HIDE DEF d, s
<1>3. (q - d) * m = s - r
  BY <1>2
<1>4. q - d = 0
  <2> DEFINE k == q - d
  <2>1. k \in Int /\ k * m < m /\ -m < k * m
    BY <1>2, <1>3
  <2> HIDE DEF k
  <2>2. k = 0
    BY <2>1, SmallMultiple
  <2> QED
    BY <2>2 DEF k
<1>5. s = r
  BY <1>2, <1>3, <1>4
<1> QED
  BY <1>5 DEF s

(* A counter may be reduced before or after an addition.                   *)
LEMMA ModAdd ==
  ASSUME NEW m \in Nat \ {0}, NEW a \in Int, NEW b \in Int
  PROVE  ((a % m) + b) % m = (a + b) % m
<1> DEFINE d == a \div m
           r == a % m
           e == (a + b) \div m
           s == (a + b) % m
<1>1. a = d * m + r /\ d \in Int /\ r \in 0 .. m - 1
  BY DivMod, ModRange
<1>2. a + b = e * m + s /\ e \in Int /\ s \in 0 .. m - 1
  <2> DEFINE c == a + b
  <2>1. c \in Int /\ s = c % m /\ e = c \div m
    OBVIOUS
  <2> HIDE DEF c, e, s
  <2>2. c = e * m + s /\ e \in Int /\ s \in 0 .. m - 1
    BY <2>1, DivMod, ModRange
  <2> QED
    BY <2>2 DEF c
<1> HIDE DEF d, r, e, s
<1>3. r + b = (e - d) * m + s /\ e - d \in Int /\ r + b \in Int
  BY <1>1, <1>2
<1>4. (r + b) % m = s
  <2> DEFINE x == r + b
             q == e - d
  <2>1. x \in Int /\ q \in Int /\ x = q * m + s
    BY <1>3
  <2> HIDE DEF x, q
  <2>2. x % m = s
    BY <2>1, <1>2, ModUnique
  <2> QED
    BY <2>2 DEF x
<1> QED
  BY <1>4 DEF r, s

(* The invariant: the live blocks can be counted up, which is what the     *)
(* total is compared with.                                                 *)
HeapFinite == IsFiniteSet(DOMAIN heap)

IInv == TypeOK /\ HeapFinite /\ AccountingExact

-----------------------------------------------------------------------------
(* The books balance when the counter moves by n, the heap by s and the    *)
(* miscount by d, and n is s and d together.                               *)
LEMMA Balance ==
  ASSUME NEW M \in Nat \ {0}, NEW sum \in Int, NEW old \in Int,
         NEW n \in Int, NEW s \in Int, NEW d \in Int, n = s + d
  PROVE  (((sum + old) % M) + n) % M = ((sum + s) + ((old + d) % M)) % M
<1> DEFINE a == sum + old
           b == old + d
           c == sum + s
<1>1. a \in Int /\ b \in Int /\ c \in Int
  OBVIOUS
<1>2. a + n = b + c
  OBVIOUS
<1> HIDE DEF a, b, c
<1>3. ((a % M) + n) % M = (a + n) % M
  BY <1>1, ModAdd
<1>4. ((b % M) + c) % M = (b + c) % M
  BY <1>1, ModAdd
<1>5. (b % M) + c = c + (b % M)
  BY <1>1, ModRange
<1>6. ((a % M) + n) % M = (c + (b % M)) % M
  BY <1>2, <1>3, <1>4, <1>5
<1> QED
  BY <1>6 DEF a, b, c

(* The same when the miscount stays.                                       *)
LEMMA BalanceSame ==
  ASSUME NEW M \in Nat \ {0}, NEW sum \in Int, NEW old \in Int, NEW n \in Int
  PROVE  (((sum + old) % M) + n) % M = ((sum + n) + old) % M
<1> DEFINE a == sum + old
<1>1. a \in Int /\ a + n = (sum + n) + old
  OBVIOUS
<1> HIDE DEF a
<1>2. ((a % M) + n) % M = (a + n) % M
  BY <1>1, ModAdd
<1> QED
  BY <1>1, <1>2 DEF a

-----------------------------------------------------------------------------
(* A new block.                                                            *)
LEMMA WithHeap ==
  ASSUME IInv, NEW b \in Block, b \notin DOMAIN heap, NEW n \in Nat,
         heap' = With(heap, b, n)
  PROVE  /\ DOMAIN heap' \subseteq Block
         /\ heap' \in [DOMAIN heap' -> Nat]
         /\ HeapFinite'
         /\ SumFunction(heap') = SumFunction(heap) + n
         /\ SumFunction(heap) \in Int
<1>1. /\ DOMAIN heap \subseteq Block
      /\ heap \in [DOMAIN heap -> Nat]
      /\ IsFiniteSet(DOMAIN heap)
      /\ \A x \in DOMAIN heap : heap[x] \in Int
  BY DEF IInv, TypeOK, HeapFinite
<1>2. SumFunction(With(heap, b, n)) = SumFunction(heap) + n
  <2>1. n \in Int
    OBVIOUS
  <2> QED
    BY <1>1, <2>1, SumWith DEF With
<1>3. SumFunction(heap) \in Int
  BY <1>1, SumType
<1>4. /\ DOMAIN heap' = DOMAIN heap \cup {b}
      /\ heap' \in [DOMAIN heap' -> Nat]
  BY <1>1 DEF With
<1>5. IsFiniteSet(DOMAIN heap \cup {b})
  BY <1>1, FS_AddElement
<1> QED
  BY <1>1, <1>2, <1>3, <1>4, <1>5 DEF HeapFinite

(* A released block.                                                       *)
LEMMA WithoutHeap ==
  ASSUME IInv, NEW b \in DOMAIN heap, heap' = Without(heap, {b})
  PROVE  /\ DOMAIN heap' \subseteq Block
         /\ heap' \in [DOMAIN heap' -> Nat]
         /\ HeapFinite'
         /\ SumFunction(heap') = SumFunction(heap) - heap[b]
         /\ SumFunction(heap) \in Int
         /\ heap[b] \in Nat
<1> DEFINE B == {b}
<1>1. /\ DOMAIN heap \subseteq Block
      /\ heap \in [DOMAIN heap -> Nat]
      /\ IsFiniteSet(DOMAIN heap)
      /\ \A x \in DOMAIN heap : heap[x] \in Int
      /\ B \in SUBSET DOMAIN heap
      /\ heap[b] \in Nat
  BY DEF IInv, TypeOK, HeapFinite
<1>2. SumFunctionOnSet(heap, B) = heap[b]
  BY <1>1, SumOne
<1> HIDE DEF B
<1>3. SumFunction(Without(heap, B)) = SumFunction(heap) - SumFunctionOnSet(heap, B)
  BY <1>1, SumWithout DEF Without
<1>4. SumFunction(heap) \in Int
  BY <1>1, SumType
<1>5. heap' = Without(heap, B)
  BY DEF B
<1>6. /\ DOMAIN heap' = DOMAIN heap \ B
      /\ heap' \in [DOMAIN heap' -> Nat]
  BY <1>1, <1>5 DEF Without
<1>7. IsFiniteSet(DOMAIN heap \ B)
  BY <1>1, FS_Difference
<1> QED
  BY <1>1, <1>2, <1>3, <1>4, <1>5, <1>6, <1>7 DEF HeapFinite

(* Counting keeps the counter in its width.                                *)
LEMMA CountType ==
  ASSUME MallocAssumption, TypeOK, NEW n \in Int, Count(n)
  PROVE  allocated_mem_size' \in 0 .. MemMod - 1
<1>1. allocated_mem_size + n \in Int
  BY DEF TypeOK, MallocAssumption
<1> QED
  BY <1>1, ModRange DEF Count, MallocAssumption

-----------------------------------------------------------------------------
(* The wrappers over the pools, in the hands of a client.                  *)
LEMMA PoolInv ==
  ASSUME MallocAssumption, IInv, NEW b \in Block, b \notin DOMAIN heap,
         NEW n \in Nat, NEW ok \in BOOLEAN, PoolAlloc(b, n, ok), UNCHANGED drift
  PROVE  IInv'
<1>1. /\ allocated_mem_size = (SumFunction(heap) + drift) % MemMod
      /\ drift \in Int /\ n \in Int /\ MemMod \in Nat \ {0}
  BY DEF IInv, TypeOK, AccountingExact, MallocAssumption
<1>2. CASE ok
  <2>1. heap' = With(heap, b, n) /\ Count(n)
    BY <1>2 DEF PoolAlloc
  <2>2. /\ DOMAIN heap' \subseteq Block
        /\ heap' \in [DOMAIN heap' -> Nat]
        /\ HeapFinite'
        /\ SumFunction(heap') = SumFunction(heap) + n
        /\ SumFunction(heap) \in Int
    BY <2>1, WithHeap
  <2>3. allocated_mem_size' \in 0 .. MemMod - 1
    BY <1>1, <2>1, CountType DEF IInv
  <2>4. (((SumFunction(heap) + drift) % MemMod) + n) % MemMod
          = ((SumFunction(heap) + n) + drift) % MemMod
    BY <1>1, <2>2, BalanceSame
  <2>5. AccountingExact'
    BY <1>1, <2>1, <2>2, <2>4 DEF Count, AccountingExact
  <2> QED
    BY <2>2, <2>3, <2>5 DEF IInv, TypeOK
<1>3. CASE ~ok
  BY <1>3 DEF PoolAlloc, memVars, IInv, TypeOK, HeapFinite, AccountingExact
<1> QED
  BY <1>2, <1>3

(* The wrappers over the C library count k bytes, while n or none are      *)
(* handed out; the difference is what they miscount.                       *)
LEMMA LibcInv ==
  ASSUME MallocAssumption, IInv, NEW b \in Block, b \notin DOMAIN heap,
         NEW n \in Nat, NEW k \in Nat, NEW ok \in BOOLEAN, NEW d \in Int,
         Count(k), heap' = IF ok THEN With(heap, b, n) ELSE heap,
         drift' = (drift + d) % MemMod, d = IF ok THEN k - n ELSE k
  PROVE  IInv'
<1> DEFINE s == IF ok THEN n ELSE 0
<1>1. /\ allocated_mem_size = (SumFunction(heap) + drift) % MemMod
      /\ drift \in Int /\ s \in Int /\ k \in Int /\ MemMod \in Nat \ {0}
      /\ k = s + d
  BY DEF IInv, TypeOK, AccountingExact, MallocAssumption
<1>2. /\ DOMAIN heap' \subseteq Block
      /\ heap' \in [DOMAIN heap' -> Nat]
      /\ HeapFinite'
      /\ SumFunction(heap') = SumFunction(heap) + s
      /\ SumFunction(heap) \in Int
  <2>1. CASE ok
    BY <2>1, WithHeap
  <2>2. CASE ~ok
    <3>1. SumFunction(heap) \in Int
      BY SumType DEF IInv, TypeOK, HeapFinite
    <3> QED
      BY <2>2, <3>1 DEF IInv, TypeOK, HeapFinite
  <2> QED
    BY <2>1, <2>2
<1> HIDE DEF s
<1>3. allocated_mem_size' \in 0 .. MemMod - 1
  BY <1>1, CountType DEF IInv
<1>4. drift' \in 0 .. MemMod - 1
  <2>1. drift + d \in Int
    BY <1>1
  <2> QED
    BY <1>1, <2>1, ModRange
<1>5. (((SumFunction(heap) + drift) % MemMod) + k) % MemMod
        = ((SumFunction(heap) + s) + ((drift + d) % MemMod)) % MemMod
  BY <1>1, <1>2, Balance
<1>6. AccountingExact'
  BY <1>1, <1>2, <1>5 DEF Count, AccountingExact
<1> QED
  BY <1>2, <1>3, <1>4, <1>6 DEF IInv, TypeOK

(* A release takes its size off the counter.                               *)
LEMMA ReleaseInv ==
  ASSUME MallocAssumption, IInv, NEW b \in DOMAIN heap,
         Release({b}, heap[b]), UNCHANGED drift
  PROVE  IInv'
<1>1. /\ allocated_mem_size = (SumFunction(heap) + drift) % MemMod
      /\ drift \in Int /\ MemMod \in Nat \ {0}
  BY DEF IInv, TypeOK, AccountingExact, MallocAssumption
<1>2. heap' = Without(heap, {b}) /\ Count(-heap[b])
  BY DEF Release
<1>3. /\ DOMAIN heap' \subseteq Block
      /\ heap' \in [DOMAIN heap' -> Nat]
      /\ HeapFinite'
      /\ SumFunction(heap') = SumFunction(heap) - heap[b]
      /\ SumFunction(heap) \in Int
      /\ heap[b] \in Nat
  BY <1>2, WithoutHeap
<1> DEFINE n == -heap[b]
<1>4. n \in Int /\ SumFunction(heap') = SumFunction(heap) + n /\ Count(n)
  BY <1>2, <1>3
<1> HIDE DEF n
<1>5. allocated_mem_size' \in 0 .. MemMod - 1
  BY <1>4, CountType DEF IInv
<1>6. (((SumFunction(heap) + drift) % MemMod) + n) % MemMod
        = ((SumFunction(heap) + n) + drift) % MemMod
  BY <1>1, <1>3, <1>4, BalanceSame
<1>7. AccountingExact'
  BY <1>1, <1>4, <1>6 DEF Count, AccountingExact
<1> QED
  BY <1>3, <1>5, <1>7 DEF IInv, TypeOK

-----------------------------------------------------------------------------
(* An empty heap and an empty counter agree.                               *)
LEMMA InitInv == MallocAssumption /\ Init => IInv
<1> SUFFICES ASSUME MallocAssumption, Init
             PROVE  IInv
  OBVIOUS
<1>1. /\ heap = << >> /\ allocated_mem_size = 0 /\ drift = 0
      /\ MemMod \in Nat \ {0}
  BY DEF Init, MallocAssumption
<1>2. DOMAIN heap = {}
  BY <1>1
<1>3. SumFunction(heap) = 0
  BY <1>2, SumEmpty DEF SumFunction
<1>4. 0 % MemMod = 0
  <2>1. 0 = 0 * MemMod + 0 /\ 0 \in 0 .. MemMod - 1
    BY <1>1
  <2> QED
    BY <1>1, <2>1, ModUnique
<1>5. IsFiniteSet(DOMAIN heap)
  BY <1>2, FS_EmptySet
<1>6. TypeOK
  BY <1>1, <1>2 DEF TypeOK
<1> QED
  BY <1>1, <1>3, <1>4, <1>5, <1>6 DEF IInv, HeapFinite, AccountingExact

(* Every call keeps the invariant.                                         *)
LEMMA NextInv == MallocAssumption /\ IInv /\ [Next]_vars => IInv'
<1> SUFFICES ASSUME MallocAssumption, IInv, [Next]_vars
             PROVE  IInv'
  OBVIOUS
<1>1. Size \subseteq Nat /\ Num \subseteq Nat /\ \A a, b \in Nat : a * b \in Nat
  BY DEF MallocAssumption
<1>2. ASSUME NEW b \in Block, AllocateFromPool(b)
      PROVE  IInv'
  <2>1. PICK n \in Size, ok \in BOOLEAN :
          \/ PoolAlloc(b, n, ok)
          \/ \E num \in Num : PoolAlloc(b, num * n, ok)
    BY <1>2 DEF AllocateFromPool, txd_malloc_spdk, txd_zmalloc_spdk,
                txd_malloc_dpdk, txd_zmalloc_dpdk, txd_calloc_dpdk
  <2>2. b \notin DOMAIN heap /\ UNCHANGED drift
    BY <1>2 DEF AllocateFromPool
  <2>3. CASE PoolAlloc(b, n, ok)
    BY <1>1, <2>2, <2>3, PoolInv
  <2>4. ASSUME NEW num \in Num, PoolAlloc(b, num * n, ok)
        PROVE  IInv'
    <3> DEFINE k == num * n
    <3>1. k \in Nat
      BY <1>1
    <3>2. PoolAlloc(b, k, ok)
      BY <2>4
    <3> HIDE DEF k
    <3> QED
      BY <2>2, <3>1, <3>2, PoolInv
  <2> QED
    BY <2>1, <2>3, <2>4
<1>3. ASSUME NEW b \in Block, AllocateFromLibc(b)
      PROVE  IInv'
  <2>1. PICK n \in Size, num \in Num, ok \in BOOLEAN :
          \/ /\ txd_malloc(b, n, ok)
             /\ drift' = (drift + (IF ok THEN 0 ELSE n)) % MemMod
          \/ /\ txd_calloc(b, num, n, ok)
             /\ drift' = (drift + (IF ok THEN n - num * n ELSE n)) % MemMod
    BY <1>3 DEF AllocateFromLibc
  <2>2. b \notin DOMAIN heap /\ n \in Nat /\ num \in Nat
    BY <1>1, <1>3 DEF AllocateFromLibc
  <2>3. CASE /\ txd_malloc(b, n, ok)
             /\ drift' = (drift + (IF ok THEN 0 ELSE n)) % MemMod
    <3> DEFINE d == IF ok THEN 0 ELSE n
    <3>1. /\ Count(n) /\ heap' = (IF ok THEN With(heap, b, n) ELSE heap)
          /\ drift' = (drift + d) % MemMod
          /\ d \in Int /\ d = IF ok THEN n - n ELSE n
      BY <2>2, <2>3 DEF txd_malloc
    <3> HIDE DEF d
    <3> QED
      BY <2>2, <3>1, LibcInv
  <2>4. CASE /\ txd_calloc(b, num, n, ok)
             /\ drift' = (drift + (IF ok THEN n - num * n ELSE n)) % MemMod
    <3> DEFINE k == num * n
               d == IF ok THEN n - k ELSE n
    <3>1. k \in Nat
      BY <1>1, <2>2
    <3>2. /\ Count(n) /\ heap' = (IF ok THEN With(heap, b, k) ELSE heap)
          /\ drift' = (drift + d) % MemMod
      BY <2>4 DEF txd_calloc
    <3> HIDE DEF k
    <3>3. d \in Int /\ d = IF ok THEN n - k ELSE n
      BY <2>2, <3>1
    <3> HIDE DEF d
    <3> QED
      BY <2>2, <3>1, <3>2, <3>3, LibcInv
  <2> QED
    BY <2>1, <2>3, <2>4
<1>4. ASSUME NEW b \in Block, Deallocate(b)
      PROVE  IInv'
  <2>1. b \in DOMAIN heap /\ UNCHANGED drift /\ Release({b}, heap[b])
    BY <1>4 DEF Deallocate, txd_free_spdk, txd_free_dpdk, txd_free
  <2> QED
    BY <2>1, ReleaseInv
<1>5. CASE UNCHANGED vars
  BY <1>5 DEF vars, memVars, IInv, TypeOK, HeapFinite, AccountingExact
<1> QED
  BY <1>2, <1>3, <1>4, <1>5 DEF Next

-----------------------------------------------------------------------------
(* The invariant holds whatever is allocated and released in what order.   *)
THEOREM Invariant == Spec => []IInv
<1>1. MallocAssumption
  BY MallocAssumption
<1> QED
  BY <1>1, InitInv, NextInv, PTL DEF Spec

(* The total that txd_allocated_mem_info prints is the number of bytes in  *)
(* live blocks, but for what txd_malloc and txd_calloc miscount.           *)
THEOREM AccountingExactHolds == Spec => []AccountingExact
<1>1. IInv => AccountingExact
  BY DEF IInv
<1> QED
  BY <1>1, Invariant, PTL

(* The heap and the counter keep their types.                              *)
THEOREM MallocTypeOK == Spec => []TypeOK
<1>1. IInv => TypeOK
  BY DEF IInv
<1> QED
  BY <1>1, Invariant, PTL
=============================================================================

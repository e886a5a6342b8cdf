--------------------------- MODULE TxdAtomicProofs ---------------------------
(***************************************************************************)
(* Proofs about TxdAtomic, for every set of threads and every width of an  *)
(* int.                                                                    *)
(***************************************************************************)
EXTENDS TxdAtomic, WellFoundedInduction, FiniteSetTheorems, TLAPS

-----------------------------------------------------------------------------
(* Sums of the values of a function: the references the threads hold.      *)
(*                                                                         *)
(* SumFunctionOnSet is a recursive function that CHOOSEs the index to add  *)
(* next.  Its values are found by induction on the number of indices, in   *)
(* the form of NatSet, which speaks of sets of numbers and not of          *)
(* operators.                                                              *)

(* Induction: a set of numbers that has 0 and the successor of each number *)
(* it has, has them all.                                                   *)
LEMMA NatSet ==
  ASSUME NEW P, 0 \in P, \A n \in Nat : n \in P => n + 1 \in P
  PROVE  Nat \subseteq P
<1> DEFINE R == OpToRel(<, Nat)
<1>1. \A x, y \in Nat : x < y => <<x, y>> \in R
  BY DEF OpToRel
<1>2. IsWellFoundedOn(R, Nat)
  BY NatLessThanWellFounded
<1> HIDE DEF R
<1> DEFINE T == Nat \ P
<1>3. SUFFICES ASSUME T # {} PROVE FALSE
  OBVIOUS
<1>4. PICK m \in T : \A y \in T : ~(<<y, m>> \in R)
  <2> HIDE DEF T
  <2> T \subseteq Nat
    BY DEF T
  <2> QED BY <1>2, <1>3, WFMin
<1>5. m # 0 /\ m - 1 \in Nat /\ m - 1 < m
  OBVIOUS
<1>6. <<m - 1, m>> \in R
  BY <1>1, <1>5
<1> QED
  BY <1>4, <1>5, <1>6

(* SumFunctionOnSet, unfolded: F holds the sums over the sets of D.        *)
Chosen(s) == CHOOSE x \in s : TRUE
Rest(s)   == s \ {Chosen(s)}

SumsOf(f, D, F) ==
  F = [s \in D |-> IF s = {} THEN 0 ELSE f[Chosen(s)] + F[Rest(s)]]

(* The chosen index is in the set, and the rest is one smaller.            *)
LEMMA RestSmaller ==
  ASSUME NEW s, IsFiniteSet(s), s # {}
  PROVE  /\ Chosen(s) \in s
         /\ Rest(s) \subseteq s
         /\ IsFiniteSet(Rest(s))
         /\ Cardinality(Rest(s)) = Cardinality(s) - 1
         /\ Cardinality(s) \in Nat
         /\ Cardinality(s) # 0
<1>1. Chosen(s) \in s
  BY DEF Chosen
<1>2. Cardinality(s) \in Nat /\ Cardinality(s) # 0
  BY FS_CardinalityType, FS_EmptySet
<1> QED
  BY <1>1, <1>2, FS_RemoveElement DEF Rest

(* A function of all the sums over parts of a finite set exists: a longer  *)
(* one is built from a shorter.                                            *)
LEMMA SumsExist ==
  ASSUME NEW f, NEW S, IsFiniteSet(S)
  PROVE  \E F : SumsOf(f, SUBSET S, F)
<1> DEFINE Small(n) == {s \in SUBSET S : Cardinality(s) <= n}
           P == {n \in Nat : \E F : SumsOf(f, Small(n), F)}
<1>1. \A s \in SUBSET S : IsFiniteSet(s) /\ Cardinality(s) \in Nat /\ Cardinality(s) <= Cardinality(S)
  BY FS_Subset, FS_CardinalityType
<1>2. 0 \in P
  <2> DEFINE F == [s \in Small(0) |-> 0]
  <2>1. \A s \in Small(0) : s = {}
    BY <1>1, FS_EmptySet
  <2>2. SumsOf(f, Small(0), F)
    BY <2>1 DEF SumsOf
  <2> QED
    BY <2>2
<1>3. ASSUME NEW n \in Nat, n \in P
      PROVE  n + 1 \in P
  <2>1. PICK F : SumsOf(f, Small(n), F)
    BY <1>3
  <2> DEFINE G == [s \in Small(n + 1) |-> IF s = {} THEN 0 ELSE f[Chosen(s)] + F[Rest(s)]]
  <2>2. \A s \in Small(n + 1) : s # {} => Rest(s) \in Small(n)
    BY <1>1, RestSmaller
  <2>3. \A s \in Small(n) : s \in Small(n + 1)
    BY <1>1
  <2>4. \A s \in Small(n) : F[s] = G[s]
    BY <2>1, <2>3 DEF SumsOf
  <2>5. SumsOf(f, Small(n + 1), G)
    BY <2>2, <2>4 DEF SumsOf
  <2> HIDE DEF G, Small
  <2> QED
    BY <2>5
<1>4. Nat \subseteq P
  <2> HIDE DEF P
  <2> QED BY <1>2, <1>3, NatSet
<1>5. Cardinality(S) \in Nat
  BY FS_CardinalityType
<1>6. Small(Cardinality(S)) = SUBSET S
  BY <1>1
<1>7. \E F : SumsOf(f, Small(Cardinality(S)), F)
  BY <1>4, <1>5
<1> QED
  BY <1>6, <1>7

(* SumFunctionOnSet is the value of such a function.                       *)
LEMMA SumIsSums ==
  ASSUME NEW f, NEW S, IsFiniteSet(S)
  PROVE  \E F : SumsOf(f, SUBSET S, F) /\ SumFunctionOnSet(f, S) = F[S]
<1>1. SumFunctionOnSet(f, S) = (CHOOSE F : SumsOf(f, SUBSET S, F))[S]
  BY DEF SumFunctionOnSet, FoldFunctionOnSet, MapThenFoldSet, SumsOf, Chosen,
         Rest
<1> QED
  BY <1>1, SumsExist

(* Two such functions agree where both are defined.                        *)
LEMMA SumsAgree ==
  ASSUME NEW f, NEW S, NEW F, NEW G, NEW U \in SUBSET S, IsFiniteSet(U),
         SumsOf(f, SUBSET S, F), SumsOf(f, SUBSET U, G)
  PROVE  F[U] = G[U]
<1> DEFINE P == {n \in Nat : \A s \in SUBSET U : Cardinality(s) = n => F[s] = G[s]}
<1>1. \A s \in SUBSET U : IsFiniteSet(s) /\ Cardinality(s) \in Nat
  BY FS_Subset, FS_CardinalityType
<1>2. \A s \in SUBSET U :
        /\ F[s] = IF s = {} THEN 0 ELSE f[Chosen(s)] + F[Rest(s)]
        /\ G[s] = IF s = {} THEN 0 ELSE f[Chosen(s)] + G[Rest(s)]
  BY DEF SumsOf
<1>3. 0 \in P
  BY <1>1, <1>2, FS_EmptySet
<1>4. ASSUME NEW n \in Nat, n \in P
      PROVE  n + 1 \in P
  <2> SUFFICES ASSUME NEW s \in SUBSET U, Cardinality(s) = n + 1
               PROVE  F[s] = G[s]
    OBVIOUS
  <2>1. s # {}
    BY <1>1, FS_EmptySet
  <2>2. /\ Chosen(s) \in s
        /\ Rest(s) \subseteq s
        /\ Cardinality(Rest(s)) = n
    BY <1>1, <2>1, RestSmaller
  <2>3. F[Rest(s)] = G[Rest(s)]
    BY <1>4, <2>2
  <2> QED
    BY <1>2, <2>1, <2>2, <2>3
<1>5. Nat \subseteq P
  <2> HIDE DEF P
  <2> QED BY <1>3, <1>4, NatSet
<1> QED
  BY <1>1, <1>5

(* Sums depend only on the values at the indices summed up.                *)
LEMMA SumAgrees ==
  ASSUME NEW f, NEW g, NEW S, IsFiniteSet(S), \A x \in S : f[x] = g[x]
  PROVE  SumFunctionOnSet(f, S) = SumFunctionOnSet(g, S)
<1>1. PICK F : SumsOf(f, SUBSET S, F) /\ SumFunctionOnSet(f, S) = F[S]
  BY SumIsSums
<1>2. PICK G : SumsOf(g, SUBSET S, G) /\ SumFunctionOnSet(g, S) = G[S]
  BY SumIsSums
<1>3. \A s \in SUBSET S : s # {} => Chosen(s) \in S
  BY DEF Chosen
<1>4. SumsOf(f, SUBSET S, G)
  BY <1>2, <1>3 DEF SumsOf
<1>5. F[S] = G[S]
  <2> DEFINE U == S
  <2>1. U \in SUBSET S /\ IsFiniteSet(U) /\ SumsOf(f, SUBSET U, G)
    BY <1>4
  <2> HIDE DEF U
  <2>2. F[U] = G[U]
    BY <1>1, <2>1, SumsAgree
  <2> QED
    BY <2>2 DEF U
<1> QED
  BY <1>1, <1>2, <1>5

(* Nothing sums up to 0.                                                   *)
LEMMA SumEmpty == \A f : SumFunctionOnSet(f, {}) = 0
<1> TAKE f
<1>1. IsFiniteSet({})
  BY FS_EmptySet
<1>2. PICK F : SumsOf(f, SUBSET {}, F) /\ SumFunctionOnSet(f, {}) = F[{}]
  BY <1>1, SumIsSums
<1> QED
  BY <1>2 DEF SumsOf

(* One step of the summation.                                              *)
LEMMA SumStep ==
  ASSUME NEW f, NEW S, IsFiniteSet(S), S # {}
  PROVE  SumFunctionOnSet(f, S) = f[Chosen(S)] + SumFunctionOnSet(f, Rest(S))
<1>1. Rest(S) \subseteq S /\ IsFiniteSet(Rest(S))
  BY RestSmaller
<1>2. PICK F : SumsOf(f, SUBSET S, F) /\ SumFunctionOnSet(f, S) = F[S]
  BY SumIsSums
<1>3. PICK G : SumsOf(f, SUBSET Rest(S), G) /\ SumFunctionOnSet(f, Rest(S)) = G[Rest(S)]
  BY <1>1, SumIsSums
<1>5. F[Rest(S)] = G[Rest(S)]
  <2> DEFINE R == Rest(S)
  <2>1. R \in SUBSET S /\ IsFiniteSet(R) /\ SumsOf(f, SUBSET R, G)
    BY <1>1, <1>3
  <2> HIDE DEF R
  <2>2. F[R] = G[R]
    BY <1>2, <2>1, SumsAgree
  <2> QED
    BY <2>2 DEF R
<1>6. F[S] = f[Chosen(S)] + F[Rest(S)]
  BY <1>2 DEF SumsOf
<1> QED
  BY <1>2, <1>3, <1>5, <1>6

(* A set that holds 0 and all its sums of two holds the larger sums.       *)
LEMMA SumsClosed ==
  ASSUME NEW f, NEW S, IsFiniteSet(S),
         NEW K, 0 \in K, \A x, y \in K : x + y \in K,
         \A x \in S : f[x] \in K
  PROVE  \A s \in SUBSET S : SumFunctionOnSet(f, s) \in K
<1> DEFINE P == {n \in Nat : \A s \in SUBSET S :
                   Cardinality(s) = n => SumFunctionOnSet(f, s) \in K}
<1>1. \A s \in SUBSET S : IsFiniteSet(s) /\ Cardinality(s) \in Nat
  BY FS_Subset, FS_CardinalityType
<1>2. 0 \in P
  BY <1>1, FS_EmptySet, SumEmpty
<1>3. ASSUME NEW n \in Nat, n \in P
      PROVE  n + 1 \in P
  <2> SUFFICES ASSUME NEW s \in SUBSET S, Cardinality(s) = n + 1
               PROVE  SumFunctionOnSet(f, s) \in K
    OBVIOUS
  <2>1. IsFiniteSet(s) /\ s # {}
    BY <1>1, FS_EmptySet
  <2>2. /\ Chosen(s) \in s
        /\ Rest(s) \subseteq s
        /\ Cardinality(Rest(s)) = n
    BY <2>1, RestSmaller
  <2>3. SumFunctionOnSet(f, Rest(s)) \in K
    BY <1>3, <2>2
  <2>4. SumFunctionOnSet(f, s) = f[Chosen(s)] + SumFunctionOnSet(f, Rest(s))
    BY <2>1, SumStep
  <2> QED
    BY <2>2, <2>3, <2>4
<1>4. Nat \subseteq P
  <2> HIDE DEF P
  <2> QED BY <1>2, <1>3, NatSet
<1> QED
  BY <1>1, <1>4

(* Sums of integers are integers, and of natural numbers natural numbers.  *)
LEMMA SumsType ==
  ASSUME NEW f, NEW S, IsFiniteSet(S), \A x \in S : f[x] \in Int
  PROVE  \A s \in SUBSET S : SumFunctionOnSet(f, s) \in Int
<1>1. 0 \in Int /\ \A x, y \in Int : x + y \in Int
  OBVIOUS
<1> DEFINE K == Int
<1>2. 0 \in K /\ (\A x, y \in K : x + y \in K) /\ \A x \in S : f[x] \in K
  BY <1>1
<1>3. \A s \in SUBSET S : SumFunctionOnSet(f, s) \in K
  <2> HIDE DEF K
  <2> QED BY <1>2, SumsClosed
<1> QED
  BY <1>3

(* The same for natural numbers.                                           *)
LEMMA SumsNat ==
  ASSUME NEW f, NEW S, IsFiniteSet(S), \A x \in S : f[x] \in Nat
  PROVE  \A s \in SUBSET S : SumFunctionOnSet(f, s) \in Nat
<1> DEFINE K == Nat
<1>1. 0 \in K /\ (\A x, y \in K : x + y \in K) /\ \A x \in S : f[x] \in K
  OBVIOUS
<1>2. \A s \in SUBSET S : SumFunctionOnSet(f, s) \in K
  <2> HIDE DEF K
  <2> QED BY <1>1, SumsClosed
<1> QED
  BY <1>2

(* Zeroes sum up to 0.                                                     *)
LEMMA SumsZero ==
  ASSUME NEW f, NEW S, IsFiniteSet(S), \A x \in S : f[x] = 0
  PROVE  SumFunctionOnSet(f, S) = 0
<1> DEFINE K == {0}
<1>1. 0 \in K /\ (\A x, y \in K : x + y \in K) /\ \A x \in S : f[x] \in K
  OBVIOUS
<1>2. \A s \in SUBSET S : SumFunctionOnSet(f, s) \in K
  <2> HIDE DEF K
  <2> QED BY <1>1, SumsClosed
<1> QED
  BY <1>2

(* An index may be taken out of the sum wherever it stands.                *)
LEMMA SumsSplit ==
  ASSUME NEW f, NEW S, IsFiniteSet(S), \A x \in S : f[x] \in Int
  PROVE  \A s \in SUBSET S : \A x \in s :
           SumFunctionOnSet(f, s) = f[x] + SumFunctionOnSet(f, s \ {x})
<1> DEFINE Good(s) == \A x \in s :
             SumFunctionOnSet(f, s) = f[x] + SumFunctionOnSet(f, s \ {x})
           P == {n \in Nat : \A s \in SUBSET S : Cardinality(s) = n => Good(s)}
<1>1. \A s \in SUBSET S : IsFiniteSet(s) /\ Cardinality(s) \in Nat
  BY FS_Subset, FS_CardinalityType
<1>2. 0 \in P
  BY <1>1, FS_EmptySet
<1>3. ASSUME NEW n \in Nat, n \in P
      PROVE  n + 1 \in P
  <2> SUFFICES ASSUME NEW s \in SUBSET S, Cardinality(s) = n + 1, NEW x \in s
               PROVE  SumFunctionOnSet(f, s) = f[x] + SumFunctionOnSet(f, s \ {x})
    OBVIOUS
  <2>1. IsFiniteSet(s) /\ s # {}
    BY <1>1, FS_EmptySet
  <2>2. PICK c \in s : SumFunctionOnSet(f, s) = f[c] + SumFunctionOnSet(f, s \ {c})
    BY <2>1, SumStep, RestSmaller DEF Rest
  <2>3. ASSUME NEW y \in s
        PROVE  s \ {y} \in SUBSET S /\ Cardinality(s \ {y}) = n
    <3>1. Cardinality(s \ {y}) = Cardinality(s) - 1
      BY <2>1, FS_RemoveElement
    <3> QED
      BY <3>1
  <2>4. \A y \in s : Good(s \ {y})
    BY <1>3, <2>3
  <2>5. CASE x = c
    BY <2>5, <2>2
  <2>6. CASE x # c
    <3> DEFINE both == SumFunctionOnSet(f, (s \ {c}) \ {x})
    <3>1. SumFunctionOnSet(f, s \ {c}) = f[x] + both
      BY <2>4, <2>6
    <3>2. (s \ {c}) \ {x} = (s \ {x}) \ {c}
      OBVIOUS
    <3>3. SumFunctionOnSet(f, s \ {x}) = f[c] + both
      BY <2>4, <2>6, <3>2
    <3>4. f[x] \in Int /\ f[c] \in Int /\ both \in Int
      BY SumsType
    <3> HIDE DEF both
    <3> QED
      BY <2>2, <3>1, <3>3, <3>4
  <2> QED
    BY <2>5, <2>6
<1>4. Nat \subseteq P
  <2> HIDE DEF P
  <2> QED BY <1>2, <1>3, NatSet
<1> QED
  BY <1>1, <1>4

-----------------------------------------------------------------------------
(* What a program changes in a function, in terms of its sum.              *)

(* A changed value changes the sum by the difference.                      *)
LEMMA SumExcept ==
  ASSUME NEW S, IsFiniteSet(S), NEW f \in [S -> Int], NEW t \in S, NEW v \in Int
  PROVE  SumFunction([f EXCEPT ![t] = v]) = SumFunction(f) - f[t] + v
<1> DEFINE g == [f EXCEPT ![t] = v]
<1>1. g \in [S -> Int] /\ g[t] = v /\ \A x \in S \ {t} : g[x] = f[x]
  OBVIOUS
<1> HIDE DEF g
<1>2. SumFunctionOnSet(f, S) = f[t] + SumFunctionOnSet(f, S \ {t})
  BY SumsSplit
<1>3. SumFunctionOnSet(g, S) = v + SumFunctionOnSet(g, S \ {t})
  BY <1>1, SumsSplit
<1>4. IsFiniteSet(S \ {t})
  BY FS_RemoveElement
<1>5. SumFunctionOnSet(f, S \ {t}) = SumFunctionOnSet(g, S \ {t})
  BY <1>1, <1>4, SumAgrees
<1>6. SumFunctionOnSet(f, S \ {t}) \in Int
  BY SumsType
<1>7. /\ SumFunction(f) = SumFunctionOnSet(f, S)
      /\ SumFunction(g) = SumFunctionOnSet(g, S)
  BY <1>1 DEF SumFunction
<1>8. SumFunction(g) = SumFunction(f) - f[t] + v
  BY <1>2, <1>3, <1>5, <1>6, <1>7
<1> QED
  BY <1>8 DEF g

(* A sum of natural numbers bounds each of them.                           *)
LEMMA SumNat ==
  ASSUME NEW S, IsFiniteSet(S), NEW f \in [S -> Nat]
  PROVE  /\ SumFunction(f) \in Nat
         /\ \A x \in S : f[x] <= SumFunction(f)
<1>1. SumFunction(f) = SumFunctionOnSet(f, S)
  BY DEF SumFunction
<1>2. \A s \in SUBSET S : SumFunctionOnSet(f, s) \in Nat
  BY SumsNat
<1>3. \A x \in S : SumFunctionOnSet(f, S) = f[x] + SumFunctionOnSet(f, S \ {x})
  BY SumsSplit
<1>4. ASSUME NEW x \in S
      PROVE  f[x] <= SumFunctionOnSet(f, S)
  <2> DEFINE rest == SumFunctionOnSet(f, S \ {x})
  <2>1. rest \in Nat /\ f[x] \in Nat
    BY <1>2
  <2>2. SumFunctionOnSet(f, S) = f[x] + rest
    BY <1>3
  <2> HIDE DEF rest
  <2> QED
    BY <2>1, <2>2
<1> QED
  BY <1>1, <1>2, <1>4

-----------------------------------------------------------------------------
(* Remainders, which the provers do not reason about when the modulus is a *)
(* constant of the specification.                                          *)

(* A remainder is smaller than the modulus.                                *)
LEMMA ModRange ==
  ASSUME NEW m \in Nat \ {0}, NEW a \in Int
  PROVE  a % m \in 0 .. m - 1
  OBVIOUS

(* Division with remainder.                                                *)
LEMMA DivMod ==
  ASSUME NEW m \in Nat \ {0}, NEW a \in Int
  PROVE  a \div m \in Int /\ a = (a \div m) * m + (a % m)
  OBVIOUS

(* The only multiple of m between -m and m is 0.                           *)
LEMMA SmallMultiple ==
  ASSUME NEW m \in Nat \ {0}, NEW k \in Int, k * m < m, -m < k * m
  PROVE  k = 0
<1>1. CASE k >= 1
  <2>1. k * m >= m
    <3>1. (k - 1) * m \in Nat
      BY <1>1, SMT
    <3> QED
      BY <3>1
  <2> QED
    BY <2>1
<1>2. CASE k <= -1
  <2>1. -k * m >= m
    <3>1. (-k - 1) * m \in Nat
      BY <1>2, SMT
    <3> QED
      BY <3>1
  <2> QED
    BY <2>1
<1> QED
  BY <1>1, <1>2

(* There is only one remainder.                                            *)
LEMMA ModUnique ==
  ASSUME NEW m \in Nat \ {0}, NEW a \in Int, NEW q \in Int, NEW r \in 0 .. m - 1,
         a = q * m + r
  PROVE  a % m = r
<1>1. a = (a \div m) * m + (a % m) /\ a \div m \in Int /\ a % m \in 0 .. m - 1
  BY DivMod, ModRange
<1> DEFINE d == a \div m
           s == a % m
<1>2. a = d * m + s /\ d \in Int /\ s \in 0 .. m - 1
  BY <1>1
<1> HIDE DEF d, s
<1>3. (q - d) * m = s - r
  BY <1>2
<1>4. q - d = 0
  <2> DEFINE k == q - d
  <2>1. k \in Int /\ k * m < m /\ -m < k * m
    BY <1>2, <1>3
  <2> HIDE DEF k
  <2>2. k = 0
    BY <2>1, SmallMultiple
  <2> QED
    BY <2>2 DEF k
<1>5. s = r
  BY <1>2, <1>3, <1>4
<1> QED
  BY <1>5 DEF s

(* A counter may be reduced before or after an addition.                   *)
LEMMA ModAdd ==
  ASSUME NEW m \in Nat \ {0}, NEW a \in Int, NEW b \in Int
  PROVE  ((a % m) + b) % m = (a + b) % m
<1> DEFINE d == a \div m
           r == a % m
           e == (a + b) \div m
           s == (a + b) % m
<1>1. a = d * m + r /\ d \in Int /\ r \in 0 .. m - 1
  BY DivMod, ModRange
<1>2. a + b = e * m + s /\ e \in Int /\ s \in 0 .. m - 1
  <2> DEFINE c == a + b
  <2>1. c \in Int /\ s = c % m /\ e = c \div m
    OBVIOUS
  <2> HIDE DEF c, e, s
  <2>2. c = e * m + s /\ e \in Int /\ s \in 0 .. m - 1
    BY <2>1, DivMod, ModRange
  <2> QED
    BY <2>2 DEF c
<1> HIDE DEF d, r, e, s
<1>3. r + b = (e - d) * m + s /\ e - d \in Int /\ r + b \in Int
  BY <1>1, <1>2
<1>4. (r + b) % m = s
  <2> DEFINE x == r + b
             q == e - d
  <2>1. x \in Int /\ q \in Int /\ x = q * m + s
    BY <1>3
  <2> HIDE DEF x, q
  <2>2. x % m = s
    BY <2>1, <1>2, ModUnique
  <2> QED
    BY <2>2 DEF x
<1> QED
  BY <1>4 DEF r, s

-----------------------------------------------------------------------------
(* Two's complement: the result is an int, reducing before an addition     *)
(* makes no difference, and of a whole range of values only 0 looks like 0.*)
LEMMA WrapType ==
  ASSUME AtomicAssumption, NEW n \in Int
  PROVE  Wrap(n) \in CInt
<1> DEFINE a == n + IntHalf
           m == 2 * IntHalf
<1>1. a \in Int /\ m \in Nat \ {0} /\ IntHalf \in Nat
  BY DEF AtomicAssumption
<1> HIDE DEF a, m
<1>2. a % m \in 0 .. m - 1
  BY <1>1, ModRange
<1>3. (a % m) - IntHalf \in CInt
  BY <1>1, <1>2 DEF m, CInt
<1> QED
  BY <1>3 DEF Wrap, a, m

(* An int may be wrapped before or after an addition.                      *)
LEMMA WrapAdd ==
  ASSUME AtomicAssumption, NEW a \in Int, NEW n \in Int
  PROVE  Wrap(Wrap(a) + n) = Wrap(a + n)
<1> DEFINE b == a + IntHalf
           m == 2 * IntHalf
           r == b % m
<1>1. b \in Int /\ m \in Nat \ {0} /\ IntHalf \in Nat
  BY DEF AtomicAssumption
<1>2. Wrap(a) = r - IntHalf
  BY DEF Wrap
<1> HIDE DEF b, m
<1>3. r \in Int
  BY <1>1, ModRange
<1>4. (r + n) % m = (b + n) % m
  BY <1>1, ModAdd
<1> HIDE DEF r
<1>5. Wrap(a) + n + IntHalf = r + n
  BY <1>1, <1>2, <1>3
<1>6. a + n + IntHalf = b + n
  BY <1>1 DEF b
<1> QED
  BY <1>4, <1>5, <1>6 DEF Wrap, m

(* Only 0 looks like 0 among as many values as an int has.                 *)
LEMMA WrapZero ==
  ASSUME AtomicAssumption, NEW n \in 0 .. 2 * IntHalf - 1
  PROVE  (Wrap(n) = 0) <=> (n = 0)
<1> DEFINE a == n + IntHalf
           m == 2 * IntHalf
<1>1. a \in Int /\ m \in Nat \ {0} /\ IntHalf \in Nat \ {0}
  BY DEF AtomicAssumption
<1>2. CASE n < IntHalf
  <2>1. a = 0 * m + a /\ a \in 0 .. m - 1
    BY <1>1, <1>2
  <2> HIDE DEF a, m
  <2>2. a % m = a
    BY <1>1, <2>1, ModUnique
  <2> QED
    BY <1>1, <2>2 DEF Wrap, a, m
<1>3. CASE n >= IntHalf
  <2> DEFINE r == n - IntHalf
  <2>1. a = 1 * m + r /\ r \in 0 .. m - 1
    BY <1>1, <1>3
  <2> HIDE DEF a, m, r
  <2>2. a % m = r
    BY <1>1, <2>1, ModUnique
  <2>3. Wrap(n) = n - 2 * IntHalf
    BY <1>1, <2>2 DEF Wrap, a, m, r
  <2> QED
    BY <1>1, <1>3, <2>3
<1> QED
  BY <1>1, <1>2, <1>3

-----------------------------------------------------------------------------
(* The invariant: there are never more references than MaxRefs (so that    *)
(* the word tells 0 from all other numbers of them), and bit 0 is the only *)
(* bit of the lock that is ever set.                                       *)
RefsBounded == References \in 0 .. MaxRefs
LockIsBit   == word["lock"] \in 0 .. 1

IInv ==
  /\ TypeOK
  /\ RefsBounded
  /\ LockIsBit
  /\ CountIsReferences
  /\ LastDropToldOnce
  /\ LockHeldByOne

(* What a thread takes or drops is what all hold more or less.             *)
LEMMA RefsChange ==
  ASSUME AtomicAssumption, TypeOK, RefsBounded,
         NEW t \in Thread, NEW d \in Int,
         refs' = [refs EXCEPT ![t] = @ + d],
         refs[t] + d >= 0, References + d \in 0 .. MaxRefs
  PROVE  References' = References + d /\ refs' \in [Thread -> 0 .. MaxRefs]
<1>1. /\ IsFiniteSet(Thread) /\ refs \in [Thread -> 0 .. MaxRefs]
      /\ MaxRefs \in Nat
  BY DEF TypeOK, AtomicAssumption
<1>2. refs \in [Thread -> Int] /\ refs[t] + d \in Int
  BY <1>1
<1> DEFINE v == refs[t] + d
<1>3. refs' = [refs EXCEPT ![t] = v]
  OBVIOUS
<1>4. v \in Int
  BY <1>2
<1>5. v \in Nat
  BY <1>4
<1>6. SumFunction(refs) \in Int
  BY DEF RefsBounded, References
<1> HIDE DEF v
<1>7. SumFunction(refs') = SumFunction(refs) - refs[t] + v
  <2>1. SumFunction([refs EXCEPT ![t] = v]) = SumFunction(refs) - refs[t] + v
    BY <1>1, <1>2, <1>4, SumExcept
  <2> QED
    BY <1>3, <2>1
<1>8. References' = References + d
  BY <1>2, <1>6, <1>7 DEF References, v
<1>9. refs' \in [Thread -> Nat]
  BY <1>1, <1>3, <1>5
<1>10. \A u \in Thread : refs'[u] <= References'
  BY <1>1, <1>9, SumNat DEF References
<1>11. \A u \in Thread : refs'[u] \in 0 .. MaxRefs
  BY <1>1, <1>8, <1>9, <1>10
<1> QED
  BY <1>8, <1>9, <1>11

(* A step on the reference count, which leaves the lock and the gate alone,*)
(* keeps the count and the types when as many references come or go.       *)
LEMMA CountStep ==
  ASSUME AtomicAssumption, IInv, NEW t \in Thread, NEW d \in Int,
         word' = [word EXCEPT !["count"] = Wrap(@ + d)],
         refs' = [refs EXCEPT ![t] = @ + d],
         refs[t] + d >= 0, References + d \in 0 .. MaxRefs,
         freed' \in Nat,
         UNCHANGED inside
  PROVE  /\ TypeOK' /\ RefsBounded' /\ LockIsBit'
         /\ CountIsReferences' /\ LockHeldByOne'
         /\ References' = References + d
<1>1. References' = References + d /\ refs' \in [Thread -> 0 .. MaxRefs]
  BY RefsChange DEF IInv
<1>2. word["count"] \in Int /\ word \in [Word -> CInt]
  BY DEF IInv, TypeOK, CInt, Word, AtomicAssumption
<1>3. Wrap(word["count"] + d) \in CInt
  BY <1>2, WrapType
<1>4. References \in Int
  BY DEF IInv, RefsBounded
<1>5. Wrap(word["count"] + d) = Wrap(References + d)
  BY <1>4, WrapAdd DEF IInv, CountIsReferences
<1>6. /\ word' \in [Word -> CInt]
      /\ word'["count"] = Wrap(References + d)
      /\ word'["lock"] = word["lock"]
  BY <1>2, <1>3, <1>5 DEF Word
<1>7. TypeOK'
  BY <1>1, <1>6 DEF IInv, TypeOK
<1>8. RefsBounded' /\ CountIsReferences'
  BY <1>1, <1>6 DEF RefsBounded, CountIsReferences
<1>9. LockIsBit' /\ LockHeldByOne'
  BY <1>6 DEF IInv, LockIsBit, LockHeldByOne
<1> QED
  BY <1>1, <1>7, <1>8, <1>9

(* The invariant holds when the object has been created.                   *)
LEMMA InitInv == AtomicAssumption /\ Init => IInv
<1> SUFFICES ASSUME AtomicAssumption, Init
             PROVE  IInv
  OBVIOUS
<1>1. PICK t \in Thread : refs = [u \in Thread |-> IF u = t THEN 1 ELSE 0]
  BY DEF Init
<1>2. /\ IsFiniteSet(Thread)
      /\ MaxRefs \in Nat \ {0}
      /\ IntHalf \in Nat \ {0, 1}
      /\ Cardinality(Thread) \in Nat
  BY FS_CardinalityType DEF AtomicAssumption
<1>3. References = 1
  <2>1. /\ \A x \in Thread : refs[x] \in Int
        /\ \A x \in Thread \ {t} : refs[x] = 0
        /\ refs[t] = 1
        /\ DOMAIN refs = Thread
    BY <1>1
  <2>2. SumFunctionOnSet(refs, Thread) = 1 + SumFunctionOnSet(refs, Thread \ {t})
    BY <1>2, <2>1, SumsSplit
  <2>3. IsFiniteSet(Thread \ {t})
    BY <1>2, FS_RemoveElement
  <2>4. SumFunctionOnSet(refs, Thread \ {t}) = 0
    BY <2>1, <2>3, SumsZero
  <2> QED
    BY <2>1, <2>2, <2>4 DEF References, SumFunction
<1>4. /\ DOMAIN word = Word
      /\ word["count"] = Wrap(1)
      /\ word["lock"] = 0
      /\ word["gate"] = Wrap(-Cardinality(Thread))
  BY DEF Init, Word
<1>5. Wrap(1) \in CInt /\ Wrap(-Cardinality(Thread)) \in CInt /\ 0 \in CInt
  BY <1>2, WrapType DEF CInt
<1>6. word \in [Word -> CInt]
  BY <1>4, <1>5 DEF Init, Word
<1>7. /\ freed = 0 /\ inside = {}
      /\ Cardinality(inside) = 0
  BY FS_EmptySet DEF Init
<1>8. TypeOK
  <2>1. refs \in [Thread -> 0 .. MaxRefs]
    BY <1>1, <1>2
  <2> QED
    BY <1>6, <1>7, <2>1 DEF TypeOK
<1>9. RefsBounded /\ CountIsReferences /\ LastDropToldOnce
  BY <1>2, <1>3, <1>4, <1>7
  DEF RefsBounded, CountIsReferences, LastDropToldOnce
<1>10. LockIsBit /\ LockHeldByOne
  BY <1>4, <1>7 DEF LockIsBit, LockHeldByOne
<1> QED
  BY <1>8, <1>9, <1>10 DEF IInv

-----------------------------------------------------------------------------
(* One lemma per action.                                                   *)
LEMMA GetInv ==
  ASSUME AtomicAssumption, IInv, NEW t \in Thread, Get(t)
  PROVE  IInv'
<1>1. PICK n \in 1 .. MaxRefs - References :
        /\ References > 0
        /\ IF n = 1 THEN atomic_inc("count") ELSE atomic_add("count", n)
        /\ refs' = [refs EXCEPT ![t] = @ + n]
        /\ UNCHANGED <<freed, inside>>
  BY DEF Get
<1>2. word' = [word EXCEPT !["count"] = Wrap(@ + n)]
  BY <1>1 DEF atomic_inc, atomic_add
<1>3. /\ MaxRefs \in Nat /\ References \in Nat
      /\ refs \in [Thread -> 0 .. MaxRefs]
      /\ freed \in Nat
  BY DEF IInv, TypeOK, RefsBounded, AtomicAssumption
<1>4. n \in Int /\ refs[t] + n >= 0 /\ References + n \in 0 .. MaxRefs
  BY <1>3
<1>5. freed' \in Nat /\ UNCHANGED inside
  BY <1>1, <1>3
<1>6. /\ TypeOK' /\ RefsBounded' /\ LockIsBit'
      /\ CountIsReferences' /\ LockHeldByOne'
      /\ References' = References + n
  BY <1>1, <1>2, <1>4, <1>5, CountStep
<1>7. LastDropToldOnce'
  BY <1>1, <1>3, <1>6 DEF IInv, LastDropToldOnce
<1> QED
  BY <1>6, <1>7 DEF IInv

(* PutSome: somebody still holds a reference afterwards.                   *)
LEMMA PutSomeInv ==
  ASSUME AtomicAssumption, IInv, NEW t \in Thread, PutSome(t)
  PROVE  IInv'
<1>1. PICK n \in 1 .. refs[t] :
        /\ n < References
        /\ IF n = 1 THEN atomic_dec("count") ELSE atomic_sub("count", n)
        /\ refs' = [refs EXCEPT ![t] = @ - n]
        /\ UNCHANGED <<freed, inside>>
  BY DEF PutSome
<1>2. /\ MaxRefs \in Nat /\ References \in 0 .. MaxRefs
      /\ refs \in [Thread -> 0 .. MaxRefs]
      /\ freed \in Nat
      /\ word["count"] \in Int
  BY DEF IInv, TypeOK, RefsBounded, AtomicAssumption, CInt, Word
<1> DEFINE d == -n
<1>3. d \in Int /\ refs[t] + d >= 0 /\ References + d \in 0 .. MaxRefs
  BY <1>1, <1>2
<1>4. word["count"] - n = word["count"] + d /\ refs[t] - n = refs[t] + d
  BY <1>2
<1>5. word' = [word EXCEPT !["count"] = Wrap(word["count"] - n)]
  BY <1>1 DEF atomic_dec, atomic_sub
<1>6. word' = [word EXCEPT !["count"] = Wrap(@ + d)]
  BY <1>4, <1>5
<1>7. refs' = [refs EXCEPT ![t] = @ + d]
  BY <1>1, <1>4
<1>8. freed' \in Nat /\ UNCHANGED inside
  BY <1>1, <1>2
<1>9. References + d > 0
  BY <1>1, <1>2
<1> HIDE DEF d
<1>10. /\ TypeOK' /\ RefsBounded' /\ LockIsBit'
       /\ CountIsReferences' /\ LockHeldByOne'
       /\ References' = References + d
  BY <1>3, <1>6, <1>7, <1>8, CountStep
<1>11. LastDropToldOnce'
  BY <1>1, <1>2, <1>9, <1>10 DEF IInv, LastDropToldOnce
<1> QED
  BY <1>10, <1>11 DEF IInv

(* Put: the zero flag tells the last reference from the others, because no *)
(* other number of them looks like 0.                                      *)
LEMMA PutInv ==
  ASSUME AtomicAssumption, IInv, NEW t \in Thread, Put(t)
  PROVE  IInv'
<1>1. PICK last \in BOOLEAN :
        /\ atomic_dec_and_test("count", last)
        /\ freed' = IF last THEN freed + 1 ELSE freed
  BY DEF Put
<1>2. /\ refs[t] > 0
      /\ refs' = [refs EXCEPT ![t] = @ - 1]
      /\ UNCHANGED inside
  BY DEF Put
<1>3. /\ MaxRefs \in Nat /\ References \in 0 .. MaxRefs
      /\ IntHalf \in Nat /\ MaxRefs <= 2 * IntHalf - 1
      /\ refs \in [Thread -> 0 .. MaxRefs]
      /\ freed \in Nat
      /\ word["count"] \in Int
      /\ word \in [Word -> CInt]
  BY DEF IInv, TypeOK, RefsBounded, AtomicAssumption, CInt, Word
<1>4. refs[t] <= References
  <2>1. IsFiniteSet(Thread) /\ refs \in [Thread -> Nat]
    BY <1>3 DEF AtomicAssumption
  <2> QED
    BY <2>1, SumNat DEF References
<1> DEFINE d == -1
<1>5. d \in Int /\ refs[t] + d >= 0 /\ References + d \in 0 .. MaxRefs
  BY <1>2, <1>3, <1>4
<1>6. word["count"] - 1 = word["count"] + d /\ refs[t] - 1 = refs[t] + d
  BY <1>3
<1>7. /\ word' = [word EXCEPT !["count"] = Wrap(word["count"] - 1)]
      /\ last = (word'["count"] = 0)
  BY <1>1 DEF atomic_dec_and_test, atomic_dec
<1>8. word' = [word EXCEPT !["count"] = Wrap(@ + d)]
  BY <1>6, <1>7
<1>9. refs' = [refs EXCEPT ![t] = @ + d]
  BY <1>2, <1>6
<1>10. freed' \in Nat
  BY <1>1, <1>3
<1> HIDE DEF d
<1>11. /\ TypeOK' /\ RefsBounded' /\ LockIsBit'
       /\ CountIsReferences' /\ LockHeldByOne'
       /\ References' = References + d
  BY <1>2, <1>5, <1>8, <1>9, <1>10, CountStep
<1>12. References' \in 0 .. 2 * IntHalf - 1
  BY <1>3, <1>5, <1>11
<1>13. last <=> (References' = 0)
  <2>1. (Wrap(References') = 0) <=> (References' = 0)
    BY <1>12, WrapZero
  <2> QED
    BY <1>7, <1>11, <2>1 DEF CountIsReferences
<1>14. LastDropToldOnce'
  <2>1. References # 0 /\ freed = 0
    BY <1>2, <1>3, <1>4 DEF IInv, LastDropToldOnce
  <2> QED
    BY <1>1, <1>13, <2>1 DEF LastDropToldOnce
<1> QED
  BY <1>11, <1>14 DEF IInv

(* The lock and the gate leave the references alone.                       *)
LEMMA LockInv ==
  ASSUME AtomicAssumption, IInv, NEW t \in Thread, Lock(t)
  PROVE  IInv'
<1>1. PICK oldbit \in 0 .. 1 :
        /\ test_and_set("lock", oldbit)
        /\ inside' = IF oldbit = 0 THEN inside \cup {t} ELSE inside
  BY DEF Lock
<1>2. t \notin inside /\ UNCHANGED <<refs, freed>>
  BY DEF Lock
<1>3. /\ word \in [Word -> CInt]
      /\ word["lock"] \in 0 .. 1
      /\ 1 \in CInt
      /\ inside \subseteq Thread
      /\ Cardinality(inside) = word["lock"]
      /\ IsFiniteSet(inside)
  <2>1. IsFiniteSet(inside)
    BY FS_Subset DEF IInv, TypeOK, AtomicAssumption
  <2> QED
    BY <2>1 DEF IInv, TypeOK, LockIsBit, LockHeldByOne, CInt, AtomicAssumption
<1>4. /\ oldbit = word["lock"]
      /\ word' = [word EXCEPT !["lock"] = 1]
  <2>1. 0 % 2 = 0 /\ 1 % 2 = 1
    OBVIOUS
  <2>2. word["lock"] = 0 \/ word["lock"] = 1
    BY <1>3
  <2>3. (IF word["lock"] % 2 = 0 THEN word["lock"] + 1 ELSE word["lock"]) = 1
    BY <2>1, <2>2
  <2>4. word["lock"] % 2 = word["lock"]
    BY <2>1, <2>2
  <2> QED
    BY <1>1, <2>3, <2>4 DEF test_and_set
<1>5. /\ word' \in [Word -> CInt] /\ word'["lock"] = 1
      /\ word'["count"] = word["count"]
  BY <1>3, <1>4 DEF Word
<1>6. Cardinality(inside') = 1
  <2>1. CASE oldbit = 0
    <3>1. Cardinality(inside \cup {t}) = Cardinality(inside) + 1
      BY <1>2, <1>3, FS_AddElement
    <3> QED
      BY <1>1, <1>3, <1>4, <2>1, <3>1
  <2>2. CASE oldbit = 1
    BY <1>1, <1>3, <1>4, <2>2
  <2> QED
    BY <2>1, <2>2
<1>7. inside' \subseteq Thread
  BY <1>1, <1>3
<1>8. References' = References
  BY <1>2 DEF References
<1>9. TypeOK'
  BY <1>2, <1>5, <1>7 DEF IInv, TypeOK
<1>10. LockIsBit' /\ LockHeldByOne'
  BY <1>5, <1>6 DEF LockIsBit, LockHeldByOne
<1>11. RefsBounded' /\ CountIsReferences' /\ LastDropToldOnce'
  BY <1>2, <1>5, <1>8
  DEF IInv, RefsBounded, CountIsReferences, LastDropToldOnce
<1> QED
  BY <1>9, <1>10, <1>11 DEF IInv

(* Unlock: the thread that leaves was the only one inside.                 *)
LEMMA UnlockInv ==
  ASSUME AtomicAssumption, IInv, NEW t \in Thread, Unlock(t)
  PROVE  IInv'
<1>1. /\ t \in inside
      /\ word' = [word EXCEPT !["lock"] = 0]
      /\ inside' = inside \ {t}
      /\ UNCHANGED <<refs, freed>>
  BY DEF Unlock, atomic_xchg
<1>2. /\ word \in [Word -> CInt]
      /\ word["lock"] \in 0 .. 1
      /\ 0 \in CInt
      /\ inside \subseteq Thread
      /\ Cardinality(inside) = word["lock"]
      /\ IsFiniteSet(inside)
  <2>1. IsFiniteSet(inside)
    BY FS_Subset DEF IInv, TypeOK, AtomicAssumption
  <2> QED
    BY <2>1 DEF IInv, TypeOK, LockIsBit, LockHeldByOne, CInt, AtomicAssumption
<1>3. /\ word' \in [Word -> CInt] /\ word'["lock"] = 0
      /\ word'["count"] = word["count"]
  BY <1>1, <1>2 DEF Word
<1>4. Cardinality(inside') = 0
  <2>1. /\ Cardinality(inside \ {t}) = Cardinality(inside) - 1
        /\ IsFiniteSet(inside \ {t})
    BY <1>1, <1>2, FS_RemoveElement
  <2>2. Cardinality(inside \ {t}) \in Nat
    BY <2>1, FS_CardinalityType
  <2> QED
    BY <1>1, <1>2, <2>1, <2>2
<1>5. References' = References
  BY <1>1 DEF References
<1>6. TypeOK'
  BY <1>1, <1>2, <1>3 DEF IInv, TypeOK
<1>7. LockIsBit' /\ LockHeldByOne'
  BY <1>3, <1>4 DEF LockIsBit, LockHeldByOne
<1>8. RefsBounded' /\ CountIsReferences' /\ LastDropToldOnce'
  BY <1>1, <1>3, <1>5
  DEF IInv, RefsBounded, CountIsReferences, LastDropToldOnce
<1> QED
  BY <1>6, <1>7, <1>8 DEF IInv

(* Arrive changes the gate only.                                           *)
LEMMA ArriveInv ==
  ASSUME AtomicAssumption, IInv, Arrive
  PROVE  IInv'
<1>1. PICK last \in BOOLEAN : atomic_inc_and_test("gate", last)
  BY DEF Arrive
<1>2. UNCHANGED <<refs, freed, inside>>
  BY DEF Arrive
<1>3. word' = [word EXCEPT !["gate"] = Wrap(@ - 1)]
  BY <1>1 DEF atomic_inc_and_test, atomic_dec
<1>4. /\ word \in [Word -> CInt] /\ word["gate"] - 1 \in Int
  BY DEF IInv, TypeOK, CInt, Word, AtomicAssumption
<1>5. Wrap(word["gate"] - 1) \in CInt
  <2> DEFINE n == word["gate"] - 1
  <2>1. n \in Int
    BY <1>4
  <2> HIDE DEF n
  <2>2. Wrap(n) \in CInt
    BY <2>1, WrapType
  <2> QED
    BY <2>2 DEF n
<1>6. /\ word' \in [Word -> CInt]
      /\ word'["lock"] = word["lock"]
      /\ word'["count"] = word["count"]
  BY <1>3, <1>4, <1>5 DEF Word
<1>7. References' = References
  BY <1>2 DEF References
<1>8. TypeOK'
  BY <1>2, <1>6 DEF IInv, TypeOK
<1>9. LockIsBit' /\ LockHeldByOne'
  BY <1>2, <1>6 DEF IInv, LockIsBit, LockHeldByOne
<1>10. RefsBounded' /\ CountIsReferences' /\ LastDropToldOnce'
  BY <1>2, <1>6, <1>7
  DEF IInv, RefsBounded, CountIsReferences, LastDropToldOnce
<1> QED
  BY <1>8, <1>9, <1>10 DEF IInv

(* Every step keeps the invariant.                                         *)
LEMMA NextInv == AtomicAssumption /\ IInv /\ [Next]_vars => IInv'
<1> SUFFICES ASSUME AtomicAssumption, IInv, [Next]_vars
             PROVE  IInv'
  OBVIOUS
<1>1. ASSUME NEW t \in Thread, Get(t) PROVE IInv'
  BY <1>1, GetInv
<1>2. ASSUME NEW t \in Thread, PutSome(t) PROVE IInv'
  BY <1>2, PutSomeInv
<1>3. ASSUME NEW t \in Thread, Put(t) PROVE IInv'
  BY <1>3, PutInv
<1>4. ASSUME NEW t \in Thread, Lock(t) PROVE IInv'
  BY <1>4, LockInv
<1>5. ASSUME NEW t \in Thread, Unlock(t) PROVE IInv'
  BY <1>5, UnlockInv
<1>6. CASE Arrive
  BY <1>6, ArriveInv
<1>7. CASE UNCHANGED vars
  BY <1>7 DEF vars, IInv, TypeOK, References, RefsBounded, LockIsBit,
              CountIsReferences, LastDropToldOnce, LockHeldByOne
<1> QED
  BY <1>1, <1>2, <1>3, <1>4, <1>5, <1>6, <1>7 DEF Next

-----------------------------------------------------------------------------
(* The invariant holds for every set of threads, every width of an int and *)
(* every bound on the references that an int can count.                    *)
THEOREM Invariant == Spec => []IInv
<1>1. AtomicAssumption
  BY AtomicAssumption
<1> QED
  BY <1>1, InitInv, NextInv, PTL DEF Spec

(* Whatever the interleaving of txd_atomic.c's operations, the count word  *)
(* is the number of references held, also after it has wrapped.            *)
THEOREM CountIsReferencesHolds == Spec => []CountIsReferences
<1>1. IInv => CountIsReferences
  BY DEF IInv
<1> QED
  BY <1>1, Invariant, PTL

(* Exactly one thread is told that it dropped the last reference, and not  *)
(* before it has been dropped.                                             *)
THEOREM LastDropToldOnceHolds == Spec => []LastDropToldOnce
<1>1. IInv => LastDropToldOnce
  BY DEF IInv
<1> QED
  BY <1>1, Invariant, PTL

(* The lock is taken exactly when one thread is inside, so never by two.   *)
THEOREM LockHeldByOneHolds == Spec => []LockHeldByOne
<1>1. IInv => LockHeldByOne
  BY DEF IInv
<1> QED
  BY <1>1, Invariant, PTL

(* The words stay ints and the references within their bound.              *)
THEOREM AtomicTypeOK == Spec => []TypeOK
<1>1. IInv => TypeOK
  BY DEF IInv
<1> QED
  BY <1>1, Invariant, PTL
=============================================================================

--------------------------- MODULE TxdRevokeProofs ---------------------------
(***************************************************************************)
(* Proofs about TxdRevoke, for every set of table sizes and every width of *)
(* the counter.                                                            *)
(***************************************************************************)
EXTENDS TxdRevoke, WellFoundedInduction, TLAPS

(* A remainder is smaller than the modulus.                                *)
LEMMA ModRange ==
  ASSUME NEW m \in Nat \ {0}, NEW a \in Int
  PROVE  a % m \in 0 .. m - 1
  OBVIOUS

(* Induction: a set of numbers that has 0 and the successor of each number *)
(* it has, has them all.                                                   *)
LEMMA NatSet ==
  ASSUME NEW P, 0 \in P, \A n \in Nat : n \in P => n + 1 \in P
  PROVE  Nat \subseteq P
<1> DEFINE R == OpToRel(<, Nat)
<1>1. \A x, y \in Nat : x < y => <<x, y>> \in R
  BY DEF OpToRel
<1>2. IsWellFoundedOn(R, Nat)
  BY NatLessThanWellFounded
<1> HIDE DEF R
<1> DEFINE T == Nat \ P
<1>3. SUFFICES ASSUME T # {} PROVE FALSE
  OBVIOUS
<1>4. PICK m \in T : \A y \in T : ~(<<y, m>> \in R)
  <2> HIDE DEF T
  <2> T \subseteq Nat
    BY DEF T
  <2> QED BY <1>2, <1>3, WFMin
<1>5. m # 0 /\ m - 1 \in Nat /\ m - 1 < m
  OBVIOUS
<1>6. <<m - 1, m>> \in R
  BY <1>1, <1>5
<1> QED
  BY <1>4, <1>5, <1>6

-----------------------------------------------------------------------------
(* The loop that counts shifts and the powers of two are recursive         *)
(* functions.  A function with their equation on 0 .. N exists for every   *)
(* N: a longer one is built from a shorter.                                *)
ShiftsOf(N, f) ==
  f = [t \in 0 .. N |-> IF t \div 2 = 0 THEN 0 ELSE 1 + f[t \div 2]]

TwosOf(N, f) == f = [k \in 0 .. N |-> IF k = 0 THEN 1 ELSE 2 * f[k - 1]]

LEMMA ShiftsExist == \A N \in Nat : \E f : ShiftsOf(N, f)
<1> DEFINE P == {N \in Nat : \E f : ShiftsOf(N, f)}
<1>1. 0 \in P
  <2> DEFINE f == [t \in 0 .. 0 |-> 0]
  <2>1. \A t \in 0 .. 0 : t \div 2 = 0
    OBVIOUS
  <2>2. ShiftsOf(0, f)
    BY <2>1 DEF ShiftsOf
  <2> QED
    BY <2>2
<1>2. ASSUME NEW N \in Nat, N \in P
      PROVE  N + 1 \in P
  <2>1. PICK f : ShiftsOf(N, f)
    BY <1>2
  <2> DEFINE g == [t \in 0 .. N + 1 |-> IF t \div 2 = 0 THEN 0 ELSE 1 + f[t \div 2]]
  <2>2. \A t \in 0 .. N + 1 : t \div 2 # 0 => t \div 2 \in 0 .. N
    OBVIOUS
  <2>3. \A t \in 0 .. N : f[t] = g[t]
    BY <2>1 DEF ShiftsOf
  <2>4. g = [t \in 0 .. N + 1 |-> IF t \div 2 = 0 THEN 0 ELSE 1 + g[t \div 2]]
    <3>1. \A t \in 0 .. N + 1 :
            (IF t \div 2 = 0 THEN 0 ELSE 1 + f[t \div 2])
              = (IF t \div 2 = 0 THEN 0 ELSE 1 + g[t \div 2])
      <4> HIDE DEF g
      <4> QED BY <2>2, <2>3
    <3> QED
      BY <3>1
  <2> HIDE DEF g
  <2>5. ShiftsOf(N + 1, g)
    BY <2>4 DEF ShiftsOf
  <2> QED
    BY <2>5
<1> HIDE DEF P
<1>3. Nat \subseteq P
  BY <1>1, <1>2, NatSet
<1> QED
  BY <1>3 DEF P

(* The same for the powers of two.                                         *)
LEMMA TwosExist == \A N \in Nat : \E f : TwosOf(N, f)
<1> DEFINE P == {N \in Nat : \E f : TwosOf(N, f)}
<1>1. 0 \in P
  <2> DEFINE f == [k \in 0 .. 0 |-> 1]
  <2>1. TwosOf(0, f)
    BY DEF TwosOf
  <2> QED
    BY <2>1
<1>2. ASSUME NEW N \in Nat, N \in P
      PROVE  N + 1 \in P
  <2>1. PICK f : TwosOf(N, f)
    BY <1>2
  <2> DEFINE g == [k \in 0 .. N + 1 |-> IF k = 0 THEN 1 ELSE 2 * f[k - 1]]
  <2>2. \A k \in 0 .. N + 1 : k # 0 => k - 1 \in 0 .. N
    OBVIOUS
  <2>3. \A k \in 0 .. N : f[k] = g[k]
    BY <2>1 DEF TwosOf
  <2>4. g = [k \in 0 .. N + 1 |-> IF k = 0 THEN 1 ELSE 2 * g[k - 1]]
    <3>1. \A k \in 0 .. N + 1 :
            (IF k = 0 THEN 1 ELSE 2 * f[k - 1]) = (IF k = 0 THEN 1 ELSE 2 * g[k - 1])
      <4> HIDE DEF g
      <4> QED BY <2>2, <2>3
    <3> QED
      BY <3>1
  <2> HIDE DEF g
  <2>5. TwosOf(N + 1, g)
    BY <2>4 DEF TwosOf
  <2> QED
    BY <2>5
<1> HIDE DEF P
<1>3. Nat \subseteq P
  BY <1>1, <1>2, NatSet
<1> QED
  BY <1>3 DEF P

(* The largest int is a number.                                            *)
LEMMA IntMax == INT_MAX \in Nat /\ 1 <= INT_MAX
  BY SMT DEF INT_MAX

(* So Shifts and TwoTo satisfy their equations.                            *)
LEMMA ShiftsValue ==
  \A t \in 0 .. INT_MAX : Shifts[t] = IF t \div 2 = 0 THEN 0 ELSE 1 + Shifts[t \div 2]
<1>1. Shifts = CHOOSE f : ShiftsOf(INT_MAX, f)
  BY DEF Shifts, ShiftsOf
<1>2. ShiftsOf(INT_MAX, Shifts)
  BY <1>1, IntMax, ShiftsExist
<1> QED
  BY <1>2 DEF ShiftsOf

LEMMA TwoToValue ==
  /\ TwoTo[0] = 1
  /\ \A k \in 1 .. 31 : TwoTo[k] = 2 * TwoTo[k - 1]
<1>1. TwoTo = CHOOSE f : TwosOf(31, f)
  BY DEF TwoTo, TwosOf
<1>2. TwosOf(31, TwoTo)
  BY <1>1, TwosExist
<1> QED
  BY <1>2 DEF TwosOf

(* The powers are numbers, and the last is beyond an int.                  *)
LEMMA TwoToType ==
  /\ \A k \in 0 .. 31 : TwoTo[k] \in Nat
  /\ TwoTo[31] = INT_MAX + 1
<1>1. /\ TwoTo[1] = 2 /\ TwoTo[2] = 4 /\ TwoTo[3] = 8 /\ TwoTo[4] = 16
      /\ TwoTo[5] = 32 /\ TwoTo[6] = 64 /\ TwoTo[7] = 128 /\ TwoTo[8] = 256
  BY TwoToValue, SMT
<1>2. /\ TwoTo[9] = 512 /\ TwoTo[10] = 1024 /\ TwoTo[11] = 2048
      /\ TwoTo[12] = 4096 /\ TwoTo[13] = 8192 /\ TwoTo[14] = 16384
      /\ TwoTo[15] = 32768 /\ TwoTo[16] = 65536
  BY <1>1, TwoToValue, SMT
<1>3. /\ TwoTo[17] = 131072 /\ TwoTo[18] = 262144 /\ TwoTo[19] = 524288
      /\ TwoTo[20] = 1048576 /\ TwoTo[21] = 2097152 /\ TwoTo[22] = 4194304
      /\ TwoTo[23] = 8388608 /\ TwoTo[24] = 16777216
  BY <1>2, TwoToValue, SMT
<1>4. /\ TwoTo[25] = 33554432 /\ TwoTo[26] = 67108864
      /\ TwoTo[27] = 134217728 /\ TwoTo[28] = 268435456
      /\ TwoTo[29] = 536870912 /\ TwoTo[30] = 1073741824
      /\ TwoTo[31] = 2147483648
  BY <1>3, TwoToValue, SMT
<1> QED
  BY <1>1, <1>2, <1>3, <1>4, TwoToValue, SMT DEF INT_MAX

(* What s right shifts, and not one more, leave of n.                      *)
IsLog(s, n) == s \in 0 .. 30 /\ TwoTo[s] <= n /\ n < TwoTo[s + 1]

(* The loop counts the logarithm: by induction on n, as the first round    *)
(* leaves n \div 2.                                                        *)
LEMMA HashShiftIsLog == \A n \in 1 .. INT_MAX : IsLog(HashShift(n), n)
<1> DEFINE P == {m \in Nat : \A n \in 1 .. INT_MAX : n <= m => IsLog(Shifts[n], n)}
<1>1. 0 \in P
  OBVIOUS
<1>2. ASSUME NEW m \in Nat, m \in P
      PROVE  m + 1 \in P
  <2>1. SUFFICES ASSUME m + 1 \in 1 .. INT_MAX
                 PROVE  IsLog(Shifts[m + 1], m + 1)
    <3>1. \A n \in 1 .. INT_MAX : n <= m + 1 => n <= m \/ n = m + 1
      BY IntMax
    <3> QED
      BY <1>2, <2>1, <3>1
  <2>2. CASE m = 0
    <3>1. Shifts[1] = 0
      <4>1. 1 \div 2 = 0 /\ 1 \in 0 .. INT_MAX
        BY IntMax
      <4> QED
        BY <4>1, ShiftsValue
    <3>2. TwoTo[0] = 1 /\ TwoTo[1] = 2
      BY TwoToValue
    <3> QED
      BY <2>2, <3>1, <3>2 DEF IsLog
  <2>3. CASE m # 0
    <3> DEFINE n == m + 1
               h == n \div 2
               s == Shifts[h]
    <3>1. h \in 1 .. INT_MAX /\ h <= m /\ h # 0 /\ n \in 0 .. INT_MAX
      BY <2>1, <2>3, IntMax
    <3>2. 2 * h <= n /\ n <= 2 * h + 1 /\ n <= INT_MAX /\ n \in Nat /\ h \in Nat
      BY <2>1, IntMax
    <3>3. Shifts[n] = 1 + s
      BY <3>1, ShiftsValue
    <3>4. IsLog(s, h)
      BY <1>2, <3>1
    <3> HIDE DEF n, h, s
    <3>5. s \in 0 .. 30 /\ TwoTo[s] <= h /\ h < TwoTo[s + 1]
      BY <3>4 DEF IsLog
    <3>6. /\ s + 1 \in 1 .. 31
          /\ (s + 1) - 1 = s
          /\ TwoTo[s] \in Nat
      BY <3>5, TwoToType
    <3>7. TwoTo[s + 1] = 2 * TwoTo[s]
      BY <3>6, TwoToValue
    <3>8. TwoTo[s + 1] <= n
      BY <3>2, <3>5, <3>6, <3>7
    <3>9. s # 30
      <4>1. SUFFICES ASSUME s = 30 PROVE FALSE
        OBVIOUS
      <4> QED
        BY <4>1, <3>2, <3>8, TwoToType, IntMax
    <3>10. /\ s + 2 \in 1 .. 31
           /\ (s + 2) - 1 = s + 1
           /\ s + 1 \in 0 .. 30
           /\ (s + 1) + 1 = s + 2
           /\ 1 + s = s + 1
      BY <3>5, <3>9
    <3>11. TwoTo[s + 2] = 2 * TwoTo[s + 1] /\ TwoTo[s + 1] \in Nat
      BY <3>10, TwoToValue, TwoToType
    <3>12. n < TwoTo[s + 2]
      BY <3>2, <3>5, <3>11
    <3>13. IsLog(s + 1, n)
      BY <3>8, <3>10, <3>12 DEF IsLog
    <3>14. IsLog(Shifts[n], n)
      BY <3>3, <3>10, <3>13
    <3> QED
      BY <3>14 DEF n
  <2> QED
    BY <2>2, <2>3
<1>3. Nat \subseteq P
  <2> HIDE DEF P
  <2> QED BY <1>1, <1>2, NatSet
<1> SUFFICES ASSUME NEW n \in 1 .. INT_MAX
             PROVE  IsLog(HashShift(n), n)
  OBVIOUS
<1>4. n \in Nat /\ n <= n
  BY IntMax
<1> QED
  BY <1>3, <1>4 DEF HashShift

-----------------------------------------------------------------------------
(* The control points at which both tables are complete, and those at      *)
(* which the first one is.                                                 *)
BothPCs  == {"ready", "destroy"}
FirstPCs == {"table1", "hash1", "fail1"} \cup BothPCs

BlocksFollowPc ==
  /\ "table0" \in DOMAIN heap <=> pc \in {"hash0"} \cup FirstPCs
  /\ "hash0"  \in DOMAIN heap <=> pc \in FirstPCs
  /\ "table1" \in DOMAIN heap <=> pc \in {"hash1"} \cup BothPCs
  /\ "hash1"  \in DOMAIN heap <=> pc \in BothPCs

(* A table whose size is the size of its bucket array and whose shift      *)
(* belongs to that size, with all buckets initialised.                     *)
Built(i) ==
  /\ j_revoke_table[i].hash_size = hash_size
  /\ j_revoke_table[i].hash_shift = HashShift(hash_size)
  /\ Emptied(j_revoke_table[i])
  /\ heap[Hash(i)] = SizeofListHead * hash_size

(* The invariant: memory follows control, so that a failure half-way knows *)
(* what to undo, and a table is built as soon as it is reachable.          *)
HeapFollowsPc ==
  /\ pc # "aborted"
  /\ BlocksFollowPc
  /\ pc \in FirstPCs => Built(0)
  /\ pc \in BothPCs => Built(1)
  /\ pc = "ready" => j_revoke = "table1"

IInv == TypeOK /\ HeapFollowsPc

-----------------------------------------------------------------------------
(* Counting keeps the counter in its width.                                *)
LEMMA CountType ==
  ASSUME RevokeAssumption, Mem!TypeOK, NEW n \in Int, Mem!Count(n)
  PROVE  allocated_mem_size' \in 0 .. MemMod - 1
<1>1. allocated_mem_size + n \in Int
  BY DEF Mem!TypeOK, RevokeAssumption
<1> QED
  BY <1>1, ModRange DEF Mem!Count, RevokeAssumption

(* A block is added.                                                       *)
LEMMA AllocType ==
  ASSUME RevokeAssumption, Mem!TypeOK, NEW b \in RevokeBlocks, NEW n \in Nat,
         Mem!txd_zmalloc_spdk(b, n, TRUE)
  PROVE  /\ Mem!TypeOK'
         /\ DOMAIN heap' = DOMAIN heap \cup {b}
         /\ \A x \in DOMAIN heap \ {b} : heap'[x] = heap[x]
         /\ heap'[b] = n
<1>1. heap' = Mem!With(heap, b, n) /\ Mem!Count(n)
  BY DEF Mem!txd_zmalloc_spdk, Mem!PoolAlloc
<1>2. allocated_mem_size' \in 0 .. MemMod - 1
  BY <1>1, CountType
<1> QED
  BY <1>1, <1>2 DEF Mem!With, Mem!TypeOK

(* A NULL return changes nothing.                                          *)
LEMMA AllocFails ==
  ASSUME NEW b, NEW n, Mem!txd_zmalloc_spdk(b, n, FALSE)
  PROVE  UNCHANGED <<heap, allocated_mem_size>>
  BY DEF Mem!txd_zmalloc_spdk, Mem!PoolAlloc, Mem!memVars

(* Blocks are removed.                                                     *)
LEMMA FreeType ==
  ASSUME RevokeAssumption, Mem!TypeOK, NEW B, NEW n \in Int,
         Mem!txd_free_spdk(B, n)
  PROVE  /\ Mem!TypeOK'
         /\ DOMAIN heap' = DOMAIN heap \ B
         /\ \A x \in DOMAIN heap \ B : heap'[x] = heap[x]
<1>1. Mem!Count(-n) /\ heap' = Mem!Without(heap, B)
  BY DEF Mem!txd_free_spdk, Mem!Release
<1>2. -n \in Int
  OBVIOUS
<1>3. allocated_mem_size' \in 0 .. MemMod - 1
  BY <1>1, <1>2, CountType
<1> QED
  BY <1>1, <1>3 DEF Mem!Without, Mem!TypeOK

(* The sizes are numbers.                                                  *)
LEMMA Sizes == SizeofTable \in Nat /\ SizeofListHead \in Nat /\ SizeofTable \in Int
  BY DEF SizeofTable, SizeofListHead

(* The entries of j_revoke_table that a step writes are tables.            *)
LEMMA FilledType ==
  ASSUME RevokeAssumption, TypeOK
  PROVE  /\ Filled \in Tables
         /\ Filled.hash_size = hash_size
         /\ Filled.hash_shift = HashShift(hash_size)
         /\ Emptied(Filled)
         /\ NoTable \in Tables
<1>1. hash_size \in HashSizes /\ hash_size \in Nat
  BY DEF TypeOK, RevokeAssumption
<1>2. 0 .. hash_size - 1 \in SUBSET Nat
  BY <1>1
<1> QED
  BY <1>1, <1>2 DEF Filled, InitBuckets, Tables, Emptied, NoTable

-----------------------------------------------------------------------------
(* Nothing is allocated before the first call.                             *)
LEMMA InitInv == RevokeAssumption /\ Init => IInv
<1> SUFFICES ASSUME RevokeAssumption, Init
             PROVE  IInv
  OBVIOUS
<1>1. heap = << >> /\ allocated_mem_size = 0
  BY DEF Init, Mem!Init
<1>2. DOMAIN heap = {}
  BY <1>1
<1>3. Mem!TypeOK
  BY <1>1, <1>2 DEF Mem!TypeOK, RevokeAssumption
<1>4. NoTable \in Tables
  BY DEF NoTable, Tables
<1>5. TypeOK
  BY <1>3, <1>4 DEF Init, TypeOK
<1>6. HeapFollowsPc
  BY <1>2 DEF Init, HeapFollowsPc, BlocksFollowPc, FirstPCs, BothPCs
<1> QED
  BY <1>5, <1>6 DEF IInv

(* A table: allocated, or given up.                                        *)
LEMMA NewTableInv ==
  ASSUME RevokeAssumption, IInv, NEW i \in 0 .. 1, NewTable(i),
         UNCHANGED hash_size
  PROVE  IInv'
<1>A. TypeOK /\ Mem!TypeOK /\ HeapFollowsPc
  BY DEF IInv, TypeOK
<1>0. pc = Table(i) /\ UNCHANGED <<j_revoke, hash_size>>
  BY DEF NewTable
<1>1. CASE /\ Mem!txd_zmalloc_spdk(Table(i), SizeofTable, TRUE)
           /\ pc' = Hash(i)
           /\ UNCHANGED j_revoke_table
  <2>1. Table(i) \in RevokeBlocks
    BY DEF Table, RevokeBlocks
  <2>2. /\ Mem!TypeOK'
        /\ DOMAIN heap' = DOMAIN heap \cup {Table(i)}
        /\ \A x \in DOMAIN heap \ {Table(i)} : heap'[x] = heap[x]
    BY <1>A, <1>1, <2>1, Sizes, AllocType
  <2>3. TypeOK'
    BY <1>0, <1>1, <1>A, <2>2 DEF TypeOK, RevokePCs, Hash
  <2>4. BlocksFollowPc'
    BY <1>0, <1>1, <1>A, <2>2
    DEF HeapFollowsPc, BlocksFollowPc, FirstPCs, BothPCs,
       Hash, Table
  <2>5. i = 1 => Built(0)'
    BY <1>0, <1>1, <1>A, <2>2
    DEF HeapFollowsPc, BlocksFollowPc, Built, FirstPCs,
       Hash, Table
  <2>6. HeapFollowsPc'
    BY <1>0, <1>1, <2>4, <2>5 DEF HeapFollowsPc, FirstPCs, BothPCs, Hash
  <2> QED
    BY <2>3, <2>6 DEF IInv
<1>2. CASE /\ Mem!txd_zmalloc_spdk(Table(i), SizeofTable, FALSE)
           /\ pc' = IF i = 0 THEN "enomem" ELSE "fail1"
           /\ j_revoke_table' = [j_revoke_table EXCEPT ![i] = NoTable]
  <2>1. UNCHANGED <<heap, allocated_mem_size>>
    BY <1>2, AllocFails
  <2>2. /\ j_revoke_table' \in [0 .. 1 -> Tables]
        /\ i = 1 => j_revoke_table'[0] = j_revoke_table[0]
    BY <1>2, <1>A, FilledType DEF TypeOK
  <2>3. TypeOK'
    BY <1>0, <1>2, <1>A, <2>1, <2>2 DEF TypeOK, Mem!TypeOK, RevokePCs
  <2>4. HeapFollowsPc'
    BY <1>0, <1>2, <1>A, <2>1, <2>2 DEF HeapFollowsPc, BlocksFollowPc, Built,
       FirstPCs, BothPCs, Table
  <2> QED
    BY <2>3, <2>4 DEF IInv
<1> QED
  BY <1>1, <1>2 DEF NewTable

(* Its buckets: allocated and initialised, or the table is released again. *)
LEMMA NewHashInv ==
  ASSUME RevokeAssumption, IInv, NEW i \in 0 .. 1, NewHash(i),
         UNCHANGED hash_size
  PROVE  IInv'
<1>A. TypeOK /\ Mem!TypeOK /\ HeapFollowsPc
  BY DEF IInv, TypeOK
<1>0. pc = Hash(i) /\ UNCHANGED hash_size
  BY DEF NewHash
<1>1. CASE /\ Mem!txd_zmalloc_spdk(Hash(i), hash_size * SizeofListHead, TRUE)
           /\ j_revoke_table' = [j_revoke_table EXCEPT ![i] = Filled]
           /\ pc' = IF i = 0 THEN "table1" ELSE "ready"
           /\ j_revoke' = IF i = 0 THEN j_revoke ELSE "table1"
  <2>1. hash_size * SizeofListHead \in Nat /\ hash_size \in Nat
    BY <1>A DEF SizeofListHead, TypeOK, RevokeAssumption
  <2>2. Hash(i) \in RevokeBlocks
    BY DEF Hash, RevokeBlocks
  <2>3. /\ Mem!TypeOK'
        /\ DOMAIN heap' = DOMAIN heap \cup {Hash(i)}
        /\ \A x \in DOMAIN heap \ {Hash(i)} : heap'[x] = heap[x]
        /\ heap'[Hash(i)] = hash_size * SizeofListHead
    BY <1>A, <1>1, <2>1, <2>2, AllocType
  <2>4. /\ j_revoke_table' \in [0 .. 1 -> Tables]
        /\ j_revoke_table'[i] = Filled
        /\ \A k \in 0 .. 1 : k # i => j_revoke_table'[k] = j_revoke_table[k]
    BY <1>1, <1>A, FilledType DEF TypeOK
  <2>5. TypeOK'
    BY <1>0, <1>1, <1>A, <2>3, <2>4 DEF TypeOK, RevokePCs
  <2>6. BlocksFollowPc'
    BY <1>0, <1>1, <1>A, <2>3
    DEF HeapFollowsPc, BlocksFollowPc, FirstPCs, BothPCs, Hash
  <2>7. Built(i)'
    <3>1. /\ j_revoke_table'[i].hash_size = hash_size'
          /\ j_revoke_table'[i].hash_shift = HashShift(hash_size')
          /\ Emptied(j_revoke_table'[i])
      BY <1>0, <1>A, <2>4, FilledType
    <3>2. heap'[Hash(i)] = SizeofListHead * hash_size'
      BY <1>0, <2>1, <2>3 DEF SizeofListHead
    <3> QED
      BY <3>1, <3>2 DEF Built, Emptied
  <2>8. i = 1 => Built(0)'
    BY <1>0, <1>A, <2>3, <2>4
    DEF HeapFollowsPc, BlocksFollowPc, Built, Emptied,
       FirstPCs, Hash
  <2>9. HeapFollowsPc'
    BY <1>0, <1>1, <2>6, <2>7, <2>8 DEF HeapFollowsPc, FirstPCs, BothPCs
  <2> QED
    BY <2>5, <2>9 DEF IInv
<1>2. CASE /\ Mem!txd_free_spdk({Table(i)}, SizeofTable)
           /\ j_revoke_table' = [j_revoke_table EXCEPT ![i] = NoTable]
           /\ pc' = IF i = 0 THEN "enomem" ELSE "fail1"
           /\ UNCHANGED j_revoke
  <2>1. /\ Mem!TypeOK'
        /\ DOMAIN heap' = DOMAIN heap \ {Table(i)}
        /\ \A x \in DOMAIN heap \ {Table(i)} : heap'[x] = heap[x]
    BY <1>A, <1>2, Sizes, FreeType
  <2>2. /\ j_revoke_table' \in [0 .. 1 -> Tables]
        /\ i = 1 => j_revoke_table'[0] = j_revoke_table[0]
    BY <1>2, <1>A, FilledType DEF TypeOK
  <2>3. TypeOK'
    BY <1>0, <1>2, <1>A, <2>1, <2>2 DEF TypeOK, RevokePCs
  <2>4. BlocksFollowPc'
    BY <1>0, <1>2, <1>A, <2>1
    DEF HeapFollowsPc, BlocksFollowPc, FirstPCs, BothPCs,
       Hash, Table
  <2>5. i = 1 => Built(0)'
    BY <1>0, <1>A, <2>1, <2>2
    DEF HeapFollowsPc, BlocksFollowPc, Built, FirstPCs,
       Hash, Table
  <2>6. HeapFollowsPc'
    BY <1>0, <1>2, <2>4, <2>5 DEF HeapFollowsPc, FirstPCs, BothPCs
  <2> QED
    BY <2>3, <2>6 DEF IInv
<1> QED
  BY <1>1, <1>2 DEF NewHash

(* The label fail1: the complete first table is released.                  *)
LEMMA Fail1Inv ==
  ASSUME RevokeAssumption, IInv, Fail1, UNCHANGED hash_size
  PROVE  IInv'
<1>A. TypeOK /\ Mem!TypeOK /\ HeapFollowsPc
  BY DEF IInv, TypeOK
<1>0. /\ pc = "fail1"
      /\ UNCHANGED <<j_revoke, hash_size>>
      /\ j_revoke_table' = [j_revoke_table EXCEPT ![0] = NoTable]
      /\ DestroyTables({0}, "enomem")
  BY DEF Fail1
<1>1. Built(0) /\ Emptied(j_revoke_table[0])
  BY <1>0, <1>A DEF HeapFollowsPc, FirstPCs, Built
<1>2. /\ pc' = "enomem"
      /\ Mem!txd_free_spdk({"table0", "hash0"}, TableBytes(0) + 0)
  <2>1. {Table(i) : i \in {0}} \cup {Hash(i) : i \in {0}} = {"table0", "hash0"}
    BY DEF Table, Hash
  <2>2. ~ (1 \in {0})
    OBVIOUS
  <2> QED
    BY <1>0, <1>1, <2>1, <2>2 DEF DestroyTables
<1>3. TableBytes(0) + 0 \in Int
  BY <1>1, <1>A, Sizes DEF Built, TableBytes, TypeOK, RevokeAssumption
<1>4. Mem!TypeOK' /\ DOMAIN heap' = DOMAIN heap \ {"table0", "hash0"}
  BY <1>A, <1>2, <1>3, FreeType
<1>5. j_revoke_table' \in [0 .. 1 -> Tables]
  BY <1>0, <1>A, FilledType DEF TypeOK
<1>6. TypeOK'
  BY <1>0, <1>2, <1>A, <1>4, <1>5 DEF TypeOK, RevokePCs
<1>7. HeapFollowsPc'
  BY <1>0, <1>2, <1>A, <1>4
  DEF HeapFollowsPc, BlocksFollowPc, FirstPCs, BothPCs
<1> QED
  BY <1>6, <1>7 DEF IInv

(* Destroying both tables: no assert fires, and nothing stays behind.      *)
LEMMA DestroyInv ==
  ASSUME RevokeAssumption, IInv, txd_journal_destroy_revoke, UNCHANGED hash_size
  PROVE  IInv'
<1>A. TypeOK /\ Mem!TypeOK /\ HeapFollowsPc
  BY DEF IInv, TypeOK
<1>0. /\ pc = "destroy"
      /\ j_revoke' = "NULL"
      /\ UNCHANGED <<j_revoke_table, hash_size>>
      /\ DestroyTables({i \in 0 .. 1 : j_revoke_table[i] # NoTable}, "destroyed")
  BY DEF txd_journal_destroy_revoke
<1>1. Built(0) /\ Built(1)
  BY <1>0, <1>A DEF HeapFollowsPc, FirstPCs, BothPCs
<1>2. {i \in 0 .. 1 : j_revoke_table[i] # NoTable} = {0, 1}
  BY <1>1, <1>A DEF Built, NoTable, TypeOK, RevokeAssumption
<1>3. /\ pc' = "destroyed"
      /\ Mem!txd_free_spdk({"table0", "hash0", "table1", "hash1"},
                           TableBytes(0) + TableBytes(1))
  <2>1. DestroyTables({0, 1}, "destroyed")
    BY <1>0, <1>2
  <2>2. {Table(i) : i \in {0, 1}} \cup {Hash(i) : i \in {0, 1}}
          = {"table0", "hash0", "table1", "hash1"}
    BY DEF Table, Hash
  <2>3. \A i \in {0, 1} : Emptied(j_revoke_table[i])
    BY <1>1 DEF Built
  <2> QED
    BY <2>1, <2>2, <2>3 DEF DestroyTables
<1>4. TableBytes(0) + TableBytes(1) \in Int
  BY <1>1, <1>A, Sizes DEF Built, TableBytes, TypeOK, RevokeAssumption
<1>5. /\ Mem!TypeOK'
      /\ DOMAIN heap' = DOMAIN heap \ {"table0", "hash0", "table1", "hash1"}
  BY <1>A, <1>3, <1>4, FreeType
<1>6. TypeOK'
  BY <1>0, <1>3, <1>A, <1>5 DEF TypeOK, RevokePCs
<1>7. HeapFollowsPc'
  BY <1>0, <1>3, <1>5 DEF HeapFollowsPc, BlocksFollowPc, FirstPCs, BothPCs
<1> QED
  BY <1>6, <1>7 DEF IInv

(* The client starts over with another size only when nothing is live.     *)
LEMMA ClientInv ==
  ASSUME RevokeAssumption, IInv, CallInit \/ CallDestroy \/ UNCHANGED vars
  PROVE  IInv'
<1>1. CASE CallInit
  BY <1>1 DEF CallInit, IInv, TypeOK, Mem!TypeOK, RevokePCs, HeapFollowsPc,
     BlocksFollowPc, FirstPCs, BothPCs, revokeVars, memVars
<1>2. CASE CallDestroy
  BY <1>2 DEF CallDestroy, IInv, TypeOK, Mem!TypeOK, RevokePCs, HeapFollowsPc,
     BlocksFollowPc, Built, FirstPCs, BothPCs, revokeVars, memVars
<1>3. CASE UNCHANGED vars
  BY <1>3
  DEF vars, IInv, TypeOK, Mem!TypeOK, HeapFollowsPc, BlocksFollowPc, Built,
     revokeVars, memVars
<1> QED
  BY <1>1, <1>2, <1>3

-----------------------------------------------------------------------------
(* Memory follows control for every choice of table sizes and whatever     *)
(* allocation fails.                                                       *)
THEOREM Invariant == Spec => []IInv
<1>1. RevokeAssumption
  BY RevokeAssumption
<1>2. RevokeAssumption /\ IInv /\ [Next]_vars => IInv'
  <2> SUFFICES ASSUME RevokeAssumption, IInv, [Next]_vars
               PROVE  IInv'
    OBVIOUS
  <2>1. CASE txd_journal_init_revoke /\ UNCHANGED hash_size
    BY <2>1, NewTableInv, NewHashInv, Fail1Inv DEF txd_journal_init_revoke
  <2>2. CASE txd_journal_destroy_revoke /\ UNCHANGED hash_size
    BY <2>2, DestroyInv
  <2>3. CASE CallInit \/ CallDestroy \/ UNCHANGED vars
    BY <2>3, ClientInv
  <2> QED
    BY <2>1, <2>2, <2>3 DEF Next
<1> QED
  BY <1>1, <1>2, InitInv, PTL DEF Spec

(* txd_journal_init_revoke leaves nothing behind when it returns -ENOMEM,  *)
(* and two whole tables when it returns 0; txd_journal_destroy_revoke      *)
(* releases both.                                                          *)
THEOREM AllOrNothingHolds == Spec => []AllOrNothing
<1>1. IInv => AllOrNothing
  <2> SUFFICES ASSUME IInv PROVE AllOrNothing
    OBVIOUS
  <2>0. DOMAIN heap \subseteq RevokeBlocks /\ heap \in [DOMAIN heap -> Nat]
    BY DEF IInv, TypeOK, Mem!TypeOK
  <2>1. ASSUME pc \in {"enomem", "destroyed"} PROVE heap = << >>
    <3>1. DOMAIN heap = {}
      BY <2>0, <2>1 DEF IInv, HeapFollowsPc, BlocksFollowPc, FirstPCs, BothPCs,
         RevokeBlocks
    <3> QED
      BY <2>0, <3>1
  <2>2. ASSUME pc = "ready"
        PROVE  /\ DOMAIN heap = RevokeBlocks
               /\ \A i \in 0 .. 1 :
                    heap[Hash(i)] = SizeofListHead * j_revoke_table[i].hash_size
               /\ j_revoke = "table1"
    <3>1. DOMAIN heap = RevokeBlocks
      BY <2>0, <2>2 DEF IInv, HeapFollowsPc, BlocksFollowPc, FirstPCs, BothPCs,
         RevokeBlocks
    <3>2. Built(0) /\ Built(1)
      BY <2>2 DEF IInv, HeapFollowsPc, FirstPCs, BothPCs
    <3>3. \A i \in 0 .. 1 : Built(i)
      BY <3>2
    <3> QED
      BY <2>2, <3>1, <3>3 DEF IInv, HeapFollowsPc, Built
  <2> QED
    BY <2>1, <2>2 DEF AllOrNothing
<1> QED
  BY <1>1, Invariant, PTL

(* A table that init_revoke returned has the logarithm of its size in      *)
(* hash_shift, for every size an int can hold.                             *)
THEOREM ShiftIsLogHolds == Spec => []ShiftIsLog
<1>1. RevokeAssumption /\ IInv => ShiftIsLog
  <2> SUFFICES ASSUME RevokeAssumption, IInv, pc = "ready", NEW i \in 0 .. 1
               PROVE  /\ TwoTo[j_revoke_table[i].hash_shift]
                           <= j_revoke_table[i].hash_size
                      /\ j_revoke_table[i].hash_size
                           < TwoTo[j_revoke_table[i].hash_shift + 1]
    BY DEF ShiftIsLog
  <2>1. Built(0) /\ Built(1)
    BY DEF IInv, HeapFollowsPc, FirstPCs, BothPCs
  <2>2. Built(i)
    BY <2>1
  <2>3. hash_size \in 1 .. INT_MAX
    BY DEF IInv, TypeOK, RevokeAssumption
  <2>4. IsLog(HashShift(hash_size), hash_size)
    BY <2>3, HashShiftIsLog
  <2> QED
    BY <2>2, <2>4 DEF Built, IsLog
<1> QED
  BY <1>1, Invariant, RevokeAssumption, PTL

(* The assert on every bucket in txd_journal_destroy_revoke_table never    *)
(* fires.                                                                  *)
THEOREM NoAssertFires == Spec => [](pc # "aborted")
<1>1. IInv => pc # "aborted"
  BY DEF IInv, HeapFollowsPc
<1> QED
  BY <1>1, Invariant, PTL

(* Every variable keeps its type.                                          *)
THEOREM RevokeTypeOK == Spec => []TypeOK
<1>1. IInv => TypeOK
  BY DEF IInv
<1> QED
  BY <1>1, Invariant, PTL
=============================================================================

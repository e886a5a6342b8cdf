--------------------------- MODULE TxdJournalProofs ---------------------------
(***************************************************************************)
(* Proofs about TxdJournal, for every set of superblocks, every table size *)
(* and every journal minimum.                                              *)
(***************************************************************************)
EXTENDS TxdJournal, FiniteSetTheorems, TLAPS

(* The proofs about the wrappers of txd_malloc.c, for the blocks the       *)
(* opening of a journal allocates: their lemmas about sums are cited here. *)
MemP == INSTANCE TxdMallocProofs WITH
          Block <- JournalBlocks, Size <- {1}, Num <- {1}, drift <- 0

(* A remainder is smaller than the modulus.                                *)
LEMMA ModRange ==
  ASSUME NEW m \in Nat \ {0}, NEW a \in Int
  PROVE  a % m \in 0 .. m - 1
  OBVIOUS

(* Division with remainder.                                                *)
LEMMA DivMod ==
  ASSUME NEW m \in Nat \ {0}, NEW a \in Int
  PROVE  a \div m \in Int /\ a = (a \div m) * m + (a % m)
  OBVIOUS

(* The only multiple of m between -m and m is 0.                           *)
LEMMA SmallMultiple ==
  ASSUME NEW m \in Nat \ {0}, NEW k \in Int, k * m < m, -m < k * m
  PROVE  k = 0
<1>1. CASE k >= 1
  <2>1. k * m >= m
    <3>1. (k - 1) * m \in Nat
      BY <1>1, SMT
    <3> QED
      BY <3>1
  <2> QED
    BY <2>1
<1>2. CASE k <= -1
  <2>1. -k * m >= m
    <3>1. (-k - 1) * m \in Nat
      BY <1>2, SMT
    <3> QED
      BY <3>1
  <2> QED
    BY <2>1
<1> QED
  BY <1>1, <1>2

(* There is only one remainder.                                            *)
LEMMA ModUnique ==
  ASSUME NEW m \in Nat \ {0}, NEW a \in Int, NEW q \in Int, NEW r \in 0 .. m - 1,
         a = q * m + r
  PROVE  a % m = r
<1>1. a = (a \div m) * m + (a % m) /\ a \div m \in Int /\ a % m \in 0 .. m - 1
  BY DivMod, ModRange
<1> DEFINE d == a \div m
           s == a % m
<1>2. a = d * m + s /\ d \in Int /\ s \in 0 .. m - 1
  BY <1>1
<1> HIDE DEF d, s
<1>3. (q - d) * m = s - r
  BY <1>2
<1>4. q - d = 0
  <2> DEFINE k == q - d
  <2>1. k \in Int /\ k * m < m /\ -m < k * m
    BY <1>2, <1>3
  <2> HIDE DEF k
  <2>2. k = 0
    BY <2>1, SmallMultiple
  <2> QED
    BY <2>2 DEF k
<1>5. s = r
  BY <1>2, <1>3, <1>4
<1> QED
  BY <1>5 DEF s

(* A counter may be reduced before or after an addition.                   *)
LEMMA ModAdd ==
  ASSUME NEW m \in Nat \ {0}, NEW a \in Int, NEW b \in Int
  PROVE  ((a % m) + b) % m = (a + b) % m
<1> DEFINE d == a \div m
           r == a % m
           e == (a + b) \div m
           s == (a + b) % m
<1>1. a = d * m + r /\ d \in Int /\ r \in 0 .. m - 1
  BY DivMod, ModRange
<1>2. a + b = e * m + s /\ e \in Int /\ s \in 0 .. m - 1
  <2> DEFINE c == a + b
  <2>1. c \in Int /\ s = c % m /\ e = c \div m
    OBVIOUS
  <2> HIDE DEF c, e, s
  <2>2. c = e * m + s /\ e \in Int /\ s \in 0 .. m - 1
    BY <2>1, DivMod, ModRange
  <2> QED
    BY <2>2 DEF c
<1> HIDE DEF d, r, e, s
<1>3. r + b = (e - d) * m + s /\ e - d \in Int /\ r + b \in Int
  BY <1>1, <1>2
<1>4. (r + b) % m = s
  <2> DEFINE x == r + b
             q == e - d
  <2>1. x \in Int /\ q \in Int /\ x = q * m + s
    BY <1>3
  <2> HIDE DEF x, q
  <2>2. x % m = s
    BY <2>1, <1>2, ModUnique
  <2> QED
    BY <2>2 DEF x
<1> QED
  BY <1>4 DEF r, s

-----------------------------------------------------------------------------
(* What a step of txd_malloc.c does to the types.                          *)
LEMMA CountType ==
  ASSUME JournalAssumption, Mem!TypeOK, NEW n \in Int, Mem!Count(n)
  PROVE  allocated_mem_size' \in 0 .. MemMod - 1
<1>1. allocated_mem_size + n \in Int
  BY DEF Mem!TypeOK, JournalAssumption
<1> QED
  BY <1>1, ModRange DEF Mem!Count, JournalAssumption

(* A block is added.                                                       *)
LEMMA AllocType ==
  ASSUME JournalAssumption, Mem!TypeOK, NEW b \in JournalBlocks, NEW n \in Nat,
         Mem!txd_zmalloc_spdk(b, n, TRUE)
  PROVE  /\ Mem!TypeOK'
         /\ DOMAIN heap' = DOMAIN heap \cup {b}
         /\ \A x \in DOMAIN heap \ {b} : heap'[x] = heap[x]
         /\ heap'[b] = n
         /\ n > 0
<1>1. heap' = Mem!With(heap, b, n) /\ Mem!Count(n) /\ n > 0
  BY DEF Mem!txd_zmalloc_spdk, Mem!PoolAlloc, Mem!PoolAnswers
<1>2. allocated_mem_size' \in 0 .. MemMod - 1
  BY <1>1, CountType
<1> QED
  BY <1>1, <1>2 DEF Mem!With, Mem!TypeOK

(* A NULL return changes nothing.                                          *)
LEMMA AllocFails ==
  ASSUME NEW b, NEW n, Mem!txd_zmalloc_spdk(b, n, FALSE)
  PROVE  UNCHANGED <<heap, allocated_mem_size>>
  BY DEF Mem!txd_zmalloc_spdk, Mem!PoolAlloc, Mem!memVars

(* Blocks are removed.                                                     *)
LEMMA FreeType ==
  ASSUME JournalAssumption, Mem!TypeOK,
         NEW B, NEW n \in Int, Mem!txd_free_spdk(B, n)
  PROVE  /\ Mem!TypeOK'
         /\ DOMAIN heap' = DOMAIN heap \ B
         /\ \A x \in DOMAIN heap \ B : heap'[x] = heap[x]
<1>1. Mem!Count(-n) /\ heap' = Mem!Without(heap, B)
  BY DEF Mem!txd_free_spdk, Mem!Release
<1>2. -n \in Int
  OBVIOUS
<1>3. allocated_mem_size' \in 0 .. MemMod - 1
  BY <1>1, <1>2, CountType
<1> QED
  BY <1>1, <1>3 DEF Mem!Without, Mem!TypeOK

(* The revoke code calls the same wrappers.                                *)
LEMMA RevokeAlloc ==
  ASSUME NEW b, NEW n, NEW ok \in BOOLEAN, Rev!Mem!txd_zmalloc_spdk(b, n, ok)
  PROVE  Mem!txd_zmalloc_spdk(b, n, ok)
  BY DEF Rev!Mem!txd_zmalloc_spdk, Rev!Mem!PoolAlloc, Rev!Mem!PoolAnswers,
         Rev!Mem!With, Rev!Mem!Count, Rev!Mem!memVars,
         Mem!txd_zmalloc_spdk, Mem!PoolAlloc, Mem!PoolAnswers,
         Mem!With, Mem!Count, Mem!memVars

(* And for releases.                                                       *)
LEMMA RevokeFree ==
  ASSUME NEW B, NEW n, Rev!Mem!txd_free_spdk(B, n)
  PROVE  Mem!txd_free_spdk(B, n)
  BY DEF Rev!Mem!txd_free_spdk, Rev!Mem!Release, Rev!Mem!Without,
         Rev!Mem!Count,
         Mem!txd_free_spdk, Mem!Release, Mem!Without, Mem!Count

-----------------------------------------------------------------------------
(* The initial states satisfy the inductive invariant.                     *)
LEMMA InitInductive == JournalAssumption /\ Init => Inductive
<1> SUFFICES ASSUME JournalAssumption, Init PROVE Inductive
  OBVIOUS
<1> USE DEF Init
<1>1. j \in Journal
  BY DEF Unwritten, Journal, Flags, Tid, JournalAssumption
<1>2. j_revoke_table \in [0 .. 1 -> Rev!Tables]
  BY DEF Rev!Tables, Rev!NoTable
<1>3. heap = << >> /\ allocated_mem_size = 0
  BY DEF Mem!Init
<1>4. DOMAIN heap = {}
  BY <1>3
<1>5. Mem!TypeOK
  BY <1>3, <1>4 DEF Mem!TypeOK, JournalAssumption
<1>6. TypeOK
  BY <1>1, <1>2, <1>5 DEF TypeOK, JournalAssumption
<1>7. Handshake
  BY DEF Handshake, WaitPCs, Unwritten, MarkedPCs, OpeningPCs, LoadingPCs,
         LoadedPCs, Rev!RevokePCs
<1>8. HeapFollowsPc
  BY <1>4
  DEF HeapFollowsPc, BlocksFollowPc, FirstPCs, BothPCs, GotPCs, LoadingPCs,
      LoadedPCs
<1> QED
  BY <1>6, <1>7, <1>8 DEF Inductive

(* The PCs, spelled out.                                                   *)
LEMMA PCs ==
  /\ OpeningPCs = {"journal", "bh", "wbuf", "out1", "out2", "table0", "hash0",
                   "table1", "hash1", "fail1", "ready", "enomem", "destroy",
                   "destroyed", "aborted"}
  /\ LoadingPCs = {"load", "spawn", "lock_wq", "test_wq", "waiting", "relock"}
  /\ LoadedPCs = {"loaded", "load_failed"}
  /\ JournalBlocks = {"journal", "bh", "wbuf", "table0", "hash0", "table1", "hash1"}
  /\ MarkedPCs = {"wbuf", "out2", "table0", "hash0", "table1", "hash1", "fail1",
                  "ready", "enomem", "destroy", "destroyed", "aborted"}
                   \cup LoadingPCs \cup LoadedPCs
  BY DEF OpeningPCs, LoadingPCs, LoadedPCs, Rev!RevokePCs, JournalBlocks,
         Rev!RevokeBlocks, MarkedPCs

(* The sizes are numbers.                                                  *)
LEMMA Sizes ==
  /\ SizeofPointer \in Nat /\ SizeofPointer \in Int
  /\ SizeofBufferHead \in Nat /\ SizeofBufferHead \in Int
  /\ Rev!SizeofTable \in Nat
  BY DEF SizeofPointer, SizeofBufferHead, Rev!SizeofTable

(* The steps that touch neither memory nor the revoke tables, nor what the *)
(* journal says of its blocks, keep memory in step with control as long as *)
(* they stay in the same phase.                                            *)
LEMMA PhaseKept ==
  ASSUME HeapFollowsPc, UNCHANGED <<revokeVars, memVars>>,
         j.j_wbufsize = j'.j_wbufsize,
         \/ pc' = pc
         \/ pc \in GotPCs /\ pc' \in GotPCs
         \/ pc = "idle" /\ pc' = "journal"
  PROVE  HeapFollowsPc'
  BY DEF HeapFollowsPc, BlocksFollowPc, FirstPCs, BothPCs, GotPCs, LoadingPCs,
         LoadedPCs,
         Built, Rev!Emptied, revokeVars, memVars

-----------------------------------------------------------------------------
(* Every step preserves the inductive invariant.                           *)
LEMMA StepInductive ==
  JournalAssumption /\ Inductive /\ [Next]_vars => Inductive'
<1> SUFFICES ASSUME JournalAssumption, Inductive, [Next]_vars
             PROVE  Inductive'
  OBVIOUS
<1> USE DEF Inductive
<1>A. TypeOK /\ Handshake /\ HeapFollowsPc
  OBVIOUS
<1>B. Mem!TypeOK
  BY DEF TypeOK
<1>1. CASE txd_get_journal
  <2>1. TypeOK'
    BY <1>1, PCs
    DEF txd_get_journal, TypeOK, JournalAssumption, revokeVars, memVars,
        Mem!TypeOK
  <2>2. Handshake'
    BY <1>1, PCs DEF txd_get_journal, Handshake, WaitPCs
  <2>3. HeapFollowsPc'
    BY <1>1, PhaseKept DEF txd_get_journal
  <2> QED
    BY <2>1, <2>2, <2>3
<1>2. CASE NewJournal
  <2>1. CASE /\ Mem!txd_zmalloc_spdk("journal", SizeofPointer, TRUE)
             /\ \E failed, tid \in Garbage : j' = Unwritten(failed, tid)
             /\ pc' = "bh"
    <3>1. Mem!TypeOK' /\ DOMAIN heap' = DOMAIN heap \cup {"journal"}
      BY <1>B, <2>1, AllocType, PCs, Sizes
    <3>2. j' \in Journal /\ j'.j_flags = {}
      BY <2>1 DEF Unwritten, Journal, Tid, Flags, JournalAssumption
    <3>3. TypeOK'
      BY <1>2, <2>1, <3>1, <3>2, PCs DEF NewJournal, TypeOK, revokeVars
    <3>4. Handshake'
      BY <1>2, <2>1, <3>2, PCs DEF NewJournal, Handshake, WaitPCs
    <3>5. HeapFollowsPc'
      BY <1>2, <2>1, <3>1 DEF NewJournal, HeapFollowsPc, BlocksFollowPc,
         FirstPCs, BothPCs, GotPCs, LoadingPCs, LoadedPCs
    <3> QED
      BY <3>3, <3>4, <3>5
  <2>2. CASE /\ Mem!txd_zmalloc_spdk("journal", SizeofPointer, FALSE)
             /\ pc' = "idle"
             /\ UNCHANGED j
    <3>1. UNCHANGED <<heap, allocated_mem_size>>
      BY <2>2, AllocFails
    <3>2. TypeOK'
      BY <1>2, <2>2, <3>1 DEF NewJournal, TypeOK, Mem!TypeOK, revokeVars
    <3>3. Handshake'
      BY <1>2, <2>2, PCs DEF NewJournal, Handshake, WaitPCs
    <3>4. HeapFollowsPc'
      BY <1>2, <2>2, <3>1 DEF NewJournal, HeapFollowsPc, BlocksFollowPc,
         FirstPCs, BothPCs, GotPCs, LoadingPCs, LoadedPCs
    <3> QED
      BY <3>2, <3>3, <3>4
  <2> QED
    BY <1>2, <2>1, <2>2 DEF NewJournal
<1>3. CASE NewBufferHead
  <2>1. CASE /\ Mem!txd_zmalloc_spdk("bh", SizeofBufferHead, TRUE)
             /\ wq' = [condition |-> 0, owner |-> "none"]
             /\ j' = [j EXCEPT !.j_flags = {"TXD_ABORT"}]
             /\ pc' = "table0"
    <3>1. Mem!TypeOK' /\ DOMAIN heap' = DOMAIN heap \cup {"bh"}
      BY <1>B, <2>1, AllocType, PCs, Sizes
    <3>2. j' \in Journal /\ j'.j_flags = {"TXD_ABORT"}
      BY <2>1 DEF TypeOK, Journal, Flags
    <3>3. TypeOK'
      BY <1>3, <2>1, <3>1, <3>2, PCs DEF NewBufferHead, TypeOK, revokeVars
    <3>4. Handshake'
      BY <1>3, <2>1, <3>2, PCs DEF NewBufferHead, Handshake, WaitPCs
    <3>5. HeapFollowsPc'
      BY <1>3, <2>1, <3>1 DEF NewBufferHead, HeapFollowsPc, BlocksFollowPc,
         FirstPCs, BothPCs, GotPCs, LoadingPCs, LoadedPCs
    <3> QED
      BY <3>3, <3>4, <3>5
  <2>2. CASE /\ Mem!txd_zmalloc_spdk("bh", SizeofBufferHead, FALSE)
             /\ pc' = "out1"
             /\ UNCHANGED <<j, wq>>
    <3>1. UNCHANGED <<heap, allocated_mem_size>>
      BY <2>2, AllocFails
    <3>2. TypeOK'
      BY <1>3, <2>2, <3>1, PCs
      DEF NewBufferHead, TypeOK, Mem!TypeOK, revokeVars
    <3>3. Handshake'
      BY <1>3, <2>2, PCs DEF NewBufferHead, Handshake, WaitPCs
    <3>4. HeapFollowsPc'
      BY <1>3, <2>2, <3>1 DEF NewBufferHead, HeapFollowsPc, BlocksFollowPc,
         FirstPCs, BothPCs, GotPCs, LoadingPCs, LoadedPCs
    <3> QED
      BY <3>2, <3>3, <3>4
  <2> QED
    BY <1>3, <2>1, <2>2 DEF NewBufferHead
<1>4. CASE InitRevoke
  <2>1. ASSUME NEW i \in 0 .. 1, Rev!NewTable(i)
        PROVE  Inductive'
    <3>0. pc = Rev!Table(i) /\ UNCHANGED <<jd, sb, j, wq, j_revoke>>
      BY <1>4, <2>1 DEF Rev!NewTable, InitRevoke
    <3>1. CASE /\ Rev!Mem!txd_zmalloc_spdk(Rev!Table(i), Rev!SizeofTable, TRUE)
               /\ pc' = Rev!Hash(i)
               /\ UNCHANGED j_revoke_table
      <4>1. /\ Mem!TypeOK'
            /\ DOMAIN heap' = DOMAIN heap \cup {Rev!Table(i)}
            /\ \A x \in DOMAIN heap \ {Rev!Table(i)} : heap'[x] = heap[x]
        BY <1>B, <3>1, RevokeAlloc, AllocType, PCs, Sizes DEF Rev!Table
      <4>2. TypeOK'
        BY <3>0, <3>1, <4>1, PCs DEF TypeOK, Rev!Hash
      <4>3. Handshake'
        BY <3>0, <3>1, PCs DEF Handshake, WaitPCs, Rev!Hash, Rev!Table
      <4>4. BlocksFollowPc'
        BY <3>0, <3>1, <4>1
        DEF HeapFollowsPc, BlocksFollowPc, FirstPCs, BothPCs,
           GotPCs, LoadingPCs, LoadedPCs, Rev!Hash, Rev!Table
      <4>5. i = 1 => Built(0)'
        BY <3>0, <3>1, <4>1 DEF HeapFollowsPc, BlocksFollowPc, Built, FirstPCs,
           Rev!Hash, Rev!Table
      <4>6. HeapFollowsPc'
        BY <3>0, <3>1, <4>4, <4>5 DEF HeapFollowsPc, FirstPCs, BothPCs,
           GotPCs, LoadingPCs, LoadedPCs, Rev!Hash
      <4> QED
        BY <4>2, <4>3, <4>6
    <3>2. CASE /\ Rev!Mem!txd_zmalloc_spdk(Rev!Table(i), Rev!SizeofTable, FALSE)
               /\ pc' = IF i = 0 THEN "enomem" ELSE "fail1"
               /\ j_revoke_table' = [j_revoke_table EXCEPT ![i] = Rev!NoTable]
      <4>1. UNCHANGED <<heap, allocated_mem_size>>
        BY <3>2, RevokeAlloc, AllocFails
      <4>2. /\ j_revoke_table' \in [0 .. 1 -> Rev!Tables]
            /\ i = 1 => j_revoke_table'[0] = j_revoke_table[0]
        BY <3>2 DEF TypeOK, Rev!Tables, Rev!NoTable
      <4>3. TypeOK'
        BY <3>0, <3>2, <4>1, <4>2, PCs DEF TypeOK, Mem!TypeOK
      <4>4. Handshake'
        BY <3>0, <3>2, PCs DEF Handshake, WaitPCs, Rev!Table
      <4>5. HeapFollowsPc'
        BY <3>0, <3>2, <4>1, <4>2 DEF HeapFollowsPc, BlocksFollowPc, Built,
           FirstPCs, BothPCs, GotPCs, LoadingPCs, LoadedPCs, Rev!Table
      <4> QED
        BY <4>3, <4>4, <4>5
    <3> QED
      BY <2>1, <3>1, <3>2 DEF Rev!NewTable
  <2>2. ASSUME NEW i \in 0 .. 1, Rev!NewHash(i)
        PROVE  Inductive'
    <3>0. pc = Rev!Hash(i) /\ UNCHANGED <<jd, sb, j, wq>>
      BY <1>4, <2>2 DEF Rev!NewHash, InitRevoke
    <3>1. CASE /\ Rev!Mem!txd_zmalloc_spdk(Rev!Hash(i), HashSize * Rev!SizeofListHead, TRUE)
               /\ j_revoke_table' = [j_revoke_table EXCEPT ![i] = Rev!Filled]
               /\ pc' = IF i = 0 THEN "table1" ELSE "ready"
               /\ j_revoke' = IF i = 0 THEN j_revoke ELSE "table1"
      <4>1. HashSize * Rev!SizeofListHead \in Nat
        BY DEF Rev!SizeofListHead, JournalAssumption
      <4>2. Mem!txd_zmalloc_spdk(Rev!Hash(i), HashSize * Rev!SizeofListHead, TRUE)
        BY <3>1, RevokeAlloc
      <4>3. /\ Mem!TypeOK'
            /\ DOMAIN heap' = DOMAIN heap \cup {Rev!Hash(i)}
            /\ \A x \in DOMAIN heap \ {Rev!Hash(i)} : heap'[x] = heap[x]
            /\ heap'[Rev!Hash(i)] = HashSize * Rev!SizeofListHead
        BY <1>B, <4>1, <4>2, AllocType, PCs DEF Rev!Hash
      <4>4. /\ j_revoke_table' \in [0 .. 1 -> Rev!Tables]
            /\ j_revoke_table'[i].hash_size = HashSize
            /\ Rev!Emptied(j_revoke_table'[i])
            /\ \A k \in 0 .. 1 : k # i => j_revoke_table'[k] = j_revoke_table[k]
        BY <3>1
        DEF TypeOK, Rev!Tables, Rev!Emptied, Rev!Filled, Rev!InitBuckets,
           JournalAssumption
      <4>5. TypeOK'
        BY <3>0, <3>1, <4>3, <4>4, PCs DEF TypeOK
      <4>6. Handshake'
        BY <3>0, <3>1, PCs DEF Handshake, WaitPCs, Rev!Hash
      <4>7. BlocksFollowPc'
        BY <3>0, <3>1, <4>3
        DEF HeapFollowsPc, BlocksFollowPc, FirstPCs, BothPCs,
           GotPCs, LoadingPCs, LoadedPCs, Rev!Hash
      <4>8. Built(i)'
        BY <4>1, <4>3, <4>4 DEF Built, Rev!SizeofListHead, JournalAssumption
      <4>9. i = 1 => Built(0)'
        BY <3>0, <4>3, <4>4
        DEF HeapFollowsPc, BlocksFollowPc, Built, FirstPCs, Rev!Hash
      <4>10. HeapFollowsPc'
        BY <3>0, <3>1, <4>7, <4>8, <4>9 DEF HeapFollowsPc, FirstPCs, BothPCs,
           GotPCs, LoadingPCs, LoadedPCs
      <4> QED
        BY <4>5, <4>6, <4>10
    <3>2. CASE /\ Rev!Mem!txd_free_spdk({Rev!Table(i)}, Rev!SizeofTable)
               /\ j_revoke_table' = [j_revoke_table EXCEPT ![i] = Rev!NoTable]
               /\ pc' = IF i = 0 THEN "enomem" ELSE "fail1"
               /\ UNCHANGED j_revoke
      <4>1. Mem!txd_free_spdk({Rev!Table(i)}, Rev!SizeofTable)
        BY <3>2, RevokeFree
      <4>2. /\ Mem!TypeOK'
            /\ DOMAIN heap' = DOMAIN heap \ {Rev!Table(i)}
            /\ \A x \in DOMAIN heap \ {Rev!Table(i)} : heap'[x] = heap[x]
        <5>1. Rev!SizeofTable \in Int
          BY DEF Rev!SizeofTable
        <5> QED
          BY <1>B, <4>1, <5>1, FreeType
      <4>3. /\ j_revoke_table' \in [0 .. 1 -> Rev!Tables]
            /\ i = 1 => j_revoke_table'[0] = j_revoke_table[0]
        BY <3>2 DEF TypeOK, Rev!Tables, Rev!NoTable
      <4>4. TypeOK'
        BY <3>0, <3>2, <4>2, <4>3, PCs DEF TypeOK
      <4>5. Handshake'
        BY <3>0, <3>2, PCs DEF Handshake, WaitPCs, Rev!Hash
      <4>6. BlocksFollowPc'
        BY <3>0, <3>2, <4>2
        DEF HeapFollowsPc, BlocksFollowPc, FirstPCs, BothPCs,
           GotPCs, LoadingPCs, LoadedPCs, Rev!Hash, Rev!Table
      <4>7. i = 1 => Built(0)'
        BY <3>0, <4>2, <4>3
        DEF HeapFollowsPc, BlocksFollowPc, Built, FirstPCs, Rev!Hash, Rev!Table
      <4>8. HeapFollowsPc'
        BY <3>0, <3>2, <4>6, <4>7 DEF HeapFollowsPc, FirstPCs, BothPCs,
           GotPCs, LoadingPCs, LoadedPCs
      <4> QED
        BY <4>4, <4>5, <4>8
    <3> QED
      BY <2>2, <3>1, <3>2 DEF Rev!NewHash
  <2>3. CASE Rev!Fail1
    <3>0. pc = "fail1" /\ UNCHANGED <<jd, sb, j, wq, j_revoke>>
      BY <1>4, <2>3 DEF Rev!Fail1, InitRevoke
    <3>1. Built(0) /\ Rev!Emptied(j_revoke_table[0])
      BY <3>0 DEF HeapFollowsPc, FirstPCs, Built
    <3>2. /\ pc' = "enomem"
          /\ Rev!Mem!txd_free_spdk({"table0", "hash0"}, Rev!TableBytes(0) + 0)
      <4>1. Rev!DestroyTables({0}, "enomem")
        BY <2>3 DEF Rev!Fail1
      <4>2. {Rev!Table(i) : i \in {0}} \cup {Rev!Hash(i) : i \in {0}} = {"table0", "hash0"}
        BY DEF Rev!Table, Rev!Hash
      <4>3. ~ (1 \in {0})
        OBVIOUS
      <4> QED
        BY <3>1, <4>1, <4>2, <4>3 DEF Rev!DestroyTables
    <3>3. Rev!TableBytes(0) + 0 \in Int
      BY <3>1
      DEF Built, Rev!TableBytes, Rev!SizeofListHead, Rev!SizeofTable,
          JournalAssumption
    <3>4. Mem!TypeOK' /\ DOMAIN heap' = DOMAIN heap \ {"table0", "hash0"}
      BY <1>B, <3>2, <3>3, RevokeFree, FreeType
    <3>5. j_revoke_table' \in [0 .. 1 -> Rev!Tables]
      BY <2>3 DEF Rev!Fail1, TypeOK, Rev!Tables, Rev!NoTable
    <3>6. TypeOK'
      BY <3>0, <3>2, <3>4, <3>5, PCs DEF TypeOK
    <3>7. Handshake'
      BY <3>0, <3>2, PCs DEF Handshake, WaitPCs
    <3>8. HeapFollowsPc'
      BY <3>0, <3>2, <3>4 DEF HeapFollowsPc, BlocksFollowPc, FirstPCs, BothPCs,
         GotPCs, LoadingPCs, LoadedPCs
    <3> QED
      BY <3>6, <3>7, <3>8
  <2> QED
    BY <1>4, <2>1, <2>2, <2>3 DEF InitRevoke, Rev!txd_journal_init_revoke
<1>5. CASE NewWbuf
  <2>0. pc = "ready" /\ UNCHANGED <<jd, sb, j_revoke_table, j_revoke, wq>>
    BY <1>5 DEF NewWbuf, revokeVars
  <2>1. WbufSize \in Nat /\ WbufSize * SizeofPointer \in Nat
    BY DEF WbufSize, TypeOK, Superblock, SizeofBlockTag, SizeofPointer
  <2>2. /\ j' \in Journal
        /\ j'.j_flags = j.j_flags
        /\ j'.j_wbufsize = WbufSize
    BY <1>5, <2>1 DEF NewWbuf, TypeOK, Journal, Superblock, Tid
  <2>3. CASE /\ Mem!txd_zmalloc_spdk("wbuf", WbufSize * SizeofPointer, TRUE)
             /\ pc' = "load"
    <3>1. /\ Mem!TypeOK'
          /\ DOMAIN heap' = DOMAIN heap \cup {"wbuf"}
          /\ \A x \in DOMAIN heap \ {"wbuf"} : heap'[x] = heap[x]
          /\ heap'["wbuf"] = WbufSize * SizeofPointer
          /\ WbufSize * SizeofPointer > 0
      BY <1>B, <2>1, <2>3, AllocType, PCs
    <3>2. WbufSize > 0
      BY <2>1, <3>1 DEF SizeofPointer
    <3>3. TypeOK'
      BY <2>0, <2>2, <2>3, <3>1, PCs DEF TypeOK
    <3>4. Handshake'
      BY <2>0, <2>2, <2>3, PCs DEF Handshake, WaitPCs
    <3>5. BlocksFollowPc'
      BY <2>0, <2>3, <3>1 DEF HeapFollowsPc, BlocksFollowPc, FirstPCs, BothPCs,
         GotPCs, LoadingPCs, LoadedPCs
    <3>6. Built(0)' /\ Built(1)'
      BY <2>0, <3>1
      DEF HeapFollowsPc, BlocksFollowPc, Built, FirstPCs, BothPCs, Rev!Hash
    <3>7. HeapFollowsPc'
      BY <2>0, <2>2, <2>3, <3>1, <3>2, <3>5, <3>6 DEF HeapFollowsPc
    <3> QED
      BY <3>3, <3>4, <3>7
  <2>4. CASE /\ Mem!txd_zmalloc_spdk("wbuf", WbufSize * SizeofPointer, FALSE)
             /\ pc' = "destroy"
    <3>1. UNCHANGED <<heap, allocated_mem_size>>
      BY <2>4, AllocFails
    <3>2. TypeOK'
      BY <2>0, <2>2, <2>4, <3>1, PCs DEF TypeOK, Mem!TypeOK
    <3>3. Handshake'
      BY <2>0, <2>2, <2>4, PCs DEF Handshake, WaitPCs
    <3>4. HeapFollowsPc'
      BY <2>0, <2>4, <3>1 DEF HeapFollowsPc, BlocksFollowPc, Built,
         FirstPCs, BothPCs, GotPCs, LoadingPCs, LoadedPCs
    <3> QED
      BY <3>2, <3>3, <3>4
  <2> QED
    BY <1>5, <2>3, <2>4 DEF NewWbuf
<1>6. CASE DestroyRevoke
  <2>0. /\ pc = "destroy" /\ j_revoke' = "NULL"
        /\ UNCHANGED <<jd, sb, j, wq, j_revoke_table>>
    BY <1>6 DEF DestroyRevoke, Rev!txd_journal_destroy_revoke
  <2>1. Built(0) /\ Built(1)
    BY <2>0 DEF HeapFollowsPc, FirstPCs, BothPCs
  <2>2. {i \in 0 .. 1 : j_revoke_table[i] # Rev!NoTable} = {0, 1}
    BY <2>1 DEF Built, Rev!NoTable, JournalAssumption
  <2>3. /\ pc' = "destroyed"
        /\ Rev!Mem!txd_free_spdk({"table0", "hash0", "table1", "hash1"},
                                 Rev!TableBytes(0) + Rev!TableBytes(1))
    <3>1. Rev!DestroyTables({0, 1}, "destroyed")
      BY <1>6, <2>2 DEF DestroyRevoke, Rev!txd_journal_destroy_revoke
    <3>2. {Rev!Table(i) : i \in {0, 1}} \cup {Rev!Hash(i) : i \in {0, 1}}
            = {"table0", "hash0", "table1", "hash1"}
      BY DEF Rev!Table, Rev!Hash
    <3>3. \A i \in {0, 1} : Rev!Emptied(j_revoke_table[i])
      BY <2>1 DEF Built
    <3> QED
      BY <3>1, <3>2, <3>3 DEF Rev!DestroyTables
  <2>4. Rev!TableBytes(0) + Rev!TableBytes(1) \in Int
    BY <2>1
    DEF Built, Rev!TableBytes, Rev!SizeofListHead, Rev!SizeofTable,
        JournalAssumption
  <2>5. /\ Mem!TypeOK'
        /\ DOMAIN heap' = DOMAIN heap \ {"table0", "hash0", "table1", "hash1"}
    BY <1>B, <2>3, <2>4, RevokeFree, FreeType
  <2>6. TypeOK'
    BY <2>0, <2>3, <2>5, PCs DEF TypeOK
  <2>7. Handshake'
    BY <2>0, <2>3, PCs DEF Handshake, WaitPCs
  <2>8. HeapFollowsPc'
    BY <2>0, <2>3, <2>5 DEF HeapFollowsPc, BlocksFollowPc, FirstPCs, BothPCs,
       GotPCs, LoadingPCs, LoadedPCs
  <2> QED
    BY <2>6, <2>7, <2>8
<1>7. CASE Out2
  <2>1. Mem!TypeOK' /\ DOMAIN heap' = DOMAIN heap \ {"bh"}
    BY <1>7, <1>B, Sizes, FreeType DEF Out2
  <2>2. TypeOK'
    BY <1>7, <2>1, PCs DEF Out2, TypeOK, revokeVars
  <2>3. Handshake'
    BY <1>7, PCs DEF Out2, Handshake, WaitPCs
  <2>4. HeapFollowsPc'
    BY <1>7, <2>1 DEF Out2, HeapFollowsPc, BlocksFollowPc, FirstPCs, BothPCs,
       GotPCs, LoadingPCs, LoadedPCs
  <2> QED
    BY <2>2, <2>3, <2>4
<1>8. CASE Out1
  <2>1. Mem!TypeOK' /\ DOMAIN heap' = DOMAIN heap \ {"journal"}
    BY <1>8, <1>B, Sizes, FreeType DEF Out1
  <2>2. TypeOK'
    BY <1>8, <2>1, PCs DEF Out1, TypeOK, revokeVars
  <2>3. Handshake'
    BY <1>8, PCs DEF Out1, Handshake, WaitPCs
  <2>4. HeapFollowsPc'
    BY <1>8, <2>1 DEF Out1, HeapFollowsPc, BlocksFollowPc, FirstPCs, BothPCs,
       GotPCs, LoadingPCs, LoadedPCs
  <2> QED
    BY <2>2, <2>3, <2>4
<1>9. CASE txd_journal_load
  <2>1. /\ pc = "load" /\ pc' \in {"load_failed", "spawn"}
        /\ UNCHANGED <<jd, sb, wq, revokeVars, memVars>>
        /\ j' = j \/ j' = ResetJournal
    BY <1>9
    DEF txd_journal_load, txd_journal_reset, txd_journal_update_sb_log_tail
  <2>2. PrevTid(j.j_transaction_sequence) \in Tid
    <3>1. j.j_transaction_sequence - 1 \in Int /\ TidMod \in Nat \ {0}
      BY DEF TypeOK, Journal, Tid, JournalAssumption
    <3> QED
      BY <3>1, ModRange DEF PrevTid, Tid
  <2>3. /\ j' \in Journal
        /\ j'.j_wbufsize = j.j_wbufsize
        /\ "TXD_LOADED" \notin j'.j_flags
        /\ "TXD_ABORT" \in j.j_flags => "TXD_ABORT" \in j'.j_flags
    <3>1. "TXD_LOADED" \notin j.j_flags
      BY <2>1 DEF Handshake
    <3>2. CASE j' = ResetJournal
      <4>1. /\ sb.s_first \in Nat /\ sb.s_maxlen \in Nat
            /\ sb.s_maxlen - sb.s_first \in Int
        BY DEF TypeOK, Superblock
      <4>2. j.j_maxlen \div 4 \in Nat
        BY DEF TypeOK, Journal
      <4>3. j.j_flags \in SUBSET Flags /\ j.j_transaction_sequence \in Tid
        BY DEF TypeOK, Journal
      <4>4. /\ j'.j_flags \in SUBSET Flags
            /\ "TXD_LOADED" \notin j'.j_flags
            /\ "TXD_ABORT" \in j.j_flags => "TXD_ABORT" \in j'.j_flags
            /\ j'.j_wbufsize = j.j_wbufsize
        BY <3>1, <3>2, <4>3 DEF ResetJournal, Flags, TypeOK, Journal
      <4>5. j' \in Journal
        BY <2>2, <3>2, <4>1, <4>2, <4>3, <4>4 DEF ResetJournal, TypeOK, Journal
      <4> QED
        BY <4>4, <4>5
    <3> QED
      BY <2>1, <3>1, <3>2 DEF TypeOK
  <2>4. TypeOK'
    BY <2>1, <2>3, PCs DEF TypeOK, revokeVars, memVars, Mem!TypeOK
  <2>5. Handshake'
    BY <2>1, <2>3, PCs DEF Handshake, WaitPCs
  <2>6. HeapFollowsPc'
    BY <2>1, <2>3, PhaseKept DEF GotPCs, LoadingPCs, LoadedPCs
  <2> QED
    BY <2>4, <2>5, <2>6
<1>10. CASE Spawn
  <2>1. TypeOK'
    BY <1>10, PCs DEF Spawn, TypeOK, revokeVars, memVars, Mem!TypeOK
  <2>2. Handshake'
    <3>1. /\ pc = "spawn" /\ jd = "none" /\ j' = j
          /\ wq' = [wq EXCEPT !.condition = 1]
      BY <1>10 DEF Spawn, Handshake, WaitPCs
    <3>2. wq'.condition = 1 /\ wq'.owner = wq.owner
      BY <3>1 DEF TypeOK
    <3>3. \/ pc' = "lock_wq" /\ jd' \in {"none", "start"}
          \/ pc' = "load_failed" /\ jd' = "none"
      BY <1>10, <3>1 DEF Spawn, TXD_FAIL
    <3> QED
      BY <3>1, <3>2, <3>3, PCs DEF Handshake, WaitPCs
  <2>3. HeapFollowsPc'
    BY <1>10, PhaseKept DEF Spawn, GotPCs, LoadingPCs, LoadedPCs
  <2> QED
    BY <2>1, <2>2, <2>3
<1>11. CASE LockWq
  <2>1. TypeOK'
    BY <1>11, PCs DEF LockWq, TypeOK, revokeVars, memVars, Mem!TypeOK
  <2>2. Handshake'
    BY <1>11, PCs DEF LockWq, Handshake, WaitPCs, TypeOK
  <2>3. HeapFollowsPc'
    BY <1>11, PhaseKept DEF LockWq, GotPCs, LoadingPCs, LoadedPCs
  <2> QED
    BY <2>1, <2>2, <2>3
<1>12. CASE WaitWq
  <2>1. TypeOK'
    BY <1>12, PCs DEF WaitWq, TypeOK, revokeVars, memVars, Mem!TypeOK
  <2>2. jd \notin {"locked", "signalled"} /\ wq.condition # 0
    BY <1>12 DEF WaitWq, Handshake, TypeOK
  <2>3. Handshake'
    BY <1>12, <2>2, PCs DEF WaitWq, Handshake, WaitPCs, TypeOK
  <2>4. HeapFollowsPc'
    BY <1>12, PhaseKept DEF WaitWq, GotPCs, LoadingPCs, LoadedPCs
  <2> QED
    BY <2>1, <2>3, <2>4
<1>13. CASE Finish
  <2>1. /\ j' \in Journal /\ j'.j_wbufsize = j.j_wbufsize
        /\ "TXD_ABORT" \notin j'.j_flags
    BY <1>13 DEF Finish, TypeOK, Journal, Flags
  <2>2. TypeOK'
    BY <1>13, <2>1, PCs DEF Finish, TypeOK, revokeVars, memVars, Mem!TypeOK
  <2>3. jd \in {"sleep", "exited"}
    BY <1>13 DEF Finish, Handshake, WaitPCs, TypeOK
  <2>4. Handshake'
    BY <1>13, <2>1, <2>3, PCs DEF Finish, Handshake, WaitPCs
  <2>5. HeapFollowsPc'
    BY <1>13, <2>1, PhaseKept DEF Finish, GotPCs, LoadingPCs, LoadedPCs
  <2> QED
    BY <2>2, <2>4, <2>5
<1>14. CASE SpuriousWakeup
  <2>1. TypeOK'
    BY <1>14, PCs DEF SpuriousWakeup, TypeOK, revokeVars, memVars, Mem!TypeOK
  <2>2. Handshake'
    BY <1>14, PCs DEF SpuriousWakeup, Handshake, WaitPCs
  <2>3. HeapFollowsPc'
    BY <1>14, PhaseKept DEF SpuriousWakeup, GotPCs, LoadingPCs, LoadedPCs
  <2> QED
    BY <2>1, <2>2, <2>3
<1>15. CASE txd_journald
  <2>1. /\ UNCHANGED <<sb, j, revokeVars, memVars>>
        /\ \/ pc' = pc
           \/ pc = "waiting" /\ pc' = "relock"
    BY <1>15
    DEF txd_journald, JournaldLock, JournaldSignal, JournaldUnlock,
        JournaldExit,
       revokeVars, memVars
  <2>2. TypeOK'
    BY <1>15, <2>1, PCs
    DEF txd_journald, JournaldLock, JournaldSignal, JournaldUnlock,
       JournaldExit, TypeOK, revokeVars, memVars, Mem!TypeOK
  <2>3. Handshake'
    BY <1>15, <2>1, PCs
    DEF txd_journald, JournaldLock, JournaldSignal, JournaldUnlock,
       JournaldExit, Handshake, WaitPCs, TypeOK
  <2>4. HeapFollowsPc'
    BY <2>1, PhaseKept DEF GotPCs, LoadingPCs
  <2> QED
    BY <2>2, <2>3, <2>4
<1>16. CASE UNCHANGED vars
  BY <1>16
  DEF vars, revokeVars, memVars, TypeOK, Mem!TypeOK, Handshake, HeapFollowsPc,
     BlocksFollowPc, Built
<1> QED
  BY <1>1, <1>2, <1>3, <1>4, <1>5, <1>6, <1>7, <1>8, <1>9, <1>10, <1>11, <1>12,
     <1>13, <1>14, <1>15, <1>16 DEF Next, Open, Load, Returned

(* The inductive invariant holds in every reachable state.                 *)
THEOREM Invariance == Spec => []Inductive
<1>1. Init => Inductive
  BY InitInductive, JournalAssumption
<1>2. Inductive /\ [Next]_vars => Inductive'
  BY StepInductive, JournalAssumption
<1> QED
  BY <1>1, <1>2, PTL DEF Spec

-----------------------------------------------------------------------------
(* Every variable keeps its type.                                          *)
THEOREM TypeCorrect == Spec => []TypeOK
<1>1. Inductive => TypeOK
  BY DEF Inductive
<1> QED
  BY <1>1, Invariance, PTL

(* A caller that gets NULL holds nothing, one that gets a journal holds    *)
(* all of it (txd_journal_init_common with its labels out1 to out3).       *)
THEOREM OpenedWholeHolds == Spec => []OpenedWhole
<1>1. Inductive => OpenedWhole
  <2> SUFFICES ASSUME Inductive PROVE OpenedWhole
    OBVIOUS
  <2>1. ASSUME pc = "idle" PROVE DOMAIN heap = {}
    <3>1. \A b \in JournalBlocks : b \notin DOMAIN heap
      BY <2>1, PCs
      DEF Inductive, HeapFollowsPc, BlocksFollowPc, FirstPCs, BothPCs, GotPCs
    <3> QED
      BY <3>1 DEF Inductive, TypeOK, Mem!TypeOK
  <2>2. ASSUME pc \in LoadingPCs \cup LoadedPCs
        PROVE  /\ DOMAIN heap = JournalBlocks
               /\ j.j_wbufsize > 0
               /\ heap["wbuf"] = j.j_wbufsize * SizeofPointer
               /\ j_revoke = "table1"
               /\ \A i \in 0 .. 1 : heap[Rev!Hash(i)] =
                    Rev!SizeofListHead * j_revoke_table[i].hash_size
    <3>1. DOMAIN heap = JournalBlocks
      BY <2>2, PCs
      DEF Inductive, HeapFollowsPc, BlocksFollowPc, FirstPCs, BothPCs,
         GotPCs, TypeOK, Mem!TypeOK
    <3>2. Built(0) /\ Built(1)
      BY <2>2 DEF Inductive, HeapFollowsPc, FirstPCs, BothPCs, GotPCs
    <3>3. \A i \in 0 .. 1 : heap[Rev!Hash(i)] =
                    Rev!SizeofListHead * j_revoke_table[i].hash_size
      BY <3>2 DEF Built
    <3> QED
      BY <2>2, <3>1, <3>3 DEF Inductive, HeapFollowsPc, GotPCs
  <2> QED
    BY <2>1, <2>2 DEF OpenedWhole
<1> QED
  BY <1>1, Invariance, PTL

(* The assert of txd_journal_destroy_revoke_table never fires.             *)
THEOREM NoAssertHolds == Spec => []NoAssert
<1>1. Inductive => NoAssert
  BY DEF Inductive, HeapFollowsPc, NoAssert
<1> QED
  BY <1>1, Invariance, PTL

(* From the store of TXD_ABORT on the journal is marked for error until    *)
(* journald has reported and let the mutex go, and it is never TXD_LOADED  *)
(* and TXD_ABORT at once.                                                  *)
THEOREM MarkedUntilServedHolds == Spec => []MarkedUntilServed
<1>1. Inductive => MarkedUntilServed
  BY PCs DEF Inductive, Handshake, MarkedUntilServed
<1> QED
  BY <1>1, Invariance, PTL

(* No wakeup of the opening thread is lost: a journald that exists has yet *)
(* to signal while that thread is blocked, whatever wakes it in between.   *)
THEOREM NoLostWakeupHolds == Spec => []NoLostWakeup
<1>1. Inductive => NoLostWakeup
  BY DEF Inductive, Handshake, NoLostWakeup, WaitPCs, Hung
<1> QED
  BY <1>1, Invariance, PTL

-----------------------------------------------------------------------------
(* Building or taking down a journal goes nowhere near the loading, and    *)
(* sets no flag but TXD_ABORT.                                             *)
LEMMA OpenStays ==
  ASSUME TypeOK, txd_get_journal \/ Open
  PROVE  /\ pc' \notin {"spawn"} \cup WaitPCs \cup LoadedPCs
         /\ UNCHANGED jd
         /\ j'.j_flags \subseteq j.j_flags \cup {"TXD_ABORT"}
<1>1. CASE txd_get_journal
  BY <1>1 DEF txd_get_journal, WaitPCs, LoadedPCs
<1>2. CASE NewJournal
  <2>1. j' = j \/ \E failed, tid \in Garbage : j' = Unwritten(failed, tid)
    BY <1>2 DEF NewJournal
  <2>2. j' = j \/ j'.j_flags = {}
    BY <2>1 DEF Unwritten
  <2>3. pc' \in {"bh", "idle"} /\ UNCHANGED jd
    BY <1>2 DEF NewJournal
  <2> QED
    BY <2>2, <2>3 DEF WaitPCs, LoadedPCs
<1>3. CASE NewBufferHead
  <2>1. \/ j' = j
        \/ j' = [j EXCEPT !.j_flags = {"TXD_ABORT"}]
    BY <1>3 DEF NewBufferHead
  <2>2. j'.j_flags \subseteq j.j_flags \cup {"TXD_ABORT"}
    BY <2>1 DEF TypeOK, Journal
  <2> QED
    BY <1>3, <2>2 DEF NewBufferHead, WaitPCs, LoadedPCs
<1>4. CASE InitRevoke
  <2>1. UNCHANGED <<jd, j>> /\ Rev!txd_journal_init_revoke
    BY <1>4 DEF InitRevoke
  <2>2. ASSUME NEW i \in 0 .. 1, Rev!NewTable(i) \/ Rev!NewHash(i)
        PROVE  pc' \in {"hash0", "hash1", "enomem", "fail1", "table1", "ready"}
    BY <2>2 DEF Rev!NewTable, Rev!NewHash, Rev!Hash
  <2>4. pc' \in {"hash0", "hash1", "enomem", "fail1", "table1", "ready", "aborted"}
    <3>1. CASE Rev!Fail1
      BY <3>1 DEF Rev!Fail1, Rev!DestroyTables
    <3> QED
      BY <2>1, <2>2, <3>1 DEF Rev!txd_journal_init_revoke
  <2> QED
    BY <2>1, <2>4 DEF WaitPCs, LoadedPCs
<1>5. CASE NewWbuf
  BY <1>5 DEF NewWbuf, WaitPCs, LoadedPCs, TypeOK, Journal
<1>6. CASE DestroyRevoke
  BY <1>6 DEF DestroyRevoke, Rev!txd_journal_destroy_revoke, Rev!DestroyTables,
     WaitPCs, LoadedPCs
<1>7. CASE Out2 \/ Out1
  BY <1>7 DEF Out2, Out1, WaitPCs, LoadedPCs
<1> QED
  BY <1>1, <1>2, <1>3, <1>4, <1>5, <1>6, <1>7 DEF Open

(* txd_journal_load waits for a thread that does not exist only if         *)
(* pthread_create fails with an error number other than TXD_FAIL.          *)
THEOREM HangNeedsCreateError ==
  ASSUME CreateResults \subseteq {0, TXD_FAIL}
  PROVE  Spec => []~Hung
<1> DEFINE Spawned == pc \in WaitPCs => jd # "none"
<1>1. Init => Spawned
  BY DEF Init, WaitPCs
<1>2. Inductive /\ Spawned /\ [Next]_vars => Spawned'
  <2> SUFFICES ASSUME Inductive, Spawned, [Next]_vars PROVE Spawned'
    OBVIOUS
  <2>1. CASE txd_get_journal \/ Open
    BY <2>1, OpenStays DEF Inductive
  <2>2. CASE Spawn
    BY <2>2 DEF Spawn, WaitPCs, TXD_FAIL
  <2>3. CASE txd_journal_load
    BY <2>3 DEF txd_journal_load, txd_journal_reset, WaitPCs
  <2>4. CASE LockWq \/ WaitWq \/ Finish \/ SpuriousWakeup
    BY <2>4 DEF LockWq, WaitWq, Finish, SpuriousWakeup, WaitPCs
  <2>5. CASE txd_journald
    BY <2>5
    DEF txd_journald, JournaldLock, JournaldSignal, JournaldUnlock,
        JournaldExit
  <2>6. CASE UNCHANGED vars
    BY <2>6 DEF vars
  <2> QED
    BY <2>1, <2>2, <2>3, <2>4, <2>5, <2>6 DEF Next, Load, Returned
<1>3. Spawned => ~Hung
  BY DEF Hung
<1> QED
  BY <1>1, <1>2, <1>3, Invariance, PTL DEF Spec

-----------------------------------------------------------------------------
(* The books of txd_malloc.c.  The sums and the finite sets of Mem and of  *)
(* this module are those the lemmas of MemP are about.                     *)
LEMMA MemSum == \A f : Mem!SumFunction(f) = MemP!SumFunction(f)
  BY DEF MemP!SumFunction, MemP!SumFunctionOnSet, MemP!FoldFunctionOnSet,
         MemP!MapThenFoldSet,
         Mem!SumFunction, Mem!SumFunctionOnSet, Mem!FoldFunctionOnSet,
         Mem!MapThenFoldSet

LEMMA MemFinite == \A S : IsFiniteSet(S) <=> MemP!IsFiniteSet(S)
  BY DEF IsFiniteSet, MemP!IsFiniteSet

(* There are only seven blocks, so the bytes in them can be added up.      *)
LEMMA HeapFinite ==
  ASSUME Mem!TypeOK
  PROVE  /\ MemP!IsFiniteSet(DOMAIN heap)
         /\ \A x \in DOMAIN heap : heap[x] \in Int
<1>1. IsFiniteSet({"journal"} \cup {"bh"} \cup {"wbuf"} \cup {"table0"}
                    \cup {"hash0"} \cup {"table1"} \cup {"hash1"})
  <2>1. \A S, b : IsFiniteSet(S) => IsFiniteSet(S \cup {b})
    BY FS_AddElement
  <2>2. IsFiniteSet({"journal"})
    BY FS_Singleton
  <2> QED
    BY <2>1, <2>2, Zenon
<1>2. DOMAIN heap \subseteq
        {"journal"} \cup {"bh"} \cup {"wbuf"} \cup {"table0"}
          \cup {"hash0"} \cup {"table1"} \cup {"hash1"}
  BY PCs DEF Mem!TypeOK
<1> QED
  BY <1>1, <1>2, FS_Subset, MemFinite DEF Mem!TypeOK

(* The total is what the live blocks add up to.                            *)
Exact == allocated_mem_size = MemP!SumFunction(heap) % MemMod

(* Which is what AccountingExact says.                                     *)
LEMMA ExactIs ==
  ASSUME JournalAssumption, Mem!TypeOK
  PROVE  Mem!AccountingExact <=> Exact
<1>1. MemP!SumFunction(heap) \in Int
  BY HeapFinite, MemP!SumType DEF JournalAssumption
<1>2. Mem!SumFunction(heap) + 0 = MemP!SumFunction(heap)
  BY <1>1, MemSum
<1> QED
  BY <1>2 DEF Mem!AccountingExact, Exact

(* A block that was not there is counted when it is allocated.             *)
LEMMA AllocExact ==
  ASSUME JournalAssumption, Mem!TypeOK, Exact, NEW b, b \notin DOMAIN heap,
         NEW n \in Nat, Mem!txd_zmalloc_spdk(b, n, TRUE)
  PROVE  Exact'
<1>1. heap' = Mem!With(heap, b, n) /\ Mem!Count(n)
  BY DEF Mem!txd_zmalloc_spdk, Mem!PoolAlloc
<1>2. MemP!SumFunction(Mem!With(heap, b, n)) = MemP!SumFunction(heap) + n
  <2>1. n \in Int
    OBVIOUS
  <2> QED
    BY <2>1, HeapFinite, MemP!SumWith DEF Mem!With
<1>3. MemP!SumFunction(heap) \in Int /\ n \in Int /\ MemMod \in Nat \ {0}
  BY HeapFinite, MemP!SumType DEF JournalAssumption
<1>4. ((MemP!SumFunction(heap) % MemMod) + n) % MemMod
        = (MemP!SumFunction(heap) + n) % MemMod
  <2> DEFINE a == MemP!SumFunction(heap)
  <2>1. a \in Int /\ n \in Int /\ MemMod \in Nat \ {0}
    BY <1>3
  <2> HIDE DEF a
  <2>2. ((a % MemMod) + n) % MemMod = (a + n) % MemMod
    BY <2>1, ModAdd
  <2> QED
    BY <2>2 DEF a
<1> QED
  BY <1>1, <1>2, <1>4 DEF Exact, Mem!Count

(* Live blocks that are released at the size they were allocated with are  *)
(* counted off.                                                            *)
LEMMA FreeExact ==
  ASSUME JournalAssumption, Mem!TypeOK, Exact, NEW B \in SUBSET DOMAIN heap,
         NEW n \in Int, Mem!txd_free_spdk(B, n), n = MemP!SumFunctionOnSet(heap, B)
  PROVE  Exact'
<1>1. heap' = Mem!Without(heap, B) /\ Mem!Count(-n)
  BY DEF Mem!txd_free_spdk, Mem!Release
<1>2. MemP!SumFunction(Mem!Without(heap, B))
        = MemP!SumFunction(heap) - MemP!SumFunctionOnSet(heap, B)
  BY HeapFinite, MemP!SumWithout DEF Mem!Without
<1>3. MemP!SumFunction(heap) \in Int /\ MemMod \in Nat \ {0}
  BY HeapFinite, MemP!SumType DEF JournalAssumption
<1> DEFINE m == -n
<1>4. /\ m \in Int /\ Mem!Count(m)
      /\ MemP!SumFunction(heap) - n = MemP!SumFunction(heap) + m
  BY <1>1, <1>3
<1> HIDE DEF m
<1>5. ((MemP!SumFunction(heap) % MemMod) + m) % MemMod
        = (MemP!SumFunction(heap) + m) % MemMod
  BY <1>3, <1>4, ModAdd
<1> QED
  BY <1>1, <1>2, <1>4, <1>5 DEF Exact, Mem!Count

(* The blocks of fixed size have the size at which they will be released;  *)
(* the bucket arrays have theirs by Built.                                 *)
SizesKept ==
  /\ "journal" \in DOMAIN heap => heap["journal"] = SizeofPointer
  /\ "bh"      \in DOMAIN heap => heap["bh"]      = SizeofBufferHead
  /\ "table0"  \in DOMAIN heap => heap["table0"]  = Rev!SizeofTable
  /\ "table1"  \in DOMAIN heap => heap["table1"]  = Rev!SizeofTable

Books == Exact /\ SizesKept

(* An allocation is booked.                                                *)
LEMMA AllocBooks ==
  ASSUME JournalAssumption, Mem!TypeOK, Books, NEW b \in JournalBlocks,
         b \notin DOMAIN heap, NEW n \in Nat, Mem!txd_zmalloc_spdk(b, n, TRUE),
         b = "journal" => n = SizeofPointer,
         b = "bh" => n = SizeofBufferHead,
         b \in {"table0", "table1"} => n = Rev!SizeofTable
  PROVE  Books'
<1>1. Exact'
  BY AllocExact DEF Books
<1>2. /\ DOMAIN heap' = DOMAIN heap \cup {b}
      /\ \A x \in DOMAIN heap : heap'[x] = heap[x]
      /\ heap'[b] = n
  BY DEF Mem!txd_zmalloc_spdk, Mem!PoolAlloc, Mem!With
<1>3. SizesKept'
  BY <1>2 DEF Books, SizesKept
<1> QED
  BY <1>1, <1>3 DEF Books

(* A failed one leaves the books alone.                                    *)
LEMMA NoChangeBooks ==
  ASSUME Books, UNCHANGED <<heap, allocated_mem_size>>
  PROVE  Books'
  BY DEF Books, Exact, SizesKept

(* A release is booked.                                                    *)
LEMMA FreeBooks ==
  ASSUME JournalAssumption, Mem!TypeOK, Books, NEW B \in SUBSET DOMAIN heap,
         NEW n \in Int, Mem!txd_free_spdk(B, n), n = MemP!SumFunctionOnSet(heap, B)
  PROVE  Books'
<1>1. Exact'
  BY FreeExact DEF Books
<1>2. /\ DOMAIN heap' = DOMAIN heap \ B
      /\ \A x \in DOMAIN heap \ B : heap'[x] = heap[x]
  BY DEF Mem!txd_free_spdk, Mem!Release, Mem!Without
<1>3. SizesKept'
  BY <1>2 DEF Books, SizesKept
<1> QED
  BY <1>1, <1>3 DEF Books

(* A complete table weighs what txd_journal_destroy_revoke_table releases. *)
LEMMA TableWeight ==
  ASSUME JournalAssumption, Mem!TypeOK, SizesKept, NEW i \in 0 .. 1, Built(i),
         Rev!Table(i) \in DOMAIN heap, Rev!Hash(i) \in DOMAIN heap
  PROVE  /\ MemP!SumFunctionOnSet(heap, {Rev!Table(i), Rev!Hash(i)}) = Rev!TableBytes(i)
         /\ Rev!TableBytes(i) \in Int
<1>1. /\ heap[Rev!Table(i)] = Rev!SizeofTable
      /\ Rev!Table(i) # Rev!Hash(i)
  BY DEF SizesKept, Rev!Table, Rev!Hash
<1>2. /\ heap[Rev!Hash(i)] = Rev!SizeofListHead * HashSize
      /\ j_revoke_table[i].hash_size = HashSize
  BY DEF Built
<1>3. heap[Rev!Table(i)] \in Int /\ heap[Rev!Hash(i)] \in Int
  BY HeapFinite
<1> DEFINE a == Rev!Table(i)
           b == Rev!Hash(i)
<1> HIDE DEF a, b
<1>4. MemP!SumFunctionOnSet(heap, {a, b}) = heap[a] + heap[b]
  BY <1>1, <1>3, MemP!SumTwo DEF a, b
<1>5. Rev!TableBytes(i) = heap[a] + heap[b]
  BY <1>1, <1>2, <1>3 DEF Rev!TableBytes, a, b
<1> QED
  BY <1>3, <1>4, <1>5 DEF a, b

(* The books start out balanced.                                           *)
LEMMA BooksInit == JournalAssumption /\ Init => Books
<1> SUFFICES ASSUME JournalAssumption, Init PROVE Books
  OBVIOUS
<1>1. heap = << >> /\ allocated_mem_size = 0 /\ MemMod \in Nat \ {0}
  BY DEF Init, Mem!Init, JournalAssumption
<1>2. DOMAIN heap = {}
  BY <1>1
<1>3. MemP!SumFunction(heap) = 0
  BY <1>2, MemP!SumEmpty DEF MemP!SumFunction
<1>4. 0 % MemMod = 0
  <2>1. 0 = 0 * MemMod + 0 /\ 0 \in 0 .. MemMod - 1
    BY <1>1
  <2> QED
    BY <1>1, <2>1, ModUnique
<1> QED
  BY <1>1, <1>2, <1>3, <1>4 DEF Books, Exact, SizesKept

(* Every step of the opening keeps the books.                              *)
LEMMA BooksStep == JournalAssumption /\ Inductive /\ Books /\ [Next]_vars => Books'
<1> SUFFICES ASSUME JournalAssumption, Inductive, Books, [Next]_vars
             PROVE  Books'
  OBVIOUS
<1>A. TypeOK /\ Mem!TypeOK /\ HeapFollowsPc /\ BlocksFollowPc
  BY DEF Inductive, TypeOK, HeapFollowsPc
<1>1. CASE NewJournal
  <2>1. CASE Mem!txd_zmalloc_spdk("journal", SizeofPointer, TRUE)
    <3>1. "journal" \notin DOMAIN heap
      BY <1>1, <1>A DEF NewJournal, BlocksFollowPc
    <3> QED
      BY <1>A, <2>1, <3>1, AllocBooks, PCs, Sizes
  <2>2. CASE Mem!txd_zmalloc_spdk("journal", SizeofPointer, FALSE)
    BY <2>2, AllocFails, NoChangeBooks
  <2> QED
    BY <1>1, <2>1, <2>2 DEF NewJournal
<1>2. CASE NewBufferHead
  <2>1. CASE Mem!txd_zmalloc_spdk("bh", SizeofBufferHead, TRUE)
    <3>1. "bh" \notin DOMAIN heap
      BY <1>2, <1>A DEF NewBufferHead, BlocksFollowPc
    <3> QED
      BY <1>A, <2>1, <3>1, AllocBooks, PCs, Sizes
  <2>2. CASE Mem!txd_zmalloc_spdk("bh", SizeofBufferHead, FALSE)
    BY <2>2, AllocFails, NoChangeBooks
  <2> QED
    BY <1>2, <2>1, <2>2 DEF NewBufferHead
<1>3. ASSUME NEW i \in 0 .. 1, Rev!NewTable(i)
      PROVE  Books'
  <2>1. pc = Rev!Table(i)
    BY <1>3 DEF Rev!NewTable
  <2>2. CASE Rev!Mem!txd_zmalloc_spdk(Rev!Table(i), Rev!SizeofTable, TRUE)
    <3>1. Rev!Table(i) \notin DOMAIN heap
      BY <1>A, <2>1 DEF BlocksFollowPc, Rev!Table, FirstPCs, BothPCs, GotPCs,
         LoadingPCs, LoadedPCs
    <3>2. Mem!txd_zmalloc_spdk(Rev!Table(i), Rev!SizeofTable, TRUE)
      BY <2>2, RevokeAlloc
    <3>3. /\ Rev!Table(i) \in JournalBlocks
          /\ Rev!Table(i) \notin {"journal", "bh"}
      BY PCs DEF Rev!Table
    <3> QED
      BY <1>A, <3>1, <3>2, <3>3, AllocBooks, Sizes
  <2>3. CASE Rev!Mem!txd_zmalloc_spdk(Rev!Table(i), Rev!SizeofTable, FALSE)
    BY <2>3, RevokeAlloc, AllocFails, NoChangeBooks
  <2> QED
    BY <1>3, <2>2, <2>3 DEF Rev!NewTable
<1>4. ASSUME NEW i \in 0 .. 1, Rev!NewHash(i)
      PROVE  Books'
  <2>1. pc = Rev!Hash(i)
    BY <1>4 DEF Rev!NewHash
  <2>2. CASE Rev!Mem!txd_zmalloc_spdk(Rev!Hash(i), HashSize * Rev!SizeofListHead, TRUE)
    <3> DEFINE n == HashSize * Rev!SizeofListHead
    <3>1. n \in Nat
      BY DEF Rev!SizeofListHead, JournalAssumption
    <3>2. Mem!txd_zmalloc_spdk(Rev!Hash(i), n, TRUE)
      BY <2>2, RevokeAlloc
    <3>3. Rev!Hash(i) \notin DOMAIN heap
      BY <1>A, <2>1 DEF BlocksFollowPc, Rev!Hash, FirstPCs, BothPCs, GotPCs,
         LoadingPCs, LoadedPCs
    <3>4. /\ Rev!Hash(i) \in JournalBlocks
          /\ Rev!Hash(i) \notin {"journal", "bh", "table0", "table1"}
      BY PCs DEF Rev!Hash
    <3> HIDE DEF n
    <3> QED
      BY <1>A, <3>1, <3>2, <3>3, <3>4, AllocBooks
  <2>3. CASE Rev!Mem!txd_free_spdk({Rev!Table(i)}, Rev!SizeofTable)
    <3>1. Rev!Table(i) \in DOMAIN heap
      BY <1>A, <2>1 DEF BlocksFollowPc, Rev!Table, Rev!Hash, FirstPCs
    <3>2. heap[Rev!Table(i)] = Rev!SizeofTable
      BY <3>1 DEF Books, SizesKept, Rev!Table
    <3>3. Mem!txd_free_spdk({Rev!Table(i)}, Rev!SizeofTable)
      BY <2>3, RevokeFree
    <3>4. Rev!SizeofTable \in Int
      BY Sizes
    <3>5. MemP!SumFunctionOnSet(heap, {Rev!Table(i)}) = Rev!SizeofTable
      BY <3>2, <3>4, MemP!SumOne
    <3> QED
      BY <1>A, <3>1, <3>3, <3>4, <3>5, FreeBooks
  <2> QED
    BY <1>4, <2>2, <2>3 DEF Rev!NewHash
<1>5. CASE Rev!Fail1
  <2>1. pc = "fail1" /\ Built(0)
    BY <1>5, <1>A DEF Rev!Fail1, HeapFollowsPc, FirstPCs
  <2>2. "table0" \in DOMAIN heap /\ "hash0" \in DOMAIN heap
    BY <1>A, <2>1 DEF BlocksFollowPc, FirstPCs
  <2>3. /\ MemP!SumFunctionOnSet(heap, {"table0", "hash0"}) = Rev!TableBytes(0)
        /\ Rev!TableBytes(0) \in Int
    BY <1>A, <2>1, <2>2, TableWeight DEF Books, Rev!Table, Rev!Hash
  <2>4. Rev!Mem!txd_free_spdk({"table0", "hash0"}, Rev!TableBytes(0) + 0)
    <3>1. Rev!DestroyTables({0}, "enomem")
      BY <1>5 DEF Rev!Fail1
    <3>2. {Rev!Table(i) : i \in {0}} \cup {Rev!Hash(i) : i \in {0}} = {"table0", "hash0"}
      BY DEF Rev!Table, Rev!Hash
    <3>3. ~ (1 \in {0})
      OBVIOUS
    <3> QED
      BY <2>1, <3>1, <3>2, <3>3 DEF Rev!DestroyTables, Built
  <2> DEFINE n == Rev!TableBytes(0) + 0
  <2>5. n \in Int /\ n = MemP!SumFunctionOnSet(heap, {"table0", "hash0"})
    BY <2>3
  <2>6. Mem!txd_free_spdk({"table0", "hash0"}, n)
    BY <2>4, RevokeFree
  <2>7. {"table0", "hash0"} \in SUBSET DOMAIN heap
    BY <2>2
  <2> HIDE DEF n
  <2> QED
    BY <1>A, <2>5, <2>6, <2>7, FreeBooks
<1>6. CASE NewWbuf
  <2> DEFINE n == WbufSize * SizeofPointer
  <2>1. pc = "ready" /\ n \in Nat
    BY <1>6, <1>A
    DEF NewWbuf, WbufSize, TypeOK, Superblock, SizeofBlockTag, SizeofPointer
  <2>2. CASE Mem!txd_zmalloc_spdk("wbuf", n, TRUE)
    <3>1. "wbuf" \notin DOMAIN heap
      BY <1>A, <2>1 DEF BlocksFollowPc, GotPCs, LoadingPCs, LoadedPCs
    <3> HIDE DEF n
    <3> QED
      BY <1>A, <2>1, <2>2, <3>1, AllocBooks, PCs
  <2>3. CASE Mem!txd_zmalloc_spdk("wbuf", n, FALSE)
    BY <2>3, AllocFails, NoChangeBooks
  <2> QED
    BY <1>6, <2>2, <2>3 DEF NewWbuf
<1>7. CASE DestroyRevoke
  <2>1. pc = "destroy" /\ Built(0) /\ Built(1)
    BY <1>7, <1>A
    DEF DestroyRevoke, Rev!txd_journal_destroy_revoke, HeapFollowsPc,
       FirstPCs, BothPCs
  <2> DEFINE A == {"table0", "hash0"}
             B == {"table1", "hash1"}
             S == {"table0", "hash0", "table1", "hash1"}
             a == Rev!TableBytes(0)
             b == Rev!TableBytes(1)
             n == a + b
  <2>2. S \in SUBSET DOMAIN heap
    BY <1>A, <2>1 DEF BlocksFollowPc, FirstPCs, BothPCs
  <2>3. MemP!SumFunctionOnSet(heap, A) = a /\ a \in Int
    BY <1>A, <2>1, <2>2, TableWeight DEF Books, Rev!Table, Rev!Hash
  <2>4. MemP!SumFunctionOnSet(heap, B) = b /\ b \in Int
    BY <1>A, <2>1, <2>2, TableWeight DEF Books, Rev!Table, Rev!Hash
  <2>5. Rev!Mem!txd_free_spdk(S, n)
    <3>1. {i \in 0 .. 1 : j_revoke_table[i] # Rev!NoTable} = {0, 1}
      BY <2>1 DEF Built, Rev!NoTable, JournalAssumption
    <3>2. Rev!DestroyTables({0, 1}, "destroyed")
      BY <1>7, <3>1 DEF DestroyRevoke, Rev!txd_journal_destroy_revoke
    <3>3. {Rev!Table(i) : i \in {0, 1}} \cup {Rev!Hash(i) : i \in {0, 1}} = S
      BY DEF Rev!Table, Rev!Hash
    <3>4. \A i \in {0, 1} : Rev!Emptied(j_revoke_table[i])
      BY <2>1 DEF Built
    <3> QED
      BY <3>2, <3>3, <3>4 DEF Rev!DestroyTables
  <2>6. Mem!txd_free_spdk(S, n)
    BY <2>5, RevokeFree
  <2>7. A \in SUBSET S /\ B = S \ A
    OBVIOUS
  <2>8. MemP!IsFiniteSet(S) /\ \A x \in S : heap[x] \in Int
    BY <1>A, <2>2, HeapFinite, FS_Subset, MemFinite
  <2> HIDE DEF A, B, S, a, b
  <2>9. MemP!SumFunctionOnSet(heap, S)
          = MemP!SumFunctionOnSet(heap, A) + MemP!SumFunctionOnSet(heap, S \ A)
    BY <2>7, <2>8, MemP!SumsPart DEF JournalAssumption
  <2>10. n \in Int /\ n = MemP!SumFunctionOnSet(heap, S)
    BY <2>3, <2>4, <2>7, <2>9
  <2> HIDE DEF n
  <2> QED
    BY <1>A, <2>2, <2>6, <2>10, FreeBooks
<1>8. ASSUME NEW b \in {"bh", "journal"}, NEW n \in Int, b \in DOMAIN heap,
             n = heap[b], Mem!txd_free_spdk({b}, n)
      PROVE  Books'
  <2>1. MemP!SumFunctionOnSet(heap, {b}) = n
    BY <1>8, MemP!SumOne
  <2>2. {b} \in SUBSET DOMAIN heap
    BY <1>8
  <2> QED
    BY <1>A, <1>8, <2>1, <2>2, FreeBooks
<1>9. CASE Out2
  <2>1. "bh" \in DOMAIN heap
    BY <1>9, <1>A DEF Out2, BlocksFollowPc
  <2>2. heap["bh"] = SizeofBufferHead
    BY <2>1 DEF Books, SizesKept
  <2> QED
    BY <1>8, <1>9, <2>1, <2>2, Sizes DEF Out2
<1>10. CASE Out1
  <2>1. "journal" \in DOMAIN heap
    BY <1>10, <1>A DEF Out1, BlocksFollowPc
  <2>2. heap["journal"] = SizeofPointer
    BY <2>1 DEF Books, SizesKept
  <2> QED
    BY <1>8, <1>10, <2>1, <2>2, Sizes DEF Out1
<1>11. CASE \/ txd_get_journal \/ Load \/ SpuriousWakeup \/ txd_journald
            \/ UNCHANGED vars
  <2>1. UNCHANGED <<heap, allocated_mem_size>>
    BY <1>11
    DEF txd_get_journal, Load, txd_journal_load, Spawn, LockWq, WaitWq,
       Finish, SpuriousWakeup, txd_journald, JournaldLock, JournaldSignal,
       JournaldUnlock, JournaldExit, vars, memVars
  <2> QED
    BY <2>1, NoChangeBooks
<1> QED
  BY <1>1, <1>2, <1>3, <1>4, <1>5, <1>6, <1>7, <1>9, <1>10, <1>11
     DEF Next, Open, InitRevoke, Rev!txd_journal_init_revoke, Returned

(* allocated_mem_size is the number of bytes in live blocks at every step  *)
(* of an opening, also when it fails half-way: each block is released at   *)
(* the size it was allocated with.                                         *)
THEOREM AccountingExactHolds == Spec => []AccountingExact
<1>1. Init => Books
  BY BooksInit, JournalAssumption
<1>2. Inductive /\ Books /\ [Next]_vars => Books'
  BY BooksStep, JournalAssumption
<1>3. Inductive /\ Books => AccountingExact
  BY ExactIs, JournalAssumption DEF Inductive, TypeOK, Books, AccountingExact
<1> QED
  BY <1>1, <1>2, <1>3, Invariance, PTL DEF Spec

-----------------------------------------------------------------------------
(* Opening a journal implements JournalOpen: each step of the two threads  *)
(* is a step of the abstract opening or is invisible to the caller.        *)
AbsFollowsPc ==
  /\ pc = "idle" => AbsSt = "idle" /\ AbsHeld = {} /\ AbsUsable = FALSE
  /\ pc \in OpeningPCs => AbsSt = "opening" /\ AbsHeld = {} /\ AbsUsable = FALSE
  /\ pc \in LoadingPCs =>
       /\ AbsSt = IF Hung THEN "hung" ELSE "got"
       /\ AbsHeld = JournalBlocks
       /\ AbsUsable = FALSE
  /\ pc \in LoadedPCs => AbsSt = pc /\ AbsHeld = JournalBlocks
  /\ pc = "load_failed" => AbsUsable = FALSE

(* What the caller sees follows from the control point.                    *)
LEMMA AbsValues == Inductive => AbsFollowsPc
<1> SUFFICES ASSUME Inductive PROVE AbsFollowsPc
  OBVIOUS
<1>1. pc = "idle" => DOMAIN heap = {}
  <2>1. ASSUME pc = "idle" PROVE \A b \in JournalBlocks : b \notin DOMAIN heap
    BY <2>1, PCs
    DEF Inductive, HeapFollowsPc, BlocksFollowPc, FirstPCs, BothPCs, GotPCs
  <2> QED
    BY <2>1 DEF Inductive, TypeOK, Mem!TypeOK
<1>2. pc \in LoadingPCs \cup LoadedPCs => DOMAIN heap = JournalBlocks
  BY PCs
  DEF Inductive, HeapFollowsPc, BlocksFollowPc, FirstPCs, BothPCs, GotPCs,
     TypeOK, Mem!TypeOK
<1>3. pc # "loaded" => AbsUsable = FALSE
  BY DEF Inductive, Handshake, AbsUsable
<1> QED
  BY <1>1, <1>2, <1>3, PCs DEF AbsSt, AbsHeld, AbsFollowsPc

(* The abstract specification of what a caller of txd_get_journal and      *)
(* txd_journal_load sees is implemented by their code and journald.        *)
THEOREM RefinesJournalOpen == Spec => Abs!SafeSpec
<1>1. Init => Abs!Init
  <2> SUFFICES ASSUME Init PROVE Abs!Init
    OBVIOUS
  <2>1. Inductive
    BY InitInductive, JournalAssumption
  <2>2. pc = "idle"
    BY DEF Init
  <2> QED
    BY <2>1, <2>2, AbsValues DEF Abs!Init, AbsFollowsPc
<1>2. Inductive' => AbsFollowsPc'
  BY AbsValues, PTL
<1>3. Inductive /\ Inductive' /\ [Next]_vars => [Abs!Next]_(Abs!vars)
  <2> SUFFICES ASSUME Inductive, Inductive', [Next]_vars
               PROVE  Abs!Next \/ UNCHANGED <<AbsSt, AbsHeld, AbsUsable>>
    BY DEF Abs!vars
  <2>0. TypeOK /\ AbsFollowsPc /\ AbsFollowsPc'
    BY <1>2, AbsValues DEF Inductive
  <2>1. CASE txd_get_journal
    <3>1. Abs!Begin
      BY <2>0, <2>1, PCs DEF txd_get_journal, AbsFollowsPc, Abs!Begin
    <3> QED
      BY <3>1 DEF Abs!Next
  <2>2. CASE Open
    <3>1. pc \in OpeningPCs
      BY <2>2, PCs DEF Open, NewJournal, NewBufferHead, InitRevoke, NewWbuf,
         DestroyRevoke, Out2, Out1, Rev!txd_journal_init_revoke, Rev!NewTable,
         Rev!NewHash, Rev!Fail1, Rev!txd_journal_destroy_revoke, Rev!Table, Rev!Hash
    <3>2. \/ pc' \in OpeningPCs
          \/ pc' = "idle"
          \/ pc' \in LoadingPCs
      <4>1. pc' \notin LoadedPCs
        BY <2>0, <2>2, OpenStays
      <4>2. pc' \in {"idle"} \cup OpeningPCs \cup LoadingPCs \cup LoadedPCs
        BY DEF Inductive, TypeOK
      <4> QED
        BY <4>1, <4>2
    <3>3. CASE pc' \in OpeningPCs
      BY <2>0, <3>1, <3>3 DEF AbsFollowsPc
    <3>4. CASE pc' = "idle"
      <4>1. Abs!GiveUp
        BY <2>0, <3>1, <3>4 DEF AbsFollowsPc, Abs!GiveUp
      <4> QED
        BY <4>1 DEF Abs!Next, Abs!Step
    <3>5. CASE pc' \in LoadingPCs
      <4>0. ~Hung'
        BY <2>0, <2>2, OpenStays DEF Hung
      <4>1. Abs!Get
        BY <2>0, <3>1, <3>5, <4>0 DEF AbsFollowsPc, Abs!Get
      <4> QED
        BY <4>1 DEF Abs!Next, Abs!Step
    <3> QED
      BY <3>2, <3>3, <3>4, <3>5
  <2>3. ASSUME pc \in LoadingPCs, pc' \in LoadingPCs, Hung' <=> Hung
        PROVE  UNCHANGED <<AbsSt, AbsHeld, AbsUsable>>
    BY <2>0, <2>3 DEF AbsFollowsPc
  <2>4. ASSUME pc \in LoadingPCs, ~Hung, pc' = "load_failed"
        PROVE  Abs!LoadFails
    BY <2>0, <2>4, PCs DEF AbsFollowsPc, Abs!LoadFails
  <2>5. CASE txd_journal_load \/ Spawn
    <3>1. /\ pc \in LoadingPCs /\ ~Hung
          /\ pc' \in LoadingPCs \cup {"load_failed"}
      BY <2>5, PCs
      DEF txd_journal_load, txd_journal_reset, Spawn, Hung, WaitPCs
    <3>2. CASE pc' \in LoadingPCs /\ Hung'
      <4>1. Abs!Hang
        BY <2>0, <3>1, <3>2 DEF AbsFollowsPc, Abs!Hang
      <4> QED
        BY <4>1 DEF Abs!Next, Abs!Step
    <3> QED
      BY <2>3, <2>4, <3>1, <3>2 DEF Abs!Next, Abs!Step
  <2>A. CASE LockWq \/ WaitWq \/ SpuriousWakeup
    <3>1. pc \in WaitPCs /\ pc' \in WaitPCs /\ jd' = jd
      BY <2>A DEF LockWq, WaitWq, SpuriousWakeup, WaitPCs
    <3>2. pc \in LoadingPCs /\ pc' \in LoadingPCs /\ (Hung' <=> Hung)
      BY <3>1 DEF Hung, WaitPCs, LoadingPCs
    <3> QED
      BY <2>3, <3>2
  <2>6. CASE Finish
    <3>1. pc \in LoadingPCs /\ pc' = "loaded" /\ ~Hung
      BY <2>6, PCs DEF Finish, Inductive, Handshake, Hung
    <3>2. AbsUsable'
      BY <2>0, <2>6 DEF Finish, AbsUsable, TypeOK, Journal
    <3>3. Abs!Load
      BY <2>0, <3>1, <3>2, PCs DEF AbsFollowsPc, Abs!Load, AbsUsable
    <3> QED
      BY <3>3 DEF Abs!Next, Abs!Step
  <2>7. CASE txd_journald
    <3>1. /\ heap' = heap /\ j' = j
          /\ \/ pc' = pc
             \/ pc \in LoadingPCs /\ pc' \in LoadingPCs
          /\ ~Hung /\ ~Hung'
      BY <2>7, PCs
      DEF txd_journald, JournaldLock, JournaldSignal, JournaldUnlock,
         JournaldExit, memVars, Hung
    <3> QED
      BY <2>3, <3>1 DEF AbsSt, AbsHeld, AbsUsable
  <2>8. CASE UNCHANGED vars
    BY <2>8 DEF vars, memVars, AbsSt, AbsHeld, AbsUsable, Hung
  <2> QED
    BY <2>1, <2>2, <2>5, <2>6, <2>7, <2>8, <2>A DEF Next, Load, Returned
<1> QED
  BY <1>1, <1>3, Invariance, PTL DEF Spec, Abs!SafeSpec
=============================================================================

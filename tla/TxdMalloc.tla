------------------------------ MODULE TxdMalloc ------------------------------
(***************************************************************************)
(* The memory wrappers of txd_malloc.c.  Every wrapper calls an allocator  *)
(* (SPDK's DMA memory, DPDK's huge-page heap or the C library) and keeps   *)
(* the running total allocated_mem_size, which txd_allocated_mem_info      *)
(* prints.                                                                 *)
(*                                                                         *)
(* heap maps each live block to the bytes the allocator handed out for it. *)
(* The last argument ok of an allocation is the allocator's answer: FALSE  *)
(* stands for a NULL return.  A release takes the size its caller claims.  *)
(***************************************************************************)
EXTENDS Integers, Functions

CONSTANTS
  Block,         \* identities of the blocks a program may allocate
  Size,          \* the request sizes the standalone specification tries
  Num,           \* the element counts it passes to the calloc wrappers
  MemMod         \* allocated_mem_size counts modulo MemMod (2^64 in the code)

ASSUME MallocAssumption ==
  /\ MemMod \in Nat \ {0}
  /\ Size \subseteq Nat \ {0}
  /\ Num \subseteq Nat \ {0}

VARIABLES
  heap,                \* live block -> its size
  allocated_mem_size,  \* the running total
  drift                \* history: what txd_malloc and txd_calloc miscounted

memVars == <<heap, allocated_mem_size>>
vars    == <<memVars, drift>>

TypeOK ==
  /\ DOMAIN heap \subseteq Block
  /\ heap \in [DOMAIN heap -> Nat]
  /\ allocated_mem_size \in 0 .. MemMod - 1
  /\ drift \in 0 .. MemMod - 1

Init ==
  /\ heap = << >>
  /\ allocated_mem_size = 0
  /\ drift = 0

-----------------------------------------------------------------------------
With(h, b, n) == [x \in DOMAIN h \cup {b} |-> IF x = b THEN n ELSE h[x]]

Without(h, B) == [x \in DOMAIN h \ B |-> h[x]]

(* Mutant of Count: a counter that does not wrap.                          *)
CountNoWrap(n) == allocated_mem_size' = allocated_mem_size + n

Count(n) == allocated_mem_size' = (allocated_mem_size + n) % MemMod

(* DPDK's heap returns NULL for an empty request; otherwise it may or may  *)
(* not find room.                                                          *)
PoolAnswers(n, ok) == ok => n > 0

(* Mutant of PoolAlloc: counts before it looks at the pool's answer.       *)
PoolAllocCountsFirst(b, n, ok) ==
  /\ PoolAnswers(n, ok)
  /\ Count(n)
  /\ heap' = IF ok THEN With(heap, b, n) ELSE heap

(* The wrappers over the pools return before they count when the pool has  *)
(* no room.                                                                *)
PoolAlloc(b, n, ok) ==
  /\ PoolAnswers(n, ok)
  /\ IF ok
       THEN heap' = With(heap, b, n) /\ Count(n)
       ELSE UNCHANGED memVars

txd_malloc_spdk(b, n, ok)  == PoolAlloc(b, n, ok)
txd_zmalloc_spdk(b, n, ok) == PoolAlloc(b, n, ok)
txd_malloc_dpdk(b, n, ok)  == PoolAlloc(b, n, ok)
txd_zmalloc_dpdk(b, n, ok) == PoolAlloc(b, n, ok)

txd_calloc_dpdk(b, num, n, ok) == PoolAlloc(b, num * n, ok)

(* The wrappers over the C library count first and pass NULL through;      *)
(* txd_calloc counts one element, whatever their number.                   *)
txd_malloc(b, n, ok) ==
  /\ Count(n)
  /\ heap' = IF ok THEN With(heap, b, n) ELSE heap

txd_calloc(b, num, n, ok) ==
  /\ Count(n)
  /\ heap' = IF ok THEN With(heap, b, num * n) ELSE heap

(* A run of releases: B is the set of blocks, n the sum of the sizes the   *)
(* calls pass.                                                             *)
Release(B, n) == Count(-n) /\ heap' = Without(heap, B)

txd_free_spdk(B, n) == Release(B, n)
txd_free_dpdk(B, n) == Release(B, n)
txd_free(B, n)      == Release(B, n)

-----------------------------------------------------------------------------
(* A client that releases what it got, once, with the size it asked for.   *)
AllocateFromPool(b) ==
  /\ b \notin DOMAIN heap
  /\ \E n \in Size, ok \in BOOLEAN :
       \/ txd_malloc_spdk(b, n, ok)
       \/ txd_zmalloc_spdk(b, n, ok)
       \/ txd_malloc_dpdk(b, n, ok)
       \/ txd_zmalloc_dpdk(b, n, ok)
       \/ \E num \in Num : txd_calloc_dpdk(b, num, n, ok)
  /\ UNCHANGED drift

AllocateFromLibc(b) ==
  /\ b \notin DOMAIN heap
  /\ \E n \in Size, num \in Num, ok \in BOOLEAN :
       \/ /\ txd_malloc(b, n, ok)
          /\ drift' = (drift + (IF ok THEN 0 ELSE n)) % MemMod
       \/ /\ txd_calloc(b, num, n, ok)
          /\ drift' = (drift + (IF ok THEN n - num * n ELSE n)) % MemMod

Deallocate(b) ==
  /\ b \in DOMAIN heap
  /\ UNCHANGED drift
  /\ \/ txd_free_spdk({b}, heap[b])
     \/ txd_free_dpdk({b}, heap[b])
     \/ txd_free({b}, heap[b])

Next ==
  \E b \in Block : AllocateFromPool(b) \/ AllocateFromLibc(b) \/ Deallocate(b)

Spec == Init /\ [][Next]_vars

-----------------------------------------------------------------------------
(* The total that txd_allocated_mem_info prints as "allocated mem size" is *)
(* the number of bytes in live blocks (modulo the width of the counter),   *)
(* whatever the order of calls and failures, except for what txd_malloc    *)
(* and txd_calloc add for a NULL and what txd_calloc leaves out when it is *)
(* asked for several elements.                                             *)
AccountingExact == allocated_mem_size = (SumFunction(heap) + drift) % MemMod
=============================================================================

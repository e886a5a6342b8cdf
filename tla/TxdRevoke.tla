------------------------------ MODULE TxdRevoke ------------------------------
(***************************************************************************)
(* The revoke tables of txd_revoke.c.  A journal owns two hash tables; the *)
(* second one starts out as the current one.  txd_journal_init_revoke      *)
(* builds both and undoes its work when memory runs out half-way;          *)
(* txd_journal_destroy_revoke releases them.                               *)
(*                                                                         *)
(* pc is the caller's control point.  While tables are being built it is   *)
(* the name of the block allocated next: "table0", "hash0", "table1",      *)
(* "hash1".  "fail1" is the label of that name, "ready" and "enomem" are   *)
(* the returns 0 and -ENOMEM, "destroy" is the call of destroy_revoke,     *)
(* "destroyed" its return, "aborted" a failed assert.                      *)
(***************************************************************************)
EXTENDS Integers, FiniteSets

INT_MAX == 2147483647    \* an int has 32 bits

CONSTANTS
  HashSizes,   \* the table sizes a caller may ask for
  MemMod       \* width of allocated_mem_size, see TxdMalloc

ASSUME RevokeAssumption ==
  /\ HashSizes \subseteq 1 .. INT_MAX
  /\ MemMod \in Nat \ {0}

VARIABLES
  pc,
  hash_size,            \* the argument of txd_journal_init_revoke
  j_revoke_table,       \* the journal's two table pointers
  j_revoke,             \* the current table: "NULL" or "table1"
  heap,
  allocated_mem_size

revokeVars == <<j_revoke_table, j_revoke>>
memVars    == <<heap, allocated_mem_size>>
vars       == <<pc, hash_size, revokeVars, memVars>>

Table(i) == IF i = 0 THEN "table0" ELSE "table1"
Hash(i)  == IF i = 0 THEN "hash0" ELSE "hash1"

RevokeBlocks == {"table0", "hash0", "table1", "hash1"}

Mem == INSTANCE TxdMalloc WITH
         Block <- RevokeBlocks, Size <- {1}, Num <- {1}, drift <- 0

SizeofTable    == 16     \* sizeof(txd_revoke_table_t)
SizeofListHead == 16     \* sizeof(struct list_head)

(* The rounds of the loop "while ((tmp >>= 1) != 0) shift++".             *)
Shifts[tmp \in 0 .. INT_MAX] ==
  IF tmp \div 2 = 0 THEN 0 ELSE 1 + Shifts[tmp \div 2]

(* Mutant of HashShift: counts the round that leaves nothing, too.         *)
HashShiftPlusOne(n) == Shifts[n] + 1

(* What the loop has counted when it started from n.                       *)
HashShift(n) == Shifts[n]

(* A table is known by its size, its shift and the buckets whose list head *)
(* points to itself, the ones list_empty accepts.                          *)
Tables ==
  [hash_size  : HashSizes \cup {0},
   hash_shift : {HashShift(n) : n \in HashSizes} \cup {0},
   empty      : SUBSET Nat]

NoTable == [hash_size |-> 0, hash_shift |-> 0, empty |-> {}]

RevokePCs == {"table0", "hash0", "table1", "hash1", "fail1", "ready",
              "enomem", "destroy", "destroyed", "aborted"}

TypeOK ==
  /\ pc \in RevokePCs \cup {"idle"}
  /\ hash_size \in HashSizes
  /\ j_revoke_table \in [0 .. 1 -> Tables]
  /\ j_revoke \in {"NULL", "table1"}
  /\ Mem!TypeOK

Init ==
  /\ pc = "idle"
  /\ hash_size \in HashSizes
  /\ j_revoke_table = [i \in 0 .. 1 |-> NoTable]
  /\ j_revoke = "NULL"
  /\ Mem!Init

-----------------------------------------------------------------------------
(* Mutant of InitBuckets: starts at the second bucket.                     *)
InitBucketsFromOne(n) == 1 .. n - 1

(* The loop that calls INIT_LIST_HEAD on every bucket.                     *)
InitBuckets(n) == 0 .. n - 1

(* Mutant of Filled: records the highest index in place of the size.       *)
FilledOneShort ==
  [hash_size  |-> hash_size - 1,
   hash_shift |-> HashShift(hash_size),
   empty      |-> InitBuckets(hash_size)]

(* The table that has got its buckets.                                     *)
Filled ==
  [hash_size  |-> hash_size,
   hash_shift |-> HashShift(hash_size),
   empty      |-> InitBuckets(hash_size)]

NewTable(i) ==
  /\ pc = Table(i)
  /\ \/ /\ Mem!txd_zmalloc_spdk(Table(i), SizeofTable, TRUE)
        /\ pc' = Hash(i)
        /\ UNCHANGED j_revoke_table
     \/ /\ Mem!txd_zmalloc_spdk(Table(i), SizeofTable, FALSE)
        /\ pc' = IF i = 0 THEN "enomem" ELSE "fail1"
        /\ j_revoke_table' = [j_revoke_table EXCEPT ![i] = NoTable]
  /\ UNCHANGED j_revoke

NewHash(i) ==
  /\ pc = Hash(i)
  /\ \/ /\ Mem!txd_zmalloc_spdk(Hash(i), hash_size * SizeofListHead, TRUE)
        /\ j_revoke_table' = [j_revoke_table EXCEPT ![i] = Filled]
        /\ pc' = IF i = 0 THEN "table1" ELSE "ready"
        /\ j_revoke' = IF i = 0 THEN j_revoke ELSE "table1"
     \/ /\ Mem!txd_free_spdk({Table(i)}, SizeofTable)
        /\ j_revoke_table' = [j_revoke_table EXCEPT ![i] = NoTable]
        /\ pc' = IF i = 0 THEN "enomem" ELSE "fail1"
        /\ UNCHANGED j_revoke

(* txd_journal_destroy_revoke_table: every bucket up to the table's own    *)
(* size must be empty, then both blocks go, at the sizes the table tells.  *)
Emptied(table) == 0 .. table.hash_size - 1 \subseteq table.empty

TableBytes(i) == SizeofListHead * j_revoke_table[i].hash_size + SizeofTable

(* Mutant of DestroyTables: leaves the bucket arrays allocated.            *)
DestroyTablesOnly(I, done) ==
  /\ Mem!txd_free_spdk({Table(i) : i \in I}, Cardinality(I) * SizeofTable)
  /\ pc' = done

(* The calls of it for the tables in I, and where control is afterwards.   *)
DestroyTables(I, done) ==
  IF \A i \in I : Emptied(j_revoke_table[i])
    THEN /\ Mem!txd_free_spdk(
              {Table(i) : i \in I} \cup {Hash(i) : i \in I},
              (IF 0 \in I THEN TableBytes(0) ELSE 0)
                + (IF 1 \in I THEN TableBytes(1) ELSE 0))
         /\ pc' = done
    ELSE pc' = "aborted" /\ UNCHANGED memVars

Fail1 ==
  /\ pc = "fail1"
  /\ DestroyTables({0}, "enomem")
  /\ j_revoke_table' = [j_revoke_table EXCEPT ![0] = NoTable]
  /\ UNCHANGED j_revoke

txd_journal_init_revoke ==
  \/ \E i \in 0 .. 1 : NewTable(i) \/ NewHash(i)
  \/ Fail1

(* The pointers in j_revoke_table are left as they are.                    *)
txd_journal_destroy_revoke ==
  /\ pc = "destroy"
  /\ j_revoke' = "NULL"
  /\ DestroyTables({i \in 0 .. 1 : j_revoke_table[i] # NoTable}, "destroyed")
  /\ UNCHANGED j_revoke_table

-----------------------------------------------------------------------------
(* A caller that builds the tables, destroys what it got, and starts over. *)
CallInit ==
  /\ pc \in {"idle", "enomem", "destroyed"}
  /\ pc' = "table0"
  /\ hash_size' \in HashSizes
  /\ UNCHANGED <<revokeVars, memVars>>

CallDestroy ==
  /\ pc = "ready"
  /\ pc' = "destroy"
  /\ UNCHANGED <<hash_size, revokeVars, memVars>>

Next ==
  \/ CallInit
  \/ CallDestroy
  \/ txd_journal_init_revoke /\ UNCHANGED hash_size
  \/ txd_journal_destroy_revoke /\ UNCHANGED hash_size

Spec == Init /\ [][Next]_vars

-----------------------------------------------------------------------------
(* init_revoke is all or nothing, and destroy_revoke undoes it: after a    *)
(* return of -ENOMEM or a destroy no block of either table is live, and    *)
(* after a return of 0 both tables and their buckets are, each bucket      *)
(* array as long as its table says.                                        *)
AllOrNothing ==
  /\ pc \in {"enomem", "destroyed"} => heap = << >>
  /\ pc = "ready" =>
       /\ DOMAIN heap = RevokeBlocks
       /\ \A i \in 0 .. 1 :
            heap[Hash(i)] = SizeofListHead * j_revoke_table[i].hash_size
       /\ j_revoke = "table1"

(* The powers of two up to the first that is not an int.                   *)
TwoTo[k \in 0 .. 31] == IF k = 0 THEN 1 ELSE 2 * TwoTo[k - 1]

(* hash_shift is the base-2 logarithm of hash_size, rounded down: the hash *)
(* function may use the top hash_shift bits and stay inside the table.     *)
ShiftIsLog ==
  pc = "ready" =>
    \A i \in 0 .. 1 :
      LET t == j_revoke_table[i]
      IN  /\ TwoTo[t.hash_shift] <= t.hash_size
          /\ t.hash_size < TwoTo[t.hash_shift + 1]
=============================================================================

----------------------------- MODULE TxdJournal -----------------------------
(***************************************************************************)
(* Opening a journal (txd_journal.c): txd_get_journal builds a             *)
(* txd_journal_t from the superblock that tx_begin read, and               *)
(* txd_journal_load resets the log and starts the journald thread, waiting *)
(* until the thread has reported.                                          *)
(*                                                                         *)
(* pc is the control point of the opening thread, jd that of journald.     *)
(* While the journal is being built pc is the name of the block allocated  *)
(* next: "journal", "bh", the four of TxdRevoke, "wbuf".  A NULL return    *)
(* leads back to "idle", from where the caller may try again.              *)
(*                                                                         *)
(* The block for the journal is as large as a pointer (line 113), so the   *)
(* members beyond the first are not zeroed and lie in memory the block     *)
(* does not cover.  A member that is read before it is written has an      *)
(* arbitrary value; that a store to a member may damage a neighbouring     *)
(* block is not modelled.                                                  *)
(***************************************************************************)
EXTENDS Integers

CONSTANTS
  Superblocks,     \* the superblocks that may be on the device
  HashSize,        \* JOURNAL_REVOKE_DEFAULT_HASH
  MinBlocks,       \* TXD_MIN_JOURNAL_BLOCKS
  TidMod,          \* tid_t counts modulo TidMod (2^32 in the code)
  Garbage,         \* values of an unsigned int nobody has written
  CreateResults,   \* what pthread_create may return
  MemMod           \* width of allocated_mem_size

Superblock ==
  [s_blocksize : Nat, s_maxlen : Nat, s_first : Nat,
   s_sequence : 0 .. TidMod - 1, s_start : Nat]

VARIABLES
  pc,                  \* control point of the opening thread
  jd,                  \* control point of txd_journald
  sb,                  \* the superblock buffer, j_superblock
  j,                   \* the members of txd_journal_t that change
  j_revoke_table,
  j_revoke,
  wq,                  \* j_wait_done_commit
  heap,
  allocated_mem_size

revokeVars == <<j_revoke_table, j_revoke>>
memVars    == <<heap, allocated_mem_size>>
vars       == <<pc, jd, sb, j, revokeVars, wq, memVars>>

Rev == INSTANCE TxdRevoke WITH HashSizes <- {HashSize}, hash_size <- HashSize

ASSUME JournalAssumption ==
  /\ HashSize \in Nat \ {0}
  /\ HashSize <= Rev!INT_MAX
  /\ MinBlocks \in Nat \ {0}
  /\ TidMod \in Nat \ {0}
  /\ MemMod \in Nat \ {0}
  /\ Superblocks \subseteq Superblock
  /\ Garbage \subseteq 0 .. TidMod - 1
  /\ CreateResults \subseteq Nat

JournalBlocks == {"journal", "bh", "wbuf"} \cup Rev!RevokeBlocks

Mem == INSTANCE TxdMalloc WITH
         Block <- JournalBlocks, Size <- {1}, Num <- {1}, drift <- 0

TXD_FAIL == 1

SizeofPointer    == 8
SizeofBufferHead == 40      \* sizeof(struct txd_buffer_head)
SizeofBlockTag   == 64      \* sizeof(txd_journal_block_tag_t)

Flags == {"TXD_ABORT", "TXD_FLUSHED", "TXD_LOADED"}

Tid == 0 .. TidMod - 1

Journal ==
  [j_flags : SUBSET Flags, j_failed_commit : Tid, j_transaction_sequence : Tid,
   j_tail_sequence : Tid, j_commit_sequence : Tid, j_commit_request : Tid,
   j_first : Nat, j_last : Nat, j_head : Nat, j_tail : Nat, j_free : Int,
   j_maxlen : Nat, j_wbufsize : Nat, j_max_transaction_buffers : Nat]

(* A journal nobody has written to.  Only the two members in the argument  *)
(* are ever read before they are written.                                  *)
Unwritten(failed, tid) ==
  [j_flags |-> {}, j_failed_commit |-> failed, j_transaction_sequence |-> tid,
   j_tail_sequence |-> 0, j_commit_sequence |-> 0, j_commit_request |-> 0,
   j_first |-> 0, j_last |-> 0, j_head |-> 0, j_tail |-> 0, j_free |-> 0,
   j_maxlen |-> 0, j_wbufsize |-> 0, j_max_transaction_buffers |-> 0]

OpeningPCs == {"journal", "bh", "wbuf", "out1", "out2"} \cup Rev!RevokePCs
LoadingPCs == {"load", "spawn", "lock_wq", "test_wq", "waiting", "relock"}
LoadedPCs  == {"loaded", "load_failed"}

TypeOK ==
  /\ pc \in {"idle"} \cup OpeningPCs \cup LoadingPCs \cup LoadedPCs
  /\ jd \in {"none", "start", "locked", "signalled", "sleep", "exited"}
  /\ sb \in Superblock
  /\ j \in Journal
  /\ j_revoke_table \in [0 .. 1 -> Rev!Tables]
  /\ j_revoke \in {"NULL", "table1"}
  /\ wq \in [condition : {0, 1}, owner : {"none", "app", "journald"}]
  /\ Mem!TypeOK

Init ==
  /\ pc = "idle"
  /\ jd = "none"
  /\ sb \in Superblocks
  /\ j = Unwritten(0, 0)
  /\ j_revoke_table = [i \in 0 .. 1 |-> Rev!NoTable]
  /\ j_revoke = "NULL"
  /\ wq = [condition |-> 0, owner |-> "none"]
  /\ Mem!Init

-----------------------------------------------------------------------------
(* txd_get_journal and txd_journal_init_common.                            *)

(* tx_begin has found a superblock and asks for a journal, perhaps again   *)
(* after a NULL.                                                           *)
txd_get_journal ==
  /\ pc = "idle"
  /\ pc' = "journal"
  /\ sb' \in Superblocks
  /\ UNCHANGED <<jd, j, revokeVars, wq, memVars>>

NewJournal ==
  /\ pc = "journal"
  /\ \/ /\ Mem!txd_zmalloc_spdk("journal", SizeofPointer, TRUE)
        /\ \E failed, tid \in Garbage : j' = Unwritten(failed, tid)
        /\ pc' = "bh"
     \/ /\ Mem!txd_zmalloc_spdk("journal", SizeofPointer, FALSE)
        /\ pc' = "idle"
        /\ UNCHANGED j
  /\ UNCHANGED <<jd, sb, revokeVars, wq>>

(* Mutant of NewBufferHead: the error mark is not set.                     *)
NewBufferHeadUnmarked ==
  /\ pc = "bh"
  /\ \/ /\ Mem!txd_zmalloc_spdk("bh", SizeofBufferHead, TRUE)
        /\ wq' = [condition |-> 0, owner |-> "none"]
        /\ pc' = "table0"
     \/ /\ Mem!txd_zmalloc_spdk("bh", SizeofBufferHead, FALSE)
        /\ pc' = "out1"
        /\ UNCHANGED wq
  /\ UNCHANGED <<jd, sb, j, revokeVars>>

(* The buffer head, then the wait queues, the locks and the flags.         *)
NewBufferHead ==
  /\ pc = "bh"
  /\ \/ /\ Mem!txd_zmalloc_spdk("bh", SizeofBufferHead, TRUE)
        /\ wq' = [condition |-> 0, owner |-> "none"]
        /\ j' = [j EXCEPT !.j_flags = {"TXD_ABORT"}]
        /\ pc' = "table0"
     \/ /\ Mem!txd_zmalloc_spdk("bh", SizeofBufferHead, FALSE)
        /\ pc' = "out1"
        /\ UNCHANGED <<j, wq>>
  /\ UNCHANGED <<jd, sb, revokeVars>>

InitRevoke ==
  /\ Rev!txd_journal_init_revoke
  /\ UNCHANGED <<jd, sb, j, wq>>

(* How many block tags fit a journal block.                                *)
WbufSize == sb.s_blocksize \div SizeofBlockTag

(* init_revoke returned 0: copy the superblock and allocate the array of   *)
(* buffer heads for a commit.                                              *)
NewWbuf ==
  /\ pc = "ready"
  /\ j' = [j EXCEPT !.j_maxlen        = sb.s_maxlen,
                    !.j_tail_sequence = sb.s_sequence,
                    !.j_tail          = sb.s_start,
                    !.j_first         = sb.s_first,
                    !.j_last          = sb.s_maxlen,
                    !.j_wbufsize      = WbufSize]
  /\ \/ /\ Mem!txd_zmalloc_spdk("wbuf", WbufSize * SizeofPointer, TRUE)
        /\ pc' = "load"
     \/ /\ Mem!txd_zmalloc_spdk("wbuf", WbufSize * SizeofPointer, FALSE)
        /\ pc' = "destroy"
  /\ UNCHANGED <<jd, sb, revokeVars, wq>>

DestroyRevoke ==
  /\ Rev!txd_journal_destroy_revoke
  /\ UNCHANGED <<jd, sb, j, wq>>

(* Mutant of Out2: goes on to out1 with the buffer head still allocated.   *)
Out2KeepsBufferHead ==
  /\ pc \in {"destroyed", "enomem"}
  /\ pc' = "out1"
  /\ UNCHANGED <<jd, sb, j, revokeVars, wq, memVars>>

(* The labels out2 (also reached when init_revoke fails) and out1.         *)
Out2 ==
  /\ pc \in {"destroyed", "enomem"}
  /\ Mem!txd_free_spdk({"bh"}, SizeofBufferHead)
  /\ pc' = "out1"
  /\ UNCHANGED <<jd, sb, j, revokeVars, wq>>

(* Mutant of Out1: releases the size of the structure, which is not what   *)
(* was allocated.                                                          *)
Out1FreesStructure ==
  /\ pc = "out1"
  /\ Mem!txd_free_spdk({"journal"}, 1024)
  /\ pc' = "idle"
  /\ UNCHANGED <<jd, sb, j, revokeVars, wq>>

Out1 ==
  /\ pc = "out1"
  /\ Mem!txd_free_spdk({"journal"}, SizeofPointer)
  /\ pc' = "idle"
  /\ UNCHANGED <<jd, sb, j, revokeVars, wq>>

-----------------------------------------------------------------------------
(* txd_journal_load, in the thread that called it.                         *)

(* A stub: it reports success and recovers nothing.                        *)
RecoverFails == FALSE

(* Writes nothing: its body is compiled out.  The caller ignores the       *)
(* result, TXD_FAIL.                                                       *)
txd_journal_update_sb_log_tail == UNCHANGED sb

TooShort == sb.s_first + MinBlocks > sb.s_maxlen + 1

(* Mutant of PrevTid: not an unsigned difference.                          *)
PrevTidSigned(t) == t - 1

PrevTid(t) == (t - 1) % TidMod

(* Mutant of ResetJournal: the error mark is taken off before the thread   *)
(* is started.                                                             *)
ResetUnmarks ==
  [j EXCEPT !.j_first = sb.s_first,
            !.j_last  = sb.s_maxlen,
            !.j_free  = sb.s_maxlen - sb.s_first,
            !.j_flags = @ \ {"TXD_ABORT"}]

(* txd_journal_reset up to the start of the thread.                        *)
ResetJournal ==
  [j EXCEPT !.j_first = sb.s_first,
            !.j_last  = sb.s_maxlen,
            !.j_head  = sb.s_first,
            !.j_tail  = sb.s_first,
            !.j_free  = sb.s_maxlen - sb.s_first,
            !.j_tail_sequence   = j.j_transaction_sequence,
            !.j_commit_sequence = PrevTid(j.j_transaction_sequence),
            !.j_commit_request  = PrevTid(j.j_transaction_sequence),
            !.j_max_transaction_buffers = j.j_maxlen \div 4,
            !.j_flags = IF sb.s_start = 0 THEN @ \cup {"TXD_FLUSHED"} ELSE @]

txd_journal_reset ==
  IF TooShort
    THEN pc' = "load_failed" /\ UNCHANGED <<j, sb>>
    ELSE /\ pc' = "spawn"
         /\ j' = ResetJournal
         /\ IF sb.s_start = 0
              THEN UNCHANGED sb
              ELSE txd_journal_update_sb_log_tail

txd_journal_load ==
  /\ pc = "load"
  /\ IF RecoverFails \/ j.j_failed_commit # 0
       THEN pc' = "load_failed" /\ UNCHANGED <<j, sb>>
       ELSE txd_journal_reset
  /\ UNCHANGED <<jd, revokeVars, wq, memVars>>

(* txd_journal_start_thread: only a result of TXD_FAIL counts as an error. *)
Spawn ==
  /\ pc = "spawn"
  /\ wq' = [wq EXCEPT !.condition = 1]
  /\ \E err \in CreateResults :
       /\ jd' = IF err = 0 THEN "start" ELSE jd
       /\ pc' = IF err = TXD_FAIL THEN "load_failed" ELSE "lock_wq"
  /\ UNCHANGED <<sb, j, revokeVars, memVars>>

(* pthread_mutex_lock, and the lock that ends pthread_cond_wait.           *)
LockWq ==
  /\ pc \in {"lock_wq", "relock"}
  /\ wq.owner = "none"
  /\ wq' = [wq EXCEPT !.owner = "app"]
  /\ pc' = "test_wq"
  /\ UNCHANGED <<jd, sb, j, revokeVars, memVars>>

(* Mutant of WaitWq: waits without testing the condition first.            *)
WaitWqUntested ==
  /\ pc = "test_wq"
  /\ wq' = [wq EXCEPT !.owner = "none"]
  /\ pc' = "waiting"
  /\ UNCHANGED <<jd, sb, j, revokeVars, memVars>>

(* The loop's test holds: pthread_cond_wait unlocks and blocks at once.    *)
WaitWq ==
  /\ pc = "test_wq"
  /\ wq.condition # 0
  /\ wq' = [wq EXCEPT !.owner = "none"]
  /\ pc' = "waiting"
  /\ UNCHANGED <<jd, sb, j, revokeVars, memVars>>

(* Mutant of Finish: the condition is tested once, before the wait.        *)
FinishAfterOneWait ==
  /\ pc = "test_wq"
  /\ wq' = [condition |-> wq.condition + 1, owner |-> "none"]
  /\ j' = [j EXCEPT !.j_flags = (@ \ {"TXD_ABORT"}) \cup {"TXD_LOADED"}]
  /\ pc' = "loaded"
  /\ UNCHANGED <<jd, sb, revokeVars, memVars>>

(* Mutant of Finish: the error mark stays.                                 *)
FinishAborted ==
  /\ pc = "test_wq"
  /\ wq.condition = 0
  /\ wq' = [condition |-> wq.condition + 1, owner |-> "none"]
  /\ j' = [j EXCEPT !.j_flags = @ \cup {"TXD_LOADED"}]
  /\ pc' = "loaded"
  /\ UNCHANGED <<jd, sb, revokeVars, memVars>>

(* The loop ends; back in txd_journal_load the journal becomes usable.     *)
Finish ==
  /\ pc = "test_wq"
  /\ wq.condition = 0
  /\ wq' = [condition |-> wq.condition + 1, owner |-> "none"]
  /\ j' = [j EXCEPT !.j_flags = (@ \ {"TXD_ABORT"}) \cup {"TXD_LOADED"}]
  /\ pc' = "loaded"
  /\ UNCHANGED <<jd, sb, revokeVars, memVars>>

(* pthread_cond_wait may return without a signal.                          *)
SpuriousWakeup ==
  /\ pc = "waiting"
  /\ pc' = "relock"
  /\ UNCHANGED <<jd, sb, j, revokeVars, wq, memVars>>

-----------------------------------------------------------------------------
(* The thread txd_journald.                                                *)

(* Mutant of JournaldLock: no mutex around the condition.                  *)
JournaldNoLock ==
  /\ jd = "start"
  /\ wq' = [condition |-> 0, owner |-> "journald"]
  /\ jd' = "locked"
  /\ UNCHANGED <<pc, sb, j, revokeVars, memVars>>

JournaldLock ==
  /\ jd = "start"
  /\ wq.owner = "none"
  /\ wq' = [condition |-> 0, owner |-> "journald"]
  /\ jd' = "locked"
  /\ UNCHANGED <<pc, sb, j, revokeVars, memVars>>

(* pthread_cond_signal wakes the opening thread if it is blocked and is    *)
(* lost otherwise.                                                         *)
JournaldSignal ==
  /\ jd = "locked"
  /\ jd' = "signalled"
  /\ pc' = IF pc = "waiting" THEN "relock" ELSE pc
  /\ UNCHANGED <<sb, j, revokeVars, wq, memVars>>

JournaldUnlock ==
  /\ jd = "signalled"
  /\ wq' = [wq EXCEPT !.owner = "none"]
  /\ jd' = "sleep"
  /\ UNCHANGED <<pc, sb, j, revokeVars, memVars>>

(* sleep(5) is over and the thread returns.                                *)
JournaldExit ==
  /\ jd = "sleep"
  /\ jd' = "exited"
  /\ UNCHANGED <<pc, sb, j, revokeVars, wq, memVars>>

-----------------------------------------------------------------------------
Open ==
  \/ NewJournal \/ NewBufferHead \/ InitRevoke \/ NewWbuf
  \/ DestroyRevoke \/ Out2 \/ Out1

Load ==
  \/ txd_journal_load \/ Spawn \/ LockWq \/ WaitWq \/ Finish

txd_journald == JournaldLock \/ JournaldSignal \/ JournaldUnlock \/ JournaldExit

(* The call has returned a journal and the thread is gone, if there was    *)
(* one.                                                                    *)
Returned ==
  /\ pc \in LoadedPCs
  /\ jd \in {"none", "exited"}
  /\ UNCHANGED vars

Next ==
  \/ txd_get_journal
  \/ Open
  \/ Load
  \/ SpuriousWakeup
  \/ txd_journald
  \/ Returned

(* Both threads keep running.  A thread that waits for the mutex while the *)
(* other one takes and releases it over and over gets it in the end.       *)
Fairness ==
  /\ WF_vars(Open)
  /\ WF_vars(Load)
  /\ WF_vars(txd_journald)
  /\ SF_vars(JournaldLock)

Spec == Init /\ [][Next]_vars /\ Fairness

-----------------------------------------------------------------------------
(* A NULL return leaves nothing behind, a return of a journal leaves every *)
(* block of it live: buckets for both revoke tables and a commit array of  *)
(* at least one entry, as long as j_wbufsize says.                         *)
OpenedWhole ==
  /\ pc = "idle" => DOMAIN heap = {}
  /\ pc \in LoadingPCs \cup LoadedPCs =>
       /\ DOMAIN heap = JournalBlocks
       /\ j.j_wbufsize > 0
       /\ heap["wbuf"] = j.j_wbufsize * SizeofPointer
       /\ j_revoke = "table1"
       /\ \A i \in 0 .. 1 : heap[Rev!Hash(i)] =
            Rev!SizeofListHead * j_revoke_table[i].hash_size

(* No assert of the revoke code fires while a half-built journal is taken  *)
(* down.                                                                   *)
NoAssert == pc # "aborted"

(* The total of txd_malloc.c is exact at every step of the opening.        *)
AccountingExact == Mem!AccountingExact

WaitPCs == {"lock_wq", "test_wq", "waiting", "relock"}

(* The opening thread waits for a thread that was never created:           *)
(* pthread_create failed with an error number other than TXD_FAIL.         *)
Hung == pc \in WaitPCs /\ jd = "none"

(* No wakeup is lost: as long as the opening thread is blocked in          *)
(* pthread_cond_wait, journald has yet to signal, if there is a journald.  *)
NoLostWakeup == pc = "waiting" => jd \in {"start", "locked"} \/ Hung

(* The control points from the store of TXD_ABORT on.                      *)
MarkedPCs ==
  (OpeningPCs \ {"journal", "bh", "out1"}) \cup LoadingPCs \cup LoadedPCs

(* "The journal is marked for error until we succeed with recovery!": once *)
(* TXD_ABORT was set it is missing only from a journal that is TXD_LOADED, *)
(* after journald has reported and left its critical section; and no       *)
(* journal is loaded and aborted.                                          *)
MarkedUntilServed ==
  /\ pc \in MarkedPCs /\ "TXD_ABORT" \notin j.j_flags =>
       "TXD_LOADED" \in j.j_flags /\ jd \in {"sleep", "exited"}
  /\ "TXD_LOADED" \in j.j_flags =>
       pc \in MarkedPCs /\ "TXD_ABORT" \notin j.j_flags

(* What the two threads know of each other.  The mutex belongs to the      *)
(* opening thread exactly while it tests and to journald exactly inside    *)
(* its critical section; the condition falls only in that section; the     *)
(* opening thread is past its wait only when journald is past its section, *)
(* and until then the journal is marked for error and not loaded.          *)
Handshake ==
  /\ wq.owner = "app" <=> pc = "test_wq"
  /\ wq.owner = "journald" <=> jd \in {"locked", "signalled"}
  /\ pc \in WaitPCs => (wq.condition = 1 <=> jd \in {"none", "start"})
  /\ pc = "waiting" => jd \in {"none", "start", "locked"}
  /\ pc = "loaded" => jd \in {"sleep", "exited"}
  /\ pc \notin WaitPCs \cup {"loaded"} => jd = "none"
  /\ "TXD_LOADED" \in j.j_flags => pc = "loaded"
  /\ pc = "loaded" => "TXD_LOADED" \in j.j_flags
  /\ pc \in MarkedPCs => ("TXD_ABORT" \in j.j_flags <=> pc # "loaded")

GotPCs == LoadingPCs \cup LoadedPCs

(* The control points at which both revoke tables are complete, and those  *)
(* at which the first one is.                                              *)
BothPCs  == {"ready", "destroy"} \cup GotPCs
FirstPCs == {"table1", "hash1", "fail1"} \cup BothPCs

(* The blocks the opening thread holds at each control point.              *)
BlocksFollowPc ==
  /\ "journal" \in DOMAIN heap <=> pc \notin {"idle", "journal"}
  /\ "bh"      \in DOMAIN heap <=> pc \notin {"idle", "journal", "bh", "out1"}
  /\ "table0"  \in DOMAIN heap <=> pc \in {"hash0"} \cup FirstPCs
  /\ "hash0"   \in DOMAIN heap <=> pc \in FirstPCs
  /\ "table1"  \in DOMAIN heap <=> pc \in {"hash1"} \cup BothPCs
  /\ "hash1"   \in DOMAIN heap <=> pc \in BothPCs
  /\ "wbuf"    \in DOMAIN heap <=> pc \in GotPCs

(* A table whose size matches its bucket array and whose buckets are all   *)
(* initialised.                                                            *)
Built(i) ==
  /\ j_revoke_table[i].hash_size = HashSize
  /\ Rev!Emptied(j_revoke_table[i])
  /\ heap[Rev!Hash(i)] = Rev!SizeofListHead * HashSize

(* Memory follows control: exactly the blocks taken so far are live, a     *)
(* table is built as soon as its buckets are, and the sizes recorded in    *)
(* the journal are the sizes of the blocks.                                *)
HeapFollowsPc ==
  /\ pc # "aborted"
  /\ BlocksFollowPc
  /\ pc \in FirstPCs => Built(0)
  /\ pc \in BothPCs => Built(1)
  /\ pc \in {"ready"} \cup GotPCs => j_revoke = "table1"
  /\ pc \in GotPCs =>
       /\ j.j_wbufsize > 0
       /\ heap["wbuf"] = j.j_wbufsize * SizeofPointer

(* The inductive invariant of the proofs.                                  *)
Inductive == TypeOK /\ Handshake /\ HeapFollowsPc

(* The opening implements its abstract specification.                      *)
AbsSt ==
  CASE pc \in OpeningPCs -> "opening"
    [] pc \in LoadingPCs -> IF Hung THEN "hung" ELSE "got"
    [] OTHER -> pc

AbsHeld == IF pc \in OpeningPCs THEN {} ELSE DOMAIN heap

AbsUsable == "TXD_LOADED" \in j.j_flags /\ "TXD_ABORT" \notin j.j_flags

Abs == INSTANCE JournalOpen WITH
         Whole <- JournalBlocks, st <- AbsSt, held <- AbsHeld, usable <- AbsUsable

Refinement == Abs!Spec

-----------------------------------------------------------------------------
(* What comments of the code say and the code does not do.                 *)

(* Every request for a journal is answered: with NULL, or with a journal   *)
(* whose load has finished.                                                *)
CallReturns == pc \in OpeningPCs \cup LoadingPCs ~> pc \in LoadedPCs \cup {"idle"}

(* The number of blocks a log has, if j_last is the block after the last   *)
(* usable one (txdriver.h, line 607), or the last usable block itself      *)
(* (txd_journal.c, lines 160 and 448).                                     *)
LogBlocks(lastUsable) == j.j_last - j.j_first + (IF lastUsable THEN 1 ELSE 0)

(* In one of the two readings a loaded log has TXD_MIN_JOURNAL_BLOCKS      *)
(* blocks at least, and j_free, "how many free blocks are there in the     *)
(* journal?", counts all of them.                                          *)
LogAsDocumented ==
  pc = "loaded" =>
    \E lastUsable \in BOOLEAN :
      /\ LogBlocks(lastUsable) >= MinBlocks
      /\ j.j_free = LogBlocks(lastUsable)
=============================================================================

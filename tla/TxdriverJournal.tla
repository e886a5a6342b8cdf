--------------------------- MODULE TxdriverJournal ---------------------------
(***************************************************************************)
(* Opening a journal in the older generation of the driver:                *)
(* txd_journal_init_common of txdriver_journal.c with the revoke tables of *)
(* txdriver_revoke.c, all of it on calloc and free.                        *)
(*                                                                         *)
(* The journal structure is allocated with the size of a pointer, so the   *)
(* members j_revoke_table and j_wbuf lie in memory nobody has cleared.     *)
(* Until it is assigned, such a member is NULL or wild.                    *)
(*                                                                         *)
(* pc is the name of the block allocated next, a label of the code, or an  *)
(* end: "got" and "failed" are the returns of txd_get_journal, "asserted"  *)
(* is a failed assert, "fault" the use of a pointer that points to no      *)
(* block.                                                                  *)
(***************************************************************************)
EXTENDS Naturals

VARIABLES
  pc,
  heap,     \* blocks the current call holds
  member    \* the pointer members of the journal

openVars == <<heap, member>>

Tables == {"table0", "table1"}

Members == Tables \cup {"wbuf"}

(* What a member points to, itself included: a table has its bucket array. *)
Owned(m) ==
  CASE m = "table0" -> {"table0", "hash0"}
    [] m = "table1" -> {"table1", "hash1"}
    [] m = "wbuf"   -> {"wbuf"}

OpenBlocks == {"journal", "bh"} \cup UNION {Owned(m) : m \in Members}

OpenPCs == OpenBlocks \cup {"fail1", "out", "got", "failed", "asserted", "fault"}

OpenTypeOK ==
  /\ heap \subseteq OpenBlocks \cup {"sb", "format"}
  /\ member \in [Members -> {"NULL", "ours", "wild"}]

Wild == \E m \in Members : member[m] = "wild"

-----------------------------------------------------------------------------
calloc(b) == heap' = heap \cup {b}

(* The journal, and what happens to be in its members.                     *)
NewJournal ==
  /\ pc = "journal"
  /\ \/ /\ calloc("journal")
        /\ member' \in [Members -> {"NULL", "wild"}]
        /\ pc' = "bh"
     \/ pc' = "failed" /\ UNCHANGED openVars

(* The buffer head, the members that are assigned, and the call of         *)
(* txd_journal_init_revoke, which asserts that there is no table yet.      *)
NewBufferHead ==
  /\ pc = "bh"
  /\ \/ /\ calloc("bh")
        /\ pc' = IF member["table0"] = "NULL" THEN "table0" ELSE "asserted"
     \/ pc' = "out" /\ UNCHANGED heap
  /\ UNCHANGED member

Buckets(t) == IF t = "table0" THEN "hash0" ELSE "hash1"

(* txd_journal_init_revoke_table returns NULL.                             *)
NoTable(t) ==
  /\ member' = [member EXCEPT ![t] = "NULL"]
  /\ pc' = IF t = "table0" THEN "out" ELSE "fail1"

NewTable(t) ==
  /\ pc = t
  /\ \/ calloc(t) /\ pc' = Buckets(t) /\ UNCHANGED member
     \/ NoTable(t) /\ UNCHANGED heap

(* Mutant of NewBuckets: the table without buckets is not freed.           *)
NewBucketsKeepsTable(t) ==
  /\ pc = Buckets(t)
  /\ \/ /\ calloc(Buckets(t))
        /\ member' = [member EXCEPT ![t] = "ours"]
        /\ pc' = IF t = "table0" THEN "table1" ELSE "wbuf"
     \/ NoTable(t) /\ UNCHANGED heap

NewBuckets(t) ==
  /\ pc = Buckets(t)
  /\ \/ /\ calloc(Buckets(t))
        /\ member' = [member EXCEPT ![t] = "ours"]
        /\ pc' = IF t = "table0" THEN "table1" ELSE "wbuf"
     \/ NoTable(t) /\ heap' = heap \ {t}

(* Mutant of Fail1: leaves the pointer to the table it destroyed.          *)
Fail1KeepsPointer ==
  /\ pc = "fail1"
  /\ heap' = heap \ Owned("table0")
  /\ pc' = "out"
  /\ UNCHANGED member

Fail1 ==
  /\ pc = "fail1"
  /\ heap' = heap \ Owned("table0")
  /\ member' = [member EXCEPT !["table0"] = "NULL"]
  /\ pc' = "out"

NewWbuf ==
  /\ pc = "wbuf"
  /\ \/ calloc("wbuf") /\ member' = [member EXCEPT !["wbuf"] = "ours"] /\ pc' = "got"
     \/ member' = [member EXCEPT !["wbuf"] = "NULL"] /\ pc' = "out" /\ UNCHANGED heap

(* free(j_wbuf), txd_journal_destroy_revoke, free(journal): every member   *)
(* that is not NULL is followed, assigned or not.  The buffer head has no  *)
(* owner yet and is lost.                                                  *)
Out ==
  LET followed == {m \in Members : member[m] # "NULL"}
      ours     == UNION {Owned(m) : m \in followed}
  IN  /\ pc = "out"
      /\ IF \E m \in followed : member[m] = "wild" \/ m \notin heap
           THEN pc' = "fault" /\ UNCHANGED heap
           ELSE pc' = "failed" /\ heap' = heap \ (ours \cup {"journal"})
      /\ UNCHANGED member

txd_journal_init_revoke ==
  (\E t \in Tables : NewTable(t) \/ NewBuckets(t)) \/ Fail1

txd_journal_init_common ==
  NewJournal \/ NewBufferHead \/ txd_journal_init_revoke \/ NewWbuf \/ Out
=============================================================================

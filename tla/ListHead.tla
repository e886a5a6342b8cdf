------------------------------- MODULE ListHead -------------------------------
(***************************************************************************)
(* The operations of include/list.h on struct list_head.  A head and an    *)
(* entry are the same structure: two pointers, next and prev.  An          *)
(* operation is a function from the memory m before it to the memory after *)
(* it; the clauses of an EXCEPT are its stores, in the order of the code.  *)
(***************************************************************************)
EXTENDS Naturals, FiniteSets

CONSTANTS
  Heads, Entries,              \* the structures, by how they are used
  LIST_POISON1, LIST_POISON2,  \* what list_del leaves behind
  NULL

Node == Heads \cup Entries
Ptr  == Node \cup {LIST_POISON1, LIST_POISON2, NULL}

ASSUME ListHeadAssumption ==
  /\ IsFiniteSet(Heads) /\ IsFiniteSet(Entries)
  /\ Heads \cap Entries = {}
  /\ {LIST_POISON1, LIST_POISON2, NULL} \cap Node = {}

Memory == [Node -> [next : Ptr, prev : Ptr]]

-----------------------------------------------------------------------------
INIT_LIST_HEAD(m, l) == [m EXCEPT ![l].next = l, ![l].prev = l]

__list_add(m, new, prev, next) ==
  [m EXCEPT ![next].prev = new, ![new].next = next, ![new].prev = prev,
            ![prev].next = new]

list_add(m, new, head)      == __list_add(m, new, head, m[head].next)
list_add_tail(m, new, head) == __list_add(m, new, m[head].prev, head)

__list_del(m, prev, next) == [m EXCEPT ![next].prev = prev, ![prev].next = next]
__list_del_entry(m, e)    == __list_del(m, m[e].prev, m[e].next)

list_del(m, e) ==
  [__list_del_entry(m, e) EXCEPT ![e].next = LIST_POISON1, ![e].prev = LIST_POISON2]

(* What a store wrote is read by the next one: in place of a ring of one   *)
(* comes a ring of one.                                                    *)
list_replace(m, old, new) ==
  LET m1 == [m  EXCEPT ![new].next = m[old].next]
      m2 == [m1 EXCEPT ![m1[new].next].prev = new]
      m3 == [m2 EXCEPT ![new].prev = m2[old].prev]
  IN  [m3 EXCEPT ![m3[new].prev].next = new]

list_replace_init(m, old, new) == INIT_LIST_HEAD(list_replace(m, old, new), old)

list_move(m, l, head)      == list_add(__list_del_entry(m, l), l, head)
list_move_tail(m, l, head) == list_add_tail(__list_del_entry(m, l), l, head)

list_empty(m, head) == m[head].next = head

list_is_singular(m, head) == ~list_empty(m, head) /\ m[head].next = m[head].prev

list_rotate_left(m, head) ==
  IF list_empty(m, head) THEN m ELSE list_move_tail(m, m[head].next, head)

(* Mutant of __list_cut_position: the new first entry keeps its prev.      *)
CutKeepsPrev(m, l, head, entry) ==
  [m EXCEPT ![l].next = m[head].next, ![m[head].next].prev = l,
            ![l].prev = entry, ![entry].next = l, ![head].next = m[entry].next]

__list_cut_position(m, l, head, entry) ==
  [m EXCEPT ![l].next = m[head].next, ![m[head].next].prev = l,
            ![l].prev = entry, ![entry].next = l,
            ![head].next = m[entry].next, ![m[entry].next].prev = head]

(* The cases in which list_cut_position returns at once.                   *)
NothingToCut(m, head, entry) ==
  \/ list_empty(m, head)
  \/ list_is_singular(m, head) /\ m[head].next # entry /\ head # entry

list_cut_position(m, l, head, entry) ==
  IF NothingToCut(m, head, entry) THEN m
  ELSE IF entry = head THEN INIT_LIST_HEAD(m, l)
  ELSE __list_cut_position(m, l, head, entry)

__list_splice(m, l, prev, next) ==
  [m EXCEPT ![m[l].next].prev = prev, ![prev].next = m[l].next,
            ![m[l].prev].next = next, ![next].prev = m[l].prev]

(* Mutant of list_splice_tail: joined at the front.                        *)
SpliceAtFront(m, l, head) ==
  IF list_empty(m, l) THEN m ELSE __list_splice(m, l, head, m[head].next)

list_splice(m, l, head) ==
  IF list_empty(m, l) THEN m ELSE __list_splice(m, l, head, m[head].next)

list_splice_tail(m, l, head) ==
  IF list_empty(m, l) THEN m ELSE __list_splice(m, l, m[head].prev, head)

list_splice_init(m, l, head) ==
  IF list_empty(m, l) THEN m ELSE INIT_LIST_HEAD(list_splice(m, l, head), l)

list_splice_tail_init(m, l, head) ==
  IF list_empty(m, l) THEN m ELSE INIT_LIST_HEAD(list_splice_tail(m, l, head), l)
=============================================================================

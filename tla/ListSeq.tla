-------------------------------- MODULE ListSeq --------------------------------
(***************************************************************************)
(* What the linked lists of include/list.h promise: a list is a sequence   *)
(* of entries behind a head, no entry is in two places, and every          *)
(* operation changes the sequences as its comment says.                    *)
(*                                                                         *)
(* A place in a list is named by a node: the head, or an entry of the      *)
(* list.  A list is a ring, so what is put before the head comes last.     *)
(***************************************************************************)
EXTENDS Naturals, Sequences, SequencesExt

CONSTANTS
  Heads,           \* the list heads
  Entries          \* the entries

VARIABLES
  list,            \* head -> the entries behind it
  usable,          \* heads that are initialised
  clean,           \* entries on no list that are initialised
  call             \* the operation that was called last

vars == <<list, usable, clean, call>>

Node == Heads \cup Entries

TypeOK ==
  /\ list \in [Heads -> Seq(Entries)]
  /\ usable \subseteq Heads
  /\ clean \subseteq Entries
  /\ call \in [op : STRING, args : Seq(Node)]

Init ==
  /\ list = [h \in Heads |-> << >>]
  /\ usable = Heads
  /\ clean = {}
  /\ call = [op |-> "none", args |-> << >>]

-----------------------------------------------------------------------------
Listed   == UNION {ToSet(list[h]) : h \in Heads}
Free     == Entries \ Listed
Vacant   == {h \in Heads : list[h] = << >>}
Places(h) == IF h \in usable THEN {h} \cup ToSet(list[h]) ELSE {}

(* How many entries of list s of head h come up to p.                      *)
UpTo(s, h, p) == IF p = h THEN 0 ELSE CHOOSE i \in DOMAIN s : s[i] = p

(* Puts the entries t right after, or right before, the place p.           *)
Insert(where, s, h, p, t) ==
  LET n == CASE where = "after" -> UpTo(s, h, p)
             [] where = "before" -> IF p = h THEN Len(s) ELSE UpTo(s, h, p) - 1
  IN  SubSeq(s, 1, n) \o t \o SubSeq(s, n + 1, Len(s))

(* The lists without the entry e.                                          *)
Without(e) == [h \in Heads |-> Remove(list[h], e)]

Renamed(s, old, new) == [i \in DOMAIN s |-> IF s[i] = old THEN new ELSE s[i]]

(* A node that was left behind, initialised again or not.                  *)
Leave(x, again) ==
  /\ usable' = IF x \in Heads /\ ~again THEN usable \ {x} ELSE usable
  /\ clean' = IF x \in Entries /\ again THEN clean \cup {x} ELSE clean \ {x}

-----------------------------------------------------------------------------
Called(op, args) == call' = [op |-> op, args |-> args]

(* Initialising a head that has entries would lose them.                   *)
Initialise(x) ==
  /\ x \in Vacant \cup Free
  /\ usable' = usable \cup ({x} \cap Heads)
  /\ clean' = clean \cup ({x} \cap Entries)
  /\ UNCHANGED list

(* Puts an entry that is on no list right after, or right before, p.       *)
Add(e, p, where) == \E h \in Heads :
  /\ e \in Free
  /\ p \in Places(h)
  /\ list' = [list EXCEPT ![h] = Insert(where, @, h, p, <<e>>)]
  /\ clean' = clean \ {e}
  /\ UNCHANGED usable

(* An entry can be deleted when it is on a list or initialised.            *)
Delete(e, again) ==
  /\ e \in Listed \cup clean
  /\ list' = Without(e)
  /\ Leave(e, again)

Move(e, p, where) == \E h \in Heads :
  /\ e \in Listed \cup clean
  /\ p \in Places(h) \ {e}
  /\ list' = [Without(e) EXCEPT ![h] = Insert(where, @, h, p, <<e>>)]
  /\ clean' = clean \ {e}
  /\ UNCHANGED usable

(* The new entry takes the place of the old one: in a list, or among those *)
(* that are initialised and on no list.                                    *)
ReplaceEntry(old, new, again) ==
  /\ old \in Listed \cup clean
  /\ new \in Free \ {old}
  /\ list' = [h \in Heads |-> Renamed(list[h], old, new)]
  /\ clean' = (clean \ {old, new}) \cup (IF old \in clean THEN {new} ELSE {})
                                   \cup (IF again THEN {old} ELSE {})
  /\ UNCHANGED usable

(* The new head takes over the entries of the old one.                     *)
ReplaceHead(old, new, again) ==
  /\ old \in usable
  /\ new \in Vacant \ {old}
  /\ list' = [list EXCEPT ![new] = list[old], ![old] = << >>]
  /\ usable' = (usable \ {old}) \cup {new} \cup (IF again THEN {old} ELSE {})
  /\ UNCHANGED clean

Replace(old, new, again) == ReplaceEntry(old, new, again) \/ ReplaceHead(old, new, again)

RotateLeft(h) ==
  /\ h \in usable
  /\ list' = [list EXCEPT ![h] = IF @ = << >> THEN @ ELSE Append(Tail(@), Head(@))]
  /\ UNCHANGED <<usable, clean>>

(* Moves the entries up to and including p from list h to list l, whose    *)
(* own entries are lost.  Nothing happens to an empty list h, nor when p   *)
(* is not on h.                                                            *)
CutPosition(l, h, p) ==
  /\ h \in usable \ {l}
  /\ IF list[h] = << >> \/ p \notin Places(h)
       THEN UNCHANGED <<list, usable, clean>>
       ELSE LET n == UpTo(list[h], h, p)
            IN  /\ list' = [list EXCEPT ![l] = SubSeq(list[h], 1, n),
                                        ![h] = SubSeq(@, n + 1, Len(@))]
                /\ usable' = usable \cup {l}
                /\ UNCHANGED clean

(* Puts the entries of list l right after, or right before, p.             *)
Splice(l, p, where, again) == \E h \in Heads \ {l} :
  /\ l \in usable
  /\ p \in Places(h)
  /\ IF list[l] = << >>
       THEN UNCHANGED <<list, usable, clean>>
       ELSE /\ list' = [list EXCEPT ![h] = Insert(where, @, h, p, list[l]), ![l] = << >>]
            /\ Leave(l, again)

-----------------------------------------------------------------------------
Next ==
  \/ \E x \in Node : Called("INIT_LIST_HEAD", <<x>>) /\ Initialise(x)
  \/ \E e \in Entries :
       \/ Called("list_del", <<e>>) /\ Delete(e, FALSE)
       \/ Called("list_del_init", <<e>>) /\ Delete(e, TRUE)
  \/ \E e \in Entries, p \in Node :
       \/ Called("list_add", <<e, p>>) /\ Add(e, p, "after")
       \/ Called("list_add_tail", <<e, p>>) /\ Add(e, p, "before")
       \/ Called("list_move", <<e, p>>) /\ Move(e, p, "after")
       \/ Called("list_move_tail", <<e, p>>) /\ Move(e, p, "before")
  \/ \E old, new \in Node :
       \/ Called("list_replace", <<old, new>>) /\ Replace(old, new, FALSE)
       \/ Called("list_replace_init", <<old, new>>) /\ Replace(old, new, TRUE)
  \/ \E h \in Heads : Called("list_rotate_left", <<h>>) /\ RotateLeft(h)
  \/ \E l, h \in Heads, p \in Node :
       Called("list_cut_position", <<l, h, p>>) /\ CutPosition(l, h, p)
  \/ \E l \in Heads, p \in Node :
       \/ Called("list_splice", <<l, p>>) /\ Splice(l, p, "after", FALSE)
       \/ Called("list_splice_tail", <<l, p>>) /\ Splice(l, p, "before", FALSE)
       \/ Called("list_splice_init", <<l, p>>) /\ Splice(l, p, "after", TRUE)
       \/ Called("list_splice_tail_init", <<l, p>>) /\ Splice(l, p, "before", TRUE)

Spec == Init /\ [][Next]_vars
=============================================================================

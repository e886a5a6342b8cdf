--------------------------------- MODULE Lists ---------------------------------
(***************************************************************************)
(* Any legal use of the lists of include/list.h by the holder of one lock. *)
(* Each operation is one step, except that list_del_init is taken store by *)
(* store, because list_empty_careful may be called without the lock while  *)
(* it runs.  list_empty_careful reads next, then prev.                     *)
(*                                                                         *)
(* An iteration with list_for_each_safe, in either direction, may remove   *)
(* the entry it is at from its list.  It may also let go of the lock while *)
(* that entry stays, and take it again and call list_safe_reset_next.      *)
(***************************************************************************)
EXTENDS ListHead, Sequences, SequencesExt, FiniteSets

VARIABLES
  mem,             \* the pointers of every structure
  usable,          \* heads the client has initialised and not left behind
  writer,          \* list_del_init in progress
  reader,          \* list_empty_careful in progress, or its answer
  loop,            \* list_for_each_safe in progress
  call             \* the operation that was called last, for the properties

view == <<mem, usable, writer, reader, loop>>
vars == <<view, call>>

None == [on |-> FALSE]

(* The stores of list_del_init: 1 next->prev, 2 prev->next, 3 entry->next, *)
(* 4 entry->prev; at names the one to come.                                *)
Writer == {None} \cup [on : {TRUE}, entry : Entries, prev : Node, next : Node, at : 1 .. 4]
Reader == {None} \cup [on : {TRUE}, node : Node, next : Ptr,
                       answer : {"unknown", "empty", "not_empty"}]

(* todo: the entries the list had when the loop began, from the one the    *)
(* loop is at; removed: the body has removed that one; stale: the lock was *)
(* let go, and n is the successor of pos no more.                          *)
Loop == {None} \cup [on : {TRUE}, head : Heads, dir : {"next", "prev"},
                     pos : Node, n : Node, removed : BOOLEAN, stale : BOOLEAN,
                     todo : Seq(Entries)]

Operations ==
  {"none", "INIT_LIST_HEAD", "list_add", "list_add_tail", "list_del", "list_del_init",
   "list_move", "list_move_tail", "list_replace", "list_replace_init",
   "list_rotate_left", "list_cut_position", "list_splice", "list_splice_tail",
   "list_splice_init", "list_splice_tail_init"}

TypeOK ==
  /\ mem \in Memory
  /\ usable \subseteq Heads
  /\ writer \in Writer
  /\ reader \in Reader
  /\ loop \in Loop
  /\ call \in [op : Operations, args : Seq(Node)]

Init ==
  /\ mem = [x \in Node |-> IF x \in Heads THEN [next |-> x, prev |-> x]
                           ELSE [next |-> NULL, prev |-> NULL]]
  /\ usable = Heads
  /\ writer = None
  /\ reader = None
  /\ loop = None
  /\ call = [op |-> "none", args |-> << >>]

-----------------------------------------------------------------------------
Follow(dir, x) == IF dir = "next" THEN mem[x].next ELSE mem[x].prev

(* The entries met after x, along one of the pointers.                     *)
Walk(dir, x) ==
  LET from[k \in 0 .. Cardinality(Node)] ==
        [y \in Ptr |-> IF k = 0 \/ y \notin Entries THEN << >>
                      ELSE << y >> \o from[k - 1][Follow(dir, y)]]
  IN  from[Cardinality(Node)][Follow(dir, x)]

OnList(h)    == IF h \in usable THEN Walk("next", h) ELSE << >>
Listed       == UNION {ToSet(OnList(h)) : h \in usable}
Places       == usable \cup Listed
Free         == Entries \ Listed
RingOfOne(x) == mem[x].next = x /\ mem[x].prev = x
Clean        == {e \in Free : RingOfOne(e)}
Vacant       == {h \in Heads : OnList(h) = << >>}

(* The client works under the lock, with no reader outside it.             *)
Alone == writer = None /\ reader = None
Outside == Alone /\ loop = None

(* The body of a loop may remove the entry it is at, once; while the lock  *)
(* is not held others may remove any but that one.                         *)
MayRemove(e) ==
  loop.on => IF loop.stale THEN e # loop.pos ELSE e = loop.pos /\ ~loop.removed

Called(op, args) == call' = [op |-> op, args |-> args]

Removed ==
  loop' = IF loop.on /\ ~loop.stale THEN [loop EXCEPT !.removed = TRUE] ELSE loop

-----------------------------------------------------------------------------
Initialise ==
  /\ Outside
  /\ \E x \in Vacant \cup Free :
       /\ mem' = INIT_LIST_HEAD(mem, x)
       /\ Called("INIT_LIST_HEAD", <<x>>)
       /\ usable' = usable \cup ({x} \cap Heads)
  /\ UNCHANGED <<writer, reader, loop>>

Add ==
  /\ Alone
  /\ loop.on => loop.stale
  /\ \E new \in Free, p \in Places :
       \/ mem' = list_add(mem, new, p) /\ Called("list_add", <<new, p>>)
       \/ mem' = list_add_tail(mem, new, p) /\ Called("list_add_tail", <<new, p>>)
  /\ UNCHANGED <<usable, writer, reader, loop>>

Delete ==
  /\ Alone
  /\ \E e \in Listed \cup Clean :
       /\ MayRemove(e)
       /\ mem' = list_del(mem, e)
       /\ Called("list_del", <<e>>)
       /\ Removed
  /\ UNCHANGED <<usable, writer, reader>>

(* The body of a loop moves an entry to another list.                      *)
Move ==
  /\ Alone
  /\ \E e \in Listed \cup Clean : \E p \in Places \ {e} :
       /\ MayRemove(e)
       /\ loop.on /\ ~loop.stale => p \notin {loop.head} \cup ToSet(OnList(loop.head))
       /\ \/ mem' = list_move(mem, e, p) /\ Called("list_move", <<e, p>>)
          \/ mem' = list_move_tail(mem, e, p) /\ Called("list_move_tail", <<e, p>>)
       /\ Removed
  /\ UNCHANGED <<usable, writer, reader>>

(* An entry by an entry, or a head by a head.  Without _init the old head  *)
(* is out of use.                                                          *)
Replace ==
  /\ Outside
  /\ \E old \in usable \cup Listed \cup Clean, new \in Vacant \cup Free :
       /\ old # new /\ (old \in Heads <=> new \in Heads)
       /\ \/ /\ mem' = list_replace(mem, old, new)
             /\ usable' = (usable \ {old}) \cup ({new} \cap Heads)
             /\ Called("list_replace", <<old, new>>)
          \/ /\ mem' = list_replace_init(mem, old, new)
             /\ usable' = usable \cup ({new} \cap Heads)
             /\ Called("list_replace_init", <<old, new>>)
  /\ UNCHANGED <<writer, reader, loop>>

Rotate ==
  /\ Outside
  /\ \E h \in usable :
       mem' = list_rotate_left(mem, h) /\ Called("list_rotate_left", <<h>>)
  /\ UNCHANGED <<usable, writer, reader, loop>>

(* "You should pass on @entry an element you know is on @head"; when there *)
(* is nothing to cut it may be any.  The entries of the list cut to, if it *)
(* has some, are lost.                                                     *)
Cut ==
  /\ Outside
  /\ \E h \in usable : \E l \in Heads \ {h}, p \in Node :
       /\ NothingToCut(mem, h, p) \/ p \in {h} \cup ToSet(OnList(h))
       /\ mem' = list_cut_position(mem, l, h, p)
       /\ Called("list_cut_position", <<l, h, p>>)
       /\ usable' = IF NothingToCut(mem, h, p) THEN usable ELSE usable \cup {l}
  /\ UNCHANGED <<writer, reader, loop>>

(* After list_splice the head of the entries moved is out of use.          *)
Splice ==
  /\ Outside
  /\ \E l \in usable : \E p \in Places \ ({l} \cup ToSet(OnList(l))) :
       \/ /\ \/ mem' = list_splice(mem, l, p) /\ Called("list_splice", <<l, p>>)
             \/ mem' = list_splice_tail(mem, l, p) /\ Called("list_splice_tail", <<l, p>>)
          /\ usable' = IF list_empty(mem, l) THEN usable ELSE usable \ {l}
       \/ /\ \/ /\ mem' = list_splice_init(mem, l, p)
                /\ Called("list_splice_init", <<l, p>>)
             \/ /\ mem' = list_splice_tail_init(mem, l, p)
                /\ Called("list_splice_tail_init", <<l, p>>)
          /\ UNCHANGED usable
  /\ UNCHANGED <<writer, reader, loop>>

-----------------------------------------------------------------------------
(* list_del_init, a store at a time.  The pointers of the entry are read   *)
(* before the first store.  An entry that is on no list may be deleted     *)
(* again, but not while somebody looks at it without the lock: the stores  *)
(* change nothing then, but are stores still.                              *)
DelInitBegins ==
  /\ writer = None
  /\ \E e \in Listed \cup Clean :
       /\ MayRemove(e)
       /\ e \in Listed \/ reader = None
       /\ writer' = [on |-> TRUE, entry |-> e, prev |-> mem[e].prev,
                     next |-> mem[e].next, at |-> 1]
       /\ Removed
  /\ UNCHANGED <<mem, usable, reader, call>>

(* The memory after the store to come.                                     *)
StoreOf(w) ==
  CASE w.at = 1 -> [mem EXCEPT ![w.next].prev = w.prev]
    [] w.at = 2 -> [mem EXCEPT ![w.prev].next = w.next]
    [] w.at = 3 -> [mem EXCEPT ![w.entry].next = w.entry]
    [] w.at = 4 -> [mem EXCEPT ![w.entry].prev = w.entry]

list_del_init ==
  /\ writer.on
  /\ mem' = StoreOf(writer)
  /\ writer' = IF writer.at = 4 THEN None ELSE [writer EXCEPT !.at = @ + 1]
  /\ IF writer.at = 2 THEN Called("list_del_init", <<writer.entry>>) ELSE UNCHANGED call
  /\ UNCHANGED <<usable, reader, loop>>

(* The nodes that list_del_init will still write to.                       *)
ToBeWritten ==
  IF ~writer.on THEN {}
  ELSE {writer.entry} \cup (IF writer.at = 1 THEN {writer.next} ELSE {})
                      \cup (IF writer.at <= 2 THEN {writer.prev} ELSE {})

-----------------------------------------------------------------------------
(* The first load of list_empty_careful.                                   *)
CarefulReadsNext ==
  /\ reader = None
  /\ writer.on => writer.prev # writer.entry
  /\ \E x \in Places \cup Clean \cup (IF writer.on THEN {writer.entry} ELSE {}) :
       reader' = [on |-> TRUE, node |-> x, next |-> mem[x].next, answer |-> "unknown"]
  /\ UNCHANGED <<mem, usable, writer, loop, call>>

Answer(yes) == [reader EXCEPT !.answer = IF yes THEN "empty" ELSE "not_empty"]

(* Mutant of list_empty_careful: looks at next only, as list_empty does.   *)
CarefulAsListEmpty ==
  /\ reader.on
  /\ reader.answer = "unknown"
  /\ reader' = Answer(reader.next = reader.node)
  /\ UNCHANGED <<mem, usable, writer, loop, call>>

(* The second load, and the answer.                                        *)
list_empty_careful ==
  /\ reader.on
  /\ reader.answer = "unknown"
  /\ reader' = Answer(reader.next = reader.node /\ reader.next = mem[reader.node].prev)
  /\ UNCHANGED <<mem, usable, writer, loop, call>>

CarefulReturned ==
  /\ reader.on
  /\ reader.answer # "unknown"
  /\ reader' = None
  /\ UNCHANGED <<mem, usable, writer, loop, call>>

-----------------------------------------------------------------------------
(* pos = (head)->next, n = pos->next, or the same along prev.              *)
LoopBegins ==
  /\ writer = None
  /\ loop = None
  /\ \E h \in usable, dir \in {"next", "prev"} :
       LET pos == Follow(dir, h)
       IN  loop' = [on |-> TRUE, head |-> h, dir |-> dir, pos |-> pos,
                    n |-> Follow(dir, pos), removed |-> FALSE, stale |-> FALSE,
                    todo |-> IF dir = "next" THEN OnList(h) ELSE Reverse(OnList(h))]
  /\ UNCHANGED <<mem, usable, writer, reader, call>>

(* Mutant of list_for_each_safe: goes on from pos, as list_for_each does.  *)
LoopFollowsPos ==
  /\ writer = None
  /\ loop.on
  /\ loop.pos # loop.head /\ ~loop.stale
  /\ loop' = [loop EXCEPT !.pos = Follow(loop.dir, @), !.removed = FALSE,
                          !.todo = Tail(@)]
  /\ UNCHANGED <<mem, usable, writer, reader, call>>

(* The body is done: pos = n, n = pos->next.                               *)
list_for_each_safe ==
  /\ writer = None
  /\ loop.on
  /\ loop.pos # loop.head /\ ~loop.stale
  /\ loop' = [loop EXCEPT !.pos = loop.n, !.n = Follow(loop.dir, loop.n),
                          !.removed = FALSE, !.todo = Tail(@)]
  /\ UNCHANGED <<mem, usable, writer, reader, call>>

(* The body lets go of the lock, the entry it is at staying on the list.   *)
LoopUnlocks ==
  /\ writer = None
  /\ loop.on
  /\ loop.pos # loop.head /\ ~loop.removed /\ ~loop.stale
  /\ loop' = [loop EXCEPT !.stale = TRUE]
  /\ UNCHANGED <<mem, usable, writer, reader, call>>

(* n = pos->next, with the lock taken again: what is left to do is what    *)
(* comes after pos now.                                                    *)
list_safe_reset_next ==
  /\ writer = None
  /\ loop.on
  /\ loop.stale
  /\ loop' = [loop EXCEPT !.n = Follow(loop.dir, loop.pos), !.stale = FALSE,
                          !.todo = << loop.pos >> \o Walk(loop.dir, loop.pos)]
  /\ UNCHANGED <<mem, usable, writer, reader, call>>

LoopEnds ==
  /\ writer = None
  /\ loop.on
  /\ loop.pos = loop.head
  /\ loop' = None
  /\ UNCHANGED <<mem, usable, writer, reader, call>>

-----------------------------------------------------------------------------
Next ==
  \/ Initialise \/ Add \/ Delete \/ Move \/ Replace \/ Rotate \/ Cut \/ Splice
  \/ DelInitBegins \/ list_del_init
  \/ CarefulReadsNext \/ list_empty_careful \/ CarefulReturned
  \/ LoopBegins \/ list_for_each_safe \/ LoopEnds
  \/ LoopUnlocks \/ list_safe_reset_next

Spec == Init /\ [][Next]_vars

-----------------------------------------------------------------------------
Ring(h) == << h >> \o OnList(h)

(* Between two operations every list is a ring that both pointers go       *)
(* round, and no entry is met twice, on one list or on two.                *)
RingsClosed ==
  ~writer.on =>
    /\ \A h \in usable :
         /\ IsInjective(Ring(h))
         /\ \A i \in 1 .. Len(Ring(h)) :
              LET x == Ring(h)[i]
                  y == Ring(h)[(i % Len(Ring(h))) + 1]
              IN  mem[x].next = y /\ mem[y].prev = x
    /\ \A g, h \in usable : g # h => ToSet(OnList(g)) \cap ToSet(OnList(h)) = {}

(* "tests whether a list is empty _and_ checks that no other CPU might be  *)
(* in the process of modifying either member": once it has said so of a    *)
(* node, list_del_init has no store to that node left to do, and the node  *)
(* stays as it is until the caller goes on.                                *)
CarefulMeansDone ==
  reader.on /\ reader.answer = "empty" =>
    RingOfOne(reader.node) /\ reader.node \notin ToBeWritten

(* "safe against removal of list entry": the loop meets each entry that    *)
(* the list had when it began, or after the cursor when the lock was last  *)
(* taken again, in order and once, whatever became of those it was at, and *)
(* it ends at the head.                                                    *)
LoopMeetsEach ==
  loop.on => loop.pos = IF loop.todo = << >> THEN loop.head ELSE Head(loop.todo)

(* The sequences the pointers stand for.  An entry leaves its list with    *)
(* the second store of list_del_init, and is as good as initialised then.  *)
Abstract ==
  INSTANCE ListSeq WITH
    list <- [h \in Heads |-> OnList(h)],
    clean <- Clean \cup (IF writer.on /\ writer.at > 2 THEN {writer.entry} ELSE {})

(* Every operation does to the pointers what its comment in list.h says of *)
(* the lists: list_add puts a new entry after the place given, list_splice *)
(* joins a list at the front, and so on, whatever operations came before.  *)
ImplementsListSeq == Abstract!Spec
=============================================================================

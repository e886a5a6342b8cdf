------------------------------ MODULE TxdAtomic ------------------------------
(***************************************************************************)
(* The atomic operations of txd_atomic.c.  Each is one locked x86          *)
(* instruction on an int, and a condition flag or a register of the        *)
(* executing thread that nobody else can change: a single step.  The int   *)
(* is a signed word that wraps.                                            *)
(*                                                                         *)
(* Of these operations the driver itself calls only atomic_set, which is   *)
(* atomic_xchg.  The threads below use them the way their comments and     *)
(* names offer them: "count" is a reference count, "lock" a spin lock,     *)
(* "gate" a counter that starts at minus the number of threads and is to   *)
(* come up to 0 by atomic_inc_and_test, which decrements it.               *)
(***************************************************************************)
EXTENDS Integers, FiniteSets, Functions

CONSTANTS
  Thread,
  IntHalf,    \* half the values of an int (2^31 in the code)
  MaxRefs     \* bound on the references taken

ASSUME AtomicAssumption ==
  /\ IsFiniteSet(Thread) /\ Thread # {}
  /\ IntHalf \in Nat \ {0, 1}
  /\ MaxRefs \in 1 .. 2 * IntHalf - 1

VARIABLES
  word,       \* the three ints
  refs,       \* how many references each thread holds
  freed,      \* how often a thread was told that it dropped the last one
  inside      \* the threads between lock and unlock

vars == <<word, refs, freed, inside>>

Word == {"count", "lock", "gate"}
CInt == -IntHalf .. IntHalf - 1

TypeOK ==
  /\ word \in [Word -> CInt]
  /\ refs \in [Thread -> 0 .. MaxRefs]
  /\ freed \in Nat
  /\ inside \subseteq Thread

(* Two's complement.                                                       *)
Wrap(n) == ((n + IntHalf) % (2 * IntHalf)) - IntHalf

References == SumFunction(refs)

(* One thread, whichever, has created the counted object.                  *)
Init ==
  /\ word = [w \in Word |->
       CASE w = "count" -> Wrap(1)
         [] w = "lock"  -> 0
         [] w = "gate"  -> Wrap(-Cardinality(Thread))]
  /\ \E t \in Thread : refs = [u \in Thread |-> IF u = t THEN 1 ELSE 0]
  /\ freed = 0
  /\ inside = {}

-----------------------------------------------------------------------------
(* Mutant of atomic_add: the sum does not wrap.                            *)
AddUnbounded(w, n) == word' = [word EXCEPT ![w] = @ + n]

atomic_add(w, n) == word' = [word EXCEPT ![w] = Wrap(@ + n)]

(* Mutant of atomic_sub: decrements, whatever its operand.                 *)
SubOne(w, n) == word' = [word EXCEPT ![w] = Wrap(@ - 1)]

atomic_sub(w, n) == word' = [word EXCEPT ![w] = Wrap(@ - n)]

atomic_inc(w) == atomic_add(w, 1)
atomic_dec(w) == word' = [word EXCEPT ![w] = Wrap(@ - 1)]

(* Mutant of atomic_dec_and_test: setle in place of sete.                  *)
DecAndTestLess(w, true) == atomic_dec(w) /\ true = (word'[w] <= 0)

(* true is what the call returns: the zero flag that decl leaves.          *)
atomic_dec_and_test(w, true) == atomic_dec(w) /\ true = (word'[w] = 0)

(* The comment says "increment", the instructions are the same: the word   *)
(* is decremented here, too.                                               *)
atomic_inc_and_test(w, true) == atomic_dec(w) /\ true = (word'[w] = 0)

(* Mutant of test_and_set: the carry flag is taken before bts.             *)
SetAndForget(w, oldbit) ==
  /\ oldbit = 0
  /\ word' = [word EXCEPT ![w] = IF @ % 2 = 0 THEN @ + 1 ELSE @]

(* Sets bit 0 and returns what it was.                                     *)
test_and_set(w, oldbit) ==
  /\ oldbit = word[w] % 2
  /\ word' = [word EXCEPT ![w] = IF @ % 2 = 0 THEN @ + 1 ELSE @]

atomic_xchg(w, newval, result) ==
  /\ result = word[w]
  /\ word' = [word EXCEPT ![w] = newval]

-----------------------------------------------------------------------------
(* A thread gets n more references while somebody still holds one.         *)
Get(t) ==
  \E n \in 1 .. MaxRefs - References :
    /\ References > 0
    /\ IF n = 1 THEN atomic_inc("count") ELSE atomic_add("count", n)
    /\ refs' = [refs EXCEPT ![t] = @ + n]
    /\ UNCHANGED <<freed, inside>>

(* A thread that drops several references, or one, knows that others are   *)
(* left.                                                                   *)
PutSome(t) ==
  \E n \in 1 .. refs[t] :
    /\ n < References
    /\ IF n = 1 THEN atomic_dec("count") ELSE atomic_sub("count", n)
    /\ refs' = [refs EXCEPT ![t] = @ - n]
    /\ UNCHANGED <<freed, inside>>

(* A thread that does not know whether others are left.                    *)
Put(t) ==
  /\ refs[t] > 0
  /\ \E last \in BOOLEAN :
       /\ atomic_dec_and_test("count", last)
       /\ freed' = IF last THEN freed + 1 ELSE freed
  /\ refs' = [refs EXCEPT ![t] = @ - 1]
  /\ UNCHANGED inside

Lock(t) ==
  /\ t \notin inside
  /\ \E oldbit \in 0 .. 1 :
       /\ test_and_set("lock", oldbit)
       /\ inside' = IF oldbit = 0 THEN inside \cup {t} ELSE inside
  /\ UNCHANGED <<refs, freed>>

(* atomic_set(lock, 0), which drops the result of the exchange.            *)
Unlock(t) ==
  /\ t \in inside
  /\ \E old \in CInt : atomic_xchg("lock", 0, old)
  /\ inside' = inside \ {t}
  /\ UNCHANGED <<refs, freed>>

(* Whichever thread it is, the gate is all that changes.                   *)
Arrive ==
  /\ \E last \in BOOLEAN : atomic_inc_and_test("gate", last)
  /\ UNCHANGED <<refs, freed, inside>>

Next ==
  \/ \E t \in Thread :
       Get(t) \/ PutSome(t) \/ Put(t) \/ Lock(t) \/ Unlock(t)
  \/ Arrive

Spec == Init /\ [][Next]_vars

-----------------------------------------------------------------------------
(* No increment or decrement is lost, whatever the interleaving: the word  *)
(* is the number of references, also after it has wrapped.                 *)
CountIsReferences == word["count"] = Wrap(References)

(* The thread that drops the last reference is told so by                  *)
(* atomic_dec_and_test, no other thread is, and nobody is told twice.      *)
LastDropToldOnce == freed = IF References = 0 THEN 1 ELSE 0

(* test_and_set lets one thread in at a time, and the lock is free again   *)
(* once that thread has stored 0.                                          *)
LockHeldByOne == Cardinality(inside) = word["lock"]

=============================================================================

# TxDriver in TLA+

TxDriver is "jbd2 like User level Transaction Driver": a C library that keeps a
journal on an NVMe device through SPDK. This directory holds TLA+ modules that
model it, the TLC configurations that check them, and proofs for TLAPS.

    tlc -config MCTxdJournal.cfg MCTxdJournal
    tlapm TxdJournalProofs.tla

The modules whose names end in `Proofs` hold the theorems.

Paths below are relative to the repository (`src/...`, `include/...`).

## 1. Inventory

| Part | Source | State | Operations | Calls |
|---|---|---|---|---|
| Application interface | `src/txd_api.c` | none of its own | `tx_format`, `tx_begin`; `tx_write`, `tx_commit`, `tx_abort` are stubs | device layer, journal, memory |
| Device layer | `src/txd_spdk.c` | `g_controllers`, `g_namespaces`, a queue pair per namespace entry, one `spdk_sequence` per call | `spdk_init`, `spdk_alloc_qpair`, `spdk_read`, `spdk_write`, `spdk_free`, `cleanup`, the callbacks | SPDK |
| Journal | `src/txd_journal.c` | `txd_journal_t`: flags, sequence numbers, log bounds, wait queues, revoke tables | `txd_get_journal`, `txd_journal_load`; recover, wipe, destroy and the superblock update are stubs | revoke tables, memory, pthreads |
| journald | `src/txd_journal.c` | `j_wait_done_commit` (condition, mutex, condition variable), shared with the opening thread | `txd_journald` | pthreads |
| Revoke tables | `src/txd_revoke.c` | two hash tables per journal | `txd_journal_init_revoke`, `txd_journal_destroy_revoke` | memory, `list.h` |
| Memory wrappers | `src/txd_malloc.c` | `allocated_mem_size` | seven allocations, three releases, a report | SPDK, DPDK, libc |
| Atomic operations | `src/txd_atomic.c` | none | add, sub, inc, dec, dec_and_test, inc_and_test, test_and_set, xchg | none |
| Linked lists | `include/list.h`, `include/poison.h` | two pointers per head and entry | add, delete, move, replace, rotate, cut, splice, tests, loops; taken over from Linux | none |
| Older generation | `src/txdriver_*.c`, `src/atomic.c` | as above | the previous version of the same parts: memory from `calloc`, one error label, a `tx_format` that writes | as above |
| Recovery, checkpoint, commit, transactions | `src/txd_recovery.c` and others | declared in `include/txdriver.h` | none: the files are empty | none |

How they interact: the application calls `tx_format` and then `tx_begin` in one
thread. `tx_format` sets up the device layer. `tx_begin` reads the superblock,
asks `txd_get_journal` for a journal (memory wrappers, revoke tables) and loads
it; loading starts the thread journald and waits on a condition variable until
journald has reported. The device layer completes a command by a callback that
runs inside its polling loop.

What is hard here, and what must be true of each part:

- **Journal and journald**: two threads and a condition variable (lost and
  spurious wakeups, a thread that was never created); a chain of eight
  allocations, each with its own way back; the length test at the edge; members
  that are read before they are written. A caller must get a whole journal or
  nothing, and a journal must stay marked for error until journald has served it.
- **Device layer**: lists of entries that outlive `cleanup`, queue pairs that
  run out, completions that arrive later and may carry an error. The lists must
  match what is attached, and a read must not deliver something else's data.
- **Application interface**: any step fails and the way back goes through two
  labels and `cleanup`; afterwards the layer below is gone. NULL must leave
  nothing behind; a journal must come from a superblock of the right length.
- **Revoke tables**: two tables, the second may fail. All or nothing.
- **Memory wrappers**: every release must claim what was counted.
- **Older generation**: the one error label is reached from five places and
  follows pointers that may not have been assigned.
- **Atomic operations**: no update lost, also when the int wraps.
- **Linked lists**: stores that read back what the store before wrote, early
  returns, a test without a lock against a removal in progress, and loops whose
  body removes the entry it is at. Every list must stay a ring, and every
  operation do what its comment says.

PROJECT.json lists each hazard at its line, with the properties that are there
for it.

## 2. Modules

| Module | Models | Used by |
|---|---|---|
| `TxdMalloc` | `txd_malloc.c` | `TxdRevoke`, `TxdJournal` (INSTANCE), `TxdMallocProofs` |
| `TxdRevoke` | `txd_revoke.c` | `TxdJournal` (INSTANCE), `TxdRevokeProofs` |
| `JournalOpen` | what opening a journal promises (abstract) | `TxdJournal` (refinement), `TxDriver` (composition) |
| `TxdJournal` | `txd_get_journal`, `txd_journal_load`, `txd_journald` | `TxdJournalProofs`, `MCTxdJournal` |
| `TxdSpdk` | `txd_spdk.c` | `TxDriver`, `TxdriverApi` (INSTANCE), `TxdSpdkProofs`, `MCTxdSpdk` |
| `TxDriver` | `txd_api.c` | `TxDriverProofs`, `MCTxDriver` |
| `TxdAtomic` | `txd_atomic.c` | `TxdAtomicProofs` |
| `ListHead` | the operations of `list.h`, as operators on the memory | `Lists` (EXTENDS) |
| `ListSeq` | what `list.h` promises, on sequences (abstract) | `Lists` (refinement) |
| `Lists` | any legal use of the lists, with loops and a reader without the lock | `ListsProofs`, `MCLists` |
| `TxdriverJournal` | `txdriver_journal.c`, `txdriver_revoke.c` | `TxdriverApi` (EXTENDS) |
| `TxdriverApi` | `txdriver_api.c` over `TxdSpdk` | `TxdriverApiProofs`, `MCTxdriverApi` |
| `TxdMallocProofs` | theorems about `TxdMalloc`, and lemmas about sums | `TxdJournalProofs` (INSTANCE) |
| `TxdRevokeProofs`, `TxdJournalProofs`, `TxdAtomicProofs`, `ListsProofs` | theorems about the module of that name | |
| `TxdSpdkProofs` | theorems about `TxdSpdk` | `TxDriverProofs`, `TxdriverApiProofs` (INSTANCE) |
| `TxDriverProofs`, `TxdriverApiProofs` | theorems about the two applications over the device layer | |

The `MC...` modules give constants their values for TLC; modules with small
constants are checked directly.

The Makefile compiles every `.c` file, and both generations define the same
functions (`tx_begin`, `spdk_init`, ...). They are alternatives, and each is
modelled as a program of its own.

## 3. How the modules correspond to the code

The variable `pc` is always a control point of the calling thread. Where a
function allocates a series of blocks, the control point is named after the
block that comes next, so a failure of any of them is a disjunct of one action.
A label of the code is a control point of the same name.

**TxdMalloc.** `heap` maps a live block to its size as the allocator saw it,
`allocated_mem_size` is the counter of the code modulo `MemMod`. One operator
per wrapper; the last argument says whether the allocator found room. `drift`
is a history variable, explained below.

**TxdRevoke.** `j_revoke_table` holds the two tables with `hash_size`,
`hash_shift` and the set of buckets that are initialised; `list_empty` holds of
a bucket in that set. `Shifts` is the loop that computes the shift, as a recursive
function on the values of an int. `txd_journal_init_revoke` is one action per allocation,
with `fail1` as a step of its own; `txd_journal_destroy_revoke` asserts and
frees.

**TxdJournal.** The variables are the members of `txd_journal_t` that the code
changes (`j`), the superblock buffer (`sb`), the wait queue `j_wait_done_commit`
with its mutex (`wq`), the revoke tables and the heap. `txd_get_journal` begins
a call; `NewJournal`, `NewBufferHead`, `InitRevoke`, `NewWbuf` are its
allocations, `DestroyRevoke`, `Out2`, `Out1` its labels. `txd_journal_load` runs
to the start of the thread, `Spawn` is `pthread_create`, `LockWq`, `WaitWq` and
`Finish` are the loop around `pthread_cond_wait`, and the four `Journald`
actions are the other thread. `SpuriousWakeup` is the one POSIX allows. Members
that are read without having been written start from an arbitrary value
(`Garbage`).

**JournalOpen.** What a caller may rely on: a request ends with nothing or with
everything; a load succeeds, fails, or hangs for ever, because the journald it
waits for could not be created; and only a loaded journal is usable.
`TxdJournal` implements it, whatever `pthread_create` returns, under the mapping `AbsSt`, `AbsHeld`, `AbsUsable`;
`TxDriver` uses it in place of `TxdJournal`.

**TxdSpdk.** `g_controllers` and `g_namespaces` are sequences, head first. An
entry carries the epoch in which it was made; `cleanup` ends the epoch and so
frees every entry while both heads keep their values, as in the code. `Findable`
is what probing may find, in any order; `Probed` runs `attach_cb` for each
controller found, `register_ns` within it for each active namespace. `ready` is
the set of entries with a queue pair, which SPDK may refuse at any time and must
refuse when the controller has none left; `io` is the one command in flight with the
stages of `struct spdk_sequence`. `DeviceExecutes` is the device: a command covers
`count` sectors from `lba` on, the DMA buffer is shorter than one of them, so a
write leaves anything in the sectors after the first, and a write that fails may
have reached any of its sectors. A step that
would use freed memory sets `proc = "undefined"`, and nothing is said of the
process after that.

**TxDriver.** The application makes one call at a time. Each call of the layers
below is a step; `Checked` is `TXD_CHK_FAIL`. `LoadJournal` is the load, whose
result is ignored; when it hangs, `pc` stays at "load" for good. `journals` records
what has been handed out.

**TxdAtomic.** Each operation is one atomic step on a word that wraps: it has
`2 * IntHalf` values, where `IntHalf` is 2^31 in the code. Threads use
them for a reference count, a lock and a gate. That an operation is one step is what
its `lock` prefix gives and is built into the model: the properties are about what
each step computes and reports, not about updates torn apart. The repository calls only
`atomic_set`; the clients are the uses the comments in the file describe.

**TxdriverJournal, TxdriverApi.** The older `txd_journal_init_common` with its
heap and the three pointer members it follows on its error path: NULL, pointing
to a block of this call, or wild, that is, never assigned. Each `Return` adds
the blocks nobody can free any more to `lost`. Writes cover
`txd_size / LBA_UNIT` sectors from `txd_addr / LBA_UNIT` on, reads go to
`txd_addr`, as in the code.

**ListHead, Lists, ListSeq.** `mem` gives every head and entry its two pointers.
An operation of `list.h` is an operator from the memory before it to the memory
after it, its stores in the order of the code. `Lists` calls them in any order
their comments allow, all by the holder of one lock, with two exceptions:

- `list_del_init` is taken store by store (`StoreOf`), because
  `list_empty_careful` may look at the entry without the lock; its two loads are
  two steps. Loads and stores are taken to be sequentially consistent, which the
  plain accesses of `list.h` give on the strongly ordered processor that
  `txd_atomic.c` is written for. Deleting an entry again that is on no list is
  left out while `list_empty_careful` runs: its stores change nothing, but are
  still to come when the answer is "empty".
- `list_for_each_safe` keeps `pos` and `n`. Its body may remove the entry at
  `pos`; or it may let go of the lock, so that others change the list around the
  entry, and call `list_safe_reset_next` with the lock taken again. Both
  directions are covered, and with them `list_for_each_entry_safe` and its
  reverse, which take the same steps.

The refinement mapping reads the sequences off the pointers. An entry leaves its
list with the second store of `list_del_init`, so that step is the one `ListSeq`
sees; the others are stutters. `call` names the operation called last, so that
each operation has to be the one of its own name in `ListSeq`. It is a history
variable and no part of the state TLC compares (`VIEW view`): the properties of
states do not look at it, and steps are checked as they are taken.

## 4. What is checked

All the properties are stated, with the code they are about, in the modules.

| Run | States | Shows |
|---|---|---|
| `malloc` | 3 456 | The counter is the sum of the live blocks plus what `txd_malloc` and `txd_calloc` miscount, at any mix of calls and when it wraps. |
| `revoke` | 1 128 | Two tables or none, and `hash_shift` is the logarithm. That no assert fires and that the accounting is exact is checked in `journal`, which contains these steps. |
| `journal` | 5 688 | The inductive invariant and what follows from it, and the refinement of `JournalOpen` with its liveness, for a `pthread_create` that may fail in a way the code notices and in one it does not. |
| `spdk` | 11 376 | Lists match what is attached; queue pairs are live; a read delivers the block or zeros; polling ends. |
| `driver` | 183 184 | NULL leaves nothing behind; a journal is whole and comes from a matching superblock; nothing undefined before the first cleanup; a call returns, ends the process, or is in a load that hangs. |
| `atomic` | 864 | No update lost, the last drop told exactly once, the lock excludes. |
| `txdriver` | 354 024 | What the older `tx_begin` loses, that its error path faults only on members nobody assigned, and that a format touches no sector outside its area. |
| `lists` | 556 331 | The pointers form rings, each operation is the one on sequences, the careful test tells the truth, the safe loops meet every entry. |

Accounting in `malloc`: `txd_malloc` counts before it knows whether the
allocation succeeds, and `txd_calloc` counts one element whatever the number.
`drift` sums these up, and `AccountingExact` says that nothing else is wrong.
The opening of a journal uses the wrappers over SPDK only, where the drift is 0.

Some properties say where the code goes wrong, rather than that it does not:

- `UndefinedOnlyWithoutDevice` tolerates that calls after the first `cleanup` run on
  freed entries, and says that nothing else does.
- `ReadyQpairsLive` tolerates that a queue pair stays allocated when its pointer is
  overwritten, and `LosesWholeOrHead` that the older error label keeps the buffer head.
- `FoundIsOnDisk` does not notice that the older `tx_format` and `tx_begin` look at
  different sectors.

### Bounds

- `malloc`: three blocks, sizes 1, 3 and 6, one or two elements, a counter that
  wraps at 16: the total passes the wrap with two blocks.
- `revoke`: twelve sizes from 1 to 20, powers of two and their neighbours. The
  code uses 256, which the run `journal` takes.
- `journal`: the code's table size and `TXD_MIN_JOURNAL_BLOCKS`; superblocks one
  block short of the minimum, just long enough and long; a first block moved
  by one, and one beyond the last; a block size smaller than one tag. Sequence
  numbers modulo 8 start at 0, where the predecessor wraps, or 5. `CreateResults`
  is {0, 1, 11}: success, `TXD_FAIL`, and `EAGAIN`, which the code does not notice;
  {0, 11} in the run for `CallReturns`, {0} in the one about the log.
- `spdk`, `driver`: two controllers, one without namespaces; two queue pairs, so
  that the third `tx_format` finds none; two addresses, and in `spdk` commands of
  one or two sectors. Entries have two epochs,
  because a second `cleanup` of freed entries is undefined behaviour.
  `MaxJournals` is 2.
- `atomic`: two threads, an int of 3 bits and up to 7 references, so that the
  count passes the sign bit.
- `txdriver`: one controller, two queue pairs. Address 0 is the same sector for
  both calls, address 768 is not, and is no multiple of a sector. Lengths 600 and
  1024 are one sector and a part, and two sectors, the second of which is the
  first of the area at 768.
- `lists`: two heads and three entries, so that a cut or a splice leaves entries
  on both sides, and a loop has an entry before and one after the cursor. Heads
  are interchangeable, and so are entries (`SYMMETRY`; no liveness is checked in
  this run). Nothing limits the number of operations, and no state is without a
  successor.

`CHECK_DEADLOCK FALSE` stands where the process may end: a failed
`TXD_CHK_FAIL`, `exit(1)`, or undefined behaviour.

### Fairness

- `TxdJournal`: weak fairness of each thread, as the scheduler gives it. Strong
  fairness of journald's mutex lock: with spurious wakeups the opening thread may
  take and release the mutex over and over, and a mutex whose waiter never gets
  it would be useless. journald needs it at most once.
- `TxdSpdk`, `TxDriver`, `TxdriverApi`: weak fairness of the device, which
  completes what was submitted, well or with an error, and of the thread that
  polls. No call is assumed to be made.
- `TxdMalloc`, `TxdRevoke`, `TxdAtomic`, `Lists`: none; only safety is stated.

### Where code and documentation disagree

Each of these runs checks one property, and TLC shows how the code violates it.

| Run | The code |
|---|---|
| `journal_call_returns` | `pthread_create` fails with `EAGAIN`, which is not `TXD_FAIL`; the caller waits for a thread that does not exist. |
| `spdk_init_finds_controller` | After `cleanup`, `g_controllers` is not NULL and `spdk_init` succeeds with no controller. |
| `driver_format_writes` | `tx_format` reports success and has written nothing. |
| `journal_log_as_documented` | `j_last` is documented as one beyond the last usable block: then a log of 1023 blocks passes for 1024, as with the arguments of `txd_debugging.c`. Read as the last usable block, it leaves `j_free` one short. |

Known as well, without a run of their own:

- `tx_begin` drops the result of `txd_journal_load` and returns a journal whose
  load failed, under the comment "now I can start journaling mechanism"
  (`src/txd_api.c:115`, `:123`).
- `txd_journal_reset` replaces the sequence number from the superblock by
  `j_transaction_sequence`, which nothing has written (`src/txd_journal.c:454`).
- `txd_journal_update_sb_log_tail` does nothing, and its result is ignored
  (`src/txd_journal.c:480`): the superblock on the device keeps the old tail.
- `spdk_write` and `spdk_read` return success for a command that failed. What
  the zeros of a failed read lead to is bounded by `ReadsBlockOrZeros` and
  `JournalsFromDisk`; a failed write is reported as formatted by the older
  `tx_format` (`src/txdriver_api.c:43`).
- `txd_malloc` and `txd_calloc` count what they did not allocate, and `txd_calloc`
  one element whatever their number (`src/txd_malloc.c:108`, `:114`), so the total
  that is printed is not the number of live bytes.
- `atomic_inc_and_test` decrements, although its comment says "increment"
  (`src/txd_atomic.c:80-88`). Nothing in the repository calls it.
- A `tx_begin` whose load cannot start journald hangs in
  `src/txd_journal.c:423-424`; see `journal_call_returns` and `OnlyLoadHangs`.
- In the older generation `tx_begin` always returns NULL, because the recovery
  stub fails (`src/txdriver_journal.c:233`), and loses the whole journal.
- In both generations the first `tx_begin` that returns NULL cleans up for good:
  the heads of the lists dangle, so the next cleanup is undefined.

### Mutants

The modules contain, next to the definitions they vary, mutated forms of them
(comments "Mutant of ..."). No specification uses one. Putting it in place of
the original must make TLC refute the property PROJECT.json pairs it with, so
every property is known to notice some plausible mistake in the code.

## 5. What is proved

TLC checks the runs above on small constants; the theorems hold for every value
of the constants that satisfies the assumption named in the module. They state
every invariant of the passing runs, the two action properties
`FormatStaysInArea` and `ReadsBlockOrZeros`, and the safety half of the refinement
of `JournalOpen`.

| Module | Assumes | Theorems |
|---|---|---|
| `TxdMallocProofs` | `MallocAssumption`: sizes and numbers of elements are not 0 | `AccountingExactHolds`, `MallocTypeOK` |
| `TxdRevokeProofs` | `RevokeAssumption`: table sizes are positive values of an int | `AllOrNothingHolds`, `ShiftIsLogHolds`, `NoAssertFires`, `RevokeTypeOK` |
| `TxdJournalProofs` | `JournalAssumption` | `TypeCorrect`, `OpenedWholeHolds`, `NoAssertHolds`, `MarkedUntilServedHolds`, `NoLostWakeupHolds`, `HangNeedsCreateError`, `AccountingExactHolds`, `RefinesJournalOpen` |
| `TxdAtomicProofs` | `AtomicAssumption`: finitely many threads, no more references than the int has values other than 0 | `CountIsReferencesHolds`, `LastDropToldOnceHolds`, `LockHeldByOneHolds`, `AtomicTypeOK` |
| `TxdSpdkProofs` | `SpdkAssumption`: finitely many controllers, each listing a namespace once | `ListsMatchDevicesHolds`, `ReadyQpairsLiveHolds`, `ReadsBlockOrZerosHolds`, `SpdkTypeOK` |
| `TxDriverProofs` | `DriverAssumption`: that of the device layer, and a blank block is no length | `NullCleansUpHolds`, `UndefinedOnlyWithoutDeviceHolds`, `JournalsFromDiskHolds`, `ReturnsWholeJournalHolds`, `DriverTypeOK` |
| `TxdriverApiProofs` | `ApiAssumption`: the same, and no length below one sector | `LosesWholeOrHeadHolds`, `FaultNeedsUnwrittenHolds`, `FoundIsOnDiskHolds`, `FormatStaysInAreaHolds`, `OlderTypeOK` |
| `ListsProofs` | `ListHeadAssumption`: heads and entries are finitely many, and no head is an entry | `ListsClosed`, `CarefulIsDone`, `LoopIsSafe`, `ListsTyped` |

The assumptions on constants are all there is, with one exception:
`HangNeedsCreateError`, that the opening thread never waits for a thread that does
not exist, also assumes `CreateResults \subseteq {0, TXD_FAIL}`. Without it the
theorem is false, which is what `journal_call_returns` shows.

Hardly any of these invariants is inductive. They speak of the ends of a call, of
one control point, or of one of two pieces of state that only together determine
the next step. So each module has an inductive invariant (`IInv`, in
`TxdJournal` `Inductive`), the theorem `Invariant` (`Invariance`) that it always
holds, and the properties as its consequences. The proof that a step keeps it has
one step per action of `Next`, and below it one per part the action can disturb.

**TxdMalloc.** `TypeOK`, that the heap is finite, and `AccountingExact`. An
allocation adds a summand to the sum over the heap, a release removes one. A
release claims the size in the heap, so what matters is that the sum changes by
just that amount, and that remainders may be taken before or after an addition
(`Balance`). The sum over the values of a function is defined by recursion on its
domain; the lemmas show that such a function exists, that it is the one the
community module means, and how the sum changes with a value, a new argument or
fewer of them. `TxdJournalProofs` cites them through an instance;
`TxdAtomicProofs`, which has nothing to do with memory, has its own.

All inductions over data in the proofs rest on one lemma, `NatSet`: a set of numbers
that contains 0 and the successor of each of its members contains all, which follows
from the order of the natural numbers being well founded.

**TxdRevoke.** `TypeOK` and `HeapFollowsPc`: the blocks that are live at each
control point, and that a table has all its buckets as soon as its construction is
past. `AllOrNothing` says nothing in between; the asserts hold because of the
buckets. The invariant also says that the table's shift is the one the loop counts
for its size. `ShiftIsLog` then is a fact about the loop (`HashShiftIsLog`), shown by
induction on the size: the first round leaves `n \div 2`, whose logarithm is one less.
That the powers it needs stay within the domain of `TwoTo` is where the width of an
int comes in.

**TxdJournal.** `TypeOK`, `Handshake` and `HeapFollowsPc`. `Handshake` says who
owns the mutex at which control point, that inside the loop the condition is 1
exactly as long as journald has not been in its critical section, and that
journald does not exist before `Spawn`. It also says which flags the journal has:
`TXD_ABORT` from its store to the end of the load, `TXD_LOADED` after that.
`NoLostWakeup` and `MarkedUntilServed` follow from it. `HangNeedsCreateError` needs a
second invariant (past `Spawn` the thread exists). The refinement is shown for any
result of `pthread_create`: a `Spawn` that fails unnoticed is the step `Hang` of
`JournalOpen`, and every later step of the opening thread a stutter.
`AccountingExact` has one of its own, `Books`: the counter is the sum
over the live blocks, and each block has the size its release will claim.

**TxdAtomic.** `TypeOK`, the three properties, and what bounds them: the
references are at most `MaxRefs`, and the lock word is 0 or 1. The word wraps, the
number of references does not; they agree because no two of `0 .. MaxRefs` wrap to
the same int, and 0 is reached by the last drop alone.

**TxdSpdk.** `TypeOK`, `ListsMatch`, `QpairsCounted` and `ReadInFlight`.
`ListsMatch` says that the live entries, those of this epoch, stand for the
attached controllers and their active namespaces, each once, and that after a
`cleanup` there is always a stale one left. `attach_cb` runs for each controller
found, so that a probe keeps this is shown by induction over their number.
`QpairsCounted` says that the queue pairs of a controller that the
code may use are no more than those SPDK counts for it, which is why
`ReadyQpairsLive` survives a release.

**TxDriver.** The device layer is a part of the state, so `IInv` contains that of
`TxdSpdk`, by an instance of its proofs: each call of `TxDriver` into the device
layer is a step of `TxdSpdk`, and its lemma is cited. The rest says what is true
at each control point: the process runs, a command is in flight only while
`tx_begin` polls for its own block, the queue pair that a read uses is there from
the last check on, what of a journal is held, and that a journal is opened over a
superblock of the length asked for. Lemmas named `Same...` relate the operators of
the two instances of `TxdSpdk` that meet there.

**TxdriverApi.** `DevIInv` is the same for the older generation: the device layer,
and which command is in flight, at which sector and of how many.
`FormatStaysInArea` follows from it, as a write in flight has the address of the
call, in sectors. `HeapIInv` says which blocks exist at each control point of the
older `txd_journal_init_common` and which of the three pointers have been
assigned. The error label frees through those pointers, so that it loses blocks,
or faults, is decided by this relation. The lemmas for the heap do not mention the
device, nor those for the device the heap.

**Lists.** The properties speak of the sequences a walk along the pointers meets,
and no operation can be followed through a walk: a splice changes four pointers and
the walks of two lists. So the invariant does not mention it. It says that there is a
placement (`Placement`): the set of nodes on lists, each with an owner, the head of its
list, and a position, such that `next` and `prev` are inverse to each other, keep the
owner and count the position up by one until they are back at the head. Each operation
of `list.h` changes a placement in one place: insertion shifts the positions behind
the new entry, deletion leaves a gap closed by the shift back, cut and splice move an
interval from one owner to another, and move, rotate and replace are made of these.
Walking backwards is walking forwards in the mirrored placement. Two lemmas lead back
to the sequences: the walk from a head meets exactly the nodes it owns, in the order of
their positions, and ends there (by `NatSet` on the number of steps still to go).

`IInv` is `TypeOK`, what the reader knows (`ReaderOK`), `CarefulMeansDone`, and that
some placement is `Sound`:

- the memory has that placement, except that while `list_del_init` runs its first
  store is taken back (`Settled`), which makes the neighbours' pointers inverse again;
- each of the stores of `list_del_init` finds the neighbours it remembered
  (`WriterOK`), so that after the last one the entry is a list of one;
- the loop's `todo` behind the entry it is at, beginning with `n`, is a chain in the
  direction of the loop that ends at the head (`LoopOK`), or, while the lock is let go,
  the cursor is still on the loop's list; and a removal in progress is of an entry the
  loop may lose: the one at the cursor or, while the lock is let go, any other
  (`WriterInLoop`).

`ReaderOK` is what makes the lockless test right: a removal beside the reader is of an
entry that was on a list, so its `prev` points to itself only after the last store; and
a node whose `next` the first load found to point to itself stays so. The finiteness of the sets is needed because the walk is bounded by the number
of nodes.

What is only model-checked:

- Liveness: the fair half of `Refinement`, `IoCompletes`, `OnlyLoadHangs`,
  `BeginReturns`. The
  prover has no rules for fairness.
- `ImplementsListSeq`: every operation of `Lists` as the one of its name in
  `ListSeq`. The proofs show that the sequences are those of the placements; that each
  operation on placements is the one on sequences is not proved. `ListSeq` filters
  sequences with library operators that take an operator as argument, which the
  provers cannot instantiate.
- The runs that refute a property: a counterexample is a proof already.

## 6. What is not modelled

- **Memory layout.** The journal is allocated with the size of a pointer
  (`src/txd_journal.c:113`), the DMA buffer has 64 bytes for a transfer of 512
  (`src/txd_spdk.c:295`). What the overrun does depends on the allocators.
- **Contents beyond what decides something.** A block on the device is the
  length in its superblock, or blank. Signature, block type, printing and padding
  are left out.
- **Stubs**, modelled by what they return: `txd_journal_recover`,
  `txd_journal_need_recovery`, `txd_wipe_journal_log`, `txd_journal_destroy`,
  `tx_write`, `tx_commit`, `tx_abort`.
- **Empty files** (recovery, checkpoint, commit, transactions) and the types in
  `txdriver.h` that no code uses.
- **list.h**: the `hlist` functions, which nothing in the repository calls,
  `list_is_last`, which compares one pointer, and
  the loops that do not allow removal, whose cursor just follows a pointer.
- **Several application threads.** The device layer keeps its state in globals
  without a lock and is meant for one caller; the models make one call at a time.
- **Commands for no sectors.** A length below 512 makes the older `tx_format` ask
  for zero sectors; what SPDK does then is not in the repository, and
  `ApiAssumption` excludes it.
- **Sizes in bytes of the older generation.** Its heap has blocks without sizes.
  `calloc(txd_size * LBA_UNIT)` (`src/txdriver_api.c:25`) wraps in 32 bits, from
  8 MB on, which the integers of TLC do not reach.
- **A controller that disappears.** The code registers no removal callback.
- **`TxDriver` over `TxdJournal` itself.** Past the wait, journald only unlocks
  and exits; it shares no state with the application any more, so the
  composition over `JournalOpen`, which `TxdJournal` implements with the hang
  included, loses neither safety nor liveness.

## 7. What could come next

- `ImplementsListSeq` as a theorem: first `ListSeq` with functions in place of the
  library's operators on sequences, then one lemma per operation from the lemma on
  placements that `ListsProofs` has for it to the sequences.
- The older generation's byte counts, with a heap whose blocks have sizes.
- Recovery, checkpoint and commit, as soon as the repository has code for them.

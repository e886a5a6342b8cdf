------------------------------- MODULE TxdSpdk -------------------------------
(***************************************************************************)
(* The device layer, txd_spdk.c.  The SPDK library and the devices behind  *)
(* it are external: probing finds some of the controllers that are not yet *)
(* attached, a controller has a limited number of I/O queue pairs, a       *)
(* submitted command is executed, well or with an error, and completes     *)
(* later.                                                                  *)
(*                                                                         *)
(* The two lists grow at the head.  cleanup frees every entry but leaves   *)
(* the heads g_controllers and g_namespaces as they are; an entry is freed *)
(* when its epoch is past.  A step that uses a freed entry, a NULL head or *)
(* a queue pair nobody allocated takes the process to "undefined", one     *)
(* that uses DMA memory it did not get to "no_memory"; nothing more is     *)
(* said of the process from there.                                         *)
(***************************************************************************)
EXTENDS Integers, Sequences, SequencesExt, FiniteSets

CONSTANTS
  Controller,      \* the controllers in the machine
  ActiveNs,        \* the ids of their active namespaces, in order
  MaxQpairs,       \* queue pairs a controller can give out
  Lba,             \* sector addresses
  Data,            \* what a sector may hold
  Zeros            \* the contents of a zeroed buffer

(* A machine has finitely many controllers, a controller gives each of its *)
(* namespaces an id of its own.                                            *)
ConstantsOK ==
  /\ IsFiniteSet(Controller)
  /\ ActiveNs \in [Controller -> Seq(Nat)]
  /\ \A c \in Controller : IsInjective(ActiveNs[c])
  /\ MaxQpairs \in Nat
  /\ Lba \subseteq Nat
  /\ Zeros \in Data

ASSUME SpdkAssumption == ConstantsOK

VARIABLES
  proc,            \* is the process still defined?
  ret,             \* what the last call of this layer returned
  g_controllers,   \* controller entries, head first
  g_namespaces,    \* namespace entries, head first
  epoch,           \* how often cleanup has freed entries
  attached,        \* controllers SPDK holds
  io_qpairs,       \* queue pairs in use, by controller
  ready,           \* namespace entries whose qpair is allocated
  disk,            \* sector address -> contents
  buf_user,        \* what the last read put into its caller's buffer
  io               \* the command in flight

listVars == <<g_controllers, g_namespaces, epoch>>
devVars  == <<attached, io_qpairs, ready>>
vars     == <<proc, ret, listVars, devVars, disk, buf_user, io>>

CtrlrEntry == [ctrlr : Controller, epoch : 0 .. 1]
NsEntry    == [ctrlr : Controller, ns : Nat, epoch : 0 .. 1]

NoIo == [op |-> "none"]

(* The stages of struct spdk_sequence: submitted, executed by the device   *)
(* with a status, and completed once the callback has run.                 *)
Io ==
  {NoIo} \cup
  [op : {"read", "write"}, lba : Lba, count : Nat \ {0}, buf : Data,
   stage : {"submitted", "executed"}, ok : BOOLEAN]

TypeOK ==
  /\ proc \in {"running", "exited", "no_memory", "undefined"}
  /\ ret \in {"none", "TXD_SUCCESS", "TXD_FAIL"}
  /\ g_controllers \in Seq(CtrlrEntry)
  /\ g_namespaces \in Seq(NsEntry)
  /\ epoch \in 0 .. 1
  /\ attached \subseteq Controller
  /\ io_qpairs \in [Controller -> 0 .. MaxQpairs]
  /\ ready \subseteq NsEntry
  /\ disk \in [Lba -> Data]
  /\ buf_user \in Data
  /\ io \in Io

Init ==
  /\ proc = "running"
  /\ ret = "none"
  /\ g_controllers = << >>
  /\ g_namespaces = << >>
  /\ epoch = 0
  /\ attached = {}
  /\ io_qpairs = [c \in Controller |-> 0]
  /\ ready = {}
  /\ disk \in [Lba -> Data]
  /\ buf_user = Zeros
  /\ io = NoIo

-----------------------------------------------------------------------------
Freed(e) == e.epoch < epoch

Head0(list) == IF list = << >> THEN {} ELSE {Head(list)}

Stale(list) == \E i \in DOMAIN list : Freed(list[i])

(* ns_entry = g_namespaces can be dereferenced, and its queue pair used.   *)
HeadUsable  == \E e \in Head0(g_namespaces) : ~Freed(e)
QpairUsable == HeadUsable /\ Head(g_namespaces) \in ready

Stop(how) ==
  /\ proc' = how
  /\ UNCHANGED <<ret, listVars, devVars, disk, buf_user, io>>

(* register_ns for the active namespaces of a controller, in order; each   *)
(* new entry becomes the head.                                             *)
register_ns(nss, c) ==
  Reverse([i \in DOMAIN ActiveNs[c] |->
             [ctrlr |-> c, ns |-> ActiveNs[c][i], epoch |-> epoch]]) \o nss

(* Mutant of attach_cb: the new entry does not point to the old head.      *)
AttachUnlinked(lists, c) ==
  [ctrlrs |-> << [ctrlr |-> c, epoch |-> epoch] >>,
   nss    |-> register_ns(lists.nss, c)]

attach_cb(lists, c) ==
  [ctrlrs |-> << [ctrlr |-> c, epoch |-> epoch] >> \o lists.ctrlrs,
   nss    |-> register_ns(lists.nss, c)]

(* What probing may find: controllers not yet attached, in any order.      *)
Findable ==
  LET C == Controller \ attached
  IN  UNION {Injection(1 .. n, C) : n \in 0 .. Cardinality(C)}

(* The lists after attach_cb has run for each controller found, in order.  *)
Probed(found) ==
  LET after[k \in 0 .. Len(found)] ==
        IF k = 0 THEN [ctrlrs |-> g_controllers, nss |-> g_namespaces]
        ELSE attach_cb(after[k - 1], found[k])
  IN  after[Len(found)]

(* Frees the entries of both lists and detaches the controllers.  The      *)
(* heads keep their values.                                                *)
Clean(lists, r) ==
  LET gone == {lists.ctrlrs[i].ctrlr : i \in DOMAIN lists.ctrlrs}
  IN  IF Stale(lists.ctrlrs) \/ Stale(lists.nss)
        THEN Stop("undefined")
        ELSE /\ g_controllers' = lists.ctrlrs
             /\ g_namespaces' = lists.nss
             /\ epoch' = IF lists.ctrlrs = << >> THEN epoch ELSE epoch + 1
             /\ attached' = attached \ gone
             /\ io_qpairs' = [c \in Controller |-> IF c \in gone THEN 0 ELSE io_qpairs[c]]
             /\ ready' = {e \in ready : e.ctrlr \notin gone}
             /\ ret' = r
             /\ UNCHANGED <<proc, disk, buf_user, io>>

cleanup == Clean([ctrlrs |-> g_controllers, nss |-> g_namespaces], ret)

(* spdk_init when probing attached the controllers found and reported no   *)
(* error: the test is whether g_controllers is NULL.                       *)
spdk_init_ok(found) ==
  LET lists == Probed(found)
  IN  /\ lists.ctrlrs # << >>
      /\ g_controllers' = lists.ctrlrs
      /\ g_namespaces' = lists.nss
      /\ attached' = attached \cup {found[i] : i \in DOMAIN found}
      /\ ret' = "TXD_SUCCESS"
      /\ UNCHANGED <<proc, epoch, io_qpairs, ready, disk, buf_user, io>>

(* spdk_init when probing reported an error, or found nothing while the    *)
(* list was empty: everything is cleaned up.                               *)
spdk_init_fails(found) == Clean(Probed(found), "TXD_FAIL")

(* register_ns and attach_cb exit when malloc returns NULL.                *)
spdk_init ==
  \/ \E found \in Findable : spdk_init_ok(found) \/ spdk_init_fails(found)
  \/ Controller \ attached # {} /\ Stop("exited")

(* spdk_nvme_ctrlr_alloc_io_qpair may return NULL at any time, and does    *)
(* when the controller has no queue pair left; the pointer in the entry is *)
(* overwritten either way.                                                 *)
spdk_alloc_qpair ==
  IF ~HeadUsable THEN Stop("undefined")
  ELSE LET e == Head(g_namespaces)
       IN  /\ \/ /\ io_qpairs[e.ctrlr] < MaxQpairs
                 /\ io_qpairs' = [io_qpairs EXCEPT ![e.ctrlr] = @ + 1]
                 /\ ready' = ready \cup {e}
                 /\ ret' = "TXD_SUCCESS"
              \/ /\ ready' = ready \ {e}
                 /\ ret' = "TXD_FAIL"
                 /\ UNCHANGED io_qpairs
           /\ UNCHANGED <<proc, listVars, attached, disk, buf_user, io>>

(* A call of spdk_read or spdk_write up to the loop that polls.  The       *)
(* result of spdk_dma_zmalloc is not checked; a submission that fails ends *)
(* the process.                                                            *)
Submit(op, lba, count, data) ==
  /\ io = NoIo
  /\ \/ Stop("no_memory")
     \/ ~QpairUsable /\ Stop("undefined")
     \/ QpairUsable /\ Stop("exited")
     \/ /\ QpairUsable
        /\ io' = [op |-> op, lba |-> lba, count |-> count, buf |-> data,
                  stage |-> "submitted", ok |-> TRUE]
        /\ ret' = "none"
        /\ UNCHANGED <<proc, listVars, devVars, disk, buf_user>>

spdk_write_submit(lba, count, data) == Submit("write", lba, count, data)

(* Mutant of spdk_read_submit: the buffer is not zeroed.                   *)
ReadWithoutZeroing(lba, count) == \E d \in Data : Submit("read", lba, count, d)

spdk_read_submit(lba, count) == Submit("read", lba, count, Zeros)

Sectors == {a \in Lba : io.lba <= a /\ a < io.lba + io.count}

(* The device executes a read: the caller will look at the first sector.   *)
DeviceReads ==
  /\ io.op = "read"
  /\ \E ok \in BOOLEAN :
       io' = [io EXCEPT !.stage = "executed", !.ok = ok,
                        !.buf = IF ok THEN disk[io.lba] ELSE @]
  /\ UNCHANGED disk

(* The device executes a write.  The DMA buffer is shorter than a sector:  *)
(* what goes into the sectors after the first is whatever lies behind it   *)
(* in memory.  A write that fails may have reached some of its sectors.    *)
DeviceWrites ==
  /\ io.op = "write"
  /\ \E ok \in BOOLEAN, done \in SUBSET Sectors :
       /\ ok => done = Sectors
       /\ io' = [io EXCEPT !.stage = "executed", !.ok = ok]
       /\ \E behind \in [done \ {io.lba} -> Data] :
            disk' = [a \in Lba |-> IF a \notin done THEN disk[a]
                                  ELSE IF a = io.lba THEN io.buf ELSE behind[a]]

DeviceExecutes ==
  /\ io # NoIo
  /\ io.stage = "submitted"
  /\ DeviceReads \/ DeviceWrites
  /\ UNCHANGED <<proc, ret, listVars, devVars, buf_user>>

(* Mutant of Completed: the callback takes no notice of a failed command.  *)
CompletedWhenOk(op) ==
  /\ io # NoIo
  /\ io.op = op
  /\ io.stage = "executed"
  /\ io.ok
  /\ ret' = "TXD_SUCCESS"
  /\ buf_user' = IF op = "read" THEN io.buf ELSE buf_user
  /\ io' = NoIo
  /\ UNCHANGED <<proc, listVars, devVars, disk>>

(* The poll that finds the completion runs the callback, which does not    *)
(* look at the status; the call returns TXD_SUCCESS.  A read hands over    *)
(* whatever its buffer holds.                                              *)
Completed(op) ==
  /\ io # NoIo
  /\ io.op = op
  /\ io.stage = "executed"
  /\ ret' = "TXD_SUCCESS"
  /\ buf_user' = IF op = "read" THEN io.buf ELSE buf_user
  /\ io' = NoIo
  /\ UNCHANGED <<proc, listVars, devVars, disk>>

read_complete  == Completed("read")
write_complete == Completed("write")

(* Mutant of spdk_free: the queue pair is released twice.                  *)
FreeTwice ==
  IF ~QpairUsable THEN Stop("undefined")
  ELSE LET e == Head(g_namespaces)
       IN  /\ io_qpairs' = [io_qpairs EXCEPT ![e.ctrlr] = @ - 2]
           /\ ready' = ready \ {e}
           /\ ret' = "TXD_SUCCESS"
           /\ UNCHANGED <<proc, listVars, attached, disk, buf_user, io>>

(* Mutant of spdk_free: it takes the entry at the other end of the list.   *)
FreeAtTail ==
  IF ~QpairUsable THEN Stop("undefined")
  ELSE LET e == Last(g_namespaces)
       IN  /\ io_qpairs' = [io_qpairs EXCEPT ![e.ctrlr] = @ - 1]
           /\ ready' = ready \ {e}
           /\ ret' = "TXD_SUCCESS"
           /\ UNCHANGED <<proc, listVars, attached, disk, buf_user, io>>

(* Always succeeds when its entry and queue pair are there.                *)
spdk_free ==
  IF ~QpairUsable THEN Stop("undefined")
  ELSE LET e == Head(g_namespaces)
       IN  /\ io_qpairs' = [io_qpairs EXCEPT ![e.ctrlr] = @ - 1]
           /\ ready' = ready \ {e}
           /\ ret' = "TXD_SUCCESS"
           /\ UNCHANGED <<proc, listVars, attached, disk, buf_user, io>>

-----------------------------------------------------------------------------
(* A client that makes one call at a time, for commands within the device. *)
Counts == 1 .. Cardinality(Lba)

Call ==
  /\ io = NoIo
  /\ \/ spdk_init
     \/ spdk_alloc_qpair
     \/ \E a \in Lba, n \in Counts : spdk_read_submit(a, n)
     \/ \E a \in Lba, n \in Counts, d \in Data : spdk_write_submit(a, n, d)
     \/ spdk_free
     \/ cleanup

Poll == read_complete \/ write_complete

Next == proc = "running" /\ (Call \/ DeviceExecutes \/ Poll)

(* The device executes what it was given and the client keeps polling.     *)
Spec == Init /\ [][Next]_vars /\ WF_vars(DeviceExecutes) /\ WF_vars(Poll)

-----------------------------------------------------------------------------
(* The positions of the entries that have not been freed.                  *)
Live(list) == {i \in DOMAIN list : ~Freed(list[i])}

(* Each attached controller has exactly one live entry, and exactly its    *)
(* active namespaces are listed, each once, however often spdk_init runs:  *)
(* as long as no list holds freed entries, the next cleanup detaches every *)
(* controller, and none twice.                                             *)
ListsMatchDevices ==
  LET cs == Restrict(g_controllers, Live(g_controllers))
      ns == Restrict(g_namespaces, Live(g_namespaces))
  IN  proc = "running" =>
        /\ {cs[i].ctrlr : i \in DOMAIN cs} = attached
        /\ \A i, j \in DOMAIN cs : cs[i].ctrlr = cs[j].ctrlr => i = j
        /\ {<<ns[i].ctrlr, ns[i].ns>> : i \in DOMAIN ns} =
             UNION { {c} \X Range(ActiveNs[c]) : c \in attached }
        /\ IsInjective(ns)

(* A queue pair that I/O may use belongs to an attached controller and to  *)
(* a live entry, and the controller counts it as given out.  It may count  *)
(* more: those whose pointer a later spdk_alloc_qpair has overwritten.     *)
ReadyQpairsLive ==
  proc = "running" =>
    \A c \in Controller :
      LET mine == {e \in ready : e.ctrlr = c}
      IN  /\ mine # {} => c \in attached
          /\ Cardinality(mine) <= io_qpairs[c]
          /\ mine \subseteq {g_namespaces[i] : i \in Live(g_namespaces)}

(* A read hands its caller what the block holds or, when the device        *)
(* reported an error that read_complete ignores, zeros: never what some    *)
(* other command left in memory.                                           *)
ReadsBlockOrZeros == [][read_complete => buf_user' \in {disk[io.lba], Zeros}]_vars

(* "while(!sequence.is_completed)": the loop that polls ends.              *)
IoCompletes == io # NoIo ~> io = NoIo

-----------------------------------------------------------------------------
(* "no NVMe controllers found" (line 213) is a failure: after a successful *)
(* spdk_init some controller is attached.                                  *)
InitFindsController ==
  [][spdk_init /\ ret' = "TXD_SUCCESS" => attached' # {}]_vars
=============================================================================

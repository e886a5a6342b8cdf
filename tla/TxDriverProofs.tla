---------------------------- MODULE TxDriverProofs ----------------------------
(***************************************************************************)
(* Proofs about TxDriver, for every set of controllers, addresses, lengths *)
(* and parts of a journal.  The steps of the device layer are those of     *)
(* TxdSpdkProofs.                                                          *)
(***************************************************************************)
EXTENDS TxDriver, TLAPS

DevP == INSTANCE TxdSpdkProofs WITH
          Lba <- Addr, Data <- Length \cup {Blank}, Zeros <- Blank

-----------------------------------------------------------------------------
(* The device layer the driver calls is the one those proofs are about.    *)
LEMMA SameConstants == Dev!ConstantsOK <=> DevP!ConstantsOK
  BY DEF Dev!ConstantsOK, DevP!ConstantsOK, Dev!IsInjective, DevP!IsInjective,
         Dev!IsFiniteSet, DevP!IsFiniteSet

(* The states the two copies of the layer allow are the same, ...          *)
LEMMA SameState ==
  /\ Dev!TypeOK <=> DevP!TypeOK
  /\ Dev!Init <=> DevP!Init
  /\ Dev!QpairUsable <=> DevP!QpairUsable
  /\ Dev!NoIo = DevP!NoIo
  BY DEF Dev!TypeOK, DevP!TypeOK, Dev!CtrlrEntry, DevP!CtrlrEntry, Dev!NsEntry,
         DevP!NsEntry, Dev!Io, DevP!Io, Dev!NoIo, DevP!NoIo, Dev!Init, DevP!Init,
         Dev!QpairUsable, DevP!QpairUsable, Dev!HeadUsable, DevP!HeadUsable,
         Dev!Head0, DevP!Head0, Dev!Freed, DevP!Freed

(* ... and so is each of its operations: stopping the process,             *)
LEMMA SameStop == \A how : Dev!Stop(how) <=> DevP!Stop(how)
  BY DEF Dev!Stop, DevP!Stop, Dev!listVars, DevP!listVars, Dev!devVars,
         DevP!devVars

(* freeing the entries of both lists,                                      *)
LEMMA SameClean == \A lists, r : Dev!Clean(lists, r) <=> DevP!Clean(lists, r)
  BY SameStop
  DEF Dev!Clean, DevP!Clean, Dev!Stale, DevP!Stale, Dev!Freed, DevP!Freed

(* what a probe does to the lists,                                         *)
LEMMA SameProbed == \A found : Dev!Probed(found) = DevP!Probed(found)
  BY DEF Dev!Probed, DevP!Probed, Dev!attach_cb, DevP!attach_cb,
         Dev!register_ns, DevP!register_ns, Dev!Reverse, DevP!Reverse

(* spdk_init,                                                              *)
LEMMA SameInit == Dev!spdk_init <=> DevP!spdk_init
<1>1. Dev!Findable = DevP!Findable
  BY DEF Dev!Findable, DevP!Findable, Dev!Injection, DevP!Injection,
         Dev!IsInjective, DevP!IsInjective, Dev!Cardinality, DevP!Cardinality,
         Dev!IsFiniteSet, DevP!IsFiniteSet
<1> QED
  BY <1>1, SameStop, SameClean, SameProbed
  DEF Dev!spdk_init, DevP!spdk_init, Dev!spdk_init_ok, DevP!spdk_init_ok,
      Dev!spdk_init_fails, DevP!spdk_init_fails

(* spdk_alloc_qpair,                                                       *)
LEMMA SameAlloc == Dev!spdk_alloc_qpair <=> DevP!spdk_alloc_qpair
  BY SameStop
  DEF Dev!spdk_alloc_qpair, DevP!spdk_alloc_qpair, Dev!HeadUsable,
      DevP!HeadUsable,
      Dev!Head0, DevP!Head0, Dev!Freed, DevP!Freed, Dev!listVars, DevP!listVars

(* spdk_free,                                                              *)
LEMMA SameFree == Dev!spdk_free <=> DevP!spdk_free
  BY SameStop, SameState
  DEF Dev!spdk_free, DevP!spdk_free, Dev!listVars, DevP!listVars

(* cleanup,                                                                *)
LEMMA SameCleanup == Dev!cleanup <=> DevP!cleanup
  BY SameClean DEF Dev!cleanup, DevP!cleanup

(* giving a command to the device,                                         *)
LEMMA SameSubmit ==
  \A op, lba, count, data :
    Dev!Submit(op, lba, count, data) <=> DevP!Submit(op, lba, count, data)
  BY SameStop, SameState
  DEF Dev!Submit, DevP!Submit, Dev!listVars, DevP!listVars, Dev!devVars,
      DevP!devVars

(* the device,                                                             *)
LEMMA SameDevice == Dev!DeviceExecutes <=> DevP!DeviceExecutes
  BY SameState
  DEF Dev!DeviceExecutes, DevP!DeviceExecutes, Dev!DeviceReads,
      DevP!DeviceReads,
      Dev!DeviceWrites, DevP!DeviceWrites, Dev!Sectors, DevP!Sectors,
      Dev!listVars, DevP!listVars, Dev!devVars, DevP!devVars

(* and the end of a command.                                               *)
LEMMA SameCompleted == \A op : Dev!Completed(op) <=> DevP!Completed(op)
  BY SameState
  DEF Dev!Completed, DevP!Completed, Dev!listVars, DevP!listVars, Dev!devVars,
      DevP!devVars

-----------------------------------------------------------------------------
(* The steps of the device layer, with what the driver needs of them.      *)
LEMMA DevFrame ==
  ASSUME DevP!ConstantsOK, DevP!IInv, UNCHANGED devVars
  PROVE  DevP!IInv'
<1>1. UNCHANGED DevP!vars
  BY DEF devVars, DevP!vars, DevP!listVars, DevP!devVars
<1> QED
  BY <1>1, DevP!Stutter

(* A queue pair stays usable while lists, epoch and ready do not change.   *)
LEMMA QpairFrame ==
  ASSUME UNCHANGED <<g_namespaces, epoch, ready>>, Dev!QpairUsable
  PROVE  Dev!QpairUsable'
  BY DEF Dev!QpairUsable, Dev!HeadUsable, Dev!Head0, Dev!Freed

(* spdk_init gives the device no command, and is undefined only after a    *)
(* cleanup.                                                                *)
LEMMA InitStep ==
  ASSUME DevP!ConstantsOK, DevP!IInv, Dev!spdk_init
  PROVE  /\ DevP!IInv'
         /\ UNCHANGED <<disk, buf_user, io>>
         /\ \/ UNCHANGED proc
            \/ proc' = "exited"
            \/ proc' = "undefined" /\ epoch' = 1
  BY SameInit, DevP!SpdkInitStep

(* spdk_alloc_qpair that succeeds leaves a queue pair that can be used; it *)
(* is undefined only after a cleanup or without a namespace.               *)
LEMMA AllocStep ==
  ASSUME DevP!ConstantsOK, DevP!IInv, Dev!spdk_alloc_qpair
  PROVE  /\ DevP!IInv'
         /\ UNCHANGED <<disk, buf_user, io>>
         /\ \/ proc' = "undefined" /\ (epoch' = 1 \/ g_namespaces' = << >>)
            \/ UNCHANGED proc /\ (ret' = "TXD_FAIL" \/ Dev!QpairUsable')
<1>1. /\ DevP!IInv'
      /\ UNCHANGED <<disk, buf_user, io>>
      /\ \/ DevP!Stop("undefined") /\ (epoch = 1 \/ g_namespaces = << >>)
         \/ /\ UNCHANGED <<proc, DevP!listVars, attached>>
            /\ ret' = "TXD_FAIL" \/ DevP!QpairUsable'
  BY SameAlloc, DevP!AllocStep
<1>2. DevP!QpairUsable' => Dev!QpairUsable'
  BY DEF Dev!QpairUsable, Dev!HeadUsable, Dev!Head0, Dev!Freed,
         DevP!QpairUsable, DevP!HeadUsable, DevP!Head0, DevP!Freed
<1> QED
  BY <1>1, <1>2 DEF DevP!Stop, DevP!listVars

(* spdk_read up to its polling loop: without a queue pair it is undefined, *)
(* with one the process ends or the command is in flight.                  *)
LEMMA ReadStep ==
  ASSUME DevP!ConstantsOK, DevP!IInv, NEW lba \in Addr, Dev!spdk_read_submit(lba, 1)
  PROVE  /\ DevP!IInv'
         /\ UNCHANGED <<g_controllers, g_namespaces, epoch, attached, io_qpairs,
                        ready, disk, buf_user>>
         /\ \/ proc' \in {"no_memory", "exited"} /\ UNCHANGED io
            \/ ~Dev!QpairUsable /\ proc' = "undefined" /\ UNCHANGED io
            \/ /\ Dev!QpairUsable /\ UNCHANGED proc
               /\ io' # Dev!NoIo /\ io'.op = "read" /\ io'.lba = lba
<1>1. DevP!Submit("read", lba, 1, Blank)
  BY SameSubmit DEF Dev!spdk_read_submit
<1>2. /\ DevP!IInv'
      /\ UNCHANGED <<DevP!listVars, DevP!devVars, disk, buf_user>>
      /\ \/ proc' \in {"no_memory", "exited"} /\ UNCHANGED io
         \/ ~DevP!QpairUsable /\ proc' = "undefined" /\ UNCHANGED io
         \/ /\ DevP!QpairUsable /\ UNCHANGED proc
            /\ io' = [op |-> "read", lba |-> lba, count |-> 1, buf |-> Blank,
                      stage |-> "submitted", ok |-> TRUE]
  BY <1>1, DevP!SubmitStep
<1>3. Dev!QpairUsable <=> DevP!QpairUsable
  BY SameState
<1>4. ASSUME io' = [op |-> "read", lba |-> lba, count |-> 1, buf |-> Blank,
                    stage |-> "submitted", ok |-> TRUE]
      PROVE  io' # Dev!NoIo /\ io'.op = "read" /\ io'.lba = lba
  BY <1>4 DEF Dev!NoIo
<1> QED
  BY <1>2, <1>3, <1>4 DEF DevP!listVars, DevP!devVars

(* The end of spdk_read hands over the block or, when it failed, blank.    *)
LEMMA ReadCompleteStep ==
  ASSUME DevP!ConstantsOK, DevP!IInv, Dev!read_complete
  PROVE  /\ DevP!IInv'
         /\ UNCHANGED <<proc, g_controllers, g_namespaces, epoch, attached,
                        io_qpairs, ready, disk>>
         /\ io' = Dev!NoIo
         /\ buf_user' \in {disk[io.lba], Blank}
<1>1. DevP!Completed("read")
  BY SameCompleted DEF Dev!read_complete
<1>2. /\ DevP!IInv'
      /\ UNCHANGED <<proc, DevP!listVars, DevP!devVars, disk>>
      /\ io' = DevP!NoIo
      /\ buf_user' \in {disk[io.lba], Blank}
  BY <1>1, DevP!CompletedStep
<1> QED
  BY <1>2, SameState DEF DevP!listVars, DevP!devVars

(* spdk_free is undefined only without a queue pair.                       *)
LEMMA FreeStep ==
  ASSUME DevP!ConstantsOK, DevP!IInv, Dev!spdk_free
  PROVE  /\ DevP!IInv'
         /\ UNCHANGED <<g_namespaces, epoch, disk, buf_user, io>>
         /\ \/ ~Dev!QpairUsable /\ proc' = "undefined"
            \/ UNCHANGED proc
<1>1. /\ DevP!IInv'
      /\ UNCHANGED <<DevP!listVars, attached, disk, buf_user, io>>
      /\ \/ ~DevP!QpairUsable /\ DevP!Stop("undefined")
         \/ UNCHANGED proc /\ ret' = "TXD_SUCCESS"
  BY SameFree, DevP!FreeStep
<1>2. Dev!QpairUsable <=> DevP!QpairUsable
  BY SameState
<1> QED
  BY <1>1, <1>2 DEF DevP!Stop, DevP!listVars

(* After cleanup no namespace is listed that is not freed.                 *)
LEMMA CleanupStep ==
  ASSUME DevP!ConstantsOK, DevP!IInv, Dev!cleanup
  PROVE  /\ DevP!IInv'
         /\ UNCHANGED <<disk, buf_user, io>>
         /\ \/ proc' = "undefined" /\ epoch' = 1
            \/ /\ UNCHANGED proc
               /\ attached' = {} /\ ready' = {}
               /\ \A c \in Controller : io_qpairs'[c] = 0
               /\ epoch' = 1 \/ g_namespaces' = << >>
<1>1. /\ DevP!IInv'
      /\ \/ DevP!Stop("undefined") /\ epoch = 1
         \/ /\ attached' = {} /\ ready' = {}
            /\ \A c \in Controller : io_qpairs'[c] = 0
            /\ UNCHANGED <<proc, disk, buf_user, io>>
  BY SameCleanup, DevP!CleanupStep
<1>2. ASSUME attached' = {}
      PROVE  epoch' = 1 \/ g_namespaces' = << >>
  <2>1. /\ epoch' \in 0 .. 1
        /\ g_namespaces' \in Seq(DevP!NsEntry)
        /\ \A i \in DOMAIN g_namespaces' :
             ~(g_namespaces'[i].epoch < epoch') => g_namespaces'[i].ctrlr \in attached'
    BY <1>1
    DEF DevP!IInv, DevP!TypeOK, DevP!ListsMatch, DevP!NssMatch, DevP!LiveAt
  <2>2. CASE epoch' = 0 /\ g_namespaces' # << >>
    <3>1. 1 \in DOMAIN g_namespaces' /\ g_namespaces'[1] \in DevP!NsEntry
      BY <2>1, <2>2
    <3>2. ~(g_namespaces'[1].epoch < epoch')
      BY <2>2, <3>1 DEF DevP!NsEntry
    <3> QED
      BY <1>2, <2>1, <3>1, <3>2
  <2> QED
    BY <2>1, <2>2
<1> QED
  BY <1>1, <1>2 DEF DevP!Stop, DevP!listVars

(* The device keeps the command it executes and, for a read, the disk.     *)
LEMMA DeviceStep ==
  ASSUME DevP!ConstantsOK, DevP!IInv, Dev!DeviceExecutes
  PROVE  /\ DevP!IInv'
         /\ UNCHANGED <<proc, ret, g_controllers, g_namespaces, epoch, attached,
                        io_qpairs, ready, buf_user>>
         /\ io # Dev!NoIo /\ io' # Dev!NoIo /\ io'.op = io.op
         /\ io'.lba = io.lba
         /\ io.op = "read" => UNCHANGED disk
<1>1. /\ DevP!IInv'
      /\ UNCHANGED <<proc, ret, DevP!listVars, DevP!devVars, buf_user>>
      /\ io # DevP!NoIo /\ io' # DevP!NoIo /\ io'.op = io.op
      /\ io'.lba = io.lba
      /\ io.op = "read" => UNCHANGED disk
  BY SameDevice, DevP!DeviceStep
<1> QED
  BY <1>1, SameState DEF DevP!listVars, DevP!devVars

-----------------------------------------------------------------------------
(* The process is defined while the thread runs, ...                       *)
Running == pc # "stopped" => proc = "running"

(* ... a command is in flight only while tx_begin polls for the block at   *)
(* its address, ...                                                        *)
IoOfCall ==
  /\ pc # "polling" => io = Dev!NoIo
  /\ pc = "polling" => io # Dev!NoIo /\ io.op = "read" /\ io.lba = args.addr

(* ... the queue pair of the head is there between the calls and from the  *)
(* read to the return, ...                                                 *)
Reading == {"polling", "get", "opening", "load", "return"}

QpairKept ==
  /\ pc \in Reading => Dev!QpairUsable
  /\ pc \in {"idle", "fmt_buf", "sb_alloc", "read", "out2", "out1"} =>
       Dev!QpairUsable \/ epoch = 1 \/ g_namespaces = << >>

(* ... the buffer and the parts of a journal are held only while they are  *)
(* used, ...                                                               *)
HeldWhenUsed ==
  /\ pc \in {"idle", "sb_alloc", "out1", "cleanup"} \cup FormatPCs => ~buf
  /\ pc \notin {"opening", "load", "return"} => st = "idle" /\ held = {}
  /\ pc = "opening" => st = "opening" /\ held = {}
  /\ pc = "load" => st \in {"got", "hung"} /\ held = Parts
  /\ pc = "return" => held = Parts

(* ... and a journal is opened over a superblock of its length.            *)
OpenedOnDisk ==
  pc \in {"get", "opening", "load", "return"} => disk[args.addr] = args.size

NullAtIdle == last = "NULL" => pc = "idle"

ApiTypeOK ==
  /\ st \in {"idle", "opening", "got", "loaded", "load_failed", "hung"}
  /\ held \subseteq Parts
  /\ usable \in BOOLEAN
  /\ pc \in {"idle", "aborted", "stopped"} \cup FormatPCs \cup BeginPCs
  /\ args \in [addr : Addr, size : Length]
  /\ buf \in BOOLEAN
  /\ last \in {"none", "formatted", "NULL", "journal"}
  /\ journals \in Seq(Journal)

IInv ==
  /\ DevP!IInv
  /\ ApiTypeOK
  /\ Running /\ IoOfCall /\ QpairKept /\ HeldWhenUsed /\ OpenedOnDisk
  /\ NullAtIdle
  /\ NullCleansUp /\ UndefinedOnlyWithoutDevice /\ JournalsFromDisk

(* The inductive invariant holds at the start.                             *)
LEMMA InitIInv ==
  ASSUME DriverAssumption, Init
  PROVE  IInv
<1>1. DevP!ConstantsOK
  BY SameConstants DEF DriverAssumption
<1>2. DevP!IInv
  BY <1>1, SameState, DevP!InitIInv DEF Init
<1>3. proc = "running" /\ io = Dev!NoIo /\ g_namespaces = << >>
  BY DEF Init, Dev!Init
<1>7. /\ pc = "idle" /\ last = "none" /\ journals = << >> /\ ~buf
      /\ args \in [addr : Addr, size : Length]
      /\ buf \in BOOLEAN /\ usable \in BOOLEAN
      /\ st = "idle" /\ held = {}
  BY DEF Init, Open!Init
<1>8. ApiTypeOK
  BY <1>7 DEF ApiTypeOK
<1>4. HeldWhenUsed /\ NullAtIdle /\ NullCleansUp
  BY <1>7 DEF HeldWhenUsed, NullAtIdle, NullCleansUp
<1>5. /\ Running /\ IoOfCall /\ QpairKept /\ OpenedOnDisk
      /\ UndefinedOnlyWithoutDevice
  BY <1>3 DEF Init, Running, IoOfCall, QpairKept, OpenedOnDisk,
              UndefinedOnlyWithoutDevice, Reading
<1>6. JournalsFromDisk
  BY DEF Init, JournalsFromDisk
<1> QED
  BY <1>2, <1>4, <1>5, <1>6, <1>8 DEF IInv

(* Steps of the thread that do not call the device layer.                  *)
LEMMA OwnStep ==
  ASSUME DevP!ConstantsOK, IInv, UNCHANGED devVars,
         ApiTypeOK', HeldWhenUsed', NullAtIdle',
         pc # "stopped", pc # "polling", pc' # "polling",
         pc' \in Reading => pc \in Reading,
         pc' \in {"idle", "fmt_buf", "sb_alloc", "read", "out2", "out1"} =>
           pc \in Reading \cup {"idle", "fmt_buf", "sb_alloc", "read", "out2", "out1"},
         pc' \in {"get", "opening", "load", "return"} =>
           pc \in {"get", "opening", "load", "return"} /\ UNCHANGED args,
         last' # "NULL",
         \/ UNCHANGED journals
         \/ /\ pc = "return"
            /\ journals' = Append(journals,
                 [addr |-> args.addr, size |-> args.size, usable |-> usable])
  PROVE  IInv'
<1>1. DevP!IInv'
  BY DevFrame DEF IInv
<1>2. /\ UNCHANGED <<proc, g_namespaces, epoch, ready, disk, io>>
  BY DEF devVars
<1>3. Running'
  BY <1>2 DEF IInv, Running
<1>4. IoOfCall'
  <2>1. io = Dev!NoIo
    BY DEF IInv, IoOfCall
  <2> QED
    BY <1>2, <2>1 DEF IoOfCall, Dev!NoIo
<1>5. QpairKept'
  <2>1. Dev!QpairUsable => Dev!QpairUsable'
    BY <1>2, QpairFrame
  <2> QED
    BY <1>2, <2>1 DEF IInv, QpairKept
<1>6. OpenedOnDisk'
  BY <1>2 DEF IInv, OpenedOnDisk
<1>7. NullCleansUp' /\ UndefinedOnlyWithoutDevice'
  BY <1>2 DEF IInv, NullCleansUp, UndefinedOnlyWithoutDevice
<1>8. JournalsFromDisk'
  <2>1. CASE UNCHANGED journals
    BY <1>2, <2>1 DEF IInv, JournalsFromDisk
  <2>2. CASE /\ pc = "return"
             /\ journals' = Append(journals,
                  [addr |-> args.addr, size |-> args.size, usable |-> usable])
    <3>1. disk[args.addr] = args.size
      BY <2>2 DEF IInv, OpenedOnDisk
    <3>2. journals \in Seq(Journal)
      BY DEF IInv, ApiTypeOK
    <3>3. ASSUME NEW i \in DOMAIN journals'
          PROVE  disk'[journals'[i].addr] = journals'[i].size
      <4>1. CASE i \in DOMAIN journals
        <5>1. journals'[i] = journals[i]
          BY <2>2, <3>2, <4>1
        <5> QED
          BY <1>2, <4>1, <5>1 DEF IInv, JournalsFromDisk
      <4>2. CASE i \notin DOMAIN journals
        <5>1. journals'[i] = [addr |-> args.addr, size |-> args.size, usable |-> usable]
          BY <2>2, <3>2, <3>3, <4>2
        <5> QED
          BY <1>2, <3>1, <5>1
      <4> QED
        BY <4>1, <4>2
    <3> QED
      BY <3>3 DEF JournalsFromDisk
  <2> QED
    BY <2>1, <2>2
<1> QED
  BY <1>1, <1>3, <1>4, <1>5, <1>6, <1>7, <1>8 DEF IInv

(* The calls that run without the device layer.                            *)
LEMMA CallSteps ==
  ASSUME DevP!ConstantsOK, IInv, FormatCall \/ FormatBuffer \/ BeginCall
  PROVE  IInv'
<1>0. ApiTypeOK /\ HeldWhenUsed /\ NullAtIdle
  BY DEF IInv
<1>1. CASE FormatCall
  <2>1. /\ pc = "idle" /\ pc' = "fmt_init" /\ last' = "none"
        /\ args' \in [addr : Addr, size : Length]
        /\ UNCHANGED <<devVars, st, held, usable, buf, journals>>
    BY <1>1 DEF FormatCall, openVars
  <2>2. ApiTypeOK' /\ NullAtIdle'
    BY <1>0, <2>1 DEF ApiTypeOK, NullAtIdle, FormatPCs
  <2>3. HeldWhenUsed'
    BY <1>0, <2>1 DEF HeldWhenUsed, FormatPCs
  <2> QED
    BY <2>1, <2>2, <2>3, OwnStep DEF Reading
<1>2. CASE FormatBuffer
  <2>1. /\ pc = "fmt_buf"
        /\ pc' \in {"idle", "aborted"} /\ last' \in {last, "formatted"}
        /\ UNCHANGED <<devVars, st, held, usable, args, buf, journals>>
    BY <1>2 DEF FormatBuffer, openVars
  <2>2. ApiTypeOK' /\ NullAtIdle' /\ last' # "NULL"
    BY <1>0, <2>1 DEF ApiTypeOK, NullAtIdle
  <2>3. HeldWhenUsed'
    BY <1>0, <2>1 DEF HeldWhenUsed, FormatPCs
  <2> QED
    BY <2>1, <2>2, <2>3, OwnStep DEF Reading
<1>3. CASE BeginCall
  <2>1. /\ pc = "idle" /\ pc' = "sb_alloc" /\ last' = "none"
        /\ args' \in [addr : Addr, size : Length]
        /\ UNCHANGED <<devVars, st, held, usable, buf, journals>>
    BY <1>3 DEF BeginCall, openVars
  <2>2. ApiTypeOK' /\ NullAtIdle'
    BY <1>0, <2>1 DEF ApiTypeOK, NullAtIdle, BeginPCs
  <2>3. HeldWhenUsed'
    BY <1>0, <2>1 DEF HeldWhenUsed, FormatPCs
  <2> QED
    BY <2>1, <2>2, <2>3, OwnStep DEF Reading
<1> QED
  BY <1>1, <1>2, <1>3

(* The steps of tx_begin that do not call the device layer.                *)
LEMMA JournalSteps ==
  ASSUME DevP!ConstantsOK, IInv,
         SbAlloc \/ GetJournal \/ LoadJournal \/ ReturnJournal \/ Out2
  PROVE  IInv'
<1>0. ApiTypeOK /\ HeldWhenUsed /\ NullAtIdle
  BY DEF IInv
<1>1. CASE SbAlloc
  <2>1. /\ pc = "sb_alloc" /\ buf' \in BOOLEAN
        /\ buf' => pc' = "read"
        /\ ~buf' => pc' = "out1"
        /\ UNCHANGED <<devVars, st, held, usable, args, last, journals>>
    BY <1>1 DEF SbAlloc, openVars
  <2>2. pc' \in {"read", "out1"}
    BY <2>1
  <2>3. ApiTypeOK' /\ NullAtIdle' /\ last' # "NULL"
    BY <1>0, <2>1, <2>2 DEF ApiTypeOK, NullAtIdle, BeginPCs
  <2>4. HeldWhenUsed'
    BY <1>0, <2>1, <2>2 DEF HeldWhenUsed, FormatPCs
  <2> QED
    BY <2>1, <2>2, <2>3, <2>4, OwnStep DEF Reading
<1>2. CASE GetJournal
  <2>1. /\ \/ /\ pc = "get" /\ pc' = "opening" /\ st' = "opening" /\ held' = held
           \/ /\ pc = "opening" /\ pc' = "load" /\ st' = "got" /\ held' = Parts
           \/ /\ pc = "opening" /\ pc' = "out2" /\ st' = "idle" /\ held' = held
        /\ UNCHANGED <<devVars, usable, args, buf, last, journals>>
    BY <1>2 DEF GetJournal, Open!Begin, Open!Get, Open!GiveUp
  <2>2. ApiTypeOK' /\ NullAtIdle' /\ last' # "NULL"
    BY <1>0, <2>1 DEF ApiTypeOK, NullAtIdle, BeginPCs
  <2>3. HeldWhenUsed'
    BY <1>0, <2>1 DEF HeldWhenUsed, FormatPCs
  <2> QED
    BY <2>1, <2>2, <2>3, OwnStep DEF Reading
<1>3. CASE LoadJournal
  <2>1. /\ pc = "load" /\ held' = held
        /\ \/ pc' = "return" /\ st' \in {"loaded", "load_failed"}
           \/ pc' = "load" /\ st' = "hung"
        /\ usable' \in {usable, TRUE}
        /\ UNCHANGED <<devVars, args, buf, last, journals>>
    BY <1>3 DEF LoadJournal, Open!Load, Open!LoadFails, Open!Hang
  <2>2. ApiTypeOK' /\ NullAtIdle' /\ last' # "NULL"
    BY <1>0, <2>1 DEF ApiTypeOK, NullAtIdle, BeginPCs
  <2>3. HeldWhenUsed'
    BY <1>0, <2>1 DEF HeldWhenUsed, FormatPCs
  <2> QED
    BY <2>1, <2>2, <2>3, OwnStep DEF Reading
<1>4. CASE ReturnJournal
  <2>1. /\ pc = "return" /\ pc' = "idle" /\ last' = "journal"
        /\ journals' = Append(journals,
             [addr |-> args.addr, size |-> args.size, usable |-> usable])
        /\ ~buf' /\ buf' \in BOOLEAN
        /\ st' = "idle" /\ held' = {} /\ usable' \in BOOLEAN
        /\ UNCHANGED <<devVars, args>>
    BY <1>4 DEF ReturnJournal
  <2>2. [addr |-> args.addr, size |-> args.size, usable |-> usable] \in Journal
    BY <1>0 DEF ApiTypeOK, Journal
  <2>3. journals' \in Seq(Journal)
    BY <1>0, <2>1, <2>2 DEF ApiTypeOK
  <2>4. ApiTypeOK' /\ NullAtIdle'
    BY <1>0, <2>1, <2>3 DEF ApiTypeOK, NullAtIdle
  <2>5. HeldWhenUsed'
    BY <2>1 DEF HeldWhenUsed
  <2> QED
    BY <2>1, <2>4, <2>5, OwnStep DEF Reading
<1>5. CASE Out2
  <2>1. /\ pc = "out2" /\ pc' = "out1" /\ ~buf' /\ buf' \in BOOLEAN
        /\ UNCHANGED <<devVars, st, held, usable, args, last, journals>>
    BY <1>5 DEF Out2, openVars
  <2>2. ApiTypeOK' /\ NullAtIdle' /\ last' # "NULL"
    BY <1>0, <2>1 DEF ApiTypeOK, NullAtIdle, BeginPCs
  <2>3. HeldWhenUsed'
    BY <1>0, <2>1 DEF HeldWhenUsed
  <2> QED
    BY <2>1, <2>2, <2>3, OwnStep DEF Reading
<1> QED
  BY <1>1, <1>2, <1>3, <1>4, <1>5

-----------------------------------------------------------------------------
(* The calls of the device layer.                                          *)
LEMMA FormatInitStep ==
  ASSUME DevP!ConstantsOK, IInv, FormatInit
  PROVE  IInv'
<1>1. /\ pc = "fmt_init" /\ Dev!spdk_init /\ pc' = Checked("fmt_qpair")
      /\ UNCHANGED <<st, held, usable, args, buf, last, journals>>
  BY DEF FormatInit, openVars
<1>2. /\ DevP!IInv'
      /\ UNCHANGED <<disk, buf_user, io>>
      /\ proc' = proc \/ proc' = "exited" \/ (proc' = "undefined" /\ epoch' = 1)
  BY <1>1, InitStep DEF IInv
<1>3. /\ pc' \in {"stopped", "aborted", "fmt_qpair"}
      /\ (pc' # "stopped" => proc' = "running")
  BY <1>1 DEF Checked
<1>4. proc = "running" /\ io = Dev!NoIo /\ last # "NULL"
  BY <1>1 DEF IInv, Running, IoOfCall, NullAtIdle
<1>5. ApiTypeOK' /\ NullAtIdle' /\ NullCleansUp'
  BY <1>1, <1>3, <1>4 DEF IInv, ApiTypeOK, NullAtIdle, NullCleansUp, FormatPCs
<1>6. HeldWhenUsed'
  BY <1>1, <1>3 DEF IInv, HeldWhenUsed, FormatPCs
<1>7. Running' /\ OpenedOnDisk' /\ QpairKept'
  BY <1>3 DEF Running, OpenedOnDisk, QpairKept, Reading
<1>8. IoOfCall'
  BY <1>2, <1>3, <1>4 DEF IoOfCall, Dev!NoIo
<1>9. UndefinedOnlyWithoutDevice' /\ JournalsFromDisk'
  BY <1>1, <1>2, <1>4 DEF IInv, UndefinedOnlyWithoutDevice, JournalsFromDisk
<1> QED
  BY <1>2, <1>5, <1>6, <1>7, <1>8, <1>9 DEF IInv

(* After spdk_alloc_qpair has succeeded the queue pair can be used.        *)
LEMMA FormatQpairStep ==
  ASSUME DevP!ConstantsOK, IInv, FormatQpair
  PROVE  IInv'
<1>1. /\ pc = "fmt_qpair" /\ Dev!spdk_alloc_qpair /\ pc' = Checked("fmt_buf")
      /\ UNCHANGED <<st, held, usable, args, buf, last, journals>>
  BY DEF FormatQpair, openVars
<1>2. /\ DevP!IInv'
      /\ UNCHANGED <<disk, buf_user, io>>
      /\ \/ proc' = "undefined" /\ (epoch' = 1 \/ g_namespaces' = << >>)
         \/ UNCHANGED proc /\ (ret' = "TXD_FAIL" \/ Dev!QpairUsable')
  BY <1>1, AllocStep DEF IInv
<1>3. /\ pc' \in {"stopped", "aborted", "fmt_buf"}
      /\ pc' # "stopped" => proc' = "running"
      /\ pc' = "fmt_buf" => ret' # "TXD_FAIL"
  BY <1>1 DEF Checked
<1>4. proc = "running" /\ io = Dev!NoIo /\ last # "NULL"
  BY <1>1 DEF IInv, Running, IoOfCall, NullAtIdle
<1>5. ApiTypeOK' /\ NullAtIdle' /\ NullCleansUp'
  BY <1>1, <1>3, <1>4 DEF IInv, ApiTypeOK, NullAtIdle, NullCleansUp, FormatPCs
<1>6. HeldWhenUsed'
  BY <1>1, <1>3 DEF IInv, HeldWhenUsed, FormatPCs
<1>7. Running' /\ OpenedOnDisk'
  BY <1>3 DEF Running, OpenedOnDisk
<1>10. QpairKept'
  BY <1>2, <1>3 DEF QpairKept, Reading
<1>8. IoOfCall'
  BY <1>2, <1>3, <1>4 DEF IoOfCall, Dev!NoIo
<1>9. UndefinedOnlyWithoutDevice' /\ JournalsFromDisk'
  BY <1>1, <1>2, <1>4 DEF IInv, UndefinedOnlyWithoutDevice, JournalsFromDisk
<1> QED
  BY <1>2, <1>5, <1>6, <1>7, <1>8, <1>9, <1>10 DEF IInv
(* tx_begin starts to read: its command is the one in flight then.         *)
LEMMA BeginReadStep ==
  ASSUME DevP!ConstantsOK, IInv, BeginRead
  PROVE  IInv'
<1>1. /\ pc = "read" /\ Dev!spdk_read_submit(args.addr, 1)
      /\ proc' = "running" => pc' = "polling"
      /\ proc' # "running" => pc' = "stopped"
      /\ UNCHANGED <<st, held, usable, args, buf, last, journals>>
  BY DEF BeginRead, openVars
<1>2. args.addr \in Addr
  BY DEF IInv, ApiTypeOK
<1>3. /\ DevP!IInv'
      /\ UNCHANGED <<g_controllers, g_namespaces, epoch, attached, io_qpairs,
                     ready, disk, buf_user>>
      /\ \/ proc' \in {"no_memory", "exited"} /\ UNCHANGED io
         \/ ~Dev!QpairUsable /\ proc' = "undefined" /\ UNCHANGED io
         \/ /\ Dev!QpairUsable /\ UNCHANGED proc
            /\ io' # Dev!NoIo /\ io'.op = "read" /\ io'.lba = args.addr
  BY <1>1, <1>2, ReadStep DEF IInv
<1>4. proc = "running" /\ io = Dev!NoIo /\ last # "NULL"
  BY <1>1 DEF IInv, Running, IoOfCall, NullAtIdle
<1>5. /\ Dev!QpairUsable => Dev!QpairUsable'
      /\ Dev!QpairUsable \/ epoch = 1 \/ g_namespaces = << >>
  BY <1>1, <1>3, QpairFrame DEF IInv, QpairKept
<1>6. pc' \in {"polling", "stopped"}
  BY <1>1
<1>7. ApiTypeOK' /\ NullAtIdle' /\ NullCleansUp'
  BY <1>1, <1>4, <1>6 DEF IInv, ApiTypeOK, NullAtIdle, NullCleansUp, BeginPCs
<1>8. HeldWhenUsed'
  BY <1>1, <1>6 DEF IInv, HeldWhenUsed, FormatPCs
<1>9. Running' /\ OpenedOnDisk'
  BY <1>1, <1>6 DEF Running, OpenedOnDisk
<1>10. QpairKept'
  BY <1>1, <1>3, <1>4, <1>5, <1>6 DEF QpairKept, Reading
<1>11. IoOfCall'
  BY <1>1, <1>3, <1>4, <1>6 DEF IoOfCall, Dev!NoIo
<1>12. UndefinedOnlyWithoutDevice' /\ JournalsFromDisk'
  BY <1>1, <1>3, <1>4, <1>5
  DEF IInv, UndefinedOnlyWithoutDevice, JournalsFromDisk
<1> QED
  BY <1>3, <1>7, <1>8, <1>9, <1>10, <1>11, <1>12 DEF IInv

(* A superblock is accepted only when the device holds one of the length   *)
(* asked for: the buffer of a failed read is blank.                        *)
LEMMA BeginPollStep ==
  ASSUME DriverAssumption, DevP!ConstantsOK, IInv, BeginPoll
  PROVE  IInv'
<1>1. /\ pc = "polling" /\ Dev!read_complete
      /\ buf_user' = args.size => pc' = "get"
      /\ buf_user' # args.size => pc' = "out2"
      /\ UNCHANGED <<st, held, usable, args, buf, last, journals>>
  BY DEF BeginPoll, openVars, chk_txd_sb
<1>2. /\ DevP!IInv'
      /\ UNCHANGED <<proc, g_controllers, g_namespaces, epoch, attached,
                     io_qpairs, ready, disk>>
      /\ io' = Dev!NoIo
      /\ buf_user' \in {disk[io.lba], Blank}
  BY <1>1, ReadCompleteStep DEF IInv
<1>3. proc = "running" /\ io.lba = args.addr /\ last # "NULL"
  BY <1>1 DEF IInv, Running, IoOfCall, NullAtIdle
<1>4. args.size # Blank
  BY DEF IInv, ApiTypeOK, DriverAssumption
<1>5. Dev!QpairUsable'
  BY <1>1, <1>2, QpairFrame DEF IInv, QpairKept, Reading
<1>6. pc' \in {"get", "out2"}
  BY <1>1
<1>7. ApiTypeOK' /\ NullAtIdle' /\ NullCleansUp'
  BY <1>1, <1>3, <1>6 DEF IInv, ApiTypeOK, NullAtIdle, NullCleansUp, BeginPCs
<1>8. HeldWhenUsed'
  BY <1>1, <1>6 DEF IInv, HeldWhenUsed, FormatPCs
<1>9. Running' /\ QpairKept'
  BY <1>2, <1>3, <1>5 DEF Running, QpairKept
<1>10. OpenedOnDisk'
  BY <1>1, <1>2, <1>3, <1>4, <1>6 DEF OpenedOnDisk
<1>11. IoOfCall'
  BY <1>2, <1>6 DEF IoOfCall, Dev!NoIo
<1>12. UndefinedOnlyWithoutDevice' /\ JournalsFromDisk'
  BY <1>1, <1>2, <1>3 DEF IInv, UndefinedOnlyWithoutDevice, JournalsFromDisk
<1> QED
  BY <1>2, <1>7, <1>8, <1>9, <1>10, <1>11, <1>12 DEF IInv

(* The label out1: spdk_free finds its queue pair, or there was no device. *)
LEMMA Out1Step ==
  ASSUME DevP!ConstantsOK, IInv, Out1
  PROVE  IInv'
<1>1. /\ pc = "out1" /\ Dev!spdk_free /\ pc' = Checked("cleanup")
      /\ UNCHANGED <<st, held, usable, args, buf, last, journals>>
  BY DEF Out1, openVars
<1>2. /\ DevP!IInv'
      /\ UNCHANGED <<g_namespaces, epoch, disk, buf_user, io>>
      /\ \/ ~Dev!QpairUsable /\ proc' = "undefined"
         \/ UNCHANGED proc
  BY <1>1, FreeStep DEF IInv
<1>3. /\ pc' \in {"stopped", "aborted", "cleanup"}
      /\ pc' # "stopped" => proc' = "running"
  BY <1>1 DEF Checked
<1>4. /\ proc = "running" /\ io = Dev!NoIo /\ last # "NULL"
      /\ Dev!QpairUsable \/ epoch = 1 \/ g_namespaces = << >>
  BY <1>1 DEF IInv, Running, IoOfCall, NullAtIdle, QpairKept
<1>5. ApiTypeOK' /\ NullAtIdle' /\ NullCleansUp'
  BY <1>1, <1>3, <1>4 DEF IInv, ApiTypeOK, NullAtIdle, NullCleansUp, BeginPCs
<1>6. HeldWhenUsed'
  BY <1>1, <1>3 DEF IInv, HeldWhenUsed, FormatPCs
<1>7. Running' /\ OpenedOnDisk' /\ QpairKept'
  BY <1>3 DEF Running, OpenedOnDisk, QpairKept, Reading
<1>8. IoOfCall'
  BY <1>2, <1>3, <1>4 DEF IoOfCall, Dev!NoIo
<1>9. UndefinedOnlyWithoutDevice' /\ JournalsFromDisk'
  BY <1>1, <1>2, <1>4 DEF IInv, UndefinedOnlyWithoutDevice, JournalsFromDisk
<1> QED
  BY <1>2, <1>5, <1>6, <1>7, <1>8, <1>9 DEF IInv

(* tx_begin returns NULL, after everything was cleaned up.                 *)
LEMMA ReturnNullStep ==
  ASSUME DevP!ConstantsOK, IInv, ReturnNull
  PROVE  IInv'
<1>1. /\ pc = "cleanup" /\ Dev!cleanup
      /\ proc' = "running" => pc' = "idle" /\ last' = "NULL"
      /\ proc' # "running" => pc' = "stopped" /\ last' = last
      /\ UNCHANGED <<st, held, usable, args, buf, journals>>
  BY DEF ReturnNull, openVars
<1>2. /\ DevP!IInv'
      /\ UNCHANGED <<disk, buf_user, io>>
      /\ \/ proc' = "undefined" /\ epoch' = 1
         \/ /\ UNCHANGED proc
            /\ attached' = {} /\ ready' = {}
            /\ \A c \in Controller : io_qpairs'[c] = 0
            /\ epoch' = 1 \/ g_namespaces' = << >>
  BY <1>1, CleanupStep DEF IInv
<1>3. /\ proc = "running" /\ io = Dev!NoIo /\ last # "NULL"
      /\ ~buf /\ held = {} /\ st = "idle"
  BY <1>1 DEF IInv, Running, IoOfCall, NullAtIdle, HeldWhenUsed
<1>4. pc' \in {"idle", "stopped"} /\ last' \in {last, "NULL"}
  BY <1>1
<1>5. ApiTypeOK'
  BY <1>1, <1>4 DEF IInv, ApiTypeOK
<1>6. NullAtIdle' /\ HeldWhenUsed'
  BY <1>1, <1>3, <1>4 DEF NullAtIdle, HeldWhenUsed
<1>7. NullCleansUp'
  BY <1>1, <1>2, <1>3 DEF NullCleansUp, Dev!NoIo
<1>8. Running' /\ OpenedOnDisk'
  BY <1>1, <1>4 DEF Running, OpenedOnDisk
<1>9. QpairKept'
  BY <1>1, <1>2, <1>4 DEF QpairKept, Reading
<1>10. IoOfCall'
  BY <1>2, <1>3, <1>4 DEF IoOfCall, Dev!NoIo
<1>11. UndefinedOnlyWithoutDevice' /\ JournalsFromDisk'
  BY <1>1, <1>2, <1>3 DEF IInv, UndefinedOnlyWithoutDevice, JournalsFromDisk
<1> QED
  BY <1>2, <1>5, <1>6, <1>7, <1>8, <1>9, <1>10, <1>11 DEF IInv

(* The device executes what tx_begin polls for, always a read.             *)
LEMMA DeviceTakesStep ==
  ASSUME DevP!ConstantsOK, IInv, Device
  PROVE  IInv'
<1>1. /\ Dev!DeviceExecutes
      /\ UNCHANGED <<st, held, usable, pc, args, buf, last, journals>>
  BY DEF Device, openVars, apiVars
<1>2. /\ DevP!IInv'
      /\ UNCHANGED <<proc, ret, g_controllers, g_namespaces, epoch, attached,
                     io_qpairs, ready, buf_user>>
      /\ io # Dev!NoIo /\ io' # Dev!NoIo /\ io'.op = io.op /\ io'.lba = io.lba
      /\ io.op = "read" => UNCHANGED disk
  BY <1>1, DeviceStep DEF IInv
<1>3. pc = "polling" /\ io.op = "read" /\ io.lba = args.addr
  BY <1>2 DEF IInv, IoOfCall
<1>4. disk' = disk /\ last # "NULL"
  BY <1>2, <1>3 DEF IInv, NullAtIdle
<1>5. ApiTypeOK' /\ NullAtIdle' /\ NullCleansUp'
  BY <1>1, <1>4 DEF IInv, ApiTypeOK, NullAtIdle, NullCleansUp
<1>6. HeldWhenUsed'
  BY <1>1 DEF IInv, HeldWhenUsed
<1>7. Running' /\ OpenedOnDisk'
  BY <1>1, <1>2, <1>4 DEF IInv, Running, OpenedOnDisk
<1>8. IoOfCall'
  BY <1>1, <1>2, <1>3 DEF IoOfCall, Dev!NoIo
<1>9. QpairKept'
  <2>1. Dev!QpairUsable'
    BY <1>2, <1>3, QpairFrame DEF IInv, QpairKept, Reading
  <2> QED
    BY <2>1 DEF QpairKept
<1>10. UndefinedOnlyWithoutDevice' /\ JournalsFromDisk'
  BY <1>1, <1>2, <1>4 DEF IInv, UndefinedOnlyWithoutDevice, JournalsFromDisk
<1> QED
  BY <1>2, <1>5, <1>6, <1>7, <1>8, <1>9, <1>10 DEF IInv

(* A step of nobody, and the calls that do nothing.                        *)
LEMMA StutterStep ==
  ASSUME DevP!ConstantsOK, IInv, UNCHANGED vars
  PROVE  IInv'
<1>1. UNCHANGED <<proc, ret, g_controllers, g_namespaces, epoch, attached,
                  io_qpairs, ready, disk, buf_user, io, st, held, usable,
                  pc, args, buf, last, journals>>
  BY DEF vars, devVars, openVars, apiVars
<1>2. DevP!IInv'
  BY <1>1, DevFrame DEF IInv, devVars
<1>3. ApiTypeOK' /\ NullAtIdle' /\ NullCleansUp'
  BY <1>1 DEF IInv, ApiTypeOK, NullAtIdle, NullCleansUp, Dev!NoIo
<1>4. HeldWhenUsed' /\ Running' /\ OpenedOnDisk' /\ IoOfCall'
  BY <1>1 DEF IInv, HeldWhenUsed, Running, OpenedOnDisk, IoOfCall, Dev!NoIo
<1>5. QpairKept'
  <2>1. Dev!QpairUsable => Dev!QpairUsable'
    BY <1>1, QpairFrame
  <2> QED
    BY <1>1, <2>1 DEF IInv, QpairKept
<1>6. UndefinedOnlyWithoutDevice' /\ JournalsFromDisk'
  BY <1>1 DEF IInv, UndefinedOnlyWithoutDevice, JournalsFromDisk
<1> QED
  BY <1>2, <1>3, <1>4, <1>5, <1>6 DEF IInv

-----------------------------------------------------------------------------
(* Every reachable state satisfies the inductive invariant.                *)
THEOREM Invariant == Spec => []IInv
<1>0. DevP!ConstantsOK
  BY DriverAssumption, SameConstants DEF DriverAssumption
<1>1. Init => IInv
  BY DriverAssumption, InitIInv
<1>2. IInv /\ [Next]_vars => IInv'
  <2> SUFFICES ASSUME IInv, [Next]_vars
               PROVE  IInv'
    OBVIOUS
  <2>1. CASE tx_format
    BY <1>0, <2>1, CallSteps, FormatInitStep, FormatQpairStep DEF tx_format
  <2>2. CASE BeginCall
    BY <1>0, <2>2, CallSteps
  <2>3. CASE BeginStep
    BY <1>0, <2>3, DriverAssumption, JournalSteps, BeginReadStep,
       BeginPollStep,
       Out1Step, ReturnNullStep DEF BeginStep
  <2>4. CASE tx_stub
    BY <1>0, <2>4, StutterStep DEF tx_stub
  <2>5. CASE Device
    BY <1>0, <2>5, DeviceTakesStep
  <2>6. CASE UNCHANGED vars
    BY <1>0, <2>6, StutterStep
  <2> QED
    BY <2>1, <2>2, <2>3, <2>4, <2>5, <2>6 DEF Next, tx_begin
<1> QED
  BY <1>1, <1>2, PTL DEF Spec

(* Type correctness of the API and the layers it is built on (txd_api.c).  *)
THEOREM DriverTypeOK == Spec => []TypeOK
<1>1. IInv => TypeOK
  BY SameState DEF IInv, DevP!IInv, TypeOK, ApiTypeOK
<1> QED
  BY <1>1, Invariant, PTL

(* A tx_begin that returns NULL has given everything back (txd_api.c, the  *)
(* labels out2 and out1, and cleanup).                                     *)
THEOREM NullCleansUpHolds == Spec => []NullCleansUp
<1>1. IInv => NullCleansUp
  BY DEF IInv
<1> QED
  BY <1>1, Invariant, PTL

(* No order of calls uses an entry or a queue pair that is not there, as   *)
(* long as nothing was cleaned up and there is a namespace.                *)
THEOREM UndefinedOnlyWithoutDeviceHolds == Spec => []UndefinedOnlyWithoutDevice
<1>1. IInv => UndefinedOnlyWithoutDevice
  BY DEF IInv
<1> QED
  BY <1>1, Invariant, PTL

(* A journal is handed out only for an area whose superblock on the device *)
(* has the length asked for (chk_txd_sb), whichever reads fail.            *)
THEOREM JournalsFromDiskHolds == Spec => []JournalsFromDisk
<1>1. IInv => JournalsFromDisk
  BY DEF IInv
<1> QED
  BY <1>1, Invariant, PTL

(* tx_begin returns a complete journal and a queue pair it can use.        *)
THEOREM ReturnsWholeJournalHolds == Spec => []ReturnsWholeJournal
<1>1. IInv => ReturnsWholeJournal
  BY DEF IInv, HeldWhenUsed, QpairKept, Reading, ReturnsWholeJournal
<1> QED
  BY <1>1, Invariant, PTL
=============================================================================

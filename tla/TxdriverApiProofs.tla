--------------------------- MODULE TxdriverApiProofs ---------------------------
(***************************************************************************)
(* Proofs about TxdriverApi, the older generation, for every set of        *)
(* controllers, addresses and lengths.  The steps of the device layer are  *)
(* those of TxdSpdkProofs; the opening of a journal, TxdriverJournal, is   *)
(* part of what is proved here.                                            *)
(***************************************************************************)
EXTENDS TxdriverApi, TLAPS

DevP == INSTANCE TxdSpdkProofs WITH
          Lba <- Addr \cup Sector, Data <- Length \cup {Blank}, Zeros <- Blank

-----------------------------------------------------------------------------
(* The device layer the driver calls is the one those proofs are about.    *)
LEMMA SameConstants == Dev!ConstantsOK <=> DevP!ConstantsOK
  BY DEF Dev!ConstantsOK, DevP!ConstantsOK, Dev!IsInjective, DevP!IsInjective,
         Dev!IsFiniteSet, DevP!IsFiniteSet

(* The states the two copies of the layer allow are the same, ...          *)
LEMMA SameState ==
  /\ Dev!TypeOK <=> DevP!TypeOK
  /\ Dev!Init <=> DevP!Init
  /\ Dev!QpairUsable <=> DevP!QpairUsable
  /\ Dev!NoIo = DevP!NoIo
  BY DEF Dev!TypeOK, DevP!TypeOK, Dev!CtrlrEntry, DevP!CtrlrEntry, Dev!NsEntry,
         DevP!NsEntry, Dev!Io, DevP!Io, Dev!NoIo, DevP!NoIo, Dev!Init, DevP!Init,
         Dev!QpairUsable, DevP!QpairUsable, Dev!HeadUsable, DevP!HeadUsable,
         Dev!Head0, DevP!Head0, Dev!Freed, DevP!Freed

(* ... and so is each of its operations: stopping the process,             *)
LEMMA SameStop == \A how : Dev!Stop(how) <=> DevP!Stop(how)
  BY DEF Dev!Stop, DevP!Stop, Dev!listVars, DevP!listVars, Dev!devVars,
         DevP!devVars

(* freeing the entries of both lists,                                      *)
LEMMA SameClean == \A lists, r : Dev!Clean(lists, r) <=> DevP!Clean(lists, r)
  BY SameStop
  DEF Dev!Clean, DevP!Clean, Dev!Stale, DevP!Stale, Dev!Freed, DevP!Freed

(* what a probe does to the lists,                                         *)
LEMMA SameProbed == \A found : Dev!Probed(found) = DevP!Probed(found)
  BY DEF Dev!Probed, DevP!Probed, Dev!attach_cb, DevP!attach_cb,
         Dev!register_ns, DevP!register_ns, Dev!Reverse, DevP!Reverse

(* spdk_init,                                                              *)
LEMMA SameInit == Dev!spdk_init <=> DevP!spdk_init
<1>1. Dev!Findable = DevP!Findable
  BY DEF Dev!Findable, DevP!Findable, Dev!Injection, DevP!Injection,
         Dev!IsInjective, DevP!IsInjective, Dev!Cardinality, DevP!Cardinality,
         Dev!IsFiniteSet, DevP!IsFiniteSet
<1> QED
  BY <1>1, SameStop, SameClean, SameProbed
  DEF Dev!spdk_init, DevP!spdk_init, Dev!spdk_init_ok, DevP!spdk_init_ok,
      Dev!spdk_init_fails, DevP!spdk_init_fails

(* spdk_alloc_qpair,                                                       *)
LEMMA SameAlloc == Dev!spdk_alloc_qpair <=> DevP!spdk_alloc_qpair
  BY SameStop
  DEF Dev!spdk_alloc_qpair, DevP!spdk_alloc_qpair, Dev!HeadUsable,
      DevP!HeadUsable,
      Dev!Head0, DevP!Head0, Dev!Freed, DevP!Freed, Dev!listVars, DevP!listVars

(* spdk_free,                                                              *)
LEMMA SameFree == Dev!spdk_free <=> DevP!spdk_free
  BY SameStop, SameState
  DEF Dev!spdk_free, DevP!spdk_free, Dev!listVars, DevP!listVars

(* cleanup,                                                                *)
LEMMA SameCleanup == Dev!cleanup <=> DevP!cleanup
  BY SameClean DEF Dev!cleanup, DevP!cleanup

(* giving a command to the device,                                         *)
LEMMA SameSubmit ==
  \A op, lba, count, data :
    Dev!Submit(op, lba, count, data) <=> DevP!Submit(op, lba, count, data)
  BY SameStop, SameState
  DEF Dev!Submit, DevP!Submit, Dev!listVars, DevP!listVars, Dev!devVars,
      DevP!devVars

(* the device,                                                             *)
LEMMA SameDevice == Dev!DeviceExecutes <=> DevP!DeviceExecutes
  BY SameState
  DEF Dev!DeviceExecutes, DevP!DeviceExecutes, Dev!DeviceReads,
      DevP!DeviceReads,
      Dev!DeviceWrites, DevP!DeviceWrites, Dev!Sectors, DevP!Sectors,
      Dev!listVars, DevP!listVars, Dev!devVars, DevP!devVars

(* and the end of a command.                                               *)
LEMMA SameCompleted == \A op : Dev!Completed(op) <=> DevP!Completed(op)
  BY SameState
  DEF Dev!Completed, DevP!Completed, Dev!listVars, DevP!listVars, Dev!devVars,
      DevP!devVars

-----------------------------------------------------------------------------
(* What a call needs of the steps of the device layer.                     *)
LEMMA DevFrame ==
  ASSUME DevP!ConstantsOK, DevP!IInv, UNCHANGED devVars
  PROVE  DevP!IInv' /\ UNCHANGED <<proc, disk, io>>
<1>1. UNCHANGED DevP!vars
  BY DEF devVars, DevP!vars, DevP!listVars, DevP!devVars
<1> QED
  BY <1>1, DevP!Stutter DEF devVars

(* The calls that give no command leave the disk and the command alone.    *)
LEMMA QuietStep ==
  ASSUME DevP!ConstantsOK, DevP!IInv,
         spdk_init \/ spdk_alloc_qpair \/ spdk_free \/ cleanup
  PROVE  DevP!IInv' /\ UNCHANGED <<disk, io>>
<1>1. CASE spdk_init
  BY <1>1, SameInit, DevP!SpdkInitStep DEF spdk_init
<1>2. CASE spdk_alloc_qpair
  BY <1>2, SameAlloc, DevP!AllocStep DEF spdk_alloc_qpair
<1>3. CASE spdk_free
  BY <1>3, SameFree, DevP!FreeStep DEF spdk_free
<1>4. CASE cleanup
  BY <1>4, SameCleanup, DevP!CleanupStep DEF cleanup, DevP!Stop
<1> QED
  BY <1>1, <1>2, <1>3, <1>4

(* A command given to the device is in flight, or the process has ended.   *)
LEMMA SubmitStep ==
  ASSUME DevP!ConstantsOK, DevP!IInv, proc = "running",
         NEW op \in {"read", "write"}, NEW lba \in Addr \cup Sector,
         NEW count \in Nat \ {0}, NEW data \in Length \cup {Blank},
         op = "read" => data = Blank,
         Dev!Submit(op, lba, count, data)
  PROVE  /\ DevP!IInv' /\ UNCHANGED disk
         /\ \/ proc' # "running" /\ UNCHANGED io
            \/ /\ proc' = "running" /\ io' # Dev!NoIo
               /\ io'.op = op /\ io'.lba = lba /\ io'.count = count
<1>1. DevP!Submit(op, lba, count, data)
  BY SameSubmit
<1>2. /\ DevP!IInv'
      /\ UNCHANGED <<DevP!listVars, DevP!devVars, disk, buf_user>>
      /\ \/ proc' \in {"no_memory", "exited"} /\ UNCHANGED io
         \/ ~DevP!QpairUsable /\ proc' = "undefined" /\ UNCHANGED io
         \/ /\ DevP!QpairUsable /\ UNCHANGED proc
            /\ io' = [op |-> op, lba |-> lba, count |-> count, buf |-> data,
                      stage |-> "submitted", ok |-> TRUE]
  BY <1>1, DevP!SubmitStep
<1>3. ASSUME io' = [op |-> op, lba |-> lba, count |-> count, buf |-> data,
                    stage |-> "submitted", ok |-> TRUE]
      PROVE  /\ io' # Dev!NoIo /\ io'.op = op /\ io'.lba = lba
             /\ io'.count = count
  BY <1>3 DEF Dev!NoIo
<1> QED
  BY <1>2, <1>3

(* The end of a command; a read hands over the block or blank.             *)
LEMMA CompleteStep ==
  ASSUME DevP!ConstantsOK, DevP!IInv, NEW op, Dev!Completed(op)
  PROVE  /\ DevP!IInv' /\ UNCHANGED <<proc, disk>>
         /\ io' = Dev!NoIo
         /\ op = "read" => buf_user' \in {disk[io.lba], Blank}
<1>1. DevP!Completed(op)
  BY SameCompleted
<1> QED
  BY <1>1, DevP!CompletedStep, SameState

(* A process that ends leaves the device as it is.                         *)
LEMMA StopStep ==
  ASSUME DevP!ConstantsOK, DevP!IInv, Dev!Stop("no_memory")
  PROVE  DevP!IInv' /\ UNCHANGED <<disk, io>>
<1>1. DevP!Stop("no_memory")
  BY SameStop
<1> QED
  BY <1>1, DevP!StopStep DEF DevP!Stop

(* The device writes into the sectors it was told, and only on a write.    *)
LEMMA DeviceStep ==
  ASSUME DevP!ConstantsOK, DevP!IInv, Dev!DeviceExecutes
  PROVE  /\ DevP!IInv' /\ UNCHANGED proc
         /\ io # Dev!NoIo /\ io.stage = "submitted" /\ io' # Dev!NoIo
         /\ io'.op = io.op /\ io'.lba = io.lba /\ io'.count = io.count
         /\ io.op = "read" => UNCHANGED disk
         /\ \A s \in DOMAIN disk :
              disk'[s] # disk[s] => io.lba <= s /\ s < io.lba + io.count
<1>1. /\ DevP!IInv' /\ UNCHANGED proc
      /\ io # DevP!NoIo /\ io.stage = "submitted" /\ io' # DevP!NoIo
      /\ io'.op = io.op /\ io'.lba = io.lba /\ io'.count = io.count
      /\ io.op = "read" => UNCHANGED disk
      /\ \A s \in DOMAIN disk : disk'[s] # disk[s] => s \in DevP!Sectors
  BY SameDevice, DevP!DeviceStep
<1>2. \A s \in DevP!Sectors : io.lba <= s /\ s < io.lba + io.count
  BY DEF DevP!Sectors
<1> QED
  BY <1>1, <1>2, SameState

-----------------------------------------------------------------------------
(* The sectors a format asks for start in the sector of the address, are   *)
(* in the range of the device layer, and end before the area does.         *)
LEMMA FormatArea ==
  ASSUME ApiAssumption, NEW a \in Addr, NEW n \in Length
  PROVE  /\ a \div LBA_UNIT \in Sector
         /\ n \div LBA_UNIT \in Nat \ {0}
         /\ \A s \in Nat : a \div LBA_UNIT <= s /\ s < a \div LBA_UNIT + n \div LBA_UNIT =>
              s * LBA_UNIT < a + n /\ (s + 1) * LBA_UNIT > a
<1>1. a \in Nat /\ n \in Nat /\ n \div LBA_UNIT >= 1
  BY DEF ApiAssumption
<1>2. a \div LBA_UNIT \in Nat /\ n \div LBA_UNIT \in Nat
  BY <1>1 DEF LBA_UNIT
<1>3. a \div LBA_UNIT \in (a \div LBA_UNIT) .. (a \div LBA_UNIT) + (n \div LBA_UNIT) - 1
  BY <1>1, <1>2
<1>4. a \div LBA_UNIT \in Sector
  <2> DEFINE area(x, m) ==
               (x \div LBA_UNIT) .. (x \div LBA_UNIT) + (m \div LBA_UNIT) - 1
  <2>1. Sector = UNION {area(x, m) : x \in Addr, m \in Length}
    BY DEF Sector
  <2>2. a \div LBA_UNIT \in area(a, n)
    BY <1>3
  <2> HIDE DEF area
  <2>3. area(a, n) \in {area(x, m) : x \in Addr, m \in Length}
    OBVIOUS
  <2> QED
    BY <2>1, <2>2, <2>3
<1>5. ASSUME NEW s \in Nat, a \div LBA_UNIT <= s, s < a \div LBA_UNIT + n \div LBA_UNIT
      PROVE  s * LBA_UNIT < a + n /\ (s + 1) * LBA_UNIT > a
  BY <1>1, <1>2, <1>5 DEF LBA_UNIT
<1> QED
  BY <1>1, <1>2, <1>4, <1>5

-----------------------------------------------------------------------------
(* The inductive invariant.  Of the device layer: it is defined while the  *)
(* thread runs, a command is in flight only while its call polls for it,   *)
(* and it is the one its call asked for.                                   *)
Running == pc # "stopped" => proc = "running"

IoOfCall ==
  /\ pc \notin {"polling", "fmt_polling", "stopped"} => io = Dev!NoIo
  /\ pc = "stopped" => io = Dev!NoIo \/ io.stage # "submitted"
  /\ pc = "polling" => io.op = "read" /\ io.lba = args.addr
  /\ pc = "fmt_polling" =>
       /\ io.op = "write" /\ io.lba = args.addr \div LBA_UNIT
       /\ io.count = args.size \div LBA_UNIT

ArgsOK == args \in [addr : Addr, size : Length]

DevIInv == DevP!IInv /\ ArgsOK /\ Running /\ IoOfCall /\ FoundIsOnDisk

(* Of the heap: which blocks a call holds, and which members of the        *)
(* journal point to them, at each point of its way.                        *)
Ours == {m \in Members : member[m] = "ours"}

Base  == {"sb", "journal", "bh"}
Table0 == {"table0", "hash0"}
Whole == {"journal", "bh", "table0", "hash0", "table1", "hash1", "wbuf"}

HeapOfCall ==
  /\ pc \in {"idle", "fmt_init", "fmt_qpair", "fmt_buf", "sb"} => heap = {}
  /\ pc \in {"fmt_write", "fmt_polling"} => heap = {"format"}
  /\ pc = "polling" => heap \in {{}, {"sb"}}
  /\ pc = "journal" => heap = {"sb"}
  /\ pc = "failed" => heap \in {{"sb"}, {"sb", "bh"}}
  /\ pc = "got" => heap = Whole \cup {"sb"}
  /\ pc \in {"free", "cleanup"} => heap \in {{"sb"}, {"sb", "bh"}, Whole \cup {"sb"}}

HeapOfOpening ==
  /\ pc = "bh"     => heap = {"sb", "journal"} /\ Ours = {}
  /\ pc = "table0" => heap = Base /\ Ours = {}
  /\ pc = "hash0"  => heap = Base \cup {"table0"} /\ Ours = {}
  /\ pc = "table1" => heap = Base \cup Table0 /\ Ours = {"table0"}
  /\ pc = "hash1"  => heap = Base \cup Table0 \cup {"table1"} /\ Ours = {"table0"}
  /\ pc = "fail1"  => heap = Base \cup Table0 /\ Ours = {"table0"}
  /\ pc = "wbuf"   => heap = Base \cup Table0 \cup {"table1", "hash1"} /\ Ours = Tables
  /\ pc = "out" =>
       \/ heap \in {{"sb", "journal"}, Base} /\ Ours = {}
       \/ heap = Base \cup Table0 \cup {"table1", "hash1"} /\ Ours = Tables

ApiTypeOK ==
  /\ OpenTypeOK
  /\ pc \in {"idle", "aborted", "stopped"} \cup OpenPCs \cup FormatPCs \cup BeginPCs
  /\ lost \in [Blocks -> Nat]

HeapIInv ==
  /\ ApiTypeOK /\ HeapOfCall /\ HeapOfOpening
  /\ FaultNeedsUnwritten /\ LosesWholeOrHead

IInv == DevIInv /\ HeapIInv

(* The blocks, members and control points of the opening, in full.         *)
LEMMA BlocksAre ==
  /\ OpenBlocks = Whole
  /\ Blocks = Whole \cup {"sb", "format"}
  /\ OpenPCs = Whole \cup {"fail1", "out", "got", "failed", "asserted", "fault"}
  /\ Owned("table0") = Table0 /\ Owned("table1") = {"table1", "hash1"}
  /\ Owned("wbuf") = {"wbuf"}
  /\ Members = {"table0", "table1", "wbuf"}
<1>1. /\ Owned("table0") = Table0 /\ Owned("table1") = {"table1", "hash1"}
      /\ Owned("wbuf") = {"wbuf"}
  BY DEF Owned, Table0
<1>2. Members = {"table0", "table1", "wbuf"}
  BY DEF Members, Tables
<1>3. \A x : (\E m \in Members : x \in Owned(m)) <=> x \in Whole \ {"journal", "bh"}
  BY <1>1, <1>2 DEF Whole, Table0
<1>4. OpenBlocks = Whole
  <2>1. \A x : x \in UNION {Owned(m) : m \in Members} <=> \E m \in Members : x \in Owned(m)
    OBVIOUS
  <2>2. \A x : x \in OpenBlocks <=> x \in Whole
    BY <1>3, <2>1 DEF OpenBlocks, Whole
  <2> QED
    BY <2>2
<1> QED
  BY <1>1, <1>2, <1>4 DEF Blocks, OpenPCs

(* The inductive invariant holds at the start.                             *)
LEMMA InitIInv ==
  ASSUME ApiAssumption, Init
  PROVE  IInv
<1>1. DevP!ConstantsOK
  BY SameConstants DEF ApiAssumption
<1>2. DevP!IInv
  BY <1>1, SameState, DevP!InitIInv DEF Init
<1>3. proc = "running" /\ io = Dev!NoIo
  BY DEF Init, Dev!Init
<1>4. DevIInv
  BY <1>2, <1>3, BlocksAre
  DEF Init, DevIInv, ArgsOK, Running, IoOfCall, FoundIsOnDisk, Whole
<1>5. pc = "idle" /\ heap = {} /\ \A b \in Blocks : lost[b] = 0
  BY DEF Init
<1>6. ApiTypeOK
  BY <1>5 DEF Init, ApiTypeOK, OpenTypeOK, NoJournal
<1>7. LosesWholeOrHead
  BY <1>5, BlocksAre DEF LosesWholeOrHead, Whole
<1>8. HeapOfCall /\ HeapOfOpening /\ FaultNeedsUnwritten
  BY <1>5 DEF HeapOfCall, HeapOfOpening, FaultNeedsUnwritten
<1> QED
  BY <1>4, <1>6, <1>7, <1>8 DEF IInv, HeapIInv

-----------------------------------------------------------------------------
(* The heap.  First the steps that leave it alone: each goes to a point    *)
(* where a call may hold what it held.                                     *)
LEMMA KeepsHeap ==
  ASSUME HeapIInv, UNCHANGED <<heap, member, lost>>,
         \/ pc = "idle" /\ pc' \in {"fmt_init", "sb"}
         \/ pc = "fmt_init" /\ pc' \in {"fmt_qpair", "aborted", "stopped"}
         \/ pc = "fmt_qpair" /\ pc' \in {"fmt_buf", "aborted", "stopped"}
         \/ pc = "fmt_buf" /\ pc' = "aborted"
         \/ pc = "fmt_write" /\ pc' \in {"fmt_polling", "stopped"}
         \/ pc = "polling" /\ "sb" \in heap /\ pc' \in {"journal", "free"}
         \/ pc = "polling" /\ pc' = "stopped"
         \/ pc \in {"got", "failed"} /\ pc' = "free"
         \/ pc = "free" /\ pc' \in {"cleanup", "aborted", "stopped"}
         \/ pc = "cleanup" /\ pc' = "stopped"
         \/ UNCHANGED pc
  PROVE  HeapIInv'
<1>0. /\ ApiTypeOK /\ HeapOfCall /\ HeapOfOpening /\ FaultNeedsUnwritten
      /\ LosesWholeOrHead
  BY DEF HeapIInv
<1>1. ApiTypeOK'
  <2>1. pc' \in {"idle", "aborted", "stopped"} \cup OpenPCs \cup FormatPCs \cup BeginPCs
    BY <1>0, BlocksAre DEF ApiTypeOK, FormatPCs, BeginPCs, Whole
  <2> QED
    BY <1>0, <2>1 DEF ApiTypeOK, OpenTypeOK
<1>2. HeapOfCall'
  BY <1>0 DEF HeapOfCall
<1>3. HeapOfOpening'
  BY <1>0 DEF HeapOfOpening, Ours
<1>4. FaultNeedsUnwritten' /\ LosesWholeOrHead'
  BY <1>0 DEF FaultNeedsUnwritten, LosesWholeOrHead, Wild
<1> QED
  BY <1>1, <1>2, <1>3, <1>4 DEF HeapIInv

(* The allocations of tx_format and tx_begin themselves.                   *)
LEMMA OwnBuffers ==
  ASSUME HeapIInv, UNCHANGED <<member, lost>>,
         \/ pc = "fmt_buf" /\ heap' = heap \cup {"format"} /\ pc' = "fmt_write"
         \/ pc = "sb" /\ heap' \in {heap, heap \cup {"sb"}} /\ pc' \in {"polling", "stopped"}
  PROVE  HeapIInv'
<1>0. ApiTypeOK /\ HeapOfCall /\ LosesWholeOrHead
  BY DEF HeapIInv
<1>1. ApiTypeOK'
  BY <1>0 DEF ApiTypeOK, OpenTypeOK, FormatPCs, BeginPCs
<1>2. HeapOfCall'
  BY <1>0 DEF HeapOfCall
<1>3. HeapOfOpening' /\ FaultNeedsUnwritten'
  BY DEF HeapOfOpening, FaultNeedsUnwritten
<1>4. LosesWholeOrHead'
  BY <1>0 DEF LosesWholeOrHead
<1> QED
  BY <1>1, <1>2, <1>3, <1>4 DEF HeapIInv

(* A call returns: what it holds is lost, and it holds one of three things.*)
LEMMA ReturnLoses ==
  ASSUME HeapIInv, Return, pc \in {"fmt_polling", "cleanup"}
  PROVE  HeapIInv'
<1>0. ApiTypeOK /\ HeapOfCall /\ LosesWholeOrHead
  BY DEF HeapIInv
<1>1. /\ pc' = "idle" /\ heap' = {} /\ member' = NoJournal
      /\ lost' = [b \in Blocks |-> IF b \in heap THEN lost[b] + 1 ELSE lost[b]]
  BY DEF Return
<1>2. heap \in {{"format"}, {"sb"}, {"sb", "bh"}, Whole \cup {"sb"}}
  BY <1>0 DEF HeapOfCall
<1>3. \A b \in Blocks : lost[b] \in Nat
  BY <1>0 DEF ApiTypeOK
<1>4. lost' \in [Blocks -> Nat]
  BY <1>1, <1>3
<1>5. ApiTypeOK'
  BY <1>1, <1>4 DEF ApiTypeOK, OpenTypeOK, NoJournal
<1>6. HeapOfCall' /\ HeapOfOpening' /\ FaultNeedsUnwritten'
  BY <1>1 DEF HeapOfCall, HeapOfOpening, FaultNeedsUnwritten
<1>7. LosesWholeOrHead'
  <2>1. \A b \in Whole \cup {"sb"} : b \in Blocks /\ lost[b] \in Nat
    BY <1>3, BlocksAre
  <2>2. /\ \A b \in Whole \ {"bh"} : lost[b] = lost["journal"]
        /\ lost["journal"] <= lost["bh"] /\ lost["bh"] <= lost["sb"]
    BY <1>0, BlocksAre DEF LosesWholeOrHead
  <2>3. \A b \in Whole \cup {"sb"} : lost'[b] = IF b \in heap THEN lost[b] + 1 ELSE lost[b]
    BY <1>1, <2>1
  <2>4. \A b \in Whole \ {"bh"} : b \in heap <=> "journal" \in heap
    BY <1>2 DEF Whole
  <2>5. \A b \in Whole \ {"bh"} : lost'[b] = lost'["journal"]
    BY <2>2, <2>3, <2>4 DEF Whole
  <2>6. /\ ("journal" \in heap => "bh" \in heap)
        /\ ("bh" \in heap => "sb" \in heap)
    BY <1>2 DEF Whole
  <2>7. lost'["journal"] <= lost'["bh"] /\ lost'["bh"] <= lost'["sb"]
    BY <2>1, <2>2, <2>3, <2>6 DEF Whole
  <2> QED
    BY <2>5, <2>7, BlocksAre DEF LosesWholeOrHead
<1> QED
  BY <1>5, <1>6, <1>7 DEF HeapIInv

(* What an assignment to a member does to the set of those that are ours.  *)
LEMMA OursExcept ==
  ASSUME member \in [Members -> {"NULL", "ours", "wild"}],
         NEW m \in Members, NEW v \in {"NULL", "ours"},
         member' = [member EXCEPT ![m] = v]
  PROVE  /\ member' \in [Members -> {"NULL", "ours", "wild"}]
         /\ v = "ours" => Ours' = Ours \cup {m}
         /\ v = "NULL" => Ours' = Ours \ {m}
<1>1. member' \in [Members -> {"NULL", "ours", "wild"}]
  OBVIOUS
<1>2. \A k \in Members : member'[k] = IF k = m THEN v ELSE member[k]
  OBVIOUS
<1>3. ASSUME v = "ours" PROVE Ours' = Ours \cup {m}
  BY <1>2, <1>3 DEF Ours
<1>4. ASSUME v = "NULL" PROVE Ours' = Ours \ {m}
  BY <1>2, <1>4 DEF Ours
<1> QED
  BY <1>1, <1>3, <1>4

(* One step of the opening, up to the parts the label out runs through.    *)
LEMMA OpeningStep ==
  ASSUME HeapIInv, txd_journal_init_common, UNCHANGED lost
  PROVE  HeapIInv'
<1>0. /\ ApiTypeOK /\ HeapOfCall /\ HeapOfOpening
      /\ FaultNeedsUnwritten /\ LosesWholeOrHead
      /\ heap \subseteq Whole \cup {"sb", "format"}
      /\ member \in [Members -> {"NULL", "ours", "wild"}]
  BY BlocksAre DEF HeapIInv, ApiTypeOK, OpenTypeOK
<1>a. LosesWholeOrHead'
  BY <1>0 DEF LosesWholeOrHead
<1>b. SUFFICES /\ heap' \subseteq Whole \cup {"sb", "format"}
               /\ member' \in [Members -> {"NULL", "ours", "wild"}]
               /\ pc' \in OpenPCs
               /\ HeapOfCall' /\ HeapOfOpening' /\ FaultNeedsUnwritten'
  BY <1>0, <1>a, BlocksAre DEF HeapIInv, ApiTypeOK, OpenTypeOK
<1>c. OpenPCs = Whole \cup {"fail1", "out", "got", "failed", "asserted", "fault"}
  BY BlocksAre
<1>d. \A t \in Members : t \in {"table0", "table1", "wbuf"}
  BY BlocksAre
<1>e. "table0" \in Members /\ "table1" \in Members /\ "wbuf" \in Members
  BY BlocksAre
<1> USE <1>0, <1>c
<1>1. CASE NewJournal
  <2>1. CASE /\ pc = "journal" /\ heap' = heap \cup {"journal"}
             /\ member' \in [Members -> {"NULL", "wild"}] /\ pc' = "bh"
    <3>1. Ours' = {}
      BY <2>1 DEF Ours
    <3>2. member' \in [Members -> {"NULL", "ours", "wild"}]
      BY <2>1
    <3> QED
      BY <2>1, <3>1, <3>2
      DEF HeapOfCall, HeapOfOpening, FaultNeedsUnwritten, Whole
  <2>2. CASE pc = "journal" /\ pc' = "failed" /\ UNCHANGED <<heap, member>>
    BY <2>2 DEF HeapOfCall, HeapOfOpening, FaultNeedsUnwritten
  <2> QED
    BY <1>1, <2>1, <2>2 DEF NewJournal, calloc, openVars
<1>2. CASE NewBufferHead
  <2>1. /\ UNCHANGED member /\ Ours' = Ours /\ pc = "bh"
        /\ heap = {"sb", "journal"} /\ Ours = {}
    BY <1>2 DEF NewBufferHead, HeapOfOpening, Ours
  <2>2. CASE heap' = heap \cup {"bh"} /\ pc' = "table0"
    BY <2>1, <2>2
    DEF HeapOfCall, HeapOfOpening, FaultNeedsUnwritten, Whole, Base
  <2>3. CASE /\ heap' = heap \cup {"bh"} /\ member["table0"] # "NULL"
             /\ pc' = "asserted"
    <3>1. member["table0"] = "wild"
      BY <1>e, <2>1, <2>3 DEF Ours
    <3>2. Wild'
      BY <1>e, <2>1, <3>1 DEF Wild
    <3> QED
      BY <2>1, <2>3, <3>2
      DEF HeapOfCall, HeapOfOpening, FaultNeedsUnwritten, Whole
  <2>4. CASE heap' = heap /\ pc' = "out"
    BY <2>1, <2>4 DEF HeapOfCall, HeapOfOpening, FaultNeedsUnwritten
  <2> QED
    BY <1>2, <2>2, <2>3, <2>4 DEF NewBufferHead, calloc
<1>3. ASSUME NEW t \in Tables, NewTable(t)
      PROVE  /\ heap' \subseteq Whole \cup {"sb", "format"}
             /\ member' \in [Members -> {"NULL", "ours", "wild"}]
             /\ pc' \in OpenPCs
             /\ HeapOfCall' /\ HeapOfOpening' /\ FaultNeedsUnwritten'
  <2>1. pc = t /\ t \in {"table0", "table1"} /\ t \in Members
    BY <1>3 DEF NewTable, Tables, Members
  <2>2. CASE heap' = heap \cup {t} /\ pc' = Buckets(t) /\ UNCHANGED member
    <3>1. Ours' = Ours
      BY <2>2 DEF Ours
    <3> QED
      BY <2>1, <2>2, <3>1
      DEF HeapOfCall, HeapOfOpening, FaultNeedsUnwritten, Whole, Buckets, Base,
          Table0
  <2>3. CASE NoTable(t) /\ UNCHANGED heap
    <3>1. member' = [member EXCEPT ![t] = "NULL"]
      BY <2>3 DEF NoTable
    <3>2. /\ Ours' = Ours \ {t}
          /\ member' \in [Members -> {"NULL", "ours", "wild"}]
      BY <2>1, <3>1, OursExcept
    <3> QED
      BY <2>1, <2>3, <3>2
      DEF NoTable, HeapOfCall, HeapOfOpening, FaultNeedsUnwritten, Whole
  <2> QED
    BY <1>3, <2>2, <2>3 DEF NewTable, calloc
<1>4. ASSUME NEW t \in Tables, NewBuckets(t)
      PROVE  /\ heap' \subseteq Whole \cup {"sb", "format"}
             /\ member' \in [Members -> {"NULL", "ours", "wild"}]
             /\ pc' \in OpenPCs
             /\ HeapOfCall' /\ HeapOfOpening' /\ FaultNeedsUnwritten'
  <2>1. pc = Buckets(t) /\ t \in {"table0", "table1"} /\ t \in Members
    BY <1>4 DEF NewBuckets, Tables, Members
  <2>2. CASE /\ heap' = heap \cup {Buckets(t)}
             /\ member' = [member EXCEPT ![t] = "ours"]
             /\ pc' = IF t = "table0" THEN "table1" ELSE "wbuf"
    <3>1. /\ Ours' = Ours \cup {t}
          /\ member' \in [Members -> {"NULL", "ours", "wild"}]
      BY <2>1, <2>2, OursExcept
    <3> QED
      BY <2>1, <2>2, <3>1
      DEF HeapOfCall, HeapOfOpening, FaultNeedsUnwritten, Whole, Buckets, Base,
          Table0,
          Tables
  <2>3. CASE NoTable(t) /\ heap' = heap \ {t}
    <3>1. member' = [member EXCEPT ![t] = "NULL"]
      BY <2>3 DEF NoTable
    <3>2. /\ Ours' = Ours \ {t}
          /\ member' \in [Members -> {"NULL", "ours", "wild"}]
      BY <2>1, <3>1, OursExcept
    <3> QED
      BY <2>1, <2>3, <3>2
      DEF NoTable, HeapOfCall, HeapOfOpening, FaultNeedsUnwritten, Whole,
          Buckets, Base,
          Table0
  <2> QED
    BY <1>4, <2>2, <2>3 DEF NewBuckets, calloc
<1>5. CASE Fail1
  <2>1. /\ pc = "fail1" /\ pc' = "out"
        /\ heap' = heap \ Table0
        /\ member' = [member EXCEPT !["table0"] = "NULL"]
    BY <1>5, BlocksAre DEF Fail1
  <2>2. /\ Ours' = Ours \ {"table0"}
        /\ member' \in [Members -> {"NULL", "ours", "wild"}]
    BY <1>e, <2>1, OursExcept
  <2> QED
    BY <2>1, <2>2
    DEF HeapOfCall, HeapOfOpening, FaultNeedsUnwritten, Whole, Base, Table0
<1>6. CASE NewWbuf
  <2>1. CASE /\ pc = "wbuf" /\ heap' = heap \cup {"wbuf"} /\ pc' = "got"
             /\ member' = [member EXCEPT !["wbuf"] = "ours"]
    <3>1. member' \in [Members -> {"NULL", "ours", "wild"}]
      BY <2>1
    <3> QED
      BY <2>1, <3>1
      DEF HeapOfCall, HeapOfOpening, FaultNeedsUnwritten, Whole, Base, Table0
  <2>2. CASE /\ pc = "wbuf" /\ heap' = heap /\ pc' = "out"
             /\ member' = [member EXCEPT !["wbuf"] = "NULL"]
    <3>1. /\ Ours' = Ours \ {"wbuf"}
          /\ member' \in [Members -> {"NULL", "ours", "wild"}]
      BY <1>e, <2>2, OursExcept
    <3> QED
      BY <2>2, <3>1
      DEF HeapOfCall, HeapOfOpening, FaultNeedsUnwritten, Tables
  <2> QED
    BY <1>6, <2>1, <2>2 DEF NewWbuf, calloc
<1>7. CASE Out
  <2> DEFINE followed == {m \in Members : member[m] # "NULL"}
             ours     == UNION {Owned(m) : m \in followed}
             wrong    == \E m \in followed : member[m] = "wild" \/ m \notin heap
  <2>1. /\ pc = "out" /\ UNCHANGED member
        /\ wrong => pc' = "fault" /\ UNCHANGED heap
        /\ ~wrong => pc' = "failed" /\ heap' = heap \ (ours \cup {"journal"})
    BY <1>7 DEF Out
  <2>2. Ours \subseteq heap
    BY <2>1 DEF HeapOfOpening, Base, Table0, Tables
  <2>3. CASE wrong
    <3>1. Wild
      BY <2>2, <2>3 DEF Wild, Ours
    <3>2. Wild'
      BY <2>1, <3>1 DEF Wild
    <3> QED
      BY <2>1, <2>3, <3>2 DEF HeapOfCall, HeapOfOpening, FaultNeedsUnwritten
  <2>4. CASE ~wrong
    <3>1. followed = Ours
      BY <2>4 DEF Ours
    <3>2. \A b : b \in ours <=> \E m \in Ours : b \in Owned(m)
      BY <3>1
    <3>3. pc' = "failed" /\ \A b : b \in heap' <=> b \in heap /\ b \notin ours /\ b # "journal"
      BY <2>1, <2>4
    <3> HIDE DEF ours, followed, wrong
    <3>4. heap' \in {{"sb"}, {"sb", "bh"}}
      <4>1. CASE Ours = {} /\ heap = {"sb", "journal"}
        BY <3>2, <3>3, <4>1
      <4>2. CASE Ours = {} /\ heap = Base
        BY <3>2, <3>3, <4>2 DEF Base
      <4>3. CASE /\ heap = Base \cup Table0 \cup {"table1", "hash1"}
                 /\ Ours = Tables
        <5>1. \A b : b \in ours <=> b \in Table0 \/ b \in {"table1", "hash1"}
          BY <3>2, <4>3, BlocksAre DEF Tables
        <5>2. heap' = {"sb", "bh"}
          BY <3>3, <4>3, <5>1 DEF Base, Table0
        <5> QED
          BY <5>2
      <4> QED
        BY <2>1, <4>1, <4>2, <4>3 DEF HeapOfOpening
    <3> QED
      BY <2>1, <3>3, <3>4
      DEF HeapOfCall, HeapOfOpening, FaultNeedsUnwritten, Whole
  <2> QED
    BY <2>3, <2>4
<1> QED
  BY <1>1, <1>2, <1>3, <1>4, <1>5, <1>6, <1>7
  DEF txd_journal_init_common, txd_journal_init_revoke

-----------------------------------------------------------------------------
(* The device layer: steps that do not call it, ...                        *)
LEMMA OwnStep ==
  ASSUME DevP!ConstantsOK, DevIInv, UNCHANGED devVars, ArgsOK',
         pc \notin {"polling", "fmt_polling", "stopped"},
         pc' \notin {"polling", "fmt_polling", "stopped"},
         pc' \in OpenPCs \cup {"load"} => pc \in OpenPCs /\ UNCHANGED args
  PROVE  DevIInv'
<1>1. DevP!IInv' /\ UNCHANGED <<proc, disk, io>>
  BY DevFrame DEF DevIInv
<1>2. proc = "running" /\ io = Dev!NoIo
  BY DEF DevIInv, Running, IoOfCall
<1>3. Running' /\ IoOfCall'
  BY <1>1, <1>2 DEF Running, IoOfCall, Dev!NoIo
<1>4. FoundIsOnDisk'
  BY <1>1 DEF DevIInv, FoundIsOnDisk
<1> QED
  BY <1>1, <1>3, <1>4 DEF DevIInv

(* ... calls of it that give no command to the device, ...                 *)
LEMMA CallsQuietly ==
  ASSUME DevP!ConstantsOK, DevIInv, UNCHANGED args,
         spdk_init \/ spdk_alloc_qpair \/ spdk_free \/ cleanup,
         pc \notin {"polling", "fmt_polling", "stopped"},
         pc' \in {"fmt_qpair", "fmt_buf", "cleanup", "idle", "aborted", "stopped"},
         pc' # "stopped" => proc' = "running"
  PROVE  DevIInv'
<1>1. DevP!IInv' /\ UNCHANGED <<disk, io>>
  BY QuietStep DEF DevIInv
<1>2. io = Dev!NoIo
  BY DEF DevIInv, IoOfCall
<1>3. Running' /\ IoOfCall'
  BY <1>1, <1>2 DEF Running, IoOfCall, Dev!NoIo
<1>4. FoundIsOnDisk' /\ ArgsOK'
  BY BlocksAre DEF DevIInv, FoundIsOnDisk, ArgsOK, Whole
<1> QED
  BY <1>1, <1>3, <1>4 DEF DevIInv

(* ... and the commands it is given.                                       *)
LEMMA ReadSubmitted ==
  ASSUME DevP!ConstantsOK, DevIInv, BeginRead
  PROVE  DevIInv'
<1>1. /\ pc = "sb" /\ Dev!Submit("read", args.addr, 1, Blank)
      /\ proc' = "running" => pc' = "polling"
      /\ proc' # "running" => pc' = "stopped"
      /\ args' = args
  BY DEF BeginRead, spdk_read, Dev!spdk_read_submit
<1>2. proc = "running" /\ io = Dev!NoIo
  BY <1>1 DEF DevIInv, Running, IoOfCall
<1>3. args.addr \in Addr
  BY DEF DevIInv, ArgsOK
<1>4. /\ DevP!IInv' /\ UNCHANGED disk
      /\ \/ proc' # "running" /\ UNCHANGED io
         \/ /\ proc' = "running" /\ io' # Dev!NoIo
            /\ io'.op = "read" /\ io'.lba = args.addr /\ io'.count = 1
  BY <1>1, <1>2, <1>3, SubmitStep DEF DevIInv
<1>5. pc' \in {"polling", "stopped"}
  BY <1>1
<1>6. Running' /\ IoOfCall'
  BY <1>1, <1>2, <1>4, <1>5 DEF Running, IoOfCall, Dev!NoIo
<1>7. FoundIsOnDisk' /\ ArgsOK'
  BY <1>1, <1>5, BlocksAre DEF DevIInv, FoundIsOnDisk, ArgsOK, Whole
<1> QED
  BY <1>4, <1>6, <1>7 DEF DevIInv

(* do_format asks for the sectors of the area.                             *)
LEMMA WriteSubmitted ==
  ASSUME ApiAssumption, DevP!ConstantsOK, DevIInv, do_format
  PROVE  DevIInv'
<1>1. /\ pc = "fmt_write"
      /\ Dev!Submit("write", args.addr \div LBA_UNIT, args.size \div LBA_UNIT, args.size)
      /\ proc' = "running" => pc' = "fmt_polling"
      /\ proc' # "running" => pc' = "stopped"
      /\ args' = args
  BY DEF do_format, spdk_write, Dev!spdk_write_submit
<1>2. proc = "running" /\ io = Dev!NoIo
  BY <1>1 DEF DevIInv, Running, IoOfCall
<1>3. args.addr \in Addr /\ args.size \in Length
  BY DEF DevIInv, ArgsOK
<1>8. /\ args.addr \div LBA_UNIT \in Sector
      /\ args.size \div LBA_UNIT \in Nat \ {0}
  BY <1>3, FormatArea
<1>4. /\ DevP!IInv' /\ UNCHANGED disk
      /\ \/ proc' # "running" /\ UNCHANGED io
         \/ /\ proc' = "running" /\ io' # Dev!NoIo
            /\ io'.op = "write" /\ io'.lba = args.addr \div LBA_UNIT
            /\ io'.count = args.size \div LBA_UNIT
  <2>1. /\ args.addr \div LBA_UNIT \in Addr \cup Sector
        /\ args.size \in Length \cup {Blank}
        /\ "write" \in {"read", "write"} /\ "write" # "read"
    BY <1>3, <1>8
  <2> QED
    BY <1>1, <1>2, <1>8, <2>1, SubmitStep DEF DevIInv
<1>5. pc' \in {"fmt_polling", "stopped"}
  BY <1>1
<1>6. Running' /\ IoOfCall'
  BY <1>1, <1>2, <1>4, <1>5 DEF Running, IoOfCall, Dev!NoIo
<1>7. FoundIsOnDisk' /\ ArgsOK'
  BY <1>1, <1>5, BlocksAre DEF DevIInv, FoundIsOnDisk, ArgsOK, Whole
<1> QED
  BY <1>4, <1>6, <1>7 DEF DevIInv

(* A superblock is accepted only when the device holds one of the length   *)
(* asked for: the buffer of a failed read is blank.                        *)
LEMMA ReadPolled ==
  ASSUME ApiAssumption, DevP!ConstantsOK, DevIInv, BeginPoll
  PROVE  DevIInv'
<1>1. pc = "polling" /\ args' = args
  BY DEF BeginPoll
<1>2. proc = "running" /\ io.lba = args.addr
  BY <1>1 DEF DevIInv, Running, IoOfCall
<1>3. CASE "sb" \in heap
  <2>1. /\ Dev!Completed("read")
        /\ buf_user' = args.size => pc' = "journal"
        /\ buf_user' # args.size => pc' = "free"
    BY <1>3 DEF BeginPoll, read_complete, Dev!read_complete, chk_txd_sb
  <2>2. /\ DevP!IInv' /\ UNCHANGED <<proc, disk>>
        /\ io' = Dev!NoIo /\ buf_user' \in {disk[io.lba], Blank}
    BY <2>1, CompleteStep DEF DevIInv
  <2>3. pc' \in {"journal", "free"}
    BY <2>1
  <2>4. args.size # Blank
    BY DEF ApiAssumption, DevIInv, ArgsOK
  <2>5. FoundIsOnDisk'
    BY <1>1, <1>2, <2>1, <2>2, <2>3, <2>4, BlocksAre DEF FoundIsOnDisk, Whole
  <2>6. Running' /\ IoOfCall'
    BY <1>2, <2>2, <2>3 DEF Running, IoOfCall, Dev!NoIo
  <2>7. ArgsOK'
    BY <1>1 DEF DevIInv, ArgsOK
  <2> QED
    BY <2>2, <2>5, <2>6, <2>7 DEF DevIInv
<1>4. CASE "sb" \notin heap
  <2>1. Dev!Stop("no_memory") /\ pc' = "stopped" /\ io.stage = "executed"
    BY <1>4 DEF BeginPoll
  <2>2. DevP!IInv' /\ UNCHANGED <<disk, io>>
    BY <2>1, StopStep DEF DevIInv
  <2>3. Running' /\ IoOfCall'
    BY <2>1, <2>2 DEF Running, IoOfCall
  <2>4. FoundIsOnDisk' /\ ArgsOK'
    BY <1>1, <2>1, BlocksAre DEF DevIInv, FoundIsOnDisk, ArgsOK, Whole
  <2> QED
    BY <2>2, <2>3, <2>4 DEF DevIInv
<1> QED
  BY <1>3, <1>4

(* tx_format returns when its write has ended.                             *)
LEMMA WritePolled ==
  ASSUME DevP!ConstantsOK, DevIInv, FormatReturn
  PROVE  DevIInv'
<1>1. /\ pc = "fmt_polling" /\ args' = args /\ pc' = "idle"
      /\ Dev!Completed("write")
  BY DEF FormatReturn, Return, write_complete, Dev!write_complete
<1>2. proc = "running"
  BY <1>1 DEF DevIInv, Running
<1>3. DevP!IInv' /\ UNCHANGED <<proc, disk>> /\ io' = Dev!NoIo
  BY <1>1, CompleteStep DEF DevIInv
<1>4. Running' /\ IoOfCall'
  BY <1>1, <1>2, <1>3 DEF Running, IoOfCall, Dev!NoIo
<1>5. FoundIsOnDisk' /\ ArgsOK'
  BY <1>1, BlocksAre DEF DevIInv, FoundIsOnDisk, ArgsOK, Whole
<1> QED
  BY <1>3, <1>4, <1>5 DEF DevIInv

(* The device writes only while tx_format polls for it, and only into the  *)
(* sectors of the area.                                                    *)
LEMMA DeviceTakesStep ==
  ASSUME ApiAssumption, DevP!ConstantsOK, DevIInv, Dev!DeviceExecutes,
         UNCHANGED <<pc, args>>
  PROVE  /\ DevIInv'
         /\ \A s \in DOMAIN disk : disk'[s] # disk[s] =>
              /\ pc = "fmt_polling"
              /\ s * LBA_UNIT < args.addr + args.size
              /\ (s + 1) * LBA_UNIT > args.addr
<1>1. /\ DevP!IInv' /\ UNCHANGED proc
      /\ io # Dev!NoIo /\ io.stage = "submitted" /\ io' # Dev!NoIo
      /\ io'.op = io.op /\ io'.lba = io.lba /\ io'.count = io.count
      /\ io.op = "read" => UNCHANGED disk
      /\ \A s \in DOMAIN disk :
           disk'[s] # disk[s] => io.lba <= s /\ s < io.lba + io.count
  BY DeviceStep DEF DevIInv
<1>2. pc \in {"polling", "fmt_polling"}
  BY <1>1 DEF DevIInv, IoOfCall
<1>3. pc = "polling" => disk' = disk
  BY <1>1 DEF DevIInv, IoOfCall
<1>4. Running' /\ IoOfCall'
  BY <1>1, <1>2 DEF DevIInv, Running, IoOfCall
<1>5. FoundIsOnDisk' /\ ArgsOK'
  BY <1>2, BlocksAre DEF DevIInv, FoundIsOnDisk, ArgsOK, Whole
<1>6. ASSUME NEW s \in DOMAIN disk, disk'[s] # disk[s]
      PROVE  /\ pc = "fmt_polling"
             /\ s * LBA_UNIT < args.addr + args.size
             /\ (s + 1) * LBA_UNIT > args.addr
  <2>1. pc = "fmt_polling"
    BY <1>2, <1>3, <1>6
  <2>2. /\ args.addr \div LBA_UNIT <= s
        /\ s < args.addr \div LBA_UNIT + args.size \div LBA_UNIT
    BY <1>1, <1>6, <2>1 DEF DevIInv, IoOfCall
  <2>3. s \in Nat
    <3>1. DOMAIN disk = Addr \cup Sector
      BY DEF DevIInv, DevP!IInv, DevP!TypeOK
    <3> QED
      BY <3>1 DEF DevP!ConstantsOK
  <2>4. args.addr \in Addr /\ args.size \in Length
    BY DEF DevIInv, ArgsOK
  <2> QED
    BY <2>1, <2>2, <2>3, <2>4, FormatArea
<1> QED
  BY <1>1, <1>4, <1>5, <1>6 DEF DevIInv

-----------------------------------------------------------------------------
(* The opening moves between its own points and leaves the device alone.   *)
LEMMA OpeningMoves ==
  ASSUME HeapIInv, txd_journal_init_common
  PROVE  pc \in OpenPCs /\ pc' \in OpenPCs
<1>1. pc' \in OpenPCs
  BY BlocksAre
  DEF txd_journal_init_common, NewJournal, NewBufferHead,
      txd_journal_init_revoke,
      NewTable, NewBuckets, NoTable, Buckets, Fail1, NewWbuf, Out, Tables, Whole
<1>2. pc \in OpenPCs
  BY BlocksAre
  DEF txd_journal_init_common, NewJournal, NewBufferHead,
      txd_journal_init_revoke,
      NewTable, NewBuckets, Buckets, Fail1, NewWbuf, Out, Tables, Whole
<1> QED
  BY <1>1, <1>2

(* tx_format keeps the invariant and, by itself, changes no sector, ...    *)
LEMMA FormatStep ==
  ASSUME ApiAssumption, DevP!ConstantsOK, IInv, tx_format
  PROVE  IInv' /\ UNCHANGED disk
<1>0. DevIInv /\ HeapIInv
  BY DEF IInv
<1>1. CASE Call("fmt_init")
  <2>1. /\ /\ pc = "idle" /\ pc' = "fmt_init"
        /\ args' \in [addr : Addr, size : Length]
        /\ UNCHANGED <<devVars, heap, member, lost>>
    BY <1>1 DEF Call, openVars
  <2>2. HeapIInv'
    BY <1>0, <2>1, KeepsHeap
  <2>3. DevIInv'
    BY <1>0, <2>1, OwnStep, BlocksAre DEF ArgsOK, Whole
  <2> QED
    BY <2>1, <2>2, <2>3 DEF IInv, devVars
<1>2. CASE FormatInit
  <2>1. /\ pc = "fmt_init" /\ spdk_init
        /\ pc' \in {"fmt_qpair", "aborted", "stopped"}
        /\ pc' # "stopped" => proc' = "running"
        /\ UNCHANGED <<heap, member, args, lost>>
    BY <1>2 DEF FormatInit, Checked, openVars
  <2>2. HeapIInv'
    BY <1>0, <2>1, KeepsHeap
  <2>3. DevIInv' /\ UNCHANGED disk
    BY <1>0, <2>1, CallsQuietly, QuietStep DEF DevIInv
  <2> QED
    BY <2>2, <2>3 DEF IInv
<1>3. CASE FormatQpair
  <2>1. /\ pc = "fmt_qpair" /\ spdk_alloc_qpair
        /\ pc' \in {"fmt_buf", "aborted", "stopped"}
        /\ pc' # "stopped" => proc' = "running"
        /\ UNCHANGED <<heap, member, args, lost>>
    BY <1>3 DEF FormatQpair, Checked, openVars
  <2>2. HeapIInv'
    BY <1>0, <2>1, KeepsHeap
  <2>3. DevIInv' /\ UNCHANGED disk
    BY <1>0, <2>1, CallsQuietly, QuietStep DEF DevIInv
  <2> QED
    BY <2>2, <2>3 DEF IInv
<1>4. CASE FormatBuffer
  <2>1. /\ pc = "fmt_buf"
        /\ \/ heap' = heap \cup {"format"} /\ pc' = "fmt_write"
           \/ pc' = "aborted" /\ UNCHANGED heap
        /\ UNCHANGED <<devVars, member, args, lost>>
    BY <1>4 DEF FormatBuffer, calloc
  <2>2. HeapIInv'
    BY <1>0, <2>1, KeepsHeap, OwnBuffers
  <2>3. ArgsOK'
    BY <1>0, <2>1 DEF DevIInv, ArgsOK
  <2>4. DevIInv'
    BY <1>0, <2>1, <2>3, OwnStep, BlocksAre DEF Whole
  <2> QED
    BY <2>1, <2>2, <2>4 DEF IInv, devVars
<1>5. CASE do_format
  <2>1. /\ pc = "fmt_write" /\ pc' \in {"fmt_polling", "stopped"}
        /\ UNCHANGED <<heap, member, lost>>
    BY <1>5 DEF do_format, openVars
  <2>2. HeapIInv'
    BY <1>0, <2>1, KeepsHeap
  <2>3. UNCHANGED disk
    BY <1>5
    DEF do_format, spdk_write, Dev!spdk_write_submit, Dev!Submit, Dev!Stop
  <2> QED
    BY <1>0, <1>5, <2>2, <2>3, WriteSubmitted DEF IInv
<1>6. CASE FormatReturn
  <2>1. HeapIInv'
    BY <1>0, <1>6, ReturnLoses DEF FormatReturn
  <2>2. UNCHANGED disk
    BY <1>6 DEF FormatReturn, write_complete, Dev!write_complete, Dev!Completed
  <2> QED
    BY <1>0, <1>6, <2>1, <2>2, WritePolled DEF IInv
<1> QED
  BY <1>1, <1>2, <1>3, <1>4, <1>5, <1>6 DEF tx_format

(* ... and so does tx_begin.                                               *)
LEMMA BeginsStep ==
  ASSUME ApiAssumption, DevP!ConstantsOK, IInv, tx_begin
  PROVE  IInv' /\ UNCHANGED disk
<1>0. DevIInv /\ HeapIInv
  BY DEF IInv
<1>1. CASE Call("sb")
  <2>1. /\ pc = "idle" /\ pc' = "sb" /\ args' \in [addr : Addr, size : Length]
        /\ UNCHANGED <<devVars, heap, member, lost>>
    BY <1>1 DEF Call, openVars
  <2>2. HeapIInv'
    BY <1>0, <2>1, KeepsHeap
  <2>3. DevIInv'
    BY <1>0, <2>1, OwnStep, BlocksAre DEF ArgsOK, Whole
  <2> QED
    BY <2>1, <2>2, <2>3 DEF IInv, devVars
<1>2. CASE BeginRead
  <2>1. /\ pc = "sb" /\ heap' \in {heap, heap \cup {"sb"}}
        /\ pc' \in {"polling", "stopped"} /\ UNCHANGED <<member, lost>>
    BY <1>2 DEF BeginRead
  <2>2. HeapIInv'
    BY <1>0, <2>1, OwnBuffers
  <2>3. UNCHANGED disk
    BY <1>2
    DEF BeginRead, spdk_read, Dev!spdk_read_submit, Dev!Submit, Dev!Stop
  <2> QED
    BY <1>0, <1>2, <2>2, <2>3, ReadSubmitted DEF IInv
<1>3. CASE BeginPoll
  <2>1. /\ pc = "polling" /\ UNCHANGED <<heap, member, lost>>
        /\ \/ "sb" \in heap /\ pc' \in {"journal", "free"}
           \/ pc' = "stopped"
    BY <1>3 DEF BeginPoll, openVars
  <2>2. HeapIInv'
    BY <1>0, <2>1, KeepsHeap
  <2>3. UNCHANGED disk
    BY <1>3
    DEF BeginPoll, read_complete, Dev!read_complete, Dev!Completed, Dev!Stop
  <2> QED
    BY <1>0, <1>3, <2>2, <2>3, ReadPolled DEF IInv
<1>4. CASE txd_get_journal
  <2>1. txd_journal_init_common /\ UNCHANGED <<devVars, args, lost>>
    BY <1>4 DEF txd_get_journal
  <2>2. HeapIInv' /\ pc \in OpenPCs /\ pc' \in OpenPCs
    BY <1>0, <2>1, OpeningStep, OpeningMoves
  <2>3. ArgsOK'
    BY <1>0, <2>1 DEF DevIInv, ArgsOK
  <2>4. /\ pc \notin {"polling", "fmt_polling", "stopped"}
        /\ pc' \notin {"polling", "fmt_polling", "stopped"}
    BY <2>2, BlocksAre DEF Whole
  <2>5. DevIInv'
    BY <1>0, <2>1, <2>2, <2>3, <2>4, OwnStep
  <2> QED
    BY <2>1, <2>2, <2>5 DEF IInv, devVars
<1>5. CASE LoadFails
  <2>1. /\ pc \in {"got", "failed"} /\ pc' = "free"
        /\ UNCHANGED <<devVars, heap, member, args, lost>>
    BY <1>5 DEF LoadFails, openVars
  <2>2. HeapIInv'
    BY <1>0, <2>1, KeepsHeap
  <2>3. ArgsOK'
    BY <1>0, <2>1 DEF DevIInv, ArgsOK
  <2>4. DevIInv'
    BY <1>0, <2>1, <2>3, OwnStep, BlocksAre DEF Whole
  <2> QED
    BY <2>1, <2>2, <2>4 DEF IInv, devVars
<1>6. CASE BeginFree
  <2>1. /\ pc = "free" /\ spdk_free
        /\ pc' \in {"cleanup", "aborted", "stopped"}
        /\ pc' # "stopped" => proc' = "running"
        /\ UNCHANGED <<heap, member, args, lost>>
    BY <1>6 DEF BeginFree, Checked, openVars
  <2>2. HeapIInv'
    BY <1>0, <2>1, KeepsHeap
  <2>3. DevIInv' /\ UNCHANGED disk
    BY <1>0, <2>1, CallsQuietly, QuietStep DEF DevIInv
  <2> QED
    BY <2>2, <2>3 DEF IInv
<1>7. CASE ReturnNull
  <2>1. /\ pc = "cleanup" /\ cleanup /\ UNCHANGED args
        /\ \/ proc' = "running" /\ Return
           \/ pc' = "stopped" /\ UNCHANGED <<heap, member, lost>>
    BY <1>7 DEF ReturnNull, openVars
  <2>2. HeapIInv'
    BY <1>0, <2>1, KeepsHeap, ReturnLoses
  <2>3. pc' \in {"idle", "stopped"} /\ (pc' # "stopped" => proc' = "running")
    BY <2>1 DEF Return
  <2>4. DevIInv' /\ UNCHANGED disk
    BY <1>0, <2>1, <2>3, CallsQuietly, QuietStep DEF DevIInv
  <2> QED
    BY <2>2, <2>4 DEF IInv
<1> QED
  BY <1>1, <1>2, <1>3, <1>4, <1>5, <1>6, <1>7 DEF tx_begin, BeginStep

(* A step of somebody else.                                                *)
LEMMA StutterStep ==
  ASSUME DevP!ConstantsOK, IInv, UNCHANGED vars
  PROVE  IInv'
<1>1. UNCHANGED <<devVars, pc, args, lost, heap, member>>
  BY DEF vars, openVars, apiVars
<1>2. HeapIInv'
  BY <1>1, KeepsHeap DEF IInv
<1>3. DevP!IInv' /\ UNCHANGED <<proc, disk, io>>
  BY <1>1, DevFrame DEF IInv, DevIInv
<1>4. Running' /\ IoOfCall' /\ FoundIsOnDisk' /\ ArgsOK'
  BY <1>1, <1>3
  DEF IInv, DevIInv, Running, IoOfCall, FoundIsOnDisk, ArgsOK, Dev!NoIo
<1> QED
  BY <1>2, <1>3, <1>4 DEF IInv, DevIInv

(* Every step keeps the invariant, and changes only what the area holds.   *)
LEMMA NextStep ==
  ASSUME ApiAssumption, DevP!ConstantsOK, IInv, [Next]_vars
  PROVE  /\ IInv'
         /\ \A s \in DOMAIN disk : disk'[s] # disk[s] =>
              /\ pc = "fmt_polling"
              /\ s * LBA_UNIT < args.addr + args.size
              /\ (s + 1) * LBA_UNIT > args.addr
<1>1. CASE tx_format
  BY <1>1, FormatStep
<1>2. CASE tx_begin
  BY <1>2, BeginsStep
<1>3. CASE Device
  <2>1. Dev!DeviceExecutes /\ UNCHANGED <<heap, member, pc, args, lost>>
    BY <1>3 DEF Device, openVars, apiVars
  <2>2. HeapIInv'
    BY <2>1, KeepsHeap DEF IInv
  <2> QED
    BY <2>1, <2>2, DeviceTakesStep DEF IInv
<1>4. CASE UNCHANGED vars
  BY <1>4, StutterStep DEF vars, devVars
<1> QED
  BY <1>1, <1>2, <1>3, <1>4 DEF Next

-----------------------------------------------------------------------------
(* Every reachable state satisfies the inductive invariant.                *)
THEOREM Invariant == Spec => []IInv
<1>0. DevP!ConstantsOK
  BY ApiAssumption, SameConstants DEF ApiAssumption
<1>1. Init => IInv
  BY ApiAssumption, InitIInv
<1>2. IInv /\ [Next]_vars => IInv'
  BY <1>0, ApiAssumption, NextStep
<1> QED
  BY <1>1, <1>2, PTL DEF Spec

(* Type correctness of the older interface and what it is built on         *)
(* (txdriver_api.c, txdriver_journal.c).                                   *)
THEOREM OlderTypeOK == Spec => []TypeOK
<1>1. IInv => TypeOK
  BY SameState
  DEF IInv, DevIInv, HeapIInv, DevP!IInv, ArgsOK, ApiTypeOK, TypeOK
<1> QED
  BY <1>1, Invariant, PTL

(* What tx_begin has lost of journals is whole ones, buffer heads alone,   *)
(* and no other part: the label out of txd_journal_init_common frees the   *)
(* rest from wherever it is reached.                                       *)
THEOREM LosesWholeOrHeadHolds == Spec => []LosesWholeOrHead
<1>1. IInv => LosesWholeOrHead
  BY DEF IInv, HeapIInv
<1> QED
  BY <1>1, Invariant, PTL

(* A wrong pointer is followed, and the assert of txd_journal_init_revoke  *)
(* fails, only when a member nobody assigned was not NULL.                 *)
THEOREM FaultNeedsUnwrittenHolds == Spec => []FaultNeedsUnwritten
<1>1. IInv => FaultNeedsUnwritten
  BY DEF IInv, HeapIInv
<1> QED
  BY <1>1, Invariant, PTL

(* A journal is opened only over a superblock of the length asked for      *)
(* (chk_txd_sb), whichever commands failed before.                         *)
THEOREM FoundIsOnDiskHolds == Spec => []FoundIsOnDisk
<1>1. IInv => FoundIsOnDisk
  BY DEF IInv, DevIInv
<1> QED
  BY <1>1, Invariant, PTL

(* A format changes no sector outside the area it was given (do_format),   *)
(* and nothing else changes a sector.                                      *)
THEOREM FormatStaysInAreaHolds == Spec => FormatStaysInArea
<1>0. DevP!ConstantsOK
  BY ApiAssumption, SameConstants DEF ApiAssumption
<1>1. IInv /\ [Next]_vars =>
        [\A s \in DOMAIN disk : disk'[s] # disk[s] =>
           /\ pc = "fmt_polling"
           /\ s * LBA_UNIT < args.addr + args.size
           /\ (s + 1) * LBA_UNIT > args.addr]_vars
  BY <1>0, ApiAssumption, NextStep
<1> QED
  BY <1>1, Invariant, PTL DEF Spec, FormatStaysInArea
=============================================================================

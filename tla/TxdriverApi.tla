----------------------------- MODULE TxdriverApi -----------------------------
(***************************************************************************)
(* tx_format and tx_begin of the older generation, txdriver_api.c, over    *)
(* the opening of a journal (TxdriverJournal) and the device layer.  The   *)
(* device layer txdriver_spdk.c takes the same steps as txd_spdk.c, so     *)
(* TxdSpdk stands for it.                                                  *)
(*                                                                         *)
(* This tx_format does write the superblock, and txd_size / LBA_UNIT       *)
(* sectors in all, from sector txd_addr / LBA_UNIT on; tx_begin reads the  *)
(* sector txd_addr.  A sector holds the s_maxlen of a superblock, or is    *)
(* blank.                                                                  *)
(***************************************************************************)
EXTENDS TxdriverJournal, Sequences

CONSTANTS
  Controller, ActiveNs, MaxQpairs,   \* see TxdSpdk
  Addr,                              \* values of txd_addr
  Length,                            \* values of txd_size
  Blank                              \* a sector without a superblock

LBA_UNIT == 512

VARIABLES
  proc, ret, g_controllers, g_namespaces, epoch, attached, io_qpairs, ready,
  disk, buf_user, io,      \* the device layer
  args,                    \* txd_addr and txd_size of the current call
  lost                     \* how many blocks of each kind nobody frees

devVars == <<proc, ret, g_controllers, g_namespaces, epoch, attached, io_qpairs,
             ready, disk, buf_user, io>>
apiVars == <<pc, args, lost>>
vars == <<devVars, openVars, apiVars>>

(* The sectors that tx_format may be asked to write.                       *)
Sector ==
  UNION {(a \div LBA_UNIT) .. (a \div LBA_UNIT) + (n \div LBA_UNIT) - 1 :
           a \in Addr, n \in Length}

Dev == INSTANCE TxdSpdk WITH
         Lba <- Addr \cup Sector,
         Data <- Length \cup {Blank}, Zeros <- Blank

(* tx_format writes txd_size / LBA_UNIT sectors, and at least one: what a  *)
(* device does when asked for none is not modelled.                        *)
ASSUME ApiAssumption ==
  /\ Dev!ConstantsOK
  /\ Addr \subseteq Nat /\ Length \subseteq Nat
  /\ Blank \notin Length
  /\ \A n \in Length : n \div LBA_UNIT >= 1

(* The operations of txdriver_spdk.c.                                      *)
spdk_init             == Dev!spdk_init
spdk_alloc_qpair      == Dev!spdk_alloc_qpair
spdk_write(lba, count, data) == Dev!spdk_write_submit(lba, count, data)
spdk_read(lba, count) == Dev!spdk_read_submit(lba, count)
write_complete        == Dev!write_complete
read_complete         == Dev!read_complete
spdk_free             == Dev!spdk_free
cleanup               == Dev!cleanup

Blocks == OpenBlocks \cup {"sb", "format"}

FormatPCs == {"fmt_init", "fmt_qpair", "fmt_buf", "fmt_write", "fmt_polling"}
BeginPCs  == {"sb", "polling", "load", "free", "cleanup"}

TypeOK ==
  /\ Dev!TypeOK
  /\ OpenTypeOK
  /\ pc \in {"idle", "aborted", "stopped"} \cup OpenPCs \cup FormatPCs \cup BeginPCs
  /\ args \in [addr : Addr, size : Length]
  /\ lost \in [Blocks -> Nat]

NoJournal == [m \in Members |-> "NULL"]

Init ==
  /\ Dev!Init
  /\ pc = "idle"
  /\ heap = {}
  /\ member = NoJournal
  /\ args \in [addr : Addr, size : Length]
  /\ lost = [b \in Blocks |-> 0]

-----------------------------------------------------------------------------
Checked(next) ==
  IF proc' # "running" THEN "stopped"
  ELSE IF ret' = "TXD_FAIL" THEN "aborted" ELSE next

(* The call returns, and no pointer to the blocks it still holds is left.  *)
Return ==
  /\ pc' = "idle"
  /\ member' = NoJournal
  /\ lost' = [b \in Blocks |-> IF b \in heap THEN lost[b] + 1 ELSE lost[b]]
  /\ heap' = {}

Call(first) ==
  /\ pc = "idle"
  /\ pc' = first
  /\ args' \in [addr : Addr, size : Length]
  /\ UNCHANGED <<devVars, openVars, lost>>

FormatInit ==
  /\ pc = "fmt_init"
  /\ spdk_init
  /\ pc' = Checked("fmt_qpair")
  /\ UNCHANGED <<openVars, args, lost>>

FormatQpair ==
  /\ pc = "fmt_qpair"
  /\ spdk_alloc_qpair
  /\ pc' = Checked("fmt_buf")
  /\ UNCHANGED <<openVars, args, lost>>

(* Without a buffer init_journal_header asserts.                           *)
FormatBuffer ==
  /\ pc = "fmt_buf"
  /\ \/ calloc("format") /\ pc' = "fmt_write"
     \/ pc' = "aborted" /\ UNCHANGED heap
  /\ UNCHANGED <<devVars, member, args, lost>>

(* Mutant of do_format: the length is used as a number of sectors.         *)
FormatInBytes ==
  /\ pc = "fmt_write"
  /\ spdk_write(args.addr \div LBA_UNIT, args.size, args.size)
  /\ pc' = IF proc' = "running" THEN "fmt_polling" ELSE "stopped"
  /\ UNCHANGED <<openVars, args, lost>>

do_format ==
  /\ pc = "fmt_write"
  /\ spdk_write(args.addr \div LBA_UNIT, args.size \div LBA_UNIT, args.size)
  /\ pc' = IF proc' = "running" THEN "fmt_polling" ELSE "stopped"
  /\ UNCHANGED <<openVars, args, lost>>

FormatReturn ==
  /\ pc = "fmt_polling"
  /\ write_complete
  /\ Return
  /\ UNCHANGED args

tx_format ==
  \/ Call("fmt_init") \/ FormatInit \/ FormatQpair \/ FormatBuffer \/ do_format
  \/ FormatReturn

-----------------------------------------------------------------------------
(* The superblock buffer, whose calloc is not checked, and the call of     *)
(* spdk_read up to its polling loop.                                       *)
BeginRead ==
  /\ pc = "sb"
  /\ heap' \in {heap, heap \cup {"sb"}}
  /\ spdk_read(args.addr, 1)
  /\ pc' = IF proc' = "running" THEN "polling" ELSE "stopped"
  /\ UNCHANGED <<member, args, lost>>

(* Mutant of chk_txd_sb: compares the signature only.                      *)
ChkSignature(block) == block # Blank

chk_txd_sb(block) == block = args.size

(* The callback copies into the buffer, and chk_txd_sb looks at it.        *)
BeginPoll ==
  /\ pc = "polling"
  /\ IF "sb" \in heap
       THEN /\ read_complete
            /\ pc' = IF chk_txd_sb(buf_user') THEN "journal" ELSE "free"
       ELSE /\ io # Dev!NoIo /\ io.stage = "executed"
            /\ Dev!Stop("no_memory")
            /\ pc' = "stopped"
  /\ UNCHANGED <<openVars, args, lost>>

txd_get_journal == txd_journal_init_common /\ UNCHANGED <<devVars, args, lost>>

(* txd_journal_need_recovery says yes, so nothing is wiped; then           *)
(* txd_journal_load calls txd_journal_recover, which is a stub that fails. *)
(* txd_journal_destroy, another stub, frees nothing.                       *)
LoadFails ==
  /\ pc \in {"got", "failed"}
  /\ pc' = "free"
  /\ UNCHANGED <<devVars, openVars, args, lost>>

BeginFree ==
  /\ pc = "free"
  /\ spdk_free
  /\ pc' = Checked("cleanup")
  /\ UNCHANGED <<openVars, args, lost>>

ReturnNull ==
  /\ pc = "cleanup"
  /\ cleanup
  /\ IF proc' = "running" THEN Return
     ELSE pc' = "stopped" /\ UNCHANGED <<openVars, lost>>
  /\ UNCHANGED args

BeginStep ==
  BeginRead \/ BeginPoll \/ txd_get_journal \/ LoadFails \/ BeginFree \/ ReturnNull

tx_begin == Call("sb") \/ BeginStep

Device == Dev!DeviceExecutes /\ UNCHANGED <<openVars, apiVars>>

Next == tx_format \/ tx_begin \/ Device

Spec == Init /\ [][Next]_vars /\ WF_vars(BeginStep) /\ WF_vars(Device)

-----------------------------------------------------------------------------
(* tx_begin always returns NULL in this generation.  What it then has lost *)
(* of a journal is all of it, when the load failed, or its buffer head     *)
(* alone or nothing, when an allocation failed: the label out frees the    *)
(* rest whichever allocation it was.                                       *)
LosesWholeOrHead ==
  /\ \A b \in OpenBlocks \ {"bh"} : lost[b] = lost["journal"]
  /\ lost["journal"] <= lost["bh"] /\ lost["bh"] <= lost["sb"]

(* The label out, reached from five places, follows a pointer to no block, *)
(* and the assert in txd_journal_init_revoke fails, only when a member     *)
(* that nobody has assigned was not NULL.  On cleared memory no path frees *)
(* a block twice.                                                          *)
FaultNeedsUnwritten == pc \in {"fault", "asserted"} => Wild

(* A journal is opened only over a block that holds a superblock with the  *)
(* length asked for, whatever reads and writes failed before.              *)
FoundIsOnDisk ==
  pc \in OpenPCs \cup {"load"} => disk[args.addr] = args.size

(* A format changes no sector outside the area it was given, in bytes,     *)
(* except that the area starts in the sector its address lies in: areas of *)
(* other journals that share no sector with it are safe, whatever fails.   *)
FormatStaysInArea ==
  [][\A s \in DOMAIN disk : disk'[s] # disk[s] =>
       /\ pc = "fmt_polling"
       /\ s * LBA_UNIT < args.addr + args.size
       /\ (s + 1) * LBA_UNIT > args.addr]_vars

(* A call of tx_begin returns or ends the process, although it polls the   *)
(* device in a loop without a limit.                                       *)
BeginReturns ==
  pc \in BeginPCs \cup OpenPCs ~>
    pc \in {"idle", "aborted", "stopped", "asserted", "fault"}
=============================================================================

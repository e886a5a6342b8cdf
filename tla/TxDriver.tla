------------------------------- MODULE TxDriver -------------------------------
(***************************************************************************)
(* The API of txd_api.c: an application calls tx_format and tx_begin, one  *)
(* at a time, over the device layer (TxdSpdk) and the opening of a journal *)
(* (JournalOpen, which TxdJournal implements).                             *)
(*                                                                         *)
(* A device block is blank or holds a superblock, known by its s_maxlen.   *)
(* The address an application gives is used as the block address.          *)
(***************************************************************************)
EXTENDS Integers, Sequences

CONSTANTS
  Controller, ActiveNs, MaxQpairs,   \* see TxdSpdk
  Addr,                              \* values of txd_addr
  Length,                            \* values of txd_size
  Blank,                             \* a block without a superblock
  Parts,                             \* what a whole journal consists of
  MaxJournals                        \* bound on the journals opened

VARIABLES
  proc, ret, g_controllers, g_namespaces, epoch, attached, io_qpairs, ready,
  disk, buf_user, io,      \* the device layer
  st, held, usable,        \* the journal being opened
  pc,                      \* control point of the application's thread
  args,                    \* txd_addr and txd_size of the current call
  buf,                     \* is tx_begin's superblock buffer allocated?
  last,                    \* what the last call returned
  journals                 \* the journals handed out

devVars == <<proc, ret, g_controllers, g_namespaces, epoch, attached, io_qpairs,
             ready, disk, buf_user, io>>
openVars == <<st, held, usable>>
apiVars == <<pc, args, buf, last, journals>>
vars == <<devVars, openVars, apiVars>>

Dev == INSTANCE TxdSpdk WITH Lba <- Addr, Data <- Length \cup {Blank}, Zeros <- Blank

ASSUME DriverAssumption ==
  Dev!ConstantsOK /\ Blank \notin Length /\ MaxJournals \in Nat

Open == INSTANCE JournalOpen WITH Whole <- Parts

FormatPCs == {"fmt_init", "fmt_qpair", "fmt_buf"}
BeginPCs  == {"sb_alloc", "read", "polling", "get", "opening", "load", "return",
              "out2", "out1", "cleanup"}

Journal == [addr : Addr, size : Length, usable : BOOLEAN]

TypeOK ==
  /\ Dev!TypeOK
  /\ st \in {"idle", "opening", "got", "loaded", "load_failed", "hung"}
  /\ held \subseteq Parts
  /\ usable \in BOOLEAN
  /\ pc \in {"idle", "aborted", "stopped"} \cup FormatPCs \cup BeginPCs
  /\ args \in [addr : Addr, size : Length]
  /\ buf \in BOOLEAN
  /\ last \in {"none", "formatted", "NULL", "journal"}
  /\ journals \in Seq(Journal)

Init ==
  /\ Dev!Init
  /\ Open!Init
  /\ pc = "idle"
  /\ args \in [addr : Addr, size : Length]
  /\ buf = FALSE
  /\ last = "none"
  /\ journals = << >>

-----------------------------------------------------------------------------
(* TXD_CHK_FAIL asserts that a call did not fail; a call may also end the  *)
(* process itself.                                                         *)
Checked(next) ==
  IF proc' # "running" THEN "stopped"
  ELSE IF ret' = "TXD_FAIL" THEN "aborted" ELSE next

FormatCall ==
  /\ pc = "idle"
  /\ pc' = "fmt_init"
  /\ args' \in [addr : Addr, size : Length]
  /\ last' = "none"
  /\ UNCHANGED <<devVars, openVars, buf, journals>>

FormatInit ==
  /\ pc = "fmt_init"
  /\ Dev!spdk_init
  /\ pc' = Checked("fmt_qpair")
  /\ UNCHANGED <<openVars, args, buf, last, journals>>

FormatQpair ==
  /\ pc = "fmt_qpair"
  /\ Dev!spdk_alloc_qpair
  /\ pc' = Checked("fmt_buf")
  /\ UNCHANGED <<openVars, args, buf, last, journals>>

(* Mutant of FormatBuffer: the call of spdk_free compiled in, the one of   *)
(* cleanup not.                                                            *)
FormatFreesQpair ==
  /\ pc = "fmt_buf"
  /\ Dev!spdk_free
  /\ pc' = Checked("idle")
  /\ last' = "formatted"
  /\ UNCHANGED <<openVars, args, buf, journals>>

(* The superblock is built in a buffer, or an assert fails because there   *)
(* is none; then the buffer is released.  Nothing is written.              *)
FormatBuffer ==
  /\ pc = "fmt_buf"
  /\ \/ pc' = "idle" /\ last' = "formatted"
     \/ pc' = "aborted" /\ UNCHANGED last
  /\ UNCHANGED <<devVars, openVars, args, buf, journals>>

tx_format == FormatCall \/ FormatInit \/ FormatQpair \/ FormatBuffer

-----------------------------------------------------------------------------
BeginCall ==
  /\ pc = "idle"
  /\ Len(journals) < MaxJournals
  /\ pc' = "sb_alloc"
  /\ args' \in [addr : Addr, size : Length]
  /\ last' = "none"
  /\ UNCHANGED <<devVars, openVars, buf, journals>>

SbAlloc ==
  /\ pc = "sb_alloc"
  /\ buf' \in BOOLEAN
  /\ pc' = IF buf' THEN "read" ELSE "out1"
  /\ UNCHANGED <<devVars, openVars, args, last, journals>>

BeginRead ==
  /\ pc = "read"
  /\ Dev!spdk_read_submit(args.addr, 1)
  /\ pc' = IF proc' = "running" THEN "polling" ELSE "stopped"
  /\ UNCHANGED <<openVars, args, buf, last, journals>>

(* Mutant of chk_txd_sb: compares the signature only.                      *)
ChkSignature(block) == block # Blank

(* spdk_read returns and chk_txd_sb compares signature and length.         *)
chk_txd_sb(block) == block = args.size

BeginPoll ==
  /\ pc = "polling"
  /\ Dev!read_complete
  /\ pc' = IF chk_txd_sb(buf_user') THEN "get" ELSE "out2"
  /\ UNCHANGED <<openVars, args, buf, last, journals>>

(* Mutant of GetJournal: its result is not tested for NULL.                *)
GetJournalUntested ==
  \/ /\ pc = "get"
     /\ Open!Begin
     /\ pc' = "opening"
     /\ UNCHANGED <<devVars, args, buf, last, journals>>
  \/ /\ pc = "opening"
     /\ \/ Open!Get /\ pc' = "load"
        \/ Open!GiveUp /\ pc' = "return"
     /\ UNCHANGED <<devVars, args, buf, last, journals>>

GetJournal ==
  \/ /\ pc = "get"
     /\ Open!Begin
     /\ pc' = "opening"
     /\ UNCHANGED <<devVars, args, buf, last, journals>>
  \/ /\ pc = "opening"
     /\ \/ Open!Get /\ pc' = "load"
        \/ Open!GiveUp /\ pc' = "out2"
     /\ UNCHANGED <<devVars, args, buf, last, journals>>

(* The result of txd_journal_load is ignored; tx_begin stays in a load     *)
(* that hangs.                                                             *)
LoadJournal ==
  /\ pc = "load"
  /\ \/ (Open!Load \/ Open!LoadFails) /\ pc' = "return"
     \/ Open!Hang /\ pc' = "load"
  /\ UNCHANGED <<devVars, args, buf, last, journals>>

(* The journal, with its superblock buffer, now belongs to the caller.     *)
ReturnJournal ==
  /\ pc = "return"
  /\ pc' = "idle"
  /\ last' = "journal"
  /\ journals' = Append(journals,
       [addr |-> args.addr, size |-> args.size, usable |-> usable])
  /\ buf' = FALSE
  /\ st' = "idle" /\ held' = {} /\ usable' = FALSE
  /\ UNCHANGED <<devVars, args>>

Out2 ==
  /\ pc = "out2"
  /\ buf' = FALSE
  /\ pc' = "out1"
  /\ UNCHANGED <<devVars, openVars, args, last, journals>>

Out1 ==
  /\ pc = "out1"
  /\ Dev!spdk_free
  /\ pc' = Checked("cleanup")
  /\ UNCHANGED <<openVars, args, buf, last, journals>>

(* Mutant of ReturnNull: returns before it cleans up.                      *)
ReturnNullAtOnce ==
  /\ pc = "cleanup"
  /\ pc' = "idle"
  /\ last' = "NULL"
  /\ UNCHANGED <<devVars, openVars, args, buf, journals>>

ReturnNull ==
  /\ pc = "cleanup"
  /\ Dev!cleanup
  /\ IF proc' = "running"
       THEN pc' = "idle" /\ last' = "NULL"
       ELSE pc' = "stopped" /\ UNCHANGED last
  /\ UNCHANGED <<openVars, args, buf, journals>>

BeginStep ==
  \/ SbAlloc \/ BeginRead \/ BeginPoll \/ GetJournal \/ LoadJournal
  \/ ReturnJournal \/ Out2 \/ Out1 \/ ReturnNull

tx_begin == BeginCall \/ BeginStep

(* tx_write, tx_commit and tx_abort return TXD_SUCCESS and do nothing.     *)
tx_stub == pc = "idle" /\ UNCHANGED vars

Device == Dev!DeviceExecutes /\ UNCHANGED <<openVars, apiVars>>

Next == tx_format \/ tx_begin \/ tx_stub \/ Device

Fairness == WF_vars(BeginStep) /\ WF_vars(Device)

Spec == Init /\ [][Next]_vars /\ Fairness

-----------------------------------------------------------------------------
(* When tx_begin returns NULL everything it and the calls before it took   *)
(* from the device layer is given back: no controller stays attached, no   *)
(* queue pair allocated, no buffer and no part of a journal is held.       *)
NullCleansUp ==
  last = "NULL" =>
    /\ attached = {} /\ ready = {}
    /\ \A c \in Controller : io_qpairs[c] = 0
    /\ ~buf /\ held = {} /\ io = Dev!NoIo

(* As long as no call has cleaned up, and there is a namespace, no order   *)
(* of calls makes the driver use an entry or a queue pair that is not      *)
(* there.                                                                  *)
UndefinedOnlyWithoutDevice ==
  proc = "undefined" => epoch = 1 \/ g_namespaces = << >>

(* tx_begin hands out a journal only for an area whose superblock on the   *)
(* device has the length asked for, also when a read fails.                *)
JournalsFromDisk ==
  \A i \in DOMAIN journals : disk[journals[i].addr] = journals[i].size

(* Every journal handed out is complete, and before it is the queue pair   *)
(* it will use is there.                                                   *)
ReturnsWholeJournal == pc = "return" => held = Parts /\ Dev!QpairUsable

(* A call of tx_begin returns, ends the process, or waits in               *)
(* txd_journal_load for a journald that could not be created; neither the  *)
(* polling of the device nor a failure of any other step holds it up.      *)
OnlyLoadHangs ==
  pc \in BeginPCs ~> pc \in {"idle", "aborted", "stopped"} \/ st = "hung"

-----------------------------------------------------------------------------
(* "format journal super block to txd_addr in NVMe through spdk": after    *)
(* tx_format has returned TXD_SUCCESS the superblock is at txd_addr.       *)
FormatWritesSuperblock == last = "formatted" => disk[args.addr] = args.size
=============================================================================

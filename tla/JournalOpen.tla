----------------------------- MODULE JournalOpen -----------------------------
(***************************************************************************)
(* What opening a journal promises, without how it is done: the caller     *)
(* either gets a whole journal or nothing at all; loading then succeeds,   *)
(* fails, or hangs for ever, as one step; only a journal that loaded is    *)
(* usable.                                                                 *)
(***************************************************************************)
CONSTANT Whole      \* everything a whole journal consists of

VARIABLES
  st,        \* where the call is
  held,      \* what the caller holds
  usable     \* may the journal take transactions?

vars == <<st, held, usable>>

Init == st = "idle" /\ held = {} /\ usable = FALSE

Begin == st = "idle" /\ st' = "opening" /\ UNCHANGED <<held, usable>>

GiveUp == st = "opening" /\ st' = "idle" /\ UNCHANGED <<held, usable>>

Get == st = "opening" /\ st' = "got" /\ held' = Whole /\ UNCHANGED usable

Load == st = "got" /\ st' = "loaded" /\ usable' = TRUE /\ UNCHANGED held

LoadFails == st = "got" /\ st' = "load_failed" /\ UNCHANGED <<held, usable>>

(* The load waits for a thread that could not be created.                  *)
Hang == st = "got" /\ st' = "hung" /\ UNCHANGED <<held, usable>>

Step == GiveUp \/ Get \/ Load \/ LoadFails \/ Hang

Next == Begin \/ Step

SafeSpec == Init /\ [][Next]_vars

(* A call that began returns or hangs: nothing but the lack of that thread *)
(* can hold it up.                                                         *)
Spec == SafeSpec /\ WF_vars(Step)
=============================================================================

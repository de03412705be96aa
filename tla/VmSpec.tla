------------------------------- MODULE VmSpec -------------------------------
(***************************************************************************)
(* What a named VM is to a user of hardpass: it exists with the            *)
(* configuration it was created with or not at all, and if it exists it is *)
(* on or off.  It may go off on its own; it is never removed while it is   *)
(* on, and never changes configuration.                                    *)
(***************************************************************************)
CONSTANTS Specs, None

VARIABLES
  vm,   \* the configuration, None when the VM does not exist
  on    \* is it running

Init == vm = None /\ on = FALSE

Create == /\ vm = None
          /\ vm' \in Specs
          /\ UNCHANGED on

TurnOn == /\ vm # None /\ ~on
          /\ on' = TRUE
          /\ UNCHANGED vm

TurnOff == /\ on
           /\ on' = FALSE
           /\ UNCHANGED vm

Remove == /\ vm # None /\ ~on
          /\ vm' = None
          /\ UNCHANGED on

Next == Create \/ TurnOn \/ TurnOff \/ Remove

Spec == Init /\ [][Next]_<<vm, on>>
=============================================================================

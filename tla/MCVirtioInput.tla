--------------------------- MODULE MCVirtioInput ---------------------------
(***************************************************************************)
(* VirtioInput on four machines: with a keyboard only, with a pointer      *)
(* only, with both and one buffer each, and with a device that has no      *)
(* name and one that has no queue.                                         *)
(***************************************************************************)
EXTENDS VirtioInput

Slot(id, name, max) == [id |-> id, name |-> name, max |-> max]

MCMachines ==
    {<<Slot("empty", "none", 0), Slot("input", "keyboard", 4)>>,
     <<Slot("other", "none", 2), Slot("input", "other", 2)>>,
     <<Slot("input", "other", 1), Slot("input", "keyboard", 1)>>,
     <<Slot("input", "none", 1), Slot("input", "keyboard", 0)>>}

MCKbdEvents ==
    [type : {"key"}, code : {"letter", "shift"}, value : {1}]

MCTabletEvents ==
    {[type |-> "abs_x", value |-> TABLET_ABS_MAX + 1],
     [type |-> "rel_y", value |-> -500]}
=============================================================================

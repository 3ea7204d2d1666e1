----------------------------- MODULE MCDesktop -----------------------------
(***************************************************************************)
(* Desktop on mouse positions that reach every rectangle of two windows.   *)
(* Their columns are 300 apart and their rows at least a title bar apart,  *)
(* which keeps the places windows can be dragged to few.                   *)
(***************************************************************************)
EXTENDS Desktop

At(px, py) == [x |-> px, y |-> py]

MCPoints ==
    {At(19, 470),       \* Start
     At(100, 470),      \* the first button of the taskbar
     At(19, 340),       \* Terminal on the menu
     At(19, 364),       \* Snake on the menu, and its window
     At(319, 10),       \* Snake's title bar
     At(619, 10),       \* Snake's close button
     At(319, 50),       \* Terminal's title bar
     At(619, 50)}       \* Terminal's close button
=============================================================================

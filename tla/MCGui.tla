-------------------------------- MODULE MCGui --------------------------------
(* Two disk numbers; a and b are USB sticks, c is the system disk. *)
EXTENDS Gui

CONSTANTS a, b, c

AllDisks == {a, b, c}
Sticks == {a, b}
OneStick == {a}
SystemDisk == {c}
NoDisks == {}
MCIdent == [d \in AllDisks |-> d]
BothSticks == <<a, b>>
=============================================================================

----------------------------- MODULE MCCleanDisk -----------------------------
(* Three USB disks that cannot be told apart: a is an ordinary stick, b the  *)
(* one DEADFLASH was started from, and c the one Windows runs from.  The     *)
(* first of three drive letters is that of the Windows volume, and a volume  *)
(* at the last one need not answer.  Two layouts besides RAW, which only a   *)
(* may have from the start.                                                  *)
EXTENDS CleanDisk

CONSTANTS a, b, c, raw, mbr, gpt, unknown, twin

MCDisks == {a, b, c}
MCIdent == [d \in MCDisks |-> twin]
MCConfirmation == <<twin, FALSE>>
MCLayouts == {raw, mbr, gpt}
MCSummary == [l \in MCLayouts |-> l]
MCInitial == [d \in MCDisks |-> IF d = a THEN {mbr, raw} ELSE IF d = b THEN {gpt} ELSE {mbr}]
NoDisks == {}
LastLetter == {3}
=============================================================================

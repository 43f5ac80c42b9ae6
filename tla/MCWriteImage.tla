----------------------------- MODULE MCWriteImage -----------------------------
(* Small worlds for WriteImage: three drives of four bytes, of which d1 and  *)
(* d2 cannot be told apart (no serial number), and images of three bytes,    *)
(* which are one whole chunk and one padded chunk.                           *)
EXTENDS WriteImage, TLC

CONSTANTS x, y, z, old, junk,       \* bytes; z is zero
          d1, d2, d3,               \* drives; d3 is the system disk where one is wanted
          twin, other               \* their identities

MCBytes == {x, y, z, old, junk}
MCImages == {<<x, y, x>>, <<x, x, y>>, <<y, x>>, << >>}
ThreeImages == {<<x, y, x>>, <<x, x, y>>, <<y, x>>}
OneImage == {<<x, y, x>>}
TwoImages == {<<x, y, x>>, <<x, x, y>>}
MCDevices == {d1, d2, d3}
MCIdent == [d \in MCDevices |-> IF d = d3 THEN other ELSE twin]
\* nothing but their names tells d1 and d2 apart
Twins == Permutations({d1, d2})
NoDisks == {}
SystemDisk == {d3}

Blank(n) == [i \in 1..n |-> old]

\* drives of four bytes, a drive too small for the image, and files shorter
\* and longer than the image
DriveMedia == {[o \in Objects |-> IF o = RegularFile THEN Blank(0) ELSE Blank(4)]}
SmallDriveMedia ==
    DriveMedia \cup {[o \in Objects |-> IF o = RegularFile THEN Blank(0) ELSE Blank(2)]}
FileMedia == {[o \in Objects |-> IF o = RegularFile THEN Blank(n) ELSE Blank(4)] : n \in {0, 2, 4}}

Option(mode, allow, force, truncate, token) ==
    [verify_mode |-> mode, allow_device |-> allow, force_mounted |-> force,
     force_system_disk |-> force, truncate_regular_file |-> truncate,
     confirmation_token |-> <<"device", token>>]

\* a confirmed write in each verification mode
ConfirmedOptions == {Option(m, TRUE, FALSE, TRUE, twin) : m \in {"none", "sample", "full"}}
FullOptions == {Option("full", TRUE, FALSE, TRUE, twin)}
\* every combination of permission, overrides and confirmed drive
GuardOptions == {Option("none", a, f, TRUE, t) : a, f \in BOOLEAN, t \in {twin, other}}
DriveOptions == ConfirmedOptions \cup GuardOptions
FileOptions == {Option(m, FALSE, FALSE, t, twin) : m \in {"none", "sample", "full"}, t \in BOOLEAN}
=============================================================================

---------------------------- MODULE MCFat32Format ----------------------------
(* Small worlds for Fat32Format.  The layouts are computed with the numbers  *)
(* of the code; the sizes are the smallest the formatter takes, two more at  *)
(* which the layout settles (drives have one of the two each), and two at    *)
(* which it does not, with one sector and with eight sectors a cluster.      *)
EXTENDS Fat32Format

CONSTANTS d1, d2, d3,       \* drives; d3 is the system disk
          twin, other       \* their identities

MCDevices == {d1, d2, d3}
MCIdent == [d \in MCDevices |-> IF d = d3 THEN other ELSE twin]
NoDisks == {}
SystemDisk == {d3}

Start == PartitionStart
\* sizes in sectors after the start of the partition
Least == 131072
Settles == 262144
Smaller == 196608       \* settles too
Swings == 131201        \* one sector a cluster: 1016 and 1017 in turn
SwingsByEight == 532518 \* eight sectors a cluster

\* the system disk is the smaller one: a volume laid out for d1 or d2 does not fit
MCSize == [d \in MCDevices |-> Start + (IF d = d3 THEN Smaller ELSE Settles)]
MCFileSizes == {Start + Settles}

\* one that fits every drive
Earlier == [run |-> 0, sectors |-> Smaller, spc |-> 1, fatsz |-> 1513, clusters |-> 193550]

Option(path, n, allow, force, token) ==
    [path |-> path, regular_file_size |-> n, allow_device |-> allow, force_mounted |-> force,
     force_system_disk |-> force, confirmation_token |-> <<"device", token>>]

DeviceOptions ==
    {Option("device", 0, TRUE, FALSE, twin), Option("device", 0, FALSE, FALSE, twin)}
        \cup {Option("device", 0, TRUE, f, other) : f \in BOOLEAN}
FileOptions ==
    {Option("file", n, FALSE, FALSE, twin) :
        n \in {0, Start + Least - 1, Start + Least, Start + Swings, Start + SwingsByEight}}
AllOptions == DeviceOptions \cup FileOptions
=============================================================================

----------------------------- MODULE Fat32Format -----------------------------
(***************************************************************************)
(* df_format_fat32 and df_verify_fat32 (src/src/fat32.c) as the commands   *)
(* format-fat32 and verify-fat32 of src/src/main.c run them, one after the *)
(* other, on drives that may be pulled, swapped or mounted meanwhile, with *)
(* writes that fail and a process that may be killed.                      *)
(*                                                                         *)
(* Of a target the model keeps the sectors the formatter writes, named by  *)
(* their role, twice: what a read returns, and what is left when the drive *)
(* is pulled, since nothing need reach the medium before the flush.  A     *)
(* sector is foreign, zero, or part of a volume, which is represented by   *)
(* the numbers a boot sector holds and the run that wrote it.              *)
(***************************************************************************)
EXTENDS Fat32Layout, Sequences, FiniteSets

CONSTANTS
    Devices, RegularFile, Missing,
    Ident,              \* Ident[d]: the fields hashed into drive d's token
    SystemDisks, ReadOnlyDisks,     \* as the inspection classifies drives
    Size,               \* Size[d]: sectors of drive d
    FileSizes,          \* sectors the regular file may have at first
    Options,            \* the df_fat32_options the operator may pass
    Posix,              \* POSIX build (FALSE: Windows)
    Chunk,              \* sectors zeroed by one write (2048)
    Foreign, ZeroSector,    \* contents of a sector that belongs to no volume
    EarlierVolume,      \* a volume that may be on the targets at first
    MaxSwaps, MaxMounts, MaxRuns    \* bounds

Objects == Devices \cup {RegularFile}

ASSUME FormatAssumption ==
    /\ RegularFile \notin Devices /\ Missing \notin Objects
    /\ SystemDisks \subseteq Devices /\ ReadOnlyDisks \subseteq Devices
    /\ Size \in [Devices -> Nat] /\ FileSizes \subseteq Nat
    /\ \A o \in Options : o.regular_file_size \in Nat
    /\ Posix \in BOOLEAN /\ Chunk \in Nat \ {0}
    /\ {MaxSwaps, MaxMounts, MaxRuns} \subseteq Nat
\* the hashed fields include the size, the read-only and the system-disk flag
ASSUME SameTokenAssumption ==
    \A c, d \in Devices : Ident[c] = Ident[d] =>
        /\ Size[c] = Size[d]
        /\ c \in SystemDisks <=> d \in SystemDisks
        /\ c \in ReadOnlyDisks <=> d \in ReadOnlyDisks

VARIABLES
    (* the world *)
    bound,      \* the object the path names now
    size,       \* size[o] in sectors
    disk,       \* disk[o][r]: what reading the sector with role r returns
    durable,    \* durable[o][r]: what it held when o was last flushed
    mounted,    \* drives the inspection finds a mounted volume on
    swaps, mounts, runs,
    (* the program *)
    command,    \* "format" or "verify"
    pc, opts, planned,
    target,     \* the open df_file
    position,   \* sectors zeroed, then sectors with a role written
    mbr, boot,  \* what verification has read
    answer,     \* the layout it returned
    status,
    (* observers *)
    touched,    \* objects whose bytes this run has changed
    raced,      \* the path was rebound between re-inspection and open
    torn,       \* objects that were pulled and lost something
    checked     \* the object verification has opened

call == <<command, opts>>
world == <<bound, size, disk, durable, mounted, swaps, mounts, runs>>
answers == <<mbr, boot, answer>>
observers == <<touched, raced, torn, checked>>
vars == <<layout, world, call, pc, planned, target, position, answers, status, observers>>

-----------------------------------------------------------------------------
(* Sectors with a role.                                                    *)

\* Seeded defect: the backup of the boot sector is forgotten.
WrittenNoBackup == <<"mbr", "boot", "fsinfo", "fsinfo2", "fat1", "fat2", "root">>

\* The sectors written after the zeroing, in the order of the code.
Written == <<"mbr", "boot", "boot2", "fsinfo", "fsinfo2", "fat1", "fat2", "root">>

Roles == {"mbr", "boot", "boot2", "fsinfo", "fsinfo2", "fat1", "fat2", "root"}

\* Where a sector with a role lies, counted from the start of the partition;
\* the MBR lies outside of it.
Place(r) ==
    [mbr |-> -PartitionStart, boot |-> 0, fsinfo |-> 1, boot2 |-> 6, fsinfo2 |-> 7,
     fat1 |-> ReservedSectors, fat2 |-> ReservedSectors + sectors_per_fat,
     root |-> ReservedSectors + 2 * sectors_per_fat][r]

\* Seeded defect: zeroing starts at the FATs.
ZeroStartAtFats == ReservedSectors

\* Zeroing starts with the first sector of the partition and ends with the
\* first cluster.
ZeroStart == 0
ZeroEnd == ReservedSectors + 2 * sectors_per_fat + sectors_per_cluster

Volume == [run |-> runs, sectors |-> total_sectors, spc |-> sectors_per_cluster,
           fatsz |-> sectors_per_fat, clusters |-> clusters]

Empty == {Foreign, ZeroSector}

\* All the sectors of a volume are there.
Complete(d) == d["mbr"] \notin Empty /\ \A r \in Roles : d[r] = d["mbr"]

\* The sectors of the open target in the set rs get the content c.
Put(rs, c) ==
    /\ disk' = [disk EXCEPT ![target.obj] = [r \in Roles |-> IF r \in rs THEN c ELSE @[r]]]
    /\ touched' = touched \cup {target.obj}

-----------------------------------------------------------------------------
(* The device layer, as WriteImage describes it.                           *)

SizeOf(o) == IF o = Missing THEN 0 ELSE size[o]

Token(o) == IF o \in Devices THEN <<"device", Ident[o]>> ELSE <<"file", SizeOf(o)>>

Descriptor(o) ==
    [is_device   |-> o \in Devices,
     size        |-> SizeOf(o),
     read_only   |-> o \in ReadOnlyDisks,
     system_disk |-> o \in SystemDisks,
     mounted     |-> o \in mounted,
     token       |-> Token(o)]

Inspectable == bound # Missing \/ Posix \/ opts.path = "file"

\* Seeded defect: the overrides are handed on as if both were given.
AuthorizedByForce(info) ==
    info.is_device => opts.allow_device /\ ~info.read_only
                      /\ opts.confirmation_token = info.token

Authorized(info) ==
    info.is_device =>
      /\ opts.allow_device
      /\ ~info.read_only
      /\ info.system_disk => opts.force_system_disk
      /\ (Posix /\ info.mounted) => opts.force_mounted
      /\ opts.confirmation_token = info.token

NoFile == [obj |-> Missing, is_device |-> FALSE, size |-> 0, live |-> FALSE]

Out(s) == pc' = "done" /\ status' = s /\ target' = NoFile

-----------------------------------------------------------------------------
(* df_format_fat32                                                         *)

TargetSize(info) ==
    IF ~info.is_device /\ opts.regular_file_size # 0 THEN opts.regular_file_size ELSE info.size

Inspect ==
    /\ pc = "inspect"
    /\ \/ Out("open") /\ UNCHANGED <<layout, planned>>
       \/ /\ Inspectable
          /\ planned' = Descriptor(bound)
          /\ Begin(TargetSize(planned'))
          /\ IF step' = "refused" THEN Out("size")
             ELSE pc' = "layout" /\ UNCHANGED <<status, target>>
    /\ UNCHANGED <<world, call, position, answers, observers>>

ComputeLayout ==
    /\ pc = "layout"
    /\ Iterate \/ Limits
    /\ IF step' = "refused" THEN Out("size")
       ELSE /\ pc' = IF step' = "ready" THEN "reinspect" ELSE pc
            /\ UNCHANGED <<status, target>>
    /\ UNCHANGED <<world, call, planned, position, answers, observers>>

\* df_open_target up to the open.
Reinspect ==
    /\ pc = "reinspect"
    /\ LET info == Descriptor(bound)
       IN  \/ Out("open")
           \/ Inspectable /\ info.token # planned.token /\ Out("identity_changed")
           \/ Inspectable /\ info.token = planned.token /\ ~Authorized(info) /\ Out("refused")
           \/ /\ Inspectable /\ info.token = planned.token /\ Authorized(info)
              /\ target' = [obj |-> Missing, is_device |-> info.is_device,
                            size |-> info.size, live |-> FALSE]
              /\ pc' = "open_target"
              /\ UNCHANGED status
    /\ UNCHANGED <<layout, world, call, planned, position, answers, observers>>

OpenTarget ==
    /\ pc = "open_target"
    /\ \/ Out("open") /\ UNCHANGED <<bound, size, disk>>
       \/ /\ IF bound # Missing THEN UNCHANGED <<bound, size, disk>>
             ELSE /\ ~target.is_device
                  /\ bound' = RegularFile
                  /\ size' = [size EXCEPT ![RegularFile] = 0]
                  /\ disk' = [disk EXCEPT ![RegularFile] = [r \in Roles |-> ZeroSector]]
          /\ target' = [target EXCEPT !.obj = bound', !.live = TRUE]
          /\ pc' = "resize"
          /\ UNCHANGED status
    /\ UNCHANGED <<layout, durable, mounted, swaps, mounts, runs, call, planned, position,
                   answers, observers>>

\* A regular file gets the size the layout was computed for; what is appended
\* reads as zero.
Resize ==
    /\ pc = "resize"
    /\ LET wanted == TargetSize(planned)
           needed == ~target.is_device /\ target.size # wanted
       IN  \/ needed /\ Out("io") /\ UNCHANGED <<size, touched>>
           \/ /\ ~needed
              /\ pc' = "zero"
              /\ UNCHANGED <<size, touched, status, target>>
           \/ /\ needed /\ target.obj = RegularFile
              /\ size' = [size EXCEPT ![RegularFile] = wanted]
              /\ touched' = touched \cup {RegularFile}
              /\ target' = [target EXCEPT !.size = wanted]
              /\ pc' = "zero"
              /\ UNCHANGED status
    /\ position' = ZeroStart
    /\ UNCHANGED <<layout, bound, disk, durable, mounted, swaps, mounts, runs, call, planned,
                   answers, raced, torn, checked>>

\* The open target has a sector at place; a file grows with what is written.
Within(place) == target.obj \in Devices => PartitionStart + place < size[target.obj]

\* zero_region, one write a step; a write that fails may have zeroed any part.
\* The zero buffer may not be had at all.
ZeroRegion ==
    /\ pc = "zero"
    /\ LET end    == IF position + Chunk <= ZeroEnd THEN position + Chunk ELSE ZeroEnd
           region == {r \in Roles : position <= Place(r) /\ Place(r) < end}
       IN  \/ /\ target.live /\ Within(end - 1)
              /\ Put(region, ZeroSector)
              /\ IF end = ZeroEnd THEN pc' = "write" /\ position' = 0
                 ELSE position' = end /\ UNCHANGED pc
              /\ UNCHANGED <<status, target>>
           \/ Out("io") /\ UNCHANGED <<disk, touched, position>>
           \/ /\ target.live
              /\ \E k \in region :
                   Within(Place(k)) /\ Put({r \in region : Place(r) <= Place(k)}, ZeroSector)
              /\ Out("io") /\ UNCHANGED position
    /\ UNCHANGED <<layout, bound, size, durable, mounted, swaps, mounts, runs, call, planned,
                   answers, raced, torn, checked>>

\* One write_exact of a sector with a role; one that fails may have changed it.
WriteSector ==
    /\ pc = "write" /\ position < Len(Written)
    /\ LET role == Written[position + 1]
       IN  \/ /\ target.live /\ Within(Place(role))
              /\ Put({role}, Volume)
              /\ position' = position + 1
              /\ UNCHANGED <<pc, status, target>>
           \/ Out("io") /\ UNCHANGED <<disk, touched, position>>
           \/ /\ target.live /\ Within(Place(role))
              /\ Put({role}, Volume) /\ Out("io")
              /\ UNCHANGED position
    /\ UNCHANGED <<layout, bound, size, durable, mounted, swaps, mounts, runs, call, planned,
                   answers, raced, torn, checked>>

\* Seeded defect: the result of the flush is ignored.
FlushResultIgnored(failed) == "ok"

\* The status df_flush leaves.
FlushResult(failed) == IF failed THEN "io" ELSE "ok"

Flush ==
    /\ pc = "write" /\ position = Len(Written)
    /\ \/ Out(FlushResult(TRUE)) /\ UNCHANGED durable
       \/ /\ target.live
          /\ durable' = [durable EXCEPT ![target.obj] = disk[target.obj]]
          /\ Out(FlushResult(FALSE))
    /\ UNCHANGED <<layout, bound, size, disk, mounted, swaps, mounts, runs, call, planned,
                   position, answers, observers>>

-----------------------------------------------------------------------------
(* df_verify_fat32                                                         *)

NoAnswer == [sectors |-> 0, spc |-> 0, fatsz |-> 0, clusters |-> 0]

Numbers(m, b) ==
    /\ b.spc # 0 /\ b.fatsz # 0
    /\ m.sectors > ReservedSectors + 2 * b.fatsz

\* Seeded defect: one check too many, which the formatter's own volumes fail.
SoundAndCovered(m, b) ==
    /\ Numbers(m, b)
    /\ LET c == ClustersBeside(m.sectors, b.fatsz, b.spc)
       IN  c >= MinClusters /\ c < MaxClusters /\ FatFor(c) <= b.fatsz

\* The numbers of an MBR m and a boot sector b make a volume.
Sound(m, b) ==
    /\ Numbers(m, b)
    /\ LET c == ClustersBeside(m.sectors, b.fatsz, b.spc) IN c >= MinClusters /\ c < MaxClusters

\* Inspection, open and the read of the MBR.  What the inspection found is not
\* looked at again.
VerifyMbr ==
    /\ pc = "verify"
    /\ \/ Out("io") /\ UNCHANGED <<mbr, checked>>
       \/ /\ bound # Missing /\ checked' = bound
          /\ mbr' = disk[bound]["mbr"]
          /\ IF mbr' \in Empty THEN Out("format")
             ELSE /\ target' = [obj |-> bound, is_device |-> bound \in Devices,
                                size |-> SizeOf(bound), live |-> TRUE]
                  /\ pc' = "verify_boot"
                  /\ UNCHANGED status
    /\ UNCHANGED <<layout, world, call, planned, position, boot, answer, touched, raced, torn>>

\* The boot sector at the place the MBR names, and the numbers in both.
VerifyBoot ==
    /\ pc = "verify_boot"
    /\ \/ Out("io") /\ UNCHANGED <<boot, answer>>
       \/ /\ target.live
          /\ boot' = disk[target.obj]["boot"]
          /\ IF boot' \in Empty \/ ~Sound(mbr, boot')
             THEN Out("format") /\ UNCHANGED answer
             ELSE /\ answer' = [sectors |-> mbr.sectors, spc |-> boot'.spc, fatsz |-> boot'.fatsz,
                                clusters |-> ClustersBeside(mbr.sectors, boot'.fatsz, boot'.spc)]
                  /\ Out("ok")
    /\ UNCHANGED <<layout, world, call, planned, position, mbr, observers>>

-----------------------------------------------------------------------------
(* The world.                                                              *)

Running == pc \notin {"done", "killed"}

\* The rounds of the layout make no system call: what the world does meanwhile
\* can as well be done before them or after.
Exposed == Running /\ pc # "layout"

idle == <<layout, call, planned, position, answers>>

\* The sectors that may lose what was not flushed when a drive is pulled: the
\* MBR and the boot sector, which verification reads, each, or none at all.
Losses == {Roles \ kept : kept \in SUBSET {"mbr", "boot"} \cup {Roles}}

\* The drive is pulled, with what was not flushed; another may take its path.
SwapDrive ==
    /\ Exposed /\ swaps < MaxSwaps /\ opts.path = "device" /\ bound # RegularFile
    /\ \E b \in (Devices \cup {Missing}) \ {bound} : bound' = b
    /\ target' = [target EXCEPT !.live = FALSE]
    /\ IF bound = Missing THEN UNCHANGED <<disk, durable, torn>>
       ELSE \E lost \in Losses :
              /\ disk' = [disk EXCEPT ![bound] =
                            [r \in Roles |-> IF r \in lost THEN durable[bound][r] ELSE @[r]]]
              /\ durable' = [durable EXCEPT ![bound] = disk'[bound]]
              /\ torn' = IF disk' = disk THEN torn ELSE torn \cup {bound}
    /\ raced' = (raced \/ pc = "open_target")
    /\ swaps' = swaps + 1
    /\ UNCHANGED <<idle, size, mounted, mounts, runs, pc, status, touched, checked>>

Mount ==
    /\ Exposed /\ mounts < MaxMounts
    /\ \E d \in Devices : mounted' = IF d \in mounted THEN mounted \ {d} ELSE mounted \cup {d}
    /\ mounts' = mounts + 1
    /\ UNCHANGED <<idle, bound, size, disk, durable, swaps, runs, pc, target, status, observers>>

\* The process is killed; the system still writes back what it was handed.
Kill ==
    /\ Exposed
    /\ pc' = "killed" /\ target' = NoFile
    /\ UNCHANGED <<idle, world, status, observers>>

\* The next command, format-fat32 or verify-fat32, on the same path.
Run ==
    /\ ~Running /\ runs < MaxRuns
    /\ \/ /\ command' = "format" /\ pc' = "inspect"
          /\ \E o \in Options : o.path = opts.path /\ opts' = o
       \/ command' = "verify" /\ pc' = "verify" /\ opts' = opts
    /\ planned' = Descriptor(Missing) /\ target' = NoFile /\ position' = 0
    /\ mbr' = Foreign /\ boot' = Foreign /\ answer' = NoAnswer /\ status' = "running"
    /\ touched' = {} /\ raced' = FALSE /\ checked' = Missing
    /\ runs' = runs + 1
    /\ UNCHANGED <<layout, bound, size, disk, durable, mounted, swaps, mounts, torn>>

-----------------------------------------------------------------------------
Init ==
    /\ InitLayout
    /\ opts \in Options
    /\ bound \in IF opts.path = "device" THEN Devices ELSE {RegularFile, Missing}
    /\ \E n \in FileSizes : size = [o \in Objects |-> IF o = RegularFile THEN n ELSE Size[o]]
    /\ \E c \in {Foreign, EarlierVolume} : disk = [o \in Objects |-> [r \in Roles |-> c]]
    /\ durable = disk
    /\ mounted \in IF opts.path = "device" THEN {{}, Devices} ELSE {{}}
    /\ swaps = 0 /\ mounts = 0 /\ runs = 1
    /\ \/ command = "format" /\ pc = "inspect"
       \/ command = "verify" /\ pc = "verify"
    /\ planned = Descriptor(Missing) /\ target = NoFile /\ position = 0
    /\ mbr = Foreign /\ boot = Foreign /\ answer = NoAnswer /\ status = "running"
    /\ touched = {} /\ raced = FALSE /\ torn = {} /\ checked = Missing

Step ==
    \/ Inspect \/ ComputeLayout \/ Reinspect \/ OpenTarget \/ Resize \/ ZeroRegion \/ WriteSector
    \/ Flush \/ VerifyMbr \/ VerifyBoot

Environment == SwapDrive \/ Mount \/ Kill \/ Run

Next == Step \/ Environment

Spec == Init /\ [][Next]_vars

\* The process runs: a system call that can return eventually does.
FairSpec == Spec /\ WF_vars(Step)

-----------------------------------------------------------------------------
(* Properties.                                                             *)

Succeeded(c) == command = c /\ pc = "done" /\ status = "ok"

SectorsDurable ==
    Succeeded("format") =>
        \E o \in touched : \A r \in Roles : durable[o][r] = Volume

VolumeFits ==
    Succeeded("format") =>
        \A o \in touched : raced \/ PartitionStart + total_sectors <= size[o]

\* The formatter says success only when every sector of the volume, the copies
\* included, would still be there if the drive were pulled at once, and when the
\* volume ends within the target it was put on, although its layout was computed
\* from an earlier inspection of the path, of a drive that may have had another
\* size; a swap between the re-inspection and the open excepted.
\* (fat32.c:252-264: inspection, layout, open; 268-318: zeroing, the order of the
\* writes, the flush.)
SuccessIsDurable == SectorsDurable /\ VolumeFits

\* Verification accepts only an MBR and a boot sector of the same volume: a
\* format that failed or was killed on top of an earlier volume never leaves a
\* mixture that passes, unless the drive was pulled before the flush.
\* (fat32.c:272: the partition is zeroed before the MBR changes.)
AcceptedIsOneVolume ==
    (Succeeded("verify") /\ checked \notin torn) => mbr = boot

\* A volume that is complete passes verification, at every size the formatter
\* takes, and is read as it was laid out: the reader counts at least the clusters
\* the formatter reported, and at most as many as a FAT has entries.  (Two of
\* those are reserved; where the layout did not settle, the reader counts more
\* clusters than the formatter did, and the FAT may miss the last two.)
\* (fat32.c:88-112 against 356-381; tests/test_fat32.c:32-36.)
CompleteIsRead ==
    (command = "verify" /\ pc = "done" /\ checked # Missing /\ Complete(disk[checked])) =>
        /\ status # "format"
        /\ status = "ok" =>
              /\ answer.sectors = boot.sectors /\ answer.fatsz = boot.fatsz
              /\ answer.spc = boot.spc
              /\ boot.clusters <= answer.clusters /\ answer.clusters <= 128 * boot.fatsz

\* The operator allowed and confirmed drive d.
Granted(d) ==
    /\ opts.allow_device
    /\ d \notin ReadOnlyDisks
    /\ d \in SystemDisks => opts.force_system_disk
    /\ opts.confirmation_token = <<"device", Ident[d]>>

\* No sector of a drive changes unless the operator allowed drives and confirmed
\* that drive's token, and it is neither read-only nor the system disk (unless
\* that was forced); a swap between the re-inspection and the open excepted.
\* (fat32.c:255-262 and device.c: df_validate_destructive_target.)
OnlyConfirmedDrivesFormatted == \A d \in touched \cap Devices : raced \/ Granted(d)

\* Both commands come to an end for every size of the target.  (The loop of the
\* layout does not settle for some: fat32.c:88.)
Terminates == [](Running => <>~Running)

-----------------------------------------------------------------------------
(* The inductive invariant behind SuccessIsDurable and                     *)
(* OnlyConfirmedDrivesFormatted.                                           *)

IsDisk(f) == f = [o \in Objects |-> [r \in Roles |-> f[o][r]]]

TargetType == [obj : Objects \cup {Missing}, is_device : BOOLEAN, size : Nat, live : BOOLEAN]

Shape ==
    /\ opts \in Options
    /\ bound \in Objects \cup {Missing}
    /\ size \in [Objects -> Nat]
    /\ planned.size \in Nat
    /\ target \in TargetType
    /\ IsDisk(disk) /\ IsDisk(durable)

\* What the path names while it is authorized, and what the handle is open on
\* after that.
HandleInv ==
    /\ pc = "open_target" => raced \/ (bound \in Devices => Granted(bound))
    /\ pc \in {"resize", "zero", "write"} =>
         target.obj \in Objects /\ (raced \/ (target.obj \in Devices => Granted(target.obj)))

\* As long as the drive is there it holds the sectors written so far.
WrittenInv ==
    /\ pc = "write" =>
         /\ position \in 0..Len(Written)
         /\ target.obj \in touched
         /\ target.live => \A i \in 1..position : disk[target.obj][Written[i]] = Volume
    /\ pc \in {"verify", "verify_boot"} => command = "verify"

FormatInv ==
    /\ Shape /\ HandleInv /\ WrittenInv
    /\ OnlyConfirmedDrivesFormatted /\ SectorsDurable

\* The invariant behind VolumeFits: the volume fits a target of the size that was
\* planned with, and that is the size of what is authorized and opened.
Planned == {"layout", "reinspect", "open_target", "resize", "zero", "write"}

Described(info) ==
    /\ info.is_device \in BOOLEAN
    /\ info.is_device =>
          \E d \in Devices : info.token = <<"device", Ident[d]>> /\ info.size = Size[d]
    /\ ~info.is_device => info.token = <<"file", info.size>>

FitInv ==
    /\ \A d \in Devices : size[d] = Size[d]
    /\ pc \in Planned =>
          /\ Described(planned) /\ total_sectors \in Nat
          /\ PartitionStart + total_sectors <= TargetSize(planned)
    /\ pc \in {"open_target", "resize"} =>
          target.is_device = planned.is_device /\ target.size = planned.size
    /\ pc = "open_target" => raced \/ SizeOf(bound) = planned.size
    /\ pc = "resize" => raced \/ size[target.obj] = planned.size
    /\ pc \in {"zero", "write"} => raced \/ TargetSize(planned) <= size[target.obj]
    /\ pc \in {"inspect", "layout", "reinspect", "open_target"} => touched = {}
    /\ pc \in {"resize", "zero", "write"} => touched \subseteq {target.obj}
    /\ VolumeFits

-----------------------------------------------------------------------------
(* The inductive invariant behind AcceptedIsOneVolume and CompleteIsRead.   *)

\* A volume as the formatter lays one out.
LaidOut(v) ==
    /\ Sound(v, v)
    /\ v.clusters <= ClustersBeside(v.sectors, v.fatsz, v.spc)
    /\ ClustersBeside(v.sectors, v.fatsz, v.spc) <= 128 * v.fatsz

\* The volume that is there at first is one the formatter has made.
ASSUME EarlierAssumption == EarlierVolume \in Empty \/ LaidOut(EarlierVolume)

\* The reader's upper limit leaves room for every volume: it is above the clusters
\* of the largest volume with 8, 16 or 32 sectors a cluster, and of the largest at
\* all, which has 64.  (fat32.c:9, 49-55 and 80.)
ASSUME LimitAssumption ==
    MinClusters > 0 /\ MaxClusters > 2097152 /\ MaxSectors \div 64 < MaxClusters

\* The steps of a format are taken by a format only.
CommandInv ==
    pc \in {"inspect", "layout", "reinspect", "open_target", "resize", "zero", "write"} =>
        command = "format"

\* Every sector with a role is empty or part of a volume that was laid out, and
\* from the computation of the layout on the next one to be written is that too.
ContentsInv ==
    /\ \A o \in Objects : \A r \in Roles :
          /\ disk[o][r] \in Empty \/ LaidOut(disk[o][r])
          /\ durable[o][r] \in Empty \/ LaidOut(durable[o][r])
    /\ pc = "layout" => sectors_per_cluster = ChooseSectorsPerCluster(total_sectors)
    /\ pc \in {"reinspect", "open_target", "resize", "zero", "write"} => LaidOut(Volume)

\* An MBR never stands beside the boot sector of another volume.
OneVolume(d) == d["mbr"] = d["boot"] \/ d["mbr"] \in Empty \/ d["boot"] \in Empty

\* The boot sector goes first: it is zero from the first write on until the MBR
\* is written.
OrderInv ==
    /\ \A o \in Objects \ torn : OneVolume(disk[o])
    /\ pc = "zero" => position \in Nat
    /\ (target.live /\ ((pc = "zero" /\ position > 0) \/ (pc = "write" /\ position = 0))) =>
          disk[target.obj]["boot"] = ZeroSector

\* What verification has read is still there as long as the drive is.
ReadInv ==
    pc = "verify_boot" =>
        /\ mbr \notin Empty
        /\ target.live => /\ target.obj \in Objects /\ checked = target.obj
                          /\ mbr = disk[target.obj]["mbr"]

VolumeInv ==
    ContentsInv /\ OrderInv /\ ReadInv /\ AcceptedIsOneVolume /\ CompleteIsRead
=============================================================================

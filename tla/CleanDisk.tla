------------------------------ MODULE CleanDisk ------------------------------
(***************************************************************************)
(* df_clean_disk (src/src/clean.c, Windows) and the volume locks it takes  *)
(* through df_open_target (src/src/device.c): a removable USB disk is      *)
(* inspected, its partition layout read, every volume on it locked and     *)
(* dismounted, the layout read again through the locked handle, deleted,   *)
(* and the result probed until it reads back as RAW without mounts.        *)
(*                                                                         *)
(* Meanwhile disk numbers may be handed to other disks, volumes come and   *)
(* go and are in use, other tools repartition, a query may be answered by  *)
(* a disk that is not ready, and a volume that cannot be opened or queried *)
(* counts for the code as lying on another disk.  A layout is a model      *)
(* value; what the code compares of it (style, number of partitions,       *)
(* signature) is its Summary.                                              *)
(***************************************************************************)
EXTENDS Naturals

CONSTANTS
    Disks,          \* physical disks
    Missing,        \* the disk number names nothing
    Ident,          \* Ident[d]: the fields hashed into disk d's token
    UsbDisks,       \* removable disks on the USB bus
    SystemDisk,     \* the disk with the Windows volume
    ReadOnlyDisks,
    ProgramDisk,    \* the disk DEADFLASH was started from
    Layouts,        \* partition layouts
    Raw,            \* the layout without partitions
    Unknown,        \* what a failed layout query leaves in its snapshot
    Summary,        \* Summary[l]: what df_clean_layout_equal compares of layout l
    InitialLayouts, \* InitialLayouts[d]: what disk d may be found with
    MaxLetter,      \* drive letters are 1..MaxLetter
    WindowsLetter,  \* the letter of the Windows volume, which is always in use
    Opaque,         \* letters whose volume need not answer when it is queried
    Confirmation,   \* the token the operator confirmed
    LockTries,      \* attempts at locking a volume (20)
    Attempts,       \* attempts at verifying the result (20)
    MaxSwaps, MaxMounts, MaxRepartitions    \* bounds

Letters == 1..MaxLetter

ASSUME DiskAssumption ==
    /\ Missing \notin Disks
    /\ UsbDisks \subseteq Disks /\ ReadOnlyDisks \subseteq Disks
    /\ {SystemDisk, ProgramDisk} \subseteq Disks
    /\ Raw \in Layouts /\ Unknown \notin Layouts
    /\ \A l \in Layouts : Summary[l] = Summary[Raw] <=> l = Raw
    /\ InitialLayouts \in [Disks -> SUBSET Layouts] /\ Raw \notin InitialLayouts[SystemDisk]
ASSUME BoundAssumption ==
    /\ {LockTries, Attempts} \subseteq Nat \ {0}
    /\ {MaxLetter, MaxSwaps, MaxMounts, MaxRepartitions} \subseteq Nat
    /\ WindowsLetter \in Letters /\ Opaque \subseteq Letters
ASSUME IdentAssumption ==
    \A c, d \in Disks : Ident[c] = Ident[d] => (c \in ReadOnlyDisks <=> d \in ReadOnlyDisks)

VARIABLES
    (* the world *)
    bound,      \* the disk the number names now
    layout,     \* layout[d]: partition layout of disk d
    volume,     \* volume[l]: the disk letter l's volume lies on, or Missing
    busy,       \* letters with open files: locking them fails
    swaps, mounts, repartitions,    \* how much of each bound is used up
    (* the program *)
    pc,         \* the next system call
    before,     \* result.before_target: the disk that was inspected, its token, and
                \* whether a volume was seen on it
    planned,    \* summary of planned_layout
    handle,     \* the disk the write handle is open on
    live,       \* that disk is still there
    drives,     \* the letters GetLogicalDrives returned
    letter,     \* the letter to be locked next
    tries,      \* failed attempts at locking it
    held,       \* locked and dismounted volumes
    attempt,    \* verification attempts made
    verified,   \* verified_layout, which no probe may have written
    final_state, layout_deleted, after_style, status,
    (* observers *)
    deleted,    \* disks whose layout this run deleted
    raced,      \* the number was rebound between re-inspection and open
    moved,      \* the number was rebound since the inspection
    dirtied,    \* a layout was changed by another tool since it was last read
    unready,    \* the disk was not ready when its layout was last read
    enumerated  \* volumes of the disk when its letters were enumerated

world == <<bound, layout, volume, busy, swaps, mounts, repartitions>>
locking == <<handle, live, drives, letter, tries, held, enumerated>>
report == <<final_state, layout_deleted, after_style>>
trust == <<dirtied, unready>>
outcome == <<report, status, deleted>>
vars == <<world, pc, before, planned, locking, attempt, verified, outcome, raced, moved, trust>>

-----------------------------------------------------------------------------
VolumesOf(d) == {l \in Letters : volume[l] = d}

\* df_windows_mount_state: the volumes of disk d that a scan of the letters may
\* find.  df_volume_uses_disk says no of a volume it cannot open or query.
Sightings(d) == {VolumesOf(d) \ unseen : unseen \in SUBSET Opaque}

\* df_compute_target_token.  The system-disk flag is hashed with the other
\* fields, and it is what the scan found; the mount state is not hashed.
Token(d, seen) == <<Ident[d], WindowsLetter \in seen>>

\* Every answer df_clean_query_layout_handle may get from disk d: its layout,
\* or RAW because the disk is not ready.
Answers(d) == {layout[d], Raw}

\* Seeded defect: partitions are not compared.
SameLayoutAssumed(a, b) == TRUE

\* df_clean_layout_equal
SameLayout(a, b) == a = b

\* Seeded defect: the disk DEADFLASH runs from is not excluded.
CleanableAnywhere(d, seen) ==
    /\ d \in UsbDisks
    /\ d \notin ReadOnlyDisks /\ WindowsLetter \notin seen
    /\ Confirmation = Token(d, seen)

\* df_clean_validate_target; the program's disk is known by its number, which
\* is the number under inspection iff the number names the program's disk.
Cleanable(d, seen) ==
    /\ d \in UsbDisks
    /\ d \notin ReadOnlyDisks /\ WindowsLetter \notin seen
    /\ d # ProgramDisk
    /\ Confirmation = Token(d, seen)

\* df_validate_destructive_target with the options df_clean_disk passes
Authorized(d, seen) ==
    d \notin ReadOnlyDisks /\ WindowsLetter \notin seen /\ Confirmation = Token(d, seen)

\* Seeded defect: the handle is dropped without unlocking the volumes.
CloseLeavingLocks == handle' = Missing /\ live' = FALSE /\ UNCHANGED held

\* df_close_file: unlock every volume, then close the disk.
Close == handle' = Missing /\ live' = FALSE /\ held' = {}

Fail(s) == pc' = "done" /\ status' = s

-----------------------------------------------------------------------------
(* Before the layout is deleted.                                           *)

Inspect ==
    /\ pc = "inspect"
    /\ \/ Fail("open") /\ UNCHANGED before
       \/ \E seen \in Sightings(bound) :
            /\ bound # Missing
            /\ IF Cleanable(bound, seen)
               THEN /\ before' = [disk |-> bound, token |-> Token(bound, seen),
                                  mounted |-> seen # {}]
                    /\ pc' = "layout"
                    /\ UNCHANGED status
               ELSE Fail("refused") /\ UNCHANGED before
    /\ moved' = FALSE
    /\ UNCHANGED <<world, planned, locking, attempt, verified, report, deleted, raced, trust>>

\* df_clean_query_layout_path; a RAW unmounted disk is clean already.
QueryLayout ==
    /\ pc = "layout"
    /\ \/ Fail("open") /\ UNCHANGED <<planned, final_state, after_style, unready>>
       \/ /\ bound # Missing
          /\ \E l \in Answers(bound) :
               /\ planned' = Summary[l] /\ unready' = (l # layout[bound])
               /\ IF l = Raw /\ ~before.mounted
                  THEN /\ final_state' = "success_already_clean" /\ after_style' = l
                       /\ pc' = "done" /\ status' = "ok"
                  ELSE pc' = "reinspect" /\ UNCHANGED <<final_state, after_style, status>>
    /\ dirtied' = FALSE
    /\ UNCHANGED <<world, before, locking, attempt, verified, layout_deleted, deleted, raced,
                   moved>>

\* df_open_target: identity and authority once more, then the open by number.
Reinspect ==
    /\ pc = "reinspect"
    /\ \/ Fail("open")
       \/ \E seen \in Sightings(bound) :
            /\ bound # Missing
            /\ \/ Token(bound, seen) # before.token /\ Fail("identity_changed")
               \/ /\ Token(bound, seen) = before.token
                  /\ IF Authorized(bound, seen) THEN pc' = "open" /\ UNCHANGED status
                     ELSE Fail("refused")
    /\ UNCHANGED <<world, before, planned, locking, attempt, verified, report, deleted, raced,
                   moved, trust>>

Open ==
    /\ pc = "open"
    /\ \/ Fail("open") /\ UNCHANGED locking
       \/ /\ bound # Missing
          /\ handle' = bound /\ live' = TRUE
          /\ drives' = {l \in Letters : volume[l] # Missing}
          /\ enumerated' = VolumesOf(bound)
          /\ letter' = 1 /\ tries' = 0 /\ held' = {}
          /\ pc' = "lock"
          /\ UNCHANGED status
    /\ UNCHANGED <<world, before, planned, attempt, verified, report, deleted, raced, moved, trust>>

-----------------------------------------------------------------------------
(* df_windows_lock_disk_volumes: one volume of the disk after the other.   *)

Skip == letter' = letter + 1 /\ tries' = 0 /\ UNCHANGED <<pc, status, handle, live, held>>

\* Seeded defect: a volume that cannot be locked is left as it is.
LockFailsSkipping(s) == Skip

LockFails(s) == Fail(s) /\ Close /\ UNCHANGED <<letter, tries>>

\* Seeded defect: one attempt too many.
GivenUpLate == tries > LockTries

GivenUp == tries + 1 >= LockTries

LockVolume ==
    /\ pc = "lock" /\ letter \in Letters
    /\ LET uses == letter \in drives /\ bound # Missing /\ volume[letter] = bound
       IN  \/ (uses => letter \in Opaque) /\ Skip
           \/ uses /\ LockFails("open")
           \/ uses /\ letter \notin busy /\ LockFails("mounted")     \* dismount fails
           \/ /\ uses /\ letter \in busy /\ ~GivenUp
              /\ tries' = tries + 1
              /\ UNCHANGED <<pc, status, letter, handle, live, held>>
           \/ uses /\ letter \in busy /\ GivenUp /\ LockFails("mounted")
           \/ /\ uses /\ letter \notin busy
              /\ held' = held \cup {letter}
              /\ letter' = letter + 1 /\ tries' = 0
              /\ UNCHANGED <<pc, status, handle, live>>
    /\ UNCHANGED <<world, before, planned, drives, enumerated, attempt, verified, report, deleted,
                   raced, moved, trust>>

Announce == final_state' = "failed_during_clean"

\* The layout as seen through the locked handle must be the planned one.
CompareLayout ==
    /\ pc = "lock" /\ letter \notin Letters
    /\ \/ Fail("io") /\ Close /\ UNCHANGED <<final_state, unready>>
       \/ \E l \in Answers(handle) :
            /\ live /\ unready' = (l # layout[handle])
            /\ IF SameLayout(planned, Summary[l])
               THEN /\ Announce
                    /\ pc' = "delete"
                    /\ UNCHANGED <<status, handle, live, held>>
               ELSE Fail("identity_changed") /\ Close /\ UNCHANGED final_state
    /\ dirtied' = FALSE
    /\ UNCHANGED <<world, before, planned, drives, letter, tries, enumerated, attempt, verified,
                   layout_deleted, after_style, deleted, raced, moved>>

\* IOCTL_DISK_DELETE_DRIVE_LAYOUT, then df_close_file.  The disk may fail with
\* or without having done it, or acknowledge and not do it; letters of its
\* volumes may outlive it for a while.
Delete ==
    /\ pc = "delete"
    /\ \E done \in BOOLEAN, stale \in SUBSET VolumesOf(handle) :
         /\ done => live
         /\ layout' = IF done THEN [layout EXCEPT ![handle] = Raw] ELSE layout
         /\ volume' = IF done THEN [l \in Letters |-> IF l \in VolumesOf(handle) \ stale
                                                      THEN Missing ELSE volume[l]]
                      ELSE volume
         /\ deleted' = IF done THEN deleted \cup {handle} ELSE deleted
    /\ \/ Fail("io") /\ UNCHANGED <<layout_deleted, final_state, verified>>
       \/ /\ live
          /\ layout_deleted' = TRUE
          /\ final_state' = "clean_unverified"
          /\ verified' \in Layouts \cup {Unknown}      \* verified_layout is not initialised
          /\ pc' = "probe_layout"
          /\ UNCHANGED status
    /\ Close
    /\ UNCHANGED <<bound, busy, swaps, mounts, repartitions, before, planned, drives, letter, tries,
                   enumerated, attempt, after_style, raced, moved, trust>>

-----------------------------------------------------------------------------
(* Verification: up to Attempts times, a layout query and an inspection.   *)

\* Seeded defect: a failed attempt is not counted.
RetryForever == pc' = "probe_layout" /\ UNCHANGED <<attempt, status, after_style>>

\* After the last attempt the layout last read, if any was, is reported.
Retry ==
    /\ attempt' = attempt + 1
    /\ IF attempt + 1 < Attempts
       THEN pc' = "probe_layout" /\ UNCHANGED <<status, after_style>>
       ELSE Fail("verify_mismatch") /\ after_style' = verified'

ProbeLayout ==
    /\ pc = "probe_layout"
    /\ \/ UNCHANGED verified /\ Retry /\ UNCHANGED trust           \* no open
       \/ bound # Missing /\ verified' = Unknown /\ Retry /\ UNCHANGED trust
       \/ /\ bound # Missing
          /\ verified' \in Answers(bound)
          /\ dirtied' = FALSE /\ unready' = (verified' # layout[bound])
          /\ pc' = "probe_target"
          /\ UNCHANGED <<attempt, status, after_style>>
    /\ UNCHANGED <<world, before, planned, locking, final_state, layout_deleted, deleted, raced,
                   moved>>

\* Seeded defect: a disk that has come back mounted is good enough.
CleanNowOrMounted(seen) == Token(bound, seen) = before.token /\ verified = Raw

CleanNow(seen) == Token(bound, seen) = before.token /\ verified = Raw /\ seen = {}

ProbeTarget ==
    /\ pc = "probe_target"
    /\ UNCHANGED verified
    /\ \/ Retry /\ UNCHANGED final_state
       \/ \E seen \in Sightings(bound) :
            /\ bound # Missing /\ CleanNow(seen)
            /\ final_state' = "success_clean_verified" /\ after_style' = verified
            /\ pc' = "done" /\ status' = "ok"
            /\ UNCHANGED attempt
    /\ UNCHANGED <<world, before, planned, locking, layout_deleted, deleted, raced, moved, trust>>

-----------------------------------------------------------------------------
(* The world.                                                              *)

Running == pc \notin {"done", "killed"}
program == <<pc, before, planned, handle, drives, letter, tries, held, attempt, verified, outcome>>

\* The disk is pulled, or its number is given to another one.
Swap ==
    /\ Running /\ swaps < MaxSwaps
    /\ \E b \in (Disks \cup {Missing}) \ {bound} : bound' = b
    /\ live' = FALSE /\ swaps' = swaps + 1
    /\ raced' = (raced \/ pc = "open") /\ moved' = TRUE
    /\ UNCHANGED <<layout, volume, busy, mounts, repartitions, program, enumerated, trust>>

\* A volume appears on a partitioned disk, or disappears unless it is held or
\* the one Windows runs from.
MountVolume ==
    /\ Running /\ mounts < MaxMounts
    /\ \E l \in Letters \ (held \cup {WindowsLetter}) :
         /\ \/ /\ volume[l] = Missing
               /\ \E d \in Disks : layout[d] # Raw /\ volume' = [volume EXCEPT ![l] = d]
            \/ volume[l] # Missing /\ volume' = [volume EXCEPT ![l] = Missing]
         /\ enumerated' = enumerated \ {l}
         /\ busy' = busy \ {l}
    /\ mounts' = mounts + 1
    /\ UNCHANGED <<bound, layout, swaps, repartitions, program, live, raced, moved, trust>>

\* A program opens the first file, or closes the last, on a volume.
UseVolume ==
    /\ Running
    /\ \E l \in Letters \ (held \cup {WindowsLetter}) :
         /\ volume[l] # Missing
         /\ busy' = IF l \in busy THEN busy \ {l} ELSE busy \cup {l}
    /\ UNCHANGED <<bound, layout, volume, swaps, mounts, repartitions, program, live, enumerated,
                   raced, moved, trust>>

\* Another tool writes a new layout; the volumes of the old one go with it.  It
\* cannot do so to the disk Windows runs from.
Repartition ==
    /\ Running /\ repartitions < MaxRepartitions
    /\ \E d \in Disks, l \in Layouts :
         /\ layout[d] # l /\ volume[WindowsLetter] # d
         /\ layout' = [layout EXCEPT ![d] = l]
         /\ volume' = [k \in Letters |-> IF volume[k] = d THEN Missing ELSE volume[k]]
         /\ enumerated' = enumerated \ VolumesOf(d)
    /\ repartitions' = repartitions + 1 /\ dirtied' = TRUE
    /\ UNCHANGED <<bound, busy, swaps, mounts, program, live, raced, moved, unready>>

\* Windows closes the handles of a killed process, and with them the locks.
Kill ==
    /\ Running
    /\ pc' = "killed" /\ Close
    /\ UNCHANGED <<world, before, planned, drives, letter, tries, enumerated, attempt, verified,
                   outcome, raced, moved, trust>>

-----------------------------------------------------------------------------
\* An earlier deletion may have left letters on a disk without partitions.
Init ==
    /\ bound \in Disks
    /\ layout \in [Disks -> Layouts] /\ \A d \in Disks : layout[d] \in InitialLayouts[d]
    /\ volume \in [Letters -> Disks \cup {Missing}]
    /\ volume[WindowsLetter] = SystemDisk
    /\ busy = {WindowsLetter} /\ swaps = 0 /\ mounts = 0 /\ repartitions = 0
    /\ pc = "inspect" /\ before = [disk |-> Missing, token |-> Missing, mounted |-> FALSE]
    /\ planned = Summary[Raw]
    /\ handle = Missing /\ live = FALSE /\ drives = {} /\ letter = 1 /\ tries = 0 /\ held = {}
    /\ attempt = 0 /\ verified = Raw
    /\ final_state = "failed_before_clean" /\ layout_deleted = FALSE /\ after_style = Unknown
    /\ status = "running"
    /\ deleted = {} /\ raced = FALSE /\ moved = FALSE /\ dirtied = FALSE
    /\ unready = FALSE /\ enumerated = {}

Step ==
    \/ Inspect \/ QueryLayout \/ Reinspect \/ Open \/ LockVolume \/ CompareLayout
    \/ Delete \/ ProbeLayout \/ ProbeTarget

Next == Step \/ Swap \/ MountVolume \/ UseVolume \/ Repartition \/ Kill

Spec == Init /\ [][Next]_vars

FairSpec == Spec /\ WF_vars(Step)

-----------------------------------------------------------------------------
(* Properties.                                                             *)

TypeOK ==
    /\ bound \in Disks \cup {Missing}
    /\ layout \in [Disks -> Layouts]
    /\ volume \in [Letters -> Disks \cup {Missing}]
    /\ busy \subseteq Letters /\ drives \subseteq Letters /\ held \subseteq Letters
    /\ handle \in Disks \cup {Missing} /\ live \in BOOLEAN
    /\ letter \in 1..(MaxLetter + 1) /\ tries \in 0..LockTries /\ attempt \in 0..Attempts
    /\ {verified, after_style} \subseteq Layouts \cup {Unknown} /\ deleted \subseteq Disks
    /\ final_state \in {"failed_before_clean", "failed_during_clean", "clean_unverified",
                        "success_already_clean", "success_clean_verified"}

\* The layout of a disk is deleted only if the operator confirmed that disk's
\* token as that of an ordinary disk and it is not read-only, unless the number
\* was handed on between the re-inspection and the open; only if it is a
\* removable USB disk and not the one DEADFLASH runs from, unless the number was
\* handed on since the inspection; and, wherever the number wandered, never if
\* Windows runs from it and its volume can be queried.
\* (clean.c: df_clean_validate_target; device.c: df_open_target.)
OnlyConfirmedDisksCleaned ==
    \A d \in deleted :
        /\ raced \/ (<<Ident[d], FALSE>> = Confirmation /\ d \notin ReadOnlyDisks)
        /\ moved \/ (d \in UsbDisks /\ d # ProgramDisk)
        /\ d = SystemDisk => WindowsLetter \in Opaque

\* When the layout goes, every volume that lay on the disk when its letters were
\* enumerated is locked and dismounted, however the lock loop got through; only
\* a volume that need not answer the query for its extents may have been passed
\* over, and no other because of it.
\* (README.md:490-492; device.c: df_windows_lock_disk_volumes.)
DeletesUnderLocks == [][deleted' # deleted => enumerated \ Opaque \subseteq held]_vars

\* What goes is the layout that was planned, unless another tool wrote a new one
\* after it was compared, or the disk was not ready then.
\* (clean.c:430-443, layout read through the handle.)
DeletesThePlannedLayout ==
    [][(deleted' # deleted /\ ~dirtied /\ ~unready) => Summary[layout[handle]] = planned]_vars

\* No volume stays locked once the run is over, whichever step it failed in.
VolumesAreReleased == ~Running => held = {}

\* A success is reported only for a disk that has no partitions, and no volume
\* but one that need not answer the query for its extents: the code takes such a
\* volume for another disk's (device.c:231), in the inspection before a deletion
\* and in the one after it.  The number must not have been handed on, and no tool
\* have repartitioned, after the last probe; and a disk that answers "not ready"
\* counts as RAW for the code (clean.c:166), so this is claimed of disks that were
\* ready when last asked.
\* (README.md:317, "Clean success requires RAW + zero partitions + zero mounts".)
SuccessIsRaw ==
    (status = "ok" /\ ~moved /\ ~dirtied /\ ~unready) =>
        /\ bound # Missing /\ layout[bound] = Raw /\ VolumesOf(bound) \subseteq Opaque
        /\ after_style = Raw

\* The lock loop and the verification loop are bounded: every run ends.
Terminates == <>(~Running)

-----------------------------------------------------------------------------
(* The inductive invariant behind these properties.                        *)

Counted ==
    /\ swaps \in Nat /\ mounts \in Nat /\ repartitions \in Nat
    /\ raced \in BOOLEAN /\ moved \in BOOLEAN /\ dirtied \in BOOLEAN /\ unready \in BOOLEAN
    /\ enumerated \subseteq Letters
    /\ Running => attempt < Attempts

BeforeDelete == pc \in {"inspect", "layout", "reinspect", "open", "lock", "delete"}

\* The operator confirmed the token disk d has unless Windows runs from it.
Confirmed(d) == Confirmation = <<Ident[d], FALSE>> /\ d \notin ReadOnlyDisks

\* Which disk is at stake: the one inspected, what the number names once that is
\* authorized, and what the handle is open on after that.
DiskInv ==
    /\ pc \in {"layout", "reinspect", "open", "lock", "delete"} =>
          /\ Confirmed(before.disk) /\ before.token = Confirmation
          /\ before.disk \in UsbDisks \ {ProgramDisk}
          /\ ~moved => bound = before.disk
    /\ pc = "open" => raced \/ Confirmed(bound)
    /\ pc \in {"lock", "delete"} =>
          /\ handle \in Disks
          /\ raced \/ Confirmed(handle)
          /\ moved \/ handle = before.disk
    /\ live => handle = bound
    /\ BeforeDelete => deleted = {}
    /\ OnlyConfirmedDisksCleaned

\* The lock loop: every volume of the disk that it has passed and that answered
\* is held, as long as the disk is there.  On another disk it holds nothing, but
\* then nothing goes.  The Windows volume is never locked, so that its disk gets
\* through the loop only unseen.
LockInv ==
    /\ pc \notin {"lock", "delete"} => held = {}
    /\ BeforeDelete => volume[WindowsLetter] = SystemDisk
    /\ WindowsLetter \in busy \ held
    /\ pc = "lock" => enumerated \subseteq drives
    /\ pc \in {"lock", "delete"} =>
          /\ enumerated \subseteq VolumesOf(handle)
          /\ handle = SystemDisk => WindowsLetter \in enumerated
    /\ (pc = "lock" /\ live) => \A l \in enumerated \ Opaque : l < letter => l \in held
    /\ (pc = "delete" /\ live) => enumerated \ Opaque \subseteq held

\* What a layout that was read says of the disk.  A disk without partitions gets
\* no volumes, so that what the inspection found holds when the layout is read.
LayoutInv ==
    /\ (pc = "layout" /\ ~moved /\ ~before.mounted) =>
          (layout[bound] = Raw => VolumesOf(bound) \subseteq Opaque)
    /\ (pc = "delete" /\ ~dirtied /\ ~unready) => planned = Summary[layout[handle]]
    /\ (pc = "probe_target" /\ ~moved /\ ~dirtied /\ ~unready) => verified = layout[bound]
    /\ status = "ok" => pc = "done"
    /\ SuccessIsRaw

CleanIInv == TypeOK /\ Counted /\ DiskInv /\ LockInv /\ LayoutInv
=============================================================================

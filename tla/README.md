# DEADFLASH in TLA+

DEADFLASH writes disk images to removable drives, verifies what it wrote, cleans
drives, and says in one word how far it got (`success_verified`,
`failed_partial_media`, ...). Its correctness is a matter of *what was on the
drive at each moment* and *what the program then claimed*, while the world moves:
somebody edits the image, a stick is pulled and another takes its number, a
volume is mounted, a write is accepted in part, a message loop runs inside a
dialog. Those are the things modelled here. Paths below are relative to the
repository (`src/src/pipeline.c` is written `pipeline.c`).

To check a run: `tlc -config WriteImage_media.cfg MCWriteImage`; to check the
proofs of a component: `tlapm WriteImageProofs.tla`, and so for each of the eight
modules whose names end in `Proofs`. `PROJECT.json` lists every run, every mapped
definition with its source lines, the theorems, the hazards and the findings.

## 1. The system

| Part | Files | State it keeps | Operations |
|---|---|---|---|
| write pipeline | `pipeline.c` | loop offset, running digest, chunk buffer, retry count, `df_write_result` with `final_state` | `df_write_image`, `df_verify_image`, full and sampled readback |
| device layer | `device.c` | `df_target_info` descriptors, `df_file` handles, Windows volume locks | inspect, token, authorize, open, positioned read/write, flush, resize, lock/dismount |
| plan attestation | `attest.c` | plan record (source digest, target, policy), seal | `df_attest_plan`, `df_write_image_attested` |
| disk cleaner | `clean.c`, `clean_stub.c` | planned and verified layout, `df_clean_result` | `df_clean_disk` (Windows only) |
| graphical front end | `gui_win32_bootstrap.c`, which includes `gui_win32_final.c`; `gui_brand.c` | `g_gui`: busy flags, target list, selection, job records; message queue, dialogs, timer, worker threads | window procedure, five workers, autoscan |
| proof manifests | `proof.c`, `proof_main.c` | manifest of chunk digests, Merkle root | create, load, verify; the chain of sealed write, create and verify |
| FAT32 formatter | `fat32.c` | computed layout; open target; sectors of the volume | compute layout, `df_format_fat32`, `df_verify_fat32` |
| command line | `main.c` | none | write, verify, format-fat32, verify-fat32, each one operation of the above |
| reports | `report.c` | none | result as JSON text |
| helpers | `sha256.c`, `common.c` | none | digests, hex, constant-time compare |
| earlier front ends | `gui_win32.c`, `gui_win32_v2.c` | | not part of the build |

**Interactions.** The front ends call attestation; attestation calls the device
layer to inspect and the pipeline to write; the pipeline calls the device layer
for every byte. The cleaner uses the same inspection, authorization, open and
volume locks. Nothing is shared between processes except the world itself: image
file, drives, mount table, disk numbers. Inside the GUI process five worker
threads share job records with the window thread, hand them over by posted
messages, and the window thread's handlers are re-entered by the loops of modal
dialogs.

**Hard behaviours.** (1) Everything is looked up by path or number several times,
and nothing ties one look to the next except tokens and digests that are
compared at chosen points. (2) The image is read two or three times. (3) A write
may be accepted in part, retried, refused, or cut off by a kill. (4) Verification
reopens both ends. (5) Windows needs several tries to lock a volume and several
probes until a deleted layout shows. (6) A modal dialog does not stop timers and
posted messages.

**What makes each part correct.**

* pipeline: success means the hashed bytes are on the object that was opened;
  the recorded state never claims more than happened and is never taken back;
  loops end.
* device layer: only a drive the operator allowed and confirmed is touched.
* attestation: nothing is written without a reproduced seal; success means the
  *sealed* bytes are on the target.
* cleaner: only the confirmed removable disk is cleaned, under locks on all the
  volumes it can query, only the layout that was looked at; success means RAW; no volume
  stays locked.
* GUI: what is written or cleaned is what the confirmation named; work that is
  begun settles; the window stays usable and stays open; green means proven.
* manifests: `success_proven` means manifest, source and target agree; a mismatch
  is located exactly.
* FAT32: for every size of the target the layout fits it and the reader of the
  volume agrees with its writer; success means every sector is on the medium; a
  format cut short never leaves a mixture of two volumes that passes verification;
  only a confirmed drive is formatted.

## 2. Modules

```
WriteImage ──EXTENDS──► AttestedWrite ──implements──► WriteContract
        │                                                  │ INSTANCE
        └─────► VerifyImage              ProofManifest ──► ProvenWrite

Fat32Layout ──EXTENDS──► Fat32Format     CleanDisk     Gui

WriteImageProofs ──EXTENDS──► VerifyImageProofs, AttestedWriteProofs
Fat32Proofs ──EXTENDS──► Fat32FormatProofs
CleanDiskProofs    GuiProofs    ProvenWriteProofs
```

`MCWriteImage`, `MCVerifyImage`, `MCAttestedWrite`, `MCCleanDisk`, `MCGui`,
`MCProvenWrite` and `MCFat32Format` give the constants their small values. The
theorems about a component, and their proofs, stand in a module of their own that
EXTENDS it; the inductive invariants they need stand at the end of the component's
module, where TLC can check them too.

Common conventions. Each system call whose answer depends on the outside world is
one step, so the world can move between any two of them; code between two calls
is folded into the step before. Every model has *environment* actions next to the
program's, and *observer* variables that no action reads (what was touched, what
was open, whether a race happened). A digest is represented by what it digests.
A definition commented "Seeded defect" is the slip of a programmer, kept next to
the definition it would replace; it is not part of the model and shows that a
property notices.

### WriteImage — `df_write_image` and the device layer under it

| Model | Code |
|---|---|
| `OpenSource` | `df_open_source`, empty image refused |
| `InspectTarget` | first `df_inspect_target`, size check against the padded size |
| `HashSource` | `df_hash_file_region_progress`, one chunk a step |
| `Reinspect` | `df_open_target` down to the open: token compare, `df_validate_destructive_target` (`Authorized`) |
| `OpenTarget`, `Resize` | open by path, creation of a missing regular file, truncation or extension, buffer allocation |
| `ReadSource` | next chunk, stream digest, zero padding of the last chunk on a drive |
| `WriteChunk`, `WriteFails` | `df_write_at` complete, or any prefix accepted, and the retry loop |
| `CheckStream` | streamed bytes against hashed bytes |
| `Flush` | flush barrier and close of the write handle |
| `OpenReadback`, `FullReadback`, `SampleReadback` | `df_verify_image_internal` |
| `EditSource`, `SwapDrive`, `Rot`, `Mount`, `Kill` | the world |

`media[o]` is the content of drive or file `o`, `bound` the object the path names
*now*, `target` the open handle (`live` is lost when the drive is pulled),
`planned` the descriptor of the first inspection. `Token` covers what
`df_compute_target_token` hashes (kind, size, flags, device fields) and not the
mount state, which is why two sticks without serial number share one.
`mounted` and `SystemDisks` are what the inspection finds; CleanDisk looks into how it
finds them on Windows, and what it may miss.
Drives differ in what they hold and in their identity; sizes are a handful of
bytes with `Sector = Buffer = 2`, so an image of three bytes has one full and one
padded chunk.

### VerifyImage — `df_verify_image` beside `df_write_image`

The verify command opens image and target for itself (`VerifyOpen`), hashes the
image into the digest state a write uses (`VerifyHash`), and then runs the readback
of WriteImage. It is preceded and followed by writes in any order, complete, failed
or killed (`StartWrite`, `StartVerify`); WriteImage itself is one write, on media that
may hold anything before. What the world may do is bounded for each command anew.
`agreed` records that the last write succeeded and that, from its beginning to that of
this command, nobody changed the image, the path or the media; `Undisturbed` says the
same of the command itself. A verification starts with a record that names no state at all
(`ClearedResult`).

### AttestedWrite and WriteContract — sealing

`AttestOpen`, `AttestHash`, `AttestInspect` are `df_attest_plan`; they run once
for the seal command and once inside `df_write_image_attested`. The seal *is* the
plan record. Between the two the operator may change options, and the world may
move. If the second plan equals the seal the writer of WriteImage runs as it
stands; `CheckBreach` is the comparison after it. `WriteContract` says only: the
bytes are fixed once, the target changes only after that, and success is claimed
only when the target then holds them. `ImplementsContract` is the refinement,
with `goal` taken from the seal when the check has passed and `disk` from the
object that was opened for writing.

### CleanDisk — `df_clean_disk` and the volume locks

`Inspect`, `QueryLayout`, `Reinspect`, `Open`, `LockVolume` (one letter, one try a
step: skip, lock, retry, give up), `CompareLayout`, `Delete`, `ProbeLayout`,
`ProbeTarget` follow the function top to bottom; `Close` is the unlock-and-close
on every exit. The disk the program runs from is known to the code by its
*number*, and so it is here. A query of a disk that is not ready answers RAW
(`clean.c:166`). The layout variable that no probe may have written when
verification gives up is a free choice among the layouts. `Summary` is what
`df_clean_layout_equal` compares. A volume keeps its letter while the number of
its disk is handed on.

The code learns which volumes lie on a disk from `df_volume_uses_disk`, which says
no of a volume it cannot open or query (`device.c:230-235`). The volumes under the
letters `Opaque` may or may not answer, at each look anew: `Sightings` are the sets
of volumes a scan may find. The two inspections, the re-inspection and the
verification take `mounted` from such a set, and whether the disk is the system's
from `WindowsLetter` being in it; `Token` hashes that flag, so a scan that misses the
Windows volume also yields another token. The lock loop may pass an opaque volume
over. A disk without partitions may have letters left from an earlier deletion. On
other systems `clean_stub.c` refuses, which needs no model.

### Gui — the Windows front end

One window thread, five workers (`scan`, `source`, `plan`, `write`, `clean`), a
message queue, a timer, a stack of dialogs. A handler that opens a dialog ends
there; what it does after the answer is an action of its own (`ConfirmPlan`,
`ConfirmCleanOnce`, `ConfirmCleanTwice`, `CloseNotice`, `Browsed`), because
posted messages and the timer are dispatched meanwhile. Only the innermost dialog
can be answered and the window takes no clicks while one is open. The timer fires
only on an empty queue, as `WM_TIMER` does. The array of targets keeps stale
entries past `target_count`, and the clean confirmation holds an *index* into it,
as the code holds a pointer. A scan looks at one number a step. A write or clean
worker first opens the drive its number names at that time, after the checks that
WriteImage and CleanDisk describe, and then succeeds or fails. `CreateThread`,
the evidence folder and `PostMessageW` may fail.

Left out: progress display, layout, wording, log, and SAMPLE as a third
verification choice (its paths are those of FULL).

### ProofManifest — `proof.c`

| Model | Code |
|---|---|
| `OpenImage`, `Digest`, `OpenManifest`, `Emit` | `df_proof_create`: open, digest chunk by chunk, truncate the manifest file, print it |
| `Lines`, `Loads`, `MerkleRoot` | the text written, what `manifest_load` accepts of it, `merkle_root` |
| `Load`, `OpenBoth`, `ReadSource`, `ReadTarget` | `df_proof_verify`: load, compare sizes, then a source chunk and a target chunk in turn, the image digest at the end |
| `EditSource`, `EditTarget`, `Damage`, `Kill`, `Run` | the world |

A manifest is the sequence of its lines; a line is a key with its values. Buffered
output reaches the file in portions, so a kill leaves any prefix of the lines (a
line cut in two is one that `manifest_load` refuses, like a missing one).
`Damage` changes one value of one line to another that still parses, or makes it
unparsable. A digest is the bytes it digests and a Merkle node is the pair of its
children, so two roots are equal only when trees and leaves are. A create that
fails removes the file of that name (`Discard`), also one an earlier create left
there. `made` collects the chunks the creates have read off the image.

### ProvenWrite — `deadflash-proof write --proof`

The command chains a sealed write, a create and a verify, and hands nothing from one
to the next but the paths. The write is represented by its contract: an instance of
WriteContract, which AttestedWrite is checked to implement, over ProofManifest's
`target`. `Created` and `Proven` are the tests of the status in between; create and
verify are ProofManifest's actions, and run on their own as well (`Alone`), on what
a chain that was killed has left.

### Fat32Layout — `df_fat32_compute_layout`

`Begin` holds the checks on the size, `Iterate` is one round of the loop, `Limits`
what follows it. The size of the FATs and the number of clusters each follow from
the other, so the loop computes them in turn until the FAT keeps its size. For some
sizes it never does: two values alternate until the 64 rounds are over, and what is
returned is a FAT computed from clusters that were counted beside the other one.

### Fat32Format — `df_format_fat32`, `df_verify_fat32` and their commands

| Model | Code |
|---|---|
| `Inspect`, `ComputeLayout` | `df_inspect_target`, size of the target or `--size`, the layout |
| `Reinspect`, `OpenTarget` | `df_open_target`, as in WriteImage |
| `Resize` | `df_resize` of a regular file |
| `ZeroRegion` | `zero_region`, one chunk a step, from the start of the partition to the end of the first cluster |
| `WriteSector` | the writes of the MBR, the two boot sectors, the two FSInfo sectors, the two FATs and the root directory, in the order of the code |
| `Flush` | `df_flush` and the close |
| `VerifyMbr`, `VerifyBoot` | `df_verify_fat32`: what it reads, and the numbers it accepts (`Sound`) |
| `SwapDrive`, `Mount`, `Kill`, `Run` | the world; the next command on the same path |

Of a target the model keeps the eight kinds of sectors the formatter writes, by
role, and `Place` says where each lies, so that zeroing covers what it really
covers. A written sector holds the numbers a boot sector has and the run that wrote
it; a field of a sector that no reader looks at is not modelled. Each target has two
copies of its sectors: `disk`, what a read returns, and `durable`, what was there
when it was last flushed. A pulled drive loses what was not flushed, all of it, none
of it, or the part that verification reads (`Losses`: the MBR and the boot sector
are lost or kept each on its own; the others go together, since nothing in the
program reads them back). A killed process loses nothing, because the system has
its writes. A drive takes no write past its end (`Within`). The rounds of the layout make no system call, so nothing is interleaved
with them. The commands always pass `create_mbr`.

## 3. Runs

| Run | Question | Bounds |
|---|---|---|
| `writeimage_media` | what a success is worth and who may be written to: `SuccessIsOnMedia`, `SuccessIsAnImage`, `FullReadbackCatchesRot`, `OnlyConfirmedDrivesTouched`, `DrivesChangeUnderTheImage`, and the inductive invariant `IInv` | the 3 verification modes, and all combinations of permission, overrides and token; 3 drives (two alike and symmetric, one system); 3 images, one shorter; 1 edit, 1 swap, 1 rotten byte, 1 mount |
| `verify_image` | verification on its own, and starting over on a regular file: `VerifiedIsOnMedia`, `VerifyAgreesWithWrite`, `EvidenceNeverRetreats`, `Terminates` | missing, empty, shorter and longer file; all modes; 3 commands, 1 edit, 1 rotten byte |
| `attested_write` | sealing: `NothingWithoutSeal`, `SuccessIsSealed`, `SealedDriveTouched`, `ImplementsContract`, `AttestedTerminates` | options that differ between seal and write; drives large enough and too small; an empty image; 2 edits and 2 swaps at any step |
| `proven_write` | manifests, and the chain that makes one after a sealed write: `ProvenMeansEqual`, `LoadedIsGenuine`, `MismatchIsExact`, `SealedIsProven`, `ChainTerminates` | images of 5, 2 and no bytes, chunks of 2; targets that are longer, equal, or differ in the first or a late byte; 2 commands (each a chain, a create or a verify), killed anywhere, 1 damaged value, 1 edit of image and of target |
| `fat32_format` | format and verify: `RegionsFit`, `SuccessIsDurable`, `AcceptedIsOneVolume`, `CompleteIsRead`, `OnlyConfirmedDrivesFormatted`, `Terminates` | the limits of the code; the least size, one sector less, a size at which the layout settles (also that of the earlier volume), and two at which it swings, with 1 and 8 sectors a cluster; 3 drives of two sizes; 2 commands, 1 swap, 1 mount |
| `clean_disk` | `OnlyConfirmedDisksCleaned`, `VolumesAreReleased`, `SuccessIsRaw`, `DeletesUnderLocks`, `DeletesThePlannedLayout`, `Terminates` | 3 disks that look alike (one partitioned or RAW at first, one that holds the program, one with the Windows volume), 3 letters, of which one is the Windows volume's and one need not answer a query, 1 swap, 1 mount, 1 repartition, not-ready answers |
| `gui_dialogs` | `WritesTheConfirmedPlan`, `WindowOutlivesWork`, `GreenMeansProven`, `IdleMeansUsable`, `WorkSettles` | 2 disk numbers, 2 sticks and a system disk, 4 operator requests, 1 plug or pull, 1 lost message |

Five further runs end in a counterexample on purpose; see section 6.

**Why these bounds are enough.** Two chunks show every position in the write loop
(a full chunk with more to come, the padded last one) and a retry at offset zero
and beyond it. One edit makes a mixture of two images; the two edits of
`attested_write` change an image and change it *back* between two reads, which is
the case digests could miss. One swap shows every race between a look and its use;
two allow a drive to come back, and a twin that only its bytes tell apart. Three
commands of `verify_image` are a write, another one over what it left, and a
verification. Of the three letters of `clean_disk` two can be locked, which shows a lock
that fails after another succeeded, and one of these may be missed by any scan. Retry
bounds (`WriteRetries`, `LockTries`, `Attempts`) are 2 instead of the code's
defaults: one retry and one exhaustion. Four operator requests are a scan, a
source, a write and a clean. Three chunks make a Merkle tree of two levels with an
odd node. Two commands of `proven_write` are a create that may be killed over its
manifest and a verify of what it left, or a killed chain and another one; the three
readings of the image are within one command. Two commands of `fat32_format` are a
format, which fails or is killed over the volume that was there, and a verification
or a second format. Its layouts are computed with the numbers of the code
(`PartitionStart`, `MinSectors`, `MinClusters`, `MaxClusters`, 64 rounds, zeroing
in chunks of 2048 sectors); only `MaxSectors` is a little below 2^32 - 1, because
TLC's integers end at 2^31 - 1. All sizes are covered by proof (section 5).

All bounds are guards of environment actions (`MaxSourceEdits`, `MaxSwaps`,
`MaxRot`, `MaxMounts`, `MaxRuns`, `MaxRepartitions`, `MaxPlugs`, `MaxLost`,
`MaxClicks`, `MaxEdits`, `MaxDamage`), never of the program's.
`Posix` is TRUE in some runs and FALSE in others because inspection and the
mounted check differ.

**Fairness.** The fair specifications of WriteImage, VerifyImage, AttestedWrite,
CleanDisk, Fat32Format and ProvenWrite are weak fairness of the program's own steps:
a system call that can return eventually does. No fairness is put on the environment, and a step with several outcomes is
not forced to take the good one, so termination does not rest on success. In Gui
each worker's thread runs and its calls return (the scan, source, plan, write and
clean steps each weakly fair), and some message loop, the window's or a dialog's,
dispatches what is posted (`Handlers`). Nothing is assumed of the operator:
`WorkSettles` holds while a dialog is left open for good. It speaks of runs
in which no posted message was lost.

**Deadlock** is not checked: a finished run, a killed process and a closed window
may stop.

## 4. Properties worth arguing about

* `SuccessIsOnMedia` relates the digest taken *before* the write, the retries, the
  padding, the handle and the medium: after any success the object the handle was
  opened on begins with exactly the hashed bytes, and nothing of it waits to be
  flushed. It holds in every mode; only rot can break it. The reported count is that of
  the hashed bytes, neither of the padding nor of what a failed attempt got through.
* `SuccessIsAnImage`: one edit during the run cannot make a mixture of the old and
  the new image pass, whatever the medium does. A file that grows between the open and the digest is cut
  off, and only full readback notices; the property says so.
* `FullReadbackCatchesRot`: a fully verified run needs no trust in the medium. The
  exceptions are a swap after the open (readback opens by path) and rot after the
  readback began.
* `OnlyConfirmedDrivesTouched` and `SealedDriveTouched` name their one exception,
  a swap between the re-inspection and the open, which the code does not look at
  (`device.c:783-834`).
* `VerifiedIsOnMedia`: a verification that succeeds in full mode has compared the
  medium with one image, also on a target where a torn write left a mixture; unless
  the image is edited meanwhile, that is the whole image.
  `VerifyAgreesWithWrite`: after a successful write, in whatever mode, with nobody
  interfering, no verification in whatever mode says anything else; the sampled
  offsets, the region hashed and the comparison of sizes must agree for that.
* `EvidenceNeverRetreats`: no later failure, of verification for instance, turns
  a record of changed media back into "failed before write".
* `DeletesUnderLocks`, `DeletesThePlannedLayout`: at the very step the layout
  goes, all volumes found on the disk are held and the layout is the planned one. A
  volume that gives no answer may be missing, but no other because of it.
* `SuccessIsRaw`: a disk reported clean is RAW, and the only volumes left on it are
  ones that need not answer a query. It joins the look before the deletion, the one
  after it and what others do in between; the exceptions are what the code cannot see
  (section 6).
* `WritesTheConfirmedPlan`: in every order of scans, plugging and answers the
  drive that is written is the one the final confirmation named. It holds because
  the job record owns a copy of path and seal; `CleansTheConfirmedDisk`, the same
  statement for the cleaner, does not hold.
* `ProvenMeansEqual`: whatever became of image, target and manifest since, and
  whatever happens to the image during the verify, `success_proven` means that the
  target begins with an image some create read. It needs the Merkle root (against
  damaged chunk records), the image digest in the header and the comparison with the
  target. Only the target itself must stand still while it is read.
* `SealedIsProven`: a chain that ends with exit status 0 has proven the sealed bytes,
  unless the image was edited since the seal was checked; and if nobody else wrote
  to the target, an image that was cut or extended meanwhile is proven only as far
  as it agrees with the sealed one. (What it may still be is in section 6.)
* `RegionsFit`: reserved sectors, both FATs and the clusters reported fit the
  partition. Where the loop gives up this is a matter of parity: after an odd round
  the FAT is too large for the clusters it was computed with, after an even one it
  is the smaller of the two, and 64 is even. A bound of 63 breaks it.
* `AcceptedIsOneVolume`: whatever fails or is killed over an earlier volume of
  another size, verification never joins a boot sector of one with an MBR of the
  other. It rests on the partition being zeroed before the MBR is written, and
  fails when a drive is pulled with writes unflushed, which the property excepts.
* `CompleteIsRead`: what the formatter writes, at every size it takes, is a volume
  to the reader, with at least the clusters the formatter reported.
* `SuccessIsDurable`: the formatter says success only when every sector would
  still be there if the drive were pulled at that moment, and when the volume, laid
  out for the drive that was inspected first, ends within the drive that was opened.
  The zeroing and the sectors with a role lie at the beginning of the partition, so a
  volume that is too large could be written without an error; the size is hashed into
  the token, and only a swap after the re-inspection gets around that.
* `LoadedIsGenuine`: torn files, damaged values and manifests over older manifests
  included, what loads lists, chunk by chunk, what one create has read. It was first
  stated of the image as a whole; two lists of chunks with the same bytes but other
  boundaries would satisfy that and still fail the verify.
* `IdleMeansUsable`: every path of every handler gives the controls back.

## 5. Proofs

Every invariant and action property that a run checks is also a theorem, for every
value of the constants that the named ASSUMEs admit: any number of drives, letters,
images, chunks, commands, swaps, edits, kills and damaged fields. No
theorem is about liveness. TLC has checked every
inductive invariant below on the world of the component's run.

The arguments have one shape. The property speaks of the end of a command, so it
is not inductive; the invariant adds what must be true at each system call on the way
there. There is one lemma per action, with one step per part of the invariant that
the action can disturb, and lemmas about the operators that the actions use.

**WriteImageProofs** (`ByteAssumption`, `ObjectAssumption`, `IdentAssumption`,
`SizeAssumption`, `OptionAssumption`).

| Theorem | Statement | Invariant |
|---|---|---|
| `Induction`, `TypeCorrectness` | `[]IInv`, `[]TypeOK` | `IInv` |
| `SuccessIsOnTheMedium` | `[]SuccessIsOnMedia` | `IInv`, `CountInv` |
| `OnlyConfirmedDrives` | `[]OnlyConfirmedDrivesTouched` | `GrantInv` |
| `NothingBehindTheImage` | `DrivesChangeUnderTheImage` (action property) | `IInv`, `PaddingInv` |
| `FullReadbackIsProof` | `[]FullReadbackCatchesRot` | `ReadbackInv` |
| `SuccessIsNoMixture` | `[]SuccessIsAnImage` | `ImageInv` |

`IInv` consists of `LoopInv` (the digest has been fed exactly `offset` bytes, except
that a chunk waiting to be written has been fed and sits in the buffer), `HandleInv`
(from the open until the flush the handle is on the object recorded as written) and
`MediaInv` (without rot, the medium holds what the loop has advanced over; when the
loop has ended that is the whole image, and since the flush nothing of it is
outstanding). `CountInv` ties the reported count to the loop offset while the loop runs
and to the length of the hashed bytes when it has ended. The interesting step is `WriteFails`: an accepted prefix overwrites only
bytes behind `offset`, so a failed attempt cannot harm what earlier chunks wrote.
`GrantInv`: between the authorization and the open the path names a drive that was
granted, from the open to the flush the handle is on one, unless a swap met the
open. `PaddingInv` bounds the padded chunk by the sector the image ends in.
`ReadbackInv` needs no trust in the medium: what the digest of the readback has been
fed is what the object holds, as long as rot does not strike behind the reader.
`ImageInv` is a case distinction over the moment of the one edit: too late to spoil the
first digest, or so early that the whole stream is read from the new image.

**VerifyImageProofs** (as above and `RunsAssumption`): `VerifyInduction`
(`VerifySpec => []VerifyIInv`), `VerifiedIsOnTheMedium`,
`VerificationAgreesWithWrite`, `EvidenceOnlyGrows` (action property). A write keeps the
invariants of WriteImage, whose lemmas are used again; a verification keeps
`VerifyInv`. What ties them is that each command starts in the world the last one left,
and the bounds and observers start anew: a world that satisfies the invariant of
one command's end satisfies that of the next one's beginning. `agreed` hands on the
only fact that is about two commands, namely that the path names an object that holds
the image.

**AttestedWriteProofs** (as WriteImage, and `PlanAssumption`: "no plan" is neither a
plan nor a digest): `NothingHappensWithoutSeal`, `SuccessMeansSealed`,
`OnlyTheSealedDrive`, and the refinement

    SealedWriteImplementsContract ==
        AttestedSpec /\ [](rots = 0) => ImplementsContract

Its hypothesis restricts the behaviours to those in which no byte of a medium rots by
itself, as the run does with `MaxRot = 0`: rot changes the target before and after the
contract allows it, and no program can prevent that. The initial state maps to the
initial state; the seal check maps to the step that fixes the goal; the steps of the
writer map to changes of the target under a goal, if they change it at all; a return,
a refusal or a kill maps to the verdict, which is a success only where `MediaInv` puts
the sealed bytes on the target; everything else stutters.

**CleanDiskProofs** (`DiskAssumption`, `BoundAssumption`, `IdentAssumption`):
`CleanInduction`, `CleanerIsTyped`, `OnlyConfirmedDisks`, `LocksAreReleased`,
`CleanSuccessIsRaw`, and the action properties `LayoutsGoUnderLocks` and
`ThePlannedLayoutGoes`. `DiskInv` follows the disk at stake from the inspection over
the path to the handle; `LockInv` says of the lock loop that every volume of the disk
whose letter it has passed and that answered is held, and that the Windows volume, always
in use, never is, so that its disk gets through the loop only unseen; `LayoutInv` ties a
layout that was read to the disk it was read from until somebody else writes there, and
what the inspection saw to the volumes of a disk that reads as RAW. No bound is put on
how often a query goes unanswered: any set of letters may be `Opaque`, and what is
claimed of the others holds for each letter by itself.

**GuiProofs** (`DiskAssumption`): `GuiInduction`, `WindowIsTyped`,
`TheConfirmedPlanIsWritten`, `TheWindowOutlivesWork`, `GreenIsEarned`,
`TheIdleWindowIsUsable`. `WorkInv` is the backbone: a worker's busy flag is set from its
start until its *one* message is received, so a flag means a thread, a message in the
queue, or a lost message. `DialogInv`: at most one dialog of the stack asks whether to
write or clean. `JobInv`: the planned, the confirmed and the written drive are one.
`GreenInv`: whoever runs again has taken down a green banner that rested on its last
run. `ControlInv`: disabled controls mean work or a plan to confirm.

**ProvenWriteProofs** (`ContentAssumption`, `ChainAssumption`, and `NodeAssumption`:
a damaged root is not one of the bytes a digest stands for): `ManifestInduction`,
`ChainInduction`, and, for the commands on their own as well as in the chain,
`ManifestsAreTyped`, `LoadedManifestsAreGenuine`, `ProvenTargetsHoldTheImage`,
`MismatchesAreExact`; for the chain `TheSealedImageIsProven`. Four things carry them:

* *the Merkle tree* (`RootTells`): two lists of leaves of equal length with equal roots
  are equal. By induction over the number of levels; the odd node that is paired with
  itself is why the length must be known, and `manifest_load` compares it;
* *the manifest file* (`EmittedIsWorn`, `DamageIsWear`, `LoadsGenuine`): a file is what
  is left of the lines one create printed, each of them intact or damaged (`Worn`), for
  any number of damages; a file that loads has all its lines, the digests in it are as
  long as the ones printed, and the root does the rest;
* *the chunks* (`ChunksCover`, `PrefixGrows`): offsets and lengths computed from the
  header cut the image into exactly the chunks that were digested, the short last one
  included;
* *what has been compared so far* (`ReadInv`): the first chunks of the manifest are
  the first bytes of image and target, as long as nobody wrote there.

Facts about `FlattenSeq` and about the tree are true of lists of every length and
need induction. The prover cannot use an induction rule whose parameter is an operator,
so the module derives induction over a *set* of numbers from the well-foundedness of
`<` (`HasSmallest`, `Induction`), and applies it to sets of lengths and of levels.

**Fat32Proofs** is about the layout computation alone, for every sequence of
calls with targets of any size (`LayoutAssumption`: the partition holds at least the
code's 131072 sectors and is numbered with 32 bits; the limits on clusters are free):
`LayoutCorrect` (`SpecLayout => []LayoutInv`), `LayoutFits` (`RegionsFit`) and
`LayoutNearlyCovers` (`FatShortByAtMostTwo`).

A larger FAT leaves fewer clusters (`ClustersAntitone`), and more clusters take a
larger FAT (`FatMonotone`), so the rounds overshoot and undershoot in turn, and each
changes the FAT by at most a 64th of the change before it, rounded up
(`ChangeShrinks`): from the sixth round on by one sector at most. `Rounded` says so
of the last two FATs after `k` rounds. What is returned is thus either a fixpoint or,
after 64 rounds, the smaller one of two neighbours, which is why the regions fit, and
why the FAT can be short by the entries of two clusters and no more. TLC looks at five
sizes.

**Fat32FormatProofs** is about the formatter (`FormatAssumption`, `SameTokenAssumption`,
`LayoutAssumption`, and for the last three `EarlierAssumption` and `LimitAssumption`).

| Theorem | Statement | Invariant |
|---|---|---|
| `FormatIsCorrect` | `[]FormatInv` | `FormatInv` |
| `FormatTouchesConfirmed` | `[]OnlyConfirmedDrivesFormatted` | `FormatInv` |
| `FormatIsDurable` | `[]SuccessIsDurable` | `FormatInv`, `FitInv` |
| `FormatComputesLayouts` | `Spec => SpecLayout`: each step of the formatter is one of the layout computation or leaves it alone | `FormatInv` |
| `FormattedRegionsFit` | `[]RegionsFit`, from `LayoutFits` | |
| `VolumeInduction` | `[](CommandInv /\ VolumeInv)` | with `FormatInv`, `LayoutInv` |
| `OnlyWholeVolumesPass` | `[]AcceptedIsOneVolume` | `VolumeInv` |
| `CompleteVolumesPass` | `[]CompleteIsRead` | `VolumeInv` |

`FormatInv` consists of the shapes of the variables (`Shape`), what the path and
then the handle name (`HandleInv`), and that a drive that is still there holds the
sectors written so far (`WrittenInv`). After the last of them that is every role, and
a flush that succeeds makes it durable. `FitInv` follows the size: the layout ends
within the target that was planned with, equal tokens are equal sizes, and so the drive
authorized, and opened unless a swap met the open, is no smaller.

`VolumeInv` adds that every sector, on the drive and on the medium, is empty or part
of a volume the layout computation made (`ContentsInv`, from `LayoutInv`), that the
boot sector is zero from the first write until the MBR has been written (`OrderInv`: the
first chunk zeroed begins with it), so that no MBR ever stands beside the boot sector
of another volume unless the drive was torn, and that what verification has read is
still there as long as its handle is alive (`ReadInv`). For `CompleteIsRead` the reader's
upper limit matters: where the layout did not settle the reader counts more clusters
than the formatter checked. `LimitAssumption` states why the code's numbers leave room:
2^21 clusters at most with 8 to 32 sectors each, and less than 2^26 with 64.

**Only model-checked**: liveness (`Terminates` of four modules,
`AttestedTerminates`, `ChainTerminates`, `WorkSettles`), which needs fairness and
ENABLED and is out of the prover's reach. That the properties of section 6 are
violated is shown by TLC's counterexamples.

## 6. Disagreements between code and documents

| Run | What the run shows |
|---|---|
| `gui_wrongdisk` | `df_gui_begin_clean` keeps a pointer into `g_gui.targets` over its two dialogs (`gui_win32_bootstrap.c:203-230`). The autoscan timer may start a scan meanwhile and `df_gui_finish_scan` refills the array, so the disk cleaned is not the one both confirmations named. |
| `gui_both` | `df_gui_busy` does not know `g_df_gui_clean_running`: the end of a scan under way enables WRITE during a clean, and a write opens the same disk. |
| `attested_unplugged` | The writer inspects the target afresh and does not compare it with the sealed one. On POSIX a path that names nothing is an empty regular file, so a drive pulled after the seal check leads to a file being created under its path and filled. |
| `writeimage_unplug` | `failed_before_write` is left only after a whole chunk; a first chunk accepted in part on every try leaves changed bytes under that record. |
| `proven_mutated` | The chain of `proof_main.c` makes its manifest from a new reading of the image and compares it with no seal (`proof_main.c:232-235`). An image truncated after the write is proven in place of the sealed one, with `success_proven` and exit status 0, where `docs/EVIDENCE_STATES.txt:26-27` has `source_changed` for an image that differs from the authorized plan. |

Met while modelling, and visible as the exceptions the checked properties
name or in the actions themselves: the path is opened again after the
re-inspection without a look at what was opened (`device.c:783-834`); an image
emptied before sampled readback yields `success_verified` with nothing read
(`pipeline.c:194`, `SampleReadback`); an edit during the stream ends as
`failed_partial_media`, because the writer notices before the wrapper can say
`plan_breach_partial_media` (`attest.c:192`); a volume that cannot be opened or whose
extents cannot be queried counts as lying on another disk (`device.c:230-235`): it is
neither locked nor dismounted nor seen by an inspection, so `success_clean_verified`
and `success_already_clean` can be reported with such a volume left, where
`README.md:317` has "zero mounts", the disk Windows runs from is recognised only if
its volume answers, and the mounted check of a write rests on the same scan; a scan during the
final confirmation leaves WRITE enabled while the write runs
(`gui_win32_final.c:1465-1499`); a disk that answers "not ready" to the layout
query is taken for RAW (`clean.c:166`), so a clean of it can report
`success_already_clean` with its partitions in place, and `SuccessIsRaw`
therefore excepts a disk that gave such an answer; a create that fails, even before it has
opened the manifest file, removes the manifest an earlier one left
(`proof.c:379`); `docs/PROOF_FORMAT.md:33` gives 4096 as the least chunk size,
which `df_proof_create` is held to and `manifest_load` is not (`proof.c:164-168`).

In the formatter: with one sector a cluster, partitions of `130 s + 31` and `+ 32` sectors,
and with eight, `1026 s + 24` and `+ 25`, never settle (`fat32.c:88`), so for those
`data_clusters` of the report is not what `df_verify_fat32` computes from the boot
sector, and the FAT may lack the entries of up to two clusters. Two refusals in the
layout cannot be reached with the limits as they are. `deadflash format-fat32` prints
`SUCCESS_VERIFIED_STRUCTURE` (`main.c:291`) without calling `df_verify_fat32`.
`df_verify_fat32` reads the MBR and the boot sector only: a format killed right after
the boot sector passes it. A drive pulled before the flush can keep the new MBR and
the old boot sector. `deadflash verify` in mode none reports `success_unverified`
although nothing was written.

## 7. Not modelled, and why

* `fat32.c`: label, volume id and the contents of the FSInfo sectors, which are
  written and never read; `create_mbr = false`, which no command passes.
* drive listing in `device.c` for the command line: pure enumeration.
* `main.c`, `proof_main.c`: argument parsing, printing, the benchmark loop. Which
  operation a command calls, and what a chain of them does, is modelled.
* `report.c`: text; the states it prints are those of the operations.
* `sha256.c`, `common.c`: pure functions on bytes. Digests are taken to be
  injective on the contents compared.
* `gui_win32.c`, `gui_win32_v2.c`: not built. `gui_brand.c`: drawing.
* 64-bit overflow in `df_round_up_u64`: needs an image within a sector of 2^64
  bytes.
* asynchronous cancellation: the program has none except a kill.

## 8. Plan

Done: (1) WriteImage, (2) AttestedWrite and WriteContract, (3) CleanDisk with the
volume locks, (4) Gui, (5) ProofManifest, (6) Fat32Layout and Fat32Format,
(7) VerifyImage and ProvenWrite; and proofs of all their invariants and action
properties, and of the refinement.

Left: that the loops terminate can be stated as safety, by a measure that every step of
the program decreases, and proved where the liveness itself cannot be (the retry loops
of WriteImage and CleanDisk, the lock loop, the rounds of the layout); and the chain of
ProvenWrite could be joined with AttestedWrite itself in place of its contract.

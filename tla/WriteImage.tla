------------------------------ MODULE WriteImage ------------------------------
(***************************************************************************)
(* df_write_image (src/src/pipeline.c) together with the part of the       *)
(* device layer it drives (df_inspect_target, df_open_target, df_write_at, *)
(* df_flush, df_close_file in src/src/device.c), run against a world that  *)
(* does not hold still: the image file may be edited, the drive behind the *)
(* target path may be pulled or swapped, a volume may be mounted, media    *)
(* may rot, every system call may fail and the process may be killed.      *)
(*                                                                         *)
(* Every system call whose answer depends on that world is a step of its   *)
(* own, so the world may move between any two of them.  A SHA-256 digest   *)
(* is represented by the bytes it digests: two digests are equal iff the   *)
(* byte strings are.                                                       *)
(***************************************************************************)
EXTENDS Naturals, Sequences

CONSTANTS
    Bytes,          \* byte values
    Zero,           \* the padding byte
    Junk,           \* what a rotten medium returns
    Images,         \* the contents the source image file may have
    Devices,        \* physical drives
    RegularFile,    \* the regular file the target path may name
    Missing,        \* the target path names nothing
    Ident,          \* Ident[d]: all the fields hashed into drive d's token
    SystemDisks,    \* drives the inspection classifies as the running system's
    ReadOnlyDisks,  \* drives that report themselves read-only
    InitialMedia,   \* possible contents of the targets when a run starts
    Options,        \* the df_write_options the operator may pass
    DevicePath,     \* the target path is a device path
    Posix,          \* POSIX build (FALSE: Windows)
    Sector,         \* logical sector size of a drive
    Buffer,         \* buffer_size, rounded up to the target's alignment
    SampleBlock,    \* DF_SAMPLE_BLOCK_SIZE
    Samples,        \* sample_count
    WriteRetries,   \* write_retries
    MaxSourceEdits, MaxSwaps, MaxRot, MaxMounts    \* bounds

Objects == Devices \cup {RegularFile}

ASSUME ByteAssumption == Zero \in Bytes /\ Junk \in Bytes /\ Images \subseteq Seq(Bytes)
ASSUME ObjectAssumption ==
    /\ RegularFile \notin Devices
    /\ Missing \notin Objects
    /\ InitialMedia \subseteq [Objects -> Seq(Bytes)]
    /\ SystemDisks \subseteq Devices
    /\ ReadOnlyDisks \subseteq Devices
\* the hashed fields include the size, the read-only and the system-disk flag
ASSUME IdentAssumption ==
    \A c, d \in Devices : Ident[c] = Ident[d] =>
        /\ c \in SystemDisks <=> d \in SystemDisks
        /\ c \in ReadOnlyDisks <=> d \in ReadOnlyDisks
        /\ \A m \in InitialMedia : Len(m[c]) = Len(m[d])
ASSUME SizeAssumption ==
    /\ {Sector, Buffer, SampleBlock, WriteRetries} \subseteq Nat \ {0}
    /\ Samples \in Nat
    /\ {MaxSourceEdits, MaxSwaps, MaxRot, MaxMounts} \subseteq Nat
ASSUME OptionAssumption ==
    /\ DevicePath \in BOOLEAN
    /\ Posix \in BOOLEAN
    /\ \A o \in Options :
         /\ o.verify_mode \in {"none", "sample", "full"}
         /\ {o.allow_device, o.force_mounted, o.force_system_disk,
             o.truncate_regular_file} \subseteq BOOLEAN

VARIABLES
    (* the world *)
    source,     \* current contents of the image file
    media,      \* media[o]: current contents of target o
    bound,      \* the object the target path names now
    mounted,    \* drives the inspection finds a mounted volume on
    edits, swaps, rots, mounts,     \* how much of each bound is used up
    (* the program *)
    pc,         \* the next system call
    opts,       \* the options of this run
    src_size,   \* source.size_bytes, read when the source was opened
    planned,    \* the descriptor df_write_image planned with
    target,     \* the open df_file of the target
    offset,     \* loop offset (iteration number in the sampling loop)
    hashed,     \* bytes fed to the digest of the current loop
    buffer,     \* the chunk to be written, padded
    attempt,    \* failed attempts at writing it
    result,     \* df_write_result
    status,     \* the df_status returned ("running" before that)
    (* observers: no action reads them *)
    touched,    \* targets whose bytes this run has changed
    written_to, \* the object the write handle was opened on
    unflushed,  \* bytes were accepted and not yet flushed
    raced,      \* the path was rebound between re-inspection and open
    swapped,    \* the path was rebound after the write handle was opened
    rotted      \* a byte rotted after the readback began

counters == <<edits, swaps, rots, mounts>>
world == <<source, media, bound, mounted, counters>>
observers == <<touched, written_to, unflushed, raced, swapped, rotted>>
vars == <<world, pc, opts, src_size, planned, target, offset, hashed, buffer,
          attempt, result, status, observers>>

-----------------------------------------------------------------------------
(* Helpers.                                                                *)
(*                                                                         *)
(* A definition marked "seeded defect" is not part of the model: it is the *)
(* next definition as a slip of the programmer would have left it, and a   *)
(* property is shown to notice when it takes that definition's place.      *)

Least(a, b) == IF a <= b THEN a ELSE b

\* Seeded defect: an aligned size gains a sector.
RoundUpAlways(n) == n + (Sector - (n % Sector))

\* df_round_up_u64 and df_round_up_size; overflow needs a 64-bit image size
\* within a sector of 2^64 and is out of the range modelled.
RoundUp(n) == IF n % Sector = 0 THEN n ELSE n + (Sector - (n % Sector))

\* hashed, extended with the n bytes of file f that follow offset.
Extend(f, n) == [i \in 1..(offset + n) |-> IF i <= offset THEN hashed[i] ELSE f[i]]

\* Seeded defect: the write does not seek.
OverwriteUnseeked(c, k) == [i \in 1..Len(c) |-> IF i <= k THEN buffer[i] ELSE c[i]]

\* Contents c after the first k bytes of buffer were accepted at offset.
Overwrite(c, k) ==
    [i \in 1..Len(c) |-> IF offset < i /\ i <= offset + k THEN buffer[i - offset] ELSE c[i]]

\* Contents c after the file was resized to n bytes.
Resized(c, n) == [i \in 1..n |-> IF i <= Len(c) THEN c[i] ELSE Zero]

SizeOf(o) == IF o = Missing THEN 0 ELSE Len(media[o])

\* df_compute_target_token: kind, size, flags and device fields, but neither the
\* mount state nor the object itself.
Token(o) == IF o \in Devices THEN <<"device", Ident[o]>> ELSE <<"file", SizeOf(o)>>

\* What df_inspect_target reports.  A path that names nothing is reported as
\* an empty regular file.
Descriptor(o) ==
    [is_device   |-> o \in Devices,
     size        |-> SizeOf(o),
     read_only   |-> o \in ReadOnlyDisks,
     system_disk |-> o \in SystemDisks,
     mounted     |-> o \in mounted,
     token       |-> Token(o)]

\* Only a Windows \\.\PhysicalDriveN path must exist to be inspected.
Inspectable == bound # Missing \/ Posix \/ ~DevicePath

\* Seeded defect: the confirmation token is not compared.
AuthorizedWithoutToken(info) ==
    info.is_device => opts.allow_device /\ ~info.read_only
                      /\ (info.system_disk => opts.force_system_disk)

\* df_validate_destructive_target accepts.
Authorized(info) ==
    info.is_device =>
      /\ opts.allow_device
      /\ ~info.read_only
      /\ info.system_disk => opts.force_system_disk
      /\ (Posix /\ info.mounted) => opts.force_mounted
      /\ opts.confirmation_token = info.token

NoFile == [obj |-> Missing, is_device |-> FALSE, size |-> 0, live |-> FALSE]

EmptyResult ==
    [final_state |-> "failed_before_write", source_sha256 |-> << >>, bytes_written |-> 0,
     bytes_verified |-> 0, write_retries |-> 0, verification_mismatches |-> 0]

\* The out: label, which closes whatever is open.
Out(s) == pc' = "done" /\ status' = s /\ target' = NoFile

-----------------------------------------------------------------------------
(* The program up to the first byte written.                               *)

\* The size df_open_source reads when it opens the image.
OpenedSize == Len(source)

OpenSource ==
    /\ pc = "open_source"
    /\ \/ Out("open") /\ UNCHANGED src_size
       \/ OpenedSize = 0 /\ Out("too_small") /\ UNCHANGED src_size
       \/ /\ OpenedSize > 0
          /\ src_size' = OpenedSize
          /\ pc' = "inspect_target"
          /\ UNCHANGED <<status, target>>
    /\ UNCHANGED <<world, opts, planned, offset, hashed, buffer, attempt, result, observers>>

InspectTarget ==
    /\ pc = "inspect_target"
    /\ LET info == Descriptor(bound)
           fits == info.is_device => RoundUp(src_size) <= info.size
       IN  \/ Out("open") /\ UNCHANGED planned
           \/ Inspectable /\ ~fits /\ Out("source_too_large") /\ planned' = info
           \/ /\ Inspectable /\ fits
              /\ planned' = info
              /\ pc' = "hash_source"
              /\ UNCHANGED <<status, target>>
    /\ UNCHANGED <<world, opts, src_size, offset, hashed, buffer, attempt, result, observers>>

\* One iteration of df_hash_file_region_progress over the source, or its end.
\* A source truncated since it was opened yields a short read.
HashSource ==
    /\ pc = "hash_source"
    /\ LET n == Least(src_size - offset, Buffer)
       IN  \/ offset < src_size /\ Out("io") /\ UNCHANGED <<offset, hashed, result>>
           \/ /\ offset < src_size /\ offset + n <= Len(source)
              /\ hashed' = Extend(source, n)
              /\ offset' = offset + n
              /\ UNCHANGED <<pc, status, target, result>>
           \/ /\ offset >= src_size
              /\ result' = [result EXCEPT !.source_sha256 = hashed]
              /\ hashed' = << >> /\ offset' = 0
              /\ pc' = "reinspect"
              /\ UNCHANGED <<status, target>>
    /\ UNCHANGED <<world, opts, src_size, planned, buffer, attempt, observers>>

\* df_open_target up to the open itself: the file object is filled in from
\* the descriptor just inspected, not from the object that will be opened.
Reinspect ==
    /\ pc = "reinspect"
    /\ LET info == Descriptor(bound)
       IN  \/ Out("open")
           \/ Inspectable /\ info.token # planned.token /\ Out("identity_changed")
           \/ Inspectable /\ info.token = planned.token /\ ~Authorized(info) /\ Out("refused")
           \/ /\ Inspectable /\ info.token = planned.token /\ Authorized(info)
              /\ target' = [obj |-> Missing, is_device |-> info.is_device,
                            size |-> info.size, live |-> FALSE]
              /\ pc' = "open_target"
              /\ UNCHANGED status
    /\ UNCHANGED <<world, opts, src_size, planned, offset, hashed, buffer, attempt, result,
                   observers>>

\* open / CreateFileW by path.  Only a regular file is created when missing.
OpenTarget ==
    /\ pc = "open_target"
    /\ \/ Out("open") /\ UNCHANGED <<media, bound, written_to>>
       \/ LET obj == IF bound = Missing THEN RegularFile ELSE bound
          IN  /\ bound = Missing => ~target.is_device
              /\ media' = IF bound = Missing THEN [media EXCEPT ![obj] = << >>] ELSE media
              /\ bound' = obj
              /\ target' = [target EXCEPT !.obj = obj, !.live = TRUE]
              /\ written_to' = obj
              /\ pc' = "resize"
              /\ UNCHANGED status
    /\ UNCHANGED <<source, mounted, counters, opts, src_size, planned,
                   offset, hashed, buffer, attempt, result, touched, unflushed, raced, swapped,
                   rotted>>

\* Truncation or extension of a regular target, then the buffer allocation.
\* ftruncate fails on a block device.
Resize ==
    /\ pc = "resize"
    /\ LET needed == ~target.is_device /\ (opts.truncate_regular_file \/ target.size < src_size)
       IN  \/ Out("io") /\ UNCHANGED <<media, touched>>
           \/ /\ ~needed
              /\ pc' = "read_source"
              /\ UNCHANGED <<media, touched, status, target>>
           \/ /\ needed /\ target.obj = RegularFile
              /\ media' = [media EXCEPT ![RegularFile] = Resized(@, src_size)]
              /\ touched' = IF media' = media THEN touched ELSE touched \cup {RegularFile}
              /\ target' = [target EXCEPT !.size = src_size]
              /\ pc' = "read_source"
              /\ UNCHANGED status
           \/ /\ needed /\ target.obj = RegularFile   \* resized, then no memory
              /\ media' = [media EXCEPT ![RegularFile] = Resized(@, src_size)]
              /\ touched' = IF media' = media THEN touched ELSE touched \cup {RegularFile}
              /\ Out("no_memory")
    /\ UNCHANGED <<source, bound, mounted, counters, opts, src_size,
                   planned, offset, hashed, buffer, attempt, result, written_to, unflushed, raced,
                   swapped, rotted>>

-----------------------------------------------------------------------------
(* The write loop.                                                         *)

\* Seeded defect: a chunk is rounded down to whole sectors.
WantedRoundedDown == Least(src_size - offset, Buffer) - (Least(src_size - offset, Buffer) % Sector)

Wanted == Least(src_size - offset, Buffer)

\* Read the next chunk, feed the stream digest, pad the last chunk of a drive.
ReadSource ==
    /\ pc = "read_source" /\ offset < src_size
    /\ \/ Out("io") /\ UNCHANGED <<hashed, buffer, attempt>>
       \/ /\ offset + Wanted <= Len(source)
          /\ hashed' = Extend(source, Wanted)
          /\ buffer' = [i \in 1..(IF target.is_device THEN RoundUp(Wanted) ELSE Wanted) |->
                          IF i <= Wanted THEN source[offset + i] ELSE Zero]
          /\ attempt' = 0
          /\ pc' = "write_target"
          /\ UNCHANGED <<status, target>>
    /\ UNCHANGED <<world, opts, src_size, planned, offset, result, observers>>

\* The drive accepts the first k bytes of the buffer.
Accept(k) ==
    /\ media' = [media EXCEPT ![target.obj] = Overwrite(@, k)]
    /\ touched' = IF k = 0 THEN touched ELSE touched \cup {target.obj}
    /\ unflushed' = (unflushed \/ k > 0)

CanAccept(k) == k = 0 \/ (target.live /\ offset + k <= Len(media[target.obj]))

\* What a completed chunk adds to the result.
Counted(r) == [r EXCEPT !.bytes_written = @ + Wanted,
                        !.final_state = "failed_partial_media"]

WriteChunk ==
    /\ pc = "write_target"
    /\ CanAccept(Len(buffer)) /\ target.live
    /\ Accept(Len(buffer))
    /\ result' = Counted(result)
    /\ offset' = offset + Wanted
    /\ pc' = "read_source"
    /\ UNCHANGED <<source, bound, mounted, counters, opts, src_size,
                   planned, target, hashed, buffer, attempt, status, written_to, raced, swapped,
                   rotted>>

\* A short or failed write: some prefix may have reached the medium.
WriteFails ==
    /\ pc = "write_target"
    /\ \E k \in 0..Len(buffer) : CanAccept(k) /\ Accept(k)
    /\ result' = [result EXCEPT !.write_retries = @ + 1]
    /\ attempt' = attempt + 1
    /\ IF attempt + 1 < WriteRetries THEN UNCHANGED <<pc, status, target>> ELSE Out("io")
    /\ UNCHANGED <<source, bound, mounted, counters, opts, src_size,
                   planned, offset, hashed, buffer, written_to, raced, swapped, rotted>>

\* Seeded defect: the two digests are not compared.
StreamUnchecked == TRUE

StreamMatches == hashed = result.source_sha256

\* The loop has ended: the bytes streamed must be the bytes hashed.
CheckStream ==
    /\ pc = "read_source" /\ offset >= src_size
    /\ IF StreamMatches THEN pc' = "flush" /\ UNCHANGED <<status, target>>
       ELSE Out("identity_changed")
    /\ UNCHANGED <<world, opts, src_size, planned, offset, hashed, buffer, attempt, result,
                   observers>>

\* Flush, then close the write handle before any readback.
Flush ==
    /\ pc = "flush"
    /\ \/ Out("io") /\ UNCHANGED <<result, unflushed>>
       \/ /\ target.live
          /\ unflushed' = FALSE
          /\ IF opts.verify_mode = "none"
             THEN /\ Out("ok")
                  /\ result' = [result EXCEPT !.final_state = "success_unverified"]
             ELSE /\ target' = NoFile /\ pc' = "open_readback"
                  /\ UNCHANGED <<status, result>>
    /\ UNCHANGED <<world, opts, src_size, planned, offset, hashed, buffer, attempt, touched,
                   written_to, raced, swapped, rotted>>

-----------------------------------------------------------------------------
(* df_verify_image_internal, called with the digest of the planned source. *)

\* Seeded defect: the zeroed verification record replaces the write record.
VerificationFailsReset(s, mismatches) == Out(s) /\ result' = EmptyResult

VerificationFails(s, mismatches) ==
    /\ Out(s)
    /\ result' = [result EXCEPT !.final_state = "verification_failed",
                                !.verification_mismatches = mismatches]

\* Source and target are opened again by path; src_size is read afresh.  The
\* two opens read independent parts of the world and are one step.
OpenReadback ==
    /\ pc = "open_readback"
    /\ \/ VerificationFails("open", 0) /\ UNCHANGED <<src_size, offset, hashed>>
       \/ /\ bound # Missing
          /\ src_size' = OpenedSize
          /\ hashed' = << >> /\ offset' = 0
          /\ IF SizeOf(bound) # 0 /\ SizeOf(bound) < OpenedSize
             THEN VerificationFails("too_small", 0)
             ELSE /\ target' = [obj |-> bound, is_device |-> bound \in Devices,
                                size |-> SizeOf(bound), live |-> TRUE]
                  /\ pc' = "readback"
                  /\ UNCHANGED <<status, result>>
    /\ UNCHANGED <<world, opts, planned, buffer, attempt, observers>>

Verified ==
    /\ Out("ok")
    /\ result' = [result EXCEPT !.final_state = "success_verified"]

\* Seeded defect: the readback digest is not compared.
ReadbackUnchecked == TRUE

ReadbackMatches == hashed = result.source_sha256

\* Full mode: hash src_size bytes of the target and compare digests.
FullReadback ==
    /\ pc = "readback" /\ opts.verify_mode = "full"
    /\ \/ offset < src_size /\ VerificationFails("io", 0) /\ UNCHANGED <<offset, hashed>>
       \/ /\ offset < src_size
          /\ target.live /\ offset + Wanted <= Len(media[target.obj])
          /\ hashed' = Extend(media[target.obj], Wanted)
          /\ offset' = offset + Wanted
          /\ UNCHANGED <<pc, status, target, result>>
       \/ /\ offset >= src_size
          /\ IF ReadbackMatches
             THEN /\ Out("ok")
                  /\ result' = [result EXCEPT !.final_state = "success_verified",
                                              !.bytes_verified = src_size]
             ELSE /\ Out("verify_mismatch")
                  /\ result' = [result EXCEPT !.final_state = "verification_failed",
                                              !.bytes_verified = src_size,
                                              !.verification_mismatches = 1]
          /\ UNCHANGED <<offset, hashed>>
    /\ UNCHANGED <<world, opts, src_size, planned, buffer, attempt, observers>>

\* Seeded defect: one byte too far.
LastSamplePast(block) == src_size - block + 1

\* Where the last block starts.
LastSample(block) == src_size - block

\* Sample mode: the first block, the last one, then pseudo-random ones, each
\* compared with the source read again (the pseudo-random offset is any
\* offset).  An empty source compares nothing and succeeds.
SampleReadback ==
    /\ pc = "readback" /\ opts.verify_mode = "sample"
    /\ LET block == Least(src_size, SampleBlock)
           last  == LastSample(block)
           positions == IF offset = 0 THEN {0} ELSE IF offset = 1 THEN {last} ELSE 0..last
       IN  \/ block = 0 /\ Verified /\ UNCHANGED offset
           \/ block > 0 /\ offset = Samples + 2 /\ Verified /\ UNCHANGED offset
           \/ block > 0 /\ offset < Samples + 2 /\ VerificationFails("io", 0) /\ UNCHANGED offset
           \/ \E p \in positions :
                /\ block > 0 /\ offset < Samples + 2 /\ target.live
                /\ IF /\ p + block <= Len(source)
                      /\ p + block <= Len(media[target.obj])
                      /\ \A i \in (p + 1)..(p + block) : source[i] = media[target.obj][i]
                   THEN /\ result' = [result EXCEPT !.bytes_verified = @ + block]
                        /\ offset' = offset + 1
                        /\ UNCHANGED <<pc, status, target>>
                   ELSE VerificationFails("verify_mismatch", 1) /\ UNCHANGED offset
    /\ UNCHANGED <<world, opts, src_size, planned, hashed, buffer, attempt, observers>>

-----------------------------------------------------------------------------
(* The world.                                                              *)

Running == pc \notin {"done", "killed"}
program == <<pc, opts, src_size, planned, offset, hashed, buffer, attempt, result, status>>

\* Somebody rewrites the image file in place.
EditSource ==
    /\ Running /\ edits < MaxSourceEdits
    /\ \E s \in Images \ {source} : source' = s
    /\ edits' = edits + 1
    /\ UNCHANGED <<media, bound, mounted, swaps, rots, mounts, program, target, observers>>

\* The drive is pulled, or another one takes its path.  A handle to the old
\* drive stays open and dead.
SwapDrive ==
    /\ Running /\ DevicePath /\ swaps < MaxSwaps /\ bound # RegularFile
    /\ \E b \in (Devices \cup {Missing}) \ {bound} : bound' = b
    /\ target' = [target EXCEPT !.live = FALSE]
    /\ raced' = (raced \/ pc = "open_target")
    /\ swapped' = (swapped \/ written_to # Missing)
    /\ swaps' = swaps + 1
    /\ UNCHANGED <<source, media, mounted, edits, rots, mounts, program, touched,
                   written_to, unflushed, rotted>>

\* A byte of some medium silently changes.
Rot ==
    /\ Running /\ rots < MaxRot
    /\ \E o \in Objects : \E i \in DOMAIN media[o] :
         media' = [media EXCEPT ![o] = [@ EXCEPT ![i] = Junk]]
    /\ rots' = rots + 1
    /\ rotted' = (rotted \/ pc = "readback")
    /\ UNCHANGED <<source, bound, mounted, edits, swaps, mounts, program, target, touched,
                   written_to, unflushed, raced, swapped>>

\* An automounter mounts the drive, or somebody unmounts it.
Mount ==
    /\ Running /\ mounts < MaxMounts
    /\ \E d \in Devices : mounted' = IF d \in mounted THEN mounted \ {d} ELSE mounted \cup {d}
    /\ mounts' = mounts + 1
    /\ UNCHANGED <<source, media, bound, edits, swaps, rots, program, target, observers>>

\* The process is killed: nothing is reported, the media stay as they are.
Kill ==
    /\ Running
    /\ pc' = "killed" /\ target' = NoFile
    /\ UNCHANGED <<world, opts, src_size, planned, offset, hashed, buffer, attempt, result, status,
                   observers>>

-----------------------------------------------------------------------------
Init ==
    /\ source \in Images
    /\ media \in InitialMedia
    /\ bound \in IF DevicePath THEN Devices ELSE {RegularFile, Missing}
    /\ mounted \in {{}, Devices}
    /\ edits = 0 /\ swaps = 0 /\ rots = 0 /\ mounts = 0
    /\ pc = "open_source" /\ opts \in Options
    /\ src_size = 0 /\ planned = Descriptor(Missing) /\ target = NoFile
    /\ offset = 0 /\ hashed = << >> /\ buffer = << >> /\ attempt = 0
    /\ result = EmptyResult /\ status = "running"
    /\ touched = {} /\ written_to = Missing /\ unflushed = FALSE /\ raced = FALSE
    /\ swapped = FALSE /\ rotted = FALSE

Step ==
    \/ OpenSource \/ InspectTarget \/ HashSource \/ Reinspect \/ OpenTarget \/ Resize
    \/ ReadSource \/ WriteChunk \/ WriteFails \/ CheckStream \/ Flush
    \/ OpenReadback \/ FullReadback \/ SampleReadback

Environment == EditSource \/ SwapDrive \/ Rot \/ Mount \/ Kill

Next == Step \/ Environment

Spec == Init /\ [][Next]_vars

\* The process runs: a system call that can return eventually does.
FairSpec == Spec /\ WF_vars(Step)

-----------------------------------------------------------------------------
(* Properties.                                                             *)

TargetType == [obj : Objects \cup {Missing}, is_device : BOOLEAN, size : Nat, live : BOOLEAN]

FinalStates == {"failed_before_write", "failed_partial_media", "verification_failed",
                "success_unverified", "success_verified", "plan_breach_partial_media"}

ResultType == [final_state : FinalStates, source_sha256 : Seq(Bytes), bytes_written : Nat,
               bytes_verified : Nat, write_retries : Nat, verification_mismatches : Nat]

Steps == {"open_source", "inspect_target", "hash_source", "reinspect", "open_target", "resize",
          "read_source", "write_target", "flush", "open_readback", "readback"}

\* The shape of what the world changes.
WorldOK ==
    /\ source \in Images
    /\ media \in [Objects -> Seq(Bytes)]
    /\ bound \in Objects \cup {Missing}
    /\ mounted \subseteq Devices
    /\ edits \in Nat /\ swaps \in Nat /\ rots \in Nat /\ mounts \in Nat

\* The shape of every variable; planned and opts hold what Init and the
\* inspection put there.
TypeOK ==
    /\ WorldOK
    /\ pc \in Steps \cup {"done", "killed"}
    /\ opts \in Options
    /\ src_size \in Nat /\ offset \in Nat /\ attempt \in Nat
    /\ target \in TargetType
    /\ hashed \in Seq(Bytes) /\ buffer \in Seq(Bytes)
    /\ result \in ResultType
    /\ touched \subseteq Objects
    /\ written_to \in Objects \cup {Missing}
    /\ unflushed \in BOOLEAN /\ raced \in BOOLEAN
    /\ swapped \in BOOLEAN /\ rotted \in BOOLEAN

\* object o starts with the bytes d
IsPrefix(d, s) == Len(d) <= Len(s) /\ \A i \in 1..Len(d) : s[i] = d[i]

Holds(o, d) == IsPrefix(d, media[o])

Succeeded == pc = "done" /\ status = "ok"

\* A run that reports success has put exactly the bytes it hashed on the object
\* its write handle was opened on, and none of them waits for a flush, whatever
\* was edited, swapped, retried or left behind by an earlier run; only rot can
\* undo that.  The count it reports is that of the image, without the padding of
\* the last sector and without what a failed attempt got through.
\* (pipeline.c: write loop, retry loop, stream check, flush.)
SuccessIsOnMedia ==
    Succeeded =>
        /\ result.bytes_written = Len(result.source_sha256)
        /\ written_to \in Objects
        /\ rots = 0 => Holds(written_to, result.source_sha256) /\ ~unflushed

\* Full verification needs no trust in the medium: even when bytes rot during
\* the write, a verified full run leaves the hashed bytes on the medium,
\* unless the path was rebound after the open or rot struck after the readback
\* had begun.  (pipeline.c: flush, close, reopen, hash, compare.)
FullReadbackCatchesRot ==
    (Succeeded /\ opts.verify_mode = "full" /\ ~swapped /\ ~rotted) =>
        Holds(written_to, result.source_sha256)

\* One edit of the image during a run cannot make a mixture of the old and the
\* new image succeed: what was written begins an image the file really held,
\* and is all of it when the run was fully verified (a file that grows between
\* the open and the digest is cut off, which only the readback notices).
\* (pipeline.c: the digest taken before the write against the stream digest.)
SuccessIsAnImage ==
    (Succeeded /\ edits <= 1) =>
        \E s \in Images : /\ IsPrefix(result.source_sha256, s)
                          /\ opts.verify_mode = "full" => result.source_sha256 = s

\* The operator allowed and confirmed drive d.
Granted(d) ==
    /\ opts.allow_device
    /\ d \notin ReadOnlyDisks
    /\ d \in SystemDisks => opts.force_system_disk
    /\ opts.confirmation_token = <<"device", Ident[d]>>

\* No byte of a drive changes unless the operator allowed drives and confirmed
\* that drive's token and it is neither read-only nor the system disk; the one
\* exception is a swap between the re-inspection and the open.
\* (device.c: df_open_target, df_validate_destructive_target.)
OnlyConfirmedDrivesTouched == \A d \in touched \cap Devices : raced \/ Granted(d)

\* A byte of a drive changes only on the drive the write handle was opened on,
\* and only under the image or in the padding of its last sector: nothing is
\* written before authorization, and nothing behind the image is disturbed.
\* (pipeline.c: write loop and padding.)
DrivesChangeUnderTheImage ==
    [][rots' = rots =>
          \A d \in Devices : \A i \in DOMAIN media[d] :
             media'[d][i] # media[d][i] => d = written_to /\ i < src_size + Sector]_vars

\* Every run ends: the retry loop and the read loops are bounded.
Terminates == []<>(~Running)

-----------------------------------------------------------------------------
(* The inductive invariant behind SuccessIsOnMedia: how the loops, the     *)
(* handle and the medium hang together at each system call.                *)

\* The digest has been fed exactly offset bytes, except while a chunk that was
\* read, and fed to the digest, waits in the buffer to be written.
LoopInv ==
    /\ pc \in {"open_source", "inspect_target", "reinspect", "open_target", "resize"} =>
          offset = 0 /\ Len(hashed) = 0
    /\ pc \in {"hash_source", "read_source", "flush"} =>
          Len(hashed) = offset /\ offset <= src_size
    /\ pc = "write_target" =>
          /\ offset < src_size /\ Len(hashed) = offset + Wanted /\ Wanted <= Len(buffer)
          /\ \A i \in 1..Wanted : buffer[i] = hashed[offset + i]
    /\ pc = "flush" => hashed = result.source_sha256
    /\ (pc = "readback" /\ opts.verify_mode = "full") =>
          Len(hashed) = offset /\ offset <= src_size

\* A live handle is open on some object, and the write handle on the one the
\* run is recorded to have written.
HandleInv ==
    /\ target.live => target.obj \in Objects
    /\ pc \in {"resize", "read_source", "write_target", "flush"} =>
          target.obj = written_to /\ written_to \in Objects

\* The medium holds what the digest has been fed and the loop has advanced over;
\* once the loop has ended that is the whole image.
MediaInv ==
    rots = 0 =>
      /\ pc \in {"read_source", "write_target", "flush"} =>
            \A i \in 1..offset : i <= Len(media[target.obj]) /\ media[target.obj][i] = hashed[i]
      /\ (pc \in {"open_readback", "readback"} \/ Succeeded) =>
            /\ written_to \in Objects
            /\ Holds(written_to, result.source_sha256)
            /\ ~unflushed

IInv == TypeOK /\ LoopInv /\ HandleInv /\ MediaInv

\* What SuccessIsOnMedia says of the count: it follows the loop.
CountInv ==
    /\ pc \in {"open_source", "inspect_target", "hash_source", "reinspect", "open_target",
              "resize"} => result.bytes_written = 0
    /\ pc \in {"read_source", "write_target", "flush"} => result.bytes_written = offset
    /\ (pc \in {"open_readback", "readback"} \/ Succeeded) =>
          /\ result.bytes_written = Len(result.source_sha256)
          /\ written_to \in Objects

\* The invariant behind OnlyConfirmedDrivesTouched: what the path names once it
\* is authorized, and what the write handle is open on after that.
GrantInv ==
    /\ pc = "open_target" => raced \/ (bound \in Devices => Granted(bound))
    /\ pc \in {"resize", "read_source", "write_target", "flush"} =>
          raced \/ (target.obj \in Devices => Granted(target.obj))
    /\ OnlyConfirmedDrivesTouched

\* The invariant behind DrivesChangeUnderTheImage: the padded chunk ends within
\* the sector the image ends in.
PaddingInv == pc = "write_target" => offset + Len(buffer) < src_size + Sector

\* The invariant behind FullReadbackCatchesRot: as long as nobody rebinds the
\* path the readback looks at the object that was written, and the digest has
\* been fed what that object holds.
ReadbackInv ==
    /\ (written_to # Missing /\ ~swapped) => bound = written_to
    /\ pc \in {"open_readback", "readback"} => written_to \in Objects
    /\ (pc = "readback" /\ ~swapped) => target.obj = written_to
    /\ (pc = "readback" /\ opts.verify_mode = "full" /\ ~swapped /\ ~rotted) =>
          \A i \in 1..offset : i <= Len(media[target.obj]) /\ media[target.obj][i] = hashed[i]
    /\ FullReadbackCatchesRot

\* The invariant behind SuccessIsAnImage.  Until the image is edited everything
\* read is what the file holds.  An edit comes too late to spoil the first
\* digest, or early enough for the whole stream to be read from the new image.
ImageInv ==
    /\ edits = 0 =>
          /\ pc \in Steps \ {"open_source", "open_readback", "readback"} =>
                src_size = Len(source)
          /\ pc = "hash_source" => IsPrefix(hashed, source)
          /\ (pc \in Steps \ {"open_source", "inspect_target", "hash_source"} \/ Succeeded) =>
                result.source_sha256 = source
    /\ edits <= 1 =>
          /\ pc \in {"reinspect", "open_target", "resize", "read_source", "write_target"} =>
                result.source_sha256 \in Images \/ IsPrefix(hashed, source)
          /\ pc \in {"flush", "open_readback", "readback"} =>
                \/ result.source_sha256 \in Images
                \/ /\ IsPrefix(result.source_sha256, source)
                   /\ pc = "readback" => src_size = Len(source)
    /\ SuccessIsAnImage

-----------------------------------------------------------------------------
(* What the documents say and the code does not do.                        *)

\* EVIDENCE_STATES.txt:13-14, failed_before_write: "Failure occurred before any
\* target write was accepted."
FailedBeforeWriteIsUntouched ==
    (pc = "done" /\ result.final_state = "failed_before_write") => touched = {}
=============================================================================

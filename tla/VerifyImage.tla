----------------------------- MODULE VerifyImage -----------------------------
(***************************************************************************)
(* df_verify_image (src/src/pipeline.c) beside df_write_image: the verify  *)
(* command reads an image and a target that some earlier run, complete or  *)
(* not, may have written.  It opens both for itself, hashes the image it   *)
(* opened, and then reads the target back with the loops a write uses.     *)
(* Writes and verifications follow each other in any order.  The bounds on *)
(* what the world does are bounds for each command.                        *)
(***************************************************************************)
EXTENDS WriteImage

CONSTANT MaxRuns            \* bound on the commands

ASSUME RunsAssumption == MaxRuns \in Nat

VARIABLES
    command,        \* the command running, or run last: "write" or "verify"
    runs,           \* commands started
    agreed          \* observer: the last write succeeded, and from its beginning to that
                    \* of this command nobody changed the image, the path or the media

verify_vars == <<command, runs, agreed>>
all_vars == <<vars, verify_vars>>

-----------------------------------------------------------------------------
(* The operator starts a command on what earlier ones, ended or killed, left. *)

\* A command starts at its first step with a cleared record.
Start(cmd, first, record) ==
    /\ ~Running /\ runs < MaxRuns
    /\ runs' = runs + 1
    /\ command' = cmd
    /\ pc' = first /\ opts' \in Options
    /\ src_size' = 0 /\ planned' = Descriptor(Missing) /\ target' = NoFile
    /\ offset' = 0 /\ hashed' = << >> /\ buffer' = << >> /\ attempt' = 0
    /\ result' = record /\ status' = "running"
    /\ touched' = {} /\ written_to' = Missing /\ unflushed' = FALSE /\ raced' = FALSE
    /\ swapped' = FALSE /\ rotted' = FALSE
    /\ edits' = 0 /\ swaps' = 0 /\ rots' = 0 /\ mounts' = 0
    /\ UNCHANGED <<source, media, bound, mounted>>

StartWrite == Start("write", "open_source", EmptyResult) /\ agreed' = FALSE

\* The cleared record of df_verify_image names no state.
ClearedResult == [EmptyResult EXCEPT !.final_state = ""]

\* Nobody has changed the image, the path or the media since the command began.
Undisturbed == edits = 0 /\ swaps = 0 /\ rots = 0

StartVerify ==
    /\ Start("verify", "verify_open", ClearedResult)
    /\ agreed' = (Undisturbed /\ IF command = "write" THEN Succeeded ELSE agreed)

-----------------------------------------------------------------------------
(* The verify command.                                                     *)

\* Open the image and the target, and compare their sizes.
VerifyOpen ==
    /\ pc = "verify_open"
    /\ \/ Out("open") /\ UNCHANGED src_size
       \/ /\ bound # Missing
          /\ src_size' = OpenedSize
          /\ IF SizeOf(bound) # 0 /\ SizeOf(bound) < OpenedSize
             THEN Out("too_small")
             ELSE /\ target' = [obj |-> bound, is_device |-> bound \in Devices,
                                size |-> SizeOf(bound), live |-> TRUE]
                  /\ pc' = "verify_hash"
                  /\ UNCHANGED status
    /\ UNCHANGED <<world, opts, planned, offset, hashed, buffer, attempt, result, observers>>

\* Seeded defect: the digest of the target goes on from that of the image.
DigestGoesOn == UNCHANGED <<hashed, offset>>

\* The next region is hashed from its beginning.
DigestAnew == hashed' = << >> /\ offset' = 0

\* One chunk of the image, or the end of it: the digest is recorded, and with
\* verification mode none that is already the end of the command.
VerifyHash ==
    /\ pc = "verify_hash"
    /\ \/ offset < src_size /\ Out("io") /\ UNCHANGED <<offset, hashed, result>>
       \/ /\ offset < src_size /\ offset + Wanted <= Len(source)
          /\ hashed' = Extend(source, Wanted)
          /\ offset' = offset + Wanted
          /\ UNCHANGED <<pc, status, target, result>>
       \/ /\ offset >= src_size
          /\ DigestAnew
          /\ IF opts.verify_mode = "none"
             THEN /\ Out("ok")
                  /\ result' = [result EXCEPT !.source_sha256 = hashed,
                                              !.final_state = "success_unverified"]
             ELSE /\ pc' = "readback"
                  /\ result' = [result EXCEPT !.source_sha256 = hashed]
                  /\ UNCHANGED <<status, target>>
    /\ UNCHANGED <<world, opts, src_size, planned, buffer, attempt, observers>>

-----------------------------------------------------------------------------
VerifyInit == Init /\ command = "write" /\ runs = 1 /\ agreed = FALSE

CommandStep == (Step \/ VerifyOpen \/ VerifyHash) /\ UNCHANGED verify_vars

VerifyNext ==
    \/ CommandStep
    \/ Environment /\ UNCHANGED verify_vars
    \/ StartWrite \/ StartVerify

VerifySpec == VerifyInit /\ [][VerifyNext]_all_vars

VerifyFairSpec == VerifySpec /\ WF_all_vars(CommandStep)

-----------------------------------------------------------------------------
(* Properties.                                                             *)

Verification == pc = "done" /\ command = "verify"

\* A full verification that succeeds has compared the medium with one image:
\* the target begins with the bytes of the recorded digest, and they are the
\* whole image as the file holds it, even where a write before it was torn by an
\* edit and left a mixture behind.  What happens during the verification itself,
\* an edit of the image, a rebinding of the path or rot behind the reader, is
\* out of its sight.  (pipeline.c: df_verify_image_internal, both digests.)
VerifiedIsOnMedia ==
    (Verification /\ status = "ok" /\ opts.verify_mode = "full") =>
        /\ (~rotted /\ swaps = 0) => Holds(bound, result.source_sha256)
        /\ edits = 0 => result.source_sha256 = source

\* After a successful write, and with nobody interfering from the beginning of
\* that write, no verification in any mode contradicts it, whatever mode the
\* write itself used: the sampled offsets, the region hashed and the size
\* comparison agree with the bytes that were written.  (pipeline.c:
\* df_verify_sample_files against the write loop.)
VerifyAgreesWithWrite ==
    (Verification /\ agreed /\ Undisturbed) => status \in {"ok", "open", "io"}

\* Within a run a partial or later state is never taken back.  (A verification
\* starts with no state at all.)
\* (NO_MAGIC.md:26, "partial-media states remain partial-media states".)
EvidenceNeverRetreats ==
    [][(result.final_state \notin {"", "failed_before_write"} /\ runs' = runs) =>
          /\ result'.final_state # "failed_before_write"
          /\ result.final_state # "failed_partial_media" =>
                result'.final_state = result.final_state]_all_vars

-----------------------------------------------------------------------------
(* The inductive invariant behind these properties.                        *)

\* No state is recorded that the command has not reached.
EvidenceInv == Running => result.final_state \in {"", "failed_before_write", "failed_partial_media"}

VerificationType ==
    [final_state : FinalStates \cup {""}, source_sha256 : Seq(Bytes), bytes_written : Nat,
     bytes_verified : Nat, write_retries : Nat, verification_mismatches : Nat]

\* What a verification knows at each of its steps.
VerifyShape ==
    /\ pc \in {"verify_open", "verify_hash", "readback", "done", "killed"}
    /\ WorldOK
    /\ opts \in Options
    /\ src_size \in Nat /\ offset \in Nat /\ hashed \in Seq(Bytes)
    /\ target \in TargetType /\ (target.live => target.obj \in Objects)
    /\ result \in VerificationType

VerifyLoopInv ==
    /\ pc = "verify_open" => offset = 0 /\ hashed = << >>
    /\ (pc = "verify_hash" \/ (pc = "readback" /\ opts.verify_mode = "full")) =>
          Len(hashed) = offset /\ offset <= src_size
    /\ (pc = "readback" /\ opts.verify_mode = "sample") => offset <= Samples + 2
    /\ edits = 0 =>
          /\ pc \in {"verify_hash", "readback"} => src_size = Len(source)
          /\ pc = "verify_hash" => IsPrefix(hashed, source)
          /\ (pc = "readback" \/ (pc = "done" /\ status = "ok")) =>
                result.source_sha256 = source

VerifyMediaInv ==
    /\ (pc \in {"verify_hash", "readback"} /\ swaps = 0) =>
          target.obj = bound /\ bound \in Objects
    /\ (pc = "readback" /\ opts.verify_mode = "full" /\ ~rotted /\ swaps = 0) =>
          \A i \in 1..offset : i <= Len(media[bound]) /\ media[bound][i] = hashed[i]
    /\ rots = 0 => ~rotted
    /\ (agreed /\ Undisturbed) => bound \in Objects /\ Holds(bound, source)

VerifyInv == VerifyShape /\ VerifyLoopInv /\ VerifyMediaInv
             /\ VerifiedIsOnMedia /\ VerifyAgreesWithWrite

VerifyIInv ==
    /\ runs \in Nat /\ command \in {"write", "verify"}
    /\ EvidenceInv
    /\ command = "write" => IInv /\ ReadbackInv /\ ImageInv /\ (swaps = 0 => ~swapped)
    /\ command = "verify" => VerifyInv
=============================================================================

--------------------------- MODULE VerifyImageProofs ---------------------------
(* Theorems about VerifyImage, for every sequence of writes and verifications, *)
(* every image and every bound.  A write keeps the invariants of WriteImage,   *)
(* and a verification those of its own; a command that starts in the world the *)
(* last one left starts with both.                                             *)
EXTENDS VerifyImage, WriteImageProofs

-----------------------------------------------------------------------------
(* The record of a command.                                                  *)

\* Rewording the state of a record keeps it well-typed, with its source digest.
LEMMA RestatedVerificationIsTyped ==
  ASSUME NEW r \in VerificationType, NEW f \in FinalStates, NEW n \in Nat, NEW m \in Nat
  PROVE  /\ [r EXCEPT !.final_state = f] \in VerificationType
         /\ [r EXCEPT !.final_state = f].source_sha256 = r.source_sha256
         /\ [r EXCEPT !.final_state = f, !.verification_mismatches = m] \in VerificationType
         /\ [r EXCEPT !.final_state = f, !.bytes_verified = n] \in VerificationType
         /\ [r EXCEPT !.final_state = f, !.bytes_verified = n].source_sha256 = r.source_sha256
         /\ [r EXCEPT !.final_state = f, !.bytes_verified = n,
                      !.verification_mismatches = m] \in VerificationType
BY DEF VerificationType

LEMMA DigestIsRecorded ==
  ASSUME NEW r \in VerificationType, NEW h \in Seq(Bytes), NEW f \in FinalStates
  PROVE  /\ [r EXCEPT !.source_sha256 = h] \in VerificationType
         /\ [r EXCEPT !.source_sha256 = h].source_sha256 = h
         /\ [r EXCEPT !.source_sha256 = h, !.final_state = f] \in VerificationType
         /\ [r EXCEPT !.source_sha256 = h, !.final_state = f].source_sha256 = h
         /\ [r EXCEPT !.source_sha256 = h].final_state = r.final_state
BY DEF VerificationType

LEMMA CountedVerificationIsTyped ==
  ASSUME NEW r \in VerificationType, NEW n \in Nat
  PROVE  LET q == [r EXCEPT !.bytes_verified = n]
         IN  q \in VerificationType /\ q.source_sha256 = r.source_sha256
BY DEF VerificationType

LEMMA ClearedResultIsTyped ==
  ClearedResult \in VerificationType /\ ClearedResult.final_state = ""
<1>1. EmptyResult \in ResultType
  BY EmptyResultIsTyped
<1>2. \A r \in ResultType : /\ [r EXCEPT !.final_state = ""] \in VerificationType
                           /\ [r EXCEPT !.final_state = ""].final_state = ""
  BY DEF ResultType, VerificationType
<1> QED
  BY <1>1, <1>2 DEF ClearedResult

LEMMA WriteResultIsVerificationResult ==
  ASSUME NEW r \in ResultType
  PROVE  r \in VerificationType
BY DEF ResultType, VerificationType

-----------------------------------------------------------------------------
(* The evidence a record carries.                                            *)

\* The states a command that has ended may have reached, from state s.
Later(s) == {s, "failed_partial_media", "verification_failed", "success_unverified",
             "success_verified"}

\* No step of a command brings back the state it started with, and the later
\* ones come only with its end.
LEMMA CommandMovesEvidence ==
  ASSUME result \in VerificationType,
         (Step \/ VerifyOpen \/ VerifyHash \/ Environment \/ UNCHANGED vars)
  PROVE  /\ result'.final_state \in Later(result.final_state)
         /\ Running' => result'.final_state \in {result.final_state, "failed_partial_media"}
<1>1. CASE \/ OpenSource \/ InspectTarget \/ Reinspect \/ OpenTarget \/ Resize \/ ReadSource
           \/ CheckStream \/ VerifyOpen \/ Environment \/ UNCHANGED vars
  <2>1. result' = result
    BY <1>1 DEF OpenSource, InspectTarget, Reinspect, OpenTarget, Resize, ReadSource, CheckStream,
                VerifyOpen, Environment, EditSource, SwapDrive, Rot, Mount, Kill, program, vars
  <2> QED
    BY <2>1 DEF Later
<1>2. CASE HashSource \/ VerifyHash
  <2>1. \/ \E h : result' = [result EXCEPT !.source_sha256 = h]
        \/ result' = result
        \/ pc' = "done" /\ \E h : result' = [result EXCEPT !.source_sha256 = h,
                                                !.final_state = "success_unverified"]
    BY <1>2 DEF HashSource, VerifyHash, Out
  <2> QED
    BY <2>1 DEF Later, Running, VerificationType
<1>3. CASE WriteChunk \/ WriteFails
  <2>1. \/ \E n : result' = [result EXCEPT !.bytes_written = n,
                                         !.final_state = "failed_partial_media"]
        \/ \E n : result' = [result EXCEPT !.write_retries = n]
    BY <1>3 DEF WriteChunk, WriteFails, Counted
  <2> QED
    BY <2>1 DEF Later, VerificationType
<1>4. CASE Flush
  <2>1. \/ result' = result
        \/ pc' = "done" /\ result' = [result EXCEPT !.final_state = "success_unverified"]
    BY <1>4 DEF Flush, Out
  <2> QED
    BY <2>1 DEF Later, Running, VerificationType
<1>5. CASE OpenReadback \/ FullReadback \/ SampleReadback
  <2>1. \/ \E n : result' = [result EXCEPT !.bytes_verified = n]
        \/ result' = result
        \/ pc' = "done" /\ \E f \in {"verification_failed", "success_verified"} : \E m, n :
              \/ result' = [result EXCEPT !.final_state = f]
              \/ result' = [result EXCEPT !.final_state = f, !.verification_mismatches = m]
              \/ result' = [result EXCEPT !.final_state = f, !.bytes_verified = n]
              \/ result' = [result EXCEPT !.final_state = f, !.bytes_verified = n,
                                          !.verification_mismatches = m]
    BY <1>5 DEF OpenReadback, FullReadback, SampleReadback, VerificationFails, Verified, Out
  <2> QED
    BY <2>1 DEF Later, Running, VerificationType
<1> QED
  BY <1>1, <1>2, <1>3, <1>4, <1>5 DEF Step

\* Nothing but a new command goes on from the end of one.
LEMMA EndedCommandRests ==
  ASSUME ~Running, (Step \/ VerifyOpen \/ VerifyHash \/ Environment \/ UNCHANGED vars)
  PROVE  UNCHANGED vars
BY DEF Running, Step, Environment, OpenSource, InspectTarget, Reinspect, OpenTarget, Resize,
       ReadSource, CheckStream, VerifyOpen, EditSource, SwapDrive, Rot, Mount, Kill, HashSource,
       VerifyHash, WriteChunk, WriteFails, Flush, OpenReadback, FullReadback, SampleReadback

LEMMA CommandKeepsEvidenceInv ==
  ASSUME EvidenceInv, result \in VerificationType,
         (Step \/ VerifyOpen \/ VerifyHash \/ Environment \/ UNCHANGED vars)
  PROVE  EvidenceInv'
<1>1. CASE Running
  BY <1>1, CommandMovesEvidence DEF EvidenceInv
<1>2. CASE ~Running
  <2>1. UNCHANGED pc
    BY <1>2, EndedCommandRests DEF vars
  <2> QED
    BY <1>2, <2>1 DEF EvidenceInv, Running
<1> QED
  BY <1>1, <1>2

-----------------------------------------------------------------------------
(* The steps of a verification.                                              *)

\* What every step of the command leaves alone.
Still == UNCHANGED <<world, opts, observers, agreed>>

\* A verification that ends without an answer, or with one that cannot contradict
\* a write, leaves nothing to show but types.
LEMMA VerificationStops ==
  ASSUME VerifyInv, Still, pc' \in {"done", "killed"}, target' = NoFile,
         src_size' \in Nat, offset' \in Nat, hashed' \in Seq(Bytes),
         result' \in VerificationType,
         pc' = "done" => status' # "ok",
         (pc' = "done" /\ agreed /\ Undisturbed) => status' \in {"open", "io"}
  PROVE  VerifyInv'
<1> USE DEF Still, world, counters, observers, VerifyInv
<1>1. VerifyShape'
  BY NoFileIsTyped DEF VerifyShape, WorldOK
<1>2. VerifyLoopInv' /\ VerifyMediaInv'
  BY DEF VerifyLoopInv, VerifyMediaInv, Undisturbed, Holds
<1>3. VerifiedIsOnMedia' /\ VerifyAgreesWithWrite'
  BY DEF VerifiedIsOnMedia, VerifyAgreesWithWrite, Verification, Undisturbed
<1> QED
  BY <1>1, <1>2, <1>3

LEMMA VerifyOpenKeepsVerifyInv == VerifyInv /\ VerifyOpen /\ UNCHANGED agreed => VerifyInv'
<1> SUFFICES ASSUME VerifyInv, VerifyOpen, UNCHANGED agreed PROVE VerifyInv'
  OBVIOUS
<1>1. Still /\ UNCHANGED <<offset, hashed, result>> /\ pc = "verify_open"
  BY DEF Still, VerifyOpen
<1>2. /\ offset = 0 /\ hashed = << >> /\ src_size \in Nat /\ result \in VerificationType
      /\ source \in Seq(Bytes) /\ media \in [Objects -> Seq(Bytes)]
      /\ bound \in Objects \cup {Missing} /\ hashed \in Seq(Bytes) /\ offset \in Nat
  BY <1>1, ByteAssumption DEF VerifyInv, VerifyShape, VerifyLoopInv, WorldOK
<1>3. OpenedSize \in Nat /\ OpenedSize = Len(source)
  BY <1>2 DEF OpenedSize
<1>4. CASE Out("open") /\ UNCHANGED src_size
  BY <1>1, <1>2, <1>4, VerificationStops DEF Out
<1>5. CASE bound # Missing /\ src_size' = OpenedSize /\ Out("too_small")
           /\ SizeOf(bound) < OpenedSize
  <2>1. ~(agreed /\ Undisturbed)
    <3> SUFFICES ASSUME agreed, Undisturbed PROVE FALSE
      OBVIOUS
    <3>1. Len(source) <= Len(media[bound])
      BY DEF VerifyInv, VerifyMediaInv, Holds, IsPrefix
    <3> QED
      BY <1>2, <1>3, <1>5, <3>1 DEF SizeOf
  <2>2. pc' = "done" /\ status' # "ok" /\ target' = NoFile
    BY <1>5 DEF Out
  <2> QED
    BY <1>1, <1>2, <1>3, <1>5, <2>1, <2>2, VerificationStops
<1>6. CASE /\ bound # Missing /\ src_size' = OpenedSize /\ pc' = "verify_hash" /\ UNCHANGED status
           /\ target' = [obj |-> bound, is_device |-> bound \in Devices,
                         size |-> SizeOf(bound), live |-> TRUE]
  <2>1. bound \in Objects /\ SizeOf(bound) \in Nat /\ (bound \in Devices) \in BOOLEAN
    BY <1>2, <1>6 DEF SizeOf
  <2>2. target' \in TargetType /\ target'.obj = bound
    BY <1>6, <2>1, HandleIsTyped
  <2>3. VerifyShape'
    BY <1>1, <1>2, <1>3, <1>6, <2>1, <2>2 DEF Still, VerifyInv, VerifyShape, WorldOK, world,
                                              counters, observers
  <2>4. VerifyLoopInv'
    <3>1. IsPrefix(hashed, source)
      BY <1>2, EmptyPrefix
    <3>2. IsPrefix(hashed', source')
      BY <1>1, <3>1 DEF Still, world
    <3> QED
      BY <1>1, <1>2, <1>3, <1>6, <3>2 DEF Still, VerifyLoopInv, world, counters
  <2>5. VerifyMediaInv'
    BY <1>1, <1>6, <2>1, <2>2 DEF Still, VerifyInv, VerifyMediaInv, Undisturbed, Holds, world,
                            counters, observers
  <2>6. VerifiedIsOnMedia' /\ VerifyAgreesWithWrite'
    BY <1>6 DEF VerifiedIsOnMedia, VerifyAgreesWithWrite, Verification
  <2> QED
    BY <2>3, <2>4, <2>5, <2>6 DEF VerifyInv
<1> QED
  BY <1>4, <1>5, <1>6 DEF VerifyOpen, Out

LEMMA VerifyHashKeepsVerifyInv == VerifyInv /\ VerifyHash /\ UNCHANGED agreed => VerifyInv'
<1> SUFFICES ASSUME VerifyInv, VerifyHash, UNCHANGED agreed PROVE VerifyInv'
  OBVIOUS
<1>1. Still /\ UNCHANGED <<src_size, observers>> /\ pc = "verify_hash"
  BY DEF Still, VerifyHash
<1>2. /\ offset \in Nat /\ hashed \in Seq(Bytes) /\ Len(hashed) = offset
      /\ src_size \in Nat /\ offset <= src_size /\ result \in VerificationType
      /\ source \in Seq(Bytes)
      /\ edits = 0 => src_size = Len(source) /\ IsPrefix(hashed, source)
  BY <1>1, ByteAssumption DEF VerifyInv, VerifyShape, VerifyLoopInv, WorldOK
<1>3. UNCHANGED <<edits, source, media, bound, swaps, rots, rotted, opts>>
  BY <1>1 DEF Still, world, counters, observers
<1>4. CASE Out("io") /\ UNCHANGED <<offset, hashed, result>>
  BY <1>1, <1>2, <1>4, VerificationStops DEF Out
<1>5. CASE /\ offset < src_size /\ offset + Wanted <= Len(source)
           /\ hashed' = Extend(source, Wanted) /\ offset' = offset + Wanted
           /\ UNCHANGED <<pc, status, target, result>>
  <2>1. Wanted \in Nat /\ Wanted <= src_size - offset
    BY <1>2, <1>5, ChunkIsInImage
  <2>2. hashed' \in Seq(Bytes) /\ Len(hashed') = offset'
    BY <1>2, <1>5, <2>1, ExtendIsBytes
  <2>3. offset' \in Nat /\ offset' <= src_size'
    BY <1>1, <1>2, <1>5, <2>1
  <2>4. VerifyShape'
    BY <1>1, <1>5, <2>2, <2>3 DEF Still, VerifyInv, VerifyShape, WorldOK, world, counters
  <2>5. VerifyLoopInv'
    <3>1. edits = 0 => IsPrefix(Extend(source, Wanted), source)
      BY <1>2, <1>5, <2>1, ExtendedPrefix
    <3>2. edits' = 0 => IsPrefix(hashed', source')
      BY <1>3, <1>5, <3>1
    <3> QED
      BY <1>1, <1>2, <1>3, <1>5, <2>2, <2>3, <3>2 DEF VerifyLoopInv
  <2>6. VerifyMediaInv'
    BY <1>1, <1>3, <1>5 DEF Still, VerifyInv, VerifyMediaInv, Undisturbed, Holds
  <2>7. VerifiedIsOnMedia' /\ VerifyAgreesWithWrite'
    BY <1>1, <1>5 DEF VerifiedIsOnMedia, VerifyAgreesWithWrite, Verification
  <2> QED
    BY <2>4, <2>5, <2>6, <2>7 DEF VerifyInv
<1>6. ASSUME offset >= src_size, DigestAnew,
             result' \in VerificationType, result'.source_sha256 = hashed,
             \/ pc' = "done" /\ status' = "ok" /\ target' = NoFile
                /\ opts.verify_mode = "none"
             \/ pc' = "readback" /\ UNCHANGED <<status, target>>
      PROVE  VerifyInv'
  <2>1. hashed' = << >> /\ offset' = 0 /\ hashed' \in Seq(Bytes) /\ Len(hashed') = 0
    BY <1>6 DEF DigestAnew
  <2>2. VerifyShape'
    BY <1>1, <1>6, <2>1, NoFileIsTyped DEF Still, VerifyInv, VerifyShape, WorldOK, world, counters
  <2>3. edits' = 0 => result'.source_sha256 = source'
    <3> SUFFICES ASSUME edits = 0 PROVE hashed = source
      BY <1>3, <1>6
    <3>1. Len(source) <= Len(hashed)
      BY <1>2, <1>6
    <3> QED
      BY <1>2, <3>1, WholePrefix
  <2>4. VerifyLoopInv'
    BY <1>1, <1>2, <1>3, <1>6, <2>1, <2>3, SizeAssumption DEF VerifyLoopInv
  <2>5. VerifyMediaInv'
    BY <1>1, <1>3, <1>6, <2>1 DEF Still, VerifyInv, VerifyMediaInv, Undisturbed, Holds
  <2>6. VerifiedIsOnMedia'
    BY <1>3, <1>6 DEF VerifiedIsOnMedia, Verification
  <2>7. VerifyAgreesWithWrite'
    BY <1>6 DEF VerifyAgreesWithWrite, Verification
  <2> QED
    BY <2>2, <2>4, <2>5, <2>6, <2>7 DEF VerifyInv
<1>7. ASSUME offset >= src_size, DigestAnew PROVE VerifyInv'
  <2>1. CASE /\ Out("ok") /\ opts.verify_mode = "none"
             /\ result' = [result EXCEPT !.source_sha256 = hashed,
                                         !.final_state = "success_unverified"]
    BY <1>2, <1>6, <1>7, <2>1, DigestIsRecorded DEF FinalStates, Out
  <2>2. CASE /\ pc' = "readback" /\ result' = [result EXCEPT !.source_sha256 = hashed]
             /\ UNCHANGED <<status, target>>
    <3>1. result' \in VerificationType /\ result'.source_sha256 = hashed
      BY <1>2, <2>2, DigestIsRecorded DEF FinalStates
    <3> QED
      BY <1>6, <1>7, <2>2, <3>1
  <2> QED
    BY <1>2, <1>7, <2>1, <2>2 DEF VerifyHash, Out
<1> QED
  BY <1>4, <1>5, <1>7 DEF VerifyHash

\* The readback of a full verification: what is hashed is what the target holds,
\* and after an undisturbed write that is the image.
LEMMA FullReadbackKeepsVerifyInv ==
  VerifyInv /\ FullReadback /\ UNCHANGED agreed => VerifyInv'
<1> SUFFICES ASSUME VerifyInv, FullReadback, UNCHANGED agreed PROVE VerifyInv'
  OBVIOUS
<1>1. /\ Still /\ UNCHANGED src_size /\ pc = "readback" /\ opts.verify_mode = "full"
      /\ UNCHANGED <<edits, source, media, bound, swaps, rots, rotted, opts>>
  BY DEF Still, FullReadback, world, counters, observers
<1>2. /\ offset \in Nat /\ hashed \in Seq(Bytes) /\ Len(hashed) = offset
      /\ src_size \in Nat /\ offset <= src_size /\ result \in VerificationType
      /\ source \in Seq(Bytes) /\ media \in [Objects -> Seq(Bytes)]
      /\ bound \in Objects \cup {Missing}
      /\ swaps = 0 => target.obj = bound /\ bound \in Objects
      /\ edits = 0 => src_size = Len(source) /\ result.source_sha256 = source
  BY <1>1, ByteAssumption DEF VerifyInv, VerifyShape, VerifyLoopInv, VerifyMediaInv, WorldOK
<1>3. CASE VerificationFails("io", 0) /\ UNCHANGED <<offset, hashed>>
  <2>1. result' \in VerificationType
    BY <1>2, <1>3, RestatedVerificationIsTyped DEF VerificationFails, FinalStates
  <2> QED
    BY <1>1, <1>2, <1>3, <2>1, VerificationStops DEF VerificationFails, Out
<1>4. CASE /\ offset < src_size
           /\ target.live /\ offset + Wanted <= Len(media[target.obj])
           /\ hashed' = Extend(media[target.obj], Wanted)
           /\ offset' = offset + Wanted
           /\ UNCHANGED <<pc, status, target, result>>
  <2>1. media[target.obj] \in Seq(Bytes)
    BY <1>2, <1>4 DEF VerifyInv, VerifyShape
  <2>2. Wanted \in Nat /\ Wanted <= src_size - offset
    BY <1>2, <1>4, ChunkIsInImage
  <2>3. /\ hashed' \in Seq(Bytes) /\ Len(hashed') = offset'
        /\ \A i \in 1..offset : hashed'[i] = hashed[i]
        /\ \A i \in (offset + 1)..(offset + Wanted) : hashed'[i] = media[target.obj][i]
    BY <1>2, <1>4, <2>1, <2>2, ExtendIsBytes
  <2>4. offset' \in Nat /\ offset' <= src_size'
    BY <1>1, <1>2, <1>4, <2>2
  <2>5. VerifyShape'
    BY <1>1, <1>4, <2>3, <2>4 DEF Still, VerifyInv, VerifyShape, WorldOK, world, counters
  <2>6. VerifyLoopInv'
    BY <1>1, <1>2, <1>4, <2>3, <2>4 DEF VerifyLoopInv
  <2>7. ASSUME ~rotted, swaps = 0, NEW i \in 1..offset'
        PROVE  i <= Len(media[bound]) /\ media[bound][i] = hashed'[i]
    <3>1. CASE i <= offset
      <4>1. i \in 1..offset
        BY <1>2, <1>4, <2>2, <3>1
      <4> QED
        BY <1>1, <2>3, <2>7, <4>1 DEF VerifyInv, VerifyMediaInv
    <3>2. CASE offset < i
      <4>1. i \in (offset + 1)..(offset + Wanted) /\ i <= Len(media[target.obj])
        BY <1>2, <1>4, <2>1, <2>2, <3>2
      <4> QED
        BY <1>2, <2>3, <2>7, <4>1
    <3> QED
      BY <1>2, <1>4, <2>2, <3>1, <3>2
  <2>8. VerifyMediaInv'
    BY <1>1, <1>4, <2>7 DEF Still, VerifyInv, VerifyMediaInv, Undisturbed, Holds
  <2>9. VerifiedIsOnMedia' /\ VerifyAgreesWithWrite'
    BY <1>1, <1>4 DEF VerifiedIsOnMedia, VerifyAgreesWithWrite, Verification
  <2> QED
    BY <2>5, <2>6, <2>8, <2>9 DEF VerifyInv
<1>5. ASSUME offset >= src_size, ~rotted, swaps = 0
      PROVE  /\ \A i \in 1..Len(hashed) : media[bound][i] = hashed[i]
             /\ Len(hashed) <= Len(media[bound])
  <2>1. \A i \in 1..offset : i <= Len(media[bound]) /\ media[bound][i] = hashed[i]
    BY <1>1, <1>5 DEF VerifyInv, VerifyMediaInv
  <2>2. Len(hashed) <= Len(media[bound])
    <3>1. media[bound] \in Seq(Bytes)
      BY <1>2, <1>5
    <3>2. CASE offset = 0
      BY <1>2, <3>1, <3>2
    <3>3. CASE offset # 0
      <4>1. offset \in 1..offset
        BY <1>2, <3>3
      <4> QED
        BY <1>2, <2>1, <4>1
    <3> QED
      BY <3>2, <3>3
  <2> QED
    BY <1>2, <2>1, <2>2
<1>6. CASE /\ offset >= src_size /\ ReadbackMatches /\ Out("ok")
           /\ result' = [result EXCEPT !.final_state = "success_verified",
                                       !.bytes_verified = src_size]
           /\ UNCHANGED <<offset, hashed>>
  <2>1. result' \in VerificationType /\ result'.source_sha256 = result.source_sha256
    BY <1>2, <1>6, RestatedVerificationIsTyped DEF FinalStates
  <2>2. pc' = "done" /\ status' = "ok" /\ target' = NoFile
    BY <1>6 DEF Out
  <2>3. VerifyShape'
    BY <1>1, <1>2, <1>6, <2>1, <2>2, NoFileIsTyped
    DEF Still, VerifyInv, VerifyShape, WorldOK, world, counters
  <2>4. VerifyLoopInv' /\ VerifyMediaInv'
    BY <1>1, <1>2, <1>6, <2>1, <2>2
    DEF Still, VerifyInv, VerifyLoopInv, VerifyMediaInv, Undisturbed, Holds
  <2>5. VerifyAgreesWithWrite'
    BY <2>2 DEF VerifyAgreesWithWrite
  <2>6. ASSUME ~rotted, swaps = 0 PROVE Holds(bound, result.source_sha256)
    <3>1. hashed = result.source_sha256
      BY <1>6 DEF ReadbackMatches
    <3>2. Len(hashed) <= Len(media[bound])
      BY <1>5, <1>6, <2>6
    <3> QED
      BY <1>5, <1>6, <2>6, <3>1, <3>2 DEF Holds, IsPrefix
  <2>7. VerifiedIsOnMedia'
    BY <1>1, <1>2, <2>1, <2>6 DEF VerifiedIsOnMedia, Holds
  <2> QED
    BY <2>3, <2>4, <2>5, <2>7 DEF VerifyInv
<1>7. ASSUME offset >= src_size, agreed, Undisturbed PROVE ReadbackMatches
  <2>1. /\ edits = 0 /\ swaps = 0 /\ ~rotted /\ Holds(bound, source)
        /\ Len(hashed) = Len(source) /\ result.source_sha256 = source
    BY <1>2, <1>7 DEF VerifyInv, VerifyMediaInv, Undisturbed
  <2>2. \A i \in 1..Len(source) : source[i] = hashed[i]
    BY <1>5, <1>7, <2>1 DEF Holds, IsPrefix
  <2>3. hashed = source
    BY <1>2, <2>1, <2>2
  <2> QED
    BY <2>1, <2>3 DEF ReadbackMatches
<1>8. CASE /\ offset >= src_size /\ ~ReadbackMatches /\ Out("verify_mismatch")
           /\ result' = [result EXCEPT !.final_state = "verification_failed",
                                       !.bytes_verified = src_size,
                                       !.verification_mismatches = 1]
           /\ UNCHANGED <<offset, hashed>>
  <2>1. result' \in VerificationType
    BY <1>2, <1>8, RestatedVerificationIsTyped DEF FinalStates
  <2>2. ~(agreed /\ Undisturbed)
    BY <1>7, <1>8
  <2> QED
    BY <1>1, <1>2, <1>8, <2>1, <2>2, VerificationStops DEF Out
<1> QED
  BY <1>3, <1>4, <1>6, <1>8 DEF FullReadback

\* A sample lies within the image, and within a target that holds it.
LEMMA SampleIsInImage ==
  ASSUME NEW n \in Nat, NEW block \in Nat, block <= n,
         NEW p \in IF offset = 0 THEN {0} ELSE IF offset = 1 THEN {n - block} ELSE 0..(n - block)
  PROVE  p \in Nat /\ p + block <= n
OBVIOUS

LEMMA SampleReadbackKeepsVerifyInv ==
  VerifyInv /\ SampleReadback /\ UNCHANGED agreed => VerifyInv'
<1> SUFFICES ASSUME VerifyInv, SampleReadback, UNCHANGED agreed PROVE VerifyInv'
  OBVIOUS
<1> DEFINE block == Least(src_size, SampleBlock)
           positions == IF offset = 0 THEN {0} ELSE IF offset = 1 THEN {src_size - block}
                        ELSE 0..(src_size - block)
<1>1. /\ Still /\ UNCHANGED <<src_size, hashed>> /\ pc = "readback"
      /\ opts.verify_mode = "sample" /\ opts.verify_mode # "full"
      /\ UNCHANGED <<edits, source, media, bound, swaps, rots, rotted, opts>>
  BY DEF Still, SampleReadback, world, counters, observers
<1>2. /\ offset \in Nat /\ hashed \in Seq(Bytes) /\ offset <= Samples + 2
      /\ src_size \in Nat /\ result \in VerificationType
      /\ source \in Seq(Bytes) /\ media \in [Objects -> Seq(Bytes)]
      /\ swaps = 0 => target.obj = bound /\ bound \in Objects
      /\ edits = 0 => src_size = Len(source) /\ result.source_sha256 = source
  BY <1>1, ByteAssumption DEF VerifyInv, VerifyShape, VerifyLoopInv, VerifyMediaInv, WorldOK
<1>3. block \in Nat /\ block <= src_size
  BY <1>2, SizeAssumption DEF Least
<1> HIDE DEF block
<1>4. CASE Verified /\ UNCHANGED offset
  <2>1. /\ result' \in VerificationType /\ result'.source_sha256 = result.source_sha256
        /\ pc' = "done" /\ status' = "ok" /\ target' = NoFile
    BY <1>2, <1>4, RestatedVerificationIsTyped DEF Verified, FinalStates, Out
  <2>2. VerifyShape'
    BY <1>1, <1>2, <1>4, <2>1, NoFileIsTyped
    DEF Still, VerifyInv, VerifyShape, WorldOK, world, counters
  <2>3. VerifyLoopInv' /\ VerifyMediaInv'
    BY <1>1, <1>2, <1>4, <2>1
    DEF Still, VerifyInv, VerifyLoopInv, VerifyMediaInv, Undisturbed, Holds
  <2>4. VerifyAgreesWithWrite' /\ VerifiedIsOnMedia'
    BY <1>1, <2>1 DEF VerifyAgreesWithWrite, VerifiedIsOnMedia
  <2> QED
    BY <2>2, <2>3, <2>4 DEF VerifyInv
<1>5. CASE VerificationFails("io", 0) /\ UNCHANGED offset
  <2>1. result' \in VerificationType
    BY <1>2, <1>5, RestatedVerificationIsTyped DEF VerificationFails, FinalStates
  <2> QED
    BY <1>1, <1>2, <1>5, <2>1, VerificationStops DEF VerificationFails, Out
<1>6. ASSUME NEW p \in positions, agreed, Undisturbed
      PROVE  /\ p + block <= Len(source)
             /\ p + block <= Len(media[target.obj])
             /\ \A i \in (p + 1)..(p + block) : source[i] = media[target.obj][i]
  <2>1. p \in Nat /\ p + block <= src_size
    BY <1>2, <1>3, SampleIsInImage
  <2>2. /\ target.obj = bound /\ bound \in Objects /\ Holds(bound, source)
        /\ src_size = Len(source)
    BY <1>1, <1>2, <1>6 DEF VerifyInv, VerifyMediaInv, Undisturbed
  <2>3. media[bound] \in Seq(Bytes)
    BY <1>2, <2>2
  <2>4. Len(source) <= Len(media[bound]) /\ \A i \in 1..Len(source) : media[bound][i] = source[i]
    BY <2>2 DEF Holds, IsPrefix
  <2>5. (p + 1)..(p + block) \subseteq 1..Len(source)
    BY <1>2, <1>3, <2>1, <2>2
  <2> QED
    BY <1>2, <1>3, <2>1, <2>2, <2>3, <2>4, <2>5
<1>7. CASE VerificationFails("verify_mismatch", 1) /\ UNCHANGED offset /\ ~(agreed /\ Undisturbed)
  <2>1. result' \in VerificationType
    BY <1>2, <1>7, RestatedVerificationIsTyped DEF VerificationFails, FinalStates
  <2> QED
    BY <1>1, <1>2, <1>7, <2>1, VerificationStops DEF VerificationFails, Out
<1>8. CASE /\ result' = [result EXCEPT !.bytes_verified = result.bytes_verified + block]
           /\ offset' = offset + 1 /\ offset < Samples + 2
           /\ UNCHANGED <<pc, status, target>>
  <2>1. result.bytes_verified + block \in Nat
    <3>1. result.bytes_verified \in Nat
      BY <1>2 DEF VerificationType
    <3> QED
      BY <1>3, <3>1
  <2>2. result' \in VerificationType /\ result'.source_sha256 = result.source_sha256
    BY <1>2, <1>8, <2>1, CountedVerificationIsTyped
  <2>3. offset' \in Nat /\ offset' <= Samples + 2
    BY <1>2, <1>8, SizeAssumption
  <2>4. VerifyShape'
    BY <1>1, <1>8, <2>2, <2>3 DEF Still, VerifyInv, VerifyShape, WorldOK, world, counters
  <2>5. VerifyLoopInv' /\ VerifyMediaInv'
    BY <1>1, <1>2, <1>8, <2>2, <2>3
    DEF Still, VerifyInv, VerifyLoopInv, VerifyMediaInv, Undisturbed, Holds
  <2>6. VerifiedIsOnMedia' /\ VerifyAgreesWithWrite'
    BY <1>1, <1>8 DEF VerifiedIsOnMedia, VerifyAgreesWithWrite, Verification
  <2> QED
    BY <2>4, <2>5, <2>6 DEF VerifyInv
<1>9. \/ Verified /\ UNCHANGED offset
      \/ VerificationFails("io", 0) /\ UNCHANGED offset
      \/ \E p \in positions :
           /\ offset < Samples + 2
           /\ IF /\ p + block <= Len(source)
                 /\ p + block <= Len(media[target.obj])
                 /\ \A i \in (p + 1)..(p + block) : source[i] = media[target.obj][i]
              THEN /\ result' = [result EXCEPT !.bytes_verified = result.bytes_verified + block]
                   /\ offset' = offset + 1
                   /\ UNCHANGED <<pc, status, target>>
              ELSE VerificationFails("verify_mismatch", 1) /\ UNCHANGED offset
  BY DEF SampleReadback, LastSample, block
<1> HIDE DEF positions
<1> QED
  BY <1>4, <1>5, <1>6, <1>7, <1>8, <1>9

\* What the world does either ends the command or shows in its counters.
LEMMA EnvironmentKeepsVerifyInv == VerifyInv /\ Environment /\ UNCHANGED agreed => VerifyInv'
<1> SUFFICES ASSUME VerifyInv, Environment, UNCHANGED agreed PROVE VerifyInv'
  OBVIOUS
<1>1. CASE Kill
  <2>1. /\ Still /\ UNCHANGED <<src_size, offset, hashed, result>>
        /\ pc' = "killed" /\ target' = NoFile
    BY <1>1 DEF Kill, Still
  <2>2. src_size \in Nat /\ offset \in Nat /\ hashed \in Seq(Bytes) /\ result \in VerificationType
    BY DEF VerifyInv, VerifyShape
  <2> QED
    BY <2>1, <2>2, VerificationStops
<1>2. CASE EditSource
  <2>1. /\ source' \in Images /\ edits' \in Nat /\ edits' # 0 /\ Running
        /\ UNCHANGED <<media, bound, mounted, swaps, rots, mounts, pc, opts, src_size, offset,
                       hashed, result, status, target, rotted>>
    BY <1>2 DEF EditSource, program, observers, VerifyInv, VerifyShape, WorldOK
  <2>2. VerifyShape'
    BY <2>1 DEF VerifyInv, VerifyShape, WorldOK
  <2>3. VerifyLoopInv' /\ VerifyMediaInv'
    BY <2>1 DEF VerifyInv, VerifyLoopInv, VerifyMediaInv, Undisturbed
  <2>4. VerifiedIsOnMedia' /\ VerifyAgreesWithWrite'
    BY <2>1 DEF Running, VerifiedIsOnMedia, VerifyAgreesWithWrite, Verification
  <2> QED
    BY <2>2, <2>3, <2>4 DEF VerifyInv
<1>3. CASE Mount
  <2>1. /\ mounted' \subseteq Devices /\ mounts' \in Nat /\ Running
        /\ UNCHANGED <<source, media, bound, edits, swaps, rots, pc, opts, src_size, offset,
                       hashed, result, status, target, rotted>>
    BY <1>3 DEF Mount, program, observers, VerifyInv, VerifyShape, WorldOK
  <2>2. VerifyShape'
    BY <2>1 DEF VerifyInv, VerifyShape, WorldOK
  <2>3. VerifyLoopInv' /\ VerifyMediaInv'
    BY <2>1 DEF VerifyInv, VerifyLoopInv, VerifyMediaInv, Undisturbed, Holds
  <2>4. VerifiedIsOnMedia' /\ VerifyAgreesWithWrite'
    BY <2>1 DEF Running, VerifiedIsOnMedia, VerifyAgreesWithWrite, Verification
  <2> QED
    BY <2>2, <2>3, <2>4 DEF VerifyInv
<1>4. CASE SwapDrive
  <2>1. /\ bound' \in Objects \cup {Missing} /\ swaps' \in Nat /\ swaps' # 0 /\ Running
        /\ target' = [target EXCEPT !.live = FALSE]
        /\ UNCHANGED <<source, media, mounted, edits, rots, mounts, pc, opts, src_size, offset,
                       hashed, result, status, rotted>>
    BY <1>4 DEF SwapDrive, program, VerifyInv, VerifyShape, WorldOK, Objects
  <2>2. target' \in TargetType /\ target'.obj = target.obj /\ ~target'.live
    BY <2>1, Zenon DEF VerifyInv, VerifyShape, TargetType
  <2>3. VerifyShape'
    BY <2>1, <2>2 DEF VerifyInv, VerifyShape, WorldOK
  <2>4. VerifyLoopInv' /\ VerifyMediaInv'
    BY <2>1 DEF VerifyInv, VerifyLoopInv, VerifyMediaInv, Undisturbed
  <2>5. VerifiedIsOnMedia' /\ VerifyAgreesWithWrite'
    BY <2>1 DEF Running, VerifiedIsOnMedia, VerifyAgreesWithWrite, Verification
  <2> QED
    BY <2>3, <2>4, <2>5 DEF VerifyInv
<1>5. CASE Rot
  <2>1. PICK o \in Objects : \E i \in DOMAIN media[o] :
           media' = [media EXCEPT ![o] = [media[o] EXCEPT ![i] = Junk]]
    BY <1>5 DEF Rot
  <2>2. PICK i \in DOMAIN media[o] : media' = [media EXCEPT ![o] = [media[o] EXCEPT ![i] = Junk]]
    BY <2>1
  <2>3. [media[o] EXCEPT ![i] = Junk] \in Seq(Bytes)
    BY <2>2, ByteAssumption DEF VerifyInv, VerifyShape, WorldOK
  <2>4. media' \in [Objects -> Seq(Bytes)]
    BY <2>2, <2>3 DEF VerifyInv, VerifyShape, WorldOK
  <2>5. /\ rots' \in Nat /\ rots' # 0 /\ Running
        /\ pc = "readback" => rotted'
        /\ UNCHANGED <<source, bound, mounted, edits, swaps, mounts, pc, opts, src_size, offset,
                       hashed, result, status, target>>
    <3>1. rots' \in Nat /\ rots' # 0
      BY <1>5 DEF Rot, VerifyInv, VerifyShape, WorldOK
    <3> QED
      BY <1>5, <3>1, Zenon DEF Rot, program
  <2>6. VerifyShape'
    BY <2>4, <2>5 DEF VerifyInv, VerifyShape, WorldOK
  <2>7. VerifyLoopInv' /\ VerifyMediaInv'
    BY <2>5 DEF VerifyInv, VerifyLoopInv, VerifyMediaInv, Undisturbed
  <2>8. VerifiedIsOnMedia' /\ VerifyAgreesWithWrite'
    BY <2>5 DEF Running, VerifiedIsOnMedia, VerifyAgreesWithWrite, Verification
  <2> QED
    BY <2>6, <2>7, <2>8 DEF VerifyInv
<1> QED
  BY <1>1, <1>2, <1>3, <1>4, <1>5 DEF Environment

\* A verification takes no step of a write but the readback.
LEMMA VerificationKeepsVerifyInv ==
  ASSUME VerifyInv, (Step \/ VerifyOpen \/ VerifyHash \/ Environment \/ UNCHANGED vars),
         UNCHANGED <<agreed, command>>
  PROVE  VerifyInv'
<1>1. CASE Step
  <2>1. FullReadback \/ SampleReadback
    BY <1>1 DEF Step, VerifyInv, VerifyShape, OpenSource, InspectTarget, Reinspect, OpenTarget,
                Resize, ReadSource, CheckStream, HashSource, WriteChunk, WriteFails, Flush,
                OpenReadback
  <2> QED
    BY <2>1, FullReadbackKeepsVerifyInv, SampleReadbackKeepsVerifyInv
<1>2. CASE UNCHANGED vars
  BY <1>2 DEF vars, world, counters, observers, VerifyInv, VerifyShape, WorldOK, VerifyLoopInv,
              VerifyMediaInv, VerifiedIsOnMedia, VerifyAgreesWithWrite, Verification, Undisturbed,
              Holds
<1> QED
  BY <1>1, <1>2, VerifyOpenKeepsVerifyInv, VerifyHashKeepsVerifyInv, EnvironmentKeepsVerifyInv

-----------------------------------------------------------------------------
(* The commands.                                                             *)

\* The write handle is never held on to when the path is rebound unnoticed.
LEMMA SwapIsCounted ==
  ASSUME swaps \in Nat, swaps = 0 => ~swapped, [Next]_vars
  PROVE  swaps' = 0 => ~swapped'
<1>1. CASE SwapDrive
  BY <1>1 DEF SwapDrive
<1>2. CASE EditSource \/ Rot \/ Mount \/ Kill \/ UNCHANGED vars
  BY <1>2 DEF EditSource, Rot, Mount, Kill, vars, world, counters, observers
<1>3. CASE Step
  BY <1>3 DEF Step, OpenSource, InspectTarget, Reinspect, OpenTarget, Resize, ReadSource,
              CheckStream, HashSource, WriteChunk, WriteFails, Flush, OpenReadback,
              FullReadback, SampleReadback, world, counters, observers
<1> QED
  BY <1>1, <1>2, <1>3 DEF Next, Environment

\* A write takes the steps of df_write_image and no other.
LEMMA WriteKeepsWriteInv ==
  ASSUME IInv, ReadbackInv, ImageInv, swaps = 0 => ~swapped,
         (Step \/ VerifyOpen \/ VerifyHash \/ Environment \/ UNCHANGED vars)
  PROVE  IInv' /\ ReadbackInv' /\ ImageInv' /\ (swaps' = 0 => ~swapped')
<1>1. [Next]_vars
  BY DEF Next, VerifyOpen, VerifyHash, IInv, TypeOK, Steps
<1>2. IInv'
  BY <1>1, StepPreservesIInv, EnvironmentPreservesIInv, StutterPreservesIInv DEF Next
<1>3. swaps \in Nat
  BY DEF IInv, TypeOK, WorldOK
<1> QED
  BY <1>1, <1>2, <1>3, NextKeepsReadbackInv, NextKeepsImageInv, SwapIsCounted

\* A successful and undisturbed write leaves its image where the path leads.
LEMMA WriteLeavesItsImage ==
  ASSUME IInv, ReadbackInv, ImageInv, swaps = 0 => ~swapped, Succeeded, Undisturbed
  PROVE  bound \in Objects /\ Holds(bound, source)
<1>1. written_to \in Objects /\ Holds(written_to, result.source_sha256)
  BY DEF IInv, MediaInv, Undisturbed
<1>2. result.source_sha256 = source
  BY DEF ImageInv, Undisturbed
<1>3. bound = written_to
  BY <1>1, ObjectAssumption DEF ReadbackInv, Undisturbed
<1> QED
  BY <1>1, <1>2, <1>3

\* The world as the last command left it.
LEMMA WorldIsOK == VerifyIInv => WorldOK
BY DEF VerifyIInv, IInv, TypeOK, VerifyInv, VerifyShape

LEMMA StartKeepsWorld ==
  ASSUME VerifyIInv, NEW c, NEW f, NEW r, Start(c, f, r)
  PROVE  WorldOK' /\ runs' \in Nat /\ runs' # runs
BY WorldIsOK DEF Start, WorldOK, VerifyIInv

LEMMA StartWriteKeepsVerifyIInv == VerifyIInv /\ StartWrite => VerifyIInv'
<1> SUFFICES ASSUME VerifyIInv, StartWrite PROVE VerifyIInv'
  OBVIOUS
<1>1. WorldOK' /\ runs' \in Nat
  BY StartKeepsWorld DEF StartWrite
<1>2. IInv' /\ ReadbackInv' /\ ImageInv'
  BY <1>1, FreshRunIsGood DEF StartWrite, Start
<1>3. command' = "write" /\ ~swapped'
  BY DEF StartWrite, Start
<1>4. EvidenceInv'
  BY DEF StartWrite, Start, EvidenceInv, EmptyResult
<1> QED
  BY <1>1, <1>2, <1>3, <1>4 DEF VerifyIInv

LEMMA StartVerifyKeepsVerifyIInv == VerifyIInv /\ StartVerify => VerifyIInv'
<1> SUFFICES ASSUME VerifyIInv, StartVerify PROVE VerifyIInv'
  OBVIOUS
<1>1. WorldOK' /\ runs' \in Nat
  BY StartKeepsWorld DEF StartVerify
<1>2. /\ command' = "verify" /\ pc' = "verify_open" /\ opts' \in Options
      /\ src_size' = 0 /\ target' = NoFile /\ offset' = 0 /\ hashed' = << >>
      /\ result' = ClearedResult /\ ~rotted' /\ UNCHANGED <<bound, media, source>>
  BY DEF StartVerify, Start
<1>3. VerifyShape'
  <2>1. target' \in TargetType /\ ~target'.live /\ result' \in VerificationType
    BY <1>2, NoFileIsTyped, ClearedResultIsTyped
  <2>2. src_size' \in Nat /\ offset' \in Nat /\ hashed' \in Seq(Bytes)
    BY <1>2
  <2> QED
    BY <1>1, <1>2, <2>1, <2>2 DEF VerifyShape, WorldOK
<1>4. EvidenceInv'
  BY <1>2, ClearedResultIsTyped DEF EvidenceInv
<1>5. VerifyLoopInv'
  BY <1>2 DEF VerifyLoopInv
<1>6. ASSUME agreed' PROVE bound \in Objects /\ Holds(bound, source)
  <2>1. Undisturbed /\ IF command = "write" THEN Succeeded ELSE agreed
    BY <1>6 DEF StartVerify
  <2>2. CASE command = "write"
    BY <2>1, <2>2, WriteLeavesItsImage DEF VerifyIInv
  <2>3. CASE command = "verify"
    BY <2>1, <2>3 DEF VerifyIInv, VerifyInv, VerifyMediaInv
  <2> QED
    BY <2>2, <2>3 DEF VerifyIInv
<1>7. VerifyMediaInv'
  BY <1>2, <1>6 DEF VerifyMediaInv, Holds
<1>8. VerifiedIsOnMedia' /\ VerifyAgreesWithWrite'
  BY <1>2 DEF VerifiedIsOnMedia, VerifyAgreesWithWrite, Verification
<1> QED
  BY <1>1, <1>2, <1>3, <1>4, <1>5, <1>7, <1>8 DEF VerifyIInv, VerifyInv

LEMMA CommandKeepsVerifyIInv ==
  ASSUME VerifyIInv, UNCHANGED verify_vars,
         (Step \/ VerifyOpen \/ VerifyHash \/ Environment \/ UNCHANGED vars)
  PROVE  VerifyIInv'
<1>1. UNCHANGED <<command, runs, agreed>>
  BY DEF verify_vars
<1>2. result \in VerificationType
  BY WriteResultIsVerificationResult DEF VerifyIInv, VerifyInv, VerifyShape, IInv, TypeOK
<1>3. EvidenceInv'
  BY <1>2, CommandKeepsEvidenceInv DEF VerifyIInv
<1>4. CASE command = "write"
  <2>1. IInv' /\ ReadbackInv' /\ ImageInv' /\ (swaps' = 0 => ~swapped')
    BY <1>4, WriteKeepsWriteInv DEF VerifyIInv
  <2> QED
    BY <1>1, <1>3, <1>4, <2>1 DEF VerifyIInv
<1>5. CASE command = "verify"
  <2>1. VerifyInv'
    BY <1>1, <1>5, VerificationKeepsVerifyInv DEF VerifyIInv
  <2> QED
    BY <1>1, <1>3, <1>5, <2>1 DEF VerifyIInv
<1> QED
  BY <1>4, <1>5 DEF VerifyIInv

-----------------------------------------------------------------------------
(* The theorems.                                                             *)

\* What a command knows at each of its steps holds in every behaviour, whatever
\* commands came before it and however they ended.
THEOREM VerifyInduction == VerifySpec => []VerifyIInv
<1>1. VerifyInit => VerifyIInv
  <2> SUFFICES ASSUME VerifyInit PROVE VerifyIInv
    OBVIOUS
  <2>1. IInv /\ ReadbackInv /\ ImageInv /\ ~swapped
    BY InitEstablishesIInv DEF VerifyInit, Init, ReadbackInv, FullReadbackCatchesRot, ImageInv,
                               SuccessIsAnImage, Succeeded, Steps
  <2>2. EvidenceInv
    BY DEF VerifyInit, Init, EvidenceInv, EmptyResult
  <2> QED
    BY <2>1, <2>2 DEF VerifyInit, VerifyIInv
<1>2. VerifyIInv /\ [VerifyNext]_all_vars => VerifyIInv'
  <2> SUFFICES ASSUME VerifyIInv, [VerifyNext]_all_vars PROVE VerifyIInv'
    OBVIOUS
  <2>1. CASE CommandStep \/ (Environment /\ UNCHANGED verify_vars) \/ UNCHANGED all_vars
    BY <2>1, CommandKeepsVerifyIInv DEF CommandStep, all_vars
  <2> QED
    BY <2>1, StartWriteKeepsVerifyIInv, StartVerifyKeepsVerifyIInv DEF VerifyNext
<1> QED
  BY <1>1, <1>2, PTL DEF VerifySpec

\* For any image, chunk size and media, and after any writes: a full
\* verification that succeeds has compared the target with one digest, which
\* the target holds unless it rotted behind the reader or was rebound, and
\* which is that of the whole image unless the image was edited meanwhile.
THEOREM VerifiedIsOnTheMedium == VerifySpec => []VerifiedIsOnMedia
<1>1. VerifyIInv => VerifiedIsOnMedia
  BY DEF VerifyIInv, VerifyInv, VerifiedIsOnMedia, Verification
<1> QED
  BY <1>1, VerifyInduction, PTL

\* For any image, chunk size, sample size and number of samples: no verification
\* in any mode contradicts a successful write that nobody interfered with.
THEOREM VerificationAgreesWithWrite == VerifySpec => []VerifyAgreesWithWrite
<1>1. VerifyIInv => VerifyAgreesWithWrite
  BY DEF VerifyIInv, VerifyInv, VerifyAgreesWithWrite, Verification
<1> QED
  BY <1>1, VerifyInduction, PTL

\* A command never takes back a state that says the medium was written, and no
\* state later than that is ever replaced.
THEOREM EvidenceOnlyGrows == VerifySpec => EvidenceNeverRetreats
<1> DEFINE Retreats == /\ result.final_state \notin {"", "failed_before_write"}
                       /\ runs' = runs
                       /\ ~ /\ result'.final_state # "failed_before_write"
                            /\ result.final_state # "failed_partial_media" =>
                                  result'.final_state = result.final_state
<1>1. VerifyIInv /\ [VerifyNext]_all_vars => ~Retreats
  <2> SUFFICES ASSUME VerifyIInv, [VerifyNext]_all_vars, Retreats PROVE FALSE
    OBVIOUS
  <2>1. result \in VerificationType
    BY WriteResultIsVerificationResult DEF VerifyIInv, VerifyInv, VerifyShape, IInv, TypeOK
  <2>2. Step \/ VerifyOpen \/ VerifyHash \/ Environment \/ UNCHANGED vars
    BY StartKeepsWorld DEF VerifyNext, CommandStep, StartWrite, StartVerify, all_vars
  <2>3. CASE Running
    <3>1. result.final_state = "failed_partial_media"
      BY <2>3 DEF VerifyIInv, EvidenceInv
    <3> QED
      BY <2>1, <2>2, <3>1, CommandMovesEvidence DEF Later
  <2>4. CASE ~Running
    BY <2>2, <2>4, EndedCommandRests DEF vars
  <2> QED
    BY <2>3, <2>4
<1> QED
  BY <1>1, VerifyInduction, PTL DEF VerifySpec, EvidenceNeverRetreats
=============================================================================

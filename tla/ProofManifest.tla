---------------------------- MODULE ProofManifest ----------------------------
(***************************************************************************)
(* Proof manifests (src/src/proof.c): df_proof_create digests an image     *)
(* chunk by chunk and writes the digests and their Merkle root to a text   *)
(* file; df_proof_verify loads that file, possibly much later, and reads   *)
(* image and target against it.                                            *)
(*                                                                         *)
(* Between any two reads image and target may change; a process may be     *)
(* killed with part of the manifest on the disk; one field of a manifest   *)
(* may be damaged; the operator creates and verifies in any order.  The    *)
(* digest of a chunk is the chunk, the digest of the image is the image.   *)
(***************************************************************************)
EXTENDS Naturals, Sequences, SequencesExt

CONSTANTS
    Bytes,
    Images,         \* what the image file may contain
    Targets,        \* what the target may contain
    ChunkSize,      \* the chunk size the operator chooses (at least 4096 in the code)
    Sizes,          \* numbers a damaged manifest field may show
    Missing,        \* there is no manifest file
    None,           \* nothing
    MaxEdits, MaxDamage, MaxRuns    \* bounds

ASSUME ContentAssumption ==
    /\ Images \subseteq Seq(Bytes) /\ Targets \subseteq Seq(Bytes)
    /\ ChunkSize \in Nat \ {0} /\ Sizes \subseteq Nat
    /\ {MaxEdits, MaxDamage, MaxRuns} \subseteq Nat

\* Digests do not collide: no chunk has the digest of a damaged root.
ASSUME NodeAssumption == "node" \notin Bytes

VARIABLES
    (* the world *)
    source, target,
    manifest,       \* the lines of the manifest file, or Missing
    edits, damages, runs,   \* how much of each bound is used up
    (* the program *)
    pc,
    operation,      \* "create" or "verify"
    size,           \* source.size_bytes when opened
    hashes,         \* create: chunks digested; verify: chunks found equal
    buffer,         \* verify: the source chunk just read, or None
    loaded,         \* the df_proof_manifest, or None
    status, final_state, first_bad_offset,
    (* observers *)
    made,           \* the chunks read by each create that went on to write a manifest
    source_moved, target_moved   \* changed since this verify opened them

world == <<source, target, manifest, edits, damages, runs>>
result == <<status, final_state, first_bad_offset>>
observers == <<made, source_moved, target_moved>>
vars == <<world, pc, operation, size, hashes, buffer, loaded, result, observers>>

-----------------------------------------------------------------------------
(* The file format.                                                        *)

CeilDiv(n, d) == (n + d - 1) \div d

Least(a, b) == IF a <= b THEN a ELSE b

\* Seeded defect: the left child stands in for its sibling at every node.
SiblingLeft(level, i) == level[2 * i - 1]

\* merkle_root: the right child of node i; an odd last child is its own sibling.
Sibling(level, i) == IF 2 * i <= Len(level) THEN level[2 * i] ELSE level[2 * i - 1]

Parents(level) ==
    [i \in 1..CeilDiv(Len(level), 2) |-> <<"node", level[2 * i - 1], Sibling(level, i)>>]

MerkleRoot(leaves) ==
    LET level[n \in 0..Len(leaves)] ==
          IF n = 0 THEN leaves
          ELSE IF Len(level[n - 1]) = 1 THEN level[n - 1] ELSE Parents(level[n - 1])
    IN  level[Len(leaves)][1]

\* Length of chunk i of n bytes.
ChunkLength(n, chunk, i) == Least(n - (i - 1) * chunk, chunk)

\* The lines df_proof_create prints for the chunks cs of an image.
Lines(cs) ==
    LET digest == FlattenSeq(cs)
    IN  << <<"magic">>, <<"source_size", Len(digest)>>, <<"chunk_size", ChunkSize>>,
           <<"chunk_count", Len(cs)>>, <<"source_sha256", digest>> >>
        \o [i \in 1..Len(cs) |-> <<"chunk", i - 1, Len(cs[i]), cs[i]>>]
        \o << <<"merkle_root", MerkleRoot(cs)>>, <<"END">> >>

Header(t) == [size |-> t[2][2], chunk |-> t[3][2], count |-> t[4][2], digest |-> t[5][2]]

ChunkHashes(t) == [i \in 1..Header(t).count |-> t[5 + i][4]]

\* manifest_load: magic, header, limits, the chunk records in order, the root, END.
Loads(t) ==
    /\ t # Missing /\ Len(t) >= 5 /\ t[1] = <<"magic">>
    /\ LET h == Header(t)
       IN  /\ h.size > 0 /\ h.chunk > 0 /\ h.count > 0
           /\ h.count = CeilDiv(h.size, h.chunk)
           /\ Len(t) >= h.count + 7
           /\ \A i \in 1..h.count :
                /\ t[5 + i][1] = "chunk" /\ t[5 + i][2] = i - 1
                /\ t[5 + i][3] = ChunkLength(h.size, h.chunk, i)
           /\ t[h.count + 6][1] = "merkle_root" /\ t[h.count + 7] = <<"END">>
           /\ MerkleRoot(ChunkHashes(t)) = t[h.count + 6][2]

-----------------------------------------------------------------------------
Return(s) == pc' = "done" /\ status' = s

\* A create that fails after the image was opened removes the file of that
\* name, whether or not this create has written it.
Discard == manifest' = Missing

CreateFails(s) == Return(s) /\ Discard

\* df_open_source; an image that cannot be opened leaves an older manifest alone.
OpenImage ==
    /\ pc = "open_image"
    /\ \/ Return("open") /\ UNCHANGED <<manifest, size>>
       \/ Len(source) = 0 /\ CreateFails("too_small") /\ UNCHANGED size
       \/ Len(source) > 0 /\ CreateFails("no_memory") /\ size' = Len(source)
       \/ /\ Len(source) > 0
          /\ size' = Len(source) /\ pc' = "digest"
          /\ UNCHANGED <<manifest, status>>
    /\ UNCHANGED <<source, target, edits, damages, runs, operation, hashes, buffer, loaded,
                   final_state, first_bad_offset, observers>>

\* One chunk read and digested; a file cut short yields a short read.
Digest ==
    /\ pc = "digest"
    /\ LET offset == Len(hashes) * ChunkSize
           length == Least(size - offset, ChunkSize)
       IN  \/ offset < size /\ CreateFails("io") /\ UNCHANGED hashes
           \/ /\ offset < size /\ offset + length <= Len(source)
              /\ hashes' = Append(hashes, SubSeq(source, offset + 1, offset + length))
              /\ UNCHANGED <<pc, manifest, status>>
           \/ /\ offset >= size
              /\ pc' = "open_manifest"
              /\ UNCHANGED <<hashes, manifest, status>>
    /\ UNCHANGED <<source, target, edits, damages, runs, operation, size, buffer, loaded,
                   final_state, first_bad_offset, observers>>

\* The Merkle tree may find no memory; fopen "wb" truncates an older manifest.
OpenManifest ==
    /\ pc = "open_manifest"
    /\ \/ CreateFails("no_memory") /\ UNCHANGED made
       \/ CreateFails("open") /\ UNCHANGED made
       \/ /\ manifest' = <<>>
          /\ made' = made \cup {hashes}
          /\ pc' = "emit"
          /\ UNCHANGED status
    /\ UNCHANGED <<source, target, edits, damages, runs, operation, size, hashes, buffer, loaded,
                   final_state, first_bad_offset, source_moved, target_moved>>

\* The lines reach the file in buffered portions, until fflush and fclose.
Emit ==
    /\ pc = "emit"
    /\ \/ CreateFails("io")
       \/ /\ Len(manifest) < Len(Lines(hashes))
          /\ \E k \in (Len(manifest) + 1)..Len(Lines(hashes)) :
                manifest' = SubSeq(Lines(hashes), 1, k)
          /\ UNCHANGED <<pc, status>>
       \/ manifest = Lines(hashes) /\ Return("ok") /\ UNCHANGED manifest
    /\ UNCHANGED <<source, target, edits, damages, runs, operation, size, hashes, buffer, loaded,
                   final_state, first_bad_offset, observers>>

-----------------------------------------------------------------------------
Load ==
    /\ pc = "load"
    /\ \/ Return("open") /\ UNCHANGED loaded
       \/ manifest # Missing /\ ~Loads(manifest) /\ Return("format") /\ UNCHANGED loaded
       \/ manifest # Missing /\ Return("no_memory") /\ UNCHANGED loaded
       \/ /\ Loads(manifest)
          /\ loaded' = [head |-> Header(manifest), chunks |-> ChunkHashes(manifest)]
          /\ pc' = "open_both"
          /\ UNCHANGED status
    /\ UNCHANGED <<world, operation, size, hashes, buffer, final_state, first_bad_offset,
                   observers>>

\* A target of size zero may be a device that does not tell its size.
OpenBoth ==
    /\ pc = "open_both"
    /\ \/ Return("open")
       \/ Len(source) # loaded.head.size /\ Return("identity_changed")
       \/ /\ Len(source) = loaded.head.size
          /\ IF Len(target) # 0 /\ Len(target) < loaded.head.size
             THEN Return("too_small")
             ELSE \/ Return("no_memory")
                  \/ pc' = "read_source" /\ UNCHANGED status
    /\ source_moved' = FALSE /\ target_moved' = FALSE
    /\ UNCHANGED <<world, operation, size, hashes, buffer, loaded, final_state, first_bad_offset,
                   made>>

Index == Len(hashes) + 1
Offset == (Index - 1) * loaded.head.chunk
Length == ChunkLength(loaded.head.size, loaded.head.chunk, Index)

Conclude(s, state, bad) == Return(s) /\ final_state' = state /\ first_bad_offset' = bad

ImageMatches == FlattenSeq(hashes) = loaded.head.digest

\* The next source chunk, or the end: the image digest must be the manifest's.
ReadSource ==
    /\ pc = "read_source"
    /\ \/ /\ Index <= loaded.head.count
          /\ Return("io") /\ UNCHANGED <<buffer, final_state, first_bad_offset>>
       \/ /\ Index <= loaded.head.count /\ Offset + Length <= Len(source)
          /\ LET chunk == SubSeq(source, Offset + 1, Offset + Length)
             IN  IF chunk = loaded.chunks[Index]
                 THEN /\ buffer' = chunk /\ pc' = "read_target"
                      /\ UNCHANGED result
                 ELSE Conclude("identity_changed", "source_changed", Offset) /\ UNCHANGED buffer
       \/ /\ Index > loaded.head.count
          /\ IF ImageMatches THEN Conclude("ok", "success_proven", None)
             ELSE Conclude("identity_changed", "source_changed", None)
          /\ UNCHANGED buffer
    /\ UNCHANGED <<world, operation, size, hashes, loaded, observers>>

\* Seeded defect: the offset is counted within the chunk.
FirstDifferenceInChunk(chunk) ==
    (CHOOSE i \in 1..Length :
        chunk[i] # buffer[i] /\ \A j \in 1..(i - 1) : chunk[j] = buffer[j]) - 1

\* Seeded defect: the offset is one byte early.
FirstDifferenceEarly(chunk) ==
    Offset + (CHOOSE i \in 1..Length :
                chunk[i] # buffer[i] /\ \A j \in 1..(i - 1) : chunk[j] = buffer[j]) - 2

\* Absolute offset of the first byte of a target chunk that differs.
FirstDifference(chunk) ==
    Offset + (CHOOSE i \in 1..Length :
                chunk[i] # buffer[i] /\ \A j \in 1..(i - 1) : chunk[j] = buffer[j]) - 1

\* Seeded defect: a chunk of the target is held against the manifest's size only.
TargetLongEnough(chunk) == Len(chunk) = Len(buffer)

TargetMatches(chunk) == chunk = buffer

\* Seeded defect: the verified chunk is not counted.
StandStill == UNCHANGED hashes

\* The source digest takes the chunk in and the loop moves on to the next.
Advance == hashes' = Append(hashes, buffer)

ReadTarget ==
    /\ pc = "read_target"
    /\ \/ Return("io") /\ UNCHANGED <<hashes, final_state, first_bad_offset>>
       \/ /\ Offset + Length <= Len(target)
          /\ LET chunk == SubSeq(target, Offset + 1, Offset + Length)
             IN  IF TargetMatches(chunk)
                 THEN /\ Advance /\ pc' = "read_source"
                      /\ UNCHANGED result
                 ELSE /\ Conclude("verify_mismatch", "target_mismatch", FirstDifference(chunk))
                      /\ UNCHANGED hashes
    /\ buffer' = None
    /\ UNCHANGED <<world, operation, size, loaded, observers>>

-----------------------------------------------------------------------------
(* The world.                                                              *)

Running == pc # "done"
program == <<pc, operation, size, hashes, buffer, loaded, result>>

EditSource ==
    /\ edits < MaxEdits
    /\ \E s \in Images \ {source} : source' = s
    /\ edits' = edits + 1 /\ source_moved' = TRUE
    /\ UNCHANGED <<target, manifest, damages, runs, program, made, target_moved>>

\* Somebody writes to the target, or it decays.
EditTarget ==
    /\ edits < MaxEdits
    /\ \E t \in Targets \ {target} : target' = t
    /\ edits' = edits + 1 /\ target_moved' = TRUE
    /\ UNCHANGED <<source, manifest, damages, runs, program, made, source_moved>>

\* What one field of a line may be damaged to.
Damaged(line) ==
    IF line[1] \in {"source_size", "chunk_size", "chunk_count"}
    THEN {<<line[1], n>> : n \in Sizes}
    ELSE IF line[1] = "source_sha256" THEN {<<line[1], s>> : s \in Images}
    ELSE IF line[1] = "chunk"
    THEN {<<"chunk", line[2], n, line[4]>> : n \in Sizes}
         \cup {<<"chunk", line[2], line[3], b>> : b \in [DOMAIN line[4] -> Bytes]}
    ELSE IF line[1] = "merkle_root" THEN {<<"merkle_root", <<"node">>>>}
    ELSE {<<"?">>}

Damage ==
    /\ ~Running /\ damages < MaxDamage /\ manifest # Missing
    /\ \E i \in DOMAIN manifest : \E line \in Damaged(manifest[i]) \ {manifest[i]} :
         manifest' = [manifest EXCEPT ![i] = line]
    /\ damages' = damages + 1
    /\ UNCHANGED <<source, target, edits, runs, program, observers>>

Kill ==
    /\ Running
    /\ pc' = "done" /\ status' = "killed"
    /\ UNCHANGED <<world, operation, size, hashes, buffer, loaded, final_state, first_bad_offset,
                   observers>>

Begin(op) ==
    /\ operation' = op
    /\ pc' = IF op = "create" THEN "open_image" ELSE "load"
    /\ size' = 0 /\ hashes' = <<>> /\ buffer' = None /\ loaded' = None
    /\ status' = "running" /\ final_state' = "failed_before_verify" /\ first_bad_offset' = None
    /\ source_moved' = FALSE /\ target_moved' = FALSE

\* The operator starts the next command.
Run ==
    /\ ~Running /\ runs < MaxRuns
    /\ \E op \in {"create", "verify"} : Begin(op)
    /\ runs' = runs + 1
    /\ UNCHANGED <<source, target, manifest, edits, damages, made>>

Init ==
    /\ source \in Images /\ target \in Targets /\ manifest = Missing
    /\ edits = 0 /\ damages = 0 /\ runs = 0
    /\ pc = "done" /\ operation = "verify" /\ size = 0 /\ hashes = <<>> /\ buffer = None
    /\ loaded = None
    /\ status = "ok" /\ final_state = "failed_before_verify" /\ first_bad_offset = None
    /\ made = {} /\ source_moved = FALSE /\ target_moved = FALSE

Create == OpenImage \/ Digest \/ OpenManifest \/ Emit
Verify == Load \/ OpenBoth \/ ReadSource \/ ReadTarget

Next == Create \/ Verify \/ EditSource \/ EditTarget \/ Damage \/ Kill \/ Run

Spec == Init /\ [][Next]_vars

\* The program runs: a read or write that can return eventually does.
FairSpec == Spec /\ WF_vars(Create \/ Verify)

-----------------------------------------------------------------------------
(* Properties.                                                             *)

TypeOK ==
    /\ source \in Images /\ target \in Targets
    /\ edits \in 0..MaxEdits /\ damages \in 0..MaxDamage /\ runs \in 0..MaxRuns
    /\ pc \in {"open_image", "digest", "open_manifest", "emit",
               "load", "open_both", "read_source", "read_target", "done"}
    /\ operation \in {"create", "verify"}
    /\ size \in Nat /\ hashes \in Seq(Seq(Bytes)) /\ (pc = "read_target" => buffer \in Seq(Bytes))
    /\ final_state \in
         {"failed_before_verify", "source_changed", "target_mismatch", "success_proven"}
    /\ first_bad_offset = None \/ first_bad_offset \in Nat

\* success_proven: the target holds the image the manifest was made of, however
\* image, target and manifest were treated before, and whatever happened to the
\* image meanwhile.  (EVIDENCE_STATES.txt:10-11; proof.c:433-511.)
ProvenMeansEqual ==
    (final_state = "success_proven" /\ ~target_moved) =>
        /\ loaded.head.digest \in {FlattenSeq(cs) : cs \in made}
        /\ IsPrefix(loaded.head.digest, target)

\* A manifest that loads lists the chunks of an image as one create read it: a
\* torn file, one damaged field or a failed create never gets through as
\* another image.  (BENCHMARK_PROTOCOL.md:159-163; manifest_load.)
LoadedIsGenuine ==
    loaded # None => loaded.chunks \in made

\* The reported offset is the first byte at which image and target differ.
\* (ARCHITECTURE.md:180-183; proof.c:469-495.)
MismatchIsExact ==
    (final_state = "target_mismatch" /\ ~source_moved /\ ~target_moved) =>
        /\ source[first_bad_offset + 1] # target[first_bad_offset + 1]
        /\ \A i \in 1..first_bad_offset : source[i] = target[i]

\* Every create and every verify ends.
Terminates == []<>(~Running)

-----------------------------------------------------------------------------
(* What makes the invariants inductive.                                    *)

\* What became of a line of a manifest, at worst.
WornLine(line, printed) ==
    \/ line = printed
    \/ printed[1] \in {"magic", "END"} /\ line = <<"?">>
    \/ /\ printed[1] \in {"source_size", "chunk_size", "chunk_count"}
       /\ line[1] = printed[1] /\ line[2] \in Nat
    \/ printed[1] = "source_sha256" /\ line[1] = printed[1] /\ line[2] \in Seq(Bytes)
    \/ /\ printed[1] = "chunk" /\ line[1] = "chunk" /\ line[2] = printed[2]
       /\ line[4] \in Seq(Bytes) /\ Len(line[4]) = Len(printed[4])
    \/ printed[1] = "merkle_root" /\ line = <<"merkle_root", <<"node">>>>

\* A manifest is what is left of the lines one create has printed.
Worn(t, cs) ==
    /\ Len(t) \in 0..Len(Lines(cs)) /\ t = [i \in 1..Len(t) |-> t[i]]
    /\ \A i \in 1..Len(t) : WornLine(t[i], Lines(cs)[i])

ManifestInv ==
    /\ made \subseteq Seq(Seq(Bytes))
    /\ manifest # Missing => \E cs \in made : Worn(manifest, cs)
    /\ pc = "emit" => hashes \in made /\ Len(manifest) \in Nat

\* A loaded manifest is consistent in itself.
Loaded ==
    \/ loaded # None
    \/ pc \in {"open_both", "read_source", "read_target"}
    \/ final_state = "success_proven"

LoadedInv ==
    Loaded =>
        /\ loaded.chunks \in made /\ Len(loaded.chunks) = loaded.head.count
        /\ loaded.head.size \in Nat \ {0} /\ loaded.head.chunk \in Nat \ {0}
        /\ loaded.head.count = CeilDiv(loaded.head.size, loaded.head.chunk)

\* The chunks found equal so far are the first of the manifest's and, unless
\* somebody wrote there, the first bytes of image and target.
Agreed == FlattenSeq(hashes)

ReadInv ==
    /\ pc \in {"load", "open_both"} => hashes = <<>>
    /\ Running => final_state = "failed_before_verify"
    /\ pc \in {"read_source", "read_target"} =>
          /\ Len(hashes) <= loaded.head.count
          /\ \A i \in 1..Len(hashes) : hashes[i] = loaded.chunks[i]
          /\ Len(Agreed) = Least(Len(hashes) * loaded.head.chunk, loaded.head.size)
          /\ ~source_moved =>
                Len(source) = loaded.head.size /\ IsPrefix(Agreed, source)
          /\ ~target_moved => IsPrefix(Agreed, target)
    /\ pc = "read_target" =>
          /\ Index <= loaded.head.count
          /\ buffer = loaded.chunks[Index] /\ Len(buffer) = Length
          /\ ~source_moved => buffer = SubSeq(source, Offset + 1, Offset + Length)

\* What a verify that succeeded has seen.
ProvenInv ==
    final_state = "success_proven" =>
        /\ Agreed = loaded.head.digest
        /\ ~source_moved => source = Agreed
        /\ ~target_moved => IsPrefix(Agreed, target)
        /\ hashes \in made

ProofIInv == TypeOK /\ ManifestInv /\ LoadedInv /\ ReadInv /\ ProvenInv /\ MismatchIsExact
=============================================================================

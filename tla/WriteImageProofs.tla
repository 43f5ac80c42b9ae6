--------------------------- MODULE WriteImageProofs ---------------------------
(* Theorems about WriteImage, for every number of drives, every image and    *)
(* every bound.                                                              *)
EXTENDS WriteImage, TLAPS

-----------------------------------------------------------------------------
(* The byte strings the steps build.                                         *)

\* A chunk is not empty and stays within the image.
LEMMA ChunkIsInImage ==
  ASSUME offset \in Nat, src_size \in Nat, offset < src_size
  PROVE  /\ Least(src_size - offset, Buffer) \in Nat \ {0}
         /\ Least(src_size - offset, Buffer) <= src_size - offset
         /\ Wanted = Least(src_size - offset, Buffer)
<1>1. Buffer \in Nat /\ Buffer > 0
  BY SizeAssumption
<1>2. src_size - offset \in Nat /\ src_size - offset > 0
  OBVIOUS
<1> QED
  BY <1>1, <1>2 DEF Least, Wanted

LEMMA ExtendIsBytes ==
  ASSUME NEW f \in Seq(Bytes), NEW n \in Nat, offset \in Nat, hashed \in Seq(Bytes),
         Len(hashed) = offset, offset + n <= Len(f)
  PROVE  /\ Extend(f, n) \in Seq(Bytes)
         /\ Len(Extend(f, n)) = offset + n
         /\ \A i \in 1..offset : Extend(f, n)[i] = hashed[i]
         /\ \A i \in (offset + 1)..(offset + n) : Extend(f, n)[i] = f[i]
BY DEF Extend

LEMMA OverwriteIsBytes ==
  ASSUME NEW c \in Seq(Bytes), NEW k \in Nat, offset \in Nat, buffer \in Seq(Bytes),
         k <= Len(buffer)
  PROVE  /\ Overwrite(c, k) \in Seq(Bytes)
         /\ Len(Overwrite(c, k)) = Len(c)
         /\ \A i \in 1..Len(c) :
              Overwrite(c, k)[i] = IF offset < i /\ i <= offset + k THEN buffer[i - offset]
                                   ELSE c[i]
BY DEF Overwrite

LEMMA ResizedIsBytes ==
  ASSUME NEW c \in Seq(Bytes), NEW n \in Nat
  PROVE  Resized(c, n) \in Seq(Bytes) /\ Len(Resized(c, n)) = n
BY ByteAssumption DEF Resized

LEMMA RoundUpIsAbove ==
  ASSUME NEW n \in Nat
  PROVE  RoundUp(n) \in Nat /\ RoundUp(n) >= n
BY SizeAssumption DEF RoundUp

-----------------------------------------------------------------------------
(* The inductive invariant.                                                  *)

LEMMA HandleIsTyped ==
  ASSUME NEW o \in Objects \cup {Missing}, NEW d \in BOOLEAN, NEW n \in Nat, NEW l \in BOOLEAN
  PROVE  [obj |-> o, is_device |-> d, size |-> n, live |-> l] \in TargetType
BY DEF TargetType

\* A closed file is a well-typed one, and so is the result a run starts with.
LEMMA NoFileIsTyped == NoFile \in TargetType /\ ~NoFile.live
BY DEF NoFile, TargetType

LEMMA EmptyResultIsTyped == EmptyResult \in ResultType
BY DEF EmptyResult, ResultType, FinalStates

LEMMA InitEstablishesIInv == Init => IInv
<1> SUFFICES ASSUME Init PROVE IInv
  OBVIOUS
<1>1. media \in [Objects -> Seq(Bytes)] /\ bound \in Objects \cup {Missing}
  BY ObjectAssumption DEF Init, Objects
<1>2. mounted \subseteq Devices /\ source \in Images
  BY DEF Init
<1>3. TypeOK
  <2>1. edits \in Nat /\ swaps \in Nat /\ rots \in Nat /\ mounts \in Nat
    BY DEF Init
  <2>2. pc \in Steps \cup {"done", "killed"}
    BY DEF Init, Steps
  <2>3. /\ opts \in Options /\ src_size \in Nat /\ offset \in Nat /\ attempt \in Nat
        /\ hashed \in Seq(Bytes) /\ buffer \in Seq(Bytes)
    BY DEF Init
  <2>4. target \in TargetType /\ result \in ResultType
    BY NoFileIsTyped, EmptyResultIsTyped DEF Init
  <2>5. touched \subseteq Objects /\ written_to \in Objects \cup {Missing}
    BY DEF Init
  <2>6. /\ unflushed \in BOOLEAN /\ raced \in BOOLEAN
        /\ swapped \in BOOLEAN /\ rotted \in BOOLEAN
    BY DEF Init
  <2> QED
    BY <1>1, <1>2, <2>1, <2>2, <2>3, <2>4, <2>5, <2>6 DEF TypeOK, WorldOK
<1>4. LoopInv /\ HandleInv /\ MediaInv
  BY NoFileIsTyped DEF Init, LoopInv, HandleInv, MediaInv, Succeeded
<1> QED
  BY <1>3, <1>4 DEF IInv

\* A run that ends without success leaves nothing to show but types.
LEMMA StopPreservesIInv ==
  ASSUME TypeOK', pc' \in {"done", "killed"}, ~Succeeded', target' = NoFile
  PROVE  IInv'
BY DEF IInv, LoopInv, HandleInv, MediaInv, NoFile

LEMMA OpenSourcePreservesIInv == IInv /\ OpenSource => IInv'
<1> SUFFICES ASSUME IInv, OpenSource PROVE IInv'
  OBVIOUS
<1> USE DEF IInv, OpenSource, Out, world, counters, observers
<1>1. TypeOK'
  <2>1. src_size' \in Nat
    BY ByteAssumption DEF TypeOK, WorldOK, OpenedSize
  <2> QED
    BY <2>1, NoFileIsTyped DEF TypeOK, WorldOK, Steps
<1>2. CASE pc' = "done"
  BY <1>1, <1>2, StopPreservesIInv DEF Succeeded
<1>3. CASE pc' = "inspect_target"
  BY <1>1, <1>3 DEF LoopInv, HandleInv, MediaInv, Succeeded
<1> QED
  BY <1>2, <1>3

LEMMA InspectTargetPreservesIInv == IInv /\ InspectTarget => IInv'
<1> SUFFICES ASSUME IInv, InspectTarget PROVE IInv'
  OBVIOUS
<1> USE DEF IInv, InspectTarget, Out, world, counters, observers
<1>1. TypeOK'
  BY NoFileIsTyped DEF TypeOK, WorldOK, Steps
<1>2. CASE pc' = "done"
  BY <1>1, <1>2, StopPreservesIInv DEF Succeeded
<1>3. CASE pc' = "hash_source"
  BY <1>1, <1>3 DEF TypeOK, WorldOK, LoopInv, HandleInv, MediaInv, Succeeded
<1> QED
  BY <1>2, <1>3

LEMMA ReinspectPreservesIInv == IInv /\ Reinspect => IInv'
<1> SUFFICES ASSUME IInv, Reinspect PROVE IInv'
  OBVIOUS
<1> USE DEF IInv, Reinspect, Out, world, counters, observers
<1>1. Descriptor(bound).size \in Nat /\ Descriptor(bound).is_device \in BOOLEAN
  BY DEF TypeOK, WorldOK, Descriptor, SizeOf, Objects
<1>2. target' \in TargetType
  <2>1. \/ target' = target \/ target' = NoFile
        \/ target' = [obj |-> Missing, is_device |-> Descriptor(bound).is_device,
                      size |-> Descriptor(bound).size, live |-> FALSE]
    OBVIOUS
  <2>2. [obj |-> Missing, is_device |-> Descriptor(bound).is_device,
         size |-> Descriptor(bound).size, live |-> FALSE] \in TargetType
    BY <1>1, HandleIsTyped
  <2>3. target \in TargetType
    BY DEF TypeOK, WorldOK
  <2> HIDE DEF Reinspect, Out
  <2> QED
    BY <2>1, <2>2, <2>3, NoFileIsTyped
<1>3. TypeOK'
  BY <1>2 DEF TypeOK, WorldOK, Steps
<1>4. CASE pc' = "done"
  BY <1>3, <1>4, StopPreservesIInv DEF Succeeded
<1>5. CASE pc' = "open_target"
  <2>1. ~target'.live
    BY <1>5
  <2> QED
    BY <1>3, <1>5, <2>1 DEF TypeOK, WorldOK, LoopInv, HandleInv, MediaInv, Succeeded
<1> QED
  BY <1>4, <1>5

LEMMA HashSourcePreservesIInv == IInv /\ HashSource => IInv'
<1> SUFFICES ASSUME IInv, HashSource PROVE IInv'
  OBVIOUS
<1> USE DEF IInv, HashSource, Out, world, counters, observers
<1> DEFINE n == Least(src_size - offset, Buffer)
<1>1. CASE pc' = "done"
  <2>1. TypeOK'
    BY <1>1, NoFileIsTyped DEF TypeOK, WorldOK, Steps
  <2> QED
    BY <1>1, <2>1, StopPreservesIInv DEF Succeeded
<1>2. CASE pc' = "hash_source"
  <2>1. /\ offset < src_size /\ offset + n <= Len(source)
        /\ hashed' = Extend(source, n) /\ offset' = offset + n
        /\ UNCHANGED <<pc, status, target, result>>
    BY <1>2
  <2>2. source \in Seq(Bytes) /\ Len(hashed) = offset /\ hashed \in Seq(Bytes) /\ offset \in Nat
        /\ src_size \in Nat
    BY <2>1, ByteAssumption DEF TypeOK, WorldOK, LoopInv
  <2>3. n \in Nat /\ n <= src_size - offset
    BY <2>1, <2>2, ChunkIsInImage
  <2>4. hashed' \in Seq(Bytes) /\ Len(hashed') = offset'
    BY <2>1, <2>2, <2>3, ExtendIsBytes
  <2>5. offset' \in Nat /\ offset' <= src_size'
    BY <2>1, <2>2, <2>3
  <2> HIDE DEF n
  <2>6. TypeOK'
    BY <2>1, <2>4, <2>5 DEF TypeOK, WorldOK
  <2> QED
    BY <1>2, <2>1, <2>4, <2>5, <2>6 DEF LoopInv, HandleInv, MediaInv, Succeeded
<1>3. CASE pc' = "reinspect"
  <2>1. result' = [result EXCEPT !.source_sha256 = hashed] /\ hashed' = << >> /\ offset' = 0
        /\ UNCHANGED <<status, target>>
    BY <1>3
  <2>2. result' \in ResultType
    BY <2>1 DEF TypeOK, WorldOK, ResultType
  <2>3. TypeOK'
    BY <1>3, <2>1, <2>2 DEF TypeOK, WorldOK, Steps
  <2> QED
    BY <1>3, <2>1, <2>3 DEF LoopInv, HandleInv, MediaInv, Succeeded
<1> QED
  BY <1>1, <1>2, <1>3

LEMMA OpenTargetPreservesIInv == IInv /\ OpenTarget => IInv'
<1> SUFFICES ASSUME IInv, OpenTarget PROVE IInv'
  OBVIOUS
<1> USE DEF IInv, OpenTarget, Out, world, counters, observers
<1>1. CASE pc' = "done"
  <2>1. TypeOK'
    BY <1>1, NoFileIsTyped DEF TypeOK, WorldOK, Steps
  <2> QED
    BY <1>1, <2>1, StopPreservesIInv DEF Succeeded
<1>2. CASE pc' = "resize"
  <2> DEFINE obj == IF bound = Missing THEN RegularFile ELSE bound
  <2>1. obj \in Objects
    BY DEF TypeOK, WorldOK, Objects
  <2>2. /\ media' = IF bound = Missing THEN [media EXCEPT ![obj] = << >>] ELSE media
        /\ bound' = obj /\ target' = [target EXCEPT !.obj = obj, !.live = TRUE]
        /\ written_to' = obj /\ UNCHANGED status
    BY <1>2
  <2> HIDE DEF obj
  <2>3. target' \in TargetType /\ target'.obj = obj
    BY <2>1, <2>2, Zenon DEF TypeOK, WorldOK, TargetType
  <2>4. media' \in [Objects -> Seq(Bytes)]
    BY <2>1, <2>2 DEF TypeOK, WorldOK
  <2>5. TypeOK'
    BY <1>2, <2>1, <2>2, <2>3, <2>4 DEF TypeOK, WorldOK, Steps
  <2>6. offset' = 0 /\ Len(hashed') = 0
    BY DEF LoopInv
  <2> QED
    BY <1>2, <2>1, <2>2, <2>3, <2>5, <2>6 DEF LoopInv, HandleInv, MediaInv, Succeeded
<1> QED
  BY <1>1, <1>2

LEMMA ResizePreservesIInv == IInv /\ Resize => IInv'
<1> SUFFICES ASSUME IInv, Resize PROVE IInv'
  OBVIOUS
<1> USE DEF IInv, Resize, Out, world, counters, observers
<1>1. RegularFile \in Objects
  BY DEF Objects
<1>2. media' \in [Objects -> Seq(Bytes)]
  <2>1. CASE media' = media
    BY <2>1 DEF TypeOK, WorldOK
  <2>2. CASE media' = [media EXCEPT ![RegularFile] = Resized(@, src_size)]
    BY <1>1, <2>2, ResizedIsBytes DEF TypeOK, WorldOK
  <2> QED
    BY <2>1, <2>2
<1>3. touched' \subseteq Objects
  <2>1. touched' = touched \/ touched' = touched \cup {RegularFile}
    OBVIOUS
  <2> QED
    BY <1>1, <2>1 DEF TypeOK, WorldOK
<1>4. CASE pc' = "done"
  <2>1. target' = NoFile
    BY <1>4
  <2>2. TypeOK'
    BY <1>2, <1>3, <1>4, <2>1, NoFileIsTyped DEF TypeOK, WorldOK, Steps
  <2> QED
    BY <1>4, <2>1, <2>2, StopPreservesIInv DEF Succeeded
<1>5. CASE pc' = "read_source"
  <2>1. target' = target \/ target' = [target EXCEPT !.size = src_size]
    BY <1>5
  <2>2. target' \in TargetType /\ target'.obj = target.obj /\ target'.live = target.live
    BY <2>1, Zenon DEF TypeOK, WorldOK, TargetType
  <2>3. TypeOK'
    BY <1>2, <1>3, <1>5, <2>2 DEF TypeOK, WorldOK, Steps
  <2>4. offset' = 0 /\ Len(hashed') = 0 /\ src_size' \in Nat
    BY DEF LoopInv, TypeOK, WorldOK
  <2>5. HandleInv'
    BY <2>2 DEF HandleInv
  <2>6. LoopInv' /\ MediaInv'
    BY <1>5, <2>4 DEF LoopInv, MediaInv, Succeeded
  <2> QED
    BY <2>3, <2>5, <2>6
<1> QED
  BY <1>4, <1>5

-----------------------------------------------------------------------------
(* The write loop.                                                           *)

LEMMA ReadSourcePreservesIInv == IInv /\ ReadSource => IInv'
<1> SUFFICES ASSUME IInv, ReadSource PROVE IInv'
  OBVIOUS
<1> USE DEF IInv, ReadSource, Out, world, counters, observers
<1>1. /\ source \in Seq(Bytes) /\ Len(hashed) = offset /\ hashed \in Seq(Bytes)
      /\ offset \in Nat /\ src_size \in Nat /\ offset < src_size
  BY ByteAssumption DEF TypeOK, WorldOK, LoopInv
<1>2. Wanted \in Nat /\ Wanted > 0 /\ Wanted <= src_size - offset
  BY <1>1, ChunkIsInImage
<1>3. CASE pc' = "done"
  <2>1. TypeOK'
    BY <1>3, NoFileIsTyped DEF TypeOK, WorldOK, Steps
  <2> QED
    BY <1>3, <2>1, StopPreservesIInv DEF Succeeded
<1>4. CASE pc' = "write_target"
  <2> DEFINE length == IF target.is_device THEN RoundUp(Wanted) ELSE Wanted
  <2>1. /\ offset + Wanted <= Len(source)
        /\ hashed' = Extend(source, Wanted)
        /\ buffer' = [i \in 1..length |-> IF i <= Wanted THEN source[offset + i] ELSE Zero]
        /\ attempt' = 0 /\ UNCHANGED <<status, target>>
    BY <1>4
  <2>2. length \in Nat /\ length >= Wanted
    BY <1>2, RoundUpIsAbove
  <2> HIDE DEF length
  <2>3. /\ hashed' \in Seq(Bytes) /\ Len(hashed') = offset + Wanted
        /\ \A i \in 1..offset : hashed'[i] = hashed[i]
        /\ \A i \in (offset + 1)..(offset + Wanted) : hashed'[i] = source[i]
    BY <1>1, <1>2, <2>1, ExtendIsBytes
  <2>4. buffer' \in Seq(Bytes) /\ Len(buffer') = length
    BY <1>1, <1>2, <2>1, <2>2, ByteAssumption
  <2>5. \A i \in 1..Wanted : buffer'[i] = hashed'[offset + i]
    BY <1>1, <1>2, <2>1, <2>2, <2>3
  <2>6. TypeOK'
    BY <1>4, <2>1, <2>3, <2>4 DEF TypeOK, WorldOK, Steps
  <2>7. Wanted' = Wanted /\ offset' = offset /\ src_size' = src_size
    BY DEF Wanted
  <2>8. LoopInv'
    BY <1>1, <1>4, <2>2, <2>3, <2>4, <2>5, <2>7 DEF LoopInv
  <2>9. HandleInv'
    BY <1>4, <2>1 DEF HandleInv
  <2>10. MediaInv'
    BY <1>1, <1>4, <2>1, <2>3 DEF MediaInv, Succeeded
  <2> QED
    BY <2>6, <2>8, <2>9, <2>10
<1> QED
  BY <1>3, <1>4

\* Accepting a prefix of the buffer leaves what lies before offset alone.
LEMMA AcceptKeepsPrefix ==
  ASSUME TypeOK, target.obj \in Objects, NEW k \in Nat, k <= Len(buffer), Accept(k)
  PROVE  /\ media' \in [Objects -> Seq(Bytes)]
         /\ touched' \subseteq Objects
         /\ unflushed' \in BOOLEAN
         /\ Len(media'[target.obj]) = Len(media[target.obj])
         /\ \A i \in 1..Len(media[target.obj]) :
              media'[target.obj][i] =
                IF offset < i /\ i <= offset + k THEN buffer[i - offset]
                ELSE media[target.obj][i]
<1> DEFINE c == media[target.obj]
<1>1. c \in Seq(Bytes) /\ offset \in Nat /\ buffer \in Seq(Bytes)
  BY DEF TypeOK, WorldOK
<1>2. media' = [media EXCEPT ![target.obj] = Overwrite(c, k)]
  BY DEF Accept
<1>3. media'[target.obj] = Overwrite(c, k)
  BY <1>2 DEF TypeOK, WorldOK
<1>4. /\ Overwrite(c, k) \in Seq(Bytes) /\ Len(Overwrite(c, k)) = Len(c)
      /\ \A i \in 1..Len(c) :
           Overwrite(c, k)[i] = IF offset < i /\ i <= offset + k THEN buffer[i - offset] ELSE c[i]
  BY <1>1, OverwriteIsBytes
<1>5. media' \in [Objects -> Seq(Bytes)]
  BY <1>2, <1>4 DEF TypeOK, WorldOK
<1>6. touched' \subseteq Objects /\ unflushed' \in BOOLEAN
  BY DEF TypeOK, WorldOK, Accept
<1> QED
  BY <1>3, <1>4, <1>5, <1>6

\* Counting a chunk keeps the result well-typed and its source digest.
LEMMA CountedIsTyped ==
  ASSUME NEW r \in ResultType, NEW n \in Nat
  PROVE  LET q == [r EXCEPT !.bytes_written = n, !.final_state = "failed_partial_media"]
         IN  q \in ResultType /\ q.source_sha256 = r.source_sha256
BY DEF ResultType, FinalStates

LEMMA RetriedIsTyped ==
  ASSUME NEW r \in ResultType, NEW n \in Nat
  PROVE  LET q == [r EXCEPT !.write_retries = n]
         IN  q \in ResultType /\ q.source_sha256 = r.source_sha256
BY DEF ResultType

LEMMA WriteChunkPreservesIInv == IInv /\ WriteChunk => IInv'
<1> SUFFICES ASSUME IInv, WriteChunk PROVE IInv'
  OBVIOUS
<1> USE DEF IInv, world, counters, observers
<1>1. pc = "write_target" /\ pc' = "read_source" /\ Accept(Len(buffer)) /\ CanAccept(Len(buffer))
  BY DEF WriteChunk
<1>2. /\ offset \in Nat /\ src_size \in Nat /\ offset < src_size /\ buffer \in Seq(Bytes)
      /\ hashed \in Seq(Bytes) /\ Len(hashed) = offset + Wanted /\ Wanted <= Len(buffer)
      /\ \A i \in 1..Wanted : buffer[i] = hashed[offset + i]
  BY <1>1 DEF TypeOK, WorldOK, LoopInv
<1>3. Wanted \in Nat /\ Wanted > 0 /\ Wanted <= src_size - offset
  BY <1>2, ChunkIsInImage
<1>4. target.obj = written_to /\ target.obj \in Objects
  BY <1>1 DEF HandleInv
<1>5. Len(buffer) \in Nat /\ offset + Len(buffer) <= Len(media[target.obj])
  BY <1>1, <1>2, <1>3 DEF CanAccept
<1>6. /\ offset' = offset + Wanted /\ result' = Counted(result)
      /\ UNCHANGED <<source, bound, mounted, counters, opts, src_size, planned, hashed,
                     target, status, written_to, raced, swapped, rotted>>
      /\ UNCHANGED <<buffer, attempt>>
  BY DEF WriteChunk
<1>7. result' \in ResultType /\ result'.source_sha256 = result.source_sha256
  <2>1. result.bytes_written + Wanted \in Nat /\ result \in ResultType
    BY <1>3 DEF TypeOK, WorldOK, ResultType
  <2> QED
    BY <1>6, <2>1, CountedIsTyped DEF Counted
<1>8. /\ media' \in [Objects -> Seq(Bytes)] /\ touched' \subseteq Objects /\ unflushed' \in BOOLEAN
      /\ Len(media'[target.obj]) = Len(media[target.obj])
      /\ \A i \in 1..Len(media[target.obj]) :
           media'[target.obj][i] =
             IF offset < i /\ i <= offset + Len(buffer) THEN buffer[i - offset]
             ELSE media[target.obj][i]
  BY <1>1, <1>4, <1>5, AcceptKeepsPrefix
<1>9. TypeOK'
  BY <1>1, <1>2, <1>3, <1>6, <1>7, <1>8 DEF TypeOK, WorldOK, Steps
<1>10. LoopInv'
  BY <1>1, <1>2, <1>3, <1>6 DEF LoopInv
<1>11. HandleInv'
  BY <1>1, <1>6 DEF HandleInv
<1>12. MediaInv'
  <2> SUFFICES ASSUME rots' = 0, NEW i \in 1..offset'
               PROVE  i <= Len(media'[target'.obj]) /\ media'[target'.obj][i] = hashed'[i]
    BY <1>1 DEF MediaInv, Succeeded
  <2>1. i \in Nat /\ i <= offset + Wanted /\ 1 <= i
    BY <1>2, <1>3, <1>6
  <2>2. i \in 1..Len(media[target.obj])
    BY <1>2, <1>3, <1>4, <1>5, <2>1 DEF TypeOK, WorldOK
  <2>3. CASE i <= offset
    <3>1. i \in 1..offset /\ rots = 0
      BY <1>2, <1>6, <2>1, <2>3
    <3>2. media[target.obj][i] = hashed[i]
      BY <1>1, <3>1 DEF MediaInv
    <3> QED
      BY <1>2, <1>4, <1>6, <1>8, <2>1, <2>2, <2>3, <3>2
  <2>4. CASE offset < i
    <3>1. i - offset \in 1..Wanted
      BY <1>2, <1>3, <2>1, <2>4
    <3>2. buffer[i - offset] = hashed[offset + (i - offset)]
      BY <1>2, <3>1
    <3>3. offset + (i - offset) = i
      BY <1>2, <2>1
    <3>4. offset < i /\ i <= offset + Len(buffer)
      BY <1>2, <1>3, <1>5, <2>1, <2>4
    <3>5. media'[target.obj][i] = buffer[i - offset]
      BY <1>8, <2>2, <3>4
    <3> QED
      BY <1>4, <1>6, <1>8, <2>1, <2>2, <3>2, <3>3, <3>5
  <2> QED
    BY <1>2, <2>1, <2>3, <2>4
<1> QED
  BY <1>9, <1>10, <1>11, <1>12

LEMMA WriteFailsPreservesIInv == IInv /\ WriteFails => IInv'
<1> SUFFICES ASSUME IInv, WriteFails PROVE IInv'
  OBVIOUS
<1> USE DEF IInv, world, counters, observers
<1>1. pc = "write_target" /\ target.obj = written_to /\ target.obj \in Objects
  BY DEF WriteFails, HandleInv
<1>2. PICK k \in 0..Len(buffer) : CanAccept(k) /\ Accept(k)
  BY DEF WriteFails
<1>3. k \in Nat /\ k <= Len(buffer)
  BY <1>2 DEF TypeOK, WorldOK
<1>4. /\ media' \in [Objects -> Seq(Bytes)] /\ touched' \subseteq Objects /\ unflushed' \in BOOLEAN
      /\ Len(media'[target.obj]) = Len(media[target.obj])
      /\ \A i \in 1..Len(media[target.obj]) :
           media'[target.obj][i] =
             IF offset < i /\ i <= offset + k THEN buffer[i - offset] ELSE media[target.obj][i]
  BY <1>1, <1>2, <1>3, AcceptKeepsPrefix
<1>5. result' \in ResultType /\ result'.source_sha256 = result.source_sha256
  <2>1. result.write_retries + 1 \in Nat /\ result \in ResultType
    BY DEF TypeOK, WorldOK, ResultType
  <2>2. result' = [result EXCEPT !.write_retries = result.write_retries + 1]
    BY DEF WriteFails
  <2> QED
    BY <2>1, <2>2, RetriedIsTyped
<1>6. attempt' \in Nat
  BY DEF WriteFails, TypeOK, WorldOK
<1>7. UNCHANGED <<source, bound, mounted, counters, opts, src_size, planned, offset, hashed,
                  buffer, written_to, raced, swapped, rotted>>
  BY DEF WriteFails
<1>8. UNCHANGED <<pc, status, target>> \/ Out("io")
  BY DEF WriteFails
<1>9. CASE Out("io")
  <2>1. TypeOK'
    BY <1>4, <1>5, <1>6, <1>7, <1>9, NoFileIsTyped DEF TypeOK, WorldOK, Out
  <2> QED
    BY <1>9, <2>1, StopPreservesIInv DEF Out, Succeeded
<1>10. CASE UNCHANGED <<pc, status, target>>
  <2>1. TypeOK'
    BY <1>4, <1>5, <1>6, <1>7, <1>10 DEF TypeOK, WorldOK
  <2>2. LoopInv'
    BY <1>1, <1>7, <1>10 DEF LoopInv, Wanted
  <2>3. HandleInv'
    BY <1>7, <1>10 DEF HandleInv
  <2>4. MediaInv'
    <3> SUFFICES ASSUME rots' = 0, NEW i \in 1..offset
                 PROVE  i <= Len(media'[target.obj]) /\ media'[target.obj][i] = hashed[i]
      BY <1>1, <1>7, <1>10 DEF MediaInv, Succeeded
    <3>1. offset \in Nat /\ i \in Nat /\ 1 <= i /\ i <= offset /\ rots = 0
      BY <1>7 DEF TypeOK, WorldOK
    <3>2. i <= Len(media[target.obj]) /\ media[target.obj][i] = hashed[i]
      BY <1>1, <3>1 DEF MediaInv
    <3>3. i \in 1..Len(media[target.obj])
      BY <1>1, <3>1, <3>2 DEF TypeOK, WorldOK
    <3>4. ~(offset < i)
      BY <3>1
    <3> QED
      BY <1>4, <3>2, <3>3, <3>4
  <2> QED
    BY <2>1, <2>2, <2>3, <2>4
<1> QED
  BY <1>8, <1>9, <1>10

LEMMA CheckStreamPreservesIInv == IInv /\ CheckStream => IInv'
<1> SUFFICES ASSUME IInv, CheckStream PROVE IInv'
  OBVIOUS
<1> USE DEF IInv, CheckStream, Out, world, counters, observers
<1>1. TypeOK'
  BY NoFileIsTyped DEF TypeOK, WorldOK, Steps
<1>2. CASE pc' = "done"
  BY <1>1, <1>2, StopPreservesIInv DEF Succeeded
<1>3. CASE pc' = "flush"
  BY <1>1, <1>3 DEF TypeOK, WorldOK, LoopInv, HandleInv, MediaInv, Succeeded, StreamMatches
<1> QED
  BY <1>2, <1>3

\* Rewording the state of a result keeps it well-typed, with its source digest.
LEMMA RestatedIsTyped ==
  ASSUME NEW r \in ResultType, NEW f \in FinalStates, NEW n \in Nat, NEW m \in Nat
  PROVE  /\ [r EXCEPT !.final_state = f] \in ResultType
         /\ [r EXCEPT !.final_state = f].source_sha256 = r.source_sha256
         /\ [r EXCEPT !.final_state = f, !.verification_mismatches = m] \in ResultType
         /\ [r EXCEPT !.final_state = f, !.bytes_verified = n] \in ResultType
         /\ [r EXCEPT !.final_state = f, !.bytes_verified = n].source_sha256 = r.source_sha256
         /\ [r EXCEPT !.final_state = f, !.bytes_verified = n,
                      !.verification_mismatches = m] \in ResultType
BY DEF ResultType

LEMMA VerifiedMoreIsTyped ==
  ASSUME NEW r \in ResultType, NEW n \in Nat
  PROVE  LET q == [r EXCEPT !.bytes_verified = n]
         IN  q \in ResultType /\ q.source_sha256 = r.source_sha256
BY DEF ResultType

\* When the loop has ended with matching digests, the medium holds the image.
LEMMA StreamedIsHeld ==
  ASSUME IInv, pc = "flush", rots = 0
  PROVE  written_to \in Objects /\ Holds(written_to, result.source_sha256)
<1> USE DEF IInv
<1>1. /\ target.obj = written_to /\ written_to \in Objects /\ hashed = result.source_sha256
      /\ Len(hashed) = offset /\ offset \in Nat
  BY DEF TypeOK, WorldOK, HandleInv, LoopInv
<1>2. \A i \in 1..offset : i <= Len(media[target.obj]) /\ media[target.obj][i] = hashed[i]
  BY DEF MediaInv
<1>3. media[written_to] \in Seq(Bytes)
  BY <1>1 DEF TypeOK, WorldOK
<1>4. offset <= Len(media[written_to])
  <2>1. CASE offset = 0
    BY <1>3, <2>1
  <2>2. CASE offset # 0
    <3>1. offset \in 1..offset
      BY <1>1, <2>2
    <3> QED
      BY <1>1, <1>2, <3>1
  <2> QED
    BY <2>1, <2>2
<1> QED
  BY <1>1, <1>2, <1>4 DEF Holds, IsPrefix

LEMMA FlushPreservesIInv == IInv /\ Flush => IInv'
<1> SUFFICES ASSUME IInv, Flush PROVE IInv'
  OBVIOUS
<1> USE DEF IInv, Flush, Out, world, counters, observers
<1>1. result' \in ResultType /\ result'.source_sha256 = result.source_sha256
  <2>1. result' = result \/ result' = [result EXCEPT !.final_state = "success_unverified"]
    OBVIOUS
  <2> QED
    BY <2>1, RestatedIsTyped DEF TypeOK, WorldOK, FinalStates
<1>2. target' = NoFile
  OBVIOUS
<1>3. TypeOK'
  BY <1>1, <1>2, NoFileIsTyped DEF TypeOK, WorldOK, Steps
<1>4. rots' = 0 => written_to \in Objects /\ Holds(written_to, result.source_sha256)
  BY StreamedIsHeld
<1>5. MediaInv'
  <2>1. pc' \in {"open_readback", "readback"} \/ Succeeded' => ~unflushed'
    BY DEF Succeeded
  <2>2. pc' \notin {"read_source", "write_target", "flush"}
    OBVIOUS
  <2>3. (rots' = 0 => written_to' \in Objects /\ Holds(written_to, result.source_sha256)')
    BY <1>1, <1>4 DEF Holds
  <2> QED
    BY <2>1, <2>2, <2>3 DEF MediaInv
<1>6. LoopInv' /\ HandleInv'
  BY <1>2, NoFileIsTyped DEF LoopInv, HandleInv
<1> QED
  BY <1>3, <1>5, <1>6

-----------------------------------------------------------------------------
(* Readback.                                                                 *)

\* A failed verification stops the run.
LEMMA VerificationFailurePreservesIInv ==
  ASSUME IInv, NEW s, s # "ok", NEW m \in Nat, VerificationFails(s, m),
         src_size' \in Nat, offset' \in Nat, hashed' \in Seq(Bytes),
         UNCHANGED <<world, opts, buffer, attempt, observers>>
  PROVE  IInv'
<1> USE DEF IInv, VerificationFails, Out, world, counters, observers
<1>1. result' \in ResultType
  BY RestatedIsTyped DEF TypeOK, WorldOK, FinalStates
<1>2. TypeOK'
  BY <1>1, NoFileIsTyped DEF TypeOK, WorldOK
<1> QED
  BY <1>2, StopPreservesIInv DEF Succeeded

LEMMA OpenReadbackPreservesIInv == IInv /\ OpenReadback => IInv'
<1> SUFFICES ASSUME IInv, OpenReadback PROVE IInv'
  OBVIOUS
<1> USE DEF IInv, world, counters, observers
<1>1. OpenedSize \in Nat /\ src_size \in Nat /\ offset \in Nat /\ hashed \in Seq(Bytes)
  BY ByteAssumption DEF TypeOK, WorldOK, OpenedSize
<1>2. UNCHANGED <<world, opts, buffer, attempt, observers>> /\ pc = "open_readback"
  BY DEF OpenReadback
<1>3. src_size' \in Nat /\ offset' \in Nat /\ hashed' \in Seq(Bytes)
  <2>1. \/ UNCHANGED <<src_size, offset, hashed>>
        \/ src_size' = OpenedSize /\ hashed' = << >> /\ offset' = 0
    BY DEF OpenReadback
  <2>2. CASE UNCHANGED <<src_size, offset, hashed>>
    BY <1>1, <2>2
  <2>3. CASE src_size' = OpenedSize /\ hashed' = << >> /\ offset' = 0
    BY <1>1, <2>3
  <2> QED
    BY <2>1, <2>2, <2>3
<1>4. CASE VerificationFails("open", 0)
  BY <1>2, <1>3, <1>4, VerificationFailurePreservesIInv
<1>5. CASE VerificationFails("too_small", 0)
  BY <1>2, <1>3, <1>5, VerificationFailurePreservesIInv
<1>6. CASE pc' = "readback"
  <2>1. /\ bound # Missing /\ offset' = 0 /\ hashed' = << >> /\ UNCHANGED <<status, result>>
        /\ target' = [obj |-> bound, is_device |-> bound \in Devices,
                      size |-> SizeOf(bound), live |-> TRUE]
    BY <1>6 DEF OpenReadback, VerificationFails, Out
  <2>2. bound \in Objects /\ SizeOf(bound) \in Nat /\ (bound \in Devices) \in BOOLEAN
    BY <2>1 DEF TypeOK, WorldOK, SizeOf
  <2>3. target' \in TargetType /\ target'.obj \in Objects
    BY <2>1, <2>2, HandleIsTyped
  <2>4. TypeOK'
    BY <1>2, <1>3, <1>6, <2>1, <2>3 DEF TypeOK, WorldOK, Steps
  <2>5. LoopInv' /\ HandleInv'
    BY <1>3, <1>6, <2>1, <2>3 DEF LoopInv, HandleInv
  <2>6. MediaInv'
    BY <1>2, <1>6, <2>1 DEF MediaInv, Holds
  <2> QED
    BY <2>4, <2>5, <2>6
<1> QED
  BY <1>4, <1>5, <1>6 DEF OpenReadback

LEMMA FullReadbackPreservesIInv == IInv /\ FullReadback => IInv'
<1> SUFFICES ASSUME IInv, FullReadback PROVE IInv'
  OBVIOUS
<1> USE DEF IInv, world, counters, observers
<1>1. /\ UNCHANGED <<world, opts, src_size, buffer, attempt, observers>>
      /\ pc = "readback" /\ opts.verify_mode = "full"
  BY DEF FullReadback
<1>2. /\ src_size \in Nat /\ offset \in Nat /\ hashed \in Seq(Bytes) /\ result \in ResultType
      /\ Len(hashed) = offset
  BY <1>1 DEF TypeOK, WorldOK, LoopInv
<1>3. CASE VerificationFails("io", 0) /\ UNCHANGED <<offset, hashed>>
  BY <1>1, <1>2, <1>3, VerificationFailurePreservesIInv
<1>4. CASE /\ offset < src_size
           /\ target.live /\ offset + Wanted <= Len(media[target.obj])
           /\ hashed' = Extend(media[target.obj], Wanted)
           /\ offset' = offset + Wanted
           /\ UNCHANGED <<pc, status, target, result>>
  <2>1. media[target.obj] \in Seq(Bytes)
    BY <1>4 DEF TypeOK, WorldOK, HandleInv
  <2>2. Wanted \in Nat /\ Wanted <= src_size - offset
    BY <1>2, <1>4, ChunkIsInImage
  <2>3. hashed' \in Seq(Bytes) /\ Len(hashed') = offset'
    BY <1>2, <1>4, <2>1, <2>2, ExtendIsBytes
  <2>4. offset' \in Nat /\ offset' <= src_size'
    BY <1>1, <1>2, <1>4, <2>2
  <2>5. TypeOK'
    BY <1>1, <1>4, <2>3, <2>4 DEF TypeOK, WorldOK
  <2>6. LoopInv' /\ HandleInv' /\ MediaInv'
    BY <1>1, <1>4, <2>3, <2>4 DEF LoopInv, HandleInv, MediaInv, Holds, Succeeded
  <2> QED
    BY <2>5, <2>6
<1>5. CASE offset >= src_size /\ UNCHANGED <<offset, hashed>> /\ pc' = "done" /\ target' = NoFile
  <2>1. result' = [result EXCEPT !.final_state = "success_verified", !.bytes_verified = src_size]
        \/ result' = [result EXCEPT !.final_state = "verification_failed",
                                    !.bytes_verified = src_size, !.verification_mismatches = 1]
    BY <1>2, <1>5 DEF FullReadback, VerificationFails, Out
  <2>2. result' \in ResultType
    <3>1. [result EXCEPT !.final_state = "success_verified", !.bytes_verified = src_size]
             \in ResultType
      BY <1>2, RestatedIsTyped DEF FinalStates
    <3>2. [result EXCEPT !.final_state = "verification_failed", !.bytes_verified = src_size,
                         !.verification_mismatches = 1] \in ResultType
      BY <1>2, RestatedIsTyped DEF FinalStates
    <3> QED
      BY <2>1, <3>1, <3>2
  <2>3. TypeOK'
    BY <1>1, <1>5, <2>2, NoFileIsTyped DEF TypeOK, WorldOK
  <2>4. CASE Succeeded'
    <3>1. result' = [result EXCEPT !.final_state = "success_verified", !.bytes_verified = src_size]
      BY <1>2, <1>5, <2>4 DEF FullReadback, VerificationFails, Out, Succeeded
    <3>2. result'.source_sha256 = result.source_sha256
      BY <1>2, <3>1, RestatedIsTyped DEF FinalStates
    <3> QED
      BY <1>1, <1>5, <2>3, <3>2, NoFileIsTyped DEF LoopInv, HandleInv, MediaInv, Holds
  <2> QED
    BY <1>5, <2>3, <2>4, StopPreservesIInv
<1> QED
  BY <1>3, <1>4, <1>5 DEF FullReadback, Out

LEMMA SampleReadbackPreservesIInv == IInv /\ SampleReadback => IInv'
<1> SUFFICES ASSUME IInv, SampleReadback PROVE IInv'
  OBVIOUS
<1> USE DEF IInv, world, counters, observers
<1> DEFINE block == Least(src_size, SampleBlock)
<1>1. /\ UNCHANGED <<world, opts, src_size, planned, hashed, buffer, attempt, observers>>
      /\ pc = "readback" /\ opts.verify_mode = "sample"
  BY DEF SampleReadback
<1>2. /\ src_size \in Nat /\ offset \in Nat /\ hashed \in Seq(Bytes) /\ result \in ResultType
      /\ result.bytes_verified \in Nat
  BY DEF TypeOK, WorldOK, ResultType
<1>3. block \in Nat
  BY <1>2, SizeAssumption DEF Least
<1> HIDE DEF block
<1>4. \/ Verified /\ UNCHANGED offset
      \/ VerificationFails("io", 0) /\ UNCHANGED offset
      \/ VerificationFails("verify_mismatch", 1) /\ UNCHANGED offset
      \/ /\ result' = [result EXCEPT !.bytes_verified = result.bytes_verified + block]
         /\ offset' = offset + 1
         /\ UNCHANGED <<pc, status, target>>
  BY DEF SampleReadback, block
<1>5. CASE Verified /\ UNCHANGED offset
  <2>1. result' \in ResultType /\ result'.source_sha256 = result.source_sha256
    BY <1>2, <1>5, RestatedIsTyped DEF Verified, FinalStates
  <2>2. pc' = "done" /\ target' = NoFile
    BY <1>5 DEF Verified, Out
  <2>3. TypeOK'
    BY <1>1, <1>5, <2>1, <2>2, NoFileIsTyped DEF TypeOK, WorldOK
  <2>4. LoopInv' /\ HandleInv' /\ MediaInv'
    BY <1>1, <2>1, <2>2, NoFileIsTyped DEF LoopInv, HandleInv, MediaInv, Holds
  <2> QED
    BY <2>3, <2>4
<1>6. CASE VerificationFails("io", 0) /\ UNCHANGED offset
  BY <1>1, <1>2, <1>6, VerificationFailurePreservesIInv
<1>7. CASE VerificationFails("verify_mismatch", 1) /\ UNCHANGED offset
  BY <1>1, <1>2, <1>7, VerificationFailurePreservesIInv
<1>8. CASE /\ result' = [result EXCEPT !.bytes_verified = result.bytes_verified + block]
           /\ offset' = offset + 1
           /\ UNCHANGED <<pc, status, target>>
  <2>1. result.bytes_verified + block \in Nat
    BY <1>2, <1>3
  <2>2. result' \in ResultType /\ result'.source_sha256 = result.source_sha256
    BY <1>2, <1>8, <2>1, VerifiedMoreIsTyped
  <2>3. TypeOK'
    BY <1>1, <1>2, <1>8, <2>2 DEF TypeOK, WorldOK
  <2>4. LoopInv' /\ HandleInv' /\ MediaInv'
    BY <1>1, <1>8, <2>2 DEF LoopInv, HandleInv, MediaInv, Holds, Succeeded
  <2> QED
    BY <2>3, <2>4
<1> QED
  BY <1>4, <1>5, <1>6, <1>7, <1>8

-----------------------------------------------------------------------------
(* The world.                                                                *)

LEMMA EditSourcePreservesIInv == IInv /\ EditSource => IInv'
<1> SUFFICES ASSUME IInv, EditSource PROVE IInv'
  OBVIOUS
<1> USE DEF IInv, EditSource, program, observers
<1>1. TypeOK'
  BY DEF TypeOK, WorldOK
<1>2. LoopInv' /\ HandleInv' /\ MediaInv'
  BY DEF LoopInv, HandleInv, MediaInv, Wanted, Holds, Succeeded
<1> QED
  BY <1>1, <1>2

LEMMA MountPreservesIInv == IInv /\ Mount => IInv'
<1> SUFFICES ASSUME IInv, Mount PROVE IInv'
  OBVIOUS
<1> USE DEF IInv, Mount, program, observers
<1>1. TypeOK'
  BY DEF TypeOK, WorldOK
<1>2. LoopInv' /\ HandleInv' /\ MediaInv'
  BY DEF LoopInv, HandleInv, MediaInv, Wanted, Holds, Succeeded
<1> QED
  BY <1>1, <1>2

LEMMA SwapDrivePreservesIInv == IInv /\ SwapDrive => IInv'
<1> SUFFICES ASSUME IInv, SwapDrive PROVE IInv'
  OBVIOUS
<1> USE DEF IInv, SwapDrive, program
<1>1. target' \in TargetType /\ target'.obj = target.obj /\ ~target'.live
  BY Zenon DEF TypeOK, WorldOK, TargetType
<1>2. bound' \in Objects \cup {Missing}
  BY DEF Objects
<1>3. swaps' \in Nat /\ raced' \in BOOLEAN /\ swapped' \in BOOLEAN
  BY DEF TypeOK, WorldOK
<1>4. TypeOK'
  BY <1>1, <1>2, <1>3 DEF TypeOK, WorldOK
<1>5. LoopInv' /\ HandleInv' /\ MediaInv'
  BY <1>1 DEF LoopInv, HandleInv, MediaInv, Wanted, Holds, Succeeded
<1> QED
  BY <1>4, <1>5

LEMMA RotPreservesIInv == IInv /\ Rot => IInv'
<1> SUFFICES ASSUME IInv, Rot PROVE IInv'
  OBVIOUS
<1> USE DEF IInv, Rot, program
<1>1. PICK o \in Objects : \E i \in DOMAIN media[o] :
         media' = [media EXCEPT ![o] = [media[o] EXCEPT ![i] = Junk]]
  OBVIOUS
<1>2. PICK i \in DOMAIN media[o] : media' = [media EXCEPT ![o] = [media[o] EXCEPT ![i] = Junk]]
  BY <1>1
<1>3. [media[o] EXCEPT ![i] = Junk] \in Seq(Bytes)
  BY <1>2, ByteAssumption DEF TypeOK, WorldOK
<1>4. media' \in [Objects -> Seq(Bytes)]
  BY <1>2, <1>3 DEF TypeOK, WorldOK
<1>5. rots' \in Nat /\ rots' # 0 /\ rotted' \in BOOLEAN
  BY DEF TypeOK, WorldOK
<1>6. TypeOK'
  BY <1>4, <1>5 DEF TypeOK, WorldOK
<1>7. LoopInv' /\ HandleInv' /\ MediaInv'
  BY <1>5 DEF LoopInv, HandleInv, MediaInv, Wanted
<1> QED
  BY <1>6, <1>7

LEMMA KillPreservesIInv == IInv /\ Kill => IInv'
<1> SUFFICES ASSUME IInv, Kill PROVE IInv'
  OBVIOUS
<1>1. TypeOK'
  BY NoFileIsTyped DEF IInv, Kill, TypeOK, WorldOK, world, counters, observers
<1> QED
  BY <1>1, StopPreservesIInv DEF Kill, Succeeded

-----------------------------------------------------------------------------
(* The theorems.                                                             *)

LEMMA StepPreservesIInv == IInv /\ Step => IInv'
BY OpenSourcePreservesIInv, InspectTargetPreservesIInv, HashSourcePreservesIInv,
   ReinspectPreservesIInv, OpenTargetPreservesIInv, ResizePreservesIInv,
   ReadSourcePreservesIInv, WriteChunkPreservesIInv, WriteFailsPreservesIInv,
   CheckStreamPreservesIInv, FlushPreservesIInv, OpenReadbackPreservesIInv,
   FullReadbackPreservesIInv, SampleReadbackPreservesIInv
DEF Step

LEMMA EnvironmentPreservesIInv == IInv /\ Environment => IInv'
BY EditSourcePreservesIInv, SwapDrivePreservesIInv, RotPreservesIInv, MountPreservesIInv,
   KillPreservesIInv
DEF Environment

LEMMA StutterPreservesIInv == IInv /\ UNCHANGED vars => IInv'
BY DEF IInv, vars, world, counters, observers, TypeOK, WorldOK, LoopInv, HandleInv,
       MediaInv, Wanted, Holds, Succeeded

\* The loops, the handle and the medium hang together in every behaviour.
THEOREM Induction == Spec => []IInv
<1>1. IInv /\ [Next]_vars => IInv'
  BY StepPreservesIInv, EnvironmentPreservesIInv, StutterPreservesIInv DEF Next
<1> QED
  BY InitEstablishesIInv, <1>1, PTL DEF Spec

\* Every variable of the writer keeps its type: digests, buffers and media stay
\* byte strings, and the recorded state stays one the code can print.
THEOREM TypeCorrectness == Spec => []TypeOK
<1>1. IInv => TypeOK
  BY DEF IInv
<1> QED
  BY <1>1, Induction, PTL

-----------------------------------------------------------------------------
(* The count follows the loop.                                               *)

\* What the steps that restate the result leave of it: the count and the digest.
SameCount(q, r) == q.bytes_written = r.bytes_written /\ q.source_sha256 = r.source_sha256

LEMMA WriteLoopKeepsCountInv ==
  IInv /\ CountInv /\ (ReadSource \/ WriteChunk \/ WriteFails \/ CheckStream) => CountInv'
<1> SUFFICES ASSUME IInv, CountInv, ReadSource \/ WriteChunk \/ WriteFails \/ CheckStream
             PROVE  CountInv'
  OBVIOUS
<1>1. result \in ResultType
  BY DEF IInv, TypeOK
<1>2. CASE ReadSource \/ CheckStream
  BY <1>2 DEF ReadSource, CheckStream, Out, CountInv, Succeeded
<1>3. CASE WriteChunk
  <2>1. result'.bytes_written = result.bytes_written + Wanted
    BY <1>1, <1>3 DEF WriteChunk, Counted, ResultType
  <2> QED
    BY <1>3, <2>1 DEF WriteChunk, CountInv, Succeeded
<1>4. CASE WriteFails
  <2>1. result'.bytes_written = result.bytes_written
    BY <1>1, <1>4 DEF WriteFails, ResultType
  <2> QED
    BY <1>4, <2>1 DEF WriteFails, Out, CountInv, Succeeded
<1> QED
  BY <1>2, <1>3, <1>4

LEMMA ReadbackKeepsCountInv ==
  IInv /\ CountInv /\ (Flush \/ OpenReadback \/ FullReadback \/ SampleReadback) => CountInv'
<1> SUFFICES ASSUME IInv, CountInv,
                    Flush \/ OpenReadback \/ FullReadback \/ SampleReadback
             PROVE  CountInv'
  OBVIOUS
<1>1. result \in ResultType
  BY DEF IInv, TypeOK
<1>2. /\ pc \in {"flush", "open_readback", "readback"}
      /\ pc' \in {"open_readback", "readback", "done"} /\ UNCHANGED written_to
      /\ pc = "flush" /\ ~Succeeded' => pc' \in {"open_readback", "done"}
  BY DEF Flush, OpenReadback, FullReadback, SampleReadback, VerificationFails, Verified, Out,
         observers, Succeeded
<1>3. SameCount(result', result)
  <2>1. CASE Flush \/ OpenReadback
    <3>1. \/ UNCHANGED result
          \/ \E f : result' = [result EXCEPT !.final_state = f]
          \/ \E f, m : result' = [result EXCEPT !.final_state = f, !.verification_mismatches = m]
      BY <2>1 DEF Flush, OpenReadback, VerificationFails
    <3> QED
      BY <1>1, <3>1 DEF ResultType, SameCount
  <2>2. CASE FullReadback
    <3>1. \/ UNCHANGED result
          \/ \E f, n : result' = [result EXCEPT !.final_state = f, !.bytes_verified = n]
          \/ \E f, m : result' = [result EXCEPT !.final_state = f, !.verification_mismatches = m]
          \/ \E f, n, m : result' = [result EXCEPT !.final_state = f, !.bytes_verified = n,
                                                   !.verification_mismatches = m]
      BY <2>2 DEF FullReadback, VerificationFails
    <3> QED
      BY <1>1, <3>1 DEF ResultType, SameCount
  <2>3. CASE SampleReadback
    <3>1. \/ \E f : result' = [result EXCEPT !.final_state = f]
          \/ \E f, m : result' = [result EXCEPT !.final_state = f, !.verification_mismatches = m]
          \/ \E n : result' = [result EXCEPT !.bytes_verified = @ + n]
      BY <2>3 DEF SampleReadback, VerificationFails, Verified
    <3> QED
      BY <1>1, <3>1 DEF ResultType, SameCount
  <2> QED
    BY <2>1, <2>2, <2>3
<1>4. result.bytes_written = Len(result.source_sha256) /\ written_to \in Objects
  BY <1>2 DEF IInv, LoopInv, HandleInv, CountInv
<1> QED
  BY <1>2, <1>3, <1>4 DEF CountInv, SameCount

LEMMA PreparationKeepsCountInv ==
  IInv /\ CountInv /\ (\/ OpenSource \/ InspectTarget \/ HashSource \/ Reinspect
                       \/ OpenTarget \/ Resize) => CountInv'
<1> SUFFICES ASSUME IInv, CountInv,
                    \/ OpenSource \/ InspectTarget \/ HashSource \/ Reinspect
                    \/ OpenTarget \/ Resize
             PROVE  CountInv'
  OBVIOUS
<1>1. result \in ResultType
  BY DEF IInv, TypeOK
<1>2. result'.bytes_written = result.bytes_written
  BY <1>1 DEF OpenSource, InspectTarget, HashSource, Reinspect, OpenTarget, Resize, ResultType
<1>3. CASE OpenSource \/ InspectTarget \/ HashSource \/ Reinspect
  BY <1>2, <1>3 DEF OpenSource, InspectTarget, HashSource, Reinspect, Out, CountInv, Succeeded
<1>4. CASE OpenTarget \/ Resize
  <2>1. offset' = 0
    BY <1>4 DEF OpenTarget, Resize, IInv, LoopInv
  <2> QED
    BY <1>2, <1>4, <2>1 DEF OpenTarget, Resize, Out, CountInv, Succeeded
<1> QED
  BY <1>3, <1>4

LEMMA NextKeepsCountInv == IInv /\ CountInv /\ [Next]_vars => CountInv'
<1> SUFFICES ASSUME IInv, CountInv, [Next]_vars PROVE CountInv'
  OBVIOUS
<1>1. CASE Step
  BY <1>1, WriteLoopKeepsCountInv, ReadbackKeepsCountInv, PreparationKeepsCountInv DEF Step
<1>2. CASE Environment \/ UNCHANGED vars
  <2>1. UNCHANGED <<result, offset, status, written_to>> /\ (pc' = pc \/ pc' = "killed")
    BY <1>2 DEF Environment, EditSource, SwapDrive, Rot, Mount, Kill, program, observers, vars
  <2> QED
    BY <2>1 DEF CountInv, Succeeded
<1> QED
  BY <1>1, <1>2 DEF Next

\* For any number of drives, any image, chunk size, number of retries, edits,
\* swaps and mounts, and whatever the media held before: a reported success has
\* put the bytes that were hashed, and reports as many, on the object that was
\* opened for writing, unless a medium rotted.
THEOREM SuccessIsOnTheMedium == Spec => []SuccessIsOnMedia
<1>1. Init => CountInv
  BY DEF Init, CountInv, EmptyResult, Succeeded
<1>2. IInv /\ CountInv => SuccessIsOnMedia
  BY DEF IInv, MediaInv, CountInv, SuccessIsOnMedia
<1> QED
  BY <1>1, <1>2, NextKeepsCountInv, Induction, PTL DEF Spec

-----------------------------------------------------------------------------
(* Drives are confirmed before they are touched.                             *)

\* A step that writes nothing and opens nothing.
LEMMA QuietKeepsGrantInv ==
  ASSUME GrantInv, UNCHANGED <<opts, touched, raced, bound>>,
         \/ pc' \notin {"open_target", "resize", "read_source", "write_target", "flush"}
         \/ /\ {pc, pc'} \subseteq {"resize", "read_source", "write_target", "flush"}
            /\ target'.obj = target.obj
         \/ pc' = "open_target" /\ (bound \in Devices => Granted(bound))
  PROVE  GrantInv'
<1>1. OnlyConfirmedDrivesTouched'
  BY DEF GrantInv, OnlyConfirmedDrivesTouched, Granted
<1> QED
  BY <1>1 DEF GrantInv, Granted

\* A step that may write through the handle, or create or resize the regular
\* file.
LEMMA WriteKeepsGrantInv ==
  ASSUME GrantInv, pc \in {"resize", "write_target"}, UNCHANGED <<opts, raced, bound>>,
         touched' \subseteq touched \cup {target.obj},
         \/ pc' = "done"
         \/ /\ pc' \in {"resize", "read_source", "write_target", "flush"}
            /\ target'.obj = target.obj
  PROVE  GrantInv'
<1>1. raced \/ (target.obj \in Devices => Granted(target.obj))
  BY DEF GrantInv
<1>2. OnlyConfirmedDrivesTouched'
  BY <1>1 DEF GrantInv, OnlyConfirmedDrivesTouched, Granted
<1> QED
  BY <1>1, <1>2 DEF GrantInv, Granted

LEMMA InspectionsKeepGrantInv ==
  ASSUME GrantInv, OpenSource \/ InspectTarget \/ HashSource
  PROVE  GrantInv'
<1>1. UNCHANGED <<opts, touched, raced, bound>>
  BY DEF OpenSource, InspectTarget, HashSource, world, observers
<1>2. pc' \in {"inspect_target", "hash_source", "reinspect", "done"}
  BY DEF OpenSource, InspectTarget, HashSource, Out
<1> QED
  BY <1>1, <1>2, QuietKeepsGrantInv

\* What is authorized is what the operator granted.
LEMMA ReinspectKeepsGrantInv ==
  ASSUME GrantInv, Reinspect
  PROVE  GrantInv'
<1>1. UNCHANGED <<opts, touched, raced, bound>>
  BY DEF Reinspect, world, observers
<1>2. pc' = "done" \/ (pc' = "open_target" /\ Authorized(Descriptor(bound)))
  BY DEF Reinspect, Out
<1>3. Authorized(Descriptor(bound)) => (bound \in Devices => Granted(bound))
  BY DEF Authorized, Descriptor, Granted, Token
<1> QED
  BY <1>1, <1>2, <1>3, QuietKeepsGrantInv

LEMMA OpenTargetKeepsGrantInv ==
  ASSUME IInv, GrantInv, OpenTarget
  PROVE  GrantInv'
<1> USE DEF observers
<1>1. OnlyConfirmedDrivesTouched'
  BY DEF GrantInv, OnlyConfirmedDrivesTouched, Granted, OpenTarget
<1>2. CASE pc' = "done"
  BY <1>1, <1>2 DEF GrantInv
<1>3. CASE pc' = "resize"
  <2>1. target'.obj = bound' /\ (bound' = bound \/ bound' = RegularFile)
    <3>1. target' = [target EXCEPT !.obj = bound', !.live = TRUE] /\ target \in TargetType
      BY <1>3 DEF OpenTarget, Out, IInv, TypeOK, WorldOK
    <3> QED
      BY <1>3, <3>1 DEF OpenTarget, Out, TargetType
  <2>2. RegularFile \notin Devices
    BY ObjectAssumption
  <2>3. raced' \/ (target'.obj \in Devices => Granted(target'.obj))
    BY <2>1, <2>2 DEF GrantInv, OpenTarget
  <2> QED
    BY <1>1, <1>3, <2>3 DEF GrantInv, Granted, OpenTarget
<1> QED
  BY <1>2, <1>3 DEF OpenTarget, Out

LEMMA ResizeKeepsGrantInv ==
  ASSUME IInv, GrantInv, Resize
  PROVE  GrantInv'
<1>1. pc = "resize" /\ UNCHANGED <<opts, raced, bound>>
  BY DEF Resize
<1>2. CASE pc' = "done" \/ touched' = touched
  <2>1. OnlyConfirmedDrivesTouched'
    BY <1>1, ObjectAssumption DEF GrantInv, OnlyConfirmedDrivesTouched, Granted, Resize
  <2>2. CASE pc' = "done"
    BY <2>1, <2>2 DEF GrantInv
  <2>3. CASE touched' = touched /\ pc' # "done"
    <3>1. pc' = "read_source" /\ target'.obj = target.obj
      BY <2>3 DEF Resize, Out, IInv, TypeOK, WorldOK, TargetType
    <3> QED
      BY <1>1, <2>3, <3>1, WriteKeepsGrantInv
  <2> QED
    BY <1>2, <2>2, <2>3
<1>3. CASE pc' # "done" /\ touched' # touched
  <2>1. /\ pc' = "read_source" /\ target.obj = RegularFile
        /\ touched' = touched \cup {target.obj}
        /\ target' = [target EXCEPT !.size = src_size]
    BY <1>3 DEF Resize, Out
  <2>2. target'.obj = target.obj
    BY <2>1 DEF IInv, TypeOK, WorldOK, TargetType
  <2> QED
    BY <1>1, <2>1, <2>2, WriteKeepsGrantInv
<1> QED
  BY <1>2, <1>3

LEMMA WriteLoopKeepsGrantInv ==
  ASSUME GrantInv, ReadSource \/ WriteChunk \/ WriteFails \/ CheckStream \/ Flush
  PROVE  GrantInv'
<1>1. UNCHANGED <<opts, raced, bound>>
  BY DEF ReadSource, WriteChunk, WriteFails, CheckStream, Flush, world, observers
<1>2. CASE ReadSource \/ CheckStream \/ Flush
  <2>1. touched' = touched
    BY <1>2 DEF ReadSource, CheckStream, Flush, observers
  <2>2. \/ pc' \in {"done", "open_readback"}
        \/ /\ {pc, pc'} \subseteq {"resize", "read_source", "write_target", "flush"}
           /\ target'.obj = target.obj
    BY <1>2 DEF ReadSource, CheckStream, Flush, Out
  <2> QED
    BY <1>1, <2>1, <2>2, QuietKeepsGrantInv
<1>3. CASE WriteChunk \/ WriteFails
  <2>1. pc = "write_target" /\ touched' \subseteq touched \cup {target.obj}
    BY <1>3 DEF WriteChunk, WriteFails, Accept
  <2>2. \/ pc' = "done"
        \/ pc' \in {"read_source", "write_target"} /\ target'.obj = target.obj
    BY <1>3 DEF WriteChunk, WriteFails, Out
  <2> QED
    BY <1>1, <2>1, <2>2, WriteKeepsGrantInv
<1> QED
  BY <1>2, <1>3

LEMMA ReadbackKeepsGrantInv ==
  ASSUME GrantInv, OpenReadback \/ FullReadback \/ SampleReadback
  PROVE  GrantInv'
<1>1. UNCHANGED <<opts, touched, raced, bound>>
  BY DEF OpenReadback, FullReadback, SampleReadback, world, observers
<1>2. pc' \in {"done", "open_readback", "readback"}
  BY DEF OpenReadback, FullReadback, SampleReadback, Out, VerificationFails, Verified
<1> QED
  BY <1>1, <1>2, QuietKeepsGrantInv

\* A drive that is swapped after it was authorized counts as a race; later the
\* handle stays where it was opened.
LEMMA SwapDriveKeepsGrantInv ==
  ASSUME IInv, GrantInv, SwapDrive
  PROVE  GrantInv'
<1>1. UNCHANGED <<pc, opts, touched>>
  BY DEF SwapDrive, program
<1>2. (raced => raced') /\ (pc = "open_target" => raced')
  BY DEF SwapDrive
<1>3. target'.obj = target.obj
  BY DEF SwapDrive, IInv, TypeOK, WorldOK, TargetType
<1>4. OnlyConfirmedDrivesTouched'
  BY <1>1, <1>2 DEF GrantInv, OnlyConfirmedDrivesTouched, Granted
<1> QED
  BY <1>1, <1>2, <1>3, <1>4 DEF GrantInv, Granted

LEMMA RestKeepsGrantInv ==
  ASSUME GrantInv, EditSource \/ Rot \/ Mount \/ Kill \/ UNCHANGED vars
  PROVE  GrantInv'
<1>1. CASE EditSource \/ Rot \/ Mount \/ UNCHANGED vars
  <2>1. UNCHANGED <<pc, opts, touched, raced, bound, target>>
    BY <1>1 DEF EditSource, Rot, Mount, program, observers, vars, world
  <2> QED
    BY <2>1 DEF GrantInv, OnlyConfirmedDrivesTouched, Granted
<1>2. CASE Kill
  <2>1. UNCHANGED <<opts, touched, raced, bound>> /\ pc' = "killed"
    BY <1>2 DEF Kill, world, observers
  <2> QED
    BY <2>1, QuietKeepsGrantInv
<1> QED
  BY <1>1, <1>2

LEMMA NextKeepsGrantInv == IInv /\ GrantInv /\ [Next]_vars => GrantInv'
BY InspectionsKeepGrantInv, ReinspectKeepsGrantInv, OpenTargetKeepsGrantInv,
   ResizeKeepsGrantInv, WriteLoopKeepsGrantInv, ReadbackKeepsGrantInv,
   SwapDriveKeepsGrantInv, RestKeepsGrantInv
DEF Next, Step, Environment

\* For any number of drives, whatever is swapped, mounted or killed: a byte of a
\* drive changes only when the operator allowed drives and confirmed that drive,
\* and forced it if it is the system disk, or a swap met the open.
THEOREM OnlyConfirmedDrives == Spec => []OnlyConfirmedDrivesTouched
<1>1. Init => GrantInv
  BY DEF Init, GrantInv, OnlyConfirmedDrivesTouched
<1>2. IInv /\ GrantInv /\ [Next]_vars => GrantInv'
  BY NextKeepsGrantInv
<1>3. GrantInv => OnlyConfirmedDrivesTouched
  BY DEF GrantInv
<1> QED
  BY <1>1, <1>2, <1>3, Induction, PTL DEF Spec

-----------------------------------------------------------------------------
(* Drives change only under the image.                                       *)

LEMMA RoundUpIsClose ==
  ASSUME NEW n \in Nat
  PROVE  RoundUp(n) < n + Sector
BY SizeAssumption DEF RoundUp

LEMMA NextKeepsPaddingInv == IInv /\ PaddingInv /\ [Next]_vars => PaddingInv'
<1> SUFFICES ASSUME IInv, PaddingInv, [Next]_vars, pc' = "write_target"
             PROVE  offset' + Len(buffer') < src_size' + Sector
  BY DEF PaddingInv
<1>1. CASE ReadSource
  <2> DEFINE length == IF target.is_device THEN RoundUp(Wanted) ELSE Wanted
  <2>1. /\ offset < src_size /\ UNCHANGED <<offset, src_size>>
        /\ buffer' = [i \in 1..length |-> IF i <= Wanted THEN source[offset + i] ELSE Zero]
    BY <1>1 DEF ReadSource, Out
  <2>2. offset \in Nat /\ src_size \in Nat
    BY DEF IInv, TypeOK, WorldOK
  <2>3. Wanted \in Nat /\ Wanted <= src_size - offset
    BY <2>1, <2>2, ChunkIsInImage
  <2>4. length \in Nat /\ length < Wanted + Sector /\ Sector \in Nat
    BY <2>3, RoundUpIsAbove, RoundUpIsClose, SizeAssumption
  <2> HIDE DEF length
  <2>5. Len(buffer') = length
    BY <2>1, <2>4
  <2> QED
    BY <2>1, <2>2, <2>3, <2>4, <2>5
<1>2. CASE pc = "write_target" /\ UNCHANGED <<offset, buffer, src_size>>
  BY <1>2 DEF PaddingInv
<1>3. ReadSource \/ (pc = "write_target" /\ UNCHANGED <<offset, buffer, src_size>>)
  <2>1. CASE Step
    <3>1. OpenSource \/ InspectTarget \/ HashSource \/ Reinspect \/ OpenTarget \/ Resize
          => pc' # "write_target"
      BY DEF OpenSource, InspectTarget, HashSource, Reinspect, OpenTarget, Resize, Out
    <3>2. WriteChunk \/ CheckStream \/ Flush \/ OpenReadback => pc' # "write_target"
      BY DEF WriteChunk, CheckStream, Flush, OpenReadback, VerificationFails, Out
    <3>3. FullReadback \/ SampleReadback => pc' # "write_target"
      BY DEF FullReadback, SampleReadback, VerificationFails, Verified, Out
    <3>4. WriteFails => pc = "write_target" /\ UNCHANGED <<offset, buffer, src_size>>
      BY DEF WriteFails
    <3> QED
      BY <2>1, <3>1, <3>2, <3>3, <3>4 DEF Step
  <2>2. CASE Environment
    BY <2>2 DEF Environment, EditSource, SwapDrive, Rot, Mount, Kill, program
  <2>3. CASE UNCHANGED vars
    BY <2>3 DEF vars
  <2> QED
    BY <2>1, <2>2, <2>3 DEF Next
<1> QED
  BY <1>1, <1>2, <1>3

\* What the writing steps do to a drive.
LEMMA AcceptStaysUnderImage ==
  ASSUME IInv, PaddingInv, pc = "write_target", NEW k \in 0..Len(buffer), Accept(k),
         NEW d \in Devices, NEW i \in DOMAIN media[d], media'[d][i] # media[d][i]
  PROVE  d = written_to /\ i < src_size + Sector
<1>1. /\ TypeOK /\ target.obj = written_to /\ target.obj \in Objects
      /\ offset + Len(buffer) < src_size + Sector
      /\ media \in [Objects -> Seq(Bytes)] /\ buffer \in Seq(Bytes)
      /\ offset \in Nat /\ src_size \in Nat
  BY DEF IInv, HandleInv, PaddingInv, TypeOK, WorldOK
<1>2. k \in Nat /\ k <= Len(buffer) /\ d \in Objects /\ Sector \in Nat
  BY <1>1, SizeAssumption DEF Objects
<1>3. d = target.obj
  BY <1>1, <1>2 DEF Accept
<1>4. i \in 1..Len(media[d])
  BY <1>1, <1>2
<1>5. media'[d][i] = IF offset < i /\ i <= offset + k THEN buffer[i - offset] ELSE media[d][i]
  BY <1>1, <1>2, <1>3, <1>4, AcceptKeepsPrefix
<1>6. i <= offset + k
  BY <1>5
<1> QED
  BY <1>1, <1>2, <1>3, <1>4, <1>6

LEMMA RegularFileIsNoDrive ==
  ASSUME IInv, NEW c, NEW d \in Devices, media' = [media EXCEPT ![RegularFile] = c]
  PROVE  media'[d] = media[d]
BY ObjectAssumption DEF IInv, TypeOK, WorldOK, Objects

LEMMA StepStaysUnderImage ==
  ASSUME IInv, PaddingInv, [Next]_vars, rots' = rots,
         NEW d \in Devices, NEW i \in DOMAIN media[d], media'[d][i] # media[d][i]
  PROVE  d = written_to /\ i < src_size + Sector
<1>1. CASE WriteChunk \/ WriteFails
  <2>1. pc = "write_target" /\ \E k \in 0..Len(buffer) : Accept(k)
    <3>1. Len(buffer) \in 0..Len(buffer)
      BY DEF IInv, TypeOK, WorldOK
    <3> QED
      BY <1>1, <3>1 DEF WriteChunk, WriteFails
  <2> QED
    BY <2>1, AcceptStaysUnderImage
<1>2. CASE OpenTarget \/ Resize
  <2>1. media' = media \/ \E c : media' = [media EXCEPT ![RegularFile] = c]
    BY <1>2 DEF OpenTarget, Resize
  <2> QED
    BY <2>1, RegularFileIsNoDrive
<1>3. CASE OpenSource \/ InspectTarget \/ HashSource \/ Reinspect \/ ReadSource \/ CheckStream
  BY <1>3 DEF OpenSource, InspectTarget, HashSource, Reinspect, ReadSource, CheckStream, world
<1>4. CASE Flush \/ OpenReadback \/ FullReadback \/ SampleReadback
  BY <1>4 DEF Flush, OpenReadback, FullReadback, SampleReadback, world
<1>5. CASE EditSource \/ SwapDrive \/ Mount \/ Kill \/ UNCHANGED vars
  BY <1>5 DEF EditSource, SwapDrive, Mount, Kill, vars, world
<1>6. CASE Rot
  <2>1. rots' = rots + 1 /\ rots \in Nat
    BY <1>6 DEF Rot, IInv, TypeOK, WorldOK
  <2> QED
    BY <2>1
<1> QED
  BY <1>1, <1>2, <1>3, <1>4, <1>5, <1>6 DEF Next, Step, Environment

\* For any image, chunk, sector and drive sizes and whatever is swapped: but for
\* rot, no step changes a byte of a drive other than the one the write handle
\* was opened on, nor a byte behind the sector in which the image ends.
THEOREM NothingBehindTheImage == Spec => DrivesChangeUnderTheImage
<1> DEFINE Under == rots' = rots =>
                      \A d \in Devices : \A i \in DOMAIN media[d] :
                         media'[d][i] # media[d][i] => d = written_to /\ i < src_size + Sector
<1>1. Init => PaddingInv
  BY DEF Init, PaddingInv
<1>2. IInv /\ PaddingInv /\ [Next]_vars => [Under]_vars
  BY StepStaysUnderImage
<1>3. IInv /\ PaddingInv /\ [Next]_vars => PaddingInv'
  BY NextKeepsPaddingInv
<1> HIDE DEF Under
<1>4. Spec => [][Under]_vars
  BY <1>1, <1>2, <1>3, Induction, PTL DEF Spec
<1> QED
  BY <1>4 DEF Under, DrivesChangeUnderTheImage

-----------------------------------------------------------------------------
(* A full readback catches rot.                                              *)

\* A step before the readback, or one that ends the run without a verified
\* success.
LEMMA QuietKeepsReadbackInv ==
  ASSUME ReadbackInv, UNCHANGED <<bound, written_to, swapped>>,
         pc' \notin {"open_readback", "readback"},
         ~Succeeded' \/ opts'.verify_mode # "full"
  PROVE  ReadbackInv'
BY DEF ReadbackInv, FullReadbackCatchesRot

LEMMA PreparationKeepsReadbackInv ==
  ASSUME ReadbackInv, OpenSource \/ InspectTarget \/ HashSource \/ Reinspect \/ Resize
  PROVE  ReadbackInv'
<1>1. UNCHANGED <<bound, written_to, swapped>>
  BY DEF OpenSource, InspectTarget, HashSource, Reinspect, Resize, world, observers
<1>2. pc' \notin {"open_readback", "readback"} /\ ~Succeeded'
  BY DEF OpenSource, InspectTarget, HashSource, Reinspect, Resize, Out, Succeeded
<1> QED
  BY <1>1, <1>2, QuietKeepsReadbackInv

LEMMA OpenTargetKeepsReadbackInv == ReadbackInv /\ OpenTarget => ReadbackInv'
<1> SUFFICES ASSUME ReadbackInv, OpenTarget PROVE ReadbackInv'
  OBVIOUS
<1>1. pc' \in {"resize", "done"} /\ ~Succeeded'
  BY DEF OpenTarget, Out, Succeeded
<1>2. bound' = written_to' \/ UNCHANGED <<bound, written_to, swapped>>
  BY DEF OpenTarget
<1> QED
  BY <1>1, <1>2, QuietKeepsReadbackInv DEF ReadbackInv, FullReadbackCatchesRot

LEMMA WriteLoopKeepsReadbackInv ==
  ASSUME ReadbackInv, ReadSource \/ WriteChunk \/ WriteFails \/ CheckStream
  PROVE  ReadbackInv'
<1>1. UNCHANGED <<bound, written_to, swapped>>
  BY DEF ReadSource, WriteChunk, WriteFails, CheckStream, world, observers
<1>2. pc' \notin {"open_readback", "readback"} /\ ~Succeeded'
  BY DEF ReadSource, WriteChunk, WriteFails, CheckStream, Out, Succeeded
<1> QED
  BY <1>1, <1>2, QuietKeepsReadbackInv

LEMMA FlushKeepsReadbackInv == IInv /\ ReadbackInv /\ Flush => ReadbackInv'
<1> SUFFICES ASSUME IInv, ReadbackInv, Flush PROVE ReadbackInv'
  OBVIOUS
<1>1. UNCHANGED <<bound, written_to, swapped, opts>> /\ pc = "flush"
  BY DEF Flush, world
<1>2. CASE pc' = "open_readback"
  <2>1. written_to \in Objects
    BY <1>1 DEF IInv, HandleInv
  <2> QED
    BY <1>1, <1>2, <2>1 DEF ReadbackInv, FullReadbackCatchesRot, Succeeded
<1>3. CASE pc' # "open_readback"
  <2>1. pc' = "done" /\ (~Succeeded' \/ opts'.verify_mode # "full")
    BY <1>3 DEF Flush, Out, Succeeded
  <2> QED
    BY <1>1, <2>1, QuietKeepsReadbackInv
<1> QED
  BY <1>2, <1>3

LEMMA OpenReadbackKeepsReadbackInv ==
  IInv /\ ReadbackInv /\ OpenReadback => ReadbackInv'
<1> SUFFICES ASSUME IInv, ReadbackInv, OpenReadback PROVE ReadbackInv'
  OBVIOUS
<1>1. UNCHANGED <<bound, written_to, swapped>> /\ pc = "open_readback"
  BY DEF OpenReadback, world, observers
<1>2. CASE pc' = "readback"
  <2>1. target'.obj = bound /\ offset' = 0 /\ written_to \in Objects
    BY <1>1, <1>2 DEF OpenReadback, VerificationFails, Out, ReadbackInv
  <2>2. ~swapped => bound = written_to
    BY <1>1, <2>1, ObjectAssumption DEF ReadbackInv
  <2> QED
    BY <1>1, <1>2, <2>1, <2>2 DEF ReadbackInv, FullReadbackCatchesRot, Succeeded
<1>3. CASE pc' # "readback"
  <2>1. pc' = "done" /\ ~Succeeded'
    BY <1>3 DEF OpenReadback, VerificationFails, Out, Succeeded
  <2> QED
    BY <1>1, <2>1, QuietKeepsReadbackInv
<1> QED
  BY <1>2, <1>3

\* The digest of the readback is fed what the object holds, chunk by chunk, up
\* to the end; equal digests then mean that the object holds the hashed bytes.
LEMMA FullReadbackKeepsReadbackInv ==
  IInv /\ ReadbackInv /\ FullReadback => ReadbackInv'
<1> SUFFICES ASSUME IInv, ReadbackInv, FullReadback PROVE ReadbackInv'
  OBVIOUS
<1>1. /\ UNCHANGED <<media, bound, written_to, swapped, rotted, opts, src_size>>
      /\ pc = "readback" /\ opts.verify_mode = "full" /\ written_to \in Objects
  BY DEF FullReadback, world, observers, ReadbackInv
<1>2. /\ Len(hashed) = offset /\ offset \in Nat /\ src_size \in Nat /\ offset <= src_size
      /\ hashed \in Seq(Bytes) /\ media \in [Objects -> Seq(Bytes)] /\ result \in ResultType
  BY <1>1 DEF IInv, LoopInv, TypeOK, WorldOK
<1>3. CASE /\ offset < src_size
           /\ target.live /\ offset + Wanted <= Len(media[target.obj])
           /\ hashed' = Extend(media[target.obj], Wanted)
           /\ offset' = offset + Wanted
           /\ UNCHANGED <<pc, status, target, result>>
  <2>1. media[target.obj] \in Seq(Bytes)
    BY <1>2, <1>3 DEF IInv, HandleInv
  <2>2. Wanted \in Nat
    BY <1>2, <1>3, ChunkIsInImage
  <2>3. /\ \A i \in 1..offset : hashed'[i] = hashed[i]
        /\ \A i \in (offset + 1)..(offset + Wanted) : hashed'[i] = media[target.obj][i]
    BY <1>2, <1>3, <2>1, <2>2, ExtendIsBytes
  <2>4. ASSUME ~swapped, ~rotted, NEW i \in 1..offset'
        PROVE  i <= Len(media[target.obj]) /\ media[target.obj][i] = hashed'[i]
    <3>1. CASE i <= offset
      <4>1. i \in 1..offset
        BY <1>2, <1>3, <2>2, <3>1
      <4> QED
        BY <1>1, <2>3, <2>4, <4>1 DEF ReadbackInv
    <3>2. CASE offset < i
      <4>1. i \in (offset + 1)..(offset + Wanted) /\ i <= Len(media[target.obj])
        BY <1>2, <1>3, <2>1, <2>2, <3>2
      <4> QED
        BY <2>3, <4>1
    <3> QED
      BY <1>2, <1>3, <2>2, <3>1, <3>2
  <2> QED
    BY <1>1, <1>3, <2>4 DEF ReadbackInv, FullReadbackCatchesRot, Succeeded
<1>4. CASE /\ ReadbackMatches /\ Out("ok") /\ offset >= src_size
           /\ result'.source_sha256 = result.source_sha256
  <2>1. ASSUME ~swapped, ~rotted PROVE Holds(written_to, result.source_sha256)
    <3>1. /\ \A i \in 1..offset : i <= Len(media[target.obj]) /\ media[target.obj][i] = hashed[i]
          /\ target.obj = written_to
      BY <1>1, <2>1 DEF ReadbackInv
    <3>2. media[written_to] \in Seq(Bytes)
      BY <1>1, <1>2
    <3>3. offset <= Len(media[written_to])
      <4>1. CASE offset = 0
        BY <3>2, <4>1
      <4>2. CASE offset # 0
        <5>1. offset \in 1..offset
          BY <1>2, <4>2
        <5> QED
          BY <3>1, <5>1
      <4> QED
        BY <4>1, <4>2
    <3> QED
      BY <1>2, <1>4, <3>1, <3>3 DEF Holds, IsPrefix, ReadbackMatches
  <2>2. pc' = "done"
    BY <1>4 DEF Out
  <2>3. FullReadbackCatchesRot'
    BY <1>1, <1>4, <2>1 DEF FullReadbackCatchesRot, Holds
  <2> QED
    BY <1>1, <2>2, <2>3 DEF ReadbackInv
<1>5. CASE pc' = "done" /\ ~Succeeded'
  BY <1>1, <1>5, QuietKeepsReadbackInv
<1>6. \/ offset < src_size /\ pc' = "done" /\ ~Succeeded'
      \/ offset >= src_size /\ ~ReadbackMatches /\ pc' = "done" /\ ~Succeeded'
      \/ /\ offset >= src_size /\ ReadbackMatches /\ Out("ok")
         /\ result' = [result EXCEPT !.final_state = "success_verified",
                                      !.bytes_verified = src_size]
      \/ /\ offset < src_size
         /\ target.live /\ offset + Wanted <= Len(media[target.obj])
         /\ hashed' = Extend(media[target.obj], Wanted)
         /\ offset' = offset + Wanted
         /\ UNCHANGED <<pc, status, target, result>>
  BY DEF FullReadback, VerificationFails, Out, Succeeded
<1>7. [result EXCEPT !.final_state = "success_verified", !.bytes_verified = src_size].source_sha256
         = result.source_sha256
  BY <1>2, RestatedIsTyped DEF FinalStates
<1> QED
  BY <1>3, <1>4, <1>5, <1>6, <1>7

LEMMA SampleReadbackKeepsReadbackInv == ReadbackInv /\ SampleReadback => ReadbackInv'
<1> SUFFICES ASSUME ReadbackInv, SampleReadback PROVE ReadbackInv'
  OBVIOUS
<1>1. /\ UNCHANGED <<bound, written_to, swapped, opts>>
      /\ pc = "readback" /\ opts.verify_mode = "sample"
      /\ pc' = "done" \/ UNCHANGED <<pc, target>>
  BY DEF SampleReadback, world, observers, VerificationFails, Verified, Out
<1>2. "sample" # "full"
  OBVIOUS
<1> QED
  BY <1>1, <1>2 DEF ReadbackInv, FullReadbackCatchesRot

LEMMA WorldKeepsReadbackInv ==
  ASSUME IInv, ReadbackInv, Environment \/ UNCHANGED vars
  PROVE  ReadbackInv'
<1>1. CASE EditSource \/ Mount \/ UNCHANGED vars
  BY <1>1 DEF EditSource, Mount, program, vars, world, observers, ReadbackInv,
              FullReadbackCatchesRot, Succeeded, Holds
<1>2. CASE Kill
  <2>1. UNCHANGED <<bound, written_to, swapped>> /\ pc' = "killed"
    BY <1>2 DEF Kill, world, observers
  <2> QED
    BY <2>1, QuietKeepsReadbackInv DEF Succeeded
<1>3. CASE SwapDrive
  <2>1. /\ UNCHANGED <<pc, written_to, media, status, opts>> /\ pc # "done"
        /\ swapped' = (swapped \/ written_to # Missing)
    BY <1>3 DEF SwapDrive, program, Running
  <2>2. pc \in {"open_readback", "readback"} => written_to \in Objects /\ swapped'
    BY <2>1, ObjectAssumption DEF ReadbackInv
  <2> QED
    BY <2>1, <2>2 DEF ReadbackInv, FullReadbackCatchesRot, Succeeded
<1>4. CASE Rot
  <2>1. /\ UNCHANGED <<pc, bound, written_to, swapped, target, opts, status>> /\ pc # "done"
        /\ pc = "readback" => rotted'
    BY <1>4 DEF Rot, program, Running
  <2> QED
    BY <2>1 DEF ReadbackInv, FullReadbackCatchesRot, Succeeded
<1> QED
  BY <1>1, <1>2, <1>3, <1>4 DEF Environment

LEMMA NextKeepsReadbackInv == IInv /\ ReadbackInv /\ [Next]_vars => ReadbackInv'
BY PreparationKeepsReadbackInv, OpenTargetKeepsReadbackInv, WriteLoopKeepsReadbackInv,
   FlushKeepsReadbackInv, OpenReadbackKeepsReadbackInv, FullReadbackKeepsReadbackInv,
   SampleReadbackKeepsReadbackInv, WorldKeepsReadbackInv
DEF Next, Step

\* For any image, chunk size and number of drives, and any rot before the
\* readback: a verified full run leaves the hashed bytes on the object it wrote,
\* unless the path was rebound after the open.
THEOREM FullReadbackIsProof == Spec => []FullReadbackCatchesRot
<1>1. Init => ReadbackInv
  BY DEF Init, ReadbackInv, FullReadbackCatchesRot, Succeeded
<1>2. IInv /\ ReadbackInv /\ [Next]_vars => ReadbackInv'
  BY NextKeepsReadbackInv
<1>3. ReadbackInv => FullReadbackCatchesRot
  BY DEF ReadbackInv
<1> QED
  BY <1>1, <1>2, <1>3, Induction, PTL DEF Spec

-----------------------------------------------------------------------------
(* A success is an image, not a mixture.                                     *)

LEMMA PrefixIsReflexive ==
  ASSUME NEW s \in Seq(Bytes)
  PROVE  IsPrefix(s, s)
BY DEF IsPrefix

\* A prefix as long as the whole is the whole.
LEMMA WholePrefix ==
  ASSUME NEW s \in Seq(Bytes), NEW t \in Seq(Bytes), IsPrefix(s, t), Len(t) <= Len(s)
  PROVE  s = t
<1>1. Len(s) = Len(t) /\ \A i \in 1..Len(s) : s[i] = t[i]
  BY DEF IsPrefix
<1> QED
  BY <1>1

\* A digest that has been fed a prefix of the file goes on with the next chunk.
LEMMA ExtendedPrefix ==
  ASSUME NEW f \in Seq(Bytes), NEW n \in Nat, offset \in Nat, hashed \in Seq(Bytes),
         Len(hashed) = offset, offset + n <= Len(f), IsPrefix(hashed, f)
  PROVE  IsPrefix(Extend(f, n), f)
<1>1. /\ Len(Extend(f, n)) = offset + n
      /\ \A i \in 1..offset : Extend(f, n)[i] = hashed[i]
      /\ \A i \in (offset + 1)..(offset + n) : Extend(f, n)[i] = f[i]
  BY ExtendIsBytes
<1>2. \A i \in 1..offset : hashed[i] = f[i]
  BY DEF IsPrefix
<1>3. ASSUME NEW i \in 1..(offset + n) PROVE Extend(f, n)[i] = f[i]
  <2>1. CASE i <= offset
    BY <1>1, <1>2, <2>1
  <2>2. CASE offset < i
    BY <1>1, <2>2
  <2> QED
    BY <2>1, <2>2
<1> QED
  BY <1>1, <1>3 DEF IsPrefix

\* A step that leaves the image, the digests and the sizes alone and goes on
\* where the invariant asks for nothing new, or ends without success.
LEMMA QuietKeepsImageInv ==
  ASSUME ImageInv, UNCHANGED <<source, edits>>,
         \/ pc' \in {"done", "killed"} /\ ~Succeeded'
         \/ /\ pc \in Steps /\ pc' = pc /\ UNCHANGED <<src_size, hashed>>
            /\ result'.source_sha256 = result.source_sha256
         \/ /\ pc \in {"reinspect", "open_target", "resize", "read_source", "write_target"}
            /\ pc' \in {"reinspect", "open_target", "resize", "read_source", "write_target"}
            /\ UNCHANGED <<src_size, hashed>>
            /\ result'.source_sha256 = result.source_sha256
  PROVE  ImageInv'
BY DEF ImageInv, SuccessIsAnImage, Steps, Succeeded

LEMMA EmptyPrefix ==
  ASSUME NEW h \in Seq(Bytes), Len(h) = 0, NEW s \in Seq(Bytes)
  PROVE  IsPrefix(h, s)
BY DEF IsPrefix

LEMMA PreparationKeepsImageInv ==
  ASSUME IInv, ImageInv, OpenSource \/ InspectTarget \/ Reinspect \/ OpenTarget \/ Resize
  PROVE  ImageInv'
<1>1. UNCHANGED <<source, edits>>
  BY DEF OpenSource, InspectTarget, Reinspect, OpenTarget, Resize, world, counters
<1>2. CASE pc' = "done"
  <2>1. ~Succeeded'
    BY <1>2 DEF OpenSource, InspectTarget, Reinspect, OpenTarget, Resize, Out, Succeeded
  <2> QED
    BY <1>1, <1>2, <2>1, QuietKeepsImageInv
<1>3. CASE OpenSource /\ pc' # "done"
  <2>1. pc' = "inspect_target" /\ src_size' = Len(source)
    BY <1>3 DEF OpenSource, OpenedSize, Out
  <2> QED
    BY <1>1, <2>1 DEF ImageInv, SuccessIsAnImage, Steps, Succeeded
<1>4. CASE InspectTarget /\ pc' # "done"
  <2>1. pc' = "hash_source" /\ pc = "inspect_target" /\ UNCHANGED <<src_size, hashed>>
    BY <1>4 DEF InspectTarget, Out
  <2>2. IsPrefix(hashed, source)
    BY <2>1, EmptyPrefix, ByteAssumption DEF IInv, TypeOK, WorldOK, LoopInv
  <2>3. IsPrefix(hashed', source')
    BY <1>1, <2>1, <2>2
  <2> QED
    BY <1>1, <2>1, <2>3 DEF ImageInv, SuccessIsAnImage, Steps, Succeeded
<1>5. CASE (Reinspect \/ OpenTarget \/ Resize) /\ pc' # "done"
  <2>1. /\ pc \in {"reinspect", "open_target", "resize"}
        /\ pc' \in {"open_target", "resize", "read_source"}
        /\ UNCHANGED <<src_size, hashed, result>>
    BY <1>5 DEF Reinspect, OpenTarget, Resize, Out
  <2> QED
    BY <1>1, <2>1, QuietKeepsImageInv
<1> QED
  BY <1>2, <1>3, <1>4, <1>5

LEMMA HashSourceKeepsImageInv == IInv /\ ImageInv /\ HashSource => ImageInv'
<1> SUFFICES ASSUME IInv, ImageInv, HashSource PROVE ImageInv'
  OBVIOUS
<1> DEFINE n == Least(src_size - offset, Buffer)
<1>1. UNCHANGED <<source, edits, src_size>> /\ pc = "hash_source"
  BY DEF HashSource, world, counters
<1>2. /\ source \in Seq(Bytes) /\ source \in Images /\ Len(hashed) = offset
      /\ hashed \in Seq(Bytes) /\ offset \in Nat /\ src_size \in Nat /\ offset <= src_size
      /\ result \in ResultType
  BY <1>1, ByteAssumption DEF IInv, TypeOK, WorldOK, LoopInv
<1>3. CASE pc' = "done"
  <2>1. ~Succeeded'
    BY <1>3 DEF HashSource, Out, Succeeded
  <2> QED
    BY <1>1, <1>3, <2>1, QuietKeepsImageInv
<1>4. CASE /\ offset < src_size /\ offset + n <= Len(source)
           /\ hashed' = Extend(source, n) /\ UNCHANGED <<pc, result>>
  <2>1. n \in Nat
    BY <1>2, <1>4, ChunkIsInImage
  <2>2. edits = 0 => IsPrefix(hashed, source) /\ src_size = Len(source)
    BY <1>1 DEF ImageInv, Steps
  <2> HIDE DEF n
  <2>3. edits = 0 => IsPrefix(hashed', source)
    BY <1>2, <1>4, <2>1, <2>2, ExtendedPrefix
  <2>4. edits' = 0 => IsPrefix(hashed', source') /\ src_size' = Len(source')
    BY <1>1, <2>2, <2>3
  <2> QED
    BY <1>1, <1>4, <2>4 DEF ImageInv, SuccessIsAnImage, Steps, Succeeded
<1>5. CASE /\ offset >= src_size /\ hashed' = << >> /\ pc' = "reinspect"
           /\ result' = [result EXCEPT !.source_sha256 = hashed]
  <2>1. result'.source_sha256 = hashed
    BY <1>2, <1>5 DEF ResultType
  <2>2. edits = 0 => hashed = source /\ src_size = Len(source)
    <3> SUFFICES ASSUME edits = 0 PROVE hashed = source /\ src_size = Len(source)
      OBVIOUS
    <3>1. IsPrefix(hashed, source) /\ src_size = Len(source)
      BY <1>1 DEF ImageInv, Steps
    <3>2. Len(source) <= Len(hashed)
      BY <1>2, <1>5, <3>1
    <3> QED
      BY <1>2, <3>1, <3>2, WholePrefix
  <2>3. IsPrefix(hashed', source')
    <3>1. hashed' \in Seq(Bytes) /\ Len(hashed') = 0 /\ source' = source
      BY <1>1, <1>5
    <3>2. IsPrefix(hashed', source)
      BY <1>2, <3>1, EmptyPrefix
    <3> QED
      BY <3>1, <3>2
  <2> QED
    BY <1>1, <1>5, <2>1, <2>2, <2>3 DEF ImageInv, SuccessIsAnImage, Steps, Succeeded
<1> QED
  BY <1>3, <1>4, <1>5 DEF HashSource, Out

LEMMA ReadSourceKeepsImageInv == IInv /\ ImageInv /\ ReadSource => ImageInv'
<1> SUFFICES ASSUME IInv, ImageInv, ReadSource PROVE ImageInv'
  OBVIOUS
<1>1. UNCHANGED <<source, edits, src_size, result>> /\ pc = "read_source"
  BY DEF ReadSource, world, counters
<1>2. /\ source \in Seq(Bytes) /\ Len(hashed) = offset /\ hashed \in Seq(Bytes)
      /\ offset \in Nat /\ src_size \in Nat /\ offset < src_size
  BY <1>1, ByteAssumption DEF IInv, TypeOK, WorldOK, LoopInv, ReadSource
<1>3. CASE pc' = "done"
  <2>1. ~Succeeded'
    BY <1>3 DEF ReadSource, Out, Succeeded
  <2> QED
    BY <1>1, <1>3, <2>1, QuietKeepsImageInv
<1>4. CASE pc' # "done"
  <2>1. offset + Wanted <= Len(source) /\ hashed' = Extend(source, Wanted) /\ pc' = "write_target"
    BY <1>4 DEF ReadSource, Out
  <2>2. Wanted \in Nat
    BY <1>2, ChunkIsInImage
  <2>3. IsPrefix(hashed, source) => IsPrefix(hashed', source)
    BY <1>2, <2>1, <2>2, ExtendedPrefix
  <2>4. edits <= 1 => result.source_sha256 \in Images \/ IsPrefix(hashed', source)
    BY <1>1, <2>3 DEF ImageInv
  <2>5. edits' <= 1 => result'.source_sha256 \in Images \/ IsPrefix(hashed', source')
    BY <1>1, <2>4
  <2> QED
    BY <1>1, <2>1, <2>5 DEF ImageInv, SuccessIsAnImage, Steps, Succeeded
<1> QED
  BY <1>3, <1>4

LEMMA WriteKeepsImageInv == IInv /\ ImageInv /\ (WriteChunk \/ WriteFails) => ImageInv'
<1> SUFFICES ASSUME IInv, ImageInv, WriteChunk \/ WriteFails PROVE ImageInv'
  OBVIOUS
<1>1. UNCHANGED <<source, edits, src_size, hashed>> /\ pc = "write_target"
  BY DEF WriteChunk, WriteFails, counters
<1>2. result'.source_sha256 = result.source_sha256
  BY DEF WriteChunk, WriteFails, Counted, IInv, TypeOK, WorldOK, ResultType
<1>3. pc' \in {"read_source", "write_target"} \/ (pc' = "done" /\ ~Succeeded')
  BY <1>1 DEF WriteChunk, WriteFails, Out, Succeeded
<1> QED
  BY <1>1, <1>2, <1>3, QuietKeepsImageInv

LEMMA CheckStreamKeepsImageInv == ImageInv /\ CheckStream => ImageInv'
<1> SUFFICES ASSUME ImageInv, CheckStream PROVE ImageInv'
  OBVIOUS
<1>1. UNCHANGED <<source, edits, src_size, hashed, result>> /\ pc = "read_source"
  BY DEF CheckStream, world, counters
<1>2. CASE StreamMatches /\ pc' = "flush"
  <2>1. edits <= 1 => \/ result.source_sha256 \in Images
                      \/ IsPrefix(result.source_sha256, source)
    BY <1>1, <1>2 DEF ImageInv, StreamMatches
  <2> QED
    BY <1>1, <1>2, <2>1 DEF ImageInv, SuccessIsAnImage, Steps, Succeeded
<1>3. CASE pc' = "done" /\ ~Succeeded'
  BY <1>1, <1>3, QuietKeepsImageInv
<1> QED
  BY <1>2, <1>3 DEF CheckStream, Out, Succeeded

\* Success without a readback, or with a sampled one, leaves a prefix of an
\* image.
LEMMA SuccessKeepsImageInv ==
  ASSUME IInv, ImageInv, UNCHANGED <<source, edits, opts>>,
         pc \in {"flush", "readback"}, opts.verify_mode # "full", pc' = "done",
         result'.source_sha256 = result.source_sha256
  PROVE  ImageInv'
<1>1. source \in Images /\ result.source_sha256 \in Seq(Bytes)
  BY DEF IInv, TypeOK, WorldOK, ResultType
<1>2. edits <= 1 => \E s \in Images : IsPrefix(result.source_sha256, s)
  BY <1>1, PrefixIsReflexive DEF ImageInv
<1>3. SuccessIsAnImage'
  BY <1>2 DEF SuccessIsAnImage
<1> QED
  BY <1>3 DEF ImageInv, Steps

LEMMA FlushKeepsImageInv == IInv /\ ImageInv /\ Flush => ImageInv'
<1> SUFFICES ASSUME IInv, ImageInv, Flush PROVE ImageInv'
  OBVIOUS
<1>1. UNCHANGED <<source, edits, src_size, hashed, opts>> /\ pc = "flush"
  BY DEF Flush, world, counters
<1>2. result'.source_sha256 = result.source_sha256
  <2>1. result' = result \/ result' = [result EXCEPT !.final_state = "success_unverified"]
    BY DEF Flush
  <2> QED
    BY <2>1, RestatedIsTyped DEF IInv, TypeOK, WorldOK, FinalStates
<1>3. CASE pc' = "open_readback"
  BY <1>1, <1>2, <1>3 DEF ImageInv, SuccessIsAnImage, Steps, Succeeded
<1>4. CASE pc' = "done" /\ ~Succeeded'
  BY <1>1, <1>4, QuietKeepsImageInv
<1>5. CASE pc' = "done" /\ opts.verify_mode = "none"
  <2>1. opts.verify_mode # "full"
    BY <1>5
  <2> QED
    BY <1>1, <1>2, <1>5, <2>1, SuccessKeepsImageInv
<1> QED
  BY <1>3, <1>4, <1>5 DEF Flush, Out, Succeeded

LEMMA OpenReadbackKeepsImageInv == ImageInv /\ OpenReadback => ImageInv'
<1> SUFFICES ASSUME ImageInv, OpenReadback PROVE ImageInv'
  OBVIOUS
<1>1. UNCHANGED <<source, edits>> /\ pc = "open_readback"
  BY DEF OpenReadback, world, counters
<1>2. CASE pc' = "readback"
  <2>1. src_size' = Len(source) /\ UNCHANGED result
    BY <1>2 DEF OpenReadback, OpenedSize, VerificationFails, Out
  <2> QED
    BY <1>1, <1>2, <2>1 DEF ImageInv, SuccessIsAnImage, Steps, Succeeded
<1>3. CASE pc' # "readback"
  <2>1. pc' = "done" /\ ~Succeeded'
    BY <1>3 DEF OpenReadback, VerificationFails, Out, Succeeded
  <2> QED
    BY <1>1, <2>1, QuietKeepsImageInv
<1> QED
  BY <1>2, <1>3

LEMMA FullReadbackKeepsImageInv == IInv /\ ImageInv /\ FullReadback => ImageInv'
<1> SUFFICES ASSUME IInv, ImageInv, FullReadback PROVE ImageInv'
  OBVIOUS
<1>1. UNCHANGED <<source, edits, src_size, opts>> /\ pc = "readback" /\ opts.verify_mode = "full"
  BY DEF FullReadback, world, counters
<1>2. /\ source \in Seq(Bytes) /\ source \in Images /\ Len(hashed) = offset
      /\ hashed \in Seq(Bytes) /\ offset \in Nat /\ src_size \in Nat /\ offset <= src_size
      /\ result \in ResultType /\ result.source_sha256 \in Seq(Bytes)
  BY <1>1, ByteAssumption DEF IInv, TypeOK, WorldOK, LoopInv, ResultType
<1>3. CASE UNCHANGED <<pc, result>>
  BY <1>1, <1>3 DEF ImageInv, SuccessIsAnImage, Steps, Succeeded
<1>4. CASE pc' = "done" /\ ~Succeeded'
  BY <1>1, <1>4, QuietKeepsImageInv
<1>5. CASE /\ offset >= src_size /\ ReadbackMatches /\ pc' = "done"
           /\ result' = [result EXCEPT !.final_state = "success_verified",
                                        !.bytes_verified = src_size]
  <2>1. result'.source_sha256 = result.source_sha256
    BY <1>2, <1>5, RestatedIsTyped DEF FinalStates
  <2>2. edits <= 1 => result.source_sha256 \in Images
    <3> SUFFICES ASSUME edits <= 1,
                        IsPrefix(result.source_sha256, source), src_size = Len(source)
                 PROVE  result.source_sha256 \in Images
      BY <1>1 DEF ImageInv
    <3>1. Len(source) <= Len(result.source_sha256)
      BY <1>2, <1>5 DEF ReadbackMatches
    <3> QED
      BY <1>2, <3>1, WholePrefix
  <2>3. SuccessIsAnImage'
    BY <1>1, <1>2, <2>1, <2>2, PrefixIsReflexive DEF SuccessIsAnImage
  <2>4. edits = 0 => result.source_sha256 = source
    BY <1>1 DEF ImageInv, Steps
  <2> QED
    BY <1>1, <1>5, <2>1, <2>3, <2>4 DEF ImageInv, Steps
<1> QED
  BY <1>3, <1>4, <1>5 DEF FullReadback, VerificationFails, Out, Succeeded

LEMMA SampleReadbackKeepsImageInv == IInv /\ ImageInv /\ SampleReadback => ImageInv'
<1> SUFFICES ASSUME IInv, ImageInv, SampleReadback PROVE ImageInv'
  OBVIOUS
<1>1. /\ UNCHANGED <<source, edits, src_size, hashed, opts>> /\ pc = "readback"
      /\ opts.verify_mode = "sample" /\ opts.verify_mode # "full"
  BY DEF SampleReadback, world, counters
<1>2. result \in ResultType
  BY DEF IInv, TypeOK, WorldOK
<1>3. CASE Verified
  <2>1. result'.source_sha256 = result.source_sha256 /\ pc' = "done"
    BY <1>2, <1>3, RestatedIsTyped DEF Verified, FinalStates, Out
  <2> QED
    BY <1>1, <2>1, SuccessKeepsImageInv
<1>4. CASE pc' = "done" /\ ~Succeeded'
  BY <1>1, <1>4, QuietKeepsImageInv
<1>5. CASE UNCHANGED pc /\ \E n : result' = [result EXCEPT !.bytes_verified = n]
  <2>1. result'.source_sha256 = result.source_sha256
    BY <1>2, <1>5 DEF ResultType
  <2> QED
    BY <1>1, <1>5, <2>1, QuietKeepsImageInv DEF Steps
<1> QED
  BY <1>3, <1>4, <1>5 DEF SampleReadback, VerificationFails, Out, Succeeded

\* An edit finds the first digest complete, and then it is the image as it was,
\* or not, and then everything streamed will come from the new image.
LEMMA EditKeepsImageInv == IInv /\ ImageInv /\ EditSource => ImageInv'
<1> SUFFICES ASSUME IInv, ImageInv, EditSource PROVE ImageInv'
  OBVIOUS
<1>1. /\ UNCHANGED <<pc, src_size, hashed, result, status, opts>> /\ edits' = edits + 1
      /\ edits \in Nat /\ source \in Images /\ pc # "done"
  BY DEF EditSource, program, Running, IInv, TypeOK, WorldOK
<1>2. edits' <= 1 => edits = 0
  BY <1>1
<1>3. edits = 0 /\ pc \in Steps \ {"open_source", "inspect_target", "hash_source"} =>
         result'.source_sha256 \in Images
  BY <1>1 DEF ImageInv
<1> QED
  BY <1>1, <1>2, <1>3 DEF ImageInv, SuccessIsAnImage, Steps, Succeeded

LEMMA WorldKeepsImageInv ==
  ASSUME ImageInv, SwapDrive \/ Rot \/ Mount \/ Kill \/ UNCHANGED vars
  PROVE  ImageInv'
<1>1. CASE SwapDrive \/ Rot \/ Mount \/ UNCHANGED vars
  <2>1. UNCHANGED <<source, edits, pc, src_size, hashed, result, status, opts>>
    BY <1>1 DEF SwapDrive, Rot, Mount, program, vars, world, counters
  <2> QED
    BY <2>1 DEF ImageInv, SuccessIsAnImage, Succeeded
<1>2. CASE Kill
  BY <1>2, QuietKeepsImageInv DEF Kill, world, counters, Succeeded
<1> QED
  BY <1>1, <1>2

LEMMA NextKeepsImageInv == IInv /\ ImageInv /\ [Next]_vars => ImageInv'
BY PreparationKeepsImageInv, HashSourceKeepsImageInv, ReadSourceKeepsImageInv,
   WriteKeepsImageInv, CheckStreamKeepsImageInv, FlushKeepsImageInv,
   OpenReadbackKeepsImageInv, FullReadbackKeepsImageInv, SampleReadbackKeepsImageInv,
   EditKeepsImageInv, WorldKeepsImageInv
DEF Next, Step, Environment

\* For any set of images and any chunk size, and whatever rots or is swapped: if
\* the image was edited at most once, a reported success has written the
\* beginning of an image the file really held, and all of it after a full
\* verification.
THEOREM SuccessIsNoMixture == Spec => []SuccessIsAnImage
<1>1. Init => ImageInv
  BY DEF Init, ImageInv, SuccessIsAnImage, Succeeded, Steps
<1>2. IInv /\ ImageInv /\ [Next]_vars => ImageInv'
  BY NextKeepsImageInv
<1>3. ImageInv => SuccessIsAnImage
  BY DEF ImageInv
<1> QED
  BY <1>1, <1>2, <1>3, Induction, PTL DEF Spec

-----------------------------------------------------------------------------
(* Runs that start in a world an earlier command has left.                  *)

\* A state in which the writer has not been set in motion is well-typed.
LEMMA IdleIsTyped ==
  ASSUME WorldOK', opts' \in Options, pc' \in {"open_source", "killed"},
         src_size' \in Nat, offset' \in Nat, hashed' \in Seq(Bytes),
         target' = NoFile, buffer' = << >>, attempt' = 0, result' = EmptyResult,
         touched' = {}, written_to' = Missing,
         unflushed' = FALSE, raced' = FALSE, swapped' = FALSE, rotted' = FALSE
  PROVE  TypeOK'
<1>1. target' \in TargetType /\ result' \in ResultType
  BY NoFileIsTyped, EmptyResultIsTyped
<1>2. buffer' \in Seq(Bytes) /\ attempt' \in Nat
  OBVIOUS
<1>3. pc' \in Steps \cup {"done", "killed"}
  BY DEF Steps
<1>4. touched' \subseteq Objects /\ written_to' \in Objects \cup {Missing}
  OBVIOUS
<1>5. /\ unflushed' \in BOOLEAN /\ raced' \in BOOLEAN
      /\ swapped' \in BOOLEAN /\ rotted' \in BOOLEAN
  OBVIOUS
<1> QED
  BY <1>1, <1>2, <1>3, <1>4, <1>5 DEF TypeOK, WorldOK

\* A run that starts in any world starts with its invariants.
LEMMA FreshRunIsGood ==
  ASSUME WorldOK', opts' \in Options, pc' = "open_source",
         src_size' = 0, offset' = 0, hashed' = << >>,
         target' = NoFile, buffer' = << >>, attempt' = 0, result' = EmptyResult,
         touched' = {}, written_to' = Missing,
         unflushed' = FALSE, raced' = FALSE, swapped' = FALSE, rotted' = FALSE
  PROVE  IInv' /\ GrantInv' /\ ReadbackInv' /\ ImageInv'
<1>1. TypeOK'
  <2>1. src_size' \in Nat /\ offset' \in Nat /\ hashed' \in Seq(Bytes)
    OBVIOUS
  <2> QED
    BY <2>1, IdleIsTyped
<1>2. ~target'.live
  BY NoFileIsTyped
<1>3. LoopInv' /\ HandleInv' /\ MediaInv'
  BY <1>2 DEF LoopInv, HandleInv, MediaInv, Succeeded
<1>4. GrantInv'
  BY DEF GrantInv, OnlyConfirmedDrivesTouched
<1>5. ReadbackInv' /\ ImageInv'
  BY DEF ReadbackInv, FullReadbackCatchesRot, ImageInv, SuccessIsAnImage, Succeeded, Steps
<1> QED
  BY <1>1, <1>3, <1>4, <1>5 DEF IInv
=============================================================================

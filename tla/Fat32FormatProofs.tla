-------------------------- MODULE Fat32FormatProofs --------------------------
(* Theorems about Fat32Format: for any drives, options, sizes and bounds.    *)
EXTENDS Fat32Format, Fat32Proofs

-----------------------------------------------------------------------------
(* Sectors.                                                                  *)

\* Every role is written, and nothing else.
LEMMA WrittenIsRoles ==
  /\ Len(Written) = 8
  /\ \A i \in 1..8 : Written[i] \in Roles
  /\ \A r \in Roles : \E i \in 1..8 : Written[i] = r
<1>1. Len(Written) = 8
  BY DEF Written
<1>2. /\ Written[1] = "mbr" /\ Written[2] = "boot" /\ Written[3] = "boot2"
      /\ Written[4] = "fsinfo" /\ Written[5] = "fsinfo2" /\ Written[6] = "fat1"
      /\ Written[7] = "fat2" /\ Written[8] = "root"
  BY DEF Written
<1>3. \A i \in 1..8 : i = 1 \/ i = 2 \/ i = 3 \/ i = 4 \/ i = 5 \/ i = 6 \/ i = 7 \/ i = 8
  OBVIOUS
<1>4. 1 \in 1..8 /\ 2 \in 1..8 /\ 3 \in 1..8 /\ 4 \in 1..8 /\ 5 \in 1..8 /\ 6 \in 1..8
      /\ 7 \in 1..8 /\ 8 \in 1..8
  OBVIOUS
<1> QED
  BY <1>1, <1>2, <1>3, <1>4, Zenon DEF Roles

LEMMA DiskExcept ==
  ASSUME NEW f, IsDisk(f), NEW o \in Objects, NEW g, g = [r \in Roles |-> g[r]]
  PROVE  /\ IsDisk([f EXCEPT ![o] = g])
         /\ [f EXCEPT ![o] = g][o] = g
BY DEF IsDisk

\* What Put does to the open target.
LEMMA PutEffect ==
  ASSUME IsDisk(disk), target.obj \in Objects, NEW rs, NEW c, Put(rs, c)
  PROVE  /\ IsDisk(disk')
         /\ \A r \in Roles :
              disk'[target.obj][r] = IF r \in rs THEN c ELSE disk[target.obj][r]
         /\ touched' = touched \cup {target.obj}
<1> DEFINE g == [r \in Roles |-> IF r \in rs THEN c ELSE disk[target.obj][r]]
<1>1. disk' = [disk EXCEPT ![target.obj] = g] /\ touched' = touched \cup {target.obj}
  BY DEF Put, IsDisk
<1>2. g = [r \in Roles |-> g[r]]
  OBVIOUS
<1>3. IsDisk([disk EXCEPT ![target.obj] = g]) /\ [disk EXCEPT ![target.obj] = g][target.obj] = g
  <2> HIDE DEF g
  <2> QED
    BY <1>2, DiskExcept
<1> QED
  BY <1>1, <1>3

-----------------------------------------------------------------------------
(* The inductive invariant.                                                  *)

LEMMA NoFileIsHandle == NoFile \in TargetType /\ ~NoFile.live
BY DEF NoFile, TargetType

\* What the device layer reports of any path has a size.
LEMMA DescriptorHasSize ==
  ASSUME Shape, NEW o \in Objects \cup {Missing}
  PROVE  Descriptor(o).size \in Nat /\ Descriptor(o).is_device = (o \in Devices)
BY DEF Shape, SizeOf, Descriptor

LEMMA TargetHasSize ==
  ASSUME NEW info, info.size \in Nat, opts \in Options
  PROVE  TargetSize(info) \in Nat
BY FormatAssumption DEF TargetSize

\* A run that ends without success.
LEMMA StopKeepsFormatInv ==
  ASSUME Shape', pc' = "done", status' # "ok", OnlyConfirmedDrivesFormatted'
  PROVE  FormatInv'
BY DEF FormatInv, HandleInv, WrittenInv, SectorsDurable, Succeeded

\* The confirmation of drives depends on what this run may write only.
LEMMA ConfirmedUnlessTouched ==
  ASSUME OnlyConfirmedDrivesFormatted, UNCHANGED <<opts, touched>>, raced => raced'
  PROVE  OnlyConfirmedDrivesFormatted'
BY DEF OnlyConfirmedDrivesFormatted, Granted

\* Writing through a handle that was authorized keeps to confirmed drives.
LEMMA ConfirmedWhenPut ==
  ASSUME OnlyConfirmedDrivesFormatted, UNCHANGED <<opts, raced>>,
         touched' = touched \cup {target.obj},
         raced \/ (target.obj \in Devices => Granted(target.obj))
  PROVE  OnlyConfirmedDrivesFormatted'
BY DEF OnlyConfirmedDrivesFormatted, Granted

LEMMA InitEstablishesFormatInv == Init => FormatInv
<1> SUFFICES ASSUME Init PROVE FormatInv
  OBVIOUS
<1>1. Shape
  <2>1. bound \in Objects \cup {Missing} /\ opts \in Options
    BY DEF Init, Objects
  <2>2. size \in [Objects -> Nat]
    BY FormatAssumption DEF Init, Objects
  <2>3. IsDisk(disk) /\ IsDisk(durable)
    <3>1. PICK c \in {Foreign, EarlierVolume} : disk = [o \in Objects |-> [r \in Roles |-> c]]
      BY DEF Init
    <3> QED
      BY <3>1 DEF Init, IsDisk
  <2>4. planned.size \in Nat
    BY DEF Init, Descriptor, SizeOf
  <2> QED
    BY <2>1, <2>2, <2>3, <2>4, NoFileIsHandle DEF Init, Shape
<1> QED
  BY <1>1 DEF Init, FormatInv, HandleInv, WrittenInv, OnlyConfirmedDrivesFormatted,
              SectorsDurable, Succeeded

LEMMA InspectKeeps ==
  ASSUME FormatInv, Inspect
  PROVE  FormatInv'
<1> USE DEF world, call, answers, observers
<1>1. OnlyConfirmedDrivesFormatted'
  BY ConfirmedUnlessTouched DEF FormatInv, Inspect
<1>2. CASE Out("open") /\ UNCHANGED <<layout, planned>>
  <2>1. Shape'
    BY <1>2, NoFileIsHandle DEF FormatInv, Shape, Inspect, Out, IsDisk
  <2> QED
    BY <1>1, <1>2, <2>1, StopKeepsFormatInv DEF Out
<1>3. CASE /\ planned' = Descriptor(bound)
           /\ Out("size") \/ (pc' = "layout" /\ UNCHANGED <<status, target>>)
  <2>1. planned'.size \in Nat
    BY <1>3, DescriptorHasSize DEF FormatInv, Shape
  <2>2. target' \in TargetType
    BY <1>3, NoFileIsHandle DEF FormatInv, Shape, Out
  <2>3. Shape'
    BY <2>1, <2>2 DEF FormatInv, Shape, Inspect, IsDisk
  <2>4. CASE Out("size")
    BY <1>1, <2>3, <2>4, StopKeepsFormatInv DEF Out
  <2>5. CASE pc' = "layout"
    BY <1>1, <2>3, <2>5 DEF FormatInv, HandleInv, WrittenInv, SectorsDurable, Succeeded
  <2> QED
    BY <1>3, <2>4, <2>5
<1> QED
  BY <1>2, <1>3 DEF Inspect

LEMMA ComputeLayoutKeeps ==
  ASSUME FormatInv, ComputeLayout
  PROVE  FormatInv'
<1> USE DEF world, call, answers, observers
<1>1. OnlyConfirmedDrivesFormatted'
  BY ConfirmedUnlessTouched DEF FormatInv, ComputeLayout
<1>2. Out("size") \/ (pc' \in {"layout", "reinspect"} /\ target' = target)
  BY DEF ComputeLayout
<1>3. Shape'
  <2>1. target' \in TargetType
    BY <1>2, NoFileIsHandle DEF FormatInv, Shape, Out
  <2> QED
    BY <2>1 DEF FormatInv, Shape, ComputeLayout, IsDisk
<1>4. CASE Out("size")
  BY <1>1, <1>3, <1>4, StopKeepsFormatInv DEF Out
<1>5. CASE pc' \in {"layout", "reinspect"}
  BY <1>1, <1>3, <1>5 DEF FormatInv, HandleInv, WrittenInv, SectorsDurable, Succeeded
<1> QED
  BY <1>2, <1>4, <1>5

\* What is authorized is what the operator granted.
LEMMA AuthorizedIsGranted ==
  ASSUME bound \in Devices, Authorized(Descriptor(bound))
  PROVE  Granted(bound)
BY DEF Authorized, Descriptor, Granted, Token

LEMMA ReinspectKeeps ==
  ASSUME FormatInv, Reinspect
  PROVE  FormatInv'
<1> USE DEF world, call, answers, observers
<1>1. OnlyConfirmedDrivesFormatted'
  BY ConfirmedUnlessTouched DEF FormatInv, Reinspect
<1>2. \/ Out("open") \/ Out("identity_changed") \/ Out("refused")
      \/ /\ Authorized(Descriptor(bound)) /\ pc' = "open_target"
         /\ target' = [obj |-> Missing, is_device |-> Descriptor(bound).is_device,
                       size |-> Descriptor(bound).size, live |-> FALSE]
  BY DEF Reinspect
<1>3. target' \in TargetType
  <2>1. Descriptor(bound).is_device \in BOOLEAN /\ Descriptor(bound).size \in Nat
    <3>1. bound \in Objects \cup {Missing} /\ Shape
      BY DEF FormatInv, Shape
    <3>2. (bound \in Devices) \in BOOLEAN
      OBVIOUS
    <3> QED
      BY <3>1, <3>2, DescriptorHasSize, Zenon
  <2>2. [obj |-> Missing, is_device |-> Descriptor(bound).is_device,
         size |-> Descriptor(bound).size, live |-> FALSE] \in TargetType
    BY <2>1 DEF TargetType
  <2> QED
    BY <1>2, <2>2, NoFileIsHandle DEF Out
<1>4. Shape'
  BY <1>3 DEF FormatInv, Shape, Reinspect, IsDisk
<1>5. CASE Out("open") \/ Out("identity_changed") \/ Out("refused")
  BY <1>1, <1>4, <1>5, StopKeepsFormatInv DEF Out
<1>6. CASE Authorized(Descriptor(bound)) /\ pc' = "open_target"
  <2>1. bound' \in Devices => Granted(bound)'
    BY <1>6, AuthorizedIsGranted DEF Reinspect, Granted
  <2> QED
    BY <1>1, <1>4, <1>6, <2>1 DEF FormatInv, HandleInv, WrittenInv, SectorsDurable, Succeeded
<1> QED
  BY <1>2, <1>5, <1>6

LEMMA OpenTargetKeeps ==
  ASSUME FormatInv, OpenTarget
  PROVE  FormatInv'
<1> USE DEF call, answers, observers
<1>1. OnlyConfirmedDrivesFormatted'
  BY ConfirmedUnlessTouched DEF FormatInv, OpenTarget
<1>2. CASE Out("open") /\ UNCHANGED <<bound, size, disk>>
  <2>1. Shape'
    BY <1>2, NoFileIsHandle DEF FormatInv, Shape, OpenTarget, Out, IsDisk
  <2> QED
    BY <1>1, <1>2, <2>1, StopKeepsFormatInv DEF Out
<1>3. CASE /\ IF bound # Missing THEN UNCHANGED <<bound, size, disk>>
              ELSE /\ bound' = RegularFile
                   /\ size' = [size EXCEPT ![RegularFile] = 0]
                   /\ disk' = [disk EXCEPT ![RegularFile] = [r \in Roles |-> ZeroSector]]
           /\ target' = [target EXCEPT !.obj = bound', !.live = TRUE]
           /\ pc' = "resize"
  <2>1. RegularFile \in Objects /\ RegularFile \notin Devices
    BY FormatAssumption DEF Objects
  <2>2. bound' \in Objects
    BY <1>3, <2>1 DEF FormatInv, Shape
  <2>3. size' \in [Objects -> Nat]
    BY <1>3, <2>1 DEF FormatInv, Shape
  <2>4. IsDisk(disk)'
    <3>1. CASE disk' = disk
      BY <3>1 DEF FormatInv, Shape, IsDisk
    <3>2. CASE disk' = [disk EXCEPT ![RegularFile] = [r \in Roles |-> ZeroSector]]
      BY <2>1, <3>2, DiskExcept DEF FormatInv, Shape, IsDisk
    <3> QED
      BY <1>3, <3>1, <3>2
  <2>5. target' \in TargetType /\ target'.obj = bound'
    BY <1>3, <2>2 DEF FormatInv, Shape, TargetType
  <2>6. Shape'
    BY <2>2, <2>3, <2>4, <2>5 DEF FormatInv, Shape, OpenTarget, IsDisk
  <2>7. raced' \/ (bound' \in Devices => Granted(bound'))
    BY <1>3, <2>1 DEF FormatInv, HandleInv, OpenTarget
  <2>8. HandleInv'
    BY <1>3, <2>2, <2>5, <2>7 DEF HandleInv, Granted, OpenTarget
  <2> QED
    BY <1>1, <1>3, <2>6, <2>8 DEF FormatInv, WrittenInv, SectorsDurable, Succeeded
<1> QED
  BY <1>2, <1>3 DEF OpenTarget

LEMMA ResizeKeeps ==
  ASSUME FormatInv, Resize
  PROVE  FormatInv'
<1> USE DEF call, answers
<1>1. TargetSize(planned) \in Nat /\ RegularFile \in Objects /\ RegularFile \notin Devices
  BY TargetHasSize, FormatAssumption DEF FormatInv, Shape, Objects
<1>2. touched' = touched \/ touched' = touched \cup {RegularFile}
  BY DEF Resize
<1>3. OnlyConfirmedDrivesFormatted'
  BY <1>1, <1>2 DEF FormatInv, OnlyConfirmedDrivesFormatted, Granted, Resize
<1>4. size' \in [Objects -> Nat]
  BY <1>1 DEF FormatInv, Shape, Resize
<1>5. CASE Out("io")
  <2>1. Shape'
    BY <1>4, <1>5, NoFileIsHandle DEF FormatInv, Shape, Resize, Out, IsDisk
  <2> QED
    BY <1>3, <1>5, <2>1, StopKeepsFormatInv DEF Out
<1>6. CASE /\ pc' = "zero"
           /\ target' = target \/ target' = [target EXCEPT !.size = TargetSize(planned)]
  <2>1. target' \in TargetType /\ target'.obj = target.obj
    <3>1. target \in TargetType
      BY DEF FormatInv, Shape
    <3> QED
      BY <1>1, <1>6, <3>1 DEF TargetType
  <2>2. Shape'
    BY <1>4, <2>1 DEF FormatInv, Shape, Resize, IsDisk
  <2>3. HandleInv'
    BY <1>6, <2>1 DEF FormatInv, HandleInv, Resize, Granted
  <2> QED
    BY <1>3, <1>6, <2>2, <2>3 DEF FormatInv, WrittenInv, SectorsDurable, Succeeded
<1> QED
  BY <1>5, <1>6 DEF Resize

\* What a write through the handle leaves of the invariant.
LEMMA PutKeeps ==
  ASSUME FormatInv, pc \in {"zero", "write"}, NEW rs, NEW c, Put(rs, c),
         UNCHANGED <<bound, size, durable, opts, planned, raced>>, target' \in TargetType
  PROVE  Shape' /\ OnlyConfirmedDrivesFormatted'
<1>1. target.obj \in Objects /\ (raced \/ (target.obj \in Devices => Granted(target.obj)))
  BY DEF FormatInv, HandleInv
<1>2. IsDisk(disk)' /\ touched' = touched \cup {target.obj}
  BY <1>1, PutEffect DEF FormatInv, Shape, IsDisk
<1>3. Shape'
  BY <1>2 DEF FormatInv, Shape, IsDisk
<1>4. OnlyConfirmedDrivesFormatted'
  BY <1>1, <1>2, ConfirmedWhenPut DEF FormatInv
<1> QED
  BY <1>3, <1>4

\* The same when the disk did not change.
LEMMA FailureKeeps ==
  ASSUME FormatInv, Out("io"),
         UNCHANGED <<bound, size, disk, durable, opts, planned, touched, raced>>
  PROVE  FormatInv'
<1>1. Shape'
  BY NoFileIsHandle DEF FormatInv, Shape, Out, IsDisk
<1>2. OnlyConfirmedDrivesFormatted'
  BY ConfirmedUnlessTouched DEF FormatInv
<1> QED
  BY <1>1, <1>2, StopKeepsFormatInv DEF Out

LEMMA ZeroRegionKeeps ==
  ASSUME FormatInv, ZeroRegion
  PROVE  FormatInv'
<1> USE DEF call
<1>1. \/ Out("io") /\ UNCHANGED <<disk, touched>>
      \/ \E rs : Put(rs, ZeroSector) /\ Out("io")
      \/ \E rs : /\ Put(rs, ZeroSector) /\ UNCHANGED <<status, target>>
                 /\ pc' = "zero" \/ (pc' = "write" /\ position' = 0)
  <2> DEFINE end    == IF position + Chunk <= ZeroEnd THEN position + Chunk ELSE ZeroEnd
             region == {r \in Roles : position <= Place(r) /\ Place(r) < end}
  <2>1. \/ /\ target.live /\ Within(end - 1)
           /\ Put(region, ZeroSector)
           /\ IF end = ZeroEnd THEN pc' = "write" /\ position' = 0
              ELSE position' = end /\ UNCHANGED pc
           /\ UNCHANGED <<status, target>>
        \/ Out("io") /\ UNCHANGED <<disk, touched, position>>
        \/ /\ target.live
           /\ \E k \in region :
                Within(Place(k)) /\ Put({r \in region : Place(r) <= Place(k)}, ZeroSector)
           /\ Out("io") /\ UNCHANGED position
    BY Zenon DEF ZeroRegion
  <2>2. pc = "zero"
    BY DEF ZeroRegion
  <2> HIDE DEF end, region
  <2> QED
    BY <2>1, <2>2, Zenon
<1>2. pc = "zero" /\ UNCHANGED <<bound, size, durable, opts, planned, raced, command>>
  BY DEF ZeroRegion
<1>3. CASE Out("io") /\ UNCHANGED <<disk, touched>>
  BY <1>2, <1>3, FailureKeeps
<1>4. ASSUME NEW rs, Put(rs, ZeroSector), Out("io")
      PROVE  FormatInv'
  <2>1. target' \in TargetType
    BY <1>4, NoFileIsHandle DEF Out
  <2> QED
    BY <1>2, <1>4, <2>1, PutKeeps, StopKeepsFormatInv DEF Out
<1>5. ASSUME NEW rs, Put(rs, ZeroSector), UNCHANGED <<status, target>>,
             pc' = "zero" \/ (pc' = "write" /\ position' = 0)
      PROVE  FormatInv'
  <2>1. target.obj \in Objects /\ (raced \/ (target.obj \in Devices => Granted(target.obj)))
    BY <1>2 DEF FormatInv, HandleInv
  <2>2. Shape' /\ OnlyConfirmedDrivesFormatted'
    BY <1>2, <1>5, PutKeeps DEF FormatInv, Shape
  <2>3. HandleInv'
    BY <1>2, <1>5, <2>1 DEF HandleInv, Granted
  <2>4. target'.obj \in touched'
    BY <1>5 DEF Put
  <2>5. WrittenInv'
    BY <1>5, <2>4, WrittenIsRoles DEF WrittenInv
  <2> QED
    BY <1>5, <2>2, <2>3, <2>5 DEF FormatInv, SectorsDurable, Succeeded
<1> QED
  BY <1>1, <1>3, <1>4, <1>5

LEMMA WriteSectorKeeps ==
  ASSUME FormatInv, WriteSector
  PROVE  FormatInv'
<1> USE DEF call
<1> DEFINE role == {Written[position + 1]}
<1>1. /\ pc = "write" /\ position < Len(Written)
      /\ UNCHANGED <<layout, runs, bound, size, durable, opts, planned, raced, command>>
  BY DEF WriteSector
<1>2. Volume' = Volume
  BY <1>1 DEF Volume, layout
<1>3. CASE Out("io") /\ UNCHANGED <<disk, touched>>
  BY <1>1, <1>3, FailureKeeps
<1>4. CASE Put(role, Volume) /\ Out("io")
  <2>1. target' \in TargetType
    BY <1>4, NoFileIsHandle DEF Out
  <2> QED
    BY <1>1, <1>4, <2>1, PutKeeps, StopKeepsFormatInv DEF Out
<1>5. CASE target.live /\ Put(role, Volume) /\ position' = position + 1
           /\ UNCHANGED <<pc, status, target>>
  <2>1. target.obj \in Objects /\ (raced \/ (target.obj \in Devices => Granted(target.obj)))
    BY <1>1 DEF FormatInv, HandleInv
  <2>2. Shape' /\ OnlyConfirmedDrivesFormatted'
    BY <1>1, <1>5, PutKeeps DEF FormatInv, Shape
  <2>3. HandleInv'
    BY <1>1, <1>5, <2>1 DEF HandleInv, Granted
  <2>4. /\ position \in Nat /\ position + 1 \in 1..8 /\ position' \in 0..Len(Written)
        /\ \A i \in 1..position : disk[target.obj][Written[i]] = Volume
    BY <1>1, <1>5, WrittenIsRoles DEF FormatInv, WrittenInv
  <2>5. target.obj \in touched'
    BY <1>5 DEF Put
  <2>6. ASSUME NEW i \in 1..position'
        PROVE  disk'[target.obj][Written[i]] = Volume
    <3>1. i \in 1..8 /\ (i = position + 1 \/ i \in 1..position)
      BY <1>5, <2>4
    <3>2. disk'[target.obj][Written[i]] =
            IF Written[i] \in role THEN Volume ELSE disk[target.obj][Written[i]]
      BY <1>5, <2>1, <3>1, PutEffect, WrittenIsRoles DEF FormatInv, Shape
    <3> QED
      BY <2>4, <3>1, <3>2
  <2>7. WrittenInv'
    BY <1>1, <1>2, <1>5, <2>4, <2>5, <2>6 DEF WrittenInv
  <2> QED
    BY <1>1, <1>5, <2>2, <2>3, <2>7 DEF FormatInv, SectorsDurable, Succeeded
<1> QED
  BY <1>3, <1>4, <1>5 DEF WriteSector

\* The flush makes durable what the handle wrote, which is every sector.
LEMMA FlushKeeps ==
  ASSUME FormatInv, Flush
  PROVE  FormatInv'
<1> USE DEF call, observers
<1>1. /\ pc = "write" /\ position = 8
      /\ UNCHANGED <<layout, runs, bound, size, disk, opts, planned, raced, command, touched>>
  BY WrittenIsRoles DEF Flush
<1>2. Volume' = Volume
  BY <1>1 DEF Volume, layout
<1>3. OnlyConfirmedDrivesFormatted'
  BY <1>1, ConfirmedUnlessTouched DEF FormatInv
<1>4. CASE Out("io") /\ UNCHANGED durable
  BY <1>1, <1>4, FailureKeeps
<1>5. CASE /\ target.live /\ Out("ok")
           /\ durable' = [durable EXCEPT ![target.obj] = disk[target.obj]]
  <2>1. target.obj \in Objects /\ target.obj \in touched
    BY <1>1 DEF FormatInv, HandleInv, WrittenInv
  <2>2. disk[target.obj] = [r \in Roles |-> disk[target.obj][r]]
    BY <2>1 DEF FormatInv, Shape, IsDisk
  <2>3. IsDisk(durable)' /\ durable'[target.obj] = disk[target.obj]
    <3>1. IsDisk(durable)
      BY DEF FormatInv, Shape
    <3>2. IsDisk([durable EXCEPT ![target.obj] = disk[target.obj]])
          /\ [durable EXCEPT ![target.obj] = disk[target.obj]][target.obj] = disk[target.obj]
      BY <2>1, <2>2, <3>1, DiskExcept
    <3> QED
      BY <1>5, <3>2 DEF IsDisk
  <2>4. Shape'
    BY <1>1, <1>5, <2>3, NoFileIsHandle DEF FormatInv, Shape, Out, IsDisk
  <2>5. \A r \in Roles : disk[target.obj][r] = Volume
    BY <1>1, <1>5, WrittenIsRoles DEF FormatInv, WrittenInv
  <2>6. SectorsDurable'
    BY <1>1, <1>2, <2>1, <2>3, <2>5 DEF SectorsDurable
  <2> QED
    BY <1>3, <1>5, <2>4, <2>6 DEF FormatInv, HandleInv, WrittenInv, Out
<1> QED
  BY <1>4, <1>5 DEF Flush, FlushResult

LEMMA VerifyMbrKeeps ==
  ASSUME FormatInv, VerifyMbr
  PROVE  FormatInv'
<1> USE DEF world, call
<1>1. OnlyConfirmedDrivesFormatted'
  BY ConfirmedUnlessTouched DEF FormatInv, VerifyMbr
<1>2. pc = "verify" /\ command = "verify" /\ command' = "verify"
  BY DEF FormatInv, WrittenInv, VerifyMbr
<1>3. \/ pc' = "done" /\ target' = NoFile
      \/ /\ pc' = "verify_boot"
         /\ target' = [obj |-> bound, is_device |-> bound \in Devices,
                       size |-> SizeOf(bound), live |-> TRUE]
  BY DEF VerifyMbr, Out
<1>4. target' \in TargetType
  <2>1. SizeOf(bound) \in Nat /\ bound \in Objects \cup {Missing}
    BY DEF FormatInv, Shape, SizeOf
  <2>2. [obj |-> bound, is_device |-> bound \in Devices, size |-> SizeOf(bound),
         live |-> TRUE] \in TargetType
    <3>1. (bound \in Devices) \in BOOLEAN
      OBVIOUS
    <3> QED
      BY <2>1, <3>1 DEF TargetType
  <2> QED
    BY <1>3, <2>2, NoFileIsHandle
<1>5. Shape'
  BY <1>4 DEF FormatInv, Shape, VerifyMbr, IsDisk
<1> QED
  BY <1>1, <1>2, <1>3, <1>5 DEF FormatInv, HandleInv, WrittenInv, SectorsDurable, Succeeded

LEMMA VerifyBootKeeps ==
  ASSUME FormatInv, VerifyBoot
  PROVE  FormatInv'
<1> USE DEF world, call, observers
<1>1. OnlyConfirmedDrivesFormatted'
  BY ConfirmedUnlessTouched DEF FormatInv, VerifyBoot
<1>2. command' = "verify" /\ pc' = "done" /\ target' = NoFile
  BY DEF FormatInv, WrittenInv, VerifyBoot, Out
<1>3. Shape'
  BY <1>2, NoFileIsHandle DEF FormatInv, Shape, VerifyBoot, IsDisk
<1> QED
  BY <1>1, <1>2, <1>3 DEF FormatInv, HandleInv, WrittenInv, SectorsDurable, Succeeded

\* A drive that is pulled takes what was written with it, but the handle with
\* that.
LEMMA SwapDriveKeeps ==
  ASSUME FormatInv, SwapDrive
  PROVE  FormatInv'
<1> USE DEF idle, call
<1>1. pc # "done" /\ UNCHANGED <<pc, opts, size, planned, position, touched, command>>
  BY DEF SwapDrive, Exposed, Running
<1>2. (raced => raced') /\ (pc = "open_target" => raced')
  BY DEF SwapDrive
<1>3. OnlyConfirmedDrivesFormatted'
  BY <1>1, <1>2, ConfirmedUnlessTouched DEF FormatInv
<1>4. bound' \in Objects \cup {Missing}
  BY DEF SwapDrive, Objects
<1>5. target' \in TargetType /\ target'.obj = target.obj /\ ~target'.live
  BY DEF FormatInv, Shape, TargetType, SwapDrive
<1>6. IsDisk(disk)' /\ IsDisk(durable)'
  <2>1. CASE bound = Missing
    BY <2>1 DEF FormatInv, Shape, IsDisk, SwapDrive
  <2>2. CASE bound # Missing
    <3>1. bound \in Objects
      BY <2>2 DEF FormatInv, Shape
    <3>2. PICK lost \in Losses :
            /\ disk' = [disk EXCEPT ![bound] =
                          [r \in Roles |-> IF r \in lost THEN durable[bound][r] ELSE @[r]]]
            /\ durable' = [durable EXCEPT ![bound] = disk'[bound]]
      BY <2>2 DEF SwapDrive
    <3> DEFINE g == [r \in Roles |-> IF r \in lost THEN durable[bound][r] ELSE disk[bound][r]]
    <3>3. disk' = [disk EXCEPT ![bound] = g] /\ g = [r \in Roles |-> g[r]]
      BY <3>1, <3>2 DEF FormatInv, Shape, IsDisk
    <3>4. IsDisk(disk) /\ IsDisk(durable)
      BY DEF FormatInv, Shape
    <3> HIDE DEF g
    <3>5. IsDisk([disk EXCEPT ![bound] = g]) /\ [disk EXCEPT ![bound] = g][bound] = g
      BY <3>1, <3>3, <3>4, DiskExcept
    <3>6. IsDisk([durable EXCEPT ![bound] = g])
      BY <3>1, <3>3, <3>4, DiskExcept
    <3>7. disk'[bound] = g /\ durable' = [durable EXCEPT ![bound] = g]
      BY <3>2, <3>3, <3>5
    <3>8. IsDisk(disk')
      BY <3>3, <3>5
    <3>9. IsDisk(durable')
      BY <3>6, <3>7
    <3> QED
      BY <3>8, <3>9 DEF IsDisk
  <2> QED
    BY <2>1, <2>2
<1>7. Shape'
  BY <1>1, <1>4, <1>5, <1>6 DEF FormatInv, Shape
<1>8. HandleInv'
  BY <1>1, <1>2, <1>5 DEF FormatInv, HandleInv, Granted
<1>9. WrittenInv'
  BY <1>1, <1>5 DEF FormatInv, WrittenInv
<1> QED
  BY <1>1, <1>3, <1>7, <1>8, <1>9 DEF FormatInv, SectorsDurable, Succeeded

\* Mounting a volume, and steps that change nothing.
LEMMA MountKeeps ==
  ASSUME FormatInv,
         UNCHANGED <<idle, bound, size, disk, durable, runs, pc, target, status, touched, raced>>
  PROVE  FormatInv'
<1> USE DEF idle, call
<1>1. Volume' = Volume
  BY DEF Volume, layout
<1>2. OnlyConfirmedDrivesFormatted'
  BY ConfirmedUnlessTouched DEF FormatInv
<1>3. Shape' /\ HandleInv'
  BY DEF FormatInv, Shape, IsDisk, HandleInv, Granted
<1>4. WrittenInv' /\ SectorsDurable'
  BY <1>1 DEF FormatInv, WrittenInv, SectorsDurable, Succeeded
<1> QED
  BY <1>2, <1>3, <1>4 DEF FormatInv

LEMMA KillKeeps ==
  ASSUME FormatInv, Kill
  PROVE  FormatInv'
<1> USE DEF idle, call, world, observers
<1>1. OnlyConfirmedDrivesFormatted'
  BY ConfirmedUnlessTouched DEF FormatInv, Kill
<1>2. Shape'
  BY NoFileIsHandle DEF FormatInv, Shape, Kill, IsDisk
<1> QED
  BY <1>1, <1>2 DEF FormatInv, HandleInv, WrittenInv, SectorsDurable, Succeeded, Kill

LEMMA RunKeeps ==
  ASSUME FormatInv, Run
  PROVE  FormatInv'
<1>1. opts' \in Options /\ planned'.size \in Nat
  BY DescriptorHasSize DEF FormatInv, Shape, Run
<1>2. Shape'
  BY <1>1, NoFileIsHandle DEF FormatInv, Shape, Run, IsDisk
<1>3. OnlyConfirmedDrivesFormatted'
  BY DEF OnlyConfirmedDrivesFormatted, Run
<1> QED
  BY <1>2, <1>3 DEF FormatInv, HandleInv, WrittenInv, SectorsDurable, Succeeded, Run

\* Whatever the drives, the options and the interference: what the formatter is
\* about to write goes to a confirmed drive, and what it has written is there.
THEOREM FormatIsCorrect == Spec => []FormatInv
<1>1. FormatInv /\ Next => FormatInv'
  <2> SUFFICES ASSUME FormatInv, Next PROVE FormatInv'
    OBVIOUS
  <2>1. CASE Step
    BY <2>1, InspectKeeps, ComputeLayoutKeeps, ReinspectKeeps, OpenTargetKeeps, ResizeKeeps,
       ZeroRegionKeeps, WriteSectorKeeps, FlushKeeps, VerifyMbrKeeps, VerifyBootKeeps DEF Step
  <2>2. CASE Mount
    BY <2>2, MountKeeps DEF Mount, observers
  <2>3. CASE SwapDrive \/ Kill \/ Run
    BY <2>3, SwapDriveKeeps, KillKeeps, RunKeeps
  <2> QED
    BY <2>1, <2>2, <2>3 DEF Next, Environment
<1>2. FormatInv /\ UNCHANGED vars => FormatInv'
  BY MountKeeps DEF vars, world, call, idle, answers, observers
<1> QED
  BY <1>1, <1>2, InitEstablishesFormatInv, PTL DEF Spec

\* A drive changes only after the operator granted it, or was swapped in between
\* the re-inspection and the open.
THEOREM FormatTouchesConfirmed == Spec => []OnlyConfirmedDrivesFormatted
<1>1. FormatInv => OnlyConfirmedDrivesFormatted
  BY DEF FormatInv
<1> QED
  BY <1>1, FormatIsCorrect, PTL

-----------------------------------------------------------------------------
(* The volume fits the target.                                               *)

\* Drives keep their size.
SameSizes == \A d \in Devices : size'[d] = size[d]

\* A command that ends without success, or is no format, has nothing to fit.
LEMMA StopKeepsFitInv ==
  ASSUME FitInv, SameSizes, pc' \in {"done", "killed", "inspect", "verify", "verify_boot"},
         pc' = "inspect" => touched' = {}, ~Succeeded("format")'
  PROVE  FitInv'
BY DEF FitInv, SameSizes, Planned, VolumeFits

LEMMA PairsEqual ==
  ASSUME NEW p, NEW x, NEW q, NEW y, <<p, x>> = <<q, y>>
  PROVE  p = q /\ x = y
OBVIOUS

\* What an inspection reports of the path.
LEMMA DescriptorDescribes ==
  ASSUME FormatInv, FitInv
  PROVE  Described(Descriptor(bound)) /\ Descriptor(bound).size = SizeOf(bound)
<1>1. bound \in Devices => SizeOf(bound) = Size[bound]
  BY FormatAssumption DEF FitInv, SizeOf, Objects
<1>2. Descriptor(bound).size = SizeOf(bound) /\ Descriptor(bound).token = Token(bound)
      /\ Descriptor(bound).is_device = (bound \in Devices)
  BY DEF Descriptor
<1>3. CASE bound \in Devices
  BY <1>1, <1>2, <1>3 DEF Described, Token
<1>4. CASE bound \notin Devices
  <2>1. Descriptor(bound).token = <<"file", SizeOf(bound)>>
    BY <1>2, <1>4 DEF Token
  <2>3. (bound \in Devices) = FALSE
    BY <1>4
  <2>2. Descriptor(bound).is_device = FALSE
    BY <1>2, <2>3, Zenon
  <2> QED
    BY <1>2, <2>1, <2>2, Zenon DEF Described
<1> QED
  BY <1>2, <1>3, <1>4

\* Tokens tell kinds and sizes apart.
LEMMA SameTokenSameSize ==
  ASSUME NEW a, NEW b, Described(a), Described(b), a.token = b.token
  PROVE  a.is_device = b.is_device /\ a.size = b.size
<1>7. a.is_device \in BOOLEAN /\ b.is_device \in BOOLEAN
  BY DEF Described
<1>1. CASE a.is_device /\ b.is_device
  <2>1. PICK c \in Devices : a.token = <<"device", Ident[c]>> /\ a.size = Size[c]
    BY <1>1 DEF Described
  <2>2. PICK d \in Devices : b.token = <<"device", Ident[d]>> /\ b.size = Size[d]
    BY <1>1 DEF Described
  <2>3. Ident[c] = Ident[d]
    <3>1. <<"device", Ident[c]>> = <<"device", Ident[d]>>
      BY <2>1, <2>2, Zenon
    <3> QED
      BY <3>1, PairsEqual, Zenon
  <2>4. Size[c] = Size[d]
    BY <2>3, SameTokenAssumption
  <2>5. a.is_device = TRUE /\ b.is_device = TRUE
    BY <1>1, <1>7
  <2> QED
    BY <2>1, <2>2, <2>4, <2>5
<1>2. CASE ~a.is_device /\ ~b.is_device
  <2>1. a.token = <<"file", a.size>> /\ b.token = <<"file", b.size>>
    BY <1>2 DEF Described
  <2>3. a.size = b.size
    <3>1. <<"file", a.size>> = <<"file", b.size>>
      BY <2>1, Zenon
    <3> QED
      BY <3>1, PairsEqual, Zenon
  <2>4. a.is_device = FALSE /\ b.is_device = FALSE
    BY <1>2, <1>7
  <2> QED
    BY <2>3, <2>4
<1>3. a.is_device => a.token[1] = "device"
  BY DEF Described
<1>4. b.is_device => b.token[1] = "device"
  BY DEF Described
<1>5. ~a.is_device => a.token[1] = "file"
  BY DEF Described
<1>6. ~b.is_device => b.token[1] = "file"
  BY DEF Described
<1> QED
  BY <1>1, <1>2, <1>3, <1>4, <1>5, <1>6

LEMMA InspectKeepsFitInv ==
  ASSUME FormatInv, FitInv, Inspect
  PROVE  FitInv'
<1>1. UNCHANGED <<size, touched, opts, raced>> /\ pc = "inspect"
  BY DEF Inspect, world, call, observers
<1>2. SameSizes
  BY <1>1 DEF SameSizes
<1>3. CASE Out("open") \/ Out("size")
  BY <1>2, <1>3, StopKeepsFitInv DEF Out, Succeeded
<1>4. CASE /\ planned' = Descriptor(bound) /\ Begin(TargetSize(planned'))
           /\ step' # "refused" /\ pc' = "layout" /\ UNCHANGED <<status, target>>
  <2>1. Described(planned)'
    BY <1>4, DescriptorDescribes DEF Described
  <2>2. TargetSize(planned') \in Nat /\ TargetSize(planned)' = TargetSize(planned')
    BY <1>1, <1>4, DescriptorHasSize, TargetHasSize DEF FormatInv, Shape, TargetSize
  <2>3. total_sectors' = TargetSize(planned') - PartitionStart
    BY <1>4 DEF Begin
  <2>4. (PartitionStart + total_sectors <= TargetSize(planned))'
    BY <2>2, <2>3, LayoutAssumption
  <2>6. total_sectors' \in Nat
    BY <1>4, <2>2, LayoutAssumption DEF Begin
  <2>5. touched' = {}
    BY <1>1 DEF FitInv
  <2> QED
    BY <1>1, <1>4, <2>1, <2>4, <2>5, <2>6 DEF FitInv, VolumeFits, Succeeded
<1> QED
  BY <1>3, <1>4 DEF Inspect

LEMMA ComputeLayoutKeepsFitInv ==
  ASSUME FormatInv, FitInv, ComputeLayout
  PROVE  FitInv'
<1>1. /\ UNCHANGED <<size, touched, opts, planned, bound, raced, total_sectors>>
      /\ pc = "layout"
  BY DEF ComputeLayout, world, call, observers, Iterate, Limits
<1>2. CASE Out("size")
  BY <1>1, <1>2, StopKeepsFitInv DEF Out, Succeeded, SameSizes
<1>3. CASE pc' \in {"reinspect", "layout"}
  BY <1>1, <1>3 DEF FitInv, Planned, Described, TargetSize, VolumeFits, Succeeded
<1> QED
  BY <1>1, <1>2, <1>3 DEF ComputeLayout

LEMMA ReinspectKeepsFitInv ==
  ASSUME FormatInv, FitInv, Reinspect
  PROVE  FitInv'
<1>1. /\ UNCHANGED <<size, touched, opts, planned, bound, raced, total_sectors>>
      /\ pc = "reinspect"
  BY DEF Reinspect, world, call, observers, layout
<1>2. CASE pc' = "done" /\ status' # "ok"
  BY <1>1, <1>2, StopKeepsFitInv DEF Succeeded, SameSizes
<1>3. CASE /\ Descriptor(bound).token = planned.token
           /\ target' = [obj |-> Missing, is_device |-> Descriptor(bound).is_device,
                         size |-> Descriptor(bound).size, live |-> FALSE]
           /\ pc' = "open_target"
  <2>1. Described(planned)
    BY <1>1 DEF FitInv, Planned
  <2>2. planned.is_device = Descriptor(bound).is_device /\ planned.size = Descriptor(bound).size
    BY <1>3, <2>1, DescriptorDescribes, SameTokenSameSize
  <2>3. SizeOf(bound)' = planned.size
    BY <1>1, <2>2, DescriptorDescribes DEF SizeOf
  <2> QED
    BY <1>1, <1>3, <2>2, <2>3 DEF FitInv, Planned, Described, TargetSize, VolumeFits, Succeeded
<1> QED
  BY <1>2, <1>3 DEF Reinspect, Out

LEMMA OpenTargetKeepsFitInv ==
  ASSUME FormatInv, FitInv, OpenTarget
  PROVE  FitInv'
<1>1. /\ UNCHANGED <<touched, opts, planned, raced, total_sectors>>
      /\ pc = "open_target"
  BY DEF OpenTarget, call, observers, layout
<1>2. SameSizes
  BY FormatAssumption DEF OpenTarget, SameSizes, FormatInv, Shape, Objects
<1>3. CASE Out("open")
  BY <1>1, <1>2, <1>3, StopKeepsFitInv DEF Out, Succeeded
<1>4. CASE /\ IF bound # Missing THEN UNCHANGED <<bound, size>>
              ELSE bound' = RegularFile /\ size' = [size EXCEPT ![RegularFile] = 0]
           /\ target' = [target EXCEPT !.obj = bound', !.live = TRUE]
           /\ pc' = "resize"
  <2>1. /\ target'.obj = bound' /\ target'.is_device = target.is_device
        /\ target'.size = target.size
    BY <1>4 DEF FormatInv, Shape, TargetType
  <2>2. size'[bound'] = SizeOf(bound)
    BY <1>4, FormatAssumption DEF FormatInv, Shape, SizeOf, Objects
  <2>3. raced \/ size'[target'.obj] = planned.size
    BY <1>1, <2>1, <2>2 DEF FitInv
  <2> QED
    BY <1>1, <1>2, <1>4, <2>1, <2>3
    DEF FitInv, Planned, Described, TargetSize, VolumeFits, Succeeded, SameSizes
<1> QED
  BY <1>3, <1>4 DEF OpenTarget

LEMMA ResizeKeepsFitInv ==
  ASSUME FormatInv, FitInv, Resize
  PROVE  FitInv'
<1>1. /\ UNCHANGED <<opts, planned, raced, total_sectors>> /\ pc = "resize"
  BY DEF Resize, call, layout
<1>2. SameSizes
  BY FormatAssumption DEF Resize, SameSizes, FormatInv, Shape, Objects
<1>3. CASE Out("io")
  BY <1>1, <1>2, <1>3, StopKeepsFitInv DEF Out, Succeeded
<1>4. ASSUME pc' = "zero", target'.obj = target.obj, touched' \subseteq {target.obj},
             raced \/ TargetSize(planned) <= size'[target.obj]
      PROVE  FitInv'
  BY <1>1, <1>2, <1>4
  DEF FitInv, Planned, Described, TargetSize, VolumeFits, Succeeded, SameSizes
<1>5. /\ TargetSize(planned) \in Nat /\ target.obj \in Objects /\ size \in [Objects -> Nat]
      /\ target \in TargetType
  BY <1>1, TargetHasSize DEF FormatInv, Shape, HandleInv
<1>6. CASE /\ target.is_device \/ target.size = TargetSize(planned)
           /\ pc' = "zero" /\ UNCHANGED <<size, touched, target>>
  <2>1. raced \/ size[target.obj] = planned.size
    BY <1>1 DEF FitInv
  <2>2. target.is_device = planned.is_device /\ target.size = planned.size
    BY <1>1 DEF FitInv
  <2>3. planned.size = TargetSize(planned)
    BY <1>6, <2>2 DEF TargetSize
  <2>4. raced \/ TargetSize(planned) <= size'[target.obj]
    BY <1>5, <1>6, <2>1, <2>3
  <2>5. touched' \subseteq {target.obj}
    BY <1>1, <1>6 DEF FitInv
  <2> QED
    BY <1>4, <1>6, <2>4, <2>5
<1>7. CASE /\ target.obj = RegularFile
           /\ size' = [size EXCEPT ![RegularFile] = TargetSize(planned)]
           /\ touched' = touched \cup {RegularFile}
           /\ target' = [target EXCEPT !.size = TargetSize(planned)]
           /\ pc' = "zero"
  <2>1. target'.obj = target.obj
    BY <1>5, <1>7 DEF TargetType
  <2>2. size'[target.obj] = TargetSize(planned)
    BY <1>5, <1>7
  <2>3. touched' \subseteq {target.obj}
    BY <1>1, <1>7 DEF FitInv
  <2> QED
    BY <1>4, <1>5, <1>7, <2>1, <2>2, <2>3
<1> QED
  BY <1>3, <1>6, <1>7 DEF Resize

LEMMA WritesKeepFitInv ==
  ASSUME FormatInv, FitInv, ZeroRegion \/ WriteSector \/ Flush
  PROVE  FitInv'
<1>1. /\ UNCHANGED <<opts, planned, raced, size, total_sectors>> /\ pc \in {"zero", "write"}
  BY DEF ZeroRegion, WriteSector, Flush, call, layout, observers
<1>2. touched' \subseteq {target.obj}
  BY <1>1 DEF FitInv, ZeroRegion, WriteSector, Flush, Put, observers
<1>3. CASE pc' \in {"zero", "write"} /\ UNCHANGED target
  BY <1>1, <1>2, <1>3 DEF FitInv, Planned, Described, TargetSize, VolumeFits, Succeeded
<1>4. CASE pc' = "done"
  <2>1. raced \/ PartitionStart + total_sectors <= size[target.obj]
    <3>1. PartitionStart + total_sectors <= TargetSize(planned)
      BY <1>1 DEF FitInv, Planned
    <3>2. raced \/ TargetSize(planned) <= size[target.obj]
      BY <1>1 DEF FitInv
    <3>3. /\ TargetSize(planned) \in Nat /\ size[target.obj] \in Nat
          /\ PartitionStart + total_sectors \in Int
      BY <1>1, TargetHasSize, LayoutAssumption DEF FormatInv, Shape, HandleInv, FitInv, Planned
    <3> QED
      BY <3>1, <3>2, <3>3
  <2>2. VolumeFits'
    BY <1>1, <1>2, <2>1 DEF VolumeFits
  <2> QED
    BY <1>1, <1>4, <2>2 DEF FitInv, Planned
<1> QED
  BY <1>3, <1>4 DEF ZeroRegion, WriteSector, Flush, Out

LEMMA WorldKeepsFitInv ==
  ASSUME FormatInv, FitInv, SwapDrive \/ Mount \/ Kill \/ Run \/ UNCHANGED vars
  PROVE  FitInv'
<1>1. CASE Kill \/ Run
  BY <1>1, StopKeepsFitInv DEF Kill, Run, world, observers, Succeeded, SameSizes
<1>2. CASE SwapDrive \/ Mount \/ UNCHANGED vars
  <2>1. /\ UNCHANGED <<pc, opts, planned, size, touched, total_sectors, status, command>>
        /\ target'.obj = target.obj /\ target'.is_device = target.is_device
        /\ target'.size = target.size
    BY <1>2 DEF SwapDrive, Mount, idle, layout, call, observers, vars, world, FormatInv, Shape,
                TargetType
  <2>2. raced => raced'
    BY <1>2 DEF SwapDrive, Mount, observers, vars
  <2>3. pc = "open_target" => raced' \/ UNCHANGED bound
    BY <1>2 DEF SwapDrive, Mount, vars, world
  <2> QED
    BY <2>1, <2>2, <2>3
    DEF FitInv, Planned, Described, TargetSize, VolumeFits, Succeeded, SizeOf
<1> QED
  BY <1>1, <1>2

LEMMA NextKeepsFitInv == FormatInv /\ FitInv /\ [Next]_vars => FitInv'
<1>1. ASSUME FormatInv, FitInv, VerifyMbr \/ VerifyBoot PROVE FitInv'
  <2>1. /\ UNCHANGED <<size, command>>
        /\ pc \in {"verify", "verify_boot"} /\ pc' \in {"verify_boot", "done"}
    BY <1>1 DEF VerifyMbr, VerifyBoot, world, call, Out
  <2>2. command = "verify"
    BY <1>1, <2>1 DEF FormatInv, WrittenInv
  <2> QED
    BY <1>1, <2>1, <2>2, StopKeepsFitInv DEF Succeeded, SameSizes
<1> QED
  BY <1>1, InspectKeepsFitInv, ComputeLayoutKeepsFitInv, ReinspectKeepsFitInv,
     OpenTargetKeepsFitInv, ResizeKeepsFitInv, WritesKeepFitInv, WorldKeepsFitInv
  DEF Next, Step, Environment

\* A format that reports success has every sector of its volume, backups included,
\* on the medium, for a target of any size; and the volume ends within the target,
\* however the drives at the path changed, unless they did between the re-inspection
\* and the open.
THEOREM FormatIsDurable == Spec => []SuccessIsDurable
<1>1. Init => FitInv
  BY FormatAssumption DEF Init, FitInv, VolumeFits, Succeeded, Planned, Objects
<1>2. FormatInv /\ FitInv => SuccessIsDurable
  BY DEF FormatInv, FitInv, SuccessIsDurable
<1> QED
  BY <1>1, <1>2, NextKeepsFitInv, FormatIsCorrect, PTL DEF Spec

-----------------------------------------------------------------------------
(* The formatter computes its layouts as Fat32Layout says.                   *)

LEMMA LayoutStep ==
  ASSUME FormatInv, Next
  PROVE  [NextLayout]_layout
<1>1. CASE Inspect
  <2>1. CASE Out("open") /\ UNCHANGED <<layout, planned>>
    BY <2>1
  <2>2. CASE planned' = Descriptor(bound) /\ Begin(TargetSize(planned'))
    <3>1. TargetSize(planned') \in Nat
      BY <2>2, DescriptorHasSize, TargetHasSize DEF FormatInv, Shape
    <3> QED
      BY <2>2, <3>1 DEF NextLayout
  <2> QED
    BY <1>1, <2>1, <2>2 DEF Inspect
<1>2. CASE ComputeLayout
  BY <1>2 DEF ComputeLayout, NextLayout
<1>3. CASE Reinspect \/ OpenTarget \/ Resize \/ ZeroRegion \/ WriteSector \/ Flush
  BY <1>3 DEF Reinspect, OpenTarget, Resize, ZeroRegion, WriteSector, Flush
<1>4. CASE VerifyMbr \/ VerifyBoot
  BY <1>4 DEF VerifyMbr, VerifyBoot
<1>5. CASE Environment
  BY <1>5 DEF Environment, SwapDrive, Mount, Kill, Run, idle
<1> QED
  BY <1>1, <1>2, <1>3, <1>4, <1>5 DEF Next, Step

THEOREM FormatComputesLayouts == Spec => SpecLayout
<1>1. Init => InitLayout
  BY DEF Init
<1>2. FormatInv /\ [Next]_vars => [NextLayout]_layout
  BY LayoutStep DEF vars
<1> QED
  BY <1>1, <1>2, FormatIsCorrect, PTL DEF Spec, SpecLayout

\* So what is written as a layout fits its partition, for a target of any size.
THEOREM FormattedRegionsFit == Spec => []RegionsFit
  BY FormatComputesLayouts, LayoutFits, PTL

-----------------------------------------------------------------------------
(* What is laid out can be read.                                             *)

\* The clusters of a volume stay below the reader's limit, at every size.
LEMMA ClustersBelowLimit ==
  ASSUME NEW n \in Nat, n <= MaxSectors, NEW f \in Nat, NEW spc,
         spc = ChooseSectorsPerCluster(n), n > ReservedSectors + 2 * f
  PROVE  ClustersBeside(n, f, spc) < MaxClusters
<1>1. MaxClusters \in Nat /\ MaxSectors \in Nat
      /\ MaxClusters > 2097152 /\ MaxSectors \div 64 < MaxClusters
  BY LayoutAssumption, LimitAssumption
<1>2. n - ReservedSectors - 2 * f \in 0..n
  BY SMT DEF ReservedSectors
<1> DEFINE m == n - ReservedSectors - 2 * f
<1>3. m \in Nat /\ m <= n
  BY <1>2
<1> HIDE DEF m
<1>4. CASE n <= 532480
  <2>1. m \div 1 < MaxClusters
    BY <1>1, <1>3, <1>4, SMT
  <2> QED
    BY <1>4, <2>1 DEF ClustersBeside, ChooseSectorsPerCluster, m
<1>5. CASE n > 532480 /\ n <= 16777216
  <2>1. m \div 8 < MaxClusters
    BY <1>1, <1>3, <1>5, SMT
  <2> QED
    BY <1>5, <2>1 DEF ClustersBeside, ChooseSectorsPerCluster, m
<1>6. CASE n > 16777216 /\ n <= 33554432
  <2>1. m \div 16 < MaxClusters
    BY <1>1, <1>3, <1>6, SMT
  <2> QED
    BY <1>6, <2>1 DEF ClustersBeside, ChooseSectorsPerCluster, m
<1>7. CASE n > 33554432 /\ n <= 67108864
  <2>1. m \div 32 < MaxClusters
    BY <1>1, <1>3, <1>7, SMT
  <2> QED
    BY <1>7, <2>1 DEF ClustersBeside, ChooseSectorsPerCluster, m
<1>8. CASE n > 67108864
  <2>1. m \div 64 <= MaxSectors \div 64
    BY <1>1, <1>3, SMT
  <2>2. m \div 64 < MaxClusters
    BY <1>1, <1>3, <2>1, SMT
  <2> QED
    BY <1>8, <2>2 DEF ClustersBeside, ChooseSectorsPerCluster, m
<1> QED
  BY <1>4, <1>5, <1>6, <1>7, <1>8

\* The layout that is returned makes a volume that verification takes.
LEMMA ReturnedIsLaidOut ==
  ASSUME LayoutInv, step = "ready", clusters >= MinClusters,
         sectors_per_cluster = ChooseSectorsPerCluster(total_sectors)
  PROVE  LaidOut(Volume)
<1> DEFINE n == total_sectors
           f == sectors_per_fat
           spc == sectors_per_cluster
           c == ClustersBeside(n, f, spc)
<1>1. /\ n \in Nat /\ f \in Nat /\ previous \in Nat /\ clusters \in Nat
      /\ spc \in ClusterSizes /\ n <= MaxSectors
      /\ n > ReservedSectors + 2 * previous
      /\ clusters = ClustersBeside(n, previous, spc) /\ f = FatFor(clusters)
  BY LayoutAssumption DEF LayoutInv, Rounded
<1>2. f <= previous
  BY ReturnedFatFits
<1>3. n > ReservedSectors + 2 * f
  BY <1>1, <1>2 DEF ReservedSectors
<1>4. clusters <= c
  BY <1>1, <1>2, ClustersAntitone
<1>5. c \in Nat
  BY <1>1, <1>3, ClustersFit
<1>6. c < MaxClusters
  BY <1>1, <1>3, ClustersBelowLimit
<1>7. c <= 128 * f
  BY InvImpliesFatShort DEF FatShortByAtMostTwo, VolumeClusters
<1>8. f >= 1 /\ spc # 0
  <2>1. FatFor(clusters) >= 1
    BY <1>1, FatCovers
  <2>2. spc # 0
    BY <1>1 DEF ClusterSizes
  <2> QED
    BY <1>1, <2>1, <2>2
<1>9. c >= MinClusters
  BY <1>1, <1>4, <1>5, LayoutAssumption
<1>10. /\ Volume.sectors = n /\ Volume.spc = spc /\ Volume.fatsz = f
       /\ Volume.clusters = clusters
  BY DEF Volume
<1>11. Sound(Volume, Volume)
  BY <1>1, <1>3, <1>6, <1>8, <1>9, <1>10 DEF Sound, Numbers
<1> QED
  BY <1>4, <1>7, <1>10, <1>11 DEF LaidOut

LEMMA ReadyIsLaidOut ==
  LayoutInv /\ step = "ready" /\ clusters >= MinClusters
  /\ sectors_per_cluster = ChooseSectorsPerCluster(total_sectors) => LaidOut(Volume)
BY ReturnedIsLaidOut

-----------------------------------------------------------------------------
(* What the inductive invariant says of the sectors, at any step.            *)

\* Every sector, on the drive and on the medium, is empty or of a volume that was
\* laid out.
WellFilled ==
  \A o \in Objects : \A r \in Roles :
    /\ disk[o][r] \in Empty \/ LaidOut(disk[o][r])
    /\ durable[o][r] \in Empty \/ LaidOut(durable[o][r])

Unmixed == \A o \in Objects \ torn : OneVolume(disk[o])

LEMMA VolumeInvTells == VolumeInv => WellFilled /\ Unmixed
BY DEF VolumeInv, ContentsInv, OrderInv, WellFilled, Unmixed

LEMMA RolesNamed == "mbr" \in Roles /\ "boot" \in Roles
BY DEF Roles

\* A command that ends in a failure that says nothing of the volume, and every
\* step outside of writing and reading.
LEMMA ElsewhereKeeps ==
  ASSUME WellFilled', Unmixed',
         pc' \notin {"zero", "write", "verify_boot"},
         pc' = "done" => status' \notin {"ok", "format"},
         pc' = "layout" => sectors_per_cluster' = ChooseSectorsPerCluster(total_sectors'),
         pc' \in {"reinspect", "open_target", "resize"} => LaidOut(Volume)'
  PROVE  VolumeInv'
BY DEF VolumeInv, ContentsInv, OrderInv, ReadInv, AcceptedIsOneVolume, CompleteIsRead, Succeeded,
       WellFilled, Unmixed

LEMMA SectorsStay ==
  ASSUME VolumeInv, UNCHANGED <<disk, durable, torn>>
  PROVE  WellFilled' /\ Unmixed'
BY VolumeInvTells DEF WellFilled, Unmixed, OneVolume

LEMMA FailingKeeps ==
  ASSUME WellFilled', Unmixed', pc' = "done", status' \notin {"ok", "format"}
  PROVE  VolumeInv'
BY ElsewhereKeeps

LEMMA VolumeStays ==
  ASSUME UNCHANGED <<layout, runs>>, LaidOut(Volume)
  PROVE  LaidOut(Volume)' /\ Volume' = Volume
<1>1. Volume' = Volume
  BY DEF Volume, layout
<1> QED
  BY <1>1 DEF LaidOut, Sound, Numbers

LEMMA InitEstablishesVolumeInv == Init => VolumeInv
<1> SUFFICES ASSUME Init PROVE VolumeInv
  OBVIOUS
<1>1. PICK c \in {Foreign, EarlierVolume} : disk = [o \in Objects |-> [r \in Roles |-> c]]
  BY DEF Init
<1>2. c \in Empty \/ LaidOut(c)
  BY EarlierAssumption DEF Empty
<1>3. \A o \in Objects : \A r \in Roles : disk[o][r] = c /\ durable[o][r] = c
  BY <1>1 DEF Init
<1>4. \A o \in Objects : OneVolume(disk[o])
  BY <1>3, RolesNamed DEF OneVolume
<1> QED
  BY <1>2, <1>3, <1>4 DEF Init, VolumeInv, ContentsInv, OrderInv, ReadInv, AcceptedIsOneVolume,
                          CompleteIsRead, Succeeded, NoFile

-----------------------------------------------------------------------------
(* Each step keeps it.                                                       *)

LEMMA InspectKeepsVolumes ==
  ASSUME VolumeInv, Inspect
  PROVE  VolumeInv'
<1> USE DEF world, observers
<1>1. WellFilled' /\ Unmixed'
  BY SectorsStay DEF Inspect
<1>2. CASE Out("open") \/ Out("size")
  BY <1>1, <1>2, FailingKeeps DEF Out
<1>3. CASE Begin(TargetSize(planned')) /\ step' # "refused" /\ pc' = "layout"
  <2>1. sectors_per_cluster' = ChooseSectorsPerCluster(total_sectors')
    BY <1>3 DEF Begin
  <2> QED
    BY <1>1, <1>3, <2>1, ElsewhereKeeps
<1> QED
  BY <1>2, <1>3 DEF Inspect

\* The rounds change neither the size nor the clusters' size; the limits let only a
\* layout through that can be read.
LEMMA ComputeLayoutKeepsVolumes ==
  ASSUME VolumeInv, LayoutInv, LayoutInv', ComputeLayout
  PROVE  VolumeInv'
<1> USE DEF world, observers
<1>1. WellFilled' /\ Unmixed'
  BY SectorsStay DEF ComputeLayout
<1>2. CASE Out("size")
  BY <1>1, <1>2, FailingKeeps DEF Out
<1>3. /\ sectors_per_cluster' = sectors_per_cluster /\ total_sectors' = total_sectors
      /\ sectors_per_cluster = ChooseSectorsPerCluster(total_sectors)
  BY DEF ComputeLayout, Iterate, Limits, VolumeInv, ContentsInv
<1>4. CASE step' = "ready" /\ pc' = "reinspect"
  <2>1. Limits
    BY <1>4 DEF ComputeLayout, Iterate, LoopEnds
  <2>2. clusters' >= MinClusters
    BY <1>4, <2>1, LayoutAssumption DEF Limits, LayoutInv
  <2>3. UNCHANGED <<total_sectors, sectors_per_cluster, sectors_per_fat, previous, clusters,
                    iteration>>
        /\ step = "limits"
    BY <2>1 DEF Limits
  <2>4. LaidOut(Volume)'
    <3>1. (LayoutInv /\ step = "ready" /\ clusters >= MinClusters
           /\ sectors_per_cluster = ChooseSectorsPerCluster(total_sectors) => LaidOut(Volume))'
      BY ReadyIsLaidOut, PTL
    <3> QED
      BY <1>3, <1>4, <2>2, <3>1
  <2> QED
    BY <1>1, <1>4, <2>4, ElsewhereKeeps
<1>5. CASE pc' = "layout"
  BY <1>1, <1>3, <1>5, ElsewhereKeeps
<1> QED
  BY <1>2, <1>4, <1>5 DEF ComputeLayout

LEMMA ReinspectKeepsVolumes ==
  ASSUME VolumeInv, Reinspect
  PROVE  VolumeInv'
<1> USE DEF world, observers
<1>1. WellFilled' /\ Unmixed'
  BY SectorsStay DEF Reinspect
<1>2. pc = "reinspect" /\ UNCHANGED <<layout, runs>>
  BY DEF Reinspect
<1>3. LaidOut(Volume)'
  BY <1>2, VolumeStays DEF VolumeInv, ContentsInv
<1>4. \/ Out("open") \/ Out("identity_changed") \/ Out("refused")
      \/ pc' = "open_target"
  BY DEF Reinspect
<1>5. CASE Out("open") \/ Out("identity_changed") \/ Out("refused")
  BY <1>1, <1>5, FailingKeeps DEF Out
<1>6. CASE pc' = "open_target"
  BY <1>1, <1>3, <1>6, ElsewhereKeeps
<1> QED
  BY <1>4, <1>5, <1>6

\* A regular file that the open creates reads as zero.
LEMMA OpenTargetKeepsVolumes ==
  ASSUME FormatInv, VolumeInv, OpenTarget
  PROVE  VolumeInv'
<1> USE DEF observers
<1>1. pc = "open_target" /\ UNCHANGED <<layout, runs, durable, torn>>
  BY DEF OpenTarget
<1>2. LaidOut(Volume)'
  BY <1>1, VolumeStays DEF VolumeInv, ContentsInv
<1>3. WellFilled' /\ Unmixed'
  <2>1. CASE disk' = disk
    BY <1>1, <2>1, SectorsStay
  <2>2. CASE disk' = [disk EXCEPT ![RegularFile] = [r \in Roles |-> ZeroSector]]
    <3>1. RegularFile \in Objects /\ IsDisk(disk)
      BY DEF FormatInv, Shape, Objects
    <3>2. \A o \in Objects : o # RegularFile => disk'[o] = disk[o]
      BY <2>2, <3>1 DEF IsDisk
    <3>3. disk'[RegularFile] = [r \in Roles |-> ZeroSector]
      BY <2>2, <3>1 DEF IsDisk
    <3>4. \A r \in Roles : disk'[RegularFile][r] = ZeroSector
      BY <3>3
    <3>5. ZeroSector \in Empty
      BY DEF Empty
    <3>6. WellFilled'
      BY <1>1, <3>2, <3>4, <3>5, VolumeInvTells DEF WellFilled
    <3>7. Unmixed'
      BY <1>1, <3>2, <3>4, <3>5, RolesNamed, VolumeInvTells DEF Unmixed, OneVolume
    <3> QED
      BY <3>6, <3>7
  <2> QED
    BY <2>1, <2>2 DEF OpenTarget
<1>4. CASE Out("open")
  BY <1>3, <1>4, FailingKeeps DEF Out
<1>5. CASE pc' = "resize"
  BY <1>2, <1>3, <1>5, ElsewhereKeeps
<1> QED
  BY <1>4, <1>5 DEF OpenTarget

LEMMA ResizeKeepsVolumes ==
  ASSUME VolumeInv, Resize
  PROVE  VolumeInv'
<1> USE DEF call, answers
<1>1. WellFilled' /\ Unmixed'
  BY SectorsStay DEF Resize
<1>2. pc = "resize" /\ position' = 0 /\ UNCHANGED <<layout, runs>>
  BY DEF Resize, ZeroStart
<1>3. LaidOut(Volume)'
  BY <1>2, VolumeStays DEF VolumeInv, ContentsInv
<1>4. CASE Out("io")
  BY <1>1, <1>4, FailingKeeps DEF Out
<1>5. CASE pc' = "zero"
  <2>1. ContentsInv'
    BY <1>1, <1>3, <1>5 DEF ContentsInv, WellFilled
  <2>2. OrderInv'
    BY <1>1, <1>2, <1>5 DEF OrderInv, Unmixed
  <2> QED
    BY <1>5, <2>1, <2>2 DEF VolumeInv, ReadInv, AcceptedIsOneVolume, CompleteIsRead, Succeeded
<1> QED
  BY <1>4, <1>5 DEF Resize

\* A write through the handle fills sectors with what it writes.
LEMMA PutFills ==
  ASSUME FormatInv, VolumeInv, pc \in {"zero", "write"}, NEW rs, NEW c, Put(rs, c),
         c \in Empty \/ LaidOut(c), UNCHANGED durable
  PROVE  /\ WellFilled'
         /\ target.obj \in Objects
         /\ \A o \in Objects : o # target.obj => disk'[o] = disk[o]
         /\ \A r \in Roles : disk'[target.obj][r] = IF r \in rs THEN c ELSE disk[target.obj][r]
<1>1. target.obj \in Objects /\ IsDisk(disk)
  BY DEF FormatInv, HandleInv, Shape
<1>2. \A r \in Roles : disk'[target.obj][r] = IF r \in rs THEN c ELSE disk[target.obj][r]
  BY <1>1, PutEffect
<1>3. \A o \in Objects : o # target.obj => disk'[o] = disk[o]
  BY <1>1 DEF Put, IsDisk
<1>4. WellFilled'
  <2> SUFFICES ASSUME NEW o \in Objects, NEW r \in Roles
               PROVE  /\ disk'[o][r] \in Empty \/ LaidOut(disk'[o][r])
                      /\ durable'[o][r] \in Empty \/ LaidOut(durable'[o][r])
    BY DEF WellFilled
  <2>1. /\ disk[o][r] \in Empty \/ LaidOut(disk[o][r])
        /\ durable[o][r] \in Empty \/ LaidOut(durable[o][r])
    BY VolumeInvTells DEF WellFilled
  <2>2. disk'[o][r] = disk[o][r] \/ disk'[o][r] = c
    BY <1>2, <1>3
  <2> QED
    BY <2>1, <2>2
<1> QED
  BY <1>1, <1>2, <1>3, <1>4

\* Zeroing leaves the MBR alone, and what it does to the boot sector mixes nothing.
LEMMA ZeroingMixesNothing ==
  ASSUME FormatInv, VolumeInv, pc = "zero", NEW rs, Put(rs, ZeroSector), "mbr" \notin rs,
         UNCHANGED <<durable, torn>>
  PROVE  /\ WellFilled' /\ Unmixed'
         /\ disk'[target.obj]["boot"] =
              IF "boot" \in rs THEN ZeroSector ELSE disk[target.obj]["boot"]
<1>1. ZeroSector \in Empty
  BY DEF Empty
<1>2. /\ WellFilled'
      /\ target.obj \in Objects
      /\ \A o \in Objects : o # target.obj => disk'[o] = disk[o]
      /\ \A r \in Roles :
           disk'[target.obj][r] = IF r \in rs THEN ZeroSector ELSE disk[target.obj][r]
  BY <1>1, PutFills
<1>3. /\ disk'[target.obj]["boot"] = IF "boot" \in rs THEN ZeroSector ELSE disk[target.obj]["boot"]
      /\ disk'[target.obj]["mbr"] = disk[target.obj]["mbr"]
  BY <1>2, RolesNamed
<1>4. Unmixed'
  <2> SUFFICES ASSUME NEW o \in Objects \ torn PROVE OneVolume(disk'[o])
    BY DEF Unmixed
  <2>1. OneVolume(disk[o])
    BY VolumeInvTells DEF Unmixed
  <2>2. CASE o = target.obj
    BY <1>1, <1>3, <2>1, <2>2 DEF OneVolume
  <2>3. CASE o # target.obj
    BY <1>2, <2>1, <2>3
  <2> QED
    BY <2>2, <2>3
<1> QED
  BY <1>2, <1>3, <1>4

LEMMA ZeroRegionKeepsVolumes ==
  ASSUME FormatInv, LayoutInv, VolumeInv, ZeroRegion
  PROVE  VolumeInv'
<1> USE DEF call
<1> DEFINE end    == IF position + Chunk <= ZeroEnd THEN position + Chunk ELSE ZeroEnd
           region == {r \in Roles : position <= Place(r) /\ Place(r) < end}
<1>1. pc = "zero" /\ UNCHANGED <<layout, runs, durable, torn>>
  BY DEF ZeroRegion
<1>2. \/ /\ target.live
         /\ Put(region, ZeroSector)
         /\ IF end = ZeroEnd THEN pc' = "write" /\ position' = 0
            ELSE position' = end /\ UNCHANGED pc
         /\ UNCHANGED <<status, target>>
      \/ Out("io") /\ UNCHANGED <<disk, touched, position>>
      \/ /\ target.live
         /\ \E k \in region : Put({r \in region : Place(r) <= Place(k)}, ZeroSector)
         /\ Out("io") /\ UNCHANGED position
  BY Zenon DEF ZeroRegion
<1>3. LaidOut(Volume)'
  BY <1>1, VolumeStays DEF VolumeInv, ContentsInv
<1>4. position \in Nat /\ ZeroEnd \in Nat /\ ZeroEnd > 0 /\ Chunk \in Nat /\ Chunk > 0
  BY <1>1, FormatAssumption
     DEF VolumeInv, OrderInv, LayoutInv, ZeroEnd, ReservedSectors, ClusterSizes
<1>5. end \in Nat /\ end > 0
  BY <1>4
<1>6. Place("mbr") = -PartitionStart /\ Place("boot") = 0
  BY DEF Place
<1>7. "mbr" \notin region
  BY <1>4, <1>6, LayoutAssumption
<1>8. position = 0 => "boot" \in region
  BY <1>5, <1>6, RolesNamed
<1> HIDE DEF end, region
<1>9. CASE Out("io") /\ UNCHANGED disk
  BY <1>1, <1>9, SectorsStay, FailingKeeps DEF Out
<1>10. ASSUME NEW k \in region, Put({r \in region : Place(r) <= Place(k)}, ZeroSector), Out("io")
       PROVE  VolumeInv'
  <2>1. WellFilled' /\ Unmixed'
    BY <1>1, <1>7, <1>10, ZeroingMixesNothing
  <2> QED
    BY <1>10, <2>1, FailingKeeps DEF Out
<1>11. CASE /\ target.live
            /\ Put(region, ZeroSector)
            /\ IF end = ZeroEnd THEN pc' = "write" /\ position' = 0
               ELSE position' = end /\ UNCHANGED pc
            /\ UNCHANGED <<status, target>>
  <2>1. /\ WellFilled' /\ Unmixed'
        /\ disk'[target.obj]["boot"] =
             IF "boot" \in region THEN ZeroSector ELSE disk[target.obj]["boot"]
    BY <1>1, <1>7, <1>11, ZeroingMixesNothing
  <2>2. disk'[target.obj]["boot"] = ZeroSector
    <3>1. position > 0 => disk[target.obj]["boot"] = ZeroSector
      BY <1>1, <1>11 DEF VolumeInv, OrderInv
    <3> QED
      BY <1>4, <1>8, <2>1, <3>1
  <2>3. pc' \in {"zero", "write"} /\ (pc' = "zero" => position' \in Nat) /\ target' = target
    BY <1>1, <1>5, <1>11
  <2>4. ContentsInv'
    BY <1>3, <2>1, <2>3 DEF ContentsInv, WellFilled
  <2>5. OrderInv'
    BY <2>1, <2>2, <2>3 DEF OrderInv, Unmixed
  <2> QED
    BY <2>3, <2>4, <2>5 DEF VolumeInv, ReadInv, AcceptedIsOneVolume, CompleteIsRead, Succeeded
<1> QED
  BY <1>2, <1>9, <1>10, <1>11

\* The MBR is written beside a zero boot sector, the boot sector beside the MBR of
\* its own volume, and neither again.
LEMMA WritingMixesNothing ==
  ASSUME FormatInv, VolumeInv, pc = "write", position < Len(Written), target.live,
         Put({Written[position + 1]}, Volume), UNCHANGED <<durable, torn>>
  PROVE  WellFilled' /\ Unmixed'
<1>1. /\ position \in 0..7
      /\ \A i \in 1..position : disk[target.obj][Written[i]] = Volume
  BY WrittenIsRoles DEF FormatInv, WrittenInv
<1>2. LaidOut(Volume)
  BY DEF VolumeInv, ContentsInv
<1>3. /\ WellFilled'
      /\ target.obj \in Objects
      /\ \A o \in Objects : o # target.obj => disk'[o] = disk[o]
      /\ \A r \in Roles : disk'[target.obj][r] =
           IF r \in {Written[position + 1]} THEN Volume ELSE disk[target.obj][r]
  BY <1>2, PutFills
<1>4. OneVolume(disk[target.obj]) => OneVolume(disk'[target.obj])
  <2>1. CASE position = 0
    <3>1. Written[position + 1] = "mbr"
      BY <2>1 DEF Written
    <3>2. disk[target.obj]["boot"] = ZeroSector
      BY <2>1 DEF VolumeInv, OrderInv
    <3>3. disk'[target.obj]["boot"] = ZeroSector
      BY <1>3, <3>1, <3>2, RolesNamed
    <3> QED
      BY <3>3 DEF OneVolume, Empty
  <2>2. CASE position = 1
    <3>1. Written[position + 1] = "boot" /\ Written[1] = "mbr" /\ 1 \in 1..position
      BY <2>2 DEF Written
    <3>2. disk[target.obj]["mbr"] = Volume
      BY <1>1, <3>1
    <3>3. disk'[target.obj]["mbr"] = Volume /\ disk'[target.obj]["boot"] = Volume
      BY <1>3, <3>1, <3>2, RolesNamed
    <3> QED
      BY <3>3 DEF OneVolume
  <2>3. CASE position \in 2..7
    <3>1. Written[position + 1] \notin {"mbr", "boot"}
      <4>1. position = 2 \/ position = 3 \/ position = 4 \/ position = 5 \/ position = 6
            \/ position = 7
        BY <2>3
      <4> QED
        BY <4>1 DEF Written
    <3>2. /\ disk'[target.obj]["mbr"] = disk[target.obj]["mbr"]
          /\ disk'[target.obj]["boot"] = disk[target.obj]["boot"]
      BY <1>3, <3>1, RolesNamed
    <3> QED
      BY <3>2 DEF OneVolume
  <2> QED
    BY <1>1, <2>1, <2>2, <2>3
<1>5. Unmixed'
  BY <1>3, <1>4, VolumeInvTells DEF Unmixed
<1> QED
  BY <1>3, <1>5

LEMMA WriteSectorKeepsVolumes ==
  ASSUME FormatInv, VolumeInv, WriteSector
  PROVE  VolumeInv'
<1> USE DEF call
<1>1. /\ pc = "write" /\ position < Len(Written) /\ position \in Nat
      /\ UNCHANGED <<layout, runs, durable, torn>>
  BY DEF WriteSector, FormatInv, WrittenInv
<1>2. LaidOut(Volume)'
  BY <1>1, VolumeStays DEF VolumeInv, ContentsInv
<1>3. CASE Out("io") /\ UNCHANGED disk
  BY <1>1, <1>3, SectorsStay, FailingKeeps DEF Out
<1>4. CASE target.live /\ Put({Written[position + 1]}, Volume)
  <2>1. WellFilled' /\ Unmixed'
    BY <1>1, <1>4, WritingMixesNothing
  <2>2. CASE Out("io")
    BY <2>1, <2>2, FailingKeeps DEF Out
  <2>3. CASE position' = position + 1 /\ pc' = "write"
    <3>1. ContentsInv'
      BY <1>2, <2>1, <2>3 DEF ContentsInv, WellFilled
    <3>2. OrderInv'
      BY <1>1, <2>1, <2>3 DEF OrderInv, Unmixed
    <3> QED
      BY <2>3, <3>1, <3>2 DEF VolumeInv, ReadInv, AcceptedIsOneVolume, CompleteIsRead, Succeeded
  <2> QED
    BY <1>1, <2>2, <2>3 DEF WriteSector
<1> QED
  BY <1>3, <1>4 DEF WriteSector

\* A format that is flushed is not a verification, whatever its status.
LEMMA FlushKeepsVolumes ==
  ASSUME FormatInv, VolumeInv, CommandInv, Flush
  PROVE  VolumeInv'
<1> USE DEF call, observers
<1>1. UNCHANGED <<disk, torn>> /\ command' # "verify" /\ pc' = "done"
  BY DEF Flush, Out, CommandInv
<1>2. WellFilled'
  <2>1. CASE durable' = durable
    BY <1>1, <2>1, SectorsStay
  <2>2. CASE durable' = [durable EXCEPT ![target.obj] = disk[target.obj]]
    <3>1. target.obj \in Objects /\ IsDisk(durable)
      BY DEF Flush, FormatInv, HandleInv, Shape
    <3>2. \A o \in Objects : durable'[o] = durable[o] \/ durable'[o] = disk[o]
      BY <2>2, <3>1 DEF IsDisk
    <3> QED
      BY <1>1, <3>2, VolumeInvTells DEF WellFilled
  <2> QED
    BY <2>1, <2>2 DEF Flush
<1>3. Unmixed'
  BY <1>1, VolumeInvTells DEF Unmixed
<1> QED
  BY <1>1, <1>2, <1>3 DEF VolumeInv, ContentsInv, OrderInv, ReadInv, AcceptedIsOneVolume,
     CompleteIsRead, Succeeded, WellFilled, Unmixed

\* The MBR that is read is the one of the target.
LEMMA VerifyMbrKeepsVolumes ==
  ASSUME FormatInv, VolumeInv, VerifyMbr
  PROVE  VolumeInv'
<1> USE DEF world, call
<1>1. UNCHANGED <<disk, durable, torn>>
  BY DEF VerifyMbr
<1>2. WellFilled' /\ Unmixed'
  BY <1>1, SectorsStay
<1>3. CASE Out("io")
  BY <1>2, <1>3, FailingKeeps DEF Out
<1>4. CASE /\ bound # Missing /\ checked' = bound /\ mbr' = disk[bound]["mbr"]
           /\ mbr' \in Empty /\ Out("format")
  <2>1. ~Complete(disk'[checked'])
    BY <1>1, <1>4 DEF Complete
  <2> QED
    BY <1>2, <1>4, <2>1 DEF Out, VolumeInv, ContentsInv, OrderInv, ReadInv, AcceptedIsOneVolume,
       CompleteIsRead, Succeeded, WellFilled, Unmixed
<1>5. CASE /\ bound # Missing /\ checked' = bound /\ mbr' = disk[bound]["mbr"]
           /\ mbr' \notin Empty /\ target'.obj = bound /\ pc' = "verify_boot"
  <2>1. bound \in Objects
    BY <1>5 DEF FormatInv, Shape
  <2>2. ReadInv'
    BY <1>1, <1>5, <2>1 DEF ReadInv, Empty
  <2> QED
    BY <1>2, <1>5, <2>2 DEF VolumeInv, ContentsInv, OrderInv, AcceptedIsOneVolume,
       CompleteIsRead, Succeeded, WellFilled, Unmixed
<1> QED
  BY <1>3, <1>4, <1>5 DEF VerifyMbr

LEMMA VerifyBootKeepsVolumes ==
  ASSUME FormatInv, VolumeInv, VerifyBoot
  PROVE  VolumeInv'
<1> USE DEF world, call, observers
<1>1. UNCHANGED <<disk, durable, torn, mbr, checked>> /\ pc = "verify_boot"
  BY DEF VerifyBoot
<1>2. WellFilled' /\ Unmixed'
  BY <1>1, SectorsStay
<1>3. CASE Out("io")
  BY <1>2, <1>3, FailingKeeps DEF Out
<1>4. CASE /\ target.live /\ boot' = disk[target.obj]["boot"]
           /\ IF boot' \in Empty \/ ~Sound(mbr, boot')
              THEN Out("format") /\ UNCHANGED answer
              ELSE /\ answer' = [sectors |-> mbr.sectors, spc |-> boot'.spc,
                                 fatsz |-> boot'.fatsz,
                                 clusters |-> ClustersBeside(mbr.sectors, boot'.fatsz, boot'.spc)]
                   /\ Out("ok")
  <2>1. /\ target.obj \in Objects /\ checked = target.obj
        /\ mbr = disk[target.obj]["mbr"] /\ mbr \notin Empty
    BY <1>1, <1>4 DEF VolumeInv, ReadInv
  <2>2. Complete(disk[checked]) => boot' = mbr /\ LaidOut(mbr)
    BY <1>4, <2>1, RolesNamed, VolumeInvTells DEF Complete, WellFilled
  <2>3. CASE (boot' \in Empty \/ ~Sound(mbr, boot')) /\ Out("format")
    <3>1. ~Complete(disk[checked])
      BY <2>1, <2>2, <2>3 DEF LaidOut
    <3> QED
      BY <1>1, <1>2, <2>3, <3>1 DEF Out, VolumeInv, ContentsInv, OrderInv, ReadInv,
         AcceptedIsOneVolume, CompleteIsRead, Succeeded, WellFilled, Unmixed
  <2>4. CASE /\ ~(boot' \in Empty) /\ Out("ok")
             /\ answer' = [sectors |-> mbr.sectors, spc |-> boot'.spc, fatsz |-> boot'.fatsz,
                           clusters |-> ClustersBeside(mbr.sectors, boot'.fatsz, boot'.spc)]
    <3>1. checked \notin torn => mbr = boot'
      BY <1>4, <2>1, <2>4, VolumeInvTells DEF Unmixed, OneVolume
    <3>2. Complete(disk[checked]) =>
            /\ answer'.sectors = boot'.sectors /\ answer'.fatsz = boot'.fatsz
            /\ answer'.spc = boot'.spc
            /\ boot'.clusters <= answer'.clusters /\ answer'.clusters <= 128 * boot'.fatsz
      BY <2>2, <2>4 DEF LaidOut
    <3>3. AcceptedIsOneVolume'
      BY <1>1, <3>1 DEF AcceptedIsOneVolume
    <3>4. CompleteIsRead'
      BY <1>1, <2>4, <3>2 DEF CompleteIsRead, Out
    <3> QED
      BY <1>2, <2>4, <3>3, <3>4 DEF Out, VolumeInv, ContentsInv, OrderInv, ReadInv,
         WellFilled, Unmixed
  <2> QED
    BY <1>4, <2>3, <2>4
<1> QED
  BY <1>3, <1>4 DEF VerifyBoot

\* The drive that is pulled is torn if anything on it changed.
LEMMA SwapDriveKeepsVolumes ==
  ASSUME FormatInv, VolumeInv, SwapDrive
  PROVE  VolumeInv'
<1> USE DEF idle, call, answers
<1>1. /\ UNCHANGED <<layout, runs, pc, position, command, status, mbr, boot, answer, checked>>
      /\ pc \notin {"done", "killed"}
  BY DEF SwapDrive, Exposed, Running
<1>2. target'.live = FALSE
  BY DEF SwapDrive, FormatInv, Shape, TargetType
<1>3. WellFilled' /\ Unmixed'
  <2>1. CASE bound = Missing
    <3>1. UNCHANGED <<disk, durable, torn>>
      BY <2>1 DEF SwapDrive
    <3> QED
      BY <3>1, SectorsStay
  <2>2. CASE bound # Missing
    <3>1. bound \in Objects /\ IsDisk(disk) /\ IsDisk(durable)
      BY <2>2 DEF FormatInv, Shape
    <3>2. PICK lost \in Losses :
            /\ disk' = [disk EXCEPT ![bound] =
                          [r \in Roles |-> IF r \in lost THEN durable[bound][r] ELSE @[r]]]
            /\ durable' = [durable EXCEPT ![bound] = disk'[bound]]
            /\ torn' = IF disk' = disk THEN torn ELSE torn \cup {bound}
      BY <2>2 DEF SwapDrive
    <3>3. \A o \in Objects : o # bound => disk'[o] = disk[o] /\ durable'[o] = durable[o]
      BY <3>1, <3>2 DEF IsDisk
    <3>4. \A r \in Roles : /\ disk'[bound][r] \in {disk[bound][r], durable[bound][r]}
                           /\ durable'[bound][r] = disk'[bound][r]
      BY <3>1, <3>2 DEF IsDisk
    <3>5. WellFilled'
      BY <3>3, <3>4, VolumeInvTells DEF WellFilled
    <3>6. Unmixed'
      BY <3>2, <3>3, VolumeInvTells DEF Unmixed
    <3> QED
      BY <3>5, <3>6
  <2> QED
    BY <2>1, <2>2
<1>4. LaidOut(Volume) => LaidOut(Volume)'
  BY <1>1, VolumeStays
<1>5. ContentsInv'
  BY <1>1, <1>3, <1>4 DEF VolumeInv, ContentsInv, WellFilled, layout
<1>6. OrderInv'
  BY <1>1, <1>2, <1>3 DEF VolumeInv, OrderInv, Unmixed
<1>7. ReadInv'
  BY <1>1, <1>2 DEF VolumeInv, ReadInv
<1> QED
  BY <1>1, <1>5, <1>6, <1>7 DEF VolumeInv, AcceptedIsOneVolume, CompleteIsRead, Succeeded

\* A mount, and steps that change nothing.
LEMMA MountKeepsVolumes ==
  ASSUME VolumeInv,
         UNCHANGED <<idle, disk, durable, runs, pc, target, status, torn, checked>>
  PROVE  VolumeInv'
<1> USE DEF idle, call, answers
<1>1. WellFilled' /\ Unmixed'
  BY SectorsStay
<1>2. LaidOut(Volume) => LaidOut(Volume)'
  BY VolumeStays
<1>3. ContentsInv'
  BY <1>1, <1>2 DEF VolumeInv, ContentsInv, WellFilled, layout
<1>4. OrderInv' /\ ReadInv'
  BY <1>1 DEF VolumeInv, OrderInv, ReadInv, Unmixed
<1>5. AcceptedIsOneVolume' /\ CompleteIsRead'
  BY DEF VolumeInv, AcceptedIsOneVolume, CompleteIsRead, Succeeded, Complete
<1> QED
  BY <1>3, <1>4, <1>5 DEF VolumeInv

LEMMA KillKeepsVolumes ==
  ASSUME VolumeInv, Kill
  PROVE  VolumeInv'
<1>1. pc' = "killed" /\ UNCHANGED <<disk, durable, torn>>
  BY DEF Kill, world, observers
<1> QED
  BY <1>1, SectorsStay, ElsewhereKeeps

LEMMA RunKeepsVolumes ==
  ASSUME VolumeInv, Run
  PROVE  VolumeInv'
<1>1. pc' \in {"inspect", "verify"} /\ UNCHANGED <<disk, durable, torn>>
  BY DEF Run
<1> QED
  BY <1>1, SectorsStay, ElsewhereKeeps

LEMMA CommandStays ==
  ASSUME FormatInv, CommandInv, Next
  PROVE  CommandInv'
<1> USE DEF CommandInv
<1>1. CASE Inspect \/ ComputeLayout \/ Reinspect \/ OpenTarget
  BY <1>1 DEF Inspect, ComputeLayout, Reinspect, OpenTarget, call
<1>2. CASE Resize \/ WriteSector \/ Flush
  BY <1>2 DEF Resize, WriteSector, Flush, call
<1>3. CASE ZeroRegion
  BY <1>3 DEF ZeroRegion, call
<1>4. CASE VerifyMbr \/ VerifyBoot
  <2>1. pc' \in {"done", "verify_boot"}
    BY <1>4 DEF VerifyMbr, VerifyBoot, Out
  <2> QED
    BY <2>1
<1>5. CASE Environment
  BY <1>5 DEF Environment, SwapDrive, Mount, Kill, Run, idle, call
<1> QED
  BY <1>1, <1>2, <1>3, <1>4, <1>5 DEF Next, Step

\* Every sector with a role is of a volume that was laid out, no MBR stands beside
\* the boot sector of another volume, and what is read is what is there.
THEOREM VolumeInduction == Spec => [](CommandInv /\ VolumeInv)
<1>1. Init => CommandInv /\ VolumeInv
  BY InitEstablishesVolumeInv DEF Init, CommandInv
<1>2. FormatInv /\ LayoutInv /\ LayoutInv' /\ CommandInv /\ VolumeInv /\ Next
      => CommandInv' /\ VolumeInv'
  <2> SUFFICES ASSUME FormatInv, LayoutInv, LayoutInv', CommandInv, VolumeInv, Next
               PROVE  VolumeInv'
    BY CommandStays
  <2>1. CASE Inspect \/ ComputeLayout \/ Reinspect
    BY <2>1, InspectKeepsVolumes, ComputeLayoutKeepsVolumes, ReinspectKeepsVolumes
  <2>2. CASE OpenTarget \/ Resize \/ ZeroRegion
    BY <2>2, OpenTargetKeepsVolumes, ResizeKeepsVolumes, ZeroRegionKeepsVolumes
  <2>3. CASE WriteSector \/ Flush \/ VerifyMbr \/ VerifyBoot
    BY <2>3, WriteSectorKeepsVolumes, FlushKeepsVolumes, VerifyMbrKeepsVolumes,
       VerifyBootKeepsVolumes
  <2>4. CASE Mount
    BY <2>4, MountKeepsVolumes DEF Mount, observers
  <2>5. CASE SwapDrive \/ Kill \/ Run
    BY <2>5, SwapDriveKeepsVolumes, KillKeepsVolumes, RunKeepsVolumes
  <2> QED
    BY <2>1, <2>2, <2>3, <2>4, <2>5 DEF Next, Step, Environment
<1>3. CommandInv /\ VolumeInv /\ UNCHANGED vars => CommandInv' /\ VolumeInv'
  BY MountKeepsVolumes DEF CommandInv, vars, world, call, idle, answers, observers
<1>4. Spec => []LayoutInv
  BY FormatComputesLayouts, LayoutCorrect, PTL
<1> QED
  BY <1>1, <1>2, <1>3, <1>4, FormatIsCorrect, PTL DEF Spec

\* What verification accepts is one volume, whatever failed or was killed on top of
\* whichever earlier one, unless the drive was pulled before the flush.
THEOREM OnlyWholeVolumesPass == Spec => []AcceptedIsOneVolume
<1>1. VolumeInv => AcceptedIsOneVolume
  BY DEF VolumeInv
<1> QED
  BY <1>1, VolumeInduction, PTL

\* What the formatter completes, at every size it takes, verification reads, and
\* reads as it was laid out.
THEOREM CompleteVolumesPass == Spec => []CompleteIsRead
<1>1. VolumeInv => CompleteIsRead
  BY DEF VolumeInv
<1> QED
  BY <1>1, VolumeInduction, PTL
=============================================================================

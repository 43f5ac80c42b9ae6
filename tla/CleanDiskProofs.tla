---------------------------- MODULE CleanDiskProofs ----------------------------
(* Theorems about CleanDisk, for every number of disks and letters, every     *)
(* layout and every bound.                                                    *)
EXTENDS CleanDisk, TLAPS

-----------------------------------------------------------------------------
(* What the steps do.                                                        *)

LEMMA AnswersAreLayouts ==
  ASSUME layout \in [Disks -> Layouts], NEW d \in Disks
  PROVE  Answers(d) \subseteq Layouts /\ Raw \in Layouts /\ layout[d] \in Layouts
BY DiskAssumption DEF Answers

\* A scan of the letters misses nothing but volumes that need not answer.
LEMMA SightingsAreNear ==
  ASSUME NEW d, NEW seen \in Sightings(d)
  PROVE  VolumesOf(d) \ Opaque \subseteq seen
BY DEF Sightings

LEMMA CleanableIsConfirmed ==
  ASSUME NEW d, NEW seen, Cleanable(d, seen)
  PROVE  /\ Confirmed(d) /\ Token(d, seen) = Confirmation
         /\ d \in Disks /\ d \in UsbDisks \ {ProgramDisk}
<1>1. (WindowsLetter \in seen) = FALSE
  BY DEF Cleanable
<1>2. Token(d, seen) = <<Ident[d], FALSE>>
  BY <1>1 DEF Token
<1> QED
  BY <1>2, DiskAssumption DEF Cleanable, Confirmed

LEMMA AuthorizedIsConfirmed ==
  ASSUME NEW d, NEW seen, Authorized(d, seen)
  PROVE  Confirmed(d)
<1>1. (WindowsLetter \in seen) = FALSE
  BY DEF Authorized
<1>2. Token(d, seen) = <<Ident[d], FALSE>>
  BY <1>1 DEF Token
<1> QED
  BY <1>2 DEF Authorized, Confirmed

LEMMA InitEstablishesCleanIInv == Init => CleanIInv
<1> SUFFICES ASSUME Init PROVE CleanIInv
  OBVIOUS
<1>1. /\ layout \in [Disks -> Layouts] /\ bound \in Disks \cup {Missing}
      /\ volume \in [Letters -> Disks \cup {Missing}]
      /\ Raw \in Layouts \cup {Unknown} /\ Unknown \in Layouts \cup {Unknown}
  BY DiskAssumption DEF Init
<1>2. 1 \in 1..(MaxLetter + 1) /\ 0 \in 0..LockTries /\ 0 \in 0..Attempts /\ 0 < Attempts
  BY BoundAssumption
<1>3. TypeOK
  BY <1>1, <1>2, BoundAssumption DEF Init, TypeOK
<1>4. Counted
  BY <1>2 DEF Init, Counted
<1>5. DiskInv
  BY DEF Init, DiskInv, OnlyConfirmedDisksCleaned
<1>7. LockInv
  BY DEF Init, LockInv
<1>6. LayoutInv
  BY DEF Init, LayoutInv, SuccessIsRaw
<1> QED
  BY <1>3, <1>4, <1>5, <1>6, <1>7 DEF CleanIInv

\* A run that ends without success, its locks given back and no layout deleted,
\* has nothing more to keep than its types.
LEMMA StopKeepsCleanIInv ==
  ASSUME CleanIInv, TypeOK', Counted', pc' \in {"done", "killed"}, status' # "ok",
         held' = {}, ~live' \/ UNCHANGED <<live, handle, bound>>,
         UNCHANGED <<busy, deleted, raced, moved>>
  PROVE  CleanIInv'
<1>3. OnlyConfirmedDisksCleaned'
  BY DEF CleanIInv, DiskInv, OnlyConfirmedDisksCleaned
<1>4. ~BeforeDelete' /\ (live' => handle' = bound')
  BY DEF CleanIInv, DiskInv, BeforeDelete
<1>1. DiskInv'
  BY <1>3, <1>4 DEF DiskInv, BeforeDelete
<1>2. LockInv' /\ LayoutInv'
  BY DEF CleanIInv, LockInv, LayoutInv, BeforeDelete, SuccessIsRaw
<1> QED
  BY <1>1, <1>2 DEF CleanIInv

-----------------------------------------------------------------------------
(* Up to the open.                                                           *)

LEMMA InspectKeepsCleanIInv == CleanIInv /\ Inspect => CleanIInv'
<1> SUFFICES ASSUME CleanIInv, Inspect PROVE CleanIInv'
  OBVIOUS
<1>1. /\ UNCHANGED <<world, locking, planned, attempt, verified, report, deleted, raced, trust>>
      /\ moved' = FALSE /\ pc = "inspect"
  BY DEF Inspect
<1>2. TypeOK'
  BY <1>1 DEF CleanIInv, TypeOK, world, locking, report, trust
<1>3. Counted'
  BY <1>1 DEF CleanIInv, Counted, world, locking, report, trust, Running
<1>4. deleted = {} /\ held = {}
  BY <1>1 DEF CleanIInv, DiskInv, LockInv, BeforeDelete
<1>5. CASE pc' = "done"
  <2>1. status' # "ok"
    BY <1>5 DEF Inspect, Fail
  <2>2. DiskInv'
    BY <1>1, <1>4, <1>5 DEF CleanIInv, DiskInv, BeforeDelete, OnlyConfirmedDisksCleaned, world,
                            locking
  <2>3. LockInv' /\ LayoutInv'
    BY <1>1, <1>4, <1>5, <2>1 DEF CleanIInv, LockInv, LayoutInv, BeforeDelete, SuccessIsRaw,
                                  locking, world
  <2> QED
    BY <1>2, <1>3, <2>2, <2>3 DEF CleanIInv
<1>6. ASSUME NEW seen \in Sightings(bound), Cleanable(bound, seen), pc' = "layout",
             UNCHANGED status,
             before' = [disk |-> bound, token |-> Token(bound, seen), mounted |-> seen # {}]
      PROVE  CleanIInv'
  <2>1. before'.disk = bound /\ bound' = bound /\ before'.token = Confirmation
    BY <1>1, <1>6, CleanableIsConfirmed DEF world
  <2>2. Confirmed(before'.disk) /\ before'.disk \in UsbDisks \ {ProgramDisk}
    BY <1>6, <2>1, CleanableIsConfirmed
  <2>3. DiskInv'
    BY <1>1, <1>4, <1>6, <2>1, <2>2 DEF CleanIInv, DiskInv, BeforeDelete, Confirmed,
                                        OnlyConfirmedDisksCleaned, world, locking
  <2>4. LockInv'
    BY <1>1, <1>4, <1>6 DEF CleanIInv, LockInv, BeforeDelete, VolumesOf, world, locking
  <2>6. ~before'.mounted => VolumesOf(bound) \subseteq Opaque
    BY <1>6, SightingsAreNear
  <2>5. LayoutInv'
    BY <1>1, <1>6, <2>6 DEF CleanIInv, LayoutInv, SuccessIsRaw, VolumesOf, world
  <2> QED
    BY <1>2, <1>3, <2>3, <2>4, <2>5 DEF CleanIInv
<1> QED
  BY <1>5, <1>6 DEF Inspect, Fail

LEMMA QueryLayoutKeepsCleanIInv == CleanIInv /\ QueryLayout => CleanIInv'
<1> SUFFICES ASSUME CleanIInv, QueryLayout PROVE CleanIInv'
  OBVIOUS
<1>1. /\ UNCHANGED <<world, before, locking, attempt, verified, layout_deleted, deleted, raced,
                     moved>>
      /\ dirtied' = FALSE /\ pc = "layout"
  BY DEF QueryLayout
<1>2. held = {}
  BY <1>1 DEF CleanIInv, LockInv
<1>3. CASE Fail("open") /\ UNCHANGED <<planned, final_state, after_style, unready>>
  <2>1. TypeOK' /\ Counted'
    BY <1>1, <1>3 DEF CleanIInv, TypeOK, Counted, world, locking, Running, Fail
  <2> QED
    BY <1>1, <1>2, <1>3, <2>1, StopKeepsCleanIInv DEF Fail, world, locking
<1>4. ASSUME NEW l \in Answers(bound), bound # Missing,
             planned' = Summary[l], unready' = (l # layout[bound])
      PROVE  (IF l = Raw /\ ~before.mounted
              THEN /\ final_state' = "success_already_clean" /\ after_style' = l
                   /\ pc' = "done" /\ status' = "ok"
              ELSE pc' = "reinspect" /\ UNCHANGED <<final_state, after_style, status>>)
             => CleanIInv'
  <2>1. bound \in Disks /\ l \in Layouts
    BY <1>4, AnswersAreLayouts DEF CleanIInv, TypeOK
  <2>2. CASE /\ l = Raw /\ ~before.mounted
             /\ final_state' = "success_already_clean" /\ after_style' = l
             /\ pc' = "done" /\ status' = "ok"
    <3>1. TypeOK'
      BY <1>1, <2>1, <2>2 DEF CleanIInv, TypeOK, world, locking
    <3>2. Counted'
      BY <1>1, <1>4, <2>2 DEF CleanIInv, Counted, world, locking, Running
    <3>3. DiskInv' /\ LockInv'
      BY <1>1, <1>2, <2>2 DEF CleanIInv, DiskInv, LockInv, BeforeDelete, OnlyConfirmedDisksCleaned,
                              world, locking
    <3>4. (~moved /\ ~unready') => layout[bound] = Raw /\ VolumesOf(bound) \subseteq Opaque
      BY <1>1, <1>4, <2>2 DEF CleanIInv, LayoutInv
    <3>5. LayoutInv'
      BY <1>1, <1>4, <2>2, <3>4 DEF LayoutInv, BeforeDelete, SuccessIsRaw, VolumesOf, world
    <3> QED
      BY <3>1, <3>2, <3>3, <3>5 DEF CleanIInv
  <2>3. CASE pc' = "reinspect" /\ UNCHANGED <<final_state, after_style, status>>
    <3>1. TypeOK'
      BY <1>1, <2>1, <2>3 DEF CleanIInv, TypeOK, world, locking
    <3>2. Counted'
      BY <1>1, <1>4, <2>3 DEF CleanIInv, Counted, world, locking, Running
    <3>3. DiskInv' /\ LockInv'
      BY <1>1, <1>2, <2>3 DEF CleanIInv, DiskInv, LockInv, BeforeDelete, OnlyConfirmedDisksCleaned,
                              Confirmed, world, locking
    <3>4. LayoutInv'
      BY <1>1, <2>3 DEF CleanIInv, LayoutInv, BeforeDelete, SuccessIsRaw, VolumesOf, world
    <3> QED
      BY <3>1, <3>2, <3>3, <3>4 DEF CleanIInv
  <2> QED
    BY <2>2, <2>3
<1> QED
  BY <1>3, <1>4 DEF QueryLayout

LEMMA ReinspectKeepsCleanIInv == CleanIInv /\ Reinspect => CleanIInv'
<1> SUFFICES ASSUME CleanIInv, Reinspect PROVE CleanIInv'
  OBVIOUS
<1>1. /\ UNCHANGED <<world, before, planned, locking, attempt, verified, report, deleted, raced,
                     moved, trust>>
      /\ pc = "reinspect"
  BY DEF Reinspect
<1>2. TypeOK'
  BY <1>1 DEF CleanIInv, TypeOK, world, locking, report
<1>3. Counted'
  BY <1>1 DEF CleanIInv, Counted, world, locking, trust, Running
<1>4. held = {}
  BY <1>1 DEF CleanIInv, LockInv
<1>5. CASE pc' = "done"
  <2>1. status' # "ok"
    BY <1>5 DEF Reinspect, Fail
  <2> QED
    BY <1>1, <1>2, <1>3, <1>4, <1>5, <2>1, StopKeepsCleanIInv DEF world, locking
<1>6. ASSUME NEW seen, Authorized(bound, seen), pc' = "open", UNCHANGED status
      PROVE  CleanIInv'
  <2>1. Confirmed(bound)
    BY <1>6, AuthorizedIsConfirmed
  <2>2. DiskInv'
    BY <1>1, <1>6, <2>1 DEF CleanIInv, DiskInv, BeforeDelete, Confirmed,
                            OnlyConfirmedDisksCleaned, world, locking
  <2>3. LockInv' /\ LayoutInv'
    BY <1>1, <1>4, <1>6 DEF CleanIInv, LockInv, LayoutInv, BeforeDelete, SuccessIsRaw, VolumesOf,
                            world, locking
  <2> QED
    BY <1>2, <1>3, <2>2, <2>3 DEF CleanIInv
<1> QED
  BY <1>5, <1>6 DEF Reinspect, Fail

LEMMA OpenKeepsCleanIInv == CleanIInv /\ Open => CleanIInv'
<1> SUFFICES ASSUME CleanIInv, Open PROVE CleanIInv'
  OBVIOUS
<1>1. /\ UNCHANGED <<world, before, planned, attempt, verified, report, deleted, raced, moved,
                     trust>>
      /\ pc = "open"
  BY DEF Open
<1>2. held = {}
  BY <1>1 DEF CleanIInv, LockInv
<1>3. CASE Fail("open") /\ UNCHANGED locking
  <2>1. TypeOK' /\ Counted'
    BY <1>1, <1>3 DEF CleanIInv, TypeOK, Counted, world, locking, report, trust, Running, Fail
  <2> QED
    BY <1>1, <1>2, <1>3, <2>1, StopKeepsCleanIInv DEF Fail, world, locking
<1>4. CASE /\ bound # Missing /\ handle' = bound /\ live' = TRUE
           /\ drives' = {l \in Letters : volume[l] # Missing}
           /\ enumerated' = VolumesOf(bound)
           /\ letter' = 1 /\ tries' = 0 /\ held' = {} /\ pc' = "lock" /\ UNCHANGED status
  <2>1. bound \in Disks /\ bound # Missing
    BY <1>4 DEF CleanIInv, TypeOK
  <2>2. TypeOK'
    <3>1. 1 \in 1..(MaxLetter + 1) /\ 0 \in 0..LockTries
      BY BoundAssumption
    <3> QED
      BY <1>1, <1>4, <2>1, <3>1 DEF CleanIInv, TypeOK, world, report
  <2>3. Counted'
    BY <1>1, <1>4 DEF CleanIInv, Counted, VolumesOf, world, trust, Running
  <2>4. raced \/ Confirmed(bound)
    BY <1>1 DEF CleanIInv, DiskInv
  <2>5. DiskInv'
    BY <1>1, <1>4, <2>1, <2>4 DEF CleanIInv, DiskInv, BeforeDelete, Confirmed,
                                  OnlyConfirmedDisksCleaned, world
  <2>6. LockInv'
    <3>1. enumerated' \subseteq drives' /\ enumerated' = VolumesOf(handle)'
      BY <1>1, <1>4, <2>1 DEF VolumesOf, world
    <3>2. \A l \in enumerated' : ~(l < letter')
      BY <1>4, BoundAssumption DEF VolumesOf, Letters
    <3>3. volume[WindowsLetter] = SystemDisk /\ WindowsLetter \in busy /\ UNCHANGED <<volume, busy>>
      BY <1>1 DEF CleanIInv, LockInv, BeforeDelete, world
    <3>4. bound = SystemDisk => WindowsLetter \in enumerated'
      BY <1>4, <3>3, BoundAssumption DEF VolumesOf
    <3> QED
      BY <1>4, <3>1, <3>2, <3>3, <3>4 DEF LockInv
  <2>7. LayoutInv'
    BY <1>1, <1>4 DEF CleanIInv, LayoutInv, BeforeDelete, SuccessIsRaw, VolumesOf, world
  <2> QED
    BY <2>2, <2>3, <2>5, <2>6, <2>7 DEF CleanIInv
<1> QED
  BY <1>3, <1>4 DEF Open

-----------------------------------------------------------------------------
(* The lock loop and the deletion.                                           *)

\* The loop moves on to the next letter.
LEMMA NextLetter ==
  ASSUME TypeOK, letter \in Letters
  PROVE  letter + 1 \in 1..(MaxLetter + 1) /\ 0 \in 0..LockTries
         /\ \A l \in Letters : l < letter + 1 => l < letter \/ l = letter
BY BoundAssumption DEF TypeOK, Letters

LEMMA LockVolumeKeepsCleanIInv == CleanIInv /\ LockVolume => CleanIInv'
<1> SUFFICES ASSUME CleanIInv, LockVolume PROVE CleanIInv'
  OBVIOUS
<1> DEFINE uses == letter \in drives /\ bound # Missing /\ volume[letter] = bound
<1>1. /\ UNCHANGED <<bound, layout, volume, busy, swaps, mounts, repartitions, before, planned,
                     drives, enumerated, attempt, verified, report, deleted, raced, moved, trust>>
      /\ pc = "lock" /\ letter \in Letters
  BY DEF LockVolume, world
<1>2. CASE Skip /\ (uses => letter \in Opaque)
  <2>1. TypeOK'
    BY <1>1, <1>2, NextLetter DEF CleanIInv, TypeOK, Skip, report
  <2>2. Counted'
    BY <1>1, <1>2 DEF CleanIInv, Counted, Skip, trust, Running
  <2>3. DiskInv'
    BY <1>1, <1>2 DEF CleanIInv, DiskInv, BeforeDelete, Skip, Confirmed, OnlyConfirmedDisksCleaned
  <2>4. live => letter \notin enumerated \ Opaque
    BY <1>1, <1>2, DiskAssumption DEF CleanIInv, DiskInv, LockInv, VolumesOf
  <2>5. LockInv'
    <3>1. ASSUME live, NEW l \in enumerated \ Opaque, l < letter + 1 PROVE l \in held
      BY <1>1, <2>4, <3>1, NextLetter DEF CleanIInv, Counted, LockInv
    <3> QED
      BY <1>1, <1>2, <3>1 DEF CleanIInv, LockInv, BeforeDelete, Skip, VolumesOf
  <2>6. LayoutInv'
    BY <1>1, <1>2 DEF CleanIInv, LayoutInv, BeforeDelete, SuccessIsRaw, VolumesOf, Skip
  <2> QED
    BY <2>1, <2>2, <2>3, <2>5, <2>6 DEF CleanIInv
<1>4. CASE LockFails("open") \/ LockFails("mounted")
  <2>1. /\ pc' = "done" /\ status' # "ok" /\ ~live' /\ held' = {} /\ handle' = Missing
        /\ UNCHANGED <<letter, tries>> /\ live' \in BOOLEAN
    BY <1>4 DEF LockFails, Fail, Close
  <2>2. TypeOK'
    BY <1>1, <2>1 DEF CleanIInv, TypeOK, report
  <2>3. Counted'
    BY <1>1, <2>1 DEF CleanIInv, Counted, trust, Running
  <2> QED
    BY <1>1, <2>1, <2>2, <2>3, StopKeepsCleanIInv
<1>5. CASE /\ ~GivenUp /\ tries' = tries + 1
           /\ UNCHANGED <<pc, status, letter, handle, live, held>>
  <2>1. tries' \in 0..LockTries
    BY <1>5, BoundAssumption DEF CleanIInv, TypeOK, GivenUp
  <2>2. TypeOK' /\ Counted'
    BY <1>1, <1>5, <2>1 DEF CleanIInv, TypeOK, Counted, report, trust, Running
  <2>3. DiskInv' /\ LockInv' /\ LayoutInv'
    BY <1>1, <1>5 DEF CleanIInv, DiskInv, LockInv, LayoutInv, BeforeDelete, Confirmed,
                      OnlyConfirmedDisksCleaned, SuccessIsRaw, VolumesOf
  <2> QED
    BY <2>2, <2>3 DEF CleanIInv
<1>6. CASE /\ held' = held \cup {letter} /\ letter' = letter + 1 /\ tries' = 0
           /\ letter \notin busy /\ UNCHANGED <<pc, status, handle, live>>
  <2>1. TypeOK'
    BY <1>1, <1>6, NextLetter DEF CleanIInv, TypeOK, report
  <2>2. Counted'
    BY <1>1, <1>6 DEF CleanIInv, Counted, trust, Running
  <2>3. DiskInv'
    BY <1>1, <1>6 DEF CleanIInv, DiskInv, BeforeDelete, Confirmed,
                      OnlyConfirmedDisksCleaned
  <2>4. LockInv'
    <3>1. ASSUME live, NEW l \in enumerated \ Opaque, l < letter + 1 PROVE l \in held'
      BY <1>1, <1>6, <3>1, NextLetter DEF CleanIInv, Counted, LockInv
    <3> QED
      BY <1>1, <1>6, <3>1 DEF CleanIInv, LockInv, BeforeDelete, VolumesOf
  <2>5. LayoutInv'
    BY <1>1, <1>6 DEF CleanIInv, LayoutInv, BeforeDelete, SuccessIsRaw, VolumesOf
  <2> QED
    BY <2>1, <2>2, <2>3, <2>4, <2>5 DEF CleanIInv
<1> QED
  BY <1>2, <1>4, <1>5, <1>6 DEF LockVolume

LEMMA CompareLayoutKeepsCleanIInv == CleanIInv /\ CompareLayout => CleanIInv'
<1> SUFFICES ASSUME CleanIInv, CompareLayout PROVE CleanIInv'
  OBVIOUS
<1>1. /\ UNCHANGED <<world, before, planned, drives, letter, tries, enumerated, attempt, verified,
                     layout_deleted, after_style, deleted, raced, moved>>
      /\ dirtied' = FALSE /\ pc = "lock" /\ letter \notin Letters
  BY DEF CompareLayout
<1>2. ASSUME pc' = "done", status' # "ok", Close, UNCHANGED final_state, unready' \in BOOLEAN
      PROVE  CleanIInv'
  <2>1. ~live' /\ held' = {} /\ handle' = Missing /\ live' \in BOOLEAN
    BY <1>2 DEF Close
  <2>2. TypeOK'
    BY <1>1, <1>2, <2>1 DEF CleanIInv, TypeOK, world
  <2>3. Counted'
    BY <1>1, <1>2 DEF CleanIInv, Counted, world, Running
  <2> QED
    BY <1>1, <1>2, <2>1, <2>2, <2>3, StopKeepsCleanIInv DEF world
<1>3. CASE Fail("io") /\ Close /\ UNCHANGED <<final_state, unready>>
  BY <1>2, <1>3 DEF Fail, CleanIInv, Counted
<1>4. ASSUME NEW l \in Answers(handle), live, unready' = (l # layout[handle]),
             SameLayout(planned, Summary[l]), Announce, pc' = "delete",
             UNCHANGED <<status, handle, live, held>>
      PROVE  CleanIInv'
  <2>1. TypeOK'
    BY <1>1, <1>4 DEF CleanIInv, TypeOK, world, Announce
  <2>2. Counted'
    BY <1>1, <1>4 DEF CleanIInv, Counted, world, Running
  <2>3. DiskInv'
    BY <1>1, <1>4 DEF CleanIInv, DiskInv, BeforeDelete, Confirmed, world,
                      OnlyConfirmedDisksCleaned
  <2>4. LockInv'
    <3>1. ASSUME NEW l1 \in enumerated PROVE l1 < letter
      BY <1>1, BoundAssumption DEF CleanIInv, TypeOK, Counted, Letters
    <3> QED
      BY <1>1, <1>4, <3>1 DEF CleanIInv, LockInv, BeforeDelete, VolumesOf, world
  <2>5. LayoutInv'
    BY <1>1, <1>4 DEF CleanIInv, LayoutInv, BeforeDelete, SuccessIsRaw, VolumesOf, SameLayout, world
  <2> QED
    BY <2>1, <2>2, <2>3, <2>4, <2>5 DEF CleanIInv
<1>5. ASSUME NEW l, unready' = (l # layout[handle]), Fail("identity_changed"), Close,
             UNCHANGED final_state
      PROVE  CleanIInv'
  BY <1>2, <1>5 DEF Fail
<1> QED
  BY <1>3, <1>4, <1>5 DEF CompareLayout

LEMMA DeleteKeepsCleanIInv == CleanIInv /\ Delete => CleanIInv'
<1> SUFFICES ASSUME CleanIInv, Delete PROVE CleanIInv'
  OBVIOUS
<1>1. /\ UNCHANGED <<bound, busy, swaps, mounts, repartitions, before, planned, drives,
                     letter, tries, enumerated, attempt, after_style, raced, moved, trust>>
      /\ pc = "delete" /\ Close
  BY DEF Delete
<1>2. live' = FALSE /\ held' = {} /\ handle' = Missing
  BY <1>1 DEF Close
<1>3. handle \in Disks /\ deleted = {} /\ status # "ok"
  BY <1>1 DEF CleanIInv, DiskInv, LayoutInv, BeforeDelete
<1>4. /\ layout' \in [Disks -> Layouts]
      /\ volume' \in [Letters -> Disks \cup {Missing}]
      /\ deleted' \subseteq {handle}
  <2>1. PICK done \in BOOLEAN, stale \in SUBSET VolumesOf(handle) :
         /\ layout' = IF done THEN [layout EXCEPT ![handle] = Raw] ELSE layout
         /\ volume' = IF done THEN [l \in Letters |-> IF l \in VolumesOf(handle) \ stale
                                                      THEN Missing ELSE volume[l]]
                      ELSE volume
         /\ deleted' = IF done THEN deleted \cup {handle} ELSE deleted
    BY DEF Delete
  <2> QED
    BY <1>3, <2>1, DiskAssumption DEF CleanIInv, TypeOK
<1>5. \/ pc' = "done" /\ status' = "io" /\ UNCHANGED <<layout_deleted, final_state, verified>>
      \/ /\ final_state' = "clean_unverified" /\ verified' \in Layouts \cup {Unknown}
         /\ pc' = "probe_layout" /\ UNCHANGED status
  BY DEF Delete, Fail
<1>6. TypeOK'
  BY <1>1, <1>2, <1>3, <1>4, <1>5 DEF CleanIInv, TypeOK
<1>7. Counted'
  BY <1>1, <1>5 DEF CleanIInv, Counted, trust, Running
<1>8. DiskInv'
  <2>1. raced \/ Confirmed(handle)
    BY <1>1 DEF CleanIInv, DiskInv
  <2>2. moved \/ (handle \in UsbDisks /\ handle # ProgramDisk)
    BY <1>1 DEF CleanIInv, DiskInv
  <2>4. deleted' # deleted => live
    BY DEF Delete
  <2>5. (live /\ handle = SystemDisk) => WindowsLetter \in Opaque
    BY <1>1 DEF CleanIInv, LockInv
  <2>3. OnlyConfirmedDisksCleaned'
    BY <1>1, <1>3, <1>4, <2>1, <2>2, <2>4, <2>5 DEF OnlyConfirmedDisksCleaned, Confirmed
  <2> QED
    BY <1>2, <1>5, <2>3 DEF DiskInv, BeforeDelete
<1>9. LockInv' /\ LayoutInv'
  BY <1>1, <1>2, <1>3, <1>5 DEF CleanIInv, LockInv, LayoutInv, BeforeDelete, SuccessIsRaw
<1> QED
  BY <1>6, <1>7, <1>8, <1>9 DEF CleanIInv

-----------------------------------------------------------------------------
(* Verification.                                                             *)

\* Whatever was read, an attempt that does not succeed goes on or gives up.
LEMMA RetryKeepsCleanIInv ==
  ASSUME CleanIInv, pc \in {"probe_layout", "probe_target"}, Retry,
         verified' \in Layouts \cup {Unknown}, UNCHANGED trust,
         UNCHANGED <<world, before, planned, locking, final_state, layout_deleted, deleted, raced,
                     moved>>
  PROVE  CleanIInv'
<1>1. attempt \in Nat /\ attempt < Attempts /\ Attempts \in Nat
  BY BoundAssumption DEF CleanIInv, TypeOK, Counted, Running
<1>2. attempt' \in 0..Attempts /\ (attempt + 1 < Attempts => attempt' < Attempts)
  BY <1>1 DEF Retry
<1>3. after_style' \in Layouts \cup {Unknown}
  BY DEF Retry, CleanIInv, TypeOK
<1>4. TypeOK'
  BY <1>2, <1>3 DEF CleanIInv, TypeOK, world, locking
<1>5. pc' = "done" \/ (pc' = "probe_layout" /\ attempt' < Attempts)
  BY <1>2 DEF Retry, Fail
<1>6. Counted'
  BY <1>5 DEF CleanIInv, Counted, Running, world, locking, trust
<1>7. DiskInv' /\ LockInv'
  BY <1>5 DEF CleanIInv, DiskInv, LockInv, BeforeDelete, OnlyConfirmedDisksCleaned, world, locking
<1>8. status' # "ok"
  BY DEF Retry, Fail, CleanIInv, LayoutInv
<1>9. LayoutInv'
  BY <1>5, <1>8 DEF LayoutInv, BeforeDelete, SuccessIsRaw
<1> QED
  BY <1>4, <1>6, <1>7, <1>9 DEF CleanIInv

LEMMA ProbeLayoutKeepsCleanIInv == CleanIInv /\ ProbeLayout => CleanIInv'
<1> SUFFICES ASSUME CleanIInv, ProbeLayout PROVE CleanIInv'
  OBVIOUS
<1>1. /\ UNCHANGED <<world, before, planned, locking, final_state, layout_deleted, deleted, raced,
                     moved>>
      /\ pc = "probe_layout"
  BY DEF ProbeLayout
<1>2. CASE UNCHANGED verified /\ Retry /\ UNCHANGED trust
  BY <1>1, <1>2, RetryKeepsCleanIInv DEF CleanIInv, TypeOK
<1>3. CASE verified' = Unknown /\ Retry /\ UNCHANGED trust
  BY <1>1, <1>3, RetryKeepsCleanIInv
<1>4. CASE /\ bound # Missing /\ verified' \in Answers(bound)
           /\ dirtied' = FALSE /\ unready' = (verified' # layout[bound])
           /\ pc' = "probe_target" /\ UNCHANGED <<attempt, status, after_style>>
  <2>1. bound \in Disks /\ verified' \in Layouts
    BY <1>4, AnswersAreLayouts DEF CleanIInv, TypeOK
  <2>2. TypeOK'
    BY <1>1, <1>4, <2>1 DEF CleanIInv, TypeOK, world, locking
  <2>3. Counted'
    BY <1>1, <1>4 DEF CleanIInv, Counted, world, locking, Running
  <2>4. DiskInv' /\ LockInv'
    BY <1>1, <1>4 DEF CleanIInv, DiskInv, LockInv, BeforeDelete, OnlyConfirmedDisksCleaned, world,
                      locking
  <2>5. LayoutInv'
    BY <1>1, <1>4 DEF CleanIInv, LayoutInv, BeforeDelete, SuccessIsRaw, world
  <2> QED
    BY <2>2, <2>3, <2>4, <2>5 DEF CleanIInv
<1> QED
  BY <1>2, <1>3, <1>4 DEF ProbeLayout

LEMMA ProbeTargetKeepsCleanIInv == CleanIInv /\ ProbeTarget => CleanIInv'
<1> SUFFICES ASSUME CleanIInv, ProbeTarget PROVE CleanIInv'
  OBVIOUS
<1>1. /\ UNCHANGED <<verified, world, before, planned, locking, layout_deleted, deleted, raced,
                     moved, trust>>
      /\ pc = "probe_target"
  BY DEF ProbeTarget
<1>2. CASE Retry /\ UNCHANGED final_state
  BY <1>1, <1>2, RetryKeepsCleanIInv DEF CleanIInv, TypeOK
<1>3. ASSUME NEW seen \in Sightings(bound), bound # Missing, CleanNow(seen), UNCHANGED attempt,
             final_state' = "success_clean_verified", after_style' = verified,
             pc' = "done", status' = "ok"
      PROVE  CleanIInv'
  <2>1. TypeOK'
    BY <1>1, <1>3 DEF CleanIInv, TypeOK, world, locking
  <2>2. Counted'
    BY <1>1, <1>3 DEF CleanIInv, Counted, world, locking, trust, Running
  <2>3. DiskInv' /\ LockInv'
    BY <1>1, <1>3 DEF CleanIInv, DiskInv, LockInv, BeforeDelete, OnlyConfirmedDisksCleaned, world,
                      locking
  <2>6. VolumesOf(bound) \subseteq Opaque
    BY <1>3, SightingsAreNear DEF CleanNow
  <2>4. SuccessIsRaw'
    BY <1>1, <1>3, <2>6 DEF CleanIInv, LayoutInv, SuccessIsRaw, CleanNow, VolumesOf, world, trust
  <2>5. LayoutInv'
    BY <1>3, <2>4 DEF LayoutInv, BeforeDelete
  <2> QED
    BY <2>1, <2>2, <2>3, <2>5 DEF CleanIInv
<1> QED
  BY <1>2, <1>3 DEF ProbeTarget

-----------------------------------------------------------------------------
(* The world.                                                                *)

LEMMA SwapKeepsCleanIInv == CleanIInv /\ Swap => CleanIInv'
<1> SUFFICES ASSUME CleanIInv, Swap PROVE CleanIInv'
  OBVIOUS
<1>1. /\ bound' \in Disks \cup {Missing} /\ live' = FALSE /\ moved' = TRUE /\ Running
      /\ UNCHANGED <<layout, volume, busy, mounts, repartitions, program, enumerated, trust>>
  BY DEF Swap
<1>2. swaps' \in Nat
  BY DEF Swap, CleanIInv, Counted
<1>3. raced' \in BOOLEAN /\ (raced => raced') /\ (pc = "open" => raced')
  BY DEF Swap, CleanIInv, Counted
<1>4. TypeOK'
  BY <1>1 DEF CleanIInv, TypeOK, program, outcome, report
<1>5. Counted'
  BY <1>1, <1>2, <1>3 DEF CleanIInv, Counted, Running, program, trust
<1>6. DiskInv'
  BY <1>1, <1>3 DEF CleanIInv, DiskInv, BeforeDelete, Confirmed,
                    OnlyConfirmedDisksCleaned, program, outcome
<1>7. LockInv' /\ LayoutInv'
  BY <1>1 DEF CleanIInv, LockInv, LayoutInv, BeforeDelete, Running, SuccessIsRaw, VolumesOf,
              program, outcome, trust
<1> QED
  BY <1>4, <1>5, <1>6, <1>7 DEF CleanIInv

LEMMA MountVolumeKeepsCleanIInv == CleanIInv /\ MountVolume => CleanIInv'
<1> SUFFICES ASSUME CleanIInv, MountVolume PROVE CleanIInv'
  OBVIOUS
<1>1. /\ UNCHANGED <<bound, layout, swaps, repartitions, program, live, raced, moved, trust>>
      /\ Running
  BY DEF MountVolume
<1>2. mounts' \in Nat
  BY DEF MountVolume, CleanIInv, Counted
<1>3. PICK l \in Letters \ (held \cup {WindowsLetter}) :
        /\ \/ \E d \in Disks : layout[d] # Raw /\ volume' = [volume EXCEPT ![l] = d]
           \/ volume' = [volume EXCEPT ![l] = Missing]
        /\ enumerated' = enumerated \ {l}
        /\ busy' = busy \ {l}
  BY DEF MountVolume
<1>4. TypeOK'
  <2>1. volume' \in [Letters -> Disks \cup {Missing}]
    BY <1>3 DEF CleanIInv, TypeOK
  <2> QED
    BY <1>1, <1>3, <2>1 DEF CleanIInv, TypeOK, program, outcome, report
<1>5. Counted'
  BY <1>1, <1>2, <1>3 DEF CleanIInv, Counted, Running, program, trust
<1>6. DiskInv'
  BY <1>1 DEF CleanIInv, DiskInv, BeforeDelete, Confirmed,
              OnlyConfirmedDisksCleaned, program, outcome
<1>7. \A k \in Letters \ {l} : volume'[k] = volume[k]
  BY <1>3 DEF CleanIInv, TypeOK
<1>8. LockInv'
  BY <1>1, <1>3, <1>7, BoundAssumption DEF CleanIInv, LockInv, BeforeDelete, VolumesOf, program
<1>9. LayoutInv'
  <2>1. (bound \in Disks /\ layout[bound] = Raw) => VolumesOf(bound)' \subseteq VolumesOf(bound)
    BY <1>1, <1>3, <1>7, DiskAssumption DEF VolumesOf, CleanIInv, TypeOK
  <2>2. (pc = "layout" /\ ~moved) => bound \in Disks
    BY DiskAssumption DEF CleanIInv, DiskInv
  <2> QED
    BY <1>1, <2>1, <2>2 DEF CleanIInv, LayoutInv, Running, SuccessIsRaw, program, outcome, trust
<1> QED
  BY <1>4, <1>5, <1>6, <1>8, <1>9 DEF CleanIInv

LEMMA UseVolumeKeepsCleanIInv == CleanIInv /\ UseVolume => CleanIInv'
<1> SUFFICES ASSUME CleanIInv, UseVolume PROVE CleanIInv'
  OBVIOUS
<1>1. /\ UNCHANGED <<bound, layout, volume, swaps, mounts, repartitions, program, live,
                     enumerated, raced, moved, trust>>
      /\ busy' \subseteq Letters /\ (WindowsLetter \in busy => WindowsLetter \in busy')
  BY DEF UseVolume, CleanIInv, TypeOK
<1>2. TypeOK' /\ Counted'
  BY <1>1 DEF CleanIInv, TypeOK, Counted, Running, program, outcome, report, trust
<1>3. DiskInv'
  BY <1>1 DEF CleanIInv, DiskInv, BeforeDelete, Confirmed,
              OnlyConfirmedDisksCleaned, program, outcome
<1>4. LockInv' /\ LayoutInv'
  BY <1>1 DEF CleanIInv, LockInv, LayoutInv, BeforeDelete, SuccessIsRaw, VolumesOf, Running,
              program, outcome, report, trust
<1> QED
  BY <1>2, <1>3, <1>4 DEF CleanIInv

LEMMA RepartitionKeepsCleanIInv == CleanIInv /\ Repartition => CleanIInv'
<1> SUFFICES ASSUME CleanIInv, Repartition PROVE CleanIInv'
  OBVIOUS
<1>1. /\ UNCHANGED <<bound, busy, swaps, mounts, program, live, raced, moved, unready>>
      /\ dirtied' = TRUE /\ Running
  BY DEF Repartition
<1>2. repartitions' \in Nat
  BY DEF Repartition, CleanIInv, Counted
<1>3. PICK d \in Disks, l \in Layouts :
         /\ volume[WindowsLetter] # d
         /\ layout' = [layout EXCEPT ![d] = l]
         /\ volume' = [k \in Letters |-> IF volume[k] = d THEN Missing ELSE volume[k]]
         /\ enumerated' = enumerated \ VolumesOf(d)
  BY DEF Repartition
<1>4. /\ layout' \in [Disks -> Layouts]
      /\ volume' \in [Letters -> Disks \cup {Missing}]
  BY <1>3 DEF CleanIInv, TypeOK
<1>5. TypeOK'
  BY <1>1, <1>4 DEF CleanIInv, TypeOK, program, outcome, report
<1>6. Counted'
  BY <1>1, <1>2, <1>3 DEF CleanIInv, Counted, Running, program
<1>7. DiskInv'
  BY <1>1 DEF CleanIInv, DiskInv, BeforeDelete, Confirmed,
              OnlyConfirmedDisksCleaned, program, outcome
<1>8. LockInv'
  BY <1>1, <1>3, BoundAssumption DEF CleanIInv, LockInv, BeforeDelete, VolumesOf, program
<1>9. LayoutInv'
  <2>1. bound \in Disks => \/ VolumesOf(bound)' = {}
                           \/ layout'[bound] = layout[bound] /\ VolumesOf(bound)' = VolumesOf(bound)
    BY <1>1, <1>3, DiskAssumption DEF VolumesOf, CleanIInv, TypeOK
  <2>2. (pc = "layout" /\ ~moved) => bound \in Disks
    BY DiskAssumption DEF CleanIInv, DiskInv
  <2> QED
    BY <1>1, <2>1, <2>2 DEF CleanIInv, LayoutInv, Running, SuccessIsRaw, program, outcome
<1> QED
  BY <1>5, <1>6, <1>7, <1>8, <1>9 DEF CleanIInv

LEMMA KillKeepsCleanIInv == CleanIInv /\ Kill => CleanIInv'
<1> SUFFICES ASSUME CleanIInv, Kill PROVE CleanIInv'
  OBVIOUS
<1>1. /\ pc' = "killed" /\ handle' = Missing /\ live' = FALSE /\ held' = {} /\ Running
      /\ UNCHANGED <<world, before, planned, drives, letter, tries, enumerated, attempt, verified,
                     outcome, raced, moved, trust>>
  BY DEF Kill, Close
<1>2. TypeOK' /\ Counted'
  BY <1>1 DEF CleanIInv, TypeOK, Counted, Running, world, outcome, report, trust
<1>3. status' # "ok"
  BY <1>1 DEF CleanIInv, LayoutInv, Running, outcome
<1> QED
  BY <1>1, <1>2, <1>3, StopKeepsCleanIInv DEF outcome, world

LEMMA StutterKeepsCleanIInv == CleanIInv /\ UNCHANGED vars => CleanIInv'
<1> SUFFICES ASSUME CleanIInv, UNCHANGED vars PROVE CleanIInv'
  OBVIOUS
<1> USE DEF vars, world, locking, report, trust, outcome
<1>1. TypeOK' /\ Counted'
  BY DEF CleanIInv, TypeOK, Counted, Running
<1>2. DiskInv'
  BY DEF CleanIInv, DiskInv, BeforeDelete, Confirmed, OnlyConfirmedDisksCleaned
<1>3. LockInv' /\ LayoutInv'
  BY DEF CleanIInv, LockInv, LayoutInv, BeforeDelete, SuccessIsRaw, VolumesOf, Running
<1> QED
  BY <1>1, <1>2, <1>3 DEF CleanIInv

-----------------------------------------------------------------------------
(* The theorems.                                                             *)

\* The disk at stake, the locks and what was read of the layout hang together at
\* every step of every run.
THEOREM CleanInduction == Spec => []CleanIInv
<1>1. CleanIInv /\ [Next]_vars => CleanIInv'
  BY InspectKeepsCleanIInv, QueryLayoutKeepsCleanIInv, ReinspectKeepsCleanIInv, OpenKeepsCleanIInv,
     LockVolumeKeepsCleanIInv, CompareLayoutKeepsCleanIInv, DeleteKeepsCleanIInv,
     ProbeLayoutKeepsCleanIInv, ProbeTargetKeepsCleanIInv, SwapKeepsCleanIInv,
     MountVolumeKeepsCleanIInv, UseVolumeKeepsCleanIInv, RepartitionKeepsCleanIInv,
     KillKeepsCleanIInv, StutterKeepsCleanIInv
  DEF Next, Step
<1> QED
  BY InitEstablishesCleanIInv, <1>1, PTL DEF Spec

\* Every variable of the cleaner keeps its type, and the attempts their bounds.
THEOREM CleanerIsTyped == Spec => []TypeOK
<1>1. CleanIInv => TypeOK
  BY DEF CleanIInv
<1> QED
  BY <1>1, CleanInduction, PTL

\* For any number of disks, and wherever disk numbers wander: a layout goes only
\* from a disk whose token the operator confirmed and that nothing protects,
\* unless the number was rebound between the re-inspection and the open; and not
\* from the disk Windows runs from, whatever the number did, as long as its volume
\* answers the query for its extents.
THEOREM OnlyConfirmedDisks == Spec => []OnlyConfirmedDisksCleaned
<1>1. CleanIInv => OnlyConfirmedDisksCleaned
  BY DEF CleanIInv, DiskInv
<1> QED
  BY <1>1, CleanInduction, PTL

\* Whichever step a run fails in, and when it is killed, no volume stays locked.
THEOREM LocksAreReleased == Spec => []VolumesAreReleased
<1>1. CleanIInv => VolumesAreReleased
  BY DEF CleanIInv, LockInv, VolumesAreReleased, Running
<1> QED
  BY <1>1, CleanInduction, PTL

\* For any layouts and any number of attempts: success is reported only for a
\* disk without partitions, and without a volume that is bound to answer the query
\* for its extents, unless the world moved on or the disk was not ready when last
\* asked.
THEOREM CleanSuccessIsRaw == Spec => []SuccessIsRaw
<1>1. CleanIInv => SuccessIsRaw
  BY DEF CleanIInv, LayoutInv
<1> QED
  BY <1>1, CleanInduction, PTL

\* What a deletion finds.
LEMMA DeletionIsPrepared ==
  ASSUME CleanIInv, [Next]_vars, deleted' # deleted
  PROVE  pc = "delete" /\ live
<1>1. Delete
  BY DEF Next, Step, vars, outcome, Inspect, QueryLayout, Reinspect, Open, LockVolume,
         CompareLayout, ProbeLayout, ProbeTarget, Swap, MountVolume, UseVolume, Repartition,
         Kill, program
<1> QED
  BY <1>1 DEF Delete

\* For any number of letters and any schedule of mounts, programs and swaps: when
\* a layout goes every volume that lay on the disk when its letters were listed,
\* and still does, is locked and dismounted; one that need not answer the query
\* for its extents may be left, and excuses no other.
THEOREM LayoutsGoUnderLocks == Spec => DeletesUnderLocks
<1>1. CleanIInv /\ [Next]_vars => (deleted' # deleted => enumerated \ Opaque \subseteq held)
  BY DeletionIsPrepared DEF CleanIInv, LockInv
<1> QED
  BY <1>1, CleanInduction, PTL DEF Spec, DeletesUnderLocks

\* The layout that goes is the one that was planned, unless another tool wrote a
\* new one after the comparison or the disk was not ready for it.
THEOREM ThePlannedLayoutGoes == Spec => DeletesThePlannedLayout
<1>1. CleanIInv /\ [Next]_vars =>
         ((deleted' # deleted /\ ~dirtied /\ ~unready) => Summary[layout[handle]] = planned)
  BY DeletionIsPrepared DEF CleanIInv, LayoutInv
<1> QED
  BY <1>1, CleanInduction, PTL DEF Spec, DeletesThePlannedLayout
=============================================================================

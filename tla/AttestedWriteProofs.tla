-------------------------- MODULE AttestedWriteProofs --------------------------
(* Theorems about AttestedWrite, for every number of drives, every image,    *)
(* every choice of options and every bound.                                  *)
EXTENDS AttestedWrite, WriteImageProofs

-----------------------------------------------------------------------------
(* The actions of the seal command and of the seal check.                    *)

LEMMA AttestedInitEstablishes == AttestedInit => AttestedIInv
<1> SUFFICES ASSUME AttestedInit PROVE AttestedIInv
  OBVIOUS
<1> USE DEF AttestedInit
<1>1. WorldOK
  BY ObjectAssumption DEF WorldOK, Objects
<1>2. AttestingInv
  BY <1>1 DEF AttestingInv
<1>3. WritingInv
  BY DEF WritingInv, Attesting, SealedSteps, Steps
<1>4. GrantInv /\ NothingWithoutSeal /\ SuccessIsSealed
  BY DEF GrantInv, OnlyConfirmedDrivesTouched, NothingWithoutSeal, SuccessIsSealed, SealedSteps,
         Steps
<1> QED
  BY <1>1, <1>2, <1>3, <1>4 DEF AttestedIInv

\* A refusal by the seal command or the seal check ends the run with nothing
\* touched.
LEMMA RefusalPreserves ==
  ASSUME AttestedIInv, pc \in Attesting, NEW s, s # "ok", Return(s),
         UNCHANGED <<touched, seal>>
  PROVE  AttestedIInv'
<1>1. pc' = "returned" /\ status' # "ok" /\ touched' = {}
  BY DEF Return, AttestedIInv, AttestingInv
<1>2. WritingInv'
  BY <1>1 DEF WritingInv, AttestedIInv, SealedSteps, Steps
<1>3. AttestingInv' /\ NothingWithoutSeal' /\ SuccessIsSealed' /\ GrantInv'
  BY <1>1 DEF Attesting, AttestingInv, NothingWithoutSeal, SuccessIsSealed, GrantInv,
              OnlyConfirmedDrivesTouched, SealedSteps, Steps
<1> QED
  BY <1>2, <1>3 DEF AttestedIInv

\* The computation of a plan goes on.
LEMMA AttestingGoesOn ==
  ASSUME AttestedIInv, pc \in Attesting, pc' \in Attesting,
         AttestingInv', UNCHANGED touched, seal' \in PlanType \cup {NoPlan}
  PROVE  AttestedIInv'
<1>1. touched' = {} /\ pc' \notin SealedSteps \cup {"killed", "returned"}
  BY DEF AttestedIInv, AttestingInv, Attesting, SealedSteps, Steps
<1>2. WritingInv' /\ NothingWithoutSeal' /\ SuccessIsSealed'
  BY <1>1 DEF WritingInv, NothingWithoutSeal, SuccessIsSealed
<1>3. GrantInv'
  BY <1>1 DEF GrantInv, OnlyConfirmedDrivesTouched, SealedSteps, Steps
<1> QED
  BY <1>2, <1>3 DEF AttestedIInv

LEMMA AttestOpenPreserves == AttestedIInv /\ AttestOpen => AttestedIInv'
<1> SUFFICES ASSUME AttestedIInv, AttestOpen PROVE AttestedIInv'
  OBVIOUS
<1>1. /\ pc \in Attesting
      /\ UNCHANGED <<world, offset, hashed, result, opts, planned, buffer, attempt, observers,
                     attest_vars>>
  BY DEF AttestOpen, Unplanned, Attesting
<1>2. CASE Return("open")
  BY <1>1, <1>2, RefusalPreserves DEF observers, attest_vars
<1>3. CASE src_size' = OpenedSize /\ pc' = "attest_hash" /\ UNCHANGED <<status, target>>
  <2>1. source \in Seq(Bytes)
    BY <1>1, ByteAssumption DEF AttestedIInv, AttestingInv, WorldOK
  <2>2. src_size' \in Nat
    BY <1>3, <2>1 DEF OpenedSize
  <2>3. offset = 0
    BY DEF AttestOpen, AttestedIInv, AttestingInv, Attesting
  <2>4. AttestingInv'
    BY <1>1, <1>3, <2>2, <2>3
    DEF AttestedIInv, AttestingInv, WorldOK, world, counters, observers, attest_vars
  <2>5. seal' \in PlanType \cup {NoPlan}
    BY <1>1 DEF AttestedIInv, WritingInv, attest_vars
  <2> QED
    BY <1>1, <1>3, <2>4, <2>5, AttestingGoesOn DEF Attesting, observers
<1> QED
  BY <1>2, <1>3 DEF AttestOpen

LEMMA AttestHashPreserves == AttestedIInv /\ AttestHash => AttestedIInv'
<1> SUFFICES ASSUME AttestedIInv, AttestHash PROVE AttestedIInv'
  OBVIOUS
<1> DEFINE n == Least(src_size - offset, Buffer)
<1>1. /\ pc \in Attesting /\ pc = "attest_hash"
      /\ UNCHANGED <<world, src_size, result, opts, planned, buffer, attempt, observers,
                     attest_vars>>
  BY DEF AttestHash, Unplanned, Attesting
<1>2. /\ source \in Seq(Bytes) /\ hashed \in Seq(Bytes) /\ Len(hashed) = offset
      /\ offset \in Nat /\ src_size \in Nat /\ offset <= src_size
  BY <1>1, ByteAssumption DEF AttestedIInv, AttestingInv, WorldOK
<1>3. touched' = touched /\ seal' = seal /\ seal' \in PlanType \cup {NoPlan}
  BY <1>1 DEF observers, attest_vars, AttestedIInv, WritingInv
<1>4. CASE Return("io") \/ Return("too_small")
  BY <1>1, <1>3, <1>4, RefusalPreserves
<1>5. CASE /\ offset < src_size /\ offset + n <= Len(source)
           /\ hashed' = Extend(source, n) /\ offset' = offset + n
           /\ UNCHANGED <<pc, status, target>>
  <2>1. n \in Nat /\ n <= src_size - offset
    BY <1>2, <1>5, ChunkIsInImage
  <2> HIDE DEF n
  <2>2. hashed' \in Seq(Bytes) /\ Len(hashed') = offset'
    BY <1>2, <1>5, <2>1, ExtendIsBytes
  <2>3. offset' \in Nat /\ offset' <= src_size'
    BY <1>1, <1>2, <1>5, <2>1
  <2>4. AttestingInv'
    BY <1>1, <1>5, <2>2, <2>3
    DEF AttestedIInv, AttestingInv, WorldOK, world, counters, observers, attest_vars
  <2> QED
    BY <1>1, <1>3, <1>5, <2>4, AttestingGoesOn
<1>6. CASE /\ src_size > 0 /\ offset >= src_size /\ pc' = "attest_inspect"
           /\ UNCHANGED <<offset, hashed, status, target>>
  <2>1. hashed # << >>
    BY <1>2, <1>6
  <2>2. AttestingInv'
    BY <1>1, <1>6, <2>1
    DEF AttestedIInv, AttestingInv, WorldOK, world, counters, observers, attest_vars
  <2> QED
    BY <1>1, <1>3, <1>6, <2>2, AttestingGoesOn DEF Attesting
<1> QED
  BY <1>4, <1>5, <1>6 DEF AttestHash

-----------------------------------------------------------------------------
(* The seal check.                                                           *)

\* The plan that AttestInspect computes.
LivePlan == [source |-> hashed, token |-> Descriptor(bound).token,
             is_device |-> Descriptor(bound).is_device, size |-> Descriptor(bound).size,
             policy |-> Policy(opts)]

LEMMA LivePlanIsTyped ==
  ASSUME AttestedIInv, pc = "attest_inspect"
  PROVE  LivePlan \in PlanType
<1>1. /\ hashed \in Seq(Bytes) /\ opts \in Options /\ bound \in Objects \cup {Missing}
      /\ media \in [Objects -> Seq(Bytes)]
  BY DEF AttestedIInv, AttestingInv, Attesting, WorldOK
<1>2. SizeOf(bound) \in Nat
  BY <1>1 DEF SizeOf
<1>3. Token(bound) \in Tokens
  BY <1>2 DEF Token, Tokens
<1>4. /\ Descriptor(bound).token \in Tokens /\ Descriptor(bound).is_device \in BOOLEAN
      /\ Descriptor(bound).size \in Nat
  BY <1>2, <1>3 DEF Descriptor
<1> QED
  BY <1>1, <1>4 DEF LivePlan, PlanType

\* The plan is sealed: the operator goes on to the write.
LEMMA SealingPreserves ==
  ASSUME AttestedIInv, AttestInspect, sealing, pc' = "attest_open"
  PROVE  AttestedIInv'
<1>1. /\ pc = "attest_inspect" /\ pc \in Attesting
      /\ seal' = LivePlan /\ sealing' = FALSE /\ UNCHANGED plan /\ opts' \in Options
      /\ UNCHANGED <<status, target>> /\ src_size' = 0 /\ offset' = 0 /\ hashed' = << >>
      /\ UNCHANGED <<world, planned, buffer, attempt, result, observers>>
  BY DEF AttestInspect, Return, LivePlan, Attesting
<1>2. seal' \in PlanType \cup {NoPlan}
  BY <1>1, LivePlanIsTyped
<1>3. AttestingInv'
  BY <1>1 DEF AttestedIInv, AttestingInv, WorldOK, world, counters, observers
<1> QED
  BY <1>1, <1>2, <1>3, AttestingGoesOn DEF Attesting, observers

\* The seal check passes: the writer starts, from the state it expects.
LEMMA AcceptedStartsWriter ==
  ASSUME AttestedIInv, AttestInspect, pc' = "open_source"
  PROVE  IInv' /\ GrantInv'
<1>1. /\ pc = "attest_inspect" /\ UNCHANGED <<status, target, opts>>
      /\ src_size' = 0 /\ offset' = 0 /\ hashed' = << >>
      /\ UNCHANGED <<world, planned, buffer, attempt, result, observers>>
  BY DEF AttestInspect, Return
<1>2. AttestingInv /\ pc \in Attesting
  BY <1>1 DEF AttestedIInv, Attesting
<1>3. WorldOK' /\ opts' \in Options
  BY <1>1, <1>2 DEF AttestingInv, WorldOK, world, counters
<1>4. /\ target' = NoFile /\ buffer' = << >> /\ attempt' = 0 /\ result' = EmptyResult
      /\ touched' = {} /\ written_to' = Missing
      /\ unflushed' = FALSE /\ raced' = FALSE /\ swapped' = FALSE /\ rotted' = FALSE
  BY <1>1, <1>2 DEF AttestingInv, observers
<1> QED
  BY <1>1, <1>3, <1>4, FreshRunIsGood

LEMMA AcceptedPreserves ==
  ASSUME AttestedIInv, AttestInspect, pc' = "open_source"
  PROVE  AttestedIInv' /\ Passed'
<1>1. /\ pc = "attest_inspect" /\ UNCHANGED <<opts, seal>>
      /\ plan' = LivePlan /\ SealAccepted(LivePlan)
      /\ Descriptor(bound).is_device => opts.confirmation_token = Descriptor(bound).token
  BY DEF AttestInspect, Return, LivePlan
<1>2. seal = LivePlan /\ seal # NoPlan /\ LivePlan \in PlanType
  BY <1>1, LivePlanIsTyped, PlanAssumption DEF SealAccepted
<1>3. /\ seal.is_device = Descriptor(bound).is_device /\ seal.token = Descriptor(bound).token
      /\ seal.policy = Policy(opts) /\ seal.source = hashed
  BY <1>2 DEF LivePlan
<1>4. hashed # << >>
  BY <1>1 DEF AttestedIInv, AttestingInv, Attesting
<1>5. Passed'
  BY <1>1, <1>2 DEF Passed
<1>6. NothingWithoutSeal'
  BY <1>1, <1>3, <1>4, <1>5 DEF NothingWithoutSeal, Policy
<1>7. WritingInv'
  BY <1>1, <1>2, <1>3, AcceptedStartsWriter DEF WritingInv, SealedSteps, Steps
<1>8. AttestingInv' /\ SuccessIsSealed'
  BY DEF Attesting, AttestingInv, SuccessIsSealed
<1> QED
  BY <1>5, <1>6, <1>7, <1>8, AcceptedStartsWriter DEF AttestedIInv

LEMMA AttestInspectPreserves == AttestedIInv /\ AttestInspect => AttestedIInv'
<1> SUFFICES ASSUME AttestedIInv, AttestInspect PROVE AttestedIInv'
  OBVIOUS
<1>1. pc \in Attesting /\ touched' = touched
  BY DEF AttestInspect, Attesting, observers
<1>2. CASE \E s \in {"open", "refused", "confirmation"} : Return(s) /\ seal' = seal
  BY <1>1, <1>2, RefusalPreserves
<1>3. CASE sealing /\ pc' = "attest_open"
  BY <1>3, SealingPreserves
<1>4. CASE pc' = "open_source"
  BY <1>4, AcceptedPreserves
<1> QED
  BY <1>2, <1>3, <1>4 DEF AttestInspect, attest_vars

\* The writer has returned: only a success with the sealed digest stays one.
LEMMA CheckBreachPreserves == AttestedIInv /\ CheckBreach => AttestedIInv'
<1> SUFFICES ASSUME AttestedIInv, CheckBreach PROVE AttestedIInv'
  OBVIOUS
<1>1. /\ pc = "done" /\ pc' = "returned"
      /\ UNCHANGED <<world, opts, observers, attest_vars>>
  BY DEF CheckBreach, Return, Unplanned
<1>2. Passed /\ NothingWithoutSeal /\ IInv
  BY <1>1 DEF AttestedIInv, NothingWithoutSeal, WritingInv, SealedSteps
<1>3. SuccessIsSealed'
  <2> SUFFICES ASSUME status' = "ok"
               PROVE  /\ result'.source_sha256 = seal'.source
                      /\ rots' = 0 => Holds(written_to, seal.source)'
    BY DEF SuccessIsSealed
  <2>1. status = "ok" /\ StreamWasSealed /\ result' = result
    BY DEF CheckBreach, Return
  <2>2. result.source_sha256 = seal.source
    BY <1>2, <2>1 DEF StreamWasSealed, Passed
  <2>3. rots = 0 => Holds(written_to, seal.source)
    BY <1>1, <1>2, <2>1, <2>2 DEF IInv, MediaInv, Succeeded
  <2> QED
    BY <1>1, <2>1, <2>2, <2>3 DEF Holds, world, counters, observers, attest_vars
<1>4. NothingWithoutSeal'
  BY <1>1, <1>2 DEF NothingWithoutSeal, Passed, Policy, SealedSteps, Steps, observers, attest_vars
<1>5. WritingInv'
  BY <1>1 DEF AttestedIInv, WritingInv, SealedSteps, Steps, observers, attest_vars
<1>6. AttestingInv' /\ GrantInv'
  <2>1. GrantInv
    BY DEF AttestedIInv
  <2> QED
    BY <1>1, <2>1 DEF AttestingInv, Attesting, GrantInv, OnlyConfirmedDrivesTouched, Granted,
                      observers
<1> QED
  BY <1>3, <1>4, <1>5, <1>6 DEF AttestedIInv

-----------------------------------------------------------------------------
(* The writer's steps, and the world's.                                      *)

LEMMA StepKeepsOptions == Step => UNCHANGED opts
<1>1. OpenSource \/ InspectTarget \/ HashSource \/ Reinspect \/ OpenTarget \/ Resize
      => UNCHANGED opts
  BY DEF OpenSource, InspectTarget, HashSource, Reinspect, OpenTarget, Resize
<1>2. ReadSource \/ WriteChunk \/ WriteFails \/ CheckStream \/ Flush => UNCHANGED opts
  BY DEF ReadSource, WriteChunk, WriteFails, CheckStream, Flush
<1>3. OpenReadback \/ FullReadback \/ SampleReadback => UNCHANGED opts
  BY DEF OpenReadback, FullReadback, SampleReadback
<1> QED
  BY <1>1, <1>2, <1>3 DEF Step

LEMMA StepStartsInStep == Step => pc \in Steps
<1>1. OpenSource \/ InspectTarget \/ HashSource \/ Reinspect \/ OpenTarget \/ Resize
      => pc \in Steps
  BY DEF OpenSource, InspectTarget, HashSource, Reinspect, OpenTarget, Resize, Steps
<1>2. ReadSource \/ WriteChunk \/ WriteFails \/ CheckStream \/ Flush => pc \in Steps
  BY DEF ReadSource, WriteChunk, WriteFails, CheckStream, Flush, Steps
<1>3. OpenReadback \/ FullReadback \/ SampleReadback => pc \in Steps
  BY DEF OpenReadback, FullReadback, SampleReadback, Steps
<1> QED
  BY <1>1, <1>2, <1>3 DEF Step

\* Once the seal check has passed, whatever keeps the writer's invariant and
\* the operator's options keeps the whole one.
LEMMA WritingGoesOn ==
  ASSUME AttestedIInv, pc \in SealedSteps, IInv', GrantInv', UNCHANGED <<opts, attest_vars>>
  PROVE  AttestedIInv'
<1>1. pc' \in SealedSteps \cup {"killed"}
  BY DEF IInv, TypeOK, SealedSteps
<1>2. NothingWithoutSeal'
  BY DEF AttestedIInv, NothingWithoutSeal, Passed, Policy, attest_vars
<1>3. WritingInv'
  BY <1>1 DEF AttestedIInv, WritingInv, attest_vars
<1>4. AttestingInv' /\ SuccessIsSealed'
  BY <1>1 DEF AttestingInv, Attesting, SuccessIsSealed, SealedSteps, Steps
<1> QED
  BY <1>2, <1>3, <1>4 DEF AttestedIInv

LEMMA WriterStepPreserves == AttestedIInv /\ Step /\ UNCHANGED attest_vars => AttestedIInv'
<1> SUFFICES ASSUME AttestedIInv, Step, UNCHANGED attest_vars PROVE AttestedIInv'
  OBVIOUS
<1>1. pc \in SealedSteps /\ UNCHANGED opts
  BY StepStartsInStep, StepKeepsOptions DEF SealedSteps
<1>2. IInv /\ GrantInv
  BY <1>1 DEF AttestedIInv, WritingInv
<1>3. IInv' /\ GrantInv'
  BY <1>2, StepPreservesIInv, NextKeepsGrantInv DEF Next
<1> QED
  BY <1>1, <1>3, WritingGoesOn

LEMMA DisturbanceKeepsOptions == Environment => UNCHANGED opts
BY DEF Environment, EditSource, SwapDrive, Rot, Mount, Kill, program

LEMMA DisturbanceWhileWriting ==
  ASSUME AttestedIInv, Disturbance, UNCHANGED attest_vars, pc \in SealedSteps
  PROVE  AttestedIInv'
<1>1. IInv /\ GrantInv /\ Environment
  BY DEF AttestedIInv, WritingInv, Disturbance, Environment
<1>2. IInv' /\ GrantInv'
  BY <1>1, EnvironmentPreservesIInv, NextKeepsGrantInv DEF Next
<1> QED
  BY <1>1, <1>2, DisturbanceKeepsOptions, WritingGoesOn

\* The world moves while a plan is being computed: nothing of the writer has
\* been set in motion yet.
LEMMA DisturbanceWhileAttesting ==
  ASSUME AttestedIInv, EditSource \/ SwapDrive \/ Rot \/ Mount, UNCHANGED attest_vars,
         pc \in Attesting
  PROVE  AttestedIInv'
<1> USE DEF AttestedIInv, program, observers, attest_vars
<1>1. UNCHANGED program /\ AttestingInv /\ WorldOK
  BY DEF EditSource, SwapDrive, Rot, Mount, AttestingInv
<1>2. WorldOK'
  <2>1. EditSource \/ Mount => WorldOK'
    BY <1>1 DEF EditSource, Mount, WorldOK
  <2>2. SwapDrive => WorldOK'
    BY <1>1 DEF SwapDrive, WorldOK, Objects
  <2>3. ASSUME Rot PROVE WorldOK'
    <3>1. PICK o \in Objects : \E i \in DOMAIN media[o] :
             media' = [media EXCEPT ![o] = [media[o] EXCEPT ![i] = Junk]]
      BY <2>3 DEF Rot
    <3>2. PICK i \in DOMAIN media[o] : media' = [media EXCEPT ![o] = [media[o] EXCEPT ![i] = Junk]]
      BY <3>1
    <3>3. [media[o] EXCEPT ![i] = Junk] \in Seq(Bytes)
      BY <1>1, <3>2, ByteAssumption DEF WorldOK
    <3>4. media' \in [Objects -> Seq(Bytes)]
      BY <1>1, <3>2, <3>3 DEF WorldOK
    <3> QED
      BY <1>1, <2>3, <3>4 DEF Rot, WorldOK
  <2> QED
    BY <2>1, <2>2, <2>3
<1>3. target' = NoFile
  <2>1. target = NoFile
    BY <1>1 DEF AttestingInv
  <2>2. target' = target \/ target' = [target EXCEPT !.live = FALSE]
    BY DEF EditSource, SwapDrive, Rot, Mount
  <2> QED
    BY <2>1, <2>2 DEF NoFile
<1>4. /\ touched' = {} /\ written_to' = Missing
      /\ unflushed' = FALSE /\ raced' = FALSE /\ swapped' = FALSE /\ rotted' = FALSE
  BY <1>1 DEF EditSource, SwapDrive, Rot, Mount, AttestingInv, Attesting
<1>5. AttestingInv'
  BY <1>1, <1>2, <1>3, <1>4 DEF AttestingInv
<1>6. touched' = touched /\ seal' \in PlanType \cup {NoPlan} /\ pc' \in Attesting
  BY <1>1, <1>4 DEF AttestingInv, WritingInv
<1> QED
  BY <1>5, <1>6, AttestingGoesOn

LEMMA KillWhileAttesting ==
  ASSUME AttestedIInv, Kill, UNCHANGED attest_vars, pc \in Attesting
  PROVE  AttestedIInv'
<1>1. /\ AttestingInv /\ pc' = "killed" /\ target' = NoFile
      /\ UNCHANGED <<world, opts, src_size, offset, hashed, buffer, attempt, result, observers>>
  BY DEF AttestedIInv, Kill
<1>2. TypeOK'
  <2>1. WorldOK'
    BY <1>1 DEF AttestingInv, WorldOK, world, counters
  <2> QED
    BY <1>1, <2>1, IdleIsTyped DEF AttestingInv, observers
<1>3. IInv'
  BY <1>1, <1>2, StopPreservesIInv DEF Succeeded
<1>4. touched' = {} /\ seal' = seal
  BY <1>1 DEF AttestingInv, observers, attest_vars
<1>5. WritingInv'
  BY <1>1, <1>3, <1>4 DEF AttestedIInv, WritingInv, SealedSteps, Steps
<1>6. AttestingInv' /\ GrantInv' /\ NothingWithoutSeal' /\ SuccessIsSealed'
  BY <1>1, <1>4 DEF AttestingInv, Attesting, GrantInv, OnlyConfirmedDrivesTouched,
                    NothingWithoutSeal, SuccessIsSealed, SealedSteps, Steps
<1> QED
  BY <1>5, <1>6 DEF AttestedIInv

LEMMA DisturbancePreserves == AttestedIInv /\ Disturbance /\ UNCHANGED attest_vars => AttestedIInv'
<1> SUFFICES ASSUME AttestedIInv, Disturbance, UNCHANGED attest_vars PROVE AttestedIInv'
  OBVIOUS
<1>1. pc \in Attesting \cup SealedSteps
  BY DEF AttestedIInv, WritingInv, Disturbance, EditSource, SwapDrive, Rot, Mount, Kill, Running
<1> QED
  BY <1>1, DisturbanceWhileWriting, DisturbanceWhileAttesting, KillWhileAttesting
  DEF Disturbance

-----------------------------------------------------------------------------
(* The theorems.                                                             *)

LEMMA AttestedNextPreserves == AttestedIInv /\ [AttestedNext]_all_vars => AttestedIInv'
<1> SUFFICES ASSUME AttestedIInv, [AttestedNext]_all_vars PROVE AttestedIInv'
  OBVIOUS
<1>1. CASE AttestStep
  BY <1>1, AttestOpenPreserves, AttestHashPreserves, AttestInspectPreserves, CheckBreachPreserves
  DEF AttestStep
<1>2. CASE (Step \/ Disturbance) /\ UNCHANGED attest_vars
  BY <1>2, WriterStepPreserves, DisturbancePreserves
<1>3. CASE UNCHANGED all_vars
  <2>1. IInv => IInv'
    BY <1>3, StutterPreservesIInv DEF all_vars
  <2>2. GrantInv => GrantInv'
    BY <1>3, RestKeepsGrantInv DEF all_vars
  <2>3. AttestingInv => AttestingInv'
    BY <1>3 DEF AttestingInv, WorldOK, all_vars, vars, world, counters, observers, attest_vars
  <2>4. NothingWithoutSeal => NothingWithoutSeal'
    BY <1>3 DEF NothingWithoutSeal, Passed, Policy, all_vars, vars, observers, attest_vars
  <2>5. SuccessIsSealed => SuccessIsSealed'
    BY <1>3 DEF SuccessIsSealed, Holds, all_vars, vars, world, counters, observers, attest_vars
  <2>6. WritingInv => WritingInv'
    BY <1>3, <2>1 DEF WritingInv, all_vars, vars, observers, attest_vars
  <2> QED
    BY <2>2, <2>3, <2>4, <2>5, <2>6 DEF AttestedIInv
<1> QED
  BY <1>1, <1>2, <1>3 DEF AttestedNext

LEMMA AttestedInduction == AttestedSpec => []AttestedIInv
BY AttestedInitEstablishes, AttestedNextPreserves, PTL DEF AttestedSpec

\* For any image, any number of drives and whatever moves meanwhile: the writer
\* runs, and a byte changes, only under a seal that the live source, target and
\* options reproduced.
THEOREM NothingHappensWithoutSeal == AttestedSpec => []NothingWithoutSeal
<1>1. AttestedIInv => NothingWithoutSeal
  BY DEF AttestedIInv
<1> QED
  BY <1>1, AttestedInduction, PTL

\* Whatever is edited between the seal and the end of the write: a reported
\* success has streamed exactly the sealed bytes, and the medium holds them
\* unless it rotted.
THEOREM SuccessMeansSealed == AttestedSpec => []SuccessIsSealed
<1>1. AttestedIInv => SuccessIsSealed
  BY DEF AttestedIInv
<1> QED
  BY <1>1, AttestedInduction, PTL

\* Under a drive seal only the sealed drive is written to, or the path was
\* swapped between the re-inspection and the open.
THEOREM OnlyTheSealedDrive == AttestedSpec => []SealedDriveTouched
<1>1. AttestedIInv => SealedDriveTouched
  BY DEF AttestedIInv, WritingInv, GrantInv, OnlyConfirmedDrivesTouched, Granted,
         SealedDriveTouched
<1> QED
  BY <1>1, AttestedInduction, PTL

-----------------------------------------------------------------------------
(* A sealed write keeps WriteContract.                                       *)

\* What the contract sees of a state.
Goal == IF Passed THEN seal.source ELSE NoPlan
Disk == IF written_to = Missing THEN << >> ELSE media[written_to]
Verdict == IF pc = "killed" THEN "failure"
           ELSE IF pc # "returned" THEN "none"
           ELSE IF status = "ok" THEN "success" ELSE "failure"

\* Until the seal check passes the contract has no goal and no target.
LEMMA AttestingIsIdle ==
  ASSUME AttestedIInv, pc \in Attesting
  PROVE  Goal = NoPlan /\ Disk = << >> /\ Verdict = "none"
<1>1. plan = NoPlan /\ written_to = Missing
  BY DEF AttestedIInv, AttestingInv
<1>2. ~Passed
  BY <1>1 DEF Passed
<1> QED
  BY <1>1, <1>2 DEF Goal, Disk, Verdict, Attesting

LEMMA WritingHasGoal ==
  ASSUME AttestedIInv, pc \in SealedSteps
  PROVE  /\ Goal = seal.source /\ Goal \in Seq(Bytes) /\ Goal # NoPlan /\ Passed
         /\ Disk \in Seq(Bytes) /\ Verdict = "none"
<1>1. Passed /\ seal \in PlanType /\ TypeOK
  BY DEF AttestedIInv, NothingWithoutSeal, WritingInv, Passed, IInv
<1>2. seal.source \in Seq(Bytes)
  BY <1>1 DEF PlanType
<1>3. Disk \in Seq(Bytes)
  BY <1>1 DEF Disk, TypeOK, WorldOK
<1> QED
  BY <1>1, <1>2, <1>3, PlanAssumption DEF Goal, Verdict, SealedSteps, Steps

\* The steps that compute and seal a plan are invisible; the seal check
\* authorizes; a refusal is a failure.
LEMMA AttestStepImplements ==
  ASSUME AttestedIInv, AttestedIInv', AttestOpen \/ AttestHash \/ AttestInspect
  PROVE  [Contract!Next]_(Contract!vars)
<1>1. /\ pc \in Attesting /\ UNCHANGED <<media, written_to>> /\ written_to = Missing
      /\ plan = NoPlan
  <2>1. pc \in Attesting
    BY DEF AttestOpen, AttestHash, AttestInspect, Attesting
  <2>2. UNCHANGED <<world, observers>>
    BY DEF AttestOpen, AttestHash, AttestInspect, Unplanned
  <2> QED
    BY <2>1, <2>2 DEF AttestedIInv, AttestingInv, world, observers
<1>2. Goal = NoPlan /\ Disk = << >> /\ Verdict = "none"
  BY <1>1, AttestingIsIdle
<1>3. Disk' = Disk
  BY <1>1 DEF Disk
<1>4. CASE pc' \in Attesting
  <2>1. Goal' = NoPlan /\ Verdict' = "none"
    <3>1. plan' = NoPlan
      BY <1>4 DEF AttestedIInv, AttestingInv
    <3> QED
      BY <1>4, <3>1 DEF Goal, Verdict, Passed, Attesting
  <2> QED
    BY <1>2, <1>3, <2>1 DEF Contract!vars, Goal, Disk, Verdict
<1>5. CASE pc' = "open_source"
  <2>1. Goal' \in Seq(Bytes) /\ Verdict' = "none"
    <3>1. Passed' /\ seal' \in PlanType
      BY <1>5 DEF AttestedIInv, NothingWithoutSeal, WritingInv, Passed, SealedSteps, Steps
    <3>2. seal'.source \in Seq(Bytes)
      BY <3>1 DEF PlanType
    <3> QED
      BY <1>5, <3>1, <3>2 DEF Goal, Verdict
  <2>2. Contract!Authorize
    BY <1>2, <1>3, <2>1 DEF Contract!Authorize, Goal, Disk, Verdict
  <2> QED
    BY <2>2 DEF Contract!Next
<1>6. CASE \E s : s # "ok" /\ Return(s) /\ ~Passed'
  <2>1. Goal' = NoPlan /\ Verdict' = "failure"
    BY <1>6 DEF Goal, Verdict, Return
  <2>2. Contract!Fail
    BY <1>2, <1>3, <2>1 DEF Contract!Fail, Goal, Disk, Verdict
  <2> QED
    BY <2>2 DEF Contract!Next
<1>7. pc' \in Attesting \/ pc' = "open_source" \/ (\E s : s # "ok" /\ Return(s) /\ ~Passed')
  <2>1. CASE AttestOpen \/ AttestHash
    <3>1. plan' = NoPlan
      BY <1>1, <2>1 DEF AttestOpen, AttestHash, Unplanned, attest_vars
    <3> QED
      BY <2>1, <3>1 DEF AttestOpen, AttestHash, Attesting, Passed
  <2>2. CASE AttestInspect
    <3>1. CASE \E s \in {"open", "refused"} : Return(s) /\ plan' = plan
      BY <1>1, <3>1 DEF Passed
    <3>2. CASE Return("confirmation") /\ seal' = seal /\ plan' # seal
      BY <3>2 DEF Passed
    <3> QED
      BY <2>2, <3>1, <3>2 DEF AttestInspect, SealAccepted, attest_vars, Attesting
  <2> QED
    BY <2>1, <2>2
<1> QED
  BY <1>4, <1>5, <1>6, <1>7

\* The verdict of the writer becomes the verdict of the run; the medium then
\* holds what a success promises.
LEMMA CheckBreachImplements ==
  ASSUME AttestedIInv, AttestedIInv', rots = 0, CheckBreach
  PROVE  [Contract!Next]_(Contract!vars)
<1>1. /\ pc = "done" /\ pc' = "returned" /\ pc \in SealedSteps
      /\ UNCHANGED <<media, written_to, plan, seal>>
  BY DEF CheckBreach, Return, Unplanned, world, observers, attest_vars, SealedSteps
<1>2. Goal = seal.source /\ Goal # NoPlan /\ Verdict = "none" /\ Passed
  BY <1>1, WritingHasGoal
<1>3. Goal' = Goal /\ Disk' = Disk
  BY <1>1 DEF Goal, Disk, Passed
<1>4. CASE status' = "ok"
  <2>1. Verdict' = "success"
    BY <1>1, <1>4 DEF Verdict
  <2>2. status = "ok" /\ result.source_sha256 = seal.source
    BY <1>2, <1>4 DEF CheckBreach, Return, StreamWasSealed, Passed
  <2>3. written_to \in Objects /\ Holds(written_to, seal.source)
    BY <1>1, <2>2 DEF AttestedIInv, WritingInv, IInv, MediaInv, Succeeded
  <2>4. Disk = media[written_to]
    BY <2>3, ObjectAssumption DEF Disk
  <2>5. Len(Goal) <= Len(Disk) /\ \A i \in 1..Len(Goal) : Disk[i] = Goal[i]
    BY <1>2, <2>3, <2>4 DEF Holds, IsPrefix
  <2>6. Contract!Succeed
    BY <1>2, <1>3, <2>1, <2>5 DEF Contract!Succeed, Contract!Delivered, Goal, Disk, Verdict
  <2> QED
    BY <2>6 DEF Contract!Next
<1>5. CASE status' # "ok"
  <2>1. Verdict' = "failure"
    BY <1>1, <1>5 DEF Verdict
  <2>2. Contract!Fail
    BY <1>2, <1>3, <2>1 DEF Contract!Fail, Goal, Disk, Verdict
  <2> QED
    BY <2>2 DEF Contract!Next
<1> QED
  BY <1>4, <1>5

\* A step of the writer or of the world modifies the target, if anything.
LEMMA WritingImplements ==
  ASSUME AttestedIInv, AttestedIInv', pc \in SealedSteps, pc' \in SealedSteps,
         UNCHANGED attest_vars
  PROVE  [Contract!Next]_(Contract!vars)
<1>1. Goal # NoPlan /\ Verdict = "none" /\ Passed
  BY WritingHasGoal
<1>2. Goal' = Goal
  BY DEF Goal, Passed, attest_vars
<1>3. Disk' \in Seq(Bytes) /\ Verdict' = "none"
  <2>1. TypeOK'
    BY DEF AttestedIInv, WritingInv, IInv
  <2>2. Disk' \in Seq(Bytes)
    BY <2>1 DEF Disk, TypeOK, WorldOK
  <2> QED
    BY <2>2 DEF Verdict, SealedSteps, Steps
<1>4. Contract!Modify
  BY <1>1, <1>2, <1>3 DEF Contract!Modify, Goal, Disk, Verdict
<1> QED
  BY <1>4 DEF Contract!Next

LEMMA KillImplements ==
  ASSUME AttestedIInv, Kill, UNCHANGED attest_vars, pc \in Attesting \cup SealedSteps
  PROVE  [Contract!Next]_(Contract!vars)
<1>1. Verdict' = "failure" /\ Goal' = Goal /\ Disk' = Disk
  BY DEF Kill, Verdict, Goal, Disk, Passed, world, observers, attest_vars
<1>2. Verdict = "none"
  BY AttestingIsIdle, WritingHasGoal
<1>3. Contract!Fail
  BY <1>1, <1>2 DEF Contract!Fail, Goal, Disk, Verdict
<1> QED
  BY <1>3 DEF Contract!Next

\* The world moves: only rot touches a medium, and while a plan is computed the
\* contract sees no target yet.
LEMMA DisturbanceImplements ==
  ASSUME AttestedIInv, AttestedIInv', Disturbance, UNCHANGED attest_vars
  PROVE  [Contract!Next]_(Contract!vars)
<1>1. pc \in Attesting \cup SealedSteps
  BY DEF AttestedIInv, WritingInv, Disturbance, EditSource, SwapDrive, Rot, Mount, Kill, Running
<1>2. CASE Kill
  BY <1>1, <1>2, KillImplements
<1>3. CASE ~Kill /\ pc \in SealedSteps
  <2>1. pc' = pc
    BY <1>3 DEF Disturbance, EditSource, SwapDrive, Rot, Mount, program
  <2> QED
    BY <1>3, <2>1, WritingImplements
<1>4. CASE ~Kill /\ pc \in Attesting
  <2>1. pc' = pc
    BY <1>4 DEF Disturbance, EditSource, SwapDrive, Rot, Mount, program
  <2>2. plan' = NoPlan /\ written_to' = Missing
    BY <1>4, <2>1 DEF AttestedIInv, AttestingInv
  <2>3. Goal' = NoPlan /\ Disk' = << >> /\ Verdict' = "none"
    BY <1>4, <2>1, <2>2 DEF Goal, Disk, Verdict, Passed, Attesting
  <2> QED
    BY <1>4, <2>3, AttestingIsIdle DEF Contract!vars, Goal, Disk, Verdict
<1> QED
  BY <1>1, <1>2, <1>3, <1>4

LEMMA WriterStepImplements ==
  ASSUME AttestedIInv, AttestedIInv', Step, UNCHANGED attest_vars
  PROVE  [Contract!Next]_(Contract!vars)
<1>1. pc \in SealedSteps /\ IInv
  BY StepStartsInStep DEF SealedSteps, AttestedIInv, WritingInv
<1>2. IInv'
  BY <1>1, StepPreservesIInv
<1>3. CASE pc' = "killed"
  <2>1. FALSE
    BY <1>3 DEF Step, OpenSource, InspectTarget, HashSource, Reinspect, OpenTarget, Resize,
       ReadSource, WriteChunk, WriteFails, CheckStream, Flush, OpenReadback, FullReadback,
       SampleReadback, Out, VerificationFails, Verified
  <2> QED
    BY <2>1
<1>4. CASE pc' # "killed"
  BY <1>1, <1>2, <1>4, WritingImplements DEF IInv, TypeOK, SealedSteps
<1> QED
  BY <1>3, <1>4

LEMMA NextImplements ==
  ASSUME AttestedIInv, AttestedIInv', rots = 0, [AttestedNext]_all_vars
  PROVE  [Contract!Next]_(Contract!vars)
<1>1. CASE AttestStep
  BY <1>1, AttestStepImplements, CheckBreachImplements DEF AttestStep
<1>2. CASE (Step \/ Disturbance) /\ UNCHANGED attest_vars
  BY <1>2, WriterStepImplements, DisturbanceImplements
<1>3. CASE UNCHANGED all_vars
  BY <1>3 DEF Contract!vars, Passed, all_vars, vars, world, observers, attest_vars
<1> QED
  BY <1>1, <1>2, <1>3 DEF AttestedNext

\* As long as no medium rots, a sealed write implements WriteContract: the bytes
\* to be written are fixed once, by the seal check, no target changes before
\* that, and the one verdict is a success only if the target holds those bytes.
THEOREM SealedWriteImplementsContract ==
  AttestedSpec /\ [](rots = 0) => ImplementsContract
<1>1. AttestedInit => Contract!Init
  BY DEF AttestedInit, Contract!Init, Passed
<1>2. /\ AttestedIInv /\ AttestedIInv' /\ rots = 0 /\ [AttestedNext]_all_vars
      => [Contract!Next]_(Contract!vars)
  BY NextImplements
<1> QED
  BY <1>1, <1>2, AttestedInduction, PTL DEF AttestedSpec, ImplementsContract, Contract!Spec
=============================================================================

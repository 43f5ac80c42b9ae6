---------------------------- MODULE AttestedWrite ----------------------------
(***************************************************************************)
(* Plan sealing (src/src/attest.c) around df_write_image: the operator     *)
(* runs df_attest_plan to obtain a seal, then df_write_image_attested,     *)
(* which computes the plan again from the live source, target and options, *)
(* refuses a different seal, runs the writer and compares the bytes that   *)
(* were streamed with the bytes that were sealed.                          *)
(*                                                                         *)
(* The seal is a SHA-256 over the canonical plan; here it is the plan.     *)
(* The world may move during both computations, between the seal command   *)
(* and the write, and between the seal check and the writer's own look at  *)
(* source and target.                                                      *)
(***************************************************************************)
EXTENDS WriteImage

CONSTANT NoPlan

(* The option fields that are part of the canonical plan; of the           *)
(* confirmation token, only its agreement with the live target is checked. *)
Policy(o) == <<o.verify_mode, o.allow_device, o.force_mounted, o.force_system_disk,
               o.truncate_regular_file>>

Tokens == ({"device"} \X {Ident[d] : d \in Devices}) \cup ({"file"} \X Nat)

\* df_plan_attestation
PlanType == [source : Seq(Bytes), token : Tokens, is_device : BOOLEAN, size : Nat,
             policy : {Policy(o) : o \in Options}]

ASSUME PlanAssumption == NoPlan \notin PlanType /\ NoPlan \notin Seq(Bytes)

VARIABLES
    sealing,    \* the plan is being computed by the seal command
    plan,       \* the df_plan_attestation computed inside the write (NoPlan before)
    seal        \* the plan seal the operator holds (NoPlan before)

attest_vars == <<sealing, plan, seal>>
all_vars == <<vars, attest_vars>>

-----------------------------------------------------------------------------
Unplanned == UNCHANGED <<opts, planned, buffer, attempt, observers, attest_vars>>

Return(s) == pc' = "returned" /\ status' = s /\ target' = NoFile

-----------------------------------------------------------------------------
(* df_attest_plan, run once to seal and once more inside the write.        *)

AttestOpen ==
    /\ pc = "attest_open"
    /\ \/ Return("open") /\ UNCHANGED src_size
       \/ /\ src_size' = OpenedSize
          /\ pc' = "attest_hash"
          /\ UNCHANGED <<status, target>>
    /\ UNCHANGED <<world, offset, hashed, result>> /\ Unplanned

\* df_hash_source_path, one chunk at a time; an empty image is refused at its
\* end.
AttestHash ==
    /\ pc = "attest_hash"
    /\ LET n == Least(src_size - offset, Buffer)
       IN  \/ offset < src_size /\ Return("io") /\ UNCHANGED <<offset, hashed>>
           \/ /\ offset < src_size /\ offset + n <= Len(source)
              /\ hashed' = Extend(source, n)
              /\ offset' = offset + n
              /\ UNCHANGED <<pc, status, target>>
           \/ src_size = 0 /\ Return("too_small") /\ UNCHANGED <<offset, hashed>>
           \/ /\ src_size > 0 /\ offset >= src_size
              /\ pc' = "attest_inspect"
              /\ UNCHANGED <<offset, hashed, status, target>>
    /\ UNCHANGED <<world, src_size, result>> /\ Unplanned

\* Seeded defect: only the image is compared.
SealAcceptedBySource(new) == new.source = seal.source

SealAccepted(new) == new = seal

\* Inspect the target, check the operator's authority over a drive and build
\* the plan.  The seal command ends here: the operator keeps the seal and later
\* runs the write, possibly with other options.  The write goes on only if the
\* plan is the sealed one.
AttestInspect ==
    /\ pc = "attest_inspect"
    /\ LET info == Descriptor(bound)
           granted == info.is_device =>
                        opts.allow_device /\ opts.confirmation_token = info.token
           new == [source |-> hashed, token |-> info.token, is_device |-> info.is_device,
                   size |-> info.size, policy |-> Policy(opts)]
       IN  \/ Return("open") /\ UNCHANGED <<opts, attest_vars>>
           \/ Inspectable /\ ~granted /\ Return("refused") /\ UNCHANGED <<opts, attest_vars>>
           \/ /\ Inspectable /\ granted /\ sealing
              /\ seal' = new /\ sealing' = FALSE /\ UNCHANGED plan
              /\ opts' \in Options
              /\ pc' = "attest_open"
              /\ UNCHANGED <<status, target>>
           \/ /\ Inspectable /\ granted /\ ~sealing
              /\ plan' = new
              /\ IF SealAccepted(new) THEN pc' = "open_source" /\ UNCHANGED <<status, target>>
                 ELSE Return("confirmation")
              /\ UNCHANGED <<opts, sealing, seal>>
    /\ src_size' = 0 /\ offset' = 0 /\ hashed' = << >>
    /\ UNCHANGED <<world, planned, buffer, attempt, result, observers>>

\* Seeded defect: the writer's own digest is trusted.
StreamAssumedSealed == TRUE

StreamWasSealed == result.source_sha256 = plan.source

\* The writer has returned: a success whose digest is not the sealed one is
\* turned into a breach.
CheckBreach ==
    /\ pc = "done"
    /\ IF status = "ok" /\ ~StreamWasSealed
       THEN /\ Return("identity_changed")
            /\ result' = [result EXCEPT !.final_state = "plan_breach_partial_media"]
       ELSE Return(status) /\ UNCHANGED result
    /\ UNCHANGED <<world, src_size, offset, hashed>> /\ Unplanned

-----------------------------------------------------------------------------
AttestedInit ==
    /\ source \in Images
    /\ media \in InitialMedia
    /\ bound \in IF DevicePath THEN Devices ELSE {RegularFile, Missing}
    /\ mounted = {}
    /\ edits = 0 /\ swaps = 0 /\ rots = 0 /\ mounts = 0
    /\ pc = "attest_open" /\ opts \in Options
    /\ src_size = 0 /\ planned = Descriptor(Missing) /\ target = NoFile
    /\ offset = 0 /\ hashed = << >> /\ buffer = << >> /\ attempt = 0
    /\ result = EmptyResult /\ status = "running"
    /\ touched = {} /\ written_to = Missing /\ unflushed = FALSE /\ raced = FALSE
    /\ swapped = FALSE /\ rotted = FALSE
    /\ sealing = TRUE /\ plan = NoPlan /\ seal = NoPlan

AttestStep == AttestOpen \/ AttestHash \/ AttestInspect \/ CheckBreach

Disturbance == pc \notin {"done", "returned"} /\ (EditSource \/ SwapDrive \/ Rot \/ Mount \/ Kill)

AttestedNext == AttestStep \/ ((Step \/ Disturbance) /\ UNCHANGED attest_vars)

AttestedSpec == AttestedInit /\ [][AttestedNext]_all_vars

AttestedFairSpec ==
    AttestedSpec /\ WF_all_vars(AttestStep \/ (Step /\ UNCHANGED attest_vars))

-----------------------------------------------------------------------------
(* Properties.                                                             *)

SealedSteps == Steps \cup {"done"}

\* the plan computed inside the write is the one that was sealed
Passed == seal # NoPlan /\ plan = seal

\* The writer runs, and a byte of a target changes, only under a seal that the
\* live source, target kind, token, size and policy reproduced.  The policy in
\* force then is the sealed one.  (attest.c:174-192.)
NothingWithoutSeal ==
    (touched # {} \/ pc \in SealedSteps) =>
        /\ Passed
        /\ seal.policy = Policy(opts)
        /\ seal.source # << >>

\* Whatever happens to the image after it was sealed, a reported success has
\* written the sealed bytes, all of them, to the target.
\* (ARCHITECTURE.md:135-139; attest.c:193-201 and the writer's stream check.)
SuccessIsSealed ==
    (pc = "returned" /\ status = "ok") =>
        /\ result.source_sha256 = seal.source
        /\ rots = 0 => Holds(written_to, seal.source)

\* A drive that is written to under a drive seal is the sealed drive, except
\* for a swap between the re-inspection and the open.
SealedDriveTouched ==
    \A d \in touched \cap Devices :
        raced \/ (seal.is_device => seal.token = <<"device", Ident[d]>>)

\* Sealing and writing end.
AttestedTerminates == <>(pc \in {"returned", "killed"})

\* The promise a sealed write makes, with the goal fixed when the seal check
\* passes.
Contract == INSTANCE WriteContract WITH
    Contents <- Seq(Bytes),
    None <- NoPlan,
    goal <- IF Passed THEN seal.source ELSE NoPlan,
    disk <- IF written_to = Missing THEN << >> ELSE media[written_to],
    verdict <- IF pc = "killed" THEN "failure"
               ELSE IF pc # "returned" THEN "none"
               ELSE IF status = "ok" THEN "success" ELSE "failure"
ImplementsContract == Contract!Spec

-----------------------------------------------------------------------------
(* The inductive invariant behind these properties.                        *)

Attesting == {"attest_open", "attest_hash", "attest_inspect"}

\* Until the seal check passes there is no plan, and nothing of the writer has
\* been set in motion; the digest has been fed the bytes up to the offset.
AttestingInv ==
    pc \in Attesting =>
        /\ WorldOK
        /\ opts \in Options /\ src_size \in Nat /\ offset \in Nat /\ offset <= src_size
        /\ hashed \in Seq(Bytes) /\ Len(hashed) = offset
        /\ pc = "attest_open" => offset = 0
        /\ pc = "attest_inspect" => hashed # << >>
        /\ target = NoFile /\ buffer = << >> /\ attempt = 0
        /\ result = EmptyResult /\ status = "running"
        /\ touched = {} /\ written_to = Missing
        /\ unflushed = FALSE /\ raced = FALSE /\ swapped = FALSE /\ rotted = FALSE
        /\ plan = NoPlan /\ (sealing => seal = NoPlan)

\* From the seal check on, the writer's own invariant holds, and the seal is
\* one that this operator's options and token were checked against.
WritingInv ==
    /\ pc \in Attesting \cup SealedSteps \cup {"returned", "killed"}
    /\ seal \in PlanType \cup {NoPlan}
    /\ pc \in SealedSteps \cup {"killed"} => IInv
    /\ (touched # {} \/ pc \in SealedSteps) /\ seal.is_device =>
          seal.token = opts.confirmation_token

AttestedIInv ==
    AttestingInv /\ WritingInv /\ GrantInv /\ NothingWithoutSeal /\ SuccessIsSealed

-----------------------------------------------------------------------------
(* What the documents say and the code does not do.                        *)

\* ARCHITECTURE.md:256, "Target changes abort before the write handle is opened."
\* The race between re-inspection and open is left aside: what is written should
\* at least be the kind of target that was sealed.
TargetChangesAbort ==
    (touched # {} /\ ~raced) => (seal.is_device <=> written_to \in Devices)
=============================================================================

----------------------------- MODULE ProvenWrite -----------------------------
(***************************************************************************)
(* deadflash-proof write --proof (src/src/proof_main.c, command_write):    *)
(* a sealed write, then a manifest of the image, then a verification of    *)
(* image and target against that manifest, one after the other in one      *)
(* process.  The sealed write is represented by what AttestedWrite was     *)
(* shown to implement, WriteContract; the other two are ProofManifest's.   *)
(* Nothing but the paths is handed from one to the next, so the image is   *)
(* read three times and may be another one each time.                      *)
(***************************************************************************)
EXTENDS ProofManifest

VARIABLES
    stage,      \* "idle", or the part of the command that is running
    goal,       \* the sealed bytes
    verdict,    \* of the write
    exit,       \* of the command: "none", "ok" or "failed"
    (* observers *)
    edited,     \* the image was changed since the seal was checked
    stirred     \* the target was changed since the write returned

chain == <<stage, goal, verdict, exit, edited, stirred>>
all_vars == <<vars, chain>>

ASSUME ChainAssumption == Images \subseteq Targets

Write == INSTANCE WriteContract WITH Contents <- Targets, disk <- target

-----------------------------------------------------------------------------
StartChain ==
    /\ stage = "idle" /\ ~Running /\ runs < MaxRuns
    /\ stage' = "write" /\ goal' = None /\ verdict' = "none" /\ exit' = "none"
    /\ edited' = FALSE /\ stirred' = FALSE
    /\ runs' = runs + 1
    /\ UNCHANGED <<source, target, manifest, edits, damages, program, observers>>

\* The seal is one of the image as it is when the seal is checked.
CheckSeal ==
    /\ stage = "write" /\ source # << >> /\ Write!Authorize
    /\ goal' = source /\ edited' = FALSE
    /\ UNCHANGED <<vars, stage, exit, stirred>>

WriteTarget ==
    /\ stage = "write" /\ Write!Modify
    /\ target_moved' = TRUE
    /\ UNCHANGED <<source, manifest, edits, damages, runs, program, made, source_moved, stage,
                   exit, edited, stirred>>

WriteFails ==
    /\ stage = "write" /\ Write!Fail
    /\ stage' = "idle" /\ exit' = "failed"
    /\ UNCHANGED <<vars, edited, stirred>>

\* A write that returns DF_OK is followed by df_proof_create.
WriteSucceeds ==
    /\ stage = "write" /\ Write!Succeed
    /\ stage' = "create" /\ Begin("create")
    /\ stirred' = FALSE
    /\ UNCHANGED <<world, made, exit, edited>>

\* df_proof_verify follows only a create that returned DF_OK.
Created ==
    /\ stage = "create" /\ ~Running
    /\ IF status = "ok"
       THEN stage' = "verify" /\ Begin("verify") /\ UNCHANGED <<made, exit>>
       ELSE stage' = "idle" /\ exit' = "failed" /\ UNCHANGED <<program, observers>>
    /\ UNCHANGED <<world, goal, verdict, edited, stirred>>

\* Seeded defect: what df_proof_verify returns is printed and forgotten.
ExitCodeUnchecked == "ok"

ExitCode == IF status = "ok" THEN "ok" ELSE "failed"

Proven ==
    /\ stage = "verify" /\ ~Running
    /\ stage' = "idle" /\ exit' = ExitCode
    /\ UNCHANGED <<vars, goal, verdict, edited, stirred>>

-----------------------------------------------------------------------------
\* The commands of ProofManifest, as parts of the chain or on their own.
Proceed == (Create \/ Verify) /\ UNCHANGED chain

Alone ==
    /\ stage = "idle" /\ Run /\ exit' = "none"
    /\ UNCHANGED <<stage, goal, verdict, edited, stirred>>

Die == Kill /\ stage' = "idle" /\ UNCHANGED <<goal, verdict, exit, edited, stirred>>

DieWriting ==
    /\ stage = "write"
    /\ stage' = "idle" /\ exit' = "failed"
    /\ UNCHANGED <<vars, goal, verdict, edited, stirred>>

Interfere ==
    \/ EditSource /\ edited' = TRUE /\ UNCHANGED <<stage, goal, verdict, exit, stirred>>
    \/ EditTarget /\ stirred' = TRUE /\ UNCHANGED <<stage, goal, verdict, exit, edited>>
    \/ Damage /\ UNCHANGED chain

ChainInit ==
    /\ Init
    /\ stage = "idle" /\ goal = None /\ verdict = "none" /\ exit = "none"
    /\ edited = FALSE /\ stirred = FALSE

Chain == CheckSeal \/ WriteFails \/ WriteSucceeds \/ Created \/ Proven

ChainNext ==
    \/ StartChain \/ Chain \/ WriteTarget \/ Proceed
    \/ Alone \/ Die \/ DieWriting \/ Interfere

ChainSpec == ChainInit /\ [][ChainNext]_all_vars

\* The parts of the command that are modelled in detail make progress; that the
\* write returns is AttestedTerminates.
ChainFairSpec == ChainSpec /\ WF_all_vars(Proceed \/ Chain)

-----------------------------------------------------------------------------
(* Properties.                                                             *)

\* A write with a proof that exits with 0: when nobody edited the image since
\* the seal was checked, the manifest is one of the sealed bytes and the target
\* held them when it was proven, even if somebody wrote to it between the write
\* and the verification; and when nobody wrote to the target, an image cut or
\* extended meanwhile is proven only as far as it agrees with the sealed bytes.
\* (proof_main.c:205-243; the three reads of the image are independent.)
SealedIsProven ==
    exit = "ok" =>
        /\ final_state = "success_proven"
        /\ (~edited /\ ~target_moved) =>
              loaded.head.digest = goal /\ IsPrefix(goal, target)
        /\ ~stirred =>
              IsPrefix(goal, loaded.head.digest) \/ IsPrefix(loaded.head.digest, goal)

\* The chain ends, as each of its parts does.
ChainTerminates == []<>(stage = "idle" /\ ~Running)

-----------------------------------------------------------------------------
(* What makes SealedIsProven inductive.                                    *)

\* Between the parts of the command: the sealed bytes are on the target unless
\* somebody wrote to it, and still in the image unless somebody edited it.
ChainInv ==
    /\ stage \in {"idle", "write", "create", "verify"}
    /\ stage \in {"create", "verify"} =>
          /\ goal \in Seq(Bytes) /\ goal # None
          /\ ~stirred => IsPrefix(goal, target) /\ ~target_moved
    /\ stage = "write" => ~Running /\ (goal # None => goal \in Seq(Bytes))
    /\ (stage # "idle" /\ goal # None /\ ~edited) => source = goal
    /\ (stage \in {"create", "verify"} /\ ~edited) => ~source_moved
    /\ stage = "create" => pc \notin {"load", "open_both", "read_source", "read_target"}
    /\ stage = "verify" =>
          /\ pc \in {"load", "open_both", "read_source", "read_target", "done"}
          /\ status = "ok" => final_state = "success_proven"
    /\ stage # "idle" => exit = "none"
    /\ exit = "ok" => ~Running

ChainIInv == ProofIInv /\ ChainInv /\ SealedIsProven

-----------------------------------------------------------------------------
(* What the documents say and the code does not do.                        *)

\* EVIDENCE_STATES.txt:26-27, source_changed: "Source identity differs from the
\* proof manifest or authorized plan."  The image proven should be the sealed one.
ProvenIsTheSealedImage == exit = "ok" => loaded.head.digest = goal
=============================================================================

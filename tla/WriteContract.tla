---------------------------- MODULE WriteContract ----------------------------
(***************************************************************************)
(* What a sealed write promises, without saying how: the bytes to be       *)
(* written are fixed once, the target is modified only after that, and the *)
(* one verdict of the run is a success only if the target then holds       *)
(* exactly those bytes.  AttestedWrite implements it.                      *)
(***************************************************************************)
EXTENDS Naturals, Sequences

CONSTANTS Contents,   \* what a target may contain
          None        \* no goal has been fixed

VARIABLES goal,       \* the bytes authorized to be written
          disk,       \* contents of the target
          verdict     \* "none", "success" or "failure"

vars == <<goal, disk, verdict>>

Delivered == Len(goal) <= Len(disk) /\ \A i \in 1..Len(goal) : disk[i] = goal[i]

Init == goal = None /\ disk \in Contents /\ verdict = "none"

Authorize ==
    /\ goal = None /\ verdict = "none"
    /\ goal' \in Contents
    /\ UNCHANGED <<disk, verdict>>

Modify ==
    /\ goal # None /\ verdict = "none"
    /\ disk' \in Contents
    /\ UNCHANGED <<goal, verdict>>

Succeed ==
    /\ goal # None /\ verdict = "none" /\ Delivered
    /\ verdict' = "success"
    /\ UNCHANGED <<goal, disk>>

Fail ==
    /\ verdict = "none"
    /\ verdict' = "failure"
    /\ UNCHANGED <<goal, disk>>

Next == Authorize \/ Modify \/ Succeed \/ Fail

Spec == Init /\ [][Next]_vars
=============================================================================

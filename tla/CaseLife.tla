------------------------------- MODULE CaseLife -------------------------------
(***************************************************************************)
(* One case as a machine over its phases: what the runtime of one case     *)
(* promises to the component that routes events to many cases.             *)
(***************************************************************************)
EXTENDS CasePhases

VARIABLE phase

Init == phase = "NONE"

Open == phase = "NONE" /\ \E prior \in BOOLEAN : phase' \in OnOpening(prior)

Advance == /\ phase # "NONE"
           /\ phase' \in OnFailure(phase) \cup OnRecovery(phase) \cup OnReply(phase)
                             \cup OnWork(phase) \cup {"DISPUTED"}

Spec == Init /\ [][Open \/ Advance]_phase
=============================================================================

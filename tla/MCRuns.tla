------------------------------- MODULE MCRuns -------------------------------
(***************************************************************************)
(* One run, explored from two sides: recovery has a queued message, storage*)
(* failures, a restart and two launches; handover has three launches and   *)
(* two checkpoints, and neither messages nor failures.                     *)
(***************************************************************************)
EXTENDS RunLifecycle

VARIABLE scenario

MCInit == scenario \in {"recovery", "handover"} /\ Init

MCNext ==
    /\ scenario' = scenario
    /\ Next
    /\ \/ scenario = "recovery" /\ task'[3] = NoTask
       \/ /\ scenario = "handover" /\ doc'.queue = doc.queue /\ Len(cps') <= 2
          /\ UNCHANGED <<faults, restarts>>

MCSpec == MCInit /\ [][MCNext]_<<scenario, vars>>
=============================================================================

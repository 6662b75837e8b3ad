------------------------------- MODULE MCGraph -------------------------------
(***************************************************************************)
(* Node executions that are repeated: calls routed to other flows, or the  *)
(* turns of an agent.  A behaviour explores one of the two.                *)
(***************************************************************************)
EXTENDS Routes, Turns

CONSTANTS c1, c2, r1, r2

\* Two calls of successive super-steps.  The first runs the child in place
\* under the first plan and launches it under the second, and its child asks;
\* the second is made by a model and launches the child or selects nothing.
MCStep == (c1 :> 1) @@ (c2 :> 2)
MCMode == (r1 :> "call") @@ (r2 :> "launch")
MCEligible == <<(c1 :> {r1}) @@ (c2 :> {r2}), (c1 :> {r2}) @@ (c2 :> {})>>
MCRootValue == (c1 :> "a") @@ (c2 :> "b")
MCInputs == <<"a", "b">>
MCKidValue == (c1 :> "a") @@ (c2 :> "a")

\* Each choice of an agent's layout both ways, where its format allows it.
MCLayouts ==
    {[paired |-> TRUE, single |-> FALSE, route |-> TRUE, v2 |-> TRUE, snapshots |-> TRUE],
     [paired |-> FALSE, single |-> TRUE, route |-> FALSE, v2 |-> TRUE, snapshots |-> TRUE],
     [paired |-> FALSE, single |-> FALSE, route |-> TRUE, v2 |-> TRUE, snapshots |-> TRUE],
     [paired |-> FALSE, single |-> TRUE, route |-> FALSE, v2 |-> FALSE, snapshots |-> TRUE],
     [paired |-> FALSE, single |-> FALSE, route |-> FALSE, v2 |-> FALSE, snapshots |-> FALSE]}
MCAnswers == {<<>>, <<"patch">>, <<"flow", "patch">>, <<"read">>, <<"exec">>}

VARIABLE scenario

\* The part that is not explored has one initial state.
MCInit ==
    /\ scenario \in {"routes", "turns"}
    /\ Init /\ TurnsInit
    /\ scenario # "turns" => layout.paired

MCNext ==
    /\ scenario' = scenario
    /\ \/ scenario = "routes" /\ Next /\ UNCHANGED turns
       \/ scenario = "turns" /\ TurnsNext /\ UNCHANGED vars

MCSpec == MCInit /\ [][MCNext]_<<scenario, vars, turns>>
=============================================================================

------------------------------ MODULE MCTurns ------------------------------
EXTENDS Turns
\* Each choice of the layout both ways, where the format allows it.
MCLayouts ==
    {[paired |-> TRUE, single |-> FALSE, route |-> TRUE, v2 |-> TRUE, snapshots |-> TRUE],
     [paired |-> FALSE, single |-> TRUE, route |-> FALSE, v2 |-> TRUE, snapshots |-> TRUE],
     [paired |-> FALSE, single |-> FALSE, route |-> TRUE, v2 |-> TRUE, snapshots |-> TRUE],
     [paired |-> FALSE, single |-> TRUE, route |-> FALSE, v2 |-> FALSE, snapshots |-> TRUE],
     [paired |-> FALSE, single |-> FALSE, route |-> FALSE, v2 |-> FALSE, snapshots |-> FALSE]}
MCPaired == {l \in MCLayouts : l.paired}
MCAnswers == {<<>>, <<"patch">>, <<"flow", "patch">>, <<"read">>, <<"exec">>}
=============================================================================

------------------------------- MODULE MCTools -------------------------------
(***************************************************************************)
(* The effects of a run and what is known of them.  A behaviour explores   *)
(* one of four parts, which share no state: the receipts of calls, the     *)
(* workspace tools, the credentials and the stream of model calls, or the  *)
(* sessions that archives take with their receipts to another service.     *)
(***************************************************************************)
EXTENDS ToolReceipts, WorkspaceTools, Codex, Archives, TLC

CONSTANTS cmd, rte, e1, e2, a1, a2

MCKind == [c \in Calls |->
    IF c = cmd THEN "exec" ELSE "route"]

\* Requests are interchangeable, and so are the two argument documents.
ExecutorSymmetry == Permutations(Executors) \union Permutations(Arguments)

\* No line, one, several pages, long lines at either end of a page.
MCFiles == {<<>>, <<1>>, <<1, 1, 1, 1, 1>>, <<1, 3, 1, 2>>, <<2, 2, 2>>, <<1, 4, 1>>}

MCItems == <<[kind |-> "message", parts |-> <<<<1>>, <<2>>>>],
             [kind |-> "call", parts |-> <<<<3, 4>>>>]>>
\* Every event, each way of saying an item once, fragments of one not announced.
MCStyles ==
    {[added |-> TRUE, delta |-> TRUE, text |-> TRUE, item |-> TRUE],
     [added |-> TRUE, delta |-> TRUE, text |-> FALSE, item |-> FALSE],
     [added |-> FALSE, delta |-> FALSE, text |-> FALSE, item |-> TRUE],
     [added |-> FALSE, delta |-> TRUE, text |-> TRUE, item |-> FALSE]}

\* An archive of two sessions, one with an uncertain effect, and a later
\* archive of the other with a patch whose window has moved on.
MCForeign ==
    LET B(id, n, r) == [id |-> id, events |-> n, receipt |-> r, origin |-> None] IN
    {{B(2, 1, "internal"), B(3, 2, "external")}, {B(2, 2, "moved")}}

VARIABLE scenario

\* The parts that are not explored have one initial state.
MCInit ==
    /\ scenario \in {"receipts", "workspace", "codex", "archives"}
    /\ Init /\ WorkspaceInit /\ CodexInit /\ ArchivesInit
    /\ scenario # "receipts" => legacy = receipt
    /\ scenario # "workspace" => job = "write"
    /\ scenario # "codex" => expired = 0
    /\ scenario # "archives" => ~missing

MCNext ==
    /\ scenario' = scenario
    /\ \/ /\ scenario = "receipts" /\ Next
          /\ UNCHANGED workspace /\ UNCHANGED codex /\ UNCHANGED archives
       \/ /\ scenario = "workspace" /\ WorkspaceNext
          /\ UNCHANGED vars /\ UNCHANGED codex /\ UNCHANGED archives
       \/ /\ scenario = "codex" /\ CodexNext
          /\ UNCHANGED vars /\ UNCHANGED workspace /\ UNCHANGED archives
       \/ /\ scenario = "archives" /\ ArchivesNext
          /\ UNCHANGED vars /\ UNCHANGED workspace /\ UNCHANGED codex

MCSpec == MCInit /\ [][MCNext]_<<scenario, vars, workspace, codex, archives>>

\* What is read of a stream, whole or in part, is what was written to it: a
\* command's log, preview and pages, and the answer of a model call.
StreamsExact == PreviewsHonest /\ AnswerExact
=============================================================================

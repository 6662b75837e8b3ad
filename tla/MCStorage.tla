------------------------------ MODULE MCStorage ------------------------------
(***************************************************************************)
(* What is on disk and survives a process.  A behaviour explores one of    *)
(* three parts, which share no state: the maintenance of a data directory, *)
(* the conversion and deletion of flows, or the activation of a release.   *)
(***************************************************************************)
EXTENDS DataMaintenance, PackageLifecycle, Updates, TLC

CONSTANTS kept, old, dated, undated, fresh, none

\* Programs are interchangeable.
ProgramsAlike == Permutations(Procs)

\* One session of every kind that maintenance distinguishes: kept is older than
\* the cutoff, but is the one to keep; dated has no time but an old checkpoint;
\* undated has only a newer one.
MCSessions == {kept, old, dated, undated, fresh}
MCExisting == {kept, old, dated, undated}
MCCreated == [s \in MCSessions |->
                CASE s \in {kept, old} -> 1 [] s = fresh -> 5 [] OTHER -> none]
MCCheckpointed == [s \in MCSessions |->
                    CASE s = dated -> {2, 4} [] s = undated -> {4} [] OTHER -> {}]

\* Two daemons over the same home catalogue, workspace 1.  One serves also
\* workspace 2, the other 2 and 3.  Flow g of the home catalogue is imported by a
\* bridge of each of 1 and 2, flow h of workspace 3 by none.
MCHome == ("g" :> 1) @@ ("h" :> 3)
MCPlace == (1 :> 1) @@ (2 :> 2)
MCImported == (1 :> "g") @@ (2 :> "g")
MCRegistered == ("d1" :> {1, 2}) @@ ("d2" :> {1, 2, 3})

VARIABLE scenario

\* The parts that are not explored have one initial state.
MCInit ==
    /\ scenario \in {"maintenance", "packages", "updates"}
    /\ Init /\ LifecycleInit /\ UpdatesInit
    /\ scenario # "maintenance" => data = Absent
    /\ disk[<<"legacy", "h">>] = "old"
    /\ scenario # "packages" => disk[<<"legacy", "g">>] = "old"

MCNext ==
    /\ scenario' = scenario
    /\ \/ scenario = "maintenance" /\ Next /\ UNCHANGED lifecycle /\ UNCHANGED updates
       \/ scenario = "packages" /\ LifecycleNext /\ UNCHANGED vars /\ UNCHANGED updates
       \/ scenario = "updates" /\ UpdatesNext /\ UNCHANGED vars /\ UNCHANGED lifecycle

MCSpec == MCInit /\ [][MCNext]_<<scenario, vars, lifecycle, updates>>
=============================================================================

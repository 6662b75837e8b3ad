------------------------------- MODULE MCTasks -------------------------------
(***************************************************************************)
(* Tasks that have to make progress under fair scheduling: the channel of  *)
(* an execution's observations, the launches of a run, or the peer         *)
(* connections of browsers.  A behaviour explores one of the three;        *)
(* fairness is asked of the tasks of that one only.                        *)
(***************************************************************************)
EXTENDS EventSink

VARIABLES scenario,
    doc, cps, task, owner, ex, services, current, closed,
    restarts, faults, waits, oldWaits, answered, inputs, incidents,
    request, permits, life, opened, ended, claimed, channel, remote, peer, queued,
    shutdown

R == INSTANCE RunLifecycle WITH
       Messages <- {}, MaxTasks <- 2, MaxCheckpoints <- 2, MaxFaults <- 1, MaxRestarts <- 0

P == INSTANCE Peers WITH
       Offers <- {"o1", "o2"}, Permits <- 1, Buffer <- 1, closed <- ended

run == <<doc, cps, task, owner, ex, services, current, closed,
         restarts, faults, waits, oldWaits, answered, inputs, incidents>>
peers == <<request, permits, life, opened, ended, claimed, channel, remote, peer,
           queued, shutdown>>

MCInit == scenario \in {"channel", "launches", "peers"} /\ Init /\ R!Init /\ P!Init

MCNext ==
    /\ scenario' = scenario
    /\ \/ scenario = "channel" /\ Next /\ UNCHANGED run /\ UNCHANGED peers
       \/ scenario = "launches" /\ R!Next /\ UNCHANGED vars /\ UNCHANGED peers
       \/ scenario = "peers" /\ P!Next /\ UNCHANGED vars /\ UNCHANGED run

MCFairSpec ==
    /\ MCInit /\ [][MCNext]_<<scenario, vars, run, peers>>
    /\ WF_vars(scenario = "channel" /\ Receive)
    /\ \A t \in 1..2 :
          /\ WF_run(scenario = "launches" /\ R!LaunchRuns(t))
          /\ WF_run(scenario = "launches" /\ R!ProducerRuns(t))
          /\ WF_run(scenario = "launches" /\ R!ConsumerRuns(t))
    /\ \A o \in {"o1", "o2"} :
          /\ WF_peers(scenario = "peers" /\ (P!BuildPeer(o) \/ P!AnswerOffer(o)))
          /\ WF_peers(scenario = "peers" /\ P!Own(o))
          /\ WF_peers(scenario = "peers" /\ P!Subscribe(o))
          /\ WF_peers(scenario = "peers" /\ P!ChannelEnds(o))
          /\ WF_peers(scenario = "peers" /\ P!ConnectionEnds(o))

\* RunLifecycle: every launch ends.
LaunchesEnd == scenario = "launches" => R!LaunchesEnd
\* Peers: the permit of a peer that serves nobody returns, once.
PermitsReturn == P!PermitsReturn
=============================================================================

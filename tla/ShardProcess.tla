---------------------------- MODULE ShardProcess ----------------------------
(***************************************************************************)
(* The whole process (cmd/main.go): the detection of Cluster API of        *)
(* CapiWatcher, which decides when the Cluster reconciler starts and when  *)
(* the process restarts, and the cluster reconcilers of ShardTracker.      *)
(* Until the Cluster reconciler runs, and so after every restart, the two  *)
(* kinds of clusters are not seen alike: the SveltosCluster reconciler may *)
(* be done before the other one begins.                                    *)
(*                                                                         *)
(* The process is run without --shard-components-config, so main does   *)
(* not register the ConfigMap reconciler; what fails is the detection and  *)
(* the process, and the calls of the reconcilers succeed.                  *)
(***************************************************************************)
EXTENDS CapiWatcher

CONSTANTS
  Clusters, KindOf, Shards, NoShard, NumComponents, None, Moves,   \* see ShardTracker
  MaxEdits    \* bound on the changes of clusters

VARIABLES
  object, deployment, clusterMap, shardMap, mux, queue, task,   \* see ShardTracker
  configQueued, redeploy,   \* at rest
  edits

Tracker == INSTANCE ShardTracker WITH
  config <- "absent", changes <- edits, faults <- 0,
  BadShards <- {}, NoConfigMap <- "absent", Configs <- {"absent"}, Unparsable <- {},
  Misfits <- [p \in {"absent"} |-> {}],
  FaultKinds <- {}, MaxFaults <- 0, MaxChanges <- MaxEdits

tracker == <<object, edits, deployment, clusterMap, shardMap, mux, queue, task,
             configQueued, redeploy>>
process == <<vars, tracker>>

ASSUME ProcessAssumption == Tracker!ConstantsAssumption

\* The clusters that exist only while Cluster API serves them.
CapiClusters == {c \in Clusters : KindOf[c] = "Cluster"}

\* The manager runs the reconcilers it was given.
Up == started /\ phase # "down"

\* Mutated: the reconciler is set up, and never added to the manager.
ServesSveltos(w) == w = "SveltosCluster" /\ Up

\* capiWatchers registers the Cluster reconciler, main the others.
Serves(w) == Up /\ (w = "Cluster" => phase = "reconciling")

-----------------------------------------------------------------------------
ProcessInit ==
  /\ Init /\ Tracker!Init
  /\ crd # "served" => \A c \in CapiClusters : object[c] = None

\* A worker takes a request.  Requests of a reconciler that is not started wait;
\* one of them may be for a cluster that is gone, and finds nothing to do.
TakeRequest(w, c) == Serves(w) /\ Tracker!Fetch(w, c) /\ UNCHANGED vars

LockStep(w) == Tracker!LockStep(w) /\ UNCHANGED vars

HoldStep(w) == Tracker!HoldStep(w) /\ UNCHANGED vars

Resync == Up /\ Tracker!Resync /\ UNCHANGED vars

\* What is left of the reconcilers when the process ends: the next one begins with
\* empty maps, and its informers list what there is.
Lost == Tracker!Reboot

\* A step of the detection.
Detects(A) == A /\ IF phase' = "down" THEN Lost ELSE UNCHANGED tracker

\* Clusters are created, annotated and deleted, those of Cluster API only while it
\* serves them.
ChangeCluster(c, v) ==
  /\ c \in CapiClusters => crd = "served"
  /\ Tracker!ChangeCluster(c, v)
  /\ UNCHANGED vars

\* Cluster API is installed or removed, and its clusters go with it.
ChangeApi(v) ==
  /\ ChangeCrd(v)
  /\ object' = [c \in Clusters |-> IF c \in CapiClusters THEN None ELSE object[c]]
  /\ queue' = queue \cup {c \in CapiClusters : object[c] # None}
  /\ UNCHANGED <<edits, deployment, clusterMap, shardMap, mux, task,
                 configQueued, redeploy>>

\* Another CRD of the group comes or goes: no object the process reads.
ChangeOtherCrd(n) == ChangeOther(n) /\ UNCHANGED tracker

ProcessNext ==
  \/ \E w \in Tracker!Kinds, c \in Clusters : TakeRequest(w, c)
  \/ \E w \in Tracker!Kinds : LockStep(w) \/ HoldStep(w)
  \/ Resync
  \/ Detects(StartCache)
  \/ Detects(ProcessStep)
  \/ Detects(HandleEvent)
  \/ Detects(Crash)
  \/ \E c \in Clusters, v \in Tracker!ShardKeys \cup {None} : ChangeCluster(c, v)
  \/ \E v \in Crds : ChangeApi(v)
  \/ \E n \in 0 .. OtherCrds : ChangeOtherCrd(n)

\* The fairness of ShardTracker for the reconcilers that are started, and that of
\* CapiWatcher.
ProcessFairness ==
  /\ \A c \in Clusters : SF_process(TakeRequest(KindOf[c], c))
  /\ \A w \in Tracker!Kinds : SF_process(LockStep(w)) /\ WF_process(HoldStep(w))
  /\ WF_process(Resync)
  /\ WF_process(Detects(StartCache))
  /\ WF_process(Detects(ProcessStep))
  /\ WF_process(Detects(HandleEvent))

ProcessSpec == ProcessInit /\ [][ProcessNext]_process /\ ProcessFairness

-----------------------------------------------------------------------------
\* Whenever the reconcilers have nothing left to do, every cluster of either kind is
\* served by all the controllers of its shard: whatever trackCluster and
\* stopTrackingCluster were doing when the process ended, and whichever kind is
\* counted first, the next process makes up for it.
SettledServed == Tracker!SettledProvisioned

\* Across all the restarts that the detection makes (capiCRDHandler), and when all the
\* clusters of Cluster API go at once, clusters join and leave shards and controllers
\* start and stop as ShardFleet allows (trackCluster, stopTrackingCluster).
Fleet == INSTANCE ShardFleet WITH
  Components <- Tracker!Component, members <- shardMap, running <- Tracker!Running

KeepsFleet == Fleet!Spec

\* Once users rest, every cluster of either kind is served for good, though its
\* reconciler may start only after Cluster API is found (capiWatchers), and though
\* a process that has just started counts the clusters of one kind before it sees
\* those of the other, and may remove the controllers they need (trackCluster).  Unless
\* Cluster API is never there completely, which empties the maps again and again.
EventuallyServed == []<>Partial \/ Tracker!EventuallyProvisioned

=============================================================================

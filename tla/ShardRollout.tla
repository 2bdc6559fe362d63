---------------------------- MODULE ShardRollout ----------------------------
(***************************************************************************)
(* A rolling update of shard-controller (manifest/manifest.yaml: one       *)
(* replica, default strategy; cmd/main.go: no leader election).  The new   *)
(* pod runs before the old one stops, each with its own maps, mutex and    *)
(* queues, and both apply and delete the same Deployments.  The old pod    *)
(* has the variables of ShardTracker, the new one those declared here; the *)
(* users' objects and the Deployments are shared.                          *)
(***************************************************************************)
EXTENDS ShardTracker

CONSTANTS
  Patient,    \* the rollout waits until the old pod has nothing left to do
  CalmMoves   \* the changes of a cluster's shard users make during the rollout

ASSUME RolloutAssumption == Patient \in BOOLEAN

VARIABLES
  phase,      \* "old", "both" pods, "new": the old pod is gone, "done": and made up for
  newClusterMap, newShardMap, newMux, newQueue, newConfigQueued, newTask, newRedeploy

New == INSTANCE ShardTracker WITH
  clusterMap <- newClusterMap, shardMap <- newShardMap, mux <- newMux,
  queue <- newQueue, configQueued <- newConfigQueued, task <- newTask,
  redeploy <- newRedeploy

oldPod  == <<clusterMap, shardMap, mux, queue, configQueued, task, redeploy>>
newPod  == <<newClusterMap, newShardMap, newMux, newQueue, newConfigQueued,
             newTask, newRedeploy>>
rollout == <<object, config, deployment, changes, faults, oldPod, newPod, phase>>

OldUp == phase \in {"old", "both"}
NewUp == phase # "old"

-----------------------------------------------------------------------------
\* The old pod has been started as any process is; the new one does not exist, and
\* holds nothing.
RolloutInit ==
  /\ Init /\ config = NoConfigMap
  /\ phase = "old"
  /\ newClusterMap = clusterMap /\ newShardMap = shardMap /\ newMux = None
  /\ newQueue = {} /\ newConfigQueued = FALSE
  /\ newTask = task /\ newRedeploy = Resting

\* A step of one pod.
ByOld(A) == OldUp /\ A /\ UNCHANGED <<newPod, phase>>
ByNew(A) == NewUp /\ A /\ UNCHANGED <<oldPod, phase>>

OldWorks ==
  \/ \E w \in Kinds, c \in Clusters : Fetch(w, c)
  \/ \E w \in Kinds : LockStep(w) \/ HoldStep(w)
  \/ Resync

NewWorks ==
  \/ \E w \in Kinds, c \in Clusters : New!Fetch(w, c)
  \/ \E w \in Kinds : New!LockStep(w) \/ New!HoldStep(w)
  \/ New!Resync

\* The rollout begins: the new process has empty maps, and its informers list what
\* there is.
StartNew ==
  /\ phase = "old"
  /\ Patient => Settled
  /\ New!Reboot
  /\ phase' = "both"
  /\ UNCHANGED <<oldPod, faults>>

\* The new pod is ready as soon as it answers, and the old one gets SIGTERM: it is
\* gone, whatever it was doing.
StopOld ==
  /\ phase = "both"
  /\ clusterMap' = [c \in Clusters |-> None] /\ shardMap' = [s \in ShardKeys |-> {}]
  /\ mux' = None /\ queue' = {} /\ configQueued' = FALSE
  /\ task' = [w \in Kinds |-> Idle] /\ redeploy' = Resting
  /\ phase' = "new"
  /\ UNCHANGED <<object, config, deployment, changes, faults, newPod>>

\* The new pod has gone through everything that was there.
CaughtUp ==
  /\ phase = "new" /\ New!Settled
  /\ phase' = "done"
  /\ UNCHANGED <<object, config, deployment, changes, faults, oldPod, newPod>>

\* What users do reaches the pods that run.
Seen(old, new) ==
  /\ IF OldUp THEN old ELSE UNCHANGED oldPod
  /\ IF NewUp THEN new ELSE UNCHANGED newPod
  /\ UNCHANGED phase

UsersAct ==
  \E c \in Clusters, v \in ShardKeys \cup {None} :
    /\ phase \in {"both", "new"} => <<object[c], v>> \in CalmMoves
    /\ Seen(ChangeCluster(c, v), New!ChangeCluster(c, v))

RolloutNext ==
  \/ ByOld(OldWorks)
  \/ ByNew(NewWorks)
  \/ StartNew \/ StopOld \/ CaughtUp
  \/ UsersAct

RolloutSpec == RolloutInit /\ [][RolloutNext]_rollout

\* The rollout comes to its end, and the new pod is served as any process is.
RolloutFairness ==
  /\ WF_rollout(StartNew) /\ WF_rollout(StopOld)
  /\ \A c \in Clusters : SF_rollout(ByNew(New!Fetch(KindOf[c], c)))
  /\ \A w \in Kinds : /\ SF_rollout(ByNew(New!LockStep(w)))
                      /\ WF_rollout(ByNew(New!HoldStep(w)))
  /\ WF_rollout(ByNew(New!Resync))

FairRollout == RolloutSpec /\ RolloutFairness

-----------------------------------------------------------------------------
\* No pod has anything to do until something changes or resyncs.
AllSettled == (OldUp => Settled) /\ (NewUp => New!Settled)

\* Clusters are served by the pod that remains, or by the only one.
AllProvisioned == IF OldUp THEN Provisioned ELSE New!Provisioned

\* Before, during and after a rollout: when all pods have settled, no controllers
\* are left of a shard without clusters (undeployControllers runs for the last
\* cluster of every shard, and the new pod counts again from nothing).
RolloutClean == AllSettled => Clean

\* ...and every cluster is served by the controllers of its shard: the new pod
\* takes over what the old one has deployed, and neither pod removes what the
\* other one needs (trackCluster).
RolloutProvisioned == AllSettled => AllProvisioned

\* No controllers are removed from the start of the rollout until the new pod has
\* caught up: counting again from nothing is no reason to remove any.
NoOutage ==
  [][\A s \in Shards, k \in Component :
       phase \in {"both", "new"} /\ deployment[s][k] # None =>
         deployment'[s][k] # None]_rollout

\* Once the rollout is over and users rest, every cluster is served for good.
EventuallyTakenOver == <>[](phase = "old" \/ New!Provisioned)

=============================================================================

-------------------------- MODULE ShardTrackerInv --------------------------
(***************************************************************************)
(* The inductive invariant of ShardTracker: what the mutex protects while  *)
(* a cluster reconciler talks to the API server, and which Deployments the *)
(* ConfigMap reconciler has still to bring up to date.                     *)
(***************************************************************************)
EXTENDS ShardTracker

\* A reconciler that deploys or undeploys holds the mutex, and nobody else does.
MutexHeld ==
  \A w \in Kinds :
    task[w].pc \in {"retiring", "stopping", "deploying"} <=> mux = w

\* A reconciler works on clusters of its own kind, so a cluster is never handled
\* by two reconcilers at a time.
OwnClusters ==
  \A w \in Kinds : task[w].pc # "idle" => KindOf[task[w].item] = w

\* The last cluster of a shard is still counted while the shard is undeployed
\* because the cluster moves...
RetiringLast ==
  \A w \in Kinds : task[w].pc = "retiring" =>
    /\ clusterMap[task[w].item] = task[w].shard
    /\ shardMap[task[w].shard] = {task[w].item}
    /\ task[w].seen # task[w].shard

\* ...and is forgotten before the shard is undeployed because it is deleted.
StoppingLast ==
  \A w \in Kinds : task[w].pc = "stopping" =>
    /\ clusterMap[task[w].item] = None
    /\ shardMap[task[w].shard] = {}

\* While the shard of its first cluster is deployed, the shard has no clusters,
\* the cluster has no shard, and what was deployed stays.
DeployingFirst ==
  \A w \in Kinds : task[w].pc = "deploying" =>
    /\ task[w].shard = task[w].seen
    /\ shardMap[task[w].shard] = {}
    /\ \A s \in ShardKeys : task[w].item \notin shardMap[s]
    /\ \A k \in Component : k < task[w].step => deployment[task[w].shard][k] # None

\* An annotation that changed after it was read has queued the cluster again.
SeenOrQueued ==
  \A w \in Kinds :
    task[w].pc # "idle" => task[w].seen = object[task[w].item] \/ task[w].item \in queue

\* The ConfigMap reconciler has still to apply this Deployment.
Pending(s, k) ==
  \/ redeploy.pc = "listed" /\ s \in redeploy.todo
  \/ /\ redeploy.pc = "deploying" /\ s \in redeploy.todo
     /\ s = redeploy.shard => k >= redeploy.step

\* Every edit of the ConfigMap has been listed: whoever deploys uses the current
\* patches, and Deployments with old ones are pending or of inactive shards.
PatchesFollow ==
  ~configQueued =>
    /\ \A w \in Kinds : task[w].pc = "deploying" =>
         /\ task[w].patches = config
         /\ \A k \in Component :
              k < task[w].step => deployment[task[w].shard][k] = config
    /\ redeploy.pc = "deploying" => redeploy.patches = config
    /\ \A s \in Shards, k \in Component :
         deployment[s][k] \in {None, config} \/ shardMap[s] = {} \/ Pending(s, k)

\* The part that speaks of the maps and of what the holder of the mutex does.
HoldInv == MutexHeld /\ OwnClusters /\ RetiringLast /\ StoppingLast /\ DeployingFirst

IndInv ==
  /\ TypeOK
  /\ HoldInv
  /\ MembersTracked
  /\ SeenOrQueued
  /\ NoLostChange
  /\ PatchesFollow

-----------------------------------------------------------------------------
(* Clusters that do not return to a shard they have left: users' changes go *)
(* forward in some order of the shard keys, a ranking.                      *)

Forward(rank) ==
  \A v, u \in ShardKeys \cup {None} : <<v, u>> \in Moves => rank[v] < rank[u]

\* Users may have come from v to u.
Reached(rank, v, u) == v = u \/ rank[v] < rank[u]

\* What a reconciler has read lies between what is recorded of the cluster and
\* what its annotation is now.
InOrder(rank) ==
  /\ \A c \in Clusters : clusterMap[c] # None => Reached(rank, clusterMap[c], object[c])
  /\ \A w \in Kinds : task[w].pc # "idle" =>
       LET c == task[w].item
           v == task[w].seen IN
       /\ Reached(rank, v, object[c])
       /\ clusterMap[c] # None => Reached(rank, clusterMap[c], v)

\* A cluster that is recorded with a shard and not counted there is on its way to
\* another one: trackCluster has erased it, and its reconcile has failed or goes on.
LeftBehind(rank) ==
  \A c \in Clusters :
    clusterMap[c] # None /\ c \notin shardMap[clusterMap[c]] =>
      rank[clusterMap[c]] < rank[object[c]]

-----------------------------------------------------------------------------
(* A pod: a process without ConfigMap whose calls all succeed, next to       *)
(* which another one may deploy.                                            *)

Undisturbed == FaultKinds = {} /\ BadShards = {}

\* A step of the goroutines of a pod, or of the informers.
Works ==
  \/ \E w \in Kinds, c \in Clusters : Fetch(w, c)
  \/ \E w \in Kinds : LockStep(w) \/ HoldStep(w)
  \/ Resync

\* The ConfigMap reconciler never has anything to do.
Quiet ==
  /\ config = NoConfigMap /\ ~configQueued /\ redeploy = Resting
  /\ \A s \in Shards, k \in Component : deployment[s][k] \in {None, NoConfigMap}
  /\ \A w \in Kinds : task[w].pc = "deploying" => task[w].patches = NoConfigMap

\* A cluster is in the set of its recorded shard, unless its next one is being
\* deployed.
Recorded ==
  \A c \in Clusters :
    clusterMap[c] # None /\ c \notin shardMap[clusterMap[c]] =>
      \E w \in Kinds : task[w].pc = "deploying" /\ task[w].item = c

PodInv == IndInv /\ Quiet /\ Recorded /\ ActiveDeployed

\* A Deployment is one of an active shard, or of the shard that is being deployed,
\* or has yet to be deleted.
Tied ==
  /\ \A s \in Shards, k \in Component : deployment[s][k] # None =>
       \/ shardMap[s] # {}
       \/ \E w \in Kinds : task[w].pc = "deploying" /\ task[w].shard = s
       \/ \E w \in Kinds :
            task[w].pc = "stopping" /\ task[w].shard = s /\ k >= task[w].step
  /\ \A w \in Kinds : task[w].pc = "retiring" =>
       \A k \in Component : k < task[w].step => deployment[task[w].shard][k] = None

\* No cluster is leaving a shard: what a pod has recorded or read of a cluster with
\* a shard is what its annotation says.
Steady ==
  /\ \A c \in Clusters : clusterMap[c] \in Shards => object[c] = clusterMap[c]
  /\ \A w \in Kinds : task[w].pc # "idle" =>
       LET c == task[w].item
           v == task[w].seen IN
       /\ task[w].pc \notin {"retiring", "stopping"}
       /\ v \in Shards => object[c] = v
       /\ clusterMap[c] \in Shards => v = clusterMap[c]

=============================================================================

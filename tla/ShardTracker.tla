---------------------------- MODULE ShardTracker ----------------------------
(***************************************************************************)
(* The shard-controller process: two cluster reconcilers (SveltosCluster   *)
(* and Cluster API Cluster) and the ConfigMap reconciler, sharing the maps *)
(* clusterMap and shardMap under the mutex mux, and the Deployments they   *)
(* apply and delete in the management cluster                              *)
(* (internal/controller/utils.go and the three *_controller.go files).     *)
(*                                                                         *)
(* Every call to the API server is one step, because the ConfigMap         *)
(* reconciler deploys WITHOUT the mutex and so interleaves with the calls  *)
(* a cluster reconciler makes while it holds it.  What a goroutine does    *)
(* between two calls is one step: the mutex hides it from the others.      *)
(***************************************************************************)
EXTENDS Integers

CONSTANTS
  Clusters,       \* object references (kind, namespace, name) of clusters
  KindOf,         \* which of the two reconcilers watches a cluster
  Shards,         \* the shard keys with Deployments of their own; keys whose
                  \* Deployments have the same names are in ShardManifests
  NoShard,        \* the empty shard key, "": the default deployments
  BadShards,      \* shard keys that give no valid Deployment: "Team A", say
  NumComponents,  \* Deployments per shard: five in the code
  Configs,        \* contents of the shard-components ConfigMap
  Unparsable,     \* the contents getPatchesFromConfigMap rejects
  Misfits,        \* for each contents, the components its patches do not apply to
  NoConfigMap,    \* "contents" of a ConfigMap that does not exist
  None,           \* no cluster object, no map entry, no Deployment, no holder
  Moves,          \* pairs <<from, to>>: the shard changes users may make
  FaultKinds,     \* which of "read", "apply", "delete", "crash" may go wrong
  MaxFaults,      \* bound on the number of faults
  MaxChanges      \* bound on the number of changes users make

Kinds == {"SveltosCluster", "Cluster"}      \* the cluster reconcilers

ShardKeys == Shards \cup {NoShard}

Component == 1 .. NumComponents             \* in the order of deployControllers

ASSUME ConstantsAssumption ==
  /\ KindOf \in [Clusters -> Kinds]
  /\ NoShard \notin Shards /\ BadShards \subseteq Shards
  /\ NumComponents \in Nat \ {0}
  /\ NoConfigMap \in Configs /\ NoConfigMap \notin Unparsable
  /\ Misfits \in [Configs -> SUBSET Component]
  /\ Misfits[NoConfigMap] = {}
  /\ None \notin Clusters \cup ShardKeys \cup Configs \cup Kinds
  /\ MaxFaults \in Nat
  /\ MaxChanges \in Nat

VARIABLES
  \* The informer caches: what a reconciler can read.
  object,         \* shard annotation of each cluster; None: deleted or absent
  config,         \* contents of the shard-components ConfigMap
  \* The API server.
  deployment,     \* for each shard and component, the patches it was applied with
  \* The process' globals.
  clusterMap,     \* shard a cluster was part of when last processed
  shardMap,       \* clusters currently matching a shard (nil is the empty set)
  mux,            \* the reconciler that holds the write lock, or None
  \* The work queues and the goroutines that serve them.
  queue,          \* clusters waiting to be reconciled
  configQueued,   \* the ConfigMap waits to be reconciled
  task,           \* what each cluster reconciler is doing
  redeploy,       \* what the ConfigMap reconciler is doing
  \* Bounds.
  changes, faults

users    == <<object, config, changes>>
maps     == <<clusterMap, shardMap>>
configRec == <<configQueued, redeploy>>
vars     == <<users, deployment, maps, mux, queue, task, configRec, faults>>

-----------------------------------------------------------------------------
(* State functions.                                                         *)

Live == {c \in Clusters : object[c] # None}

\* What a cluster reconciler holds: the cluster it was asked to reconcile, the
\* annotation it has read, and where it is in the (un)deployment of a shard.
Task(pc, c, v, s, k, p) ==
  [pc |-> pc, item |-> c, seen |-> v, shard |-> s, step |-> k, patches |-> p]

Idle == Task("idle", None, None, None, 0, None)

\* What the ConfigMap reconciler holds: the shards still to redeploy, and where
\* it is in the deployment of one of them.
Round(pc, todo, s, k, p) ==
  [pc |-> pc, todo |-> todo, shard |-> s, step |-> k, patches |-> p]

Resting == Round("idle", {}, None, 0, None)

\* The zero value Go returns for a missing map entry is the empty key.
OldShard(c) == IF clusterMap[c] = None THEN NoShard ELSE clusterMap[c]

\* Mutated: Len() == 1 is not asked.
LastIgnoresOthers(c) == OldShard(c) \in Shards /\ c \in shardMap[OldShard(c)]

\* oldClusterPerShard.Has(cluster) && oldClusterPerShard.Len() == 1, for a
\* shard that has Deployments of its own.
LastOfShard(c) == OldShard(c) \in Shards /\ shardMap[OldShard(c)] = {c}

\* Mutated: the cluster stays in the set of its old shard.
EraseForgotten(c) == shardMap

\* shardMap once the cluster is erased from the set of its old shard.  (A
\* cluster that is not tracked is in no set, so erasing it changes nothing.)
Erased(c) == [shardMap EXCEPT ![OldShard(c)] = @ \ {c}]

\* activeShards of redeployAllShards.
ActiveShards == {s \in Shards : shardMap[s] # {}}

CanFail(kind) == kind \in FaultKinds /\ faults < MaxFaults

Fail(kind) == CanFail(kind) /\ faults' = faults + 1

\* getShardComponentsPatches returns an error: the read fails, or the contents
\* are not valid patches.
PatchesRejected ==
  \/ config \in Unparsable /\ UNCHANGED faults
  \/ Fail("read")

\* Mutated: shardMap is read without the lock.
ReadUnlocked == TRUE

\* mux.RLock can be taken.
MayRead == mux = None

\* deployDeployment: server-side apply with ForceOwnership, creates or replaces.
Applied(s, k, p) == [deployment EXCEPT ![s][k] = p]

\* No retry helps: the patches do not apply to the template, or what the template
\* makes of the shard key is no YAML or is no valid object.
Inapplicable(s, k, p) == s \in BadShards \/ k \in Misfits[p]

ApplySucceeds(s, k, p) ==
  /\ ~Inapplicable(s, k, p)
  /\ deployment' = Applied(s, k, p)
  /\ UNCHANGED faults

\* Either there is nothing to send, or it is rejected; or the call fails, and may
\* nevertheless have taken effect.
ApplyFails(s, k, p) ==
  \/ Inapplicable(s, k, p) /\ UNCHANGED <<deployment, faults>>
  \/ /\ ~Inapplicable(s, k, p)
     /\ Fail("apply")
     /\ deployment' \in {deployment, Applied(s, k, p)}

\* Mutated: undeployControllers leaves the last of the Deployments.
DeletedButLast(s, k) ==
  IF k = NumComponents THEN deployment ELSE [deployment EXCEPT ![s][k] = None]

\* undeployDeployment: deleting what is not there is a success.
Deleted(s, k) == [deployment EXCEPT ![s][k] = None]

-----------------------------------------------------------------------------
Init ==
  /\ object \in [Clusters -> ShardKeys \cup {None}]
  /\ config \in Configs
  /\ deployment = [s \in Shards |-> [k \in Component |-> None]]
  /\ clusterMap = [c \in Clusters |-> None]
  /\ shardMap = [s \in ShardKeys |-> {}]
  /\ mux = None
  /\ queue = Live
  /\ configQueued = (config # NoConfigMap)
  /\ task = [w \in Kinds |-> Idle]
  /\ redeploy = Resting
  /\ changes = 0
  /\ faults = 0

-----------------------------------------------------------------------------
(* A cluster reconciler.                                                    *)

\* Mutated: the goroutine keeps what it held.
ReturnHolding(w) ==
  /\ task' = [task EXCEPT ![w] =
               Task("idle", @.item, @.seen, @.shard, @.step, @.patches)]
  /\ mux' = None

\* Reconcile returns: deferred mux.Unlock, and on an error the work queue
\* takes the request back.
Return(w) ==
  /\ task' = [task EXCEPT ![w] = Idle]
  /\ mux' = None

ReturnNil(w) == Return(w) /\ UNCHANGED queue

\* Mutated: the error is logged and nil is returned.
ErrorSwallowed(w) == Return(w) /\ UNCHANGED queue

ReturnError(w) == Return(w) /\ queue' = queue \cup {task[w].item}

\* processCluster: take a request, read the cluster from the cache.  The
\* annotation is read before the mutex is taken.
Fetch(w, c) ==
  /\ task[w].pc = "idle"
  /\ c \in queue /\ KindOf[c] = w
  /\ queue' = queue \ {c}
  /\ task' = [task EXCEPT ![w] = Task("fetched", c, object[c], None, 0, None)]
  /\ UNCHANGED <<users, deployment, maps, mux, configRec, faults>>

\* processCluster: the cluster cannot be read; the request is given back.
FetchFails(w, c) ==
  /\ task[w].pc = "idle"
  /\ c \in queue /\ KindOf[c] = w
  /\ Fail("read")
  /\ UNCHANGED <<users, deployment, maps, mux, queue, task, configRec>>

\* The reconciler can take the mutex, with the cluster it has read.
MayLock(w) == task[w].pc = "fetched" /\ mux = None

\* Mutated: a cluster that loses its annotation is left alone.
AnnotationRequired(w) ==
  LET t == task[w] IN t.seen \notin {None, NoShard, clusterMap[t.item]}

\* Mutated: what is recorded is not compared.
AlwaysChanged(w) == task[w].seen # None

\* The cluster has a shard (possibly NoShard) other than the one recorded.
ShardChanged(w) ==
  LET t == task[w] IN t.seen # None /\ t.seen # clusterMap[t.item]

\* trackCluster: already tracked, and the shard has not changed.
TrackUnchanged(w) ==
  /\ MayLock(w)
  /\ task[w].seen # None /\ ~ShardChanged(w)
  /\ ReturnNil(w)
  /\ UNCHANGED <<users, deployment, maps, configRec, faults>>

\* trackCluster: the last cluster of its old shard leaves, so the old shard's
\* controllers are removed first.
BeginRetire(w) ==
  LET c == task[w].item IN
  /\ MayLock(w)
  /\ ShardChanged(w) /\ LastOfShard(c)
  /\ mux' = w
  /\ task' = [task EXCEPT ![w] = Task("retiring", c, @.seen, OldShard(c), 1, None)]
  /\ UNCHANGED <<users, deployment, maps, queue, configRec, faults>>

\* trackCluster, once the cluster may be erased from its old shard: nothing to
\* undeploy, or undeployControllers has succeeded.
MayMove(w) ==
  \/ MayLock(w) /\ ShardChanged(w) /\ ~LastOfShard(task[w].item)
  \/ task[w].pc = "retiring" /\ task[w].step \notin Component

\* Mutated: a shard with some Deployment counts as deployed.
AnyDeploymentWillDo(members, s) ==
  \/ s = NoShard \/ members[s] # {}
  \/ s # NoShard /\ \E k \in Component : deployment[s][k] # None

\* The shard has its controllers already, or is served by the default ones.
NeedsNoDeploy(members, s) == s = NoShard \/ members[s] # {}

\* trackCluster: the cluster joins a shard that needs no deployment.
Join(w) ==
  LET c == task[w].item
      s == task[w].seen IN
  /\ MayMove(w)
  /\ NeedsNoDeploy(Erased(c), s)
  /\ shardMap' = [Erased(c) EXCEPT ![s] = @ \cup {c}]
  /\ clusterMap' = [clusterMap EXCEPT ![c] = s]
  /\ ReturnNil(w)
  /\ UNCHANGED <<users, deployment, configRec, faults>>

\* trackCluster: first cluster of its shard.  deployControllers reads the
\* patches once, before the first Deployment.
BeginDeploy(w) ==
  LET c == task[w].item
      s == task[w].seen IN
  /\ MayMove(w)
  /\ ~NeedsNoDeploy(Erased(c), s)
  /\ shardMap' = Erased(c)
  /\ \/ PatchesRejected /\ ReturnError(w)
     \/ /\ config \notin Unparsable
        /\ mux' = w
        /\ task' = [task EXCEPT ![w] = Task("deploying", c, s, s, 1, config)]
        /\ UNCHANGED <<queue, faults>>
  /\ UNCHANGED <<users, deployment, clusterMap, configRec>>

\* deployControllers: one Deployment is applied.
DeployNext(w) ==
  LET t == task[w] IN
  /\ t.pc = "deploying" /\ t.step \in Component
  /\ ApplySucceeds(t.shard, t.step, t.patches)
  /\ task' = [task EXCEPT ![w] =
               Task(t.pc, t.item, t.seen, t.shard, t.step + 1, t.patches)]
  /\ UNCHANGED <<users, maps, mux, queue, configRec>>

\* deployControllers: deployDeployment fails, the reconcile ends.
DeployFails(w) ==
  LET t == task[w] IN
  /\ t.pc = "deploying" /\ t.step \in Component
  /\ ApplyFails(t.shard, t.step, t.patches)
  /\ ReturnError(w)
  /\ UNCHANGED <<users, maps, configRec>>

\* trackCluster: all controllers are deployed, update both maps.
Commit(w) ==
  LET t == task[w] IN
  /\ t.pc = "deploying" /\ t.step \notin Component
  /\ shardMap' = [shardMap EXCEPT ![t.shard] = @ \cup {t.item}]
  /\ clusterMap' = [clusterMap EXCEPT ![t.item] = t.shard]
  /\ ReturnNil(w)
  /\ UNCHANGED <<users, deployment, configRec, faults>>

\* undeployControllers: one Deployment is deleted.
UndeployNext(w) ==
  LET t == task[w] IN
  /\ t.pc \in {"retiring", "stopping"} /\ t.step \in Component
  /\ deployment' = Deleted(t.shard, t.step)
  /\ task' = [task EXCEPT ![w] =
               Task(t.pc, t.item, t.seen, t.shard, t.step + 1, t.patches)]
  /\ UNCHANGED <<users, maps, mux, queue, configRec, faults>>

\* undeployControllers: the delete fails, with or without effect.
UndeployFails(w) ==
  LET t == task[w] IN
  /\ t.pc \in {"retiring", "stopping"} /\ t.step \in Component
  /\ Fail("delete")
  /\ deployment' \in {deployment, Deleted(t.shard, t.step)}
  /\ ReturnError(w)
  /\ UNCHANGED <<users, maps, configRec>>

\* stopTrackingCluster: forget the cluster; if it was the last one of a shard,
\* remove the controllers of that shard AFTER the maps are updated.
StopTracking(w) ==
  LET c == task[w].item IN
  /\ MayLock(w)
  /\ task[w].seen = None
  /\ clusterMap' = [clusterMap EXCEPT ![c] = None]
  /\ shardMap' = Erased(c)
  /\ \/ /\ ~LastOfShard(c)
        /\ ReturnNil(w)
     \/ /\ LastOfShard(c)
        /\ mux' = w
        /\ task' = [task EXCEPT ![w] = Task("stopping", c, None, OldShard(c), 1, None)]
        /\ UNCHANGED queue
  /\ UNCHANGED <<users, deployment, configRec, faults>>

\* stopTrackingCluster: undeployControllers has returned nil.
Stopped(w) ==
  /\ task[w].pc = "stopping" /\ task[w].step \notin Component
  /\ ReturnNil(w)
  /\ UNCHANGED <<users, deployment, maps, configRec, faults>>

-----------------------------------------------------------------------------
(* The ConfigMap reconciler: redeployAllShards.                             *)

\* Mutated: the error is logged and nil is returned.
RedeployForgotten == redeploy' = Resting /\ UNCHANGED configQueued

\* Reconcile returns an error: the work queue takes the request back.
RedeployError == redeploy' = Resting /\ configQueued' = TRUE

\* The active shards are listed under the read lock, which is then released.
ListActiveShards ==
  /\ redeploy.pc = "idle" /\ configQueued
  /\ MayRead
  /\ configQueued' = FALSE
  /\ redeploy' = Round("listed", ActiveShards, None, 0, None)
  /\ UNCHANGED <<users, deployment, maps, mux, queue, task, faults>>

\* deployControllers for the next listed shard (the list has the order of a map
\* iteration); the patches are read once per shard.
BeginRedeploy(s) ==
  /\ redeploy.pc = "listed" /\ s \in redeploy.todo
  /\ \/ PatchesRejected /\ RedeployError
     \/ /\ config \notin Unparsable
        /\ redeploy' = Round("deploying", redeploy.todo, s, 1, config)
        /\ UNCHANGED <<configQueued, faults>>
  /\ UNCHANGED <<users, deployment, maps, mux, queue, task>>

RedeployNext ==
  LET r == redeploy IN
  /\ r.pc = "deploying" /\ r.step \in Component
  /\ ApplySucceeds(r.shard, r.step, r.patches)
  /\ redeploy' = Round("deploying", r.todo, r.shard, r.step + 1, r.patches)
  /\ UNCHANGED <<users, maps, mux, queue, task, configQueued>>

\* deployDeployment fails: the shards that remain are not redeployed.
RedeployFails ==
  LET r == redeploy IN
  /\ r.pc = "deploying" /\ r.step \in Component
  /\ ApplyFails(r.shard, r.step, r.patches)
  /\ RedeployError
  /\ UNCHANGED <<users, maps, mux, queue, task>>

\* A shard is done: on to the next one.
RedeployedShard ==
  LET r == redeploy IN
  /\ r.pc = "deploying" /\ r.step \notin Component
  /\ redeploy' = Round("listed", r.todo \ {r.shard}, None, 0, None)
  /\ UNCHANGED <<users, deployment, maps, mux, queue, task, configQueued, faults>>

\* The list is exhausted.
EndRedeploy ==
  /\ redeploy.pc = "listed" /\ redeploy.todo = {}
  /\ redeploy' = Resting
  /\ UNCHANGED <<users, deployment, maps, mux, queue, task, configQueued, faults>>

-----------------------------------------------------------------------------
(* The world around the process.                                            *)

\* A user creates, re-annotates or deletes a cluster; the informer queues it.
ChangeCluster(c, v) ==
  /\ changes < MaxChanges
  /\ v # object[c] /\ <<object[c], v>> \in Moves
  /\ object' = [object EXCEPT ![c] = v]
  /\ queue' = queue \cup {c}
  /\ changes' = changes + 1
  /\ UNCHANGED <<config, deployment, maps, mux, task, configRec, faults>>

\* A user creates, edits or deletes the ConfigMap; the informer queues it.
ChangeConfig(p) ==
  /\ changes < MaxChanges
  /\ p # config
  /\ config' = p
  /\ configQueued' = TRUE
  /\ changes' = changes + 1
  /\ UNCHANGED <<object, deployment, maps, mux, queue, task, redeploy, faults>>

\* Every sync period the informers queue all the objects they hold.
Resync ==
  /\ queue' = queue \cup Live
  /\ configQueued' = (configQueued \/ config # NoConfigMap)
  /\ UNCHANGED <<users, deployment, maps, mux, task, redeploy, faults>>

\* A process starts, in place of the one that had the maps, the queues and the
\* goroutines: InitMaps, and the informers queue the objects that exist now.
Reboot ==
  /\ clusterMap' = [c \in Clusters |-> None]
  /\ shardMap' = [s \in ShardKeys |-> {}]
  /\ mux' = None
  /\ queue' = Live
  /\ configQueued' = (config # NoConfigMap)
  /\ task' = [w \in Kinds |-> Idle]
  /\ redeploy' = Resting
  /\ UNCHANGED <<users, deployment>>

\* The process is killed and started again.
Restart == Fail("crash") /\ Reboot

-----------------------------------------------------------------------------
\* The steps of a reconcile that wait for the mutex, and those that do not.
LockStep(w) ==
  \/ TrackUnchanged(w)
  \/ BeginRetire(w)
  \/ Join(w)
  \/ BeginDeploy(w)
  \/ StopTracking(w)

HoldStep(w) ==
  \/ DeployNext(w)
  \/ DeployFails(w)
  \/ UndeployNext(w)
  \/ UndeployFails(w)
  \/ Commit(w)
  \/ Stopped(w)

RedeployStep ==
  \/ \E s \in Shards : BeginRedeploy(s)
  \/ RedeployNext
  \/ RedeployFails
  \/ RedeployedShard
  \/ EndRedeploy

UserStep ==
  \/ \E c \in Clusters, v \in ShardKeys \cup {None} : ChangeCluster(c, v)
  \/ \E p \in Configs : ChangeConfig(p)

Next ==
  \/ \E w \in Kinds, c \in Clusters : Fetch(w, c) \/ FetchFails(w, c)
  \/ \E w \in Kinds : LockStep(w) \/ HoldStep(w)
  \/ ListActiveShards
  \/ RedeployStep
  \/ UserStep
  \/ Resync
  \/ Restart

Spec == Init /\ [][Next]_vars

\* The work queue serves its requests in turn, sync.RWMutex does not starve a
\* waiter, a call to the API server returns, and informers resync for ever.
Fairness ==
  /\ \A c \in Clusters : SF_vars(Fetch(KindOf[c], c))
  /\ \A w \in Kinds : SF_vars(LockStep(w)) /\ WF_vars(HoldStep(w))
  /\ SF_vars(ListActiveShards)
  /\ WF_vars(RedeployStep)
  /\ WF_vars(Resync)

FairSpec == Spec /\ Fairness

-----------------------------------------------------------------------------
(* Types.                                                                   *)

\* What a cluster reconciler can be doing.
TaskStates ==
  {Idle}
  \cup [pc : {"fetched"}, item : Clusters, seen : ShardKeys \cup {None},
        shard : {None}, step : {0}, patches : {None}]
  \cup [pc : {"retiring"}, item : Clusters, seen : ShardKeys,
        shard : Shards, step : 1 .. NumComponents + 1, patches : {None}]
  \cup [pc : {"stopping"}, item : Clusters, seen : {None},
        shard : Shards, step : 1 .. NumComponents + 1, patches : {None}]
  \cup [pc : {"deploying"}, item : Clusters, seen : Shards,
        shard : Shards, step : 1 .. NumComponents + 1, patches : Configs]

\* What the ConfigMap reconciler can be doing.
RedeployStates ==
  {Resting}
  \cup [pc : {"listed"}, todo : SUBSET Shards,
        shard : {None}, step : {0}, patches : {None}]
  \cup [pc : {"deploying"}, todo : SUBSET Shards,
        shard : Shards, step : 1 .. NumComponents + 1, patches : Configs]

\* Every variable has its type, and a goroutine between two reconciles holds
\* nothing of the previous one.
TypeOK ==
  /\ object \in [Clusters -> ShardKeys \cup {None}]
  /\ config \in Configs
  /\ deployment \in [Shards -> [Component -> Configs \cup {None}]]
  /\ clusterMap \in [Clusters -> ShardKeys \cup {None}]
  /\ shardMap \in [ShardKeys -> SUBSET Clusters]
  /\ mux \in Kinds \cup {None}
  /\ queue \in SUBSET Clusters
  /\ configQueued \in BOOLEAN
  /\ task \in [Kinds -> TaskStates]
  /\ redeploy \in RedeployStates
  /\ changes \in 0 .. MaxChanges
  /\ faults \in 0 .. MaxFaults

-----------------------------------------------------------------------------
(* What holds under every fault.                                            *)

\* A cluster is counted as matching a shard only if that shard is the one
\* recorded for it, so it matches at most one shard however a reconcile ends
\* (trackCluster and stopTrackingCluster update the two maps separately).
MembersTracked ==
  \A s \in ShardKeys : \A c \in shardMap[s] : clusterMap[c] = s

\* Reconciler w works on cluster c, and what it read of c is still true.
Handling(w, c) == task[w].item = c /\ task[w].seen = object[c]

\* No change of a cluster is lost: while the recorded shard differs from the
\* annotation, the cluster is queued or a reconcile that has read the current
\* annotation is running.  The annotation is read before the mutex is taken,
\* and a failed reconcile gives its request back.
NoLostChange ==
  \A c \in Clusters :
    object[c] # clusterMap[c] => c \in queue \/ \E w \in Kinds : Handling(w, c)

\* No edit of the ConfigMap is lost: once the ConfigMap reconciler has nothing
\* left to do, no Deployment of an active shard was applied with old patches.
\* The redeploy runs without the mutex, next to reconciles that deploy shards
\* it has not listed.
PatchesCurrent ==
  ~configQueued /\ redeploy.pc = "idle" =>
    \A s \in ActiveShards, k \in Component : deployment[s][k] \in {None, config}

\* A Deployment of a shard is deleted only for the reconcile of the single
\* cluster that still matches the shard: controllers are never removed under a
\* cluster that stays.
SafeRemoval ==
  [][\A s \in Shards, k \in Component :
       deployment[s][k] # None /\ deployment'[s][k] = None =>
         mux # None /\ shardMap[s] \subseteq {task[mux].item}]_vars

\* A shard gets its first cluster only when all its Deployments exist: the maps
\* are updated after deployControllers has succeeded, and nobody deletes a
\* Deployment in between.
FirstJoinDeployed ==
  [][\A s \in Shards :
       shardMap[s] = {} /\ shardMap'[s] # {} =>
         \A k \in Component : deployment[s][k] # None]_vars

-----------------------------------------------------------------------------
(* What a user of the process sees.                                         *)

\* The process has nothing to do until something changes or resyncs.
Settled ==
  /\ queue = {} /\ ~configQueued
  /\ \A w \in Kinds : task[w].pc = "idle"
  /\ redeploy.pc = "idle"

\* The shard of the cluster has its controllers, with the current patches.
Served(c) ==
  LET s == object[c] IN
  /\ c \in shardMap[s]
  /\ s \in Shards => \A k \in Component : deployment[s][k] = config

\* Every cluster is, except one annotated with a shard key that cannot be served.
Provisioned == \A c \in Live : object[c] \in BadShards \/ Served(c)

\* Only shards some cluster is annotated with have Deployments.
Clean ==
  \A s \in Shards, k \in Component :
    deployment[s][k] # None => \E c \in Live : object[c] = s

\* An active shard has all its Deployments, except while its last cluster is
\* being moved away: what the ConfigMap reconciler and a failed reconcile leave
\* behind never takes a controller from a shard in use (trackCluster).  It does
\* not hold when a delete may fail.
ActiveDeployed ==
  \A s \in ActiveShards :
    \/ \A k \in Component : deployment[s][k] # None
    \/ \E w \in Kinds : task[w].pc = "retiring" /\ task[w].shard = s

\* When the process has settled, every cluster is served, by all the controllers
\* of its shard with the current patches: trackCluster, redeployAllShards and a
\* restart between any two calls leave nothing half done.
SettledProvisioned == Settled => Provisioned

\* The ConfigMap is one no shard can be deployed with.
Rejected == config \in Unparsable \/ Misfits[config] # {}

\* Once users stop changing things and calls stop failing, every cluster is
\* eventually served for good (trackCluster, its retries and the resync of the
\* informers), unless the ConfigMap is left with bad patches: one that cannot be,
\* and is retried for ever, does not keep the mutex from the other reconcilers.
EventuallyProvisioned == <>[](Rejected \/ Provisioned)

\* Likewise, the controllers of shards without clusters are eventually gone for
\* good (trackCluster, stopTrackingCluster).
EventuallyClean == <>[](Rejected \/ Clean)

-----------------------------------------------------------------------------
(* What the process promises of shards, clusters and controllers.           *)

\* The controllers of a shard that exist.
Running == [s \in Shards |-> {k \in Component : deployment[s][k] # None}]

Fleet == INSTANCE ShardFleet WITH
  Components <- Component, members <- shardMap, running <- Running

\* Whatever fails, and however the three reconcilers interleave, clusters join
\* and leave shards and controllers start and stop as ShardFleet allows
\* (trackCluster, stopTrackingCluster, redeployAllShards).
ImplementsFleet == Fleet!Spec

=============================================================================

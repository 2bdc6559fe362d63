# Formal verification of shard-controller

TLA+ models of `shard-controller`, TLC runs that check them on small instances,
and TLAPS proofs that the main safety properties hold for every instance. File
and line references are to the repository (`src/internal/controller/utils.go` is
written `utils.go`).

    tlc -workers 2 -config TrackerFaults.cfg MCShardTracker     # any of the cfg files
    tlapm ShardTrackerProofs.tla                                # and the other *Proofs modules

## 1. The system

The process watches clusters of two kinds in the management cluster. Each carries
an annotation, its *shard key*. For every distinct non-empty key the process keeps
a set of five Deployments (addon-controller, classifier, sveltoscluster-manager,
event-manager, healthcheck-manager), created when the first cluster takes the key
and deleted when the last one gives it up. The empty key stands for the default
controllers, which are not managed here.

| Component | State | Operations | Modelled in |
|---|---|---|---|
| Cluster reconcilers (`sveltoscluster_controller.go`, `cluster_controller.go`, `utils.go` 115-255) | `clusterMap`: shard a cluster was in when last processed; `shardMap`: clusters of each shard; `mux` | `processCluster` reads the cluster, then `trackCluster` or `stopTrackingCluster` under the write lock | `ShardTracker` |
| Deployment of controllers (`utils.go` 289-521) | the Deployments, in the API server | `deployControllers` (five server-side applies), `undeployControllers` (five deletes) | `ShardTracker` |
| ConfigMap reconciler (`configmap_controller.go`, `utils.go` 601-621) | none | `redeployAllShards`: list active shards under the read lock, deploy them without it | `ShardTracker` |
| Patches (`utils.go` 525-598) | the shard-components ConfigMap | read, parse, apply to each template | `ShardManifests`; in `ShardTracker` as abstract values |
| Start-up and restart (`cmd/main.go`, `InitMaps`) | the globals | empty maps, informers list what exists, resync every sync period; no leader election, so two processes overlap in a rolling update | `ShardTracker`, `ShardProcess`, `ShardRollout` |
| Templates and options (`pkg/sharding`, `utils.go` 379-399, 504-521, 623-715) | none | render five templates, set and append arguments | `ShardManifests` |
| Cluster API detection (`cmd/main.go` 248-319) | retry counter | poll for the CRD, start the second reconciler, or watch CRDs and restart | `CapiWatcher`, with the reconcilers in `ShardProcess` |
| Flags, diagnostics, health, generator, manifests, tests | - | configuration, build and data | not modelled |

How they interact. Each reconciler is served by one worker goroutine with its own
work queue. The two cluster reconcilers share the maps and exclude each other with
`mux`, which a reconcile holds *while it calls the API server*. The ConfigMap
reconciler takes `mux` only to list the active shards. All three write the same
Deployments. A reconcile that returns an error is queued again; users' changes
and the periodic resync queue objects too. Nothing is persisted: after a restart
the maps are empty, and only objects that exist are seen.

What makes it hard:

- the annotation is read *before* the mutex is taken, so it may be old when used;
- a move is several calls, each of which may fail with or without effect, and the
  two maps are updated at different places between them;
- deployments of the ConfigMap reconciler interleave with those and with the
  removals of the cluster reconcilers, shard by shard and Deployment by Deployment;
- the patches are read once per shard and may change while they are applied;
- a restart may come between any two calls;
- Cluster API is installed, upgraded or removed at any moment of the start-up, and
  the process restarts itself when it notices. It is a group of CRDs: the check looks for
  the one of clusters, served, the handler of the watcher at the group and version of any;
- after a restart the clusters of Cluster API are not counted until it is detected again,
  while the SveltosClusters are;
- in a rolling update two processes, each with its own maps and mutex, deploy and remove
  the same Deployments;
- arguments and patches come out of Go maps, in any order, and are added to templates
  the code refers to by container names and flag prefixes;
- the shard key is put into YAML text without quotes, which is parsed afterwards.

What makes each component correct:

- *tracking*: a cluster is counted in one shard, its recorded one; no change of an
  annotation is forgotten;
- *deployment*: a shard is in use only when all its controllers exist; controllers
  are removed only when nobody is left who needs them; in the end every cluster is
  served, and nothing is left of unused shards;
- *ConfigMap*: in the end the Deployments of every active shard carry the current
  patches;
- *templates*: what is deployed has the arguments of its template and the options of
  the process, each once, in the right container; what is deleted is what was
  deployed; no call touches a shard whose key is read differently;
- *Cluster API*: once it stays installed the Cluster reconciler runs; the process does
  not restart for ever, unless Cluster API is never there completely.

`PROJECT.json` lists the hazards at their lines, with the properties that cover them.

## 2. Modules

| Module | What it is |
|---|---|
| `ShardFleet` | abstract specification: which clusters each shard serves, which of its controllers exist, and when a cluster may join and a controller go |
| `ShardTracker` | the process: reconcilers, maps, mutex, queues, API calls, users, faults, restarts; all properties |
| `ShardTrackerInv` | the inductive invariants of `ShardTracker`: of any process, of clusters that do not return, of a pod |
| `ShardTrackerProofs` | the theorems about `ShardTracker` |
| `ShardSettledProofs` | that a process of `ShardTracker` at rest has served every cluster |
| `ShardPodProofs` | lemmas about one process without ConfigMap, alone or next to another one |
| `CapiWatcher` | how the process finds out that Cluster API is installed, and restarts |
| `ShardProcess` | the whole process: the detection of `CapiWatcher` and the reconcilers of `ShardTracker` it starts and restarts |
| `ShardRollout` | a rolling update: two processes of `ShardTracker` over the same Deployments |
| `ShardProcessProofs` | that `ShardProcess` implements `CapiWatcher` and `ShardFleet`, and serves every cluster; its tracker is an instance of `ShardPodProofs` |
| `ShardRolloutProofs` | the theorems about `ShardRollout`; the old pod is the one of `ShardPodProofs`, the new one an instance |
| `CapiWatcherProofs` | the theorems about `CapiWatcher` |
| `ShardManifests` | what the calls of `deployControllers` send and `undeployControllers` deletes |
| `ShardManifestsProofs` | the theorems about `ShardManifests` |
| `MCShardTracker`, `MCShardProcess`, `MCShardRollout`, `MCShardManifests` | values for TLC's constants |

`ShardTracker` composes the three reconcilers, the work queues and the API server in
one module, since they share the maps, the mutex and the Deployments. It takes a
Deployment as a value; `ShardManifests` says what that value is. `CapiWatcher` decides
whether there is a second cluster reconciler; in `ShardTracker` there always is, and
`ShardProcess` puts the two together. `ShardRollout` takes `ShardTracker` twice.

### ShardTracker and the code

State: `clusterMap`, `shardMap` and `mux` are the globals of those names.
`object` and `config` are what the informers' caches hold; `queue` and
`configQueued` are the work queues; `deployment[s][k]` is the k-th Deployment of
shard s: `None` when it does not exist, otherwise the patches it was applied with.
`task[w]` holds the local variables and the position of cluster reconciler w,
`redeploy` those of the ConfigMap reconciler.

| Actions | Code |
|---|---|
| `Fetch`, `FetchFails` | `processCluster` 119-152: take a request, read the annotation |
| `TrackUnchanged` | early return of `trackCluster` 174-177 |
| `BeginRetire` | last cluster of its old shard, 179-188: undeploy, with the mutex held |
| `Join` | 193-199, 203 false or the empty key, 212-222 |
| `BeginDeploy` | 193-199, 203 true, and the read of the patches in `deployControllers` 300 |
| `DeployNext`, `DeployFails`, `Commit` | one of the five applies; its failure; both maps updated 212-222 |
| `UndeployNext`, `UndeployFails` | one of the five deletes of `undeployControllers`; its failure |
| `StopTracking`, `Stopped` | `stopTrackingCluster` 233-252: maps first, then undeploy |
| `ListActiveShards` | `redeployAllShards` 604-611 |
| `BeginRedeploy`, `RedeployNext`, `RedeployFails`, `RedeployedShard`, `EndRedeploy` | the loop 613-620 |
| `ChangeCluster`, `ChangeConfig`, `Resync` | users and informers |
| `Restart`, `Reboot` | the process dies anywhere; one starts with `InitMaps` and what its informers list |

The grain is one step per call to the API server. What a goroutine does between two
calls is one step, because everything it reads or writes there is under the mutex.
The list of `redeployAllShards` is one step under the read lock.

Abstractions, and why they are sound:

- a missing entry of `shardMap` is the empty set: every access in the code tests
  both (183, 203, 240, 607);
- a cluster with a deletion timestamp is read as an absent one: both lead to
  `stopTrackingCluster` with the same key (130, 145);
- the cache and the event that queues a cluster change together; the informer
  delivers the event after the cache is updated, so a reconcile that is asked for
  reads that value or a later one, and stale reads are already those of a `Fetch`
  that precedes the change;
- a server-side apply with forced ownership replaces what this field owner set
  before, so a Deployment is the patches it was last applied with. The templates
  and options are the same at every call, and are left out;
- a call that fails may have taken effect or not; a delete of what does not exist
  succeeds (495);
- the contents of the ConfigMap are values: absent, not valid patches
  (`Unparsable`), valid but not applicable to some templates (`Misfits`), or good;
- so are shard keys: those of `BadShards` are accepted as annotations and give nothing the
  API server takes (504-521: a key is put into the YAML as it is), so that every apply of
  theirs fails, without a fault. Two keys that give the same names are in `ShardManifests`.

The queue of a reconciler is a set: controller-runtime keeps one request per object
and does not hand out an object that is being processed, which holds here because
each reconciler has a single worker.

### ShardFleet

Two variables, five actions. `Join(c, s)` requires that s is the default shard, has
a cluster already, or has all its controllers; it takes the cluster out of every
other shard. `Retire(s, k)` requires that at most one cluster is counted in s.
`ShardTracker` implements it with `members <- shardMap` and
`running <- {k : deployment[s][k] # None}`, and so does `ShardProcess`, whose restarts and
losses of all clusters of Cluster API are more of its steps.

### CapiWatcher and the code

`crd` is the CRD of clusters in the API server: absent, with older versions only, with
v1beta2 but not serving it, or serving it. `others` counts the other CRDs of the group that
have v1beta2. `started` is whether the manager has started its cache, before which
every read of the cached client fails; `phase`, where the process is between
`capiWatchers`, the reconciler or the watcher it starts, and its end; `events`, what the
watcher has still to report, a version and what happened to it.

| Actions | Code (`cmd/main.go`) |
|---|---|
| `StartCache` | `mgr.Start` 171, which runs while `capiWatchers` polls |
| `CheckFails`, `Wake` | `isCAPIInstalled` returns an error, 250-257: a pause, at most `maxRetries` times |
| `CheckSucceeds` | 258-262, and `isCAPIInstalled` 301-317: the CRD of clusters, and v1beta2 served |
| `StartWatch` | 261, in its own goroutine: the CRD may change between the check and this |
| `StartReconciler`, `ReconcilerFails` | 264-277, and the start of the informer, which needs the CRD |
| `HandleEvent` | `capiCRDHandler` 285-298: any CRD of the group (`Restarts`), whether it is served or not |
| `Exit`, `Boot`, `Crash` | the process stops on SIGTERM, is started again, or dies |
| `ChangeCrd`, `ChangeOther` | Cluster API is installed, upgraded, or removed, CRD by CRD |

`WatchCustomResourceDefinition` is a function of libsveltos, outside this repository. It
is modelled from its use as an informer: what exists is reported as `Create`, CRD by CRD in
any order (`Listed`), later changes in the order they happen (`Report`). `Partial` says that
some CRD has v1beta2 and the check does not find what it looks for: an installation on its
way, or a removal that is stuck. `retries` stops at `MaxRetries`: the code only compares it.

### ShardProcess and the code

The variables are those of `CapiWatcher` and of `ShardTracker`, the latter by
`Tracker == INSTANCE ShardTracker WITH ...`. A reconciler takes requests (`Serves`) once
the manager has started, and the one of Cluster API once `capiWatchers` has set it up
(`cmd/main.go` 264-278) and its informer runs. Every step of the detection that ends the
process (`Detects`) takes the maps, the mutex and the goroutines with it; the next process
lists what exists. Clusters of Cluster API exist only while the CRD is served, and go with
it (`ChangeApi`); other CRDs concern the detection only (`ChangeOtherCrd`).
`--shard-components-config` is not set, which is the default (214): `main` does not register
the ConfigMap reconciler (150), and `config` is a constant. The calls of the reconcilers succeed; their failures are the subject of `ShardTracker`.

### ShardRollout and the code

`manifest/manifest.yaml` 137 asks for one replica and names no strategy, so Kubernetes
starts the new pod, waits until it is ready, which it is when it answers (`setupChecks`,
`cmd/main.go` 237-246), and stops the old one; `main` (105-117) asks for no leader
election. The old pod has the variables of `ShardTracker`, the new one variables of its
own, by `New == INSTANCE ShardTracker WITH ...`; clusters and Deployments are shared. As
in the manifest, there is no ConfigMap.

| Definitions | Code |
|---|---|
| `ByOld(OldWorks)`, `ByNew(NewWorks)` | a step of one pod: all of `ShardTracker`'s reconciles and resyncs |
| `StartNew` | the new process: `InitMaps`, and its informers list what exists |
| `StopOld` | the new pod is ready; the old one is gone, with whatever it was doing half done |
| `CaughtUp` | nothing in the code: the moment the new pod has nothing left to do |
| `UsersAct` | a change of a cluster is seen by every pod that runs |

`Patient` is an administrator who starts the rollout when the old pod is at rest, and
`CalmMoves` the changes of clusters users make until the new pod has caught up.

### ShardManifests and the code

`flags` are the options of the command line that reach Deployments, `data` is the
ConfigMap, `deployment` what the API server has under each name. A call is `pc`, `shard`
and `step`, with the `patches` it has read. Calls are made one at a time: their
interleavings are the subject of `ShardTracker`.

| Definitions | Code |
|---|---|
| `Templates` | the five templates of `pkg/sharding`: containers, the arguments that the code or a property handles |
| `SetOptions`, `SetAgentArg`, `WithoutAgentArg` | `setOptions` 623-677: the first flag found is overwritten by the last argument, which is cut off; then the flag is appended, to every container and init container |
| `AppendArgsToContainer`, `ConfigArgs`, `ConfigContainer` | `appendArgsToContainer` 679-715, `addDriftDetectionConfig`, `addClassifierConfigs` 379-399 |
| `InstantiateTemplate`, `Named`, `Filled` | `instantiateTemplate` 504-521, and the parse of its result 462, 480: what YAML reads of the shard key (`Rendered`) in the name and in `--shard-key` |
| `Encoded`, `NameAccepted` | `setOptions` 665-677 and `appendArgsToContainer` make JSON of a template, in which the key is quoted: it is read as it is, and the API server refuses a name with what YAML would take away |
| `ParsedPatches`, `DefaultTarget`, `Selecting`, `ApplyShardPatches` | 525-598: one invalid value rejects all; no target means every Deployment; each patch is applied to the result of the ones before, so that of the patches that select a component the last one has set its label |
| `BeginDeploy`, `DeployDeployment`, `BeginUndeploy`, `UndeployDeployment`, `Return` | `deployControllers` and `undeployControllers`, 289-502, as `trackCluster` and `stopTrackingCluster` call them; `Return` anywhere is an error of the API server |
| `Edit` | a user changes the ConfigMap |

Patches set one label, enough to tell which were applied and in which order. `read` is a
history variable: the data a call has read, for `PatchesReach`. `used` is what `shardMap`
knows: a shard has clusters once it was deployed without an error (205-222), and is removed
when it has none (242-247).

`Rendered` is a constant: `a`, `a ` (with a space at its end) and `a #b` are three shard
keys, accepted as annotations and three entries of `shardMap`, and all are read as `a`.

## 3. What TLC checks

For `ShardTracker`: two clusters, one for each reconciler (so that both goroutines run),
two shards and two Deployments per shard unless stated. Two Deployments tell "none",
"some" and "all" apart, and the code treats all five alike; two shards are the old and
the new one of a move. `MaxFaults` is 1, since each scenario of section 5 needs a single
fault, and 2 in `TrackerFaults`, where one fault may hit what another has left behind.
`MaxChanges` counts what users do after the start; the initial state already has any
annotations and any ConfigMap, so two changes allow a move and its return, or a move and
an edit. The shards are symmetric where users may make any move. There is no bound on
the number of reconciles, retries or resyncs.

| Run | Instance | Shows |
|---|---|---|
| `TrackerFaults` | any two of a failed read, apply, delete or a restart; a ConfigMap that is absent or does not fit the second template, so that deployments also stop half way without a fault | `TypeOK`, `MembersTracked`, `NoLostChange`, `PatchesCurrent`, `SafeRemoval`, `FirstJoinDeployed` and the refinement `ImplementsFleet` |
| `TrackerRecovery` | a failed read or apply or a restart; a ConfigMap that is absent, good or invalid; forward moves | `PatchesCurrent`: no edit is forgotten when a redeploy stops half way; `ActiveDeployed`: active shards keep their controllers; `SettledProvisioned`: nothing left to do means everybody is served by all controllers with current patches |
| `TrackerLive` | one good shard key, one that gives no valid Deployment and the empty one, failed applies, restarts, an invalid ConfigMap; forward moves | `EventuallyProvisioned`: what can be served is, whatever cannot be |
| `Process` | one cluster of each kind, one shard, one change of a cluster, any CRD of clusters and one other CRD or none, one change of these, one retry with a pause, a failed read or a crash; forward moves, no in-place upgrade | `TypeOK`, `NothingMissed`: no installation falls between the check and the watcher; `SettledServed`: a process at rest serves every cluster, whatever the one before it was doing; the refinement `KeepsFleet`; `EventuallyReconciling`; `EventuallySettled`: no endless restarts unless Cluster API is never there completely; `EventuallyServed`: with one kind counted before the other, controllers still needed may be removed, and are deployed again |
| `Rollout` | two clusters, two shards, 3 changes at any time, no fault, no ConfigMap; `Patient`, and clusters only join a shard until the new pod has caught up (`Joins`) | `RolloutClean`, `RolloutProvisioned`: when the pods have nothing left to do, all clusters are served and nothing else is deployed, before, during and after the rollout; `NoOutage`: a new pod that counts from nothing removes nothing |
| `Manifests` | two shards, `b` and `a #b`, which is read as `a`, three calls, two keys in the ConfigMap, one edit, patches with a target of two components or without one | `TypeOK`: what is sent is a Deployment, and nothing is sent when a value is not a patch; `ArgumentsKept`, `AgentOptionPassed`, `ConfigsPassed`, `PatchesReach`: it has what is meant for it; `CompleteSets`: what is deleted is what was deployed; `SetsApart`, `OtherShardsKept`: other shards keep theirs; `RedeployStable`: deploying again changes only the order of two arguments out of one map, and the outcome of two patches of one field |

"Forward moves" means that a cluster does not return to a shard it left. That, the fault
kinds of `TrackerRecovery` and `TrackerLive`, and what `Rollout` leaves out, a fault, the
ConfigMap and clusters that leave meanwhile, are not for size: they are what the code
needs, and section 5 says what happens without each. So is "no in-place upgrade" of `Process`.

In `Process` the CRDs start in any state, complete or not, so one change is an installation
that is begun, completed or undone at any moment of the start-up; with the crash, it may be
followed by a start that finds something else. `CapiWatcher` by itself was also checked with
four changes, two other CRDs, two retries and two faults, with the same result. The
retries only matter as fewer or not fewer than `MaxRetries`. The change of a
cluster is one that leaves or joins the shard; the initial state has the clusters in any
place, and a restart makes the order in which they are counted anything. In `Rollout`, two
clusters and two shards let one leave a shard before the rollout while another joins one
during it; the old pod may be stopped between any two calls. In `ShardManifests` three calls
are enough to deploy two shards and remove one, or to deploy one again after a call that
failed; two keys are enough for two patches to collide in
either order; the target {1, 4} separates components with and without extra arguments.
`MCOptions` gives the addon-controller and the classifier their first config together:
no code looks at both. Keys and labels are symmetric; shard keys are not, since what is read
of them differs.

Deadlock is checked in the runs of `ShardTracker` (`Resync` is always possible, so a
deadlock would be an error of the model; the process making no progress is what the
liveness run excludes), of `ShardProcess` and of `ShardRollout`. `ShardManifests` comes to
rest when the bounds on calls and edits are reached, and `CapiWatcher` alone when its work
is done, so their runs do not check it.

### Fairness

`Fairness` asks of each worker what its runtime gives it. Strong fairness of `Fetch`
for every cluster: the work queue is FIFO, a request is served in its turn, but it
is not continuously enabled since the worker is busy with others. Strong fairness of
the steps that need the mutex: `sync.RWMutex` does not starve a waiter, though the
mutex may be taken in between. Weak fairness of everything that follows, since a call
to the API server returns. Weak fairness of `Resync`: informers resync for ever.
`MaxFaults` makes failures stop, `MaxChanges` makes users stop. Nothing is assumed of
users, of faults or of `Restart`. The back-off of the work queue delays a retry and
does not drop it, so it does not appear.

In `CapiWatcher`: weak fairness of the start of the cache, of what the process does by
itself (`ProcessStep`: a loop in its own goroutine, a `Boot` the kubelet makes) and of the
delivery of events, since an informer calls its handler for what it has seen. Nothing is
assumed of `ChangeCrd`, `ChangeOther` or `Crash`. `CheckFails` and `CheckSucceeds` share one fairness
condition: once the cache has started, only a fault makes a check fail.

`ProcessFairness` is both, for a reconciler once it is started. `RolloutFairness` is that
of `ShardTracker` for the new pod, and that the rollout proceeds: the Deployment controller
starts the new pod and stops the old one, which needs no fairness, since it is gone after.

## 4. What is proved

Every safety invariant and every action property the runs check is a theorem, for every
set of clusters and shards, every number of Deployments, every ConfigMap and all bounds.
`ShardTrackerProofs` proves, from `ConstantsAssumption` alone and for every set of fault
kinds, and `ShardSettledProofs` adds the last line:

| Theorem | Statement |
|---|---|
| `TypeCorrect` | `Spec => []TypeOK` |
| `IndInvariant` | `Spec => []IndInv` |
| `MembersAlwaysTracked` | `Spec => []MembersTracked` |
| `NoChangeLost` | `Spec => []NoLostChange` |
| `PatchesAlwaysCurrent` | `Spec => []PatchesCurrent` |
| `RemovalIsSafe` | `Spec => SafeRemoval` |
| `FirstJoinIsDeployed` | `Spec => FirstJoinDeployed` |
| `FleetImplemented` | `Spec => ImplementsFleet`, that is `Spec => Fleet!Spec` |
| `ActiveStaysDeployed` | `Spec => []ActiveDeployed`, assuming `"delete" \notin FaultKinds` |
| `SettledIsProvisioned` | `Spec => []SettledProvisioned`, assuming that too, and `Forward(rank)` for some ranking of the shard keys |

`CapiWatcherProofs`, and `ShardProcessProofs` for the whole process:

| Theorem | Statement |
|---|---|
| `CapiTypeCorrect` | `Spec => []TypeOK` |
| `InstallationNotMissed` | `Spec => []NothingMissed`, assuming `~Upgrades` |
| `ProcessTypeCorrect` | `ProcessSpec => []TypeOK` |
| `ProcessMissesNothing` | `ProcessSpec => []NothingMissed`, assuming `~Upgrades` |
| `ProcessInvariant` | `ProcessSpec => []Pod!PodInv`, the invariant of a process without ConfigMap |
| `SettledIsServed` | `ProcessSpec => []SettledServed`, for any moves of clusters |
| `ProcessKeepsFleet` | `ProcessSpec => KeepsFleet`, that is `ProcessSpec => Fleet!Spec` |

`ShardRolloutProofs`, each assuming `Undisturbed` (no faults, no bad shard key), `Patient`
and `CalmAssumption` (no cluster leaves a shard from the start of the new pod until it has
caught up); there is no ConfigMap:

| Theorem | Statement |
|---|---|
| `RolloutInvariant` | `RolloutSpec => []RolloutInv` |
| `RolloutLeavesNothing` | `RolloutSpec => []RolloutClean` |
| `RolloutServesAll` | `RolloutSpec => []RolloutProvisioned` |
| `RolloutHasNoOutage` | `RolloutSpec => NoOutage` |

`ShardManifestsProofs`, for all options, shard keys, keys of the ConfigMap, targets and labels:

| Theorem | Statement |
|---|---|
| `CallInvariant`, `ManifestsTypeCorrect` | `Spec => []CallInv`, `Spec => []TypeOK` |
| `SetsAreComplete` | `Spec => []CompleteSets` |
| `PatchesReachTargets` | `Spec => []PatchesReach` |
| `OtherShardsUntouched` | `Spec => OtherShardsKept`, for shards whose keys are read differently |
| `SetsStayApart` | `Spec => []SetsApart`, for shards whose key is read like no other |
| `MadeInvariant` | `Spec => []AllMade` |
| `ArgumentsAreKept` | `Spec => []ArgumentsKept` |
| `AgentOptionIsPassed` | `Spec => []AgentOptionPassed` |
| `ConfigsArePassed` | `Spec => []ConfigsPassed` |
| `RedeployIsStable` | `Spec => RedeployStable` |

### The assumptions

None of them is for the prover's sake: each is what section 5 shows the code to need.
When a delete may fail, `HalfRemoved` leaves a shard in use with half of its controllers. `Forward(rank)` says that users' changes climb some ranking of the shard keys,
so no cluster returns to a shard it left; `LostOnReturn` returns. `~Upgrades` excludes
`CapiUpgraded`. Of a rollout, `CalmAssumption` excludes `Overlap`, `Undisturbed` excludes
controllers orphaned by a failed delete, and `Patient` excludes an old pod that is stopped half way through a
removal, after which nobody removes the rest. `SettledIsServed` needs neither a ranking nor
patience: the calls of `ShardProcess` succeed, and what is missing after a restart, or is
removed before both kinds are counted, is deployed when the clusters that need it are.
`OtherShardsKept` and `SetsApart` leave out keys that YAML reads alike: section 5 says what
becomes of them. `ArgumentsKept` speaks of the key as it is read.

### ShardTracker: the argument

None of these properties is inductive: each depends on what a goroutine found in the maps
before it started to call the API server. `IndInv` says what that is.

- `MutexHeld`, `OwnClusters`: exactly the reconciler that deploys or undeploys holds
  the mutex, and a cluster is handled by the reconciler of its kind only. So nobody
  else changes the maps meanwhile.
- `RetiringLast`, `StoppingLast`: the shard under removal is that of the only
  cluster counted in it (a move), or of nobody (a deletion). `SafeRemoval` and the
  `Retire` steps of `ShardFleet` follow.
- `DeployingFirst`: the shard under deployment has no clusters, its cluster is in no
  set, and the Deployments already applied stay. When the last one is applied, all
  exist: `FirstJoinDeployed` and the `Join` steps. That they stay is why the ConfigMap
  reconciler is harmless here: it applies, it never deletes.
- `SeenOrQueued`, `NoLostChange`: what a reconcile has read is current, or its cluster
  is queued again. This is why reading before locking is correct.
- `PatchesFollow`: unless the ConfigMap is queued, every deployment under way uses the
  current patches, and a Deployment of an active shard with older ones is still on the
  ConfigMap reconciler's list. An edit queues the ConfigMap, which makes this
  trivially true, and the next `ListActiveShards` needs the read lock: no cluster
  reconciler is then in the middle of a deployment with the old patches. That the
  list is taken under the lock is what makes the property hold, and the mutant
  that drops the lock breaks it.

`IndInv` was first checked by TLC, with every fault and every kind of ConfigMap.
`HoldInv`, `MembersTracked`, `SeenOrQueued`, `NoLostChange` and `PatchesFollow` have
a preservation lemma each, with one step per action.

`SettledProvisioned` needs to know of a process at rest that every cluster is in the set of
its shard. `NoLostChange` gives that its shard is recorded; that it is also counted fails when a
move has stopped after line 194. `LeftBehind` says that such a cluster is annotated with
something of a higher rank than what is recorded, so its reconcile is not over; `InOrder` is
the strengthening: the recorded, the read and the annotated key of a cluster never go down.
`ActiveDeployed` and `PatchesCurrent` do the rest.

### Processes that end, and two of them

`ShardPodProofs` is about a process without ConfigMap whose calls succeed, next to which
another one may deploy. `PodInv` is `IndInv`, that the ConfigMap reconciler rests (`Quiet`), that
a cluster missing from the set of its recorded shard is the one being deployed (`Recorded`,
which holds since no deployment fails), and `ActiveDeployed`. Its lemmas say what keeps it:
the process's own steps (`StepPodInv`), an apply by somebody else (`OtherPodWorks`), the end of
the process (`RebootPod`, from any Deployments whatever), and the loss of many
clusters at once (`ClustersGone`, used for the removal of Cluster API). `Tied` adds that each
Deployment has a cluster or a reconcile that is removing it, so a process at rest leaves
nothing; `Steady` that no cluster is leaving a shard, so no removal begins.

`ShardProcess` is an instance of this module: each step of it is one of those four, or of the
detection alone. `KeepsFleet` follows: every step of the tracker is one of `ShardFleet`, where
an end of the process is `Restart`. The detection is a part of the process, so that
`NothingMissed` carries over.

In `ShardRollout` the old pod is the module itself and the new one an instance of it.
`RolloutInv` has the invariant of each pod that runs, `Tied` for the old pod while it is alone and
for the new one when it has caught up, and between the two `Steady` and that nothing is
deployed without a cluster (`Clean`). The old pod at rest is `Clean` by `Tied` and `Steady` by
`NoLostChange`; while users are calm, both pods only deploy what clusters ask for, which keeps
`Clean` whichever is stopped when; and a new pod that has counted every cluster is `Tied` again.
That the two invariants meet twice, at the start of the new pod and when it has caught up, is
why patience and calm are needed exactly until then.

### ShardManifests: the argument

`CallInv` is the type, that the patches of a call are the values that were read, in some order
(`FromRead`), and that the components already gone through have been deployed with their label,
or deleted (`Progress`). Templates have different names and keep their place for the shard key,
so `NameOf` is injective as far as the reading of the key is: what is deleted is what was
deployed, and no shard that is read differently is touched. `SetsApart` is inductive with two
facts more: the shard that is being removed is not in `used` any more, and a deployment
changes names of its own reading only (`OwnNames`), to Deployments that exist. A
list without repetition of a finite set hits each of its elements (`ListedAll`), so the patches
that select a component are those aimed at it; the last of them exists since positions are
well-founded (`LastPosition`).

Lists of arguments are described by two facts, that no flag is given twice and which set of
arguments is given (`Carries`). Each operator has a lemma in these terms: `AgentArgRemoved`
(`setOptions` moves the last argument, and loses the flag and nothing else), `ArgsAppended`,
`ConfigArgsListed`, `ArgsFilled`. `ArgsGiven` puts them together for every component, and
`AllMade` says that every Deployment that exists was made this way. `RedeployStable` also needs
that, as long as nothing was edited, each Deployment has the label of a patch that is still
there (`Unedited`); two lists with the same arguments and no repetition are the same bag
(`SameBag`).

### CapiWatcher

`NothingMissed` is inductive together with `TypeOK`: the watcher lists what exists, the CRD of
clusters at any place among the others (`InTheMiddle`), each later installation is appended to `events`, and a handled event that restarts the process
ends the phase in which the property says anything.

### Only model-checked

The properties named `Eventually...`: liveness under fairness is beyond the prover.
`EventuallySettled` and `EventuallyServed` except the behaviours in which Cluster API is
`Partial` again and again; `RestartLoop` is one of these. They are
what the reader of `SettledProvisioned`, `SettledServed` and `RolloutClean` should look at next,
since those say what holds at rest and these that rest is reached. The runs of section 5 are
counterexamples, found by TLC.

## 5. Where code and comments disagree

Each of these runs ends in a counterexample. The scenarios are from TLC's traces.

- `LostOnReturn`: no call fails. A cluster moves from s to a shard key with a typing error;
  the controllers of s are removed; those of the other key cannot be deployed; the
  annotation is corrected. The move has erased the cluster from the set of s (194) and
  `clusterMap` still says s, against the comment at 210, so `trackCluster` returns at 174 on
  every later reconcile: s stays without controllers. A deployment that fails for any other
  reason does the same.
- `HalfRemoved`: the last cluster of s moves away and a delete fails half way. Another
  cluster joins s before the retry, finds a set that is not empty (203) and deploys
  nothing. The retry finds two clusters. Half of the controllers stay missing.
- `Resurrected`: no fault at all. The ConfigMap reconciler lists shard s, its last
  cluster is deleted and s removed, then the ConfigMap reconciler deploys s.
- `CapiUpgraded`: the process starts while the CRD does not serve v1beta2, and watches
  CRDs. An in-place upgrade is a `Modify`, which `capiCRDHandler` ignores (`main.go` 286)
  although its comment says that the process restarts when a CAPI CRD is updated: the
  Cluster reconciler does not start until something else restarts the process.
- `RestartLoop`: no CRD changes. A CRD of the group other than that of clusters has v1beta2,
  `machines.cluster.x-k8s.io` say, and the one of clusters is missing or does not serve it:
  an installation or a removal that is stuck half way. Each start finds Cluster API missing
  (`main.go` 303-315), watches CRDs, is told that the other one was created (289 compares
  group and version) and sends itself SIGTERM, for ever, emptying the maps each time. The
  comment of the handler speaks of a CRD that is updated.
- `Overlap`: during a rolling update a cluster gives up its shard and takes it again. The
  old pod, which has read the first change, removes the controllers, the new pod has
  deployed or is deploying them and counts the cluster, and the old pod is stopped before
  it has read the second change. The controllers removed last are missing for ever. The
  same happens when the cluster leaves for good and another one joins.

The same lines have more consequences, which are not runs of their own. TLC shows the
first three with `Resurrected.cfg` when `Configs` is `{noConfigMap}`, `MaxFaults` is 1 and
`FaultKinds` is as given; in each the controllers of a shard without clusters stay for ever:

- `{"delete"}`: `stopTrackingCluster` forgets the cluster (237-242) before the controllers
  are removed (247). When a delete fails, the retry finds no entry and returns nil;
- `{"apply"}`: controllers are deployed in part for a cluster that goes away before the
  retry. It never was in a set, so `stopTrackingCluster` (236-252) removes nothing;
- `{"crash"}`: the last cluster of a shard is deleted, and the process restarts before it
  has removed the controllers. The maps are empty, and nothing names the shard any more;
- with `Shards = {"a", "a #b"}` in `Manifests.cfg`, and without the exemption of keys that
  are read alike, `SetsApart` is violated: two clusters annotated `a` and `a #b` are
  in shards of their own with the same five Deployments (`utils.go` 515), and when one of
  them goes away the other is left without. Besides, the controllers are given
  `--shard-key=a` and do not look at clusters annotated `a #b`. Where an option made JSON of
  a template first, the API server refuses its name instead.

This is why `Rollout` has no faults, and why its rollout is `Patient`: the stop of a pod in
the middle of a removal is one.

## 6. Not modelled, and plan

Not modelled: a patch that renames a Deployment, which `undeployDeployment` would not find
(`utils.go` 493); a ConfigMap edited during a rolling update, where the old pod may apply
old patches last (a resync repairs it); flags that no code uses (`--report-mode` is
described as passed to the Deployments, `cmd/main.go` 206, and never is); diagnostics and
health endpoints, which are library calls; `management_cluster.go`, a variable set once
before the manager starts; `generator.go` and `hack/tools`, which run at build time. The
busy loop after `maxRetries` failures (`cmd/main.go` 254) is in `CapiWatcher` as a
`CheckFails` that changes nothing; no property is about its cost. `setOptions` gives every
container of a template the agent flag, the init container `migrate` of the classifier
too, which does not take it in the template; `AgentOptionPassed` is about the containers
that do.

Next, in this order:

1. The rollout without `CalmMoves`: which part of `RolloutInv` survives when a cluster leaves a
   shard while two pods run. `SafeRemoval` of each pod with respect to its own maps should.
2. The ConfigMap in `ShardPodProofs`, so that `SettledServed` covers `--shard-components-config`:
   `PodInv` without `Quiet`, from `PatchesFollow`.
3. A process without failed calls is clean at rest as long as it is not restarted: `Tied`
   as a theorem of `ShardTracker`, with the ConfigMap reconciler's list taken into account
   (`Resurrected` shows that some restriction of edits is needed).
4. In `ShardManifests`, patches that rename.

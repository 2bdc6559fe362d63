--------------------------- MODULE ShardPodProofs ---------------------------
(***************************************************************************)
(* Proofs about one pod of a rollout: what its own steps keep, and what    *)
(* the deployments of the other pod leave alone.  ShardRolloutProofs takes *)
(* the old pod as it is and the new one as an instance.                    *)
(***************************************************************************)
EXTENDS ShardTrackerProofs

\* A cluster gets a shard, or changes among the keys without controllers.
Joining(c, v) == ChangeCluster(c, v) /\ object[c] \notin Shards

\* A step of the pod, or of a user it sees.
PodStep == Works \/ \E c \in Clusters, v \in ShardKeys \cup {None} : ChangeCluster(c, v)

\* One Deployment of a shard is applied.
Deploys(s) == \E k \in Component : deployment' = Applied(s, k, NoConfigMap)

\* They are steps of ShardTracker.
LEMMA PodStepIsStep == PodStep => [Next]_vars
  BY DEF PodStep, Works, Next, UserStep

-----------------------------------------------------------------------------
(* Nothing fails.                                                           *)

\* No call of a reconciler of the pod fails, and nothing makes it give up.
LEMMA NoFailures ==
  ASSUME Undisturbed, TypeOK, Quiet, NEW w \in Kinds
  PROVE  /\ ~ DeployFails(w) /\ ~ UndeployFails(w)
         /\ ~ PatchesRejected
<1>1. ~ DeployFails(w)
  BY ConstantsAssumption
  DEF Undisturbed, Quiet, DeployFails, ApplyFails, Inapplicable, Fail, CanFail
<1>2. ~ UndeployFails(w)
  BY DEF Undisturbed, UndeployFails, Fail, CanFail
<1>3. ~ PatchesRejected
  BY ConstantsAssumption DEF Undisturbed, Quiet, PatchesRejected, Fail, CanFail
<1> QED BY <1>1, <1>2, <1>3

\* The steps of a pod, one by one.
LEMMA PodSteps ==
  ASSUME Undisturbed, TypeOK, Quiet, Works
  PROVE  \/ \E w \in Kinds, c \in Clusters : Fetch(w, c)
         \/ \E w \in Kinds :
              \/ TrackUnchanged(w) \/ BeginRetire(w) \/ Join(w) \/ StopTracking(w)
              \/ BeginDeploy(w) /\ ~ ReturnError(w)
              \/ DeployNext(w) \/ UndeployNext(w) \/ Commit(w) \/ Stopped(w)
         \/ Resync
<1>1. ASSUME NEW w \in Kinds, BeginDeploy(w), ReturnError(w) PROVE FALSE
  <2>1. task'[w] = Idle
    BY <1>1 DEF ReturnError, Return, TypeOK
  <2>2. task'[w] # Idle
    BY <1>1, NoFailures DEF BeginDeploy, Idle, Task, TypeOK
  <2> QED BY <2>1, <2>2
<1> QED BY <1>1, NoFailures DEF Works, LockStep, HoldStep

\* What a deployment starts with, once the patches are read.
LEMMA BeginDeployTask ==
  ASSUME TypeOK, NEW w \in Kinds, BeginDeploy(w), ~ ReturnError(w)
  PROVE  task' = [task EXCEPT ![w] = Task("deploying", task[w].item, task[w].seen,
                                           task[w].seen, 1, config)]
  BY DEF BeginDeploy

-----------------------------------------------------------------------------
(* The parts of PodInv.                                                     *)

\* Without a ConfigMap every Deployment is as the templates make it.
LEMMA StepQuiet ==
  ASSUME Undisturbed, TypeOK, HoldInv, Quiet, PodStep
  PROVE  Quiet'
<1> USE DEF users, maps, configRec
<1>1. ASSUME UNCHANGED <<config, configQueued, redeploy, deployment>>,
             \A w \in Kinds : task'[w].pc = "deploying" =>
               task'[w].patches = NoConfigMap
      PROVE  Quiet'
  BY <1>1 DEF Quiet
<1>2. ASSUME NEW w \in Kinds, Return(w),
             UNCHANGED <<config, configQueued, redeploy, deployment>>
      PROVE  Quiet'
  BY <1>1, <1>2 DEF Quiet, Return, Idle, Task, TypeOK
<1>3. ASSUME NEW w \in Kinds, NEW c \in Clusters, Fetch(w, c) PROVE Quiet'
  BY <1>1, <1>3 DEF Fetch, Quiet, Task, TypeOK
<1>4. ASSUME NEW w \in Kinds,
             TrackUnchanged(w) \/ Join(w) \/ Commit(w) \/ Stopped(w)
      PROVE  Quiet'
  BY <1>2, <1>4 DEF TrackUnchanged, Join, Commit, Stopped, ReturnNil
<1>5. ASSUME NEW w \in Kinds, BeginRetire(w) PROVE Quiet'
  BY <1>1, <1>5 DEF BeginRetire, Quiet, Task, TypeOK
<1>6. ASSUME NEW w \in Kinds, StopTracking(w) PROVE Quiet'
  <2>1. CASE ReturnNil(w)
    BY <1>2, <1>6, <2>1 DEF StopTracking, ReturnNil
  <2>2. CASE ~ ReturnNil(w)
    BY <1>1, <1>6, <2>2 DEF StopTracking, Quiet, Task, TypeOK
  <2> QED BY <2>1, <2>2
<1>7. ASSUME NEW w \in Kinds, BeginDeploy(w), ~ ReturnError(w) PROVE Quiet'
  <2>1. UNCHANGED <<config, configQueued, redeploy, deployment>>
    BY <1>7 DEF BeginDeploy
  <2> QED BY <1>1, <1>7, <2>1, BeginDeployTask DEF Quiet, Task, TypeOK
<1>8. ASSUME NEW w \in Kinds, DeployNext(w) \/ UndeployNext(w) PROVE Quiet'
  <2>1. /\ UNCHANGED <<config, configQueued, redeploy>>
        /\ \A v \in Kinds : task'[v].pc = task[v].pc /\ task'[v].patches = task[v].patches
    BY <1>8 DEF DeployNext, UndeployNext, Task, TypeOK
  <2>2. \A s \in Shards, k \in Component :
          deployment'[s][k] \in {deployment[s][k], None, NoConfigMap}
    <3>1. CASE DeployNext(w)
      BY <3>1 DEF DeployNext, ApplySucceeds, Applied, Quiet, TypeOK
    <3>2. CASE UndeployNext(w)
      BY <3>2 DEF UndeployNext, Deleted, TypeOK
    <3> QED BY <1>8, <3>1, <3>2
  <2> QED BY <2>1, <2>2 DEF Quiet
<1>9. ASSUME Resync PROVE Quiet'
  BY <1>1, <1>9 DEF Resync, Quiet
<1>10. ASSUME NEW c \in Clusters, NEW v \in ShardKeys \cup {None}, ChangeCluster(c, v)
       PROVE  Quiet'
  BY <1>1, <1>10 DEF ChangeCluster, Quiet
<1> QED BY <1>3, <1>4, <1>5, <1>6, <1>7, <1>8, <1>9, <1>10, PodSteps DEF PodStep

\* A reconcile that has erased its cluster goes on until it is counted again.
LEMMA StepRecorded ==
  ASSUME Undisturbed, TypeOK, HoldInv, MembersTracked, Quiet, Recorded, PodStep
  PROVE  Recorded'
<1> USE DEF users, maps, configRec
<1> DEFINE Busy(c) == \E w \in Kinds : task[w].pc = "deploying" /\ task[w].item = c
           Busy2(c) == \E w \in Kinds : task'[w].pc = "deploying" /\ task'[w].item = c
           Counted2(c) == clusterMap'[c] # None => c \in shardMap'[clusterMap'[c]]
\* Whoever moves cluster c leaves the others where they are.
<1>1. ASSUME NEW c \in Clusters, Counted2(c) \/ Busy2(c),
             \A d \in Clusters \ {c} :
               /\ clusterMap'[d] = clusterMap[d]
               /\ Busy(d) => Busy2(d)
               /\ \A s \in ShardKeys : d \in shardMap[s] => d \in shardMap'[s]
      PROVE  Recorded'
  BY <1>1 DEF Recorded, TypeOK
<1>2. ASSUME UNCHANGED maps,
             \A w \in Kinds : task[w].pc = "deploying" =>
               task'[w].pc = "deploying" /\ task'[w].item = task[w].item
      PROVE  Recorded'
  BY <1>2 DEF Recorded
\* Nobody else deploys while the mutex is free or held by w.
<1>3. ASSUME NEW w \in Kinds, mux \in {None, w}, task[w].pc # "deploying",
             NEW d \in Clusters
      PROVE  ~ Busy(d)
  BY <1>3, OthersWait DEF HoldInv
<1>4. ASSUME NEW w \in Kinds, MayMove(w) PROVE mux \in {None, w} /\ task[w].pc # "deploying"
  BY <1>4 DEF MayMove, MayLock, HoldInv, MutexHeld
<1>5. ASSUME NEW w \in Kinds, NEW c \in Clusters, Fetch(w, c) PROVE Recorded'
  BY <1>2, <1>5 DEF Fetch, TypeOK
<1>6. ASSUME NEW w \in Kinds, TrackUnchanged(w) \/ Stopped(w) PROVE Recorded'
  BY <1>2, <1>6 DEF TrackUnchanged, MayLock, Stopped, ReturnNil, Return, TypeOK
<1>7. ASSUME NEW w \in Kinds, BeginRetire(w) \/ DeployNext(w) \/ UndeployNext(w)
      PROVE  Recorded'
  BY <1>2, <1>7 DEF BeginRetire, MayLock, DeployNext, UndeployNext, Task, TypeOK
<1>8. ASSUME NEW w \in Kinds, Join(w) PROVE Recorded'
  <2>1. \A d \in Clusters : ~ Busy(d)
    BY <1>3, <1>4, <1>8 DEF Join
  <2>2. task[w].item \in Clusters /\ Counted2(task[w].item)
    BY <1>8, JoinMaps DEF TypeOK
  <2>3. \A d \in Clusters \ {task[w].item} :
          /\ clusterMap'[d] = clusterMap[d]
          /\ \A s \in ShardKeys : d \in shardMap[s] => d \in shardMap'[s]
    BY <1>8, JoinMaps DEF TypeOK
  <2> QED BY <1>1, <2>1, <2>2, <2>3
<1>9. ASSUME NEW w \in Kinds, StopTracking(w) PROVE Recorded'
  <2>1. \A d \in Clusters : ~ Busy(d)
    BY <1>3, <1>9 DEF StopTracking, MayLock
  <2>2. task[w].item \in Clusters /\ Counted2(task[w].item)
    BY <1>9, StopTrackingMaps DEF TypeOK
  <2>3. \A d \in Clusters \ {task[w].item} :
          /\ clusterMap'[d] = clusterMap[d]
          /\ \A s \in ShardKeys : d \in shardMap[s] => d \in shardMap'[s]
    BY <1>9, StopTrackingMaps DEF TypeOK
  <2> QED BY <1>1, <2>1, <2>2, <2>3
<1>10. ASSUME NEW w \in Kinds, BeginDeploy(w), ~ ReturnError(w) PROVE Recorded'
  <2>1. \A d \in Clusters : ~ Busy(d)
    BY <1>3, <1>4, <1>10 DEF BeginDeploy
  <2>2. task[w].item \in Clusters /\ Busy2(task[w].item)
    BY <1>10, BeginDeployMaps, BeginDeployTask DEF Task, TypeOK
  <2>3. \A d \in Clusters \ {task[w].item} :
          /\ clusterMap'[d] = clusterMap[d]
          /\ \A s \in ShardKeys : d \in shardMap[s] => d \in shardMap'[s]
    BY <1>10, BeginDeployMaps
  <2> QED BY <1>1, <2>1, <2>2, <2>3
<1>11. ASSUME NEW w \in Kinds, Commit(w) PROVE Recorded'
  <2>1. task[w].item \in Clusters /\ Counted2(task[w].item)
    BY <1>11, CommitMaps DEF TypeOK, ShardKeys
  <2>2. \A d \in Clusters \ {task[w].item} :
          /\ clusterMap'[d] = clusterMap[d]
          /\ \A s \in ShardKeys : d \in shardMap[s] => d \in shardMap'[s]
    BY <1>11, CommitMaps DEF TypeOK
  <2>3. \A d \in Clusters \ {task[w].item} : Busy(d) => Busy2(d)
    BY <1>11 DEF Commit, ReturnNil, Return, TypeOK
  <2> QED BY <1>1, <2>1, <2>2, <2>3
<1>12. ASSUME Resync PROVE Recorded'
  BY <1>2, <1>12 DEF Resync
<1>13. ASSUME NEW c \in Clusters, NEW v \in ShardKeys \cup {None}, ChangeCluster(c, v)
       PROVE  Recorded'
  BY <1>2, <1>13 DEF ChangeCluster
<1> QED
  BY <1>5, <1>6, <1>7, <1>8, <1>9, <1>10, <1>11, <1>12, <1>13, PodSteps DEF PodStep

\* A pod keeps its invariant.
LEMMA StepPodInv == Undisturbed /\ PodInv /\ PodStep => PodInv'
<1> SUFFICES ASSUME Undisturbed, PodInv, PodStep PROVE PodInv'
  OBVIOUS
<1>1. [Next]_vars
  BY PodStepIsStep
<1>2. "delete" \notin FaultKinds
  BY DEF Undisturbed
<1> QED BY <1>1, <1>2, StepIndInv, StepQuiet, StepRecorded, StepActiveDeployed
        DEF PodInv, IndInv

\* While another pod does nothing, or deploys, this one keeps what it relies on.
LEMMA OtherPodWorks ==
  ASSUME PodInv, UNCHANGED <<users, maps, mux, queue, task, configRec, faults>>,
         UNCHANGED deployment \/ \E s \in Shards : Deploys(s)
  PROVE  /\ PodInv' /\ (Steady => Steady')
         /\ UNCHANGED deployment /\ Tied => Tied'
<1> USE DEF users, maps, configRec
<1>1. TypeOK /\ Quiet
  BY DEF PodInv, IndInv
<1>2. /\ deployment' \in [Shards -> [Component -> Configs \cup {None}]]
      /\ \A x \in Shards, j \in Component :
           deployment'[x][j] \in {deployment[x][j], NoConfigMap}
  <2>1. CASE UNCHANGED deployment
    BY <1>1, <2>1 DEF TypeOK
  <2>2. CASE \E s \in Shards : Deploys(s)
    <3>1. PICK s \in Shards, k \in Component : deployment' = Applied(s, k, NoConfigMap)
      BY <2>2 DEF Deploys
    <3> QED BY <1>1, <3>1, ConstantsAssumption DEF Applied, TypeOK
  <2> QED BY <2>1, <2>2
<1>3. TypeOK'
  BY <1>1, <1>2 DEF TypeOK
<1>4. Quiet'
  BY <1>1, <1>2 DEF Quiet
<1>5. \A x \in Shards, j \in Component :
        deployment[x][j] # None => deployment'[x][j] # None
  BY <1>2, ConstantsAssumption
<1>6. HoldInv'
  <2>1. \A w \in Kinds : task[w].pc = "deploying" => task[w].shard \in Shards
    BY <1>1, TaskFields DEF TypeOK
  <2> QED BY <1>5, <2>1
          DEF PodInv, IndInv, HoldInv, MutexHeld, OwnClusters, RetiringLast, StoppingLast,
              DeployingFirst
<1>7. MembersTracked' /\ SeenOrQueued' /\ NoLostChange' /\ Recorded'
  BY DEF PodInv, IndInv, MembersTracked, SeenOrQueued, NoLostChange, Handling, Recorded
<1>8. PatchesFollow'
  <2>1. redeploy'.pc = "idle"
    BY <1>4 DEF Quiet, Resting, Round
  <2>2. \A w \in Kinds : task'[w].pc = "deploying" => task'[w].shard \in Shards
    BY <1>1, TaskFields DEF TypeOK
  <2> QED BY <1>4, <1>6, <2>1, <2>2 DEF PatchesFollow, Quiet, HoldInv, DeployingFirst
<1>9. ActiveDeployed'
  BY <1>5 DEF PodInv, ActiveDeployed, ActiveShards
<1>10. Steady => Steady'
  BY DEF Steady
<1>11. UNCHANGED deployment /\ Tied => Tied'
  BY DEF Tied
<1> QED BY <1>3, <1>4, <1>6, <1>7, <1>8, <1>9, <1>10, <1>11 DEF PodInv, IndInv

\* Clusters that go all at once are queued, each as if it went alone.
LEMMA ClustersGone ==
  ASSUME PodInv, NEW S \in SUBSET Clusters,
         object' = [c \in Clusters |-> IF c \in S THEN None ELSE object[c]],
         queue' = queue \cup {c \in S : object[c] # None},
         UNCHANGED <<config, deployment, maps, mux, task, configRec, faults>>,
         UNCHANGED changes
  PROVE  PodInv'
<1> USE DEF maps, configRec
<1>1. TypeOK /\ HoldInv /\ MembersTracked /\ SeenOrQueued /\ NoLostChange /\ PatchesFollow
  BY DEF PodInv, IndInv
<1>2. TypeOK'
  BY <1>1 DEF TypeOK
<1>3. HoldInv' /\ MembersTracked' /\ PatchesFollow'
  BY <1>1 DEF HoldInv, MutexHeld, OwnClusters, RetiringLast, StoppingLast, DeployingFirst,
              MembersTracked, PatchesFollow, Pending
<1>4. \A c \in Clusters : object'[c] = object[c] \/ c \in queue'
  BY <1>1 DEF TypeOK
<1>5. SeenOrQueued'
  <2>1. \A w \in Kinds : task[w].pc # "idle" => task[w].item \in Clusters
    BY <1>1, TaskFields DEF TypeOK
  <2> QED BY <1>1, <1>4, <2>1 DEF SeenOrQueued
<1>6. NoLostChange'
  BY <1>1, <1>4 DEF NoLostChange, Handling
<1>7. Quiet' /\ Recorded' /\ ActiveDeployed'
  BY DEF PodInv, Quiet, Recorded, ActiveDeployed, ActiveShards
<1> QED BY <1>2, <1>3, <1>5, <1>6, <1>7 DEF PodInv, IndInv

-----------------------------------------------------------------------------
(* A pod alone.                                                             *)

\* While the mutex is free or held by w, nobody else deploys or removes anything.
LEMMA AloneWithMutex ==
  ASSUME HoldInv, NEW w \in Kinds, mux \in {None, w}
  PROVE  \A v \in Kinds : task[v].pc \in {"retiring", "stopping", "deploying"} => v = w
  BY OthersWait DEF HoldInv

\* A set that loses its last cluster is that of a shard that has been undeployed.
LEMMA MoveEmpties ==
  ASSUME TypeOK, HoldInv, MembersTracked, Tied, NEW w \in Kinds, MayMove(w),
         NEW s \in Shards, shardMap[s] # {}, shardMap[s] \ {task[w].item} = {},
         NEW k \in Component
  PROVE  deployment[s][k] = None
<1> DEFINE c == task[w].item
<1>1. c \in Clusters /\ shardMap[s] = {c} /\ s \in ShardKeys
  BY TaskFields DEF MayMove, MayLock, TypeOK, ShardKeys
<1>2. clusterMap[c] = s
  BY <1>1 DEF MembersTracked
<1>3. OldShard(c) = s
  BY <1>1, <1>2, ConstantsAssumption DEF OldShard
<1>4. LastOfShard(c)
  BY <1>1, <1>3 DEF LastOfShard
<1>5. task[w].pc = "retiring" /\ task[w].step \notin Component
  BY <1>4 DEF MayMove
<1>6. task[w].shard = s
  BY <1>2, <1>5 DEF HoldInv, RetiringLast
<1>7. task[w].step \in 1 .. NumComponents + 1
  BY <1>5, TaskFields DEF TypeOK
<1>8. k < task[w].step
  BY <1>5, <1>7, ConstantsAssumption DEF Component
<1> QED BY <1>5, <1>6, <1>8 DEF Tied

\* Alone, a pod leaves no Deployment of a shard that nobody is counted in.
LEMMA StepTied ==
  ASSUME Undisturbed, PodInv, Tied, PodStep
  PROVE  Tied'
<1> USE DEF users, maps, configRec
<1>1. TypeOK /\ HoldInv /\ MembersTracked /\ Quiet
  BY DEF PodInv, IndInv
<1>2. ASSUME UNCHANGED <<deployment, shardMap>>,
             \A w \in Kinds :
               task[w].pc \in {"deploying", "stopping"} => task'[w] = task[w],
             \A w \in Kinds : task'[w].pc = "retiring" =>
               task'[w] = task[w] \/ task'[w].step = 1
      PROVE  Tied'
  <2>1. \A k \in Component : ~ (k < 1)
    BY DEF Component
  <2> QED BY <1>2, <2>1 DEF Tied
<1>3. ASSUME NEW w \in Kinds, NEW c \in Clusters, Fetch(w, c) PROVE Tied'
  BY <1>1, <1>2, <1>3 DEF Fetch, Task, TypeOK
<1>4. ASSUME NEW w \in Kinds, TrackUnchanged(w) PROVE Tied'
  BY <1>1, <1>2, <1>4 DEF TrackUnchanged, MayLock, ReturnNil, Return, Idle, Task, TypeOK
<1>5. ASSUME NEW w \in Kinds, BeginRetire(w) PROVE Tied'
  BY <1>1, <1>2, <1>5 DEF BeginRetire, MayLock, Task, TypeOK
\* Whoever may move a cluster is the only one at work.
<1>6. ASSUME NEW w \in Kinds, MayMove(w), NEW v \in Kinds,
             task[v].pc \in {"retiring", "stopping", "deploying"}
      PROVE  v = w /\ task[v].pc = "retiring"
  <2>1. mux \in {None, w} /\ task[w].pc \in {"fetched", "retiring"}
    BY <1>1, <1>6 DEF MayMove, MayLock, HoldInv, MutexHeld
  <2> QED BY <1>1, <1>6, <2>1, AloneWithMutex
<1>7. ASSUME NEW w \in Kinds, MayMove(w), UNCHANGED deployment,
             task'[w].pc \in {"idle", "deploying"},
             \A v \in Kinds \ {w} : task'[v] = task[v],
             \A s \in Shards : shardMap[s] \ {task[w].item} \subseteq shardMap'[s]
      PROVE  Tied'
  <2>1. \A v \in Kinds : task'[v].pc # "retiring"
    BY <1>6, <1>7
  <2>2. ASSUME NEW s \in Shards, NEW k \in Component, deployment[s][k] # None
        PROVE  shardMap[s] # {}
    BY <1>6, <1>7, <2>2 DEF Tied
  <2>3. \A s \in Shards, k \in Component : deployment[s][k] # None => shardMap'[s] # {}
    BY <1>1, <1>7, <2>2, MoveEmpties
  <2> QED BY <1>7, <2>1, <2>3 DEF Tied
<1>8. ASSUME NEW w \in Kinds, Join(w) PROVE Tied'
  <2>1. MayMove(w) /\ UNCHANGED deployment
    BY <1>8 DEF Join
  <2>2. task'[w].pc = "idle" /\ \A v \in Kinds \ {w} : task'[v] = task[v]
    BY <1>1, <1>8 DEF Join, ReturnNil, Return, Idle, Task, TypeOK
  <2>3. \A s \in Shards : shardMap[s] \ {task[w].item} \subseteq shardMap'[s]
    BY <1>1, <1>8, JoinMaps DEF ShardKeys
  <2> QED BY <1>7, <2>1, <2>2, <2>3
<1>9. ASSUME NEW w \in Kinds, BeginDeploy(w), ~ ReturnError(w) PROVE Tied'
  <2>1. MayMove(w) /\ UNCHANGED deployment
    BY <1>9 DEF BeginDeploy
  <2>2. task'[w].pc = "deploying" /\ \A v \in Kinds \ {w} : task'[v] = task[v]
    BY <1>1, <1>9, BeginDeployTask DEF Task, TypeOK
  <2>3. \A s \in Shards : shardMap[s] \ {task[w].item} \subseteq shardMap'[s]
    BY <1>1, <1>9, BeginDeployMaps DEF ShardKeys
  <2> QED BY <1>7, <2>1, <2>2, <2>3
<1>10. ASSUME NEW w \in Kinds, DeployNext(w) PROVE Tied'
  <2> DEFINE t == task[w]
  <2>1. /\ t.pc = "deploying" /\ t.shard \in Shards /\ t.step \in Component /\ mux = w
        /\ t.patches \in Configs /\ deployment' = Applied(t.shard, t.step, t.patches)
        /\ UNCHANGED shardMap
    BY <1>1, <1>10, TaskFields DEF DeployNext, ApplySucceeds, TypeOK, HoldInv, MutexHeld
  <2>2. /\ task'[w].pc = "deploying" /\ task'[w].shard = t.shard
        /\ \A v \in Kinds \ {w} : task'[v] = task[v]
    BY <1>1, <1>10 DEF DeployNext, Task, TypeOK
  <2>3. \A v \in Kinds \ {w} :
          task[v].pc \notin {"retiring", "stopping", "deploying"}
    BY <1>1, <2>1, AloneWithMutex
  <2>4. \A s \in Shards, k \in Component :
          deployment'[s][k] # None => s = t.shard \/ deployment[s][k] # None
    BY <1>1, <2>1, AppliedValues
  <2> QED BY <2>1, <2>2, <2>3, <2>4 DEF Tied
<1>11. ASSUME NEW w \in Kinds, Commit(w) PROVE Tied'
  <2> DEFINE t == task[w]
  <2>1. t.pc = "deploying" /\ mux = w /\ UNCHANGED deployment
    BY <1>1, <1>11 DEF Commit, HoldInv, MutexHeld
  <2>2. task'[w].pc = "idle" /\ \A v \in Kinds \ {w} : task'[v] = task[v]
    BY <1>1, <1>11 DEF Commit, ReturnNil, Return, Idle, Task, TypeOK
  <2>3. \A v \in Kinds \ {w} :
          task[v].pc \notin {"retiring", "stopping", "deploying"}
    BY <1>1, <2>1, AloneWithMutex
  <2>4. /\ shardMap'[t.shard] # {}
        /\ \A s \in Shards : shardMap[s] # {} => shardMap'[s] # {}
    <3>1. shardMap' = [shardMap EXCEPT ![t.shard] = @ \cup {t.item}] /\ t.shard \in ShardKeys
      BY <1>1, <1>11, TaskFields DEF Commit, TypeOK, ShardKeys
    <3> QED BY <1>1, <3>1 DEF TypeOK, ShardKeys
  <2> QED BY <2>1, <2>2, <2>3, <2>4 DEF Tied
<1>12. ASSUME NEW w \in Kinds, UndeployNext(w) PROVE Tied'
  <2> DEFINE t == task[w]
  <2>1. /\ t.pc \in {"retiring", "stopping"} /\ t.shard \in Shards /\ t.step \in Component
        /\ mux = w /\ deployment' = Deleted(t.shard, t.step) /\ UNCHANGED shardMap
    BY <1>1, <1>12, TaskFields DEF UndeployNext, TypeOK, HoldInv, MutexHeld
  <2>2. /\ task'[w].pc = t.pc /\ task'[w].shard = t.shard /\ task'[w].step = t.step + 1
        /\ \A v \in Kinds \ {w} : task'[v] = task[v]
    BY <1>1, <1>12 DEF UndeployNext, Task, TypeOK
  <2>3. \A v \in Kinds \ {w} :
          task[v].pc \notin {"retiring", "stopping", "deploying"}
    BY <1>1, <2>1, AloneWithMutex
  <2>4. \A s \in Shards, k \in Component :
          deployment'[s][k] = IF s = t.shard /\ k = t.step THEN None ELSE deployment[s][k]
    BY <1>1, <2>1 DEF Deleted, TypeOK
  <2>5. \A k \in Component : /\ k >= t.step => k = t.step \/ k >= t.step + 1
                             /\ k < t.step + 1 => k = t.step \/ k < t.step
    BY <2>1 DEF Component
  <2>6. \A w2 \in Kinds : task'[w2].pc = "retiring" =>
          \A k \in Component :
            k < task'[w2].step => deployment'[task'[w2].shard][k] = None
    BY <2>1, <2>2, <2>3, <2>4, <2>5 DEF Tied
  <2>7. ASSUME NEW s \in Shards, NEW k \in Component, deployment'[s][k] # None
        PROVE  shardMap'[s] # {} \/ \E w2 \in Kinds :
                 task'[w2].pc = "stopping" /\ task'[w2].shard = s /\ k >= task'[w2].step
    <3>1. deployment[s][k] # None /\ ~ (s = t.shard /\ k = t.step)
      BY <2>4, <2>7
    <3>2. CASE shardMap[s] # {}
      BY <2>1, <3>2
    <3>3. CASE \E v \in Kinds :
                 task[v].pc = "stopping" /\ task[v].shard = s /\ k >= task[v].step
      <4>1. t.pc = "stopping" /\ t.shard = s /\ k >= t.step
        BY <2>3, <3>3
      <4> QED BY <2>2, <2>5, <3>1, <4>1
    <3>4. ~ \E v \in Kinds : task[v].pc = "deploying" /\ task[v].shard = s
      BY <2>1, <2>3
    <3> QED BY <3>1, <3>2, <3>3, <3>4 DEF Tied
  <2> QED BY <2>6, <2>7 DEF Tied
<1>13. ASSUME NEW w \in Kinds, StopTracking(w) PROVE Tied'
  <2> DEFINE c == task[w].item
  <2>1. /\ c \in Clusters /\ mux = None /\ UNCHANGED deployment
        /\ shardMap' = [s \in ShardKeys |-> shardMap[s] \ {c}]
    BY <1>1, <1>13, StopTrackingMaps DEF StopTracking, MayLock
  <2>2. \A v \in Kinds : task[v].pc \notin {"retiring", "stopping", "deploying"}
    BY <1>1, <2>1, ConstantsAssumption DEF HoldInv, MutexHeld
  <2>3. \A s \in Shards, k \in Component : deployment[s][k] # None => shardMap[s] # {}
    BY <2>2 DEF Tied
  <2>4. \A s \in Shards : shardMap[s] = {c} => LastOfShard(c) /\ OldShard(c) = s
    BY <1>1, <2>1, ConstantsAssumption
    DEF LastOfShard, OldShard, MembersTracked, ShardKeys, TypeOK
  <2>5. \A s \in Shards : shardMap[s] # {} => shardMap'[s] # {} \/ shardMap[s] = {c}
    BY <2>1 DEF ShardKeys
  <2>6. task'[w].pc # "retiring" /\ \A v \in Kinds \ {w} : task'[v] = task[v]
    BY <1>1, <1>13 DEF StopTracking, ReturnNil, Return, Idle, Task, TypeOK
  <2>7. LastOfShard(c) => /\ task'[w].pc = "stopping" /\ task'[w].shard = OldShard(c)
                          /\ task'[w].step = 1
    BY <1>1, <1>13 DEF StopTracking, Task, TypeOK
  <2>8. \A k \in Component : k >= 1
    BY DEF Component
  <2> QED BY <2>1, <2>2, <2>3, <2>4, <2>5, <2>6, <2>7, <2>8 DEF Tied
<1>14. ASSUME NEW w \in Kinds, Stopped(w) PROVE Tied'
  <2> DEFINE t == task[w]
  <2>1. /\ t.pc = "stopping" /\ mux = w /\ UNCHANGED <<deployment, shardMap>>
        /\ t.step \in 1 .. NumComponents + 1 /\ t.step \notin Component
    BY <1>1, <1>14, TaskFields DEF Stopped, HoldInv, MutexHeld, TypeOK
  <2>2. task'[w].pc = "idle" /\ \A v \in Kinds \ {w} : task'[v] = task[v]
    BY <1>1, <1>14 DEF Stopped, ReturnNil, Return, Idle, Task, TypeOK
  <2>3. \A v \in Kinds \ {w} :
          task[v].pc \notin {"retiring", "stopping", "deploying"}
    BY <1>1, <2>1, AloneWithMutex
  <2>4. \A k \in Component : ~ (k >= t.step)
    BY <2>1, ConstantsAssumption DEF Component
  <2> QED BY <2>1, <2>2, <2>3, <2>4 DEF Tied
<1>15. ASSUME UNCHANGED <<task, deployment, shardMap>> PROVE Tied'
  BY <1>15 DEF Tied
<1>16. ASSUME Resync PROVE Tied'
  BY <1>15, <1>16 DEF Resync
<1>17. ASSUME NEW c \in Clusters, NEW v \in ShardKeys \cup {None}, ChangeCluster(c, v)
       PROVE  Tied'
  BY <1>15, <1>17 DEF ChangeCluster
<1> QED
  BY <1>1, <1>3, <1>4, <1>5, <1>8, <1>9, <1>10, <1>11, <1>12, <1>13, <1>14, <1>16, <1>17,
     PodSteps
  DEF PodStep

-----------------------------------------------------------------------------
(* A pod next to another one, while no cluster leaves a shard.              *)

\* A reconciler of a steady pod never retires or stops a shard.
LEMMA SteadyKeepsShards ==
  ASSUME TypeOK, Steady, NEW w \in Kinds
  PROVE  /\ task[w].pc \notin {"retiring", "stopping"}
         /\ ~ BeginRetire(w) /\ ~ UndeployNext(w) /\ ~ Stopped(w)
         /\ StopTracking(w) => ReturnNil(w)
<1>1. task[w].pc \notin {"retiring", "stopping"}
  BY TaskFields DEF Steady, TypeOK
<1>2. ASSUME MayLock(w), LastOfShard(task[w].item)
      PROVE  clusterMap[task[w].item] \in Shards /\ task[w].seen = clusterMap[task[w].item]
  BY <1>2, ConstantsAssumption DEF MayLock, LastOfShard, OldShard, Steady
<1>3. ~ BeginRetire(w)
  BY <1>2 DEF BeginRetire, ShardChanged
<1>4. StopTracking(w) => ReturnNil(w)
  BY <1>2, ConstantsAssumption DEF StopTracking, ShardKeys
<1> QED BY <1>1, <1>3, <1>4 DEF UndeployNext, Stopped

\* What a pod has recorded or read of a cluster with a shard stays true.
LEMMA StepSteady ==
  ASSUME Undisturbed, PodInv, Steady,
         Works \/ \E c \in Clusters, v \in ShardKeys \cup {None} : Joining(c, v)
  PROVE  Steady'
<1> USE DEF users, maps, configRec
<1>1. TypeOK /\ HoldInv /\ MembersTracked /\ Quiet
  BY DEF PodInv, IndInv
<1>2. \A w \in Kinds, v \in Kinds :
        task[w].pc # "idle" /\ task[v].pc # "idle" /\ task[v].item = task[w].item => v = w
  BY <1>1 DEF HoldInv, OwnClusters
\* The reconciler w goes on, idle or with what it has read.
<1>3. ASSUME NEW w \in Kinds, UNCHANGED <<object, clusterMap>>,
             \A v \in Kinds \ {w} : task'[v] = task[v],
             \/ task'[w].pc = "idle"
             \/ /\ task[w].pc # "idle" /\ task'[w].pc \notin {"retiring", "stopping"}
                /\ task'[w].item = task[w].item /\ task'[w].seen = task[w].seen
      PROVE  Steady'
  BY <1>3 DEF Steady
\* The reconciler w records of its cluster what it has read, or forgets it.
<1>4. ASSUME NEW w \in Kinds, UNCHANGED object, task[w].pc # "idle",
             task'[w].pc = "idle", \A v \in Kinds \ {w} : task'[v] = task[v],
             NEW x \in {None, task[w].seen},
             task[w].item \in Clusters,
             clusterMap' = [clusterMap EXCEPT ![task[w].item] = x]
      PROVE  Steady'
  <2> DEFINE c == task[w].item
  <2>1. /\ clusterMap'[c] = x
        /\ \A d \in Clusters \ {c} : clusterMap'[d] = clusterMap[d]
    BY <1>1, <1>4 DEF TypeOK
  <2>2. x \in Shards => object[c] = x
    BY <1>4, ConstantsAssumption DEF Steady, ShardKeys
  <2>3. \A d \in Clusters : clusterMap'[d] \in Shards => object'[d] = clusterMap'[d]
    BY <1>4, <2>1, <2>2 DEF Steady
  <2>4. \A v \in Kinds : task'[v].pc # "idle" =>
          v # w /\ task'[v] = task[v] /\ task[v].item \in Clusters \ {c}
    BY <1>1, <1>2, <1>4, TaskFields DEF TypeOK
  <2> QED BY <1>4, <2>1, <2>3, <2>4 DEF Steady
<1>5. ASSUME NEW w \in Kinds, NEW c \in Clusters, Fetch(w, c) PROVE Steady'
  <2>1. /\ task'[w].pc = "fetched" /\ task'[w].item = c /\ task'[w].seen = object[c]
        /\ \A v \in Kinds \ {w} : task'[v] = task[v]
        /\ UNCHANGED <<object, clusterMap>>
    BY <1>1, <1>5 DEF Fetch, Task, TypeOK
  <2> QED BY <1>5, <2>1 DEF Steady
<1>6. ASSUME NEW w \in Kinds, TrackUnchanged(w) PROVE Steady'
  <2>1. task'[w].pc = "idle" /\ \A v \in Kinds \ {w} : task'[v] = task[v]
    BY <1>1, <1>6 DEF TrackUnchanged, ReturnNil, Return, Idle, Task, TypeOK
  <2> QED BY <1>3, <1>6, <2>1 DEF TrackUnchanged
<1>7. ASSUME NEW w \in Kinds, Join(w) PROVE Steady'
  <2>1. task'[w].pc = "idle" /\ \A v \in Kinds \ {w} : task'[v] = task[v]
    BY <1>1, <1>7 DEF Join, ReturnNil, Return, Idle, Task, TypeOK
  <2>2. task[w].pc # "idle" /\ UNCHANGED object
    BY <1>7 DEF Join, MayMove, MayLock
  <2> QED BY <1>1, <1>4, <1>7, <2>1, <2>2, JoinMaps
<1>8. ASSUME NEW w \in Kinds, StopTracking(w) PROVE Steady'
  <2>1. ReturnNil(w)
    BY <1>1, <1>8, SteadyKeepsShards
  <2>2. task'[w].pc = "idle" /\ \A v \in Kinds \ {w} : task'[v] = task[v]
    BY <1>1, <2>1 DEF ReturnNil, Return, Idle, Task, TypeOK
  <2>3. task[w].pc # "idle" /\ UNCHANGED object
    BY <1>8 DEF StopTracking, MayLock
  <2> QED BY <1>1, <1>4, <1>8, <2>2, <2>3, StopTrackingMaps
<1>9. ASSUME NEW w \in Kinds, BeginDeploy(w), ~ ReturnError(w) PROVE Steady'
  <2>1. /\ task'[w].pc = "deploying" /\ task'[w].item = task[w].item
        /\ task'[w].seen = task[w].seen /\ \A v \in Kinds \ {w} : task'[v] = task[v]
    BY <1>1, <1>9, BeginDeployTask DEF Task, TypeOK
  <2>2. task[w].pc # "idle" /\ UNCHANGED <<object, clusterMap>>
    BY <1>9 DEF BeginDeploy, MayMove, MayLock
  <2> QED BY <1>3, <2>1, <2>2
<1>10. ASSUME NEW w \in Kinds, DeployNext(w) PROVE Steady'
  <2>1. /\ task[w].pc = "deploying" /\ task'[w].pc = "deploying"
        /\ task'[w].item = task[w].item /\ task'[w].seen = task[w].seen
        /\ \A v \in Kinds \ {w} : task'[v] = task[v]
        /\ UNCHANGED <<object, clusterMap>>
    BY <1>1, <1>10 DEF DeployNext, Task, TypeOK
  <2> QED BY <1>3, <2>1
<1>11. ASSUME NEW w \in Kinds, Commit(w) PROVE Steady'
  <2>1. task'[w].pc = "idle" /\ \A v \in Kinds \ {w} : task'[v] = task[v]
    BY <1>1, <1>11 DEF Commit, ReturnNil, Return, Idle, Task, TypeOK
  <2>2. task[w].pc = "deploying" /\ UNCHANGED object /\ task[w].shard = task[w].seen
    BY <1>1, <1>11 DEF Commit, HoldInv, DeployingFirst
  <2> QED BY <1>1, <1>4, <1>11, <2>1, <2>2, CommitMaps
<1>12. ASSUME Resync PROVE Steady'
  BY <1>12 DEF Resync, Steady
<1>13. ASSUME NEW c \in Clusters, NEW v \in ShardKeys \cup {None}, Joining(c, v)
       PROVE  Steady'
  <2>1. /\ object[c] \notin Shards /\ UNCHANGED <<task, clusterMap>>
        /\ \A d \in Clusters \ {c} : object'[d] = object[d]
    BY <1>1, <1>13 DEF Joining, ChangeCluster, TypeOK
  <2> QED BY <1>1, <2>1, TaskFields DEF Steady, TypeOK
<1> QED
  BY <1>1, <1>5, <1>6, <1>7, <1>8, <1>9, <1>10, <1>11, <1>12, <1>13, PodSteps,
     SteadyKeepsShards

\* A steady pod deletes nothing, and deploys shards of clusters that exist.
LEMMA SteadyDeploys ==
  ASSUME Undisturbed, PodInv, Steady, Works
  PROVE  \/ UNCHANGED deployment
         \/ \E s \in Shards : Deploys(s) /\ \E c \in Clusters : object[c] = s
<1>1. TypeOK /\ HoldInv /\ Quiet
  BY DEF PodInv, IndInv
<1>2. ASSUME NEW w \in Kinds, DeployNext(w)
      PROVE  \E s \in Shards : Deploys(s) /\ \E c \in Clusters : object[c] = s
  <2> DEFINE t == task[w]
  <2>1. /\ t.pc = "deploying" /\ t.shard \in Shards /\ t.item \in Clusters
        /\ t.step \in Component /\ deployment' = Applied(t.shard, t.step, t.patches)
    BY <1>1, <1>2, TaskFields DEF DeployNext, ApplySucceeds, TypeOK
  <2>2. t.patches = NoConfigMap /\ t.seen = t.shard
    BY <1>1, <2>1 DEF Quiet, HoldInv, DeployingFirst
  <2>3. object[t.item] = t.shard
    BY <2>1, <2>2 DEF Steady
  <2> QED BY <2>1, <2>2, <2>3 DEF Deploys
<1> QED
  BY <1>1, <1>2, PodSteps, SteadyKeepsShards
  DEF Fetch, TrackUnchanged, Join, StopTracking, BeginDeploy, Commit, Resync

\* The goroutines of a pod leave the users' objects alone, and nothing fails.
LEMMA WorksFrame ==
  ASSUME Undisturbed, TypeOK, Quiet, Works
  PROVE  UNCHANGED <<users, faults>>
<1>1. ASSUME NEW w \in Kinds, BeginDeploy(w) PROVE UNCHANGED <<users, faults>>
  BY <1>1, NoFailures DEF BeginDeploy, users
<1>2. ASSUME NEW w \in Kinds, DeployNext(w) PROVE UNCHANGED <<users, faults>>
  BY <1>2 DEF DeployNext, ApplySucceeds
<1> QED
  BY <1>1, <1>2, PodSteps
  DEF Fetch, TrackUnchanged, BeginRetire, Join, StopTracking, UndeployNext, Commit,
      Stopped, Resync

-----------------------------------------------------------------------------
(* The start of a pod.                                                      *)

\* What a pod finds: the users' objects, no ConfigMap, and Deployments without
\* patches.
Found ==
  /\ object \in [Clusters -> ShardKeys \cup {None}]
  /\ config = NoConfigMap
  /\ deployment \in [Shards -> [Component -> {None, NoConfigMap}]]
  /\ changes \in 0 .. MaxChanges
  /\ faults \in 0 .. MaxFaults

\* Another pod, or the one before, has left it like that.
LEMMA PodLeaves == PodInv => Found
  BY DEF PodInv, IndInv, TypeOK, Quiet, Found

\* The first pod finds no Deployment at all.
LEMMA InitPod == Init /\ config = NoConfigMap => PodInv /\ Tied
<1> SUFFICES ASSUME Init, config = NoConfigMap PROVE PodInv /\ Tied
  OBVIOUS
<1>1. IndInv
  BY InitIndInv
<1>2. Quiet
  BY DEF Init, Quiet, Idle, Task
<1>3. Recorded /\ ActiveDeployed /\ Tied
  BY DEF Init, Recorded, ActiveDeployed, ActiveShards, ShardKeys, Tied, Idle, Task
<1> QED BY <1>1, <1>2, <1>3 DEF PodInv

\* A pod that starts counts again from nothing.
LEMMA RebootPod ==
  ASSUME Found, Reboot, UNCHANGED faults
  PROVE  PodInv' /\ Steady'
<1> USE DEF users
<1>1. /\ Found'
      /\ clusterMap' = [c \in Clusters |-> None] /\ shardMap' = [s \in ShardKeys |-> {}]
      /\ mux' = None /\ queue' = Live' /\ ~ configQueued' /\ redeploy' = Resting
      /\ task' = [w \in Kinds |-> Idle]
  BY DEF Found, Reboot, Live
<1>2. \A w \in Kinds : task'[w].pc = "idle" /\ task'[w] = Idle
  BY <1>1 DEF Idle, Task
<1>3. TypeOK'
  <2>1. Resting \in RedeployStates /\ Idle \in TaskStates
    BY DEF RedeployStates, TaskStates
  <2>2. queue' \in SUBSET Clusters /\ configQueued' \in BOOLEAN
    BY <1>1 DEF Live, Reboot
  <2> QED BY <1>1, <2>1, <2>2, ConstantsAssumption DEF TypeOK, Found
<1>4. HoldInv'
  BY <1>1, <1>2, ConstantsAssumption
  DEF HoldInv, MutexHeld, OwnClusters, RetiringLast, StoppingLast, DeployingFirst
<1>5. MembersTracked' /\ SeenOrQueued'
  BY <1>1, <1>2 DEF MembersTracked, SeenOrQueued
<1>6. NoLostChange'
  BY <1>1 DEF NoLostChange, Live
<1>7. redeploy'.pc = "idle"
  BY <1>1 DEF Resting, Round
<1>8. PatchesFollow'
  BY <1>1, <1>2, <1>7 DEF PatchesFollow, ShardKeys
<1>9. Quiet'
  BY <1>1, <1>2 DEF Quiet, Found
<1>10. Recorded' /\ ActiveDeployed' /\ Steady'
  <2>1. Recorded'
    BY <1>1 DEF Recorded
  <2>2. ActiveDeployed'
    BY <1>1 DEF ActiveDeployed, ActiveShards, ShardKeys
  <2>3. Steady'
    BY <1>1, <1>2, ConstantsAssumption DEF Steady, ShardKeys
  <2> QED BY <2>1, <2>2, <2>3
<1> QED BY <1>3, <1>4, <1>5, <1>6, <1>8, <1>9, <1>10 DEF PodInv, IndInv

-----------------------------------------------------------------------------
(* A pod with nothing left to do.                                           *)

\* Its maps are what the annotations say.
LEMMA SettledMaps ==
  ASSUME PodInv, Settled
  PROVE  /\ \A c \in Clusters : clusterMap[c] = object[c]
         /\ \A c \in Live : c \in shardMap[object[c]]
<1>1. TypeOK /\ NoLostChange /\ Recorded /\ \A w \in Kinds : task[w].pc = "idle"
  BY DEF PodInv, IndInv, Settled
<1>2. \A w \in Kinds : task[w] = Idle
  BY <1>1, TaskFields DEF TypeOK
<1>3. \A w \in Kinds, c \in Clusters : ~ Handling(w, c)
  BY <1>2, ConstantsAssumption DEF Handling, Idle, Task
<1>4. \A c \in Clusters : clusterMap[c] = object[c]
  BY <1>1, <1>3 DEF NoLostChange, Settled
<1> QED BY <1>1, <1>4 DEF Recorded, Live

\* Every cluster is served.
LEMMA SettledProvisions ==
  ASSUME PodInv, Settled
  PROVE  Provisioned
<1>1. TypeOK /\ Quiet /\ ActiveDeployed /\ \A w \in Kinds : task[w].pc = "idle"
  BY DEF PodInv, IndInv, Settled
<1>2. ASSUME NEW c \in Live, object[c] \in Shards, NEW k \in Component
      PROVE  deployment[object[c]][k] = config
  <2>1. object[c] \in ActiveShards
    BY <1>2, SettledMaps DEF ActiveShards
  <2>2. deployment[object[c]][k] # None
    BY <1>1, <2>1 DEF ActiveDeployed
  <2> QED BY <1>1, <1>2, <2>2 DEF Quiet
<1> QED BY <1>2, SettledMaps DEF Provisioned, Served

\* A pod that has been alone has left nothing behind...
LEMMA SettledCleans ==
  ASSUME PodInv, Tied, Settled
  PROVE  Clean
<1>1. TypeOK /\ MembersTracked /\ \A w \in Kinds : task[w].pc = "idle"
  BY DEF PodInv, IndInv, Settled
<1>2. ASSUME NEW s \in Shards, NEW k \in Component, deployment[s][k] # None
      PROVE  \E c \in Live : object[c] = s
  <2>1. shardMap[s] # {}
    BY <1>1, <1>2 DEF Tied
  <2>2. PICK c \in Clusters : c \in shardMap[s]
    BY <1>1, <2>1 DEF TypeOK, ShardKeys
  <2>3. object[c] = s
    BY <1>1, <2>2, SettledMaps DEF MembersTracked, ShardKeys
  <2> QED BY <2>3, ConstantsAssumption DEF Live, ShardKeys
<1> QED BY <1>2 DEF Clean

\* ...and is steady; one that finds nothing left behind may go on alone.
LEMMA SettledSteady ==
  ASSUME PodInv, Settled
  PROVE  Steady /\ (Clean => Tied)
<1>1. \A w \in Kinds : task[w].pc = "idle"
  BY DEF Settled
<1>2. Steady
  BY <1>1, SettledMaps DEF Steady
<1>3. ASSUME Clean PROVE Tied
  BY <1>1, <1>3, SettledMaps DEF Tied, Clean
<1> QED BY <1>2, <1>3

=============================================================================

------------------------- MODULE ShardTrackerProofs -------------------------
(***************************************************************************)
(* Proofs about ShardTracker, for every set of clusters and shards, every  *)
(* number of Deployments and every pattern of faults.                      *)
(***************************************************************************)
EXTENDS ShardTrackerInv, TLAPS

-----------------------------------------------------------------------------
(* Types.                                                                   *)

\* What a cluster reconciler holds in each of its states.
LEMMA TaskFields ==
  ASSUME task \in [Kinds -> TaskStates], NEW w \in Kinds
  PROVE  LET t == task[w] IN
         /\ t = Task(t.pc, t.item, t.seen, t.shard, t.step, t.patches)
         /\ t.pc \in {"idle", "fetched", "retiring", "stopping", "deploying"}
         /\ t.pc = "idle" => t = Idle
         /\ t.pc # "idle" => t.item \in Clusters /\ t.seen \in ShardKeys \cup {None}
         /\ t.pc = "fetched" => t = Task("fetched", t.item, t.seen, None, 0, None)
         /\ t.pc \in {"retiring", "stopping", "deploying"} =>
              t.shard \in Shards /\ t.step \in 1 .. NumComponents + 1
         /\ t.pc = "retiring" => t.seen \in ShardKeys /\ t.patches = None
         /\ t.pc = "stopping" => t.seen = None /\ t.patches = None
         /\ t.pc = "deploying" => t.seen \in Shards /\ t.patches \in Configs
<1> DEFINE t == task[w]
<1>1. t \in TaskStates
  OBVIOUS
<1>2. CASE t = Idle
  BY <1>2 DEF Idle, Task
<1>3. CASE t \in [pc : {"fetched"}, item : Clusters, seen : ShardKeys \cup {None},
                  shard : {None}, step : {0}, patches : {None}]
  BY <1>3 DEF Task
<1>4. CASE t \in [pc : {"retiring"}, item : Clusters, seen : ShardKeys, shard : Shards,
                  step : 1 .. NumComponents + 1, patches : {None}]
  BY <1>4 DEF Task
<1>5. CASE t \in [pc : {"stopping"}, item : Clusters, seen : {None}, shard : Shards,
                  step : 1 .. NumComponents + 1, patches : {None}]
  BY <1>5 DEF Task
<1>6. CASE t \in [pc : {"deploying"}, item : Clusters, seen : Shards, shard : Shards,
                  step : 1 .. NumComponents + 1, patches : Configs]
  BY <1>6 DEF Task, ShardKeys
<1> QED BY <1>1, <1>2, <1>3, <1>4, <1>5, <1>6 DEF TaskStates

\* What the ConfigMap reconciler holds in each of its states.
LEMMA RoundFields ==
  ASSUME redeploy \in RedeployStates
  PROVE  /\ redeploy = Round(redeploy.pc, redeploy.todo, redeploy.shard, redeploy.step,
                             redeploy.patches)
         /\ redeploy.pc \in {"idle", "listed", "deploying"}
         /\ redeploy.todo \in SUBSET Shards
         /\ redeploy.pc = "deploying" => /\ redeploy.shard \in Shards
                                        /\ redeploy.step \in 1 .. NumComponents + 1
                                        /\ redeploy.patches \in Configs
  BY DEF RedeployStates, Resting, Round

\* A returned reconciler is typed.
LEMMA ReturnType ==
  ASSUME task \in [Kinds -> TaskStates], NEW w \in Kinds, Return(w)
  PROVE  task' \in [Kinds -> TaskStates] /\ mux' \in Kinds \cup {None}
  BY DEF Return, TaskStates

\* A fault that happens stays within its bound.
LEMMA FaultsType ==
  ASSUME faults \in 0 .. MaxFaults, NEW kind, Fail(kind)
  PROVE  faults' \in 0 .. MaxFaults
  BY ConstantsAssumption DEF Fail, CanFail

\* A change users make stays within its bound.
LEMMA ChangesType ==
  ASSUME changes \in 0 .. MaxChanges, changes < MaxChanges, changes' = changes + 1
  PROVE  changes' \in 0 .. MaxChanges
  BY ConstantsAssumption

\* The first Deployment is a step of deployControllers.
LEMMA FirstStep == 1 \in 1 .. NumComponents + 1
  BY ConstantsAssumption

\* After the last Deployment comes the end, one past the last step.
LEMMA NextStep ==
  ASSUME NEW k \in Component
  PROVE  k + 1 \in 1 .. NumComponents + 1
  BY ConstantsAssumption DEF Component

\* A process that has just started (InitMaps) is typed.
THEOREM InitTypeOK == Init => TypeOK
<1> SUFFICES ASSUME Init PROVE TypeOK
  OBVIOUS
<1>1. task \in [Kinds -> TaskStates] /\ redeploy \in RedeployStates
  BY DEF Init, TaskStates, RedeployStates
<1>2. configQueued \in BOOLEAN
  BY Zenon DEF Init
<1>3. changes \in 0 .. MaxChanges /\ faults \in 0 .. MaxFaults
  BY ConstantsAssumption DEF Init
<1> QED BY <1>1, <1>2, <1>3 DEF Init, TypeOK, Live

\* Every step of every goroutine preserves the types.
LEMMA StepTypeOK == TypeOK /\ [Next]_vars => TypeOK'
<1> SUFFICES ASSUME TypeOK, [Next]_vars PROVE TypeOK'
  OBVIOUS
<1> USE DEF users, maps, configRec
<1>1. ASSUME NEW w \in Kinds, NEW c \in Clusters, Fetch(w, c) PROVE TypeOK'
  <2>1. Task("fetched", c, object[c], None, 0, None) \in TaskStates
    BY DEF TypeOK, TaskStates, Task
  <2> QED BY <1>1, <2>1 DEF Fetch, TypeOK
<1>2. ASSUME NEW w \in Kinds, NEW c \in Clusters, FetchFails(w, c) PROVE TypeOK'
  BY <1>2, FaultsType DEF FetchFails, TypeOK
<1>3. ASSUME NEW w \in Kinds, TrackUnchanged(w) PROVE TypeOK'
  BY <1>3, ReturnType DEF TrackUnchanged, ReturnNil, TypeOK
<1>4. ASSUME NEW w \in Kinds, BeginRetire(w) PROVE TypeOK'
  <2>1. /\ task[w].item \in Clusters
        /\ task[w].seen \in ShardKeys
        /\ OldShard(task[w].item) \in Shards
    BY <1>4, TaskFields
    DEF BeginRetire, MayLock, ShardChanged, LastOfShard, TypeOK
  <2>2. Task("retiring", task[w].item, task[w].seen, OldShard(task[w].item), 1, None)
          \in TaskStates
    BY <2>1, FirstStep DEF TaskStates, Task
  <2> QED BY <1>4, <2>2 DEF BeginRetire, TypeOK
<1>5. ASSUME NEW w \in Kinds, Join(w) PROVE TypeOK'
  <2>1. task[w].item \in Clusters /\ task[w].seen \in ShardKeys
    BY <1>5, TaskFields DEF Join, MayMove, MayLock, ShardChanged, TypeOK
  <2>2. /\ shardMap' \in [ShardKeys -> SUBSET Clusters]
        /\ clusterMap' \in [Clusters -> ShardKeys \cup {None}]
    BY <1>5, <2>1 DEF Join, Erased, TypeOK
  <2> QED BY <1>5, <2>2, ReturnType DEF Join, ReturnNil, TypeOK
<1>6. ASSUME NEW w \in Kinds, BeginDeploy(w) PROVE TypeOK'
  <2>1. task[w].item \in Clusters /\ task[w].seen \in Shards
    BY <1>6, TaskFields
    DEF BeginDeploy, MayMove, MayLock, ShardChanged, NeedsNoDeploy, TypeOK, ShardKeys
  <2>2. shardMap' \in [ShardKeys -> SUBSET Clusters]
    BY <1>6, <2>1 DEF BeginDeploy, Erased, TypeOK
  <2>3. CASE PatchesRejected /\ ReturnError(w)
    <3>1. faults' \in 0 .. MaxFaults
      BY <2>3, FaultsType DEF PatchesRejected, TypeOK
    <3> QED BY <1>6, <2>1, <2>2, <2>3, <3>1, ReturnType
            DEF BeginDeploy, ReturnError, TypeOK
  <2>4. CASE /\ task' = [task EXCEPT ![w] = Task("deploying", task[w].item, task[w].seen,
                                                  task[w].seen, 1, config)]
             /\ mux' = w
             /\ UNCHANGED <<queue, faults>>
    <3>1. Task("deploying", task[w].item, task[w].seen, task[w].seen, 1, config)
            \in TaskStates
      BY <2>1, FirstStep DEF TaskStates, Task, TypeOK
    <3> QED BY <1>6, <2>2, <2>4, <3>1 DEF BeginDeploy, TypeOK
  <2> QED BY <1>6, <2>3, <2>4 DEF BeginDeploy
<1>7. ASSUME NEW w \in Kinds, DeployNext(w) PROVE TypeOK'
  <2>1. /\ task[w].item \in Clusters
        /\ task[w].seen \in Shards
        /\ task[w].shard \in Shards
        /\ task[w].patches \in Configs
        /\ task[w].pc = "deploying"
        /\ task[w].step + 1 \in 1 .. NumComponents + 1
    BY <1>7, TaskFields, NextStep DEF DeployNext, TypeOK
  <2>2. Task(task[w].pc, task[w].item, task[w].seen, task[w].shard, task[w].step + 1,
             task[w].patches) \in TaskStates
    BY <2>1 DEF TaskStates, Task
  <2>3. deployment' \in [Shards -> [Component -> Configs \cup {None}]]
    BY <1>7, <2>1 DEF DeployNext, ApplySucceeds, Applied, TypeOK
  <2> QED BY <1>7, <2>2, <2>3 DEF DeployNext, ApplySucceeds, TypeOK
<1>8. ASSUME NEW w \in Kinds, DeployFails(w) PROVE TypeOK'
  <2>1. /\ task[w].item \in Clusters
        /\ task[w].shard \in Shards
        /\ task[w].patches \in Configs
    BY <1>8, TaskFields DEF DeployFails, TypeOK
  <2>2. /\ deployment' \in [Shards -> [Component -> Configs \cup {None}]]
        /\ faults' \in 0 .. MaxFaults
    BY <1>8, <2>1, FaultsType DEF DeployFails, ApplyFails, Applied, TypeOK
  <2> QED BY <1>8, <2>1, <2>2, ReturnType DEF DeployFails, ReturnError, TypeOK
<1>9. ASSUME NEW w \in Kinds, Commit(w) PROVE TypeOK'
  <2>1. task[w].item \in Clusters /\ task[w].shard \in ShardKeys
    BY <1>9, TaskFields DEF Commit, TypeOK, ShardKeys
  <2>2. /\ shardMap' \in [ShardKeys -> SUBSET Clusters]
        /\ clusterMap' \in [Clusters -> ShardKeys \cup {None}]
    BY <1>9, <2>1 DEF Commit, TypeOK
  <2> QED BY <1>9, <2>2, ReturnType DEF Commit, ReturnNil, TypeOK
<1>10. ASSUME NEW w \in Kinds, UndeployNext(w) PROVE TypeOK'
  <2>1. /\ task[w].item \in Clusters
        /\ task[w].pc = "retiring" => task[w].seen \in ShardKeys
        /\ task[w].pc = "stopping" => task[w].seen = None
        /\ task[w].shard \in Shards
        /\ task[w].patches = None
        /\ task[w].pc \in {"retiring", "stopping"}
        /\ task[w].step + 1 \in 1 .. NumComponents + 1
    BY <1>10, TaskFields, NextStep DEF UndeployNext, TypeOK
  <2>2. Task(task[w].pc, task[w].item, task[w].seen, task[w].shard, task[w].step + 1,
             task[w].patches) \in TaskStates
    BY <2>1 DEF TaskStates, Task
  <2>3. deployment' \in [Shards -> [Component -> Configs \cup {None}]]
    BY <1>10, <2>1 DEF UndeployNext, Deleted, TypeOK
  <2> QED BY <1>10, <2>2, <2>3 DEF UndeployNext, TypeOK
<1>11. ASSUME NEW w \in Kinds, UndeployFails(w) PROVE TypeOK'
  <2>1. task[w].item \in Clusters /\ task[w].shard \in Shards
    BY <1>11, TaskFields DEF UndeployFails, TypeOK
  <2>2. /\ deployment' \in [Shards -> [Component -> Configs \cup {None}]]
        /\ faults' \in 0 .. MaxFaults
    BY <1>11, <2>1, FaultsType DEF UndeployFails, Deleted, TypeOK
  <2> QED BY <1>11, <2>1, <2>2, ReturnType DEF UndeployFails, ReturnError, TypeOK
<1>12. ASSUME NEW w \in Kinds, StopTracking(w) PROVE TypeOK'
  <2>1. task[w].item \in Clusters
    BY <1>12, TaskFields DEF StopTracking, MayLock, TypeOK
  <2>2. /\ shardMap' \in [ShardKeys -> SUBSET Clusters]
        /\ clusterMap' \in [Clusters -> ShardKeys \cup {None}]
    BY <1>12, <2>1 DEF StopTracking, Erased, TypeOK
  <2>3. CASE ReturnNil(w)
    BY <1>12, <2>2, <2>3, ReturnType DEF StopTracking, ReturnNil, TypeOK
  <2>4. CASE /\ LastOfShard(task[w].item)
             /\ mux' = w
             /\ task' = [task EXCEPT ![w] = Task("stopping", task[w].item, None,
                                                  OldShard(task[w].item), 1, None)]
             /\ UNCHANGED queue
    <3>1. Task("stopping", task[w].item, None, OldShard(task[w].item), 1, None)
            \in TaskStates
      BY <2>1, <2>4, FirstStep DEF LastOfShard, TaskStates, Task
    <3> QED BY <1>12, <2>2, <2>4, <3>1 DEF StopTracking, TypeOK
  <2> QED BY <1>12, <2>3, <2>4 DEF StopTracking
<1>13. ASSUME NEW w \in Kinds, Stopped(w) PROVE TypeOK'
  BY <1>13, ReturnType DEF Stopped, ReturnNil, TypeOK
<1>14. ASSUME ListActiveShards PROVE TypeOK'
  <2>1. redeploy' \in RedeployStates
    BY <1>14 DEF ListActiveShards, ActiveShards, RedeployStates, Round
  <2> QED BY <1>14, <2>1 DEF ListActiveShards, TypeOK
<1>15. ASSUME NEW s \in Shards, BeginRedeploy(s) PROVE TypeOK'
  <2>1. CASE PatchesRejected /\ RedeployError
    <3>1. faults' \in 0 .. MaxFaults
      BY <2>1, FaultsType DEF PatchesRejected, TypeOK
    <3>2. redeploy' \in RedeployStates
      BY <2>1 DEF RedeployError, RedeployStates
    <3> QED BY <1>15, <2>1, <3>1, <3>2 DEF BeginRedeploy, RedeployError, TypeOK
  <2>2. CASE /\ redeploy' = Round("deploying", redeploy.todo, s, 1, config)
             /\ UNCHANGED <<configQueued, faults>>
    <3>1. redeploy.todo \in SUBSET Shards
      BY <1>15, RoundFields DEF BeginRedeploy, TypeOK
    <3>2. redeploy' \in RedeployStates
      BY <2>2, <3>1, FirstStep DEF RedeployStates, Round, TypeOK
    <3> QED BY <1>15, <2>2, <3>2 DEF BeginRedeploy, TypeOK
  <2> QED BY <1>15, <2>1, <2>2 DEF BeginRedeploy
<1>16. ASSUME RedeployNext PROVE TypeOK'
  <2>1. /\ redeploy.todo \in SUBSET Shards
        /\ redeploy.shard \in Shards
        /\ redeploy.patches \in Configs
        /\ redeploy.step + 1 \in 1 .. NumComponents + 1
    BY <1>16, RoundFields, NextStep DEF RedeployNext, TypeOK
  <2>2. redeploy' \in RedeployStates
    BY <1>16, <2>1 DEF RedeployNext, RedeployStates, Round
  <2>3. deployment' \in [Shards -> [Component -> Configs \cup {None}]]
    BY <1>16, <2>1 DEF RedeployNext, ApplySucceeds, Applied, TypeOK
  <2> QED BY <1>16, <2>2, <2>3 DEF RedeployNext, ApplySucceeds, TypeOK
<1>17. ASSUME RedeployFails PROVE TypeOK'
  <2>1. redeploy.shard \in Shards /\ redeploy.patches \in Configs
    BY <1>17, RoundFields DEF RedeployFails, TypeOK
  <2>2. /\ deployment' \in [Shards -> [Component -> Configs \cup {None}]]
        /\ faults' \in 0 .. MaxFaults
    BY <1>17, <2>1, FaultsType DEF RedeployFails, ApplyFails, Applied, TypeOK
  <2>3. redeploy' \in RedeployStates
    BY <1>17 DEF RedeployFails, RedeployError, RedeployStates
  <2> QED BY <1>17, <2>2, <2>3 DEF RedeployFails, RedeployError, TypeOK
<1>18. ASSUME RedeployedShard PROVE TypeOK'
  <2>1. redeploy' \in RedeployStates
    BY <1>18, RoundFields DEF RedeployedShard, RedeployStates, Round, TypeOK
  <2> QED BY <1>18, <2>1 DEF RedeployedShard, TypeOK
<1>19. ASSUME EndRedeploy PROVE TypeOK'
  <2>1. redeploy' \in RedeployStates
    BY <1>19 DEF EndRedeploy, RedeployStates
  <2> QED BY <1>19, <2>1 DEF EndRedeploy, TypeOK
<1>20. ASSUME NEW c \in Clusters, NEW v \in ShardKeys \cup {None}, ChangeCluster(c, v)
       PROVE  TypeOK'
  BY <1>20, ChangesType DEF ChangeCluster, TypeOK
<1>21. ASSUME NEW p \in Configs, ChangeConfig(p) PROVE TypeOK'
  BY <1>21, ChangesType DEF ChangeConfig, TypeOK
<1>22. ASSUME Resync PROVE TypeOK'
  <2>1. configQueued' \in BOOLEAN
    BY <1>22, Zenon DEF Resync, TypeOK
  <2> QED BY <1>22, <2>1 DEF Resync, Live, TypeOK
<1>23. ASSUME Restart PROVE TypeOK'
  <2>1. configQueued' \in BOOLEAN
    BY <1>23, Zenon DEF Restart, Reboot
  <2>2. task' \in [Kinds -> TaskStates] /\ redeploy' \in RedeployStates
    BY <1>23 DEF Restart, Reboot, TaskStates, RedeployStates
  <2> QED BY <1>23, <2>1, <2>2, FaultsType DEF Restart, Reboot, Live, TypeOK
<1>24. ASSUME UNCHANGED vars PROVE TypeOK'
  BY <1>24 DEF vars, TypeOK
<1> QED
  BY <1>1, <1>2, <1>3, <1>4, <1>5, <1>6, <1>7, <1>8, <1>9, <1>10, <1>11, <1>12, <1>13,
     <1>14, <1>15, <1>16, <1>17, <1>18, <1>19, <1>20, <1>21, <1>22, <1>23, <1>24
  DEF Next, LockStep, HoldStep, RedeployStep, UserStep

\* Every variable keeps its type in every behavior, whatever the goroutines of
\* utils.go do and whichever calls fail.
THEOREM TypeCorrect == Spec => []TypeOK
<1> QED BY InitTypeOK, StepTypeOK, PTL DEF Spec

-----------------------------------------------------------------------------
(* The mutex, and what its holder knows.                                    *)

\* The inductive invariant holds when the process starts: nothing is tracked, and
\* every cluster that exists is queued.
LEMMA InitIndInv == Init => IndInv
<1> SUFFICES ASSUME Init PROVE IndInv
  OBVIOUS
<1>1. TypeOK
  BY InitTypeOK
<1>2. \A w \in Kinds : task[w] = Idle
  BY DEF Init
<1>3. HoldInv
  BY <1>2, ConstantsAssumption
  DEF Init, HoldInv, MutexHeld, OwnClusters, RetiringLast, StoppingLast, DeployingFirst,
      Idle, Task
<1>4. MembersTracked
  BY DEF Init, MembersTracked
<1>5. NoLostChange
  BY DEF Init, NoLostChange, Live
<1>7. SeenOrQueued
  BY <1>2 DEF SeenOrQueued, Idle, Task
<1>6. PatchesFollow
  BY <1>2 DEF Init, PatchesFollow, Idle, Task, Resting, Round
<1> QED BY <1>1, <1>3, <1>4, <1>5, <1>6, <1>7 DEF IndInv

\* While the mutex is free or held by w, no other reconciler is deploying or
\* undeploying.
LEMMA OthersWait ==
  ASSUME MutexHeld, NEW w \in Kinds, mux \in {None, w}, NEW v \in Kinds, v # w
  PROVE  task[v].pc \notin {"retiring", "stopping", "deploying"}
  BY ConstantsAssumption DEF MutexHeld, Kinds

\* Once a reconciler returns, the mutex is free and nobody deploys or undeploys.
LEMMA ReturnHoldInv ==
  ASSUME TypeOK, MutexHeld, OwnClusters, NEW w \in Kinds, mux \in {None, w}, Return(w)
  PROVE  HoldInv'
<1>1. task'[w] = Idle /\ \A v \in Kinds \ {w} : task'[v] = task[v]
  BY DEF Return, TypeOK
<1>2. \A v \in Kinds : task'[v].pc \notin {"retiring", "stopping", "deploying"}
  BY <1>1, OthersWait DEF Idle, Task
<1>3. MutexHeld'
  BY <1>2, ConstantsAssumption DEF Return, MutexHeld
<1>4. OwnClusters'
  BY <1>1 DEF OwnClusters, Idle, Task
<1> QED BY <1>2, <1>3, <1>4 DEF HoldInv, RetiringLast, StoppingLast, DeployingFirst

\* The mutex is held exactly while a reconciler deploys or undeploys, and what its
\* holder has found in the maps stays true, since the others wait.
LEMMA StepHoldInv ==
  ASSUME TypeOK, HoldInv, MembersTracked, [Next]_vars
  PROVE  HoldInv'
<1> USE DEF users, maps, configRec
<1>1. ASSUME NEW w \in Kinds, NEW c \in Clusters, Fetch(w, c) PROVE HoldInv'
  <2>1. /\ task'[w].pc = "fetched" /\ task'[w].item = c
        /\ \A v \in Kinds \ {w} : task'[v] = task[v]
    BY <1>1 DEF Fetch, Task, TypeOK
  <2>2. MutexHeld'
    BY <1>1, <2>1 DEF Fetch, HoldInv, MutexHeld
  <2>3. OwnClusters'
    BY <1>1, <2>1 DEF Fetch, HoldInv, OwnClusters
  <2>4. RetiringLast' /\ StoppingLast'
    BY <1>1, <2>1 DEF Fetch, HoldInv, RetiringLast, StoppingLast
  <2>5. DeployingFirst'
    BY <1>1, <2>1 DEF Fetch, HoldInv, DeployingFirst
  <2> QED BY <2>2, <2>3, <2>4, <2>5 DEF HoldInv
<1>2. ASSUME NEW w \in Kinds, TrackUnchanged(w) PROVE HoldInv'
  BY <1>2, ReturnHoldInv DEF TrackUnchanged, MayLock, ReturnNil, HoldInv
<1>3. ASSUME NEW w \in Kinds, BeginRetire(w) PROVE HoldInv'
  BY <1>3, TaskFields, ConstantsAssumption
  DEF BeginRetire, MayLock, ShardChanged, LastOfShard, OldShard, Task, TypeOK,
      HoldInv, MutexHeld, OwnClusters, RetiringLast, StoppingLast, DeployingFirst
<1>4. ASSUME NEW w \in Kinds, MayMove(w) PROVE mux \in {None, w}
  BY <1>4 DEF MayMove, MayLock, HoldInv, MutexHeld
<1>5. ASSUME NEW w \in Kinds, Join(w) PROVE HoldInv'
  BY <1>4, <1>5, ReturnHoldInv DEF Join, ReturnNil, HoldInv
<1>6. ASSUME NEW w \in Kinds, BeginDeploy(w) PROVE HoldInv'
  <2> DEFINE c == task[w].item
             s == task[w].seen
  <2>1. mux \in {None, w}
    BY <1>4, <1>6 DEF BeginDeploy
  <2>2. CASE ReturnError(w)
    BY <2>1, <2>2, ReturnHoldInv DEF ReturnError, HoldInv
  <2>3. CASE task' = [task EXCEPT ![w] = Task("deploying", c, s, s, 1, config)] /\ mux' = w
    <3>1. /\ task'[w].pc = "deploying" /\ task'[w].item = c /\ task'[w].seen = s
          /\ task'[w].shard = s /\ task'[w].step = 1
          /\ \A v \in Kinds \ {w} : task'[v] = task[v]
      BY <2>3 DEF Task, TypeOK
    <3>2. \A v \in Kinds \ {w} :
            task'[v].pc \notin {"retiring", "stopping", "deploying"}
      BY <2>1, <3>1, OthersWait DEF HoldInv
    <3>3. c \in Clusters /\ s \in Shards /\ KindOf[c] = w
      BY <1>6, TaskFields
      DEF BeginDeploy, MayMove, MayLock, ShardChanged, NeedsNoDeploy, TypeOK, ShardKeys,
          HoldInv, OwnClusters
    <3>4. /\ shardMap'[s] = {}
          /\ \A x \in ShardKeys : c \notin shardMap'[x]
      <4>1. shardMap' = Erased(c) /\ Erased(c)[s] = {}
        BY <1>6, <3>3, ConstantsAssumption DEF BeginDeploy, NeedsNoDeploy
      <4>2. \A x \in ShardKeys : c \notin shardMap'[x]
        BY <3>3, <4>1, ConstantsAssumption
        DEF Erased, OldShard, MembersTracked, TypeOK, ShardKeys
      <4> QED BY <4>1, <4>2
    <3>5. MutexHeld'
      BY <2>3, <3>1, <3>2 DEF MutexHeld
    <3>6. OwnClusters'
      BY <3>1, <3>3 DEF HoldInv, OwnClusters
    <3>7. DeployingFirst'
      <4>1. \A k \in Component : ~(k < 1)
        BY DEF Component
      <4> QED BY <3>1, <3>2, <3>4, <4>1 DEF DeployingFirst
    <3>8. RetiringLast' /\ StoppingLast'
      BY <3>1, <3>2 DEF RetiringLast, StoppingLast
    <3> QED BY <3>5, <3>6, <3>7, <3>8 DEF HoldInv
  <2> QED BY <1>6, <2>2, <2>3 DEF BeginDeploy
<1>7. ASSUME NEW w \in Kinds, DeployNext(w) PROVE HoldInv'
  <2> DEFINE t == task[w]
  <2>1. /\ t.shard \in Shards /\ t.patches \in Configs /\ t.step \in Component
        /\ t.pc = "deploying" /\ mux = w
    BY <1>7, TaskFields DEF DeployNext, TypeOK, HoldInv, MutexHeld
  <2>2. /\ task'[w].pc = t.pc /\ task'[w].item = t.item /\ task'[w].seen = t.seen
        /\ task'[w].shard = t.shard /\ task'[w].step = t.step + 1
        /\ \A v \in Kinds \ {w} : task'[v] = task[v]
    BY <1>7 DEF DeployNext, Task, TypeOK
  <2>3. MutexHeld' /\ OwnClusters'
    BY <1>7, <2>2 DEF DeployNext, HoldInv, MutexHeld, OwnClusters
  <2>4. \A v \in Kinds \ {w} : task'[v].pc \notin {"retiring", "stopping", "deploying"}
    BY <2>1, <2>2, OthersWait DEF HoldInv
  <2>5. DeployingFirst'
    <3>1. \A k \in Component : k < t.step + 1 => k < t.step \/ k = t.step
      BY <2>1 DEF Component
    <3>2. \A k \in Component : k < t.step => deployment[t.shard][k] # None
      BY <2>1 DEF HoldInv, DeployingFirst
    <3>3. \A k \in Component : k < t.step + 1 => deployment'[t.shard][k] # None
      BY <1>7, <2>1, <3>1, <3>2, ConstantsAssumption
      DEF DeployNext, ApplySucceeds, Applied, TypeOK
    <3>4. shardMap' = shardMap
      BY <1>7 DEF DeployNext
    <3> QED BY <2>1, <2>2, <2>4, <3>3, <3>4 DEF HoldInv, DeployingFirst
  <2>6. RetiringLast' /\ StoppingLast'
    BY <2>1, <2>2, <2>4 DEF RetiringLast, StoppingLast
  <2> QED BY <2>3, <2>5, <2>6 DEF HoldInv
<1>8. ASSUME NEW w \in Kinds, task[w].pc \in {"retiring", "stopping", "deploying"}
      PROVE  mux = w
  BY <1>8 DEF HoldInv, MutexHeld
<1>9. ASSUME NEW w \in Kinds, DeployFails(w) PROVE HoldInv'
  BY <1>8, <1>9, ReturnHoldInv DEF DeployFails, ReturnError, HoldInv
<1>10. ASSUME NEW w \in Kinds, Commit(w) PROVE HoldInv'
  BY <1>8, <1>10, ReturnHoldInv DEF Commit, ReturnNil, HoldInv
<1>11. ASSUME NEW w \in Kinds, UndeployNext(w) PROVE HoldInv'
  <2> DEFINE t == task[w]
  <2>1. t.pc \in {"retiring", "stopping"} /\ mux = w
    BY <1>8, <1>11 DEF UndeployNext
  <2>2. /\ task'[w].pc = t.pc /\ task'[w].item = t.item /\ task'[w].seen = t.seen
        /\ task'[w].shard = t.shard
        /\ \A v \in Kinds \ {w} : task'[v] = task[v]
    BY <1>11 DEF UndeployNext, Task, TypeOK
  <2>3. MutexHeld' /\ OwnClusters'
    BY <1>11, <2>2 DEF UndeployNext, HoldInv, MutexHeld, OwnClusters
  <2>4. \A v \in Kinds \ {w} : task'[v].pc \notin {"retiring", "stopping", "deploying"}
    BY <2>1, <2>2, OthersWait DEF HoldInv
  <2>5. RetiringLast' /\ StoppingLast'
    <3>1. UNCHANGED <<clusterMap, shardMap>>
      BY <1>11 DEF UndeployNext
    <3>2. RetiringLast'
      BY <2>2, <2>4, <3>1 DEF HoldInv, RetiringLast
    <3>3. StoppingLast'
      BY <2>2, <2>4, <3>1 DEF HoldInv, StoppingLast
    <3> QED BY <3>2, <3>3
  <2>6. DeployingFirst'
    BY <2>1, <2>2, <2>4 DEF DeployingFirst
  <2> QED BY <2>3, <2>5, <2>6 DEF HoldInv
<1>12. ASSUME NEW w \in Kinds, UndeployFails(w) PROVE HoldInv'
  BY <1>8, <1>12, ReturnHoldInv DEF UndeployFails, ReturnError, HoldInv
<1>13. ASSUME NEW w \in Kinds, StopTracking(w) PROVE HoldInv'
  <2> DEFINE c == task[w].item
  <2>1. mux = None
    BY <1>13 DEF StopTracking, MayLock
  <2>2. CASE ReturnNil(w)
    BY <2>1, <2>2, ReturnHoldInv DEF ReturnNil, HoldInv
  <2>3. CASE /\ LastOfShard(c)
             /\ mux' = w
             /\ task' = [task EXCEPT ![w] = Task("stopping", c, None, OldShard(c), 1, None)]
    <3>1. /\ task'[w].pc = "stopping" /\ task'[w].item = c /\ task'[w].shard = OldShard(c)
          /\ \A v \in Kinds \ {w} : task'[v] = task[v]
      BY <2>3 DEF Task, TypeOK
    <3>2. \A v \in Kinds \ {w} :
            task'[v].pc \notin {"retiring", "stopping", "deploying"}
      BY <2>1, <3>1, OthersWait DEF HoldInv
    <3>3. c \in Clusters /\ KindOf[c] = w
      BY <1>13, TaskFields DEF StopTracking, MayLock, TypeOK, HoldInv, OwnClusters
    <3>4. clusterMap'[c] = None /\ shardMap'[OldShard(c)] = {}
      BY <1>13, <2>3, <3>3 DEF StopTracking, LastOfShard, Erased, TypeOK, ShardKeys
    <3>5. MutexHeld'
      BY <2>3, <3>1, <3>2 DEF MutexHeld
    <3>6. OwnClusters'
      BY <3>1, <3>3 DEF HoldInv, OwnClusters
    <3>7. RetiringLast' /\ StoppingLast' /\ DeployingFirst'
      BY <3>1, <3>2, <3>4 DEF RetiringLast, StoppingLast, DeployingFirst
    <3> QED BY <3>5, <3>6, <3>7 DEF HoldInv
  <2> QED BY <1>13, <2>2, <2>3 DEF StopTracking
<1>14. ASSUME NEW w \in Kinds, Stopped(w) PROVE HoldInv'
  BY <1>8, <1>14, ReturnHoldInv DEF Stopped, ReturnNil, HoldInv
<1>15. ASSUME UNCHANGED <<maps, mux, task>>,
              \A s \in Shards, k \in Component :
                deployment[s][k] # None => deployment'[s][k] # None
       PROVE  HoldInv'
  <2>1. MutexHeld' /\ OwnClusters' /\ RetiringLast' /\ StoppingLast'
    BY <1>15 DEF HoldInv, MutexHeld, OwnClusters, RetiringLast, StoppingLast
  <2>2. DeployingFirst'
    BY <1>15, TaskFields DEF HoldInv, DeployingFirst, TypeOK
  <2> QED BY <2>1, <2>2 DEF HoldInv
<1>16. ASSUME NEW w \in Kinds, NEW c \in Clusters, FetchFails(w, c) PROVE HoldInv'
  BY <1>15, <1>16 DEF FetchFails
<1>17. ASSUME ListActiveShards \/ \E s \in Shards : BeginRedeploy(s) PROVE HoldInv'
  BY <1>15, <1>17 DEF ListActiveShards, BeginRedeploy
<1>18. ASSUME NEW s \in Shards, NEW k \in Component, NEW p \in Configs,
              deployment' = Applied(s, k, p)
       PROVE  \A x \in Shards, j \in Component :
                deployment[x][j] # None => deployment'[x][j] # None
  BY <1>18, ConstantsAssumption DEF Applied, TypeOK
<1>19. ASSUME RedeployNext \/ RedeployFails PROVE HoldInv'
  <2>1. /\ redeploy.shard \in Shards /\ redeploy.patches \in Configs
        /\ redeploy.step \in Component
    BY <1>19, RoundFields DEF RedeployNext, RedeployFails, TypeOK
  <2>2. deployment' = deployment
          \/ deployment' = Applied(redeploy.shard, redeploy.step, redeploy.patches)
    BY <1>19 DEF RedeployNext, RedeployFails, ApplySucceeds, ApplyFails
  <2>3. \A s \in Shards, k \in Component :
          deployment[s][k] # None => deployment'[s][k] # None
    BY <1>18, <2>1, <2>2
  <2> QED BY <1>15, <1>19, <2>3 DEF RedeployNext, RedeployFails
<1>20. ASSUME RedeployedShard \/ EndRedeploy PROVE HoldInv'
  BY <1>15, <1>20 DEF RedeployedShard, EndRedeploy
<1>21. ASSUME UserStep \/ Resync PROVE HoldInv'
  BY <1>15, <1>21 DEF UserStep, ChangeCluster, ChangeConfig, Resync
<1>22. ASSUME Restart PROVE HoldInv'
  BY <1>22, ConstantsAssumption
  DEF Restart, Reboot, HoldInv, MutexHeld, OwnClusters, RetiringLast, StoppingLast,
      DeployingFirst, Idle, Task
<1>23. ASSUME UNCHANGED vars PROVE HoldInv'
  BY <1>15, <1>23 DEF vars
<1> QED
  BY <1>1, <1>2, <1>3, <1>5, <1>6, <1>7, <1>9, <1>10, <1>11, <1>12, <1>13, <1>14, <1>16,
     <1>17, <1>19, <1>20, <1>21, <1>22, <1>23
  DEF Next, LockStep, HoldStep, RedeployStep

-----------------------------------------------------------------------------
(* The two maps.                                                            *)

\* Erasing a cluster takes it out of every set, since it can only be in the one
\* of its recorded shard.
LEMMA ErasedEverywhere ==
  ASSUME TypeOK, MembersTracked, NEW c \in Clusters
  PROVE  /\ Erased(c) \in [ShardKeys -> SUBSET Clusters]
         /\ \A s \in ShardKeys : Erased(c)[s] = shardMap[s] \ {c}
<1>1. OldShard(c) \in ShardKeys
  BY DEF OldShard, TypeOK, ShardKeys
<1>2. \A s \in ShardKeys : s # OldShard(c) => c \notin shardMap[s]
  BY ConstantsAssumption DEF OldShard, MembersTracked, TypeOK, ShardKeys
<1> QED BY <1>1, <1>2 DEF Erased, TypeOK

\* What the steps that write the maps do to them: a cluster that joins a shard is
\* in the set of that shard only.
LEMMA JoinMaps ==
  ASSUME TypeOK, MembersTracked, NEW w \in Kinds, Join(w)
  PROVE  /\ task[w].item \in Clusters /\ task[w].seen \in ShardKeys
         /\ shardMap' = [s \in ShardKeys |->
                           IF s = task[w].seen THEN shardMap[s] \cup {task[w].item}
                                               ELSE shardMap[s] \ {task[w].item}]
         /\ clusterMap' = [clusterMap EXCEPT ![task[w].item] = task[w].seen]
<1>1. task[w].item \in Clusters /\ task[w].seen \in ShardKeys
  BY TaskFields DEF Join, MayMove, MayLock, ShardChanged, TypeOK
<1> QED BY <1>1, ErasedEverywhere DEF Join

\* The first cluster of a shard is out of every set while the shard is deployed.
LEMMA BeginDeployMaps ==
  ASSUME TypeOK, MembersTracked, NEW w \in Kinds, BeginDeploy(w)
  PROVE  /\ task[w].item \in Clusters
         /\ shardMap' = [s \in ShardKeys |-> shardMap[s] \ {task[w].item}]
         /\ clusterMap' = clusterMap
<1>1. task[w].item \in Clusters
  BY TaskFields DEF BeginDeploy, MayMove, MayLock, TypeOK
<1> QED BY <1>1, ErasedEverywhere DEF BeginDeploy

\* A deleted cluster is out of every set, and out of clusterMap.
LEMMA StopTrackingMaps ==
  ASSUME TypeOK, MembersTracked, NEW w \in Kinds, StopTracking(w)
  PROVE  /\ task[w].item \in Clusters
         /\ shardMap' = [s \in ShardKeys |-> shardMap[s] \ {task[w].item}]
         /\ clusterMap' = [clusterMap EXCEPT ![task[w].item] = None]
<1>1. task[w].item \in Clusters
  BY TaskFields DEF StopTracking, MayLock, TypeOK
<1> QED BY <1>1, ErasedEverywhere DEF StopTracking

\* The first cluster of a shard joins it, and is in no other set.
LEMMA CommitMaps ==
  ASSUME TypeOK, HoldInv, NEW w \in Kinds, Commit(w)
  PROVE  /\ task[w].item \in Clusters /\ task[w].shard \in Shards
         /\ shardMap' = [s \in ShardKeys |->
                           IF s = task[w].shard THEN shardMap[s] \cup {task[w].item}
                                                ELSE shardMap[s] \ {task[w].item}]
         /\ clusterMap' = [clusterMap EXCEPT ![task[w].item] = task[w].shard]
<1>1. task[w].item \in Clusters /\ task[w].shard \in Shards
  BY TaskFields DEF Commit, TypeOK
<1>2. \A s \in ShardKeys : task[w].item \notin shardMap[s]
  BY DEF Commit, HoldInv, DeployingFirst
<1>3. shardMap' \in [ShardKeys -> SUBSET Clusters]
  BY <1>1 DEF Commit, TypeOK
<1>4. ASSUME NEW s \in ShardKeys
      PROVE  shardMap'[s] = IF s = task[w].shard THEN shardMap[s] \cup {task[w].item}
                                                 ELSE shardMap[s] \ {task[w].item}
  <2>1. shardMap[s] \ {task[w].item} = shardMap[s]
    BY <1>2
  <2>2. shardMap'[s] = IF s = task[w].shard THEN shardMap[s] \cup {task[w].item}
                                            ELSE shardMap[s]
    BY <1>1 DEF Commit, TypeOK, ShardKeys
  <2> QED BY <2>1, <2>2
<1> QED BY <1>1, <1>3, <1>4 DEF Commit

\* All the other steps leave the maps alone, or lose them.
LEMMA OtherMaps ==
  ASSUME [Next]_vars
  PROVE  \/ \E w \in Kinds : Join(w) \/ BeginDeploy(w) \/ StopTracking(w) \/ Commit(w)
         \/ Restart
         \/ UNCHANGED maps
<1> USE DEF maps
<1>1. ASSUME NEW w \in Kinds, NEW c \in Clusters, Fetch(w, c) \/ FetchFails(w, c)
      PROVE  UNCHANGED maps
  BY <1>1 DEF Fetch, FetchFails
<1>2. ASSUME NEW w \in Kinds, TrackUnchanged(w) \/ BeginRetire(w) PROVE UNCHANGED maps
  BY <1>2 DEF TrackUnchanged, BeginRetire
<1>3. ASSUME NEW w \in Kinds,
             DeployNext(w) \/ DeployFails(w) \/ UndeployNext(w) \/ UndeployFails(w)
               \/ Stopped(w)
      PROVE  UNCHANGED maps
  BY <1>3 DEF DeployNext, DeployFails, UndeployNext, UndeployFails, Stopped
<1>4. ASSUME ListActiveShards \/ RedeployStep PROVE UNCHANGED maps
  BY <1>4 DEF ListActiveShards, RedeployStep, BeginRedeploy, RedeployNext, RedeployFails,
              RedeployedShard, EndRedeploy
<1>5. ASSUME UserStep \/ Resync PROVE UNCHANGED maps
  BY <1>5 DEF UserStep, ChangeCluster, ChangeConfig, Resync
<1>6. ASSUME UNCHANGED vars PROVE UNCHANGED maps
  BY <1>6 DEF vars
<1> QED BY <1>1, <1>2, <1>3, <1>4, <1>5, <1>6 DEF Next, LockStep, HoldStep

\* Every step keeps the sets of shardMap within what clusterMap records.
LEMMA StepMembersTracked ==
  ASSUME TypeOK, HoldInv, MembersTracked, [Next]_vars
  PROVE  MembersTracked'
<1>1. ASSUME NEW w \in Kinds, Join(w) PROVE MembersTracked'
  BY <1>1, JoinMaps DEF MembersTracked, TypeOK
<1>2. ASSUME NEW w \in Kinds, BeginDeploy(w) PROVE MembersTracked'
  BY <1>2, BeginDeployMaps DEF MembersTracked
<1>3. ASSUME NEW w \in Kinds, StopTracking(w) PROVE MembersTracked'
  BY <1>3, StopTrackingMaps DEF MembersTracked, TypeOK
<1>4. ASSUME NEW w \in Kinds, Commit(w) PROVE MembersTracked'
  BY <1>4, CommitMaps DEF MembersTracked, TypeOK
<1>5. ASSUME Restart PROVE MembersTracked'
  BY <1>5 DEF Restart, Reboot, MembersTracked
<1>6. ASSUME UNCHANGED maps PROVE MembersTracked'
  BY <1>6 DEF maps, MembersTracked
<1> QED BY <1>1, <1>2, <1>3, <1>4, <1>5, <1>6, OtherMaps

-----------------------------------------------------------------------------
(* No change of a cluster is lost.                                          *)

\* A reconciler works on the current annotation, or its cluster is queued again.
LEMMA StepSeenOrQueued ==
  ASSUME TypeOK, HoldInv, SeenOrQueued, [Next]_vars
  PROVE  SeenOrQueued'
<1> USE DEF users, maps, configRec
<1>1. ASSUME NEW w \in Kinds, NEW c \in Clusters, Fetch(w, c) PROVE SeenOrQueued'
  BY <1>1, TaskFields DEF Fetch, SeenOrQueued, HoldInv, OwnClusters, Task, TypeOK
<1>2. ASSUME NEW w \in Kinds, UNCHANGED object, queue \subseteq queue', Return(w)
      PROVE  SeenOrQueued'
  BY <1>2 DEF Return, SeenOrQueued, Idle, Task, TypeOK
<1>3. ASSUME NEW w \in Kinds, TrackUnchanged(w) \/ Join(w) \/ Commit(w) \/ Stopped(w)
      PROVE  SeenOrQueued'
  BY <1>2, <1>3 DEF TrackUnchanged, Join, Commit, Stopped, ReturnNil
<1>4. ASSUME NEW w \in Kinds, DeployFails(w) \/ UndeployFails(w) PROVE SeenOrQueued'
  BY <1>2, <1>4 DEF DeployFails, UndeployFails, ReturnError
<1>5. ASSUME NEW w \in Kinds,
             BeginRetire(w) \/ DeployNext(w) \/ UndeployNext(w)
      PROVE  SeenOrQueued'
  BY <1>5 DEF BeginRetire, MayLock, DeployNext, UndeployNext, SeenOrQueued, Task, TypeOK
<1>6. ASSUME NEW w \in Kinds, BeginDeploy(w) PROVE SeenOrQueued'
  <2>1. CASE ReturnError(w)
    BY <1>2, <1>6, <2>1 DEF BeginDeploy, ReturnError
  <2>2. CASE ~ReturnError(w)
    BY <1>6, <2>2 DEF BeginDeploy, MayMove, MayLock, SeenOrQueued, Task, TypeOK
  <2> QED BY <2>1, <2>2
<1>7. ASSUME NEW w \in Kinds, StopTracking(w) PROVE SeenOrQueued'
  <2>1. CASE ReturnNil(w)
    BY <1>2, <1>7, <2>1 DEF StopTracking, ReturnNil
  <2>2. CASE ~ReturnNil(w)
    BY <1>7, <2>2 DEF StopTracking, MayLock, SeenOrQueued, Task, TypeOK
  <2> QED BY <2>1, <2>2
<1>8. ASSUME UNCHANGED <<object, task>>, queue \subseteq queue' PROVE SeenOrQueued'
  BY <1>8 DEF SeenOrQueued
<1>9. ASSUME NEW w \in Kinds, NEW c \in Clusters, FetchFails(w, c) PROVE SeenOrQueued'
  BY <1>8, <1>9 DEF FetchFails
<1>10. ASSUME ListActiveShards \/ RedeployStep PROVE SeenOrQueued'
  BY <1>8, <1>10
  DEF ListActiveShards, RedeployStep, BeginRedeploy, RedeployNext, RedeployFails,
      RedeployedShard, EndRedeploy
<1>11. ASSUME NEW c \in Clusters, NEW v \in ShardKeys \cup {None}, ChangeCluster(c, v)
       PROVE  SeenOrQueued'
  BY <1>11 DEF ChangeCluster, SeenOrQueued, TypeOK
<1>12. ASSUME NEW p \in Configs, ChangeConfig(p) PROVE SeenOrQueued'
  BY <1>8, <1>12 DEF ChangeConfig
<1>13. ASSUME Resync PROVE SeenOrQueued'
  BY <1>8, <1>13 DEF Resync
<1>14. ASSUME Restart PROVE SeenOrQueued'
  BY <1>14 DEF Restart, Reboot, SeenOrQueued, Idle, Task
<1>15. ASSUME UNCHANGED vars PROVE SeenOrQueued'
  BY <1>8, <1>15 DEF vars
<1> QED
  BY <1>1, <1>3, <1>4, <1>5, <1>6, <1>7, <1>9, <1>10, <1>11, <1>12, <1>13, <1>14, <1>15
  DEF Next, LockStep, HoldStep, UserStep

\* A reconcile that does not fail either records the annotation it has read or
\* finds it recorded.
LEMMA StepNoLostChange ==
  ASSUME TypeOK, HoldInv, MembersTracked, SeenOrQueued, NoLostChange, [Next]_vars
  PROVE  NoLostChange'
<1> USE DEF users, maps, configRec
<1>1. ASSUME NEW w \in Kinds, NEW d \in Clusters, Fetch(w, d) PROVE NoLostChange'
  BY <1>1, TaskFields, ConstantsAssumption
  DEF Fetch, NoLostChange, Handling, Task, Idle, TypeOK
<1>2. ASSUME NEW w \in Kinds, TrackUnchanged(w) PROVE NoLostChange'
  BY <1>2, TaskFields
  DEF TrackUnchanged, MayLock, ShardChanged, ReturnNil, Return, NoLostChange, Handling, TypeOK
<1>3. ASSUME NEW w \in Kinds, BeginRetire(w) PROVE NoLostChange'
  BY <1>3 DEF BeginRetire, NoLostChange, Handling, Task, TypeOK
<1>5. ASSUME NEW w \in Kinds, Join(w) PROVE NoLostChange'
  <2>1. task[w].seen = object[task[w].item] \/ task[w].item \in queue
    BY <1>5 DEF Join, MayMove, MayLock, SeenOrQueued
  <2> QED BY <1>5, <2>1, JoinMaps DEF Join, ReturnNil, Return, NoLostChange, Handling, TypeOK
<1>6. ASSUME NEW w \in Kinds, BeginDeploy(w) PROVE NoLostChange'
  BY <1>6, BeginDeployMaps
  DEF BeginDeploy, ReturnError, Return, NoLostChange, Handling, Task, TypeOK
<1>7. ASSUME NEW w \in Kinds, DeployNext(w) \/ UndeployNext(w) PROVE NoLostChange'
  BY <1>7 DEF DeployNext, UndeployNext, NoLostChange, Handling, Task, TypeOK
<1>8. ASSUME NEW w \in Kinds, DeployFails(w) \/ UndeployFails(w) PROVE NoLostChange'
  BY <1>8 DEF DeployFails, UndeployFails, ReturnError, Return, NoLostChange, Handling, TypeOK
<1>9. ASSUME NEW w \in Kinds, Commit(w) PROVE NoLostChange'
  <2>1. task[w].seen = object[task[w].item] \/ task[w].item \in queue
    BY <1>9 DEF Commit, SeenOrQueued
  <2>2. task[w].shard = task[w].seen
    BY <1>9 DEF Commit, HoldInv, DeployingFirst
  <2> QED BY <1>9, <2>1, <2>2, CommitMaps
          DEF Commit, ReturnNil, Return, NoLostChange, Handling, TypeOK
<1>10. ASSUME NEW w \in Kinds, StopTracking(w) PROVE NoLostChange'
  <2>1. task[w].seen = None /\ (None = object[task[w].item] \/ task[w].item \in queue)
    BY <1>10 DEF StopTracking, MayLock, SeenOrQueued
  <2>2. queue' = queue /\ object' = object /\ \A v \in Kinds \ {w} : task'[v] = task[v]
    BY <1>10 DEF StopTracking, ReturnNil, Return, TypeOK
  <2> QED BY <2>1, <2>2, <1>10, StopTrackingMaps DEF NoLostChange, Handling, TypeOK
<1>11. ASSUME NEW w \in Kinds, Stopped(w) PROVE NoLostChange'
  BY <1>11, TaskFields
  DEF Stopped, ReturnNil, Return, NoLostChange, Handling, TypeOK, HoldInv, StoppingLast
<1>12. ASSUME UNCHANGED <<object, clusterMap, queue, task>> PROVE NoLostChange'
  BY <1>12 DEF NoLostChange, Handling
<1>13. ASSUME NEW w \in Kinds, NEW d \in Clusters, FetchFails(w, d) PROVE NoLostChange'
  BY <1>12, <1>13 DEF FetchFails
<1>14. ASSUME ListActiveShards \/ RedeployStep PROVE NoLostChange'
  BY <1>12, <1>14
  DEF ListActiveShards, RedeployStep, BeginRedeploy, RedeployNext, RedeployFails,
      RedeployedShard, EndRedeploy
<1>15. ASSUME NEW d \in Clusters, NEW v \in ShardKeys \cup {None}, ChangeCluster(d, v)
       PROVE  NoLostChange'
  BY <1>15 DEF ChangeCluster, NoLostChange, Handling, TypeOK
<1>16. ASSUME NEW p \in Configs, ChangeConfig(p) PROVE NoLostChange'
  BY <1>12, <1>16 DEF ChangeConfig
<1>17. ASSUME Resync PROVE NoLostChange'
  BY <1>17 DEF Resync, NoLostChange, Handling
<1>18. ASSUME Restart PROVE NoLostChange'
  BY <1>18 DEF Restart, Reboot, Live, NoLostChange
<1>19. ASSUME UNCHANGED vars PROVE NoLostChange'
  BY <1>12, <1>19 DEF vars
<1> QED
  BY <1>1, <1>2, <1>3, <1>5, <1>6, <1>7, <1>8, <1>9, <1>10, <1>11, <1>13, <1>14, <1>15,
     <1>16, <1>17, <1>18, <1>19
  DEF Next, LockStep, HoldStep, UserStep

-----------------------------------------------------------------------------
(* Edits of the ConfigMap reach every active shard.                         *)

\* Steps that write no old patches, start no deployment and make no shard active.
LEMMA PatchesFrame ==
  ASSUME PatchesFollow, UNCHANGED <<config, redeploy>>,
         ~configQueued' => ~configQueued,
         \A s \in Shards : shardMap[s] = {} => shardMap'[s] = {},
         \A s \in Shards, k \in Component :
           deployment'[s][k] \in {deployment[s][k], None, config},
         \A w \in Kinds : task'[w].pc = "deploying" =>
           /\ task'[w] = task[w] /\ task[w].shard \in Shards
           /\ \A s \in Shards, k \in Component :
                deployment'[s][k] \in {deployment[s][k], config}
  PROVE  PatchesFollow'
<1> SUFFICES ASSUME ~configQueued' PROVE PatchesFollow'
  BY DEF PatchesFollow
<1>1. ASSUME NEW w \in Kinds, task'[w].pc = "deploying"
      PROVE  /\ task'[w].patches = config'
             /\ \A k \in Component :
                  k < task'[w].step => deployment'[task'[w].shard][k] = config'
  BY <1>1 DEF PatchesFollow
<1>2. redeploy'.pc = "deploying" => redeploy'.patches = config'
  BY DEF PatchesFollow
<1>3. \A s \in Shards, k \in Component : Pending(s, k)' <=> Pending(s, k)
  BY DEF Pending
<1>4. ASSUME NEW s \in Shards, NEW k \in Component
      PROVE  deployment'[s][k] \in {None, config'} \/ shardMap'[s] = {} \/ Pending(s, k)'
  BY <1>3 DEF PatchesFollow
<1> QED BY <1>1, <1>2, <1>4 DEF PatchesFollow

\* An edit of the ConfigMap queues it again, so what was deployed with old patches
\* is listed anew (redeployAllShards) before the reconciler rests.
LEMMA StepPatchesFollow ==
  ASSUME TypeOK, HoldInv, MembersTracked, PatchesFollow, [Next]_vars
  PROVE  PatchesFollow'
<1> USE DEF users, maps, configRec
\* A deployment under way is one of a shard.
<1>1. \A w \in Kinds : task[w].pc = "deploying" => task[w].shard \in Shards
  BY TaskFields DEF TypeOK
<1>2. ASSUME NEW w \in Kinds, NEW c \in Clusters, Fetch(w, c) PROVE PatchesFollow'
  BY <1>1, <1>2, PatchesFrame DEF Fetch, Task, TypeOK
<1>3. ASSUME NEW w \in Kinds, NEW c \in Clusters, FetchFails(w, c) PROVE PatchesFollow'
  BY <1>1, <1>3, PatchesFrame DEF FetchFails
<1>4. ASSUME NEW w \in Kinds, UNCHANGED <<config, redeploy, configQueued, deployment>>,
             \A s \in Shards : shardMap[s] = {} => shardMap'[s] = {}, Return(w)
      PROVE  PatchesFollow'
  BY <1>1, <1>4, PatchesFrame DEF Return, Idle, Task, TypeOK
<1>5. ASSUME NEW w \in Kinds, TrackUnchanged(w) \/ Stopped(w) PROVE PatchesFollow'
  BY <1>4, <1>5 DEF TrackUnchanged, Stopped, ReturnNil
<1>6. ASSUME NEW w \in Kinds, BeginRetire(w) PROVE PatchesFollow'
  BY <1>1, <1>6, PatchesFrame DEF BeginRetire, Task, TypeOK
<1>7. ASSUME NEW w \in Kinds, Join(w) PROVE PatchesFollow'
  <2>1. NeedsNoDeploy(Erased(task[w].item), task[w].seen)
    BY <1>7 DEF Join
  <2>2. \A s \in Shards : shardMap[s] = {} => shardMap'[s] = {}
    BY <1>7, <2>1, JoinMaps, ErasedEverywhere, ConstantsAssumption
    DEF NeedsNoDeploy, ShardKeys
  <2> QED BY <1>4, <1>7, <2>2 DEF Join, ReturnNil
<1>8. ASSUME NEW w \in Kinds, BeginDeploy(w) PROVE PatchesFollow'
  <2>1. \A s \in Shards : shardMap[s] = {} => shardMap'[s] = {}
    BY <1>8, BeginDeployMaps DEF ShardKeys
  <2>2. CASE ReturnError(w)
    BY <1>4, <1>8, <2>1, <2>2 DEF BeginDeploy, ReturnError
  <2>3. CASE task' = [task EXCEPT ![w] = Task("deploying", task[w].item, task[w].seen,
                                               task[w].seen, 1, config)]
    <3>1. task'[w].patches = config /\ task'[w].step = 1
      BY <2>3 DEF Task, TypeOK
    <3>2. \A v \in Kinds \ {w} : task'[v] = task[v]
      BY <2>3 DEF TypeOK
    <3>3. UNCHANGED <<config, configQueued, redeploy, deployment>>
      BY <1>8 DEF BeginDeploy
    <3>4. \A k \in Component : ~(k < 1)
      BY DEF Component
    <3>5. \A s \in Shards, k \in Component : Pending(s, k)' <=> Pending(s, k)
      BY <3>3 DEF Pending
    <3> QED BY <2>1, <3>1, <3>2, <3>3, <3>4, <3>5 DEF PatchesFollow
  <2> QED BY <1>8, <2>2, <2>3 DEF BeginDeploy
<1>9. ASSUME NEW w \in Kinds, DeployNext(w) PROVE PatchesFollow'
  <2> DEFINE t == task[w]
  <2>1. /\ t.pc = "deploying" /\ t.shard \in Shards /\ t.step \in Component
        /\ deployment' = Applied(t.shard, t.step, t.patches)
        /\ UNCHANGED <<config, configQueued, redeploy, shardMap>>
    BY <1>1, <1>9 DEF DeployNext, ApplySucceeds
  <2>2. /\ task'[w].shard = t.shard /\ task'[w].patches = t.patches
        /\ task'[w].step = t.step + 1
    BY <1>9 DEF DeployNext, Task, TypeOK
  <2>3. \A v \in Kinds \ {w} : task'[v].pc # "deploying"
    BY <1>9, <2>1, OthersWait DEF DeployNext, HoldInv, MutexHeld, TypeOK
  <2>4. \A s \in Shards, k \in Component :
          deployment'[s][k] = IF s = t.shard /\ k = t.step THEN t.patches
                                                           ELSE deployment[s][k]
    BY <2>1 DEF Applied, TypeOK
  <2>5. \A k \in Component : k < t.step + 1 => k < t.step \/ k = t.step
    BY <2>1 DEF Component
  <2>6. \A s \in Shards, k \in Component : Pending(s, k)' <=> Pending(s, k)
    BY <2>1 DEF Pending
  <2> QED BY <2>1, <2>2, <2>3, <2>4, <2>5, <2>6 DEF PatchesFollow
<1>10. ASSUME NEW w \in Kinds, DeployFails(w) PROVE PatchesFollow'
  <2> DEFINE t == task[w]
  <2>1. /\ t.pc = "deploying" /\ t.shard \in Shards /\ t.step \in Component
        /\ deployment' \in {deployment, Applied(t.shard, t.step, t.patches)}
        /\ UNCHANGED <<config, configQueued, redeploy, shardMap>>
    BY <1>1, <1>10 DEF DeployFails, ApplyFails
  <2>2. \A v \in Kinds : task'[v].pc # "deploying"
    BY <1>10, <2>1, OthersWait
    DEF DeployFails, ReturnError, Return, HoldInv, MutexHeld, Idle, Task, TypeOK
  <2>3. ASSUME ~configQueued
        PROVE  \A s \in Shards, k \in Component :
                 deployment'[s][k] \in {deployment[s][k], None, config}
    <3>1. t.patches = config
      BY <2>1, <2>3 DEF PatchesFollow
    <3> QED BY <2>1, <3>1 DEF Applied, TypeOK
  <2>4. CASE configQueued
    BY <2>1, <2>4 DEF PatchesFollow
  <2>5. CASE ~configQueued
    BY <2>1, <2>2, <2>3, <2>5, PatchesFrame
  <2> QED BY <2>4, <2>5
<1>11. ASSUME NEW w \in Kinds, Commit(w) PROVE PatchesFollow'
  <2> DEFINE t == task[w]
  <2>1. /\ t.pc = "deploying" /\ t.shard \in Shards /\ t.step \in 1 .. NumComponents + 1
        /\ t.step \notin Component
        /\ UNCHANGED <<config, configQueued, redeploy, deployment>>
    BY <1>11, TaskFields DEF Commit, TypeOK
  <2>2. \A k \in Component : k < t.step
    BY <2>1, ConstantsAssumption DEF Component
  <2>3. \A v \in Kinds : task'[v].pc # "deploying"
    BY <1>11, <2>1, OthersWait
    DEF Commit, ReturnNil, Return, HoldInv, MutexHeld, Idle, Task, TypeOK
  <2>4. \A s \in Shards : s # t.shard => shardMap'[s] = {} \/ shardMap[s] # {}
    BY <1>11, CommitMaps DEF ShardKeys
  <2>5. \A s \in Shards, k \in Component : Pending(s, k)' <=> Pending(s, k)
    BY <2>1 DEF Pending
  <2> QED BY <2>1, <2>2, <2>3, <2>4, <2>5 DEF PatchesFollow
<1>12. ASSUME NEW w \in Kinds, UndeployNext(w) \/ UndeployFails(w) PROVE PatchesFollow'
  <2> DEFINE t == task[w]
  <2>1. /\ t.pc \in {"retiring", "stopping"} /\ t.shard \in Shards /\ t.step \in Component
        /\ deployment' \in {deployment, Deleted(t.shard, t.step)}
        /\ UNCHANGED <<config, configQueued, redeploy, shardMap>>
    BY <1>12, TaskFields DEF UndeployNext, UndeployFails, TypeOK
  <2>2. mux = w
    BY <2>1 DEF HoldInv, MutexHeld
  <2>3. task'[w].pc # "deploying" /\ \A v \in Kinds \ {w} : task'[v] = task[v]
    BY <1>12, <2>1
    DEF UndeployNext, UndeployFails, ReturnError, Return, Idle, Task, TypeOK
  <2>4. \A v \in Kinds : task'[v].pc # "deploying"
    BY <2>2, <2>3, OthersWait DEF HoldInv
  <2>5. \A s \in Shards, k \in Component : deployment'[s][k] \in {deployment[s][k], None}
    BY <2>1 DEF Deleted, TypeOK
  <2> QED BY <2>1, <2>4, <2>5, PatchesFrame
<1>13. ASSUME NEW w \in Kinds, StopTracking(w) PROVE PatchesFollow'
  <2>1. \A s \in Shards : shardMap[s] = {} => shardMap'[s] = {}
    BY <1>13, StopTrackingMaps DEF ShardKeys
  <2>2. task'[w].pc # "deploying" /\ \A v \in Kinds \ {w} : task'[v] = task[v]
    BY <1>13 DEF StopTracking, ReturnNil, Return, Idle, Task, TypeOK
  <2>3. UNCHANGED <<config, configQueued, redeploy, deployment>>
    BY <1>13 DEF StopTracking
  <2> QED BY <1>1, <2>1, <2>2, <2>3, PatchesFrame
<1>14. ASSUME ListActiveShards PROVE PatchesFollow'
  <2>1. \A w \in Kinds : task'[w].pc # "deploying"
    BY <1>14, OthersWait, ConstantsAssumption
    DEF ListActiveShards, MayRead, HoldInv, MutexHeld
  <2>2. /\ redeploy'.pc = "listed" /\ redeploy'.todo = ActiveShards
        /\ shardMap' = shardMap
    BY <1>14 DEF ListActiveShards, Round
  <2> QED BY <2>1, <2>2 DEF PatchesFollow, Pending, ActiveShards
<1>15. ASSUME NEW x \in Shards, BeginRedeploy(x) PROVE PatchesFollow'
  <2>1. CASE RedeployError
    BY <2>1 DEF RedeployError, PatchesFollow
  <2>2. CASE redeploy' = Round("deploying", redeploy.todo, x, 1, config)
             /\ UNCHANGED configQueued
    <3>1. /\ redeploy'.pc = "deploying" /\ redeploy'.patches = config
          /\ redeploy'.todo = redeploy.todo /\ redeploy'.step = 1
          /\ redeploy.pc = "listed"
          /\ UNCHANGED <<config, deployment, shardMap, task, configQueued>>
      BY <1>15, <2>2 DEF BeginRedeploy, Round
    <3>2. \A k \in Component : k >= 1
      BY DEF Component
    <3>3. \A s \in Shards, k \in Component : Pending(s, k) => Pending(s, k)'
      BY <3>1, <3>2 DEF Pending
    <3> QED BY <3>1, <3>3 DEF PatchesFollow
  <2> QED BY <1>15, <2>1, <2>2 DEF BeginRedeploy
<1>16. ASSUME RedeployNext PROVE PatchesFollow'
  <2> DEFINE r == redeploy
  <2>1. /\ r.pc = "deploying" /\ r.shard \in Shards /\ r.step \in Component
        /\ deployment' = Applied(r.shard, r.step, r.patches)
        /\ UNCHANGED <<config, configQueued, task, shardMap>>
    BY <1>16, RoundFields DEF RedeployNext, ApplySucceeds, TypeOK
  <2>2. /\ redeploy'.pc = "deploying" /\ redeploy'.todo = r.todo
        /\ redeploy'.shard = r.shard /\ redeploy'.patches = r.patches
        /\ redeploy'.step = r.step + 1
    BY <1>16 DEF RedeployNext, Round
  <2>3. \A s \in Shards, k \in Component :
          deployment'[s][k] = IF s = r.shard /\ k = r.step THEN r.patches
                                                           ELSE deployment[s][k]
    BY <2>1 DEF Applied, TypeOK
  <2>4. \A k \in Component : k >= r.step => k = r.step \/ k >= r.step + 1
    BY <2>1 DEF Component
  <2>5. \A s \in Shards, k \in Component :
          Pending(s, k) => Pending(s, k)' \/ (s = r.shard /\ k = r.step)
    BY <2>1, <2>2, <2>4 DEF Pending
  <2> SUFFICES ASSUME ~configQueued' PROVE PatchesFollow'
    BY DEF PatchesFollow
  <2>6. r.patches = config
    BY <2>1 DEF PatchesFollow
  <2>7. \A w \in Kinds : task'[w].pc = "deploying" =>
          /\ task'[w].patches = config
          /\ \A k \in Component :
               k < task'[w].step => deployment'[task'[w].shard][k] = config
    BY <1>1, <2>1, <2>3, <2>6 DEF PatchesFollow
  <2>8. \A s \in Shards, k \in Component :
          deployment'[s][k] \in {None, config} \/ shardMap'[s] = {} \/ Pending(s, k)'
    BY <2>1, <2>3, <2>5, <2>6 DEF PatchesFollow
  <2> QED BY <2>1, <2>2, <2>6, <2>7, <2>8 DEF PatchesFollow
<1>17. ASSUME RedeployFails PROVE PatchesFollow'
  BY <1>17 DEF RedeployFails, RedeployError, PatchesFollow
<1>18. ASSUME RedeployedShard PROVE PatchesFollow'
  <2> DEFINE r == redeploy
  <2>1. /\ r.pc = "deploying" /\ r.step \in 1 .. NumComponents + 1 /\ r.step \notin Component
        /\ UNCHANGED <<config, configQueued, task, shardMap, deployment>>
    BY <1>18, RoundFields DEF RedeployedShard, TypeOK
  <2>2. redeploy'.pc = "listed" /\ redeploy'.todo = r.todo \ {r.shard}
    BY <1>18 DEF RedeployedShard, Round
  <2>3. \A k \in Component : ~(k >= r.step)
    BY <2>1, ConstantsAssumption DEF Component
  <2>4. \A s \in Shards, k \in Component : Pending(s, k) => Pending(s, k)'
    BY <2>1, <2>2, <2>3 DEF Pending
  <2> QED BY <2>1, <2>2, <2>4 DEF PatchesFollow
<1>19. ASSUME EndRedeploy PROVE PatchesFollow'
  <2>1. \A s \in Shards, k \in Component : ~Pending(s, k)
    BY <1>19 DEF EndRedeploy, Pending
  <2>2. redeploy'.pc = "idle"
    BY <1>19 DEF EndRedeploy, Resting, Round
  <2>3. UNCHANGED <<config, configQueued, task, shardMap, deployment>>
    BY <1>19 DEF EndRedeploy
  <2> QED BY <2>1, <2>2, <2>3 DEF PatchesFollow
<1>20. ASSUME NEW c \in Clusters, NEW v \in ShardKeys \cup {None}, ChangeCluster(c, v)
       PROVE  PatchesFollow'
  BY <1>1, <1>20, PatchesFrame DEF ChangeCluster
<1>21. ASSUME NEW p \in Configs, ChangeConfig(p) PROVE PatchesFollow'
  BY <1>21 DEF ChangeConfig, PatchesFollow
<1>22. ASSUME Resync PROVE PatchesFollow'
  BY <1>1, <1>22, PatchesFrame DEF Resync
<1>23. ASSUME Restart PROVE PatchesFollow'
  BY <1>23 DEF Restart, Reboot, PatchesFollow, Idle, Task, Resting, Round, ShardKeys
<1>24. ASSUME UNCHANGED vars PROVE PatchesFollow'
  BY <1>1, <1>24, PatchesFrame DEF vars
<1> QED
  BY <1>2, <1>3, <1>5, <1>6, <1>7, <1>8, <1>9, <1>10, <1>11, <1>12, <1>13, <1>14, <1>15,
     <1>16, <1>17, <1>18, <1>19, <1>20, <1>21, <1>22, <1>23, <1>24
  DEF Next, LockStep, HoldStep, RedeployStep, UserStep

-----------------------------------------------------------------------------
(* The invariants.                                                          *)

\* The parts of the inductive invariant are preserved together.
LEMMA StepIndInv == IndInv /\ [Next]_vars => IndInv'
  BY StepTypeOK, StepHoldInv, StepMembersTracked, StepSeenOrQueued, StepNoLostChange,
     StepPatchesFollow
  DEF IndInv

\* The inductive invariant holds in every behavior of the process.
THEOREM IndInvariant == Spec => []IndInv
<1> QED BY InitIndInv, StepIndInv, PTL DEF Spec

\* A cluster is counted as matching at most one shard, the one recorded for it,
\* whatever fails between the updates of the two maps (utils.go).
THEOREM MembersAlwaysTracked == Spec => []MembersTracked
<1>1. IndInv => MembersTracked
  BY DEF IndInv
<1> QED BY IndInvariant, <1>1, PTL

\* No change of an annotation is lost, although annotations are read before the
\* mutex is taken (processCluster).
THEOREM NoChangeLost == Spec => []NoLostChange
<1>1. IndInv => NoLostChange
  BY DEF IndInv
<1> QED BY IndInvariant, <1>1, PTL

\* Every edit of the ConfigMap reaches the Deployments of every active shard,
\* although redeployAllShards does not hold the mutex while it deploys.
THEOREM PatchesAlwaysCurrent == Spec => []PatchesCurrent
<1>1. IndInv => PatchesCurrent
  BY DEF IndInv, PatchesFollow, PatchesCurrent, Pending, ActiveShards
<1> QED BY IndInvariant, <1>1, PTL

-----------------------------------------------------------------------------
(* What a step may do to the Deployments.                                   *)

\* Applying a Deployment (deployDeployment) changes that Deployment only.
LEMMA AppliedValues ==
  ASSUME TypeOK, NEW s \in Shards, NEW k \in Component, NEW p, deployment' = Applied(s, k, p)
  PROVE  \A x \in Shards, j \in Component :
           deployment'[x][j] = IF x = s /\ j = k THEN p ELSE deployment[x][j]
  BY DEF Applied, TypeOK

\* Deleting a Deployment (undeployDeployment) changes that Deployment only.
LEMMA DeletedValues ==
  ASSUME TypeOK, NEW s \in Shards, NEW k \in Component, deployment' = Deleted(s, k)
  PROVE  \A x \in Shards, j \in Component :
           deployment'[x][j] = IF x = s /\ j = k THEN None ELSE deployment[x][j]
  BY DEF Deleted, TypeOK

\* A step leaves the Deployments alone, applies one, or deletes one for the
\* reconciler that holds the mutex.  The maps stay as they are in the last two
\* cases.
LEMMA DeploymentSteps ==
  ASSUME TypeOK, HoldInv, [Next]_vars
  PROVE  \/ UNCHANGED deployment
         \/ /\ UNCHANGED maps
            /\ \E s \in Shards, k \in Component, p \in Configs : deployment' = Applied(s, k, p)
         \/ /\ UNCHANGED maps
            /\ \E w \in Kinds, k \in Component :
                 /\ mux = w
                 /\ UndeployNext(w) \/ UndeployFails(w)
                 /\ task[w].pc \in {"retiring", "stopping"}
                 /\ task[w].shard \in Shards
                 /\ deployment' = Deleted(task[w].shard, k)
<1> USE DEF users, maps, configRec
<1> DEFINE Applies == \E s \in Shards, k \in Component, p \in Configs :
                        deployment' = Applied(s, k, p)
           Deletes == \E w \in Kinds, k \in Component :
                        /\ mux = w
                        /\ UndeployNext(w) \/ UndeployFails(w)
                        /\ task[w].pc \in {"retiring", "stopping"}
                        /\ task[w].shard \in Shards
                        /\ deployment' = Deleted(task[w].shard, k)
<1>1. ASSUME NEW w \in Kinds, NEW c \in Clusters, Fetch(w, c) \/ FetchFails(w, c)
      PROVE  UNCHANGED deployment
  BY <1>1 DEF Fetch, FetchFails
<1>2. ASSUME NEW w \in Kinds, LockStep(w) PROVE UNCHANGED deployment
  BY <1>2 DEF LockStep, TrackUnchanged, BeginRetire, Join, BeginDeploy, StopTracking
<1>3. ASSUME NEW w \in Kinds, DeployNext(w) \/ DeployFails(w)
      PROVE  UNCHANGED maps /\ (UNCHANGED deployment \/ Applies)
  <2>1. /\ task[w].shard \in Shards /\ task[w].step \in Component
        /\ task[w].patches \in Configs
    BY <1>3, TaskFields DEF DeployNext, DeployFails, TypeOK
  <2> QED BY <1>3, <2>1 DEF DeployNext, DeployFails, ApplySucceeds, ApplyFails
<1>4. ASSUME NEW w \in Kinds, UndeployNext(w) \/ UndeployFails(w)
      PROVE  UNCHANGED maps /\ (UNCHANGED deployment \/ Deletes)
  <2>1. /\ task[w].pc \in {"retiring", "stopping"}
        /\ task[w].shard \in Shards /\ task[w].step \in Component
    BY <1>4, TaskFields DEF UndeployNext, UndeployFails, TypeOK
  <2>2. mux = w
    BY <2>1 DEF HoldInv, MutexHeld
  <2>3. UNCHANGED maps
    BY <1>4 DEF UndeployNext, UndeployFails
  <2>4. UNCHANGED deployment \/ deployment' = Deleted(task[w].shard, task[w].step)
    BY <1>4 DEF UndeployNext, UndeployFails
  <2> QED BY <1>4, <2>1, <2>2, <2>3, <2>4
<1>5. ASSUME NEW w \in Kinds, Commit(w) \/ Stopped(w) PROVE UNCHANGED deployment
  BY <1>5 DEF Commit, Stopped
<1>6. ASSUME RedeployNext \/ RedeployFails
      PROVE  UNCHANGED maps /\ (UNCHANGED deployment \/ Applies)
  <2>1. /\ redeploy.shard \in Shards /\ redeploy.step \in Component
        /\ redeploy.patches \in Configs
    BY <1>6, RoundFields DEF RedeployNext, RedeployFails, TypeOK
  <2> QED BY <1>6, <2>1 DEF RedeployNext, RedeployFails, ApplySucceeds, ApplyFails
<1>7. ASSUME ListActiveShards \/ (\E s \in Shards : BeginRedeploy(s))
               \/ RedeployedShard \/ EndRedeploy \/ UserStep \/ Resync \/ Restart
      PROVE  UNCHANGED deployment
  BY <1>7 DEF ListActiveShards, BeginRedeploy, RedeployedShard, EndRedeploy, UserStep,
              ChangeCluster, ChangeConfig, Resync, Restart, Reboot
<1>8. ASSUME UNCHANGED vars PROVE UNCHANGED deployment
  BY <1>8 DEF vars
<1> QED BY <1>1, <1>2, <1>3, <1>4, <1>5, <1>6, <1>7, <1>8 DEF Next, HoldStep, RedeployStep

\* When the first cluster of a shard is recorded, the shard has all its controllers.
LEMMA CommitDeployed ==
  ASSUME TypeOK, HoldInv, NEW w \in Kinds, Commit(w)
  PROVE  \A k \in Component : deployment[task[w].shard][k] # None
<1>1. /\ task[w].step \in 1 .. NumComponents + 1 /\ task[w].step \notin Component
      /\ task[w].pc = "deploying"
  BY TaskFields DEF Commit, TypeOK
<1>2. \A k \in Component : k < task[w].step
  BY <1>1, ConstantsAssumption DEF Component
<1> QED BY <1>1, <1>2 DEF HoldInv, DeployingFirst

\* Controllers are never removed under a cluster that stays in their shard:
\* undeployControllers runs for the only cluster counted, or for none.
THEOREM RemovalIsSafe == Spec => SafeRemoval
<1> DEFINE Safe == \A s \in Shards, k \in Component :
                     deployment[s][k] # None /\ deployment'[s][k] = None =>
                       mux # None /\ shardMap[s] \subseteq {task[mux].item}
<1>1. IndInv /\ [Next]_vars => Safe
  <2> SUFFICES ASSUME IndInv, [Next]_vars, NEW s \in Shards, NEW k \in Component,
                      deployment[s][k] # None, deployment'[s][k] = None
               PROVE  mux # None /\ shardMap[s] \subseteq {task[mux].item}
    OBVIOUS
  <2>1. TypeOK /\ HoldInv
    BY DEF IndInv
  <2>2. ~ \E x \in Shards, j \in Component, p \in Configs : deployment' = Applied(x, j, p)
    BY <2>1, AppliedValues, ConstantsAssumption
  <2>3. PICK w \in Kinds, j \in Component :
          /\ mux = w
          /\ task[w].pc \in {"retiring", "stopping"}
          /\ task[w].shard \in Shards
          /\ deployment' = Deleted(task[w].shard, j)
    BY <2>1, <2>2, DeploymentSteps
  <2>4. task[w].shard = s
    BY <2>1, <2>3, DeletedValues
  <2> QED BY <2>1, <2>3, <2>4, ConstantsAssumption DEF HoldInv, RetiringLast, StoppingLast
<1>2. Safe => [Safe]_vars
  OBVIOUS
<1> QED BY IndInvariant, <1>1, PTL DEF Spec, SafeRemoval

\* A shard never gets its first cluster before all its controllers exist
\* (trackCluster updates the maps after deployControllers has succeeded).
THEOREM FirstJoinIsDeployed == Spec => FirstJoinDeployed
<1> DEFINE Deployed == \A s \in Shards :
                         shardMap[s] = {} /\ shardMap'[s] # {} =>
                           \A k \in Component : deployment[s][k] # None
<1>1. IndInv /\ [Next]_vars => Deployed
  <2> SUFFICES ASSUME IndInv, [Next]_vars, NEW s \in Shards,
                      shardMap[s] = {}, shardMap'[s] # {}
               PROVE  \A k \in Component : deployment[s][k] # None
    OBVIOUS
  <2>1. TypeOK /\ HoldInv /\ MembersTracked /\ s \in ShardKeys
    BY DEF IndInv, ShardKeys
  <2>2. ASSUME NEW w \in Kinds, Join(w) PROVE FALSE
    <3>1. task[w].seen = s
      BY <2>1, <2>2, JoinMaps
    <3>2. Erased(task[w].item)[s] # {}
      BY <2>2, <3>1, ConstantsAssumption DEF Join, NeedsNoDeploy
    <3> QED BY <2>1, <2>2, <3>2, JoinMaps, ErasedEverywhere
  <2>3. ASSUME NEW w \in Kinds, BeginDeploy(w) \/ StopTracking(w) PROVE FALSE
    BY <2>1, <2>3, BeginDeployMaps, StopTrackingMaps
  <2>4. ASSUME NEW w \in Kinds, Commit(w)
        PROVE  \A k \in Component : deployment[s][k] # None
    BY <2>1, <2>4, CommitMaps, CommitDeployed
  <2>5. ~ Restart
    BY <2>1 DEF Restart, Reboot
  <2>6. ~ UNCHANGED maps
    BY DEF maps
  <2> QED BY <2>2, <2>3, <2>4, <2>5, <2>6, OtherMaps
<1>2. Deployed => [Deployed]_vars
  OBVIOUS
<1> QED BY IndInvariant, <1>1, PTL DEF Spec, FirstJoinDeployed

-----------------------------------------------------------------------------
(* ShardTracker implements ShardFleet.                                      *)

\* To ShardFleet, an apply starts one controller...
LEMMA AppliedRunning ==
  ASSUME TypeOK, NEW s \in Shards, NEW k \in Component, NEW p \in Configs,
         deployment' = Applied(s, k, p)
  PROVE  Running' = [Running EXCEPT ![s] = @ \cup {k}]
<1>1. \A x \in Shards, j \in Component :
        deployment'[x][j] # None <=> (x = s /\ j = k) \/ deployment[x][j] # None
  BY AppliedValues, ConstantsAssumption
<1> QED BY <1>1 DEF Running

\* ...and a delete stops one.
LEMMA DeletedRunning ==
  ASSUME TypeOK, NEW s \in Shards, NEW k \in Component, deployment' = Deleted(s, k)
  PROVE  Running' = [Running EXCEPT ![s] = @ \ {k}]
<1>1. \A x \in Shards, j \in Component :
        deployment'[x][j] # None <=> ~(x = s /\ j = k) /\ deployment[x][j] # None
  BY DeletedValues
<1> QED BY <1>1 DEF Running

\* A process that has just started serves no cluster and runs no controller.
LEMMA InitRefines == Init => Fleet!Init
  BY DEF Init, Fleet!Init, Fleet!ShardKeys, ShardKeys, Running

\* The steps that move clusters between shards.
LEMMA MapsStepRefines ==
  ASSUME TypeOK, HoldInv, MembersTracked, [Next]_vars, UNCHANGED deployment
  PROVE  [Fleet!Next]_Fleet!vars
<1> USE DEF ShardKeys, Fleet!ShardKeys
<1>1. Running' = Running
  BY DEF Running
<1>2. ASSUME NEW w \in Kinds, Join(w) PROVE Fleet!Next
  <2>1. task[w].seen = NoShard \/ shardMap[task[w].seen] # {}
    <3>1. NeedsNoDeploy(Erased(task[w].item), task[w].seen)
      BY <1>2 DEF Join
    <3> QED BY <1>2, <3>1, JoinMaps, ErasedEverywhere DEF NeedsNoDeploy
  <2>2. Fleet!Join(task[w].item, task[w].seen)
    BY <1>1, <1>2, <2>1, JoinMaps DEF Fleet!Join
  <2> QED BY <1>2, <2>2, JoinMaps DEF Fleet!Next
<1>3. ASSUME NEW w \in Kinds, BeginDeploy(w) \/ StopTracking(w) PROVE Fleet!Next
  <2>1. task[w].item \in Clusters /\ Fleet!Leave(task[w].item)
    BY <1>1, <1>3, BeginDeployMaps, StopTrackingMaps DEF Fleet!Leave
  <2> QED BY <2>1 DEF Fleet!Next
<1>4. ASSUME NEW w \in Kinds, Commit(w) PROVE Fleet!Next
  <2>1. Running[task[w].shard] = Component
    BY <1>4, CommitDeployed, CommitMaps DEF Running
  <2>2. Fleet!Join(task[w].item, task[w].shard)
    BY <1>1, <1>4, <2>1, CommitMaps DEF Fleet!Join
  <2> QED BY <1>4, <2>2, CommitMaps DEF Fleet!Next
<1>5. ASSUME Restart PROVE Fleet!Next
  BY <1>1, <1>5 DEF Restart, Reboot, Fleet!Restart, Fleet!Next
<1>6. ASSUME UNCHANGED maps PROVE UNCHANGED Fleet!vars
  BY <1>1, <1>6 DEF maps, Fleet!vars
<1> QED BY <1>2, <1>3, <1>4, <1>5, <1>6, OtherMaps

\* Every step is one of ShardFleet's, or changes nothing it can see.
LEMMA StepRefines == IndInv /\ [Next]_vars => [Fleet!Next]_Fleet!vars
<1> SUFFICES ASSUME IndInv, [Next]_vars PROVE [Fleet!Next]_Fleet!vars
  OBVIOUS
<1>1. TypeOK /\ HoldInv /\ MembersTracked
  BY DEF IndInv
<1>2. CASE UNCHANGED deployment
  BY <1>1, <1>2, MapsStepRefines
<1>3. ASSUME UNCHANGED maps, NEW s \in Shards, NEW k \in Component, NEW p \in Configs,
             deployment' = Applied(s, k, p)
      PROVE  Fleet!Next
  <2>1. Fleet!Start(s, k)
    BY <1>1, <1>3, AppliedRunning DEF Fleet!Start, maps
  <2> QED BY <2>1 DEF Fleet!Next
<1>4. ASSUME UNCHANGED maps, NEW w \in Kinds, NEW k \in Component,
             task[w].pc \in {"retiring", "stopping"}, task[w].shard \in Shards,
             deployment' = Deleted(task[w].shard, k)
      PROVE  Fleet!Next
  <2>1. task[w].item \in Clusters
    BY <1>1, <1>4, TaskFields DEF TypeOK
  <2>2. shardMap[task[w].shard] = {} \/ \E c \in Clusters : shardMap[task[w].shard] = {c}
    BY <1>1, <1>4, <2>1 DEF HoldInv, RetiringLast, StoppingLast
  <2>3. Fleet!Retire(task[w].shard, k)
    BY <1>1, <1>4, <2>2, DeletedRunning DEF Fleet!Retire, maps
  <2> QED BY <1>4, <2>3 DEF Fleet!Next
<1> QED BY <1>1, <1>2, <1>3, <1>4, DeploymentSteps

\* Whatever fails and however the reconcilers interleave, clusters join and leave
\* shards, and controllers start and stop, only as ShardFleet allows.
THEOREM FleetImplemented == Spec => ImplementsFleet
<1> QED BY InitRefines, StepRefines, IndInvariant, PTL DEF Spec, ImplementsFleet, Fleet!Spec

-----------------------------------------------------------------------------
(* When deletes succeed, active shards keep their controllers.              *)

\* When deletes succeed, no step leaves a shard in use without a controller, unless
\* its last cluster is being moved away (trackCluster).
LEMMA StepActiveDeployed ==
  ASSUME "delete" \notin FaultKinds, IndInv, ActiveDeployed, [Next]_vars
  PROVE  ActiveDeployed'
<1> SUFFICES ASSUME NEW s \in Shards, shardMap'[s] # {}
             PROVE  \/ \A k \in Component : deployment'[s][k] # None
                    \/ \E w \in Kinds : task'[w].pc = "retiring" /\ task'[w].shard = s
  BY DEF ActiveDeployed, ActiveShards
<1> DEFINE Full     == \A k \in Component : deployment[s][k] # None
           Full2    == \A k \in Component : deployment'[s][k] # None
           Retired2 == \E w \in Kinds : task'[w].pc = "retiring" /\ task'[w].shard = s
<1>1. TypeOK /\ HoldInv /\ MembersTracked /\ s \in ShardKeys
  BY DEF IndInv, ShardKeys
<1>2. ASSUME NEW w \in Kinds, Commit(w), shardMap[s] = {} PROVE Full2
  <2>1. task[w].shard = s
    BY <1>1, <1>2, CommitMaps
  <2> QED BY <1>1, <1>2, <2>1, CommitDeployed DEF Commit
<1>3. ASSUME shardMap[s] = {}, ~ \E w \in Kinds : Commit(w) PROVE FALSE
  <2>1. ASSUME NEW w \in Kinds, Join(w) PROVE FALSE
    <3>1. task[w].seen = s
      BY <1>1, <1>3, <2>1, JoinMaps
    <3>2. Erased(task[w].item)[s] # {}
      BY <2>1, <3>1, ConstantsAssumption DEF Join, NeedsNoDeploy
    <3> QED BY <1>1, <1>3, <2>1, <3>2, JoinMaps, ErasedEverywhere
  <2>2. ASSUME NEW w \in Kinds, BeginDeploy(w) \/ StopTracking(w) PROVE FALSE
    BY <1>1, <1>3, <2>2, BeginDeployMaps, StopTrackingMaps
  <2>3. ~ Restart
    BY <1>1 DEF Restart, Reboot
  <2> QED BY <1>3, <2>1, <2>2, <2>3, OtherMaps DEF maps
\* The shard was active already.
<1>4. CASE shardMap[s] # {} /\ Full
  <2>1. CASE UNCHANGED deployment
    BY <1>4, <2>1
  <2>2. ASSUME NEW x \in Shards, NEW j \in Component, NEW p \in Configs,
               deployment' = Applied(x, j, p)
        PROVE  Full2
    BY <1>1, <1>4, <2>2, AppliedValues, ConstantsAssumption
  <2>3. ASSUME NEW w \in Kinds, NEW j \in Component,
               UndeployNext(w) \/ UndeployFails(w),
               task[w].pc \in {"retiring", "stopping"}, task[w].shard \in Shards,
               deployment' = Deleted(task[w].shard, j)
        PROVE  Full2 \/ Retired2
    <3>1. CASE task[w].shard # s
      BY <1>1, <1>4, <2>3, <3>1, DeletedValues
    <3>2. CASE task[w].shard = s
      <4>1. task[w].pc = "retiring"
        BY <1>1, <1>4, <2>3, <3>2 DEF HoldInv, StoppingLast
      <4>2. UndeployNext(w)
        BY <2>3 DEF UndeployFails, Fail, CanFail
      <4>3. task'[w].pc = "retiring" /\ task'[w].shard = s
        BY <1>1, <3>2, <4>1, <4>2 DEF UndeployNext, Task, TypeOK
      <4> QED BY <4>3
    <3> QED BY <3>1, <3>2
  <2> QED BY <1>1, <2>1, <2>2, <2>3, DeploymentSteps
<1>5. ASSUME NEW w \in Kinds, task[w].pc = "retiring", task[w].shard = s
      PROVE  Full2 \/ Retired2
  <2>1. /\ mux = w /\ shardMap[s] = {task[w].item}
        /\ clusterMap[task[w].item] = s /\ task[w].seen # s
    BY <1>1, <1>5 DEF HoldInv, MutexHeld, RetiringLast
  <2>2. ASSUME task'[w] = task[w] PROVE Retired2
    BY <1>5, <2>2
  <2>3. \A v \in Kinds : LockStep(v) \/ HoldStep(v) => v = w
    BY <1>1, <2>1, OthersWait, ConstantsAssumption
    DEF LockStep, HoldStep, TrackUnchanged, BeginRetire, Join, BeginDeploy, MayMove, MayLock,
        StopTracking, DeployNext, DeployFails, UndeployNext, UndeployFails, Commit, Stopped,
        HoldInv
  <2>4. ~ Join(w) /\ ~ BeginDeploy(w)
    BY <1>1, <2>1, JoinMaps, BeginDeployMaps
  <2>5. /\ ~ TrackUnchanged(w) /\ ~ BeginRetire(w) /\ ~ StopTracking(w)
        /\ ~ DeployNext(w) /\ ~ DeployFails(w) /\ ~ Commit(w) /\ ~ Stopped(w)
    BY <1>5 DEF TrackUnchanged, BeginRetire, MayLock, StopTracking, DeployNext, DeployFails,
                Commit, Stopped
  <2>6. ~ UndeployFails(w)
    BY DEF UndeployFails, Fail, CanFail
  <2>7. ASSUME UndeployNext(w) PROVE Retired2
    BY <1>1, <1>5, <2>7 DEF UndeployNext, Task, TypeOK
  <2>8. ASSUME NEW v \in Kinds, NEW c \in Clusters, Fetch(v, c) \/ FetchFails(v, c)
        PROVE  Retired2
    BY <1>1, <1>5, <2>2, <2>8 DEF Fetch, FetchFails, TypeOK
  <2>9. ASSUME ListActiveShards \/ RedeployStep \/ UserStep \/ Resync PROVE Retired2
    BY <2>2, <2>9
    DEF ListActiveShards, RedeployStep, BeginRedeploy, RedeployNext, RedeployFails,
        RedeployedShard, EndRedeploy, UserStep, ChangeCluster, ChangeConfig, Resync
  <2>10. ~ Restart
    BY <1>1 DEF Restart, Reboot
  <2>11. ASSUME UNCHANGED vars PROVE Retired2
    BY <2>2, <2>11 DEF vars
  <2> QED BY <2>3, <2>4, <2>5, <2>6, <2>7, <2>8, <2>9, <2>10, <2>11
          DEF Next, LockStep, HoldStep
<1>6. CASE shardMap[s] # {}
  BY <1>4, <1>5, <1>6 DEF ActiveDeployed, ActiveShards
<1>7. CASE shardMap[s] = {}
  BY <1>2, <1>3, <1>7
<1> QED BY <1>6, <1>7

\* If deletes do not fail, a shard in use keeps all its controllers, except while
\* its last cluster is being moved away: applies that fail, crashes, and the
\* ConfigMap reconciler do not take any (trackCluster, redeployAllShards).
THEOREM ActiveStaysDeployed ==
  ASSUME "delete" \notin FaultKinds
  PROVE  Spec => []ActiveDeployed
<1>1. Init => ActiveDeployed
  BY DEF Init, ActiveDeployed, ActiveShards, ShardKeys
<1>2. IndInv /\ ActiveDeployed /\ [Next]_vars => ActiveDeployed'
  BY StepActiveDeployed
<1> QED BY <1>1, <1>2, IndInvariant, PTL DEF Spec
=============================================================================

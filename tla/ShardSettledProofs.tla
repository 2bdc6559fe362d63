------------------------- MODULE ShardSettledProofs -------------------------
(***************************************************************************)
(* Proof that a process of ShardTracker with nothing left to do has served *)
(* every cluster, where clusters do not return to a shard they have left   *)
(* and deletes succeed.                                                    *)
(***************************************************************************)
EXTENDS ShardTrackerProofs

\* Rank values, of what is recorded, read and annotated.
Ranked(rank) == rank \in [ShardKeys \cup {None} -> Int] /\ Forward(rank)

\* Of two values that follow one another, the later one has been reached from the
\* earlier one.
LEMMA ReachedTransitive ==
  ASSUME NEW rank, Ranked(rank), NEW u \in ShardKeys \cup {None},
         NEW v \in ShardKeys \cup {None}, NEW x \in ShardKeys \cup {None}
  PROVE  /\ Reached(rank, u, v) /\ Reached(rank, v, x) => Reached(rank, u, x)
         /\ Reached(rank, u, v) /\ rank[v] < rank[x] => rank[u] < rank[x]
         /\ rank[u] < rank[v] /\ Reached(rank, v, x) => rank[u] < rank[x]
  BY DEF Ranked, Reached

\* Only users change annotations.
LEMMA StepObject ==
  ASSUME [Next]_vars, object' # object
  PROVE  \E c \in Clusters, v \in ShardKeys \cup {None} : ChangeCluster(c, v)
<1> USE DEF users, maps, configRec
<1>1. ASSUME NEW w \in Kinds, NEW c \in Clusters, Fetch(w, c) \/ FetchFails(w, c) PROVE FALSE
  BY <1>1 DEF Fetch, FetchFails
<1>2. ASSUME NEW w \in Kinds, LockStep(w) PROVE FALSE
  BY <1>2 DEF LockStep, TrackUnchanged, BeginRetire, Join, BeginDeploy, StopTracking
<1>3. ASSUME NEW w \in Kinds, HoldStep(w) PROVE FALSE
  BY <1>3 DEF HoldStep, DeployNext, DeployFails, UndeployNext, UndeployFails, Commit, Stopped
<1>4. ASSUME ListActiveShards \/ RedeployStep PROVE FALSE
  BY <1>4 DEF ListActiveShards, RedeployStep, BeginRedeploy, RedeployNext, RedeployFails,
              RedeployedShard, EndRedeploy
<1>5. ~ Resync /\ ~ Restart /\ ~ UNCHANGED vars /\ \A p \in Configs : ~ ChangeConfig(p)
  BY DEF Resync, Restart, Reboot, vars, ChangeConfig
<1> QED BY <1>1, <1>2, <1>3, <1>4, <1>5 DEF Next, UserStep

\* Users' changes lead forward.
LEMMA ChangeReached ==
  ASSUME NEW rank, Ranked(rank), TypeOK, NEW c \in Clusters,
         NEW v \in ShardKeys \cup {None}, ChangeCluster(c, v)
  PROVE  \A d \in Clusters : Reached(rank, object[d], object'[d])
  BY DEF ChangeCluster, TypeOK, Ranked, Forward, Reached

\* Reconciles record what they have read, users go on from what is annotated.
LEMMA StepInOrder ==
  ASSUME NEW rank, Ranked(rank), TypeOK, HoldInv, MembersTracked, InOrder(rank), [Next]_vars
  PROVE  InOrder(rank)'
<1> USE DEF users, maps, configRec
<1>1. ASSUME NEW w \in Kinds, NEW c \in Clusters, Fetch(w, c) PROVE InOrder(rank)'
  <2>1. /\ task'[w].item = c /\ task'[w].seen = object[c]
        /\ \A v \in Kinds \ {w} : task'[v] = task[v]
        /\ UNCHANGED <<object, clusterMap>>
    BY <1>1 DEF Fetch, Task, TypeOK
  <2> QED BY <2>1 DEF InOrder, Reached
<1>2. ASSUME NEW w \in Kinds, Return(w), UNCHANGED <<object, clusterMap>>
      PROVE  InOrder(rank)'
  BY <1>2 DEF Return, InOrder, Idle, Task, TypeOK
<1>3. ASSUME NEW w \in Kinds, Return(w), UNCHANGED object,
             task[w].pc # "idle",
             clusterMap' = [clusterMap EXCEPT ![task[w].item] = task[w].seen]
      PROVE  InOrder(rank)'
  <2>1. task'[w] = Idle /\ \A v \in Kinds \ {w} : task'[v] = task[v]
    BY <1>3 DEF Return, TypeOK
  <2>2. \A v \in Kinds \ {w} : task[v].pc # "idle" => task[v].item # task[w].item
    BY <1>3 DEF HoldInv, OwnClusters
  <2>3. \A d \in Clusters : clusterMap'[d] # None => Reached(rank, clusterMap'[d], object[d])
    BY <1>3, TaskFields DEF InOrder, TypeOK
  <2>4. ASSUME NEW v \in Kinds, task'[v].pc # "idle"
        PROVE  /\ Reached(rank, task'[v].seen, object'[task'[v].item])
               /\ clusterMap'[task'[v].item] # None =>
                    Reached(rank, clusterMap'[task'[v].item], task'[v].seen)
    <3>1. v # w
      BY <2>1, <2>4 DEF Idle, Task
    <3>2. clusterMap'[task[v].item] = clusterMap[task[v].item]
      BY <1>3, <2>1, <2>2, <2>4, <3>1, TaskFields DEF TypeOK
    <3> QED BY <1>3, <2>1, <2>4, <3>1, <3>2 DEF InOrder
  <2> QED BY <1>3, <2>3, <2>4 DEF InOrder
<1>4. ASSUME NEW w \in Kinds, TrackUnchanged(w) \/ Stopped(w) PROVE InOrder(rank)'
  BY <1>2, <1>4 DEF TrackUnchanged, Stopped, ReturnNil
<1>5. ASSUME NEW w \in Kinds, DeployFails(w) \/ UndeployFails(w) PROVE InOrder(rank)'
  BY <1>2, <1>5 DEF DeployFails, UndeployFails, ReturnError
<1>6. ASSUME NEW w \in Kinds, task[w].pc # "idle", UNCHANGED <<object, clusterMap>>,
             task'[w].item = task[w].item, task'[w].seen = task[w].seen,
             \A v \in Kinds \ {w} : task'[v] = task[v]
      PROVE  InOrder(rank)'
  BY <1>6 DEF InOrder
<1>7. ASSUME NEW w \in Kinds, BeginRetire(w) \/ DeployNext(w) \/ UndeployNext(w)
      PROVE  InOrder(rank)'
  <2>1. /\ task[w].pc # "idle" /\ UNCHANGED <<object, clusterMap>>
        /\ task'[w].item = task[w].item /\ task'[w].seen = task[w].seen
        /\ \A v \in Kinds \ {w} : task'[v] = task[v]
    BY <1>7 DEF BeginRetire, MayLock, DeployNext, UndeployNext, Task, TypeOK
  <2> QED BY <1>6, <2>1
<1>8. ASSUME NEW w \in Kinds, Join(w) PROVE InOrder(rank)'
  <2>1. task[w].pc # "idle"
    BY <1>8 DEF Join, MayMove, MayLock
  <2> QED BY <1>3, <1>8, <2>1 DEF Join, ReturnNil
<1>9. ASSUME NEW w \in Kinds, BeginDeploy(w) PROVE InOrder(rank)'
  <2>1. CASE ReturnError(w)
    BY <1>2, <1>9, <2>1 DEF BeginDeploy, ReturnError
  <2>2. CASE task' = [task EXCEPT ![w] = Task("deploying", task[w].item, task[w].seen,
                                               task[w].seen, 1, config)]
    <3>1. /\ task[w].pc # "idle" /\ UNCHANGED <<object, clusterMap>>
          /\ task'[w].item = task[w].item /\ task'[w].seen = task[w].seen
          /\ \A v \in Kinds \ {w} : task'[v] = task[v]
      BY <1>9, <2>2 DEF BeginDeploy, MayMove, MayLock, Task, TypeOK
    <3> QED BY <1>6, <3>1
  <2> QED BY <1>9, <2>1, <2>2 DEF BeginDeploy
<1>10. ASSUME NEW w \in Kinds, Commit(w) PROVE InOrder(rank)'
  <2>1. task[w].pc # "idle" /\ task[w].shard = task[w].seen
    BY <1>10 DEF Commit, HoldInv, DeployingFirst
  <2> QED BY <1>3, <1>10, <2>1 DEF Commit, ReturnNil
<1>11. ASSUME NEW w \in Kinds, StopTracking(w) PROVE InOrder(rank)'
  <2>1. /\ task[w].pc # "idle" /\ task[w].seen = None
        /\ clusterMap' = [clusterMap EXCEPT ![task[w].item] = None]
        /\ UNCHANGED object
    BY <1>11 DEF StopTracking, MayLock
  <2>2. CASE ReturnNil(w)
    BY <1>3, <2>1, <2>2 DEF ReturnNil
  <2>3. CASE task' = [task EXCEPT ![w] = Task("stopping", task[w].item, None,
                                               OldShard(task[w].item), 1, None)]
    <3>1. /\ task'[w].item = task[w].item /\ task'[w].seen = None
          /\ \A v \in Kinds \ {w} : task'[v] = task[v]
      BY <2>3 DEF Task, TypeOK
    <3>2. \A v \in Kinds : task'[v].pc # "idle" =>
            task'[v].item = task[v].item /\ task'[v].seen = task[v].seen /\ task[v].pc # "idle"
      BY <2>1, <3>1
    <3>3. \A d \in Clusters : clusterMap'[d] # None => clusterMap'[d] = clusterMap[d]
      BY <2>1 DEF TypeOK
    <3>4. \A v \in Kinds : task[v].pc # "idle" => task[v].item \in Clusters
      BY TaskFields DEF TypeOK
    <3> QED BY <2>1, <3>2, <3>3, <3>4 DEF InOrder
  <2> QED BY <1>11, <2>2, <2>3 DEF StopTracking
<1>12. ASSUME UNCHANGED <<object, clusterMap, task>> PROVE InOrder(rank)'
  BY <1>12 DEF InOrder, Reached
<1>13. ASSUME NEW w \in Kinds, NEW c \in Clusters, FetchFails(w, c) PROVE InOrder(rank)'
  BY <1>12, <1>13 DEF FetchFails
<1>14. ASSUME ListActiveShards \/ RedeployStep PROVE InOrder(rank)'
  BY <1>12, <1>14
  DEF ListActiveShards, RedeployStep, BeginRedeploy, RedeployNext, RedeployFails,
      RedeployedShard, EndRedeploy
<1>15. ASSUME NEW c \in Clusters, NEW v \in ShardKeys \cup {None}, ChangeCluster(c, v)
       PROVE  InOrder(rank)'
  <2>1. \A d \in Clusters : Reached(rank, object[d], object'[d])
    BY <1>15, ChangeReached
  <2>2. UNCHANGED <<clusterMap, task>> /\ object' \in [Clusters -> ShardKeys \cup {None}]
    BY <1>15 DEF ChangeCluster, TypeOK
  <2>3. \A w \in Kinds : task[w].pc # "idle" =>
          task[w].item \in Clusters /\ task[w].seen \in ShardKeys \cup {None}
    BY TaskFields DEF TypeOK
  <2> QED BY <2>1, <2>2, <2>3, ReachedTransitive DEF InOrder, TypeOK
<1>16. ASSUME (\E p \in Configs : ChangeConfig(p)) \/ Resync PROVE InOrder(rank)'
  BY <1>12, <1>16 DEF ChangeConfig, Resync
<1>17. ASSUME Restart PROVE InOrder(rank)'
  BY <1>17 DEF Restart, Reboot, InOrder, Idle, Task
<1>18. ASSUME UNCHANGED vars PROVE InOrder(rank)'
  BY <1>12, <1>18 DEF vars
<1> QED
  BY <1>1, <1>4, <1>5, <1>7, <1>8, <1>9, <1>10, <1>11, <1>13, <1>14, <1>15, <1>16, <1>17,
     <1>18
  DEF Next, LockStep, HoldStep, UserStep

\* Whoever starts to deploy moves its cluster to a shard other than the recorded one.
LEMMA BeginDeployMoves ==
  ASSUME TypeOK, HoldInv, NEW w \in Kinds, BeginDeploy(w)
  PROVE  task[w].pc # "idle" /\ task[w].seen # clusterMap[task[w].item]
  BY DEF BeginDeploy, MayMove, MayLock, ShardChanged, HoldInv, RetiringLast

\* A cluster is erased from the set of its recorded shard only to leave that shard.
LEMMA StepLeftBehind ==
  ASSUME NEW rank, Ranked(rank), TypeOK, HoldInv, MembersTracked, InOrder(rank),
         LeftBehind(rank), [Next]_vars
  PROVE  LeftBehind(rank)'
<1> USE DEF users, maps, configRec
<1> DEFINE Counted(c) == clusterMap'[c] # None => c \in shardMap'[clusterMap'[c]]
<1>1. ASSUME UNCHANGED object, NEW c \in Clusters, clusterMap'[c] = None \/ Counted(c),
             \A d \in Clusters \ {c} : clusterMap'[d] = clusterMap[d],
             \A d \in Clusters \ {c}, s \in ShardKeys : d \in shardMap[s] => d \in shardMap'[s]
      PROVE  LeftBehind(rank)'
  BY <1>1 DEF LeftBehind, TypeOK
<1>2. ASSUME NEW w \in Kinds, Join(w) PROVE LeftBehind(rank)'
  <2>1. UNCHANGED object
    BY <1>2 DEF Join
  <2> QED BY <1>1, <1>2, <2>1, JoinMaps DEF TypeOK
<1>3. ASSUME NEW w \in Kinds, Commit(w) PROVE LeftBehind(rank)'
  <2>1. UNCHANGED object
    BY <1>3 DEF Commit
  <2>2. task[w].item \in Clusters /\ Counted(task[w].item)
    BY <1>3, CommitMaps DEF TypeOK, ShardKeys
  <2>3. /\ \A d \in Clusters \ {task[w].item} : clusterMap'[d] = clusterMap[d]
        /\ \A d \in Clusters \ {task[w].item}, s \in ShardKeys :
             d \in shardMap[s] => d \in shardMap'[s]
    BY <1>3, CommitMaps DEF TypeOK
  <2> QED BY <1>1, <2>1, <2>2, <2>3
<1>4. ASSUME NEW w \in Kinds, StopTracking(w) PROVE LeftBehind(rank)'
  <2>1. UNCHANGED object
    BY <1>4 DEF StopTracking
  <2> QED BY <1>1, <1>4, <2>1, StopTrackingMaps DEF TypeOK
<1>5. ASSUME NEW w \in Kinds, BeginDeploy(w) PROVE LeftBehind(rank)'
  <2> DEFINE c == task[w].item
             v == task[w].seen
  <2>1. /\ c \in Clusters /\ v \in ShardKeys \cup {None} /\ v # clusterMap[c]
        /\ task[w].pc # "idle"
    BY <1>5, BeginDeployMoves, TaskFields DEF TypeOK
  <2>2. UNCHANGED <<object, clusterMap>>
    BY <1>5 DEF BeginDeploy
  <2>3. clusterMap[c] # None => rank[clusterMap[c]] < rank[object[c]]
    BY <2>1, ReachedTransitive DEF InOrder, Reached, TypeOK
  <2>4. \A d \in Clusters \ {c}, s \in ShardKeys : d \in shardMap[s] => d \in shardMap'[s]
    BY <1>5, BeginDeployMaps
  <2> QED BY <2>1, <2>2, <2>3, <2>4 DEF LeftBehind, TypeOK
<1>6. ASSUME Restart PROVE LeftBehind(rank)'
  BY <1>6 DEF Restart, Reboot, LeftBehind
<1>7. ASSUME UNCHANGED maps, UNCHANGED object PROVE LeftBehind(rank)'
  BY <1>7 DEF LeftBehind
<1>8. ASSUME UNCHANGED maps, ~ UNCHANGED object PROVE LeftBehind(rank)'
  <2>1. PICK c \in Clusters, v \in ShardKeys \cup {None} : ChangeCluster(c, v)
    BY <1>8, StepObject
  <2>2. \A d \in Clusters : Reached(rank, object[d], object'[d])
    BY <2>1, ChangeReached
  <2>3. object' \in [Clusters -> ShardKeys \cup {None}]
    BY <2>1 DEF ChangeCluster, TypeOK
  <2> QED BY <1>8, <2>2, <2>3, ReachedTransitive DEF LeftBehind, TypeOK
<1> QED BY <1>2, <1>3, <1>4, <1>5, <1>6, <1>7, <1>8, OtherMaps

\* In a process that has settled, every cluster is counted in the shard of its
\* annotation.
LEMMA SettledCounted ==
  ASSUME NEW rank, Ranked(rank), TypeOK, NoLostChange, LeftBehind(rank), Settled
  PROVE  \A c \in Live : object[c] \in ShardKeys /\ c \in shardMap[object[c]]
<1> SUFFICES ASSUME NEW c \in Live
             PROVE  object[c] \in ShardKeys /\ c \in shardMap[object[c]]
  OBVIOUS
<1>1. c \in Clusters /\ object[c] \in ShardKeys /\ object[c] # None
  BY DEF Live, TypeOK
<1>2. clusterMap[c] = object[c]
  <2>1. \A w \in Kinds : task[w].item = None
    BY TaskFields DEF Settled, TypeOK, Idle, Task
  <2> QED BY <1>1, <2>1, ConstantsAssumption DEF Settled, NoLostChange, Handling
<1>3. ~ (rank[object[c]] < rank[object[c]])
  BY <1>1 DEF Ranked
<1> QED BY <1>1, <1>2, <1>3 DEF LeftBehind

\* Where clusters do not return to a shard they have left and deletes succeed, a
\* process with nothing left to do has served everybody: a failed read or apply and
\* a restart between any two calls leave no cluster uncounted, no controller missing
\* and no patches old (trackCluster, redeployAllShards).
THEOREM SettledIsProvisioned ==
  ASSUME "delete" \notin FaultKinds,
         NEW rank \in [ShardKeys \cup {None} -> Int], Forward(rank)
  PROVE  Spec => []SettledProvisioned
<1> DEFINE Inv == InOrder(rank) /\ LeftBehind(rank)
<1>1. Init => Inv
  BY DEF Init, InOrder, LeftBehind, Idle, Task
<1>2. IndInv /\ Inv /\ [Next]_vars => Inv'
  BY StepInOrder, StepLeftBehind DEF IndInv, Ranked
<1>3. IndInv /\ ActiveDeployed /\ PatchesCurrent /\ Inv => SettledProvisioned
  <2> SUFFICES ASSUME IndInv, ActiveDeployed, PatchesCurrent, Inv, Settled,
                      NEW c \in Live
               PROVE  Served(c)
    BY DEF SettledProvisioned, Provisioned
  <2>1. object[c] \in ShardKeys /\ c \in shardMap[object[c]]
    BY SettledCounted DEF IndInv, Ranked
  <2>2. ASSUME object[c] \in Shards, NEW k \in Component
        PROVE  deployment[object[c]][k] = config
    <3>1. object[c] \in ActiveShards
      BY <2>1, <2>2 DEF ActiveShards
    <3>2. \A w \in Kinds : task[w].pc # "retiring"
      BY DEF Settled
    <3>3. deployment[object[c]][k] # None
      BY <3>1, <3>2 DEF ActiveDeployed
    <3> QED BY <3>1, <3>3 DEF Settled, PatchesCurrent
  <2> QED BY <2>1, <2>2 DEF Served
<1> QED BY <1>1, <1>2, <1>3, IndInvariant, ActiveStaysDeployed, PatchesAlwaysCurrent, PTL
        DEF Spec
=============================================================================

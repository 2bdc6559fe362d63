------------------------- MODULE ShardRolloutProofs -------------------------
(***************************************************************************)
(* Proofs about ShardRollout.  The old pod is the one ShardPodProofs is    *)
(* about; the new one is an instance of it, with the same lemmas.          *)
(***************************************************************************)
EXTENDS ShardRollout, ShardPodProofs

Pod == INSTANCE ShardPodProofs WITH
  clusterMap <- newClusterMap, shardMap <- newShardMap, mux <- newMux,
  queue <- newQueue, configQueued <- newConfigQueued, task <- newTask,
  redeploy <- newRedeploy

\* The clusters that give up a shard do so before the rollout or after it.
CalmAssumption == \A v, u : <<v, u>> \in CalmMoves => v \notin Shards

-----------------------------------------------------------------------------
(* The new pod of ShardRollout is that instance.                            *)

\* Both pods have the same constants.
LEMMA PodConstants ==
  /\ KindOf \in [Clusters -> Pod!Kinds]
  /\ NoShard \notin Shards /\ BadShards \subseteq Shards
  /\ NumComponents \in Nat \ {0}
  /\ NoConfigMap \in Configs /\ NoConfigMap \notin Unparsable
  /\ Misfits \in [Configs -> SUBSET Pod!Component]
  /\ Misfits[NoConfigMap] = {}
  /\ None \notin Clusters \cup Pod!ShardKeys \cup Configs \cup Pod!Kinds
  /\ MaxFaults \in Nat
  /\ MaxChanges \in Nat
  BY ConstantsAssumption
  DEF Pod!Kinds, Kinds, Pod!Component, Component, Pod!ShardKeys, ShardKeys

\* The steps of the new pod,
LEMMA NewLockStep ==
  ASSUME NEW w \in Kinds, New!LockStep(w)
  PROVE  Pod!LockStep(w)
<1>1. /\ New!TrackUnchanged(w) => Pod!TrackUnchanged(w)
      /\ New!BeginRetire(w) => Pod!BeginRetire(w)
      /\ New!Join(w) => Pod!Join(w)
  BY
  DEF New!Kinds, Pod!Kinds, New!ShardKeys, Pod!ShardKeys, New!Component, Pod!Component,
      New!users, Pod!users, New!maps, Pod!maps, New!configRec, Pod!configRec,
      New!Task, Pod!Task, New!Idle, Pod!Idle, New!TrackUnchanged, Pod!TrackUnchanged,
      New!BeginRetire, Pod!BeginRetire, New!Join, Pod!Join, New!MayLock, Pod!MayLock,
      New!ShardChanged, Pod!ShardChanged, New!LastOfShard, Pod!LastOfShard,
      New!OldShard, Pod!OldShard, New!MayMove, Pod!MayMove,
      New!NeedsNoDeploy, Pod!NeedsNoDeploy, New!Erased, Pod!Erased,
      New!ReturnNil, Pod!ReturnNil, New!Return, Pod!Return
<1>2. New!BeginDeploy(w) => Pod!BeginDeploy(w)
  BY
  DEF New!Kinds, Pod!Kinds, New!ShardKeys, Pod!ShardKeys, New!Component, Pod!Component,
      New!users, Pod!users, New!maps, Pod!maps, New!configRec, Pod!configRec,
      New!Task, Pod!Task, New!Idle, Pod!Idle, New!BeginDeploy, Pod!BeginDeploy,
      New!MayLock, Pod!MayLock, New!ShardChanged, Pod!ShardChanged,
      New!LastOfShard, Pod!LastOfShard, New!OldShard, Pod!OldShard,
      New!MayMove, Pod!MayMove, New!NeedsNoDeploy, Pod!NeedsNoDeploy,
      New!Erased, Pod!Erased, New!PatchesRejected, Pod!PatchesRejected,
      New!Fail, Pod!Fail, New!CanFail, Pod!CanFail, New!ReturnError, Pod!ReturnError,
      New!Return, Pod!Return
<1>3. New!StopTracking(w) => Pod!StopTracking(w)
  BY
  DEF New!Kinds, Pod!Kinds, New!ShardKeys, Pod!ShardKeys, New!Component, Pod!Component,
      New!users, Pod!users, New!maps, Pod!maps, New!configRec, Pod!configRec,
      New!Task, Pod!Task, New!Idle, Pod!Idle, New!StopTracking, Pod!StopTracking,
      New!MayLock, Pod!MayLock, New!LastOfShard, Pod!LastOfShard,
      New!OldShard, Pod!OldShard, New!Erased, Pod!Erased, New!ReturnNil, Pod!ReturnNil,
      New!Return, Pod!Return
<1> QED BY <1>1, <1>2, <1>3 DEF New!LockStep, Pod!LockStep

LEMMA NewHoldStep ==
  ASSUME NEW w \in Kinds, New!HoldStep(w)
  PROVE  Pod!HoldStep(w)
<1>1. /\ New!DeployNext(w) => Pod!DeployNext(w)
      /\ New!DeployFails(w) => Pod!DeployFails(w)
  BY
  DEF New!Kinds, Pod!Kinds, New!ShardKeys, Pod!ShardKeys, New!Component, Pod!Component,
      New!users, Pod!users, New!maps, Pod!maps, New!configRec, Pod!configRec,
      New!Task, Pod!Task, New!Idle, Pod!Idle, New!DeployNext, Pod!DeployNext,
      New!DeployFails, Pod!DeployFails, New!ApplySucceeds, Pod!ApplySucceeds,
      New!ApplyFails, Pod!ApplyFails, New!Applied, Pod!Applied,
      New!Inapplicable, Pod!Inapplicable, New!Fail, Pod!Fail, New!CanFail, Pod!CanFail,
      New!ReturnError, Pod!ReturnError, New!Return, Pod!Return
<1>2. /\ New!UndeployNext(w) => Pod!UndeployNext(w)
      /\ New!UndeployFails(w) => Pod!UndeployFails(w)
  BY
  DEF New!Kinds, Pod!Kinds, New!ShardKeys, Pod!ShardKeys, New!Component, Pod!Component,
      New!users, Pod!users, New!maps, Pod!maps, New!configRec, Pod!configRec,
      New!Task, Pod!Task, New!Idle, Pod!Idle, New!UndeployNext, Pod!UndeployNext,
      New!UndeployFails, Pod!UndeployFails, New!Deleted, Pod!Deleted,
      New!Fail, Pod!Fail, New!CanFail, Pod!CanFail, New!ReturnError, Pod!ReturnError,
      New!Return, Pod!Return
<1>3. /\ New!Commit(w) => Pod!Commit(w)
      /\ New!Stopped(w) => Pod!Stopped(w)
  BY
  DEF New!Kinds, Pod!Kinds, New!ShardKeys, Pod!ShardKeys, New!Component, Pod!Component,
      New!users, Pod!users, New!maps, Pod!maps, New!configRec, Pod!configRec,
      New!Task, Pod!Task, New!Idle, Pod!Idle, New!Commit, Pod!Commit,
      New!Stopped, Pod!Stopped, New!ReturnNil, Pod!ReturnNil, New!Return, Pod!Return
<1> QED BY <1>1, <1>2, <1>3 DEF New!HoldStep, Pod!HoldStep

LEMMA NewPodWorks == NewWorks => Pod!Works
<1>1. \A w \in Kinds, c \in Clusters : New!Fetch(w, c) => Pod!Fetch(w, c)
  BY
  DEF New!Fetch, Pod!Fetch, New!Task, Pod!Task, New!users, Pod!users,
      New!maps, Pod!maps, New!configRec, Pod!configRec
<1>2. New!Resync => Pod!Resync
  BY
  DEF New!Resync, Pod!Resync, New!Live, Pod!Live, New!users, Pod!users,
      New!maps, Pod!maps
<1> QED BY <1>1, <1>2, NewLockStep, NewHoldStep DEF NewWorks, Pod!Works, Pod!Kinds, Kinds

\* how it starts,
LEMMA NewPodStarts == New!Reboot => Pod!Reboot
  BY
  DEF New!Reboot, Pod!Reboot, New!Live, Pod!Live, New!Kinds, Pod!Kinds,
      New!ShardKeys, Pod!ShardKeys, New!Idle, Pod!Idle, New!Task, Pod!Task,
      New!Resting, Pod!Resting, New!Round, Pod!Round, New!users, Pod!users

\* what it sees of users, who take no cluster from a shard while they are calm,
LEMMA NewPodSees ==
  ASSUME NEW c \in Clusters, NEW v \in ShardKeys \cup {None}, New!ChangeCluster(c, v)
  PROVE  /\ Pod!PodStep
         /\ object[c] \notin Shards =>
              \E d \in Clusters, u \in Pod!ShardKeys \cup {None} : Pod!Joining(d, u)
<1>1. Pod!ChangeCluster(c, v) /\ v \in Pod!ShardKeys \cup {None}
  BY
  DEF New!ChangeCluster, Pod!ChangeCluster, ShardKeys, Pod!ShardKeys,
      New!maps, Pod!maps, New!configRec, Pod!configRec
<1> QED BY <1>1 DEF Pod!PodStep, Pod!Joining

\* and what is said of it.
LEMMA NewPodSays ==
  /\ New!Settled <=> Pod!Settled
  /\ New!Provisioned <=> Pod!Provisioned
  /\ Clean <=> Pod!Clean
  /\ Found <=> Pod!Found
  /\ \A s \in Shards : Deploys(s) <=> Pod!Deploys(s)
<1>1. New!Settled <=> Pod!Settled
  BY DEF New!Settled, Pod!Settled, New!Kinds, Pod!Kinds
<1>2. New!Provisioned <=> Pod!Provisioned
  BY DEF New!Provisioned, Pod!Provisioned, New!Live, Pod!Live, New!Served, Pod!Served,
         New!Component, Pod!Component
<1>3. Clean <=> Pod!Clean
  BY DEF Clean, Pod!Clean, Live, Pod!Live, Component, Pod!Component
<1>4. Found <=> Pod!Found
  BY DEF Found, Pod!Found, ShardKeys, Pod!ShardKeys, Component, Pod!Component
<1>5. \A s \in Shards : Deploys(s) <=> Pod!Deploys(s)
  BY DEF Deploys, Pod!Deploys, Applied, Pod!Applied, Component, Pod!Component
<1> QED BY <1>1, <1>2, <1>3, <1>4, <1>5

-----------------------------------------------------------------------------
(* The invariant of a rollout.                                              *)

\* A pod that is alone removes what it no longer needs; two pods need nothing
\* removed, and both deploy only what clusters ask for.
RolloutInv ==
  /\ phase \in {"old", "both", "new", "done"}
  /\ OldUp => PodInv
  /\ NewUp => Pod!PodInv
  /\ phase = "old" => Tied
  /\ phase = "both" => Steady
  /\ phase \in {"both", "new"} => Pod!Steady /\ Clean
  /\ phase = "done" => Pod!Tied

\* What pods deploy while users are calm leaves nothing to clean.
LEMMA DeploysKeepClean ==
  ASSUME Clean, UNCHANGED object,
         deployment \in [Shards -> [Component -> {None, NoConfigMap}]],
         \/ UNCHANGED deployment
         \/ \E s \in Shards : Deploys(s) /\ \E c \in Clusters : object[c] = s
  PROVE  Clean'
<1>1. CASE UNCHANGED deployment
  BY <1>1 DEF Clean, Live
<1>2. ASSUME NEW s \in Shards, Deploys(s), NEW c \in Clusters, object[c] = s
      PROVE  Clean'
  <2>1. \A x \in Shards, k \in Component :
          deployment'[x][k] # None => x = s \/ deployment[x][k] # None
    BY <1>2 DEF Deploys, Applied
  <2>2. c \in Live
    BY <1>2, ConstantsAssumption DEF Live, ShardKeys
  <2> QED BY <1>2, <2>1, <2>2 DEF Clean, Live
<1> QED BY <1>1, <1>2

\* The old pod goes on, alone or next to the new one.
LEMMA OldStep ==
  ASSUME Undisturbed, RolloutInv, ByOld(OldWorks)
  PROVE  /\ RolloutInv'
         /\ phase = "both" =>
              \/ UNCHANGED deployment
              \/ \E s \in Shards : Deploys(s) /\ \E c \in Clusters : object[c] = s
<1> USE DEF users
<1>1. /\ Works /\ PodInv /\ phase \in {"old", "both"}
      /\ UNCHANGED <<newPod, phase>>
  BY DEF ByOld, OldWorks, Works, OldUp, RolloutInv
<1>2. UNCHANGED <<users, faults>> /\ Found
  BY <1>1, WorksFrame, PodLeaves DEF PodInv, IndInv
<1>3. PodInv'
  BY <1>1, StepPodInv DEF PodStep
<1>4. CASE phase = "old"
  <2>1. Tied'
    BY <1>1, <1>4, StepTied DEF PodStep, RolloutInv
  <2> QED BY <1>1, <1>3, <1>4, <2>1 DEF RolloutInv, NewUp
<1>5. CASE phase = "both"
  <2>1. Steady /\ Pod!Steady /\ Pod!PodInv /\ Clean
    BY <1>5 DEF RolloutInv, NewUp
  <2>2. Steady'
    BY <1>1, <2>1, StepSteady
  <2>3. \/ UNCHANGED deployment
        \/ \E s \in Shards : Deploys(s) /\ \E c \in Clusters : object[c] = s
    BY <1>1, <2>1, SteadyDeploys
  <2>4. Clean'
    BY <1>2, <2>1, <2>3, DeploysKeepClean DEF Found
  <2>5. Pod!PodInv' /\ Pod!Steady'
    <3>1. UNCHANGED <<Pod!users, Pod!maps, newMux, newQueue, newTask, Pod!configRec, faults>>
      BY <1>1, <1>2 DEF newPod, Pod!users, Pod!maps, Pod!configRec
    <3>2. UNCHANGED deployment \/ \E s \in Shards : Pod!Deploys(s)
      BY <2>3, NewPodSays
    <3> QED BY <2>1, <3>1, <3>2, Pod!OtherPodWorks, PodConstants
  <2> QED BY <1>1, <1>3, <1>5, <2>2, <2>3, <2>4, <2>5 DEF RolloutInv
<1> QED BY <1>1, <1>4, <1>5

\* The new pod goes on, next to the old one or alone.
LEMMA NewStep ==
  ASSUME Undisturbed, RolloutInv, ByNew(NewWorks)
  PROVE  /\ RolloutInv'
         /\ phase \in {"both", "new"} =>
              \/ UNCHANGED deployment
              \/ \E s \in Shards : Deploys(s) /\ \E c \in Clusters : object[c] = s
<1>1. /\ Pod!Works /\ Pod!PodInv /\ phase \in {"both", "new", "done"}
      /\ UNCHANGED <<oldPod, phase>> /\ Pod!Undisturbed
  BY NewPodWorks DEF ByNew, NewUp, RolloutInv, Undisturbed, Pod!Undisturbed
<1>2. UNCHANGED <<users, faults>> /\ Found
  <2>1. UNCHANGED <<Pod!users, faults>>
    BY <1>1, Pod!WorksFrame, PodConstants DEF Pod!PodInv, Pod!IndInv
  <2>2. Pod!Found
    BY <1>1, Pod!PodLeaves, PodConstants
  <2> QED BY <2>1, <2>2, NewPodSays DEF users, Pod!users
<1>3. Pod!PodInv'
  BY <1>1, Pod!StepPodInv, PodConstants DEF Pod!PodStep
<1>4. CASE phase = "done"
  <2>1. Pod!Tied'
    BY <1>1, <1>4, Pod!StepTied, PodConstants DEF Pod!PodStep, RolloutInv
  <2> QED BY <1>1, <1>3, <1>4, <2>1 DEF RolloutInv, OldUp
<1>5. CASE phase \in {"both", "new"}
  <2>1. Pod!Steady /\ Clean /\ (phase = "both" => Steady /\ PodInv)
    BY <1>5 DEF RolloutInv, OldUp
  <2>2. Pod!Steady'
    BY <1>1, <2>1, Pod!StepSteady, PodConstants
  <2>3. \/ UNCHANGED deployment
        \/ \E s \in Shards : Deploys(s) /\ \E c \in Clusters : object[c] = s
    BY <1>1, <2>1, Pod!SteadyDeploys, PodConstants, NewPodSays
  <2>4. Clean'
    BY <1>2, <2>1, <2>3, DeploysKeepClean DEF Found, users
  <2>5. phase = "both" => PodInv' /\ Steady'
    <3>1. UNCHANGED <<users, maps, mux, queue, task, configRec, faults>>
      BY <1>1, <1>2 DEF oldPod, users, maps, configRec
    <3>2. UNCHANGED deployment \/ \E s \in Shards : Deploys(s)
      BY <2>3
    <3> QED BY <2>1, <3>1, <3>2, OtherPodWorks
  <2> QED BY <1>1, <1>3, <1>5, <2>2, <2>3, <2>4, <2>5 DEF RolloutInv, OldUp
<1> QED BY <1>1, <1>4, <1>5

\* The new pod starts once the old one has settled: nothing is left behind, and
\* nothing is to be removed.
LEMMA StartStep ==
  ASSUME Patient, RolloutInv, StartNew
  PROVE  RolloutInv'
<1> USE DEF users
<1>1. /\ phase = "old" /\ phase' = "both" /\ Settled /\ Pod!Reboot
      /\ UNCHANGED <<oldPod, faults, users, deployment>> /\ PodInv /\ Tied
  BY NewPodStarts DEF StartNew, New!Reboot, New!users, RolloutInv, OldUp
<1>2. Steady /\ Clean
  BY <1>1, SettledSteady, SettledCleans
<1>3. PodInv' /\ Steady'
  <2>1. UNCHANGED <<users, maps, mux, queue, task, configRec, faults>>
    BY <1>1 DEF oldPod, maps, configRec
  <2> QED BY <1>1, <1>2, <2>1, OtherPodWorks
<1>4. Pod!PodInv' /\ Pod!Steady'
  <2>1. Pod!Found
    BY <1>1, PodLeaves, NewPodSays
  <2> QED BY <1>1, <2>1, Pod!RebootPod, PodConstants
<1>5. Clean'
  BY <1>1, <1>2 DEF Clean, Live
<1> QED BY <1>1, <1>3, <1>4, <1>5 DEF RolloutInv

\* The old pod is gone, or the new one has caught up: it may go on alone.
LEMMA AloneStep ==
  ASSUME RolloutInv, StopOld \/ CaughtUp
  PROVE  RolloutInv'
<1> USE DEF users
<1>1. /\ Pod!PodInv /\ Pod!Steady /\ Clean
      /\ UNCHANGED <<users, deployment, faults, newPod>>
      /\ phase' = "new" \/ (phase' = "done" /\ New!Settled)
  BY DEF StopOld, CaughtUp, RolloutInv, NewUp
<1>2. /\ Pod!PodInv' /\ Pod!Steady' /\ (Pod!Tied => Pod!Tied')
  <2>1. /\ UNCHANGED <<Pod!users, Pod!maps, newMux, newQueue, newTask, Pod!configRec, faults>>
        /\ UNCHANGED deployment
    BY <1>1 DEF newPod, Pod!users, Pod!maps, Pod!configRec
  <2> QED BY <1>1, <2>1, Pod!OtherPodWorks, PodConstants
<1>3. New!Settled => Pod!Tied
  BY <1>1, Pod!SettledSteady, PodConstants, NewPodSays
<1>4. Clean'
  BY <1>1 DEF Clean, Live
<1> QED BY <1>1, <1>2, <1>3, <1>4 DEF RolloutInv, OldUp, NewUp

\* Users create clusters, and change and delete those they may.
LEMMA UsersStep ==
  ASSUME Undisturbed, CalmAssumption, RolloutInv, UsersAct
  PROVE  RolloutInv' /\ UNCHANGED deployment
<1>1. PICK c \in Clusters, v \in ShardKeys \cup {None} :
        /\ phase \in {"both", "new"} => <<object[c], v>> \in CalmMoves
        /\ Seen(ChangeCluster(c, v), New!ChangeCluster(c, v))
  BY DEF UsersAct
<1>2. /\ phase \in {"both", "new"} => object[c] \notin Shards
      /\ OldUp => ChangeCluster(c, v)
      /\ NewUp => New!ChangeCluster(c, v)
      /\ UNCHANGED phase
  BY <1>1 DEF CalmAssumption, Seen
<1>3. /\ UNCHANGED deployment /\ object' = [object EXCEPT ![c] = v] /\ v # object[c]
      /\ object \in [Clusters -> ShardKeys \cup {None}]
  <2>1. CASE OldUp
    BY <1>2, <2>1 DEF ChangeCluster, RolloutInv, PodInv, IndInv, TypeOK
  <2>2. CASE ~ OldUp
    <3>1. New!ChangeCluster(c, v) /\ Pod!PodInv
      BY <1>2, <2>2 DEF OldUp, NewUp, RolloutInv
    <3>2. Found
      BY <3>1, Pod!PodLeaves, PodConstants, NewPodSays
    <3> QED BY <3>1, <3>2 DEF New!ChangeCluster, Found
  <2> QED BY <2>1, <2>2
<1>4. ASSUME OldUp
      PROVE  /\ PodInv' /\ (phase = "old" => Tied')
             /\ phase = "both" => Steady'
  <2>1. ChangeCluster(c, v) /\ PodInv
    BY <1>2, <1>4 DEF RolloutInv
  <2>2. PodStep /\ (phase = "both" => Joining(c, v))
    BY <1>2, <2>1 DEF PodStep, Joining
  <2>3. PodInv'
    BY <2>1, <2>2, StepPodInv
  <2>4. phase = "old" => Tied'
    BY <2>1, <2>2, StepTied DEF RolloutInv
  <2>5. phase = "both" => Steady'
    BY <2>1, <2>2, StepSteady DEF RolloutInv
  <2> QED BY <2>3, <2>4, <2>5
<1>5. ASSUME NewUp
      PROVE  /\ Pod!PodInv' /\ (phase = "done" => Pod!Tied')
             /\ phase \in {"both", "new"} => Pod!Steady'
  <2>1. New!ChangeCluster(c, v) /\ Pod!PodInv /\ Pod!Undisturbed
    BY <1>2, <1>5 DEF RolloutInv, Undisturbed, Pod!Undisturbed
  <2>2. /\ Pod!PodStep
        /\ phase \in {"both", "new"} =>
             \E d \in Clusters, u \in Pod!ShardKeys \cup {None} : Pod!Joining(d, u)
    BY <1>2, <2>1, NewPodSees
  <2>3. Pod!PodInv'
    BY <2>1, <2>2, Pod!StepPodInv, PodConstants
  <2>4. phase = "done" => Pod!Tied'
    BY <2>1, <2>2, Pod!StepTied, PodConstants DEF RolloutInv
  <2>5. phase \in {"both", "new"} => Pod!Steady'
    BY <2>1, <2>2, Pod!StepSteady, PodConstants DEF RolloutInv
  <2> QED BY <2>3, <2>4, <2>5
<1>6. phase \in {"both", "new"} => Clean'
  <2> SUFFICES ASSUME phase \in {"both", "new"},
                      NEW s \in Shards, NEW k \in Component, deployment'[s][k] # None
               PROVE  \E d \in Live' : object'[d] = s
    BY DEF Clean
  <2>1. PICK d \in Live : object[d] = s
    BY <1>3 DEF RolloutInv, Clean
  <2>2. d # c
    BY <1>2, <2>1
  <2> QED BY <1>3, <2>1, <2>2 DEF Live
<1> QED BY <1>2, <1>3, <1>4, <1>5, <1>6 DEF RolloutInv, OldUp, NewUp

\* Nothing happens.
LEMMA RestStep ==
  ASSUME RolloutInv, UNCHANGED rollout
  PROVE  RolloutInv'
<1>1. /\ UNCHANGED <<users, maps, mux, queue, task, configRec, faults>>
      /\ UNCHANGED <<Pod!users, Pod!maps, newMux, newQueue, newTask, Pod!configRec, faults>>
      /\ UNCHANGED <<deployment, phase, object>>
  BY DEF rollout, oldPod, newPod, users, maps, configRec, Pod!users, Pod!maps,
         Pod!configRec
<1>2. PodInv => PodInv' /\ (Steady => Steady') /\ (Tied => Tied')
  BY <1>1, OtherPodWorks
<1>3. Pod!PodInv => Pod!PodInv' /\ (Pod!Steady => Pod!Steady') /\ (Pod!Tied => Pod!Tied')
  BY <1>1, Pod!OtherPodWorks, PodConstants
<1>4. Clean => Clean'
  BY <1>1 DEF Clean, Live
<1> QED BY <1>1, <1>2, <1>3, <1>4 DEF RolloutInv, OldUp, NewUp

LEMMA StepRolloutInv ==
  ASSUME Undisturbed, Patient, CalmAssumption, RolloutInv, [RolloutNext]_rollout
  PROVE  RolloutInv'
  BY OldStep, NewStep, StartStep, AloneStep, UsersStep, RestStep DEF RolloutNext

\* The invariant holds in every rollout in which nothing fails, the old pod has
\* settled before the new one starts, and no cluster leaves a shard until the new
\* one has caught up.
THEOREM RolloutInvariant ==
  ASSUME Undisturbed, Patient, CalmAssumption
  PROVE  RolloutSpec => []RolloutInv
<1>1. RolloutInit => RolloutInv
  BY InitPod DEF RolloutInit, RolloutInv, OldUp, NewUp
<1>2. RolloutInv /\ [RolloutNext]_rollout => RolloutInv'
  BY StepRolloutInv
<1> QED BY <1>1, <1>2, PTL DEF RolloutSpec

-----------------------------------------------------------------------------
(* What a rollout promises.                                                 *)

\* Under those conditions pods that have settled, before, during or after the
\* rollout, have left no controllers of a shard without clusters
\* (stopTrackingCluster, trackCluster), although the new pod counts from nothing.
THEOREM RolloutLeavesNothing ==
  ASSUME Undisturbed, Patient, CalmAssumption
  PROVE  RolloutSpec => []RolloutClean
<1>1. ASSUME RolloutInv, AllSettled PROVE Clean
  <2>1. CASE phase = "old"
    BY <1>1, <2>1, SettledCleans DEF RolloutInv, AllSettled, OldUp
  <2>2. CASE phase \in {"both", "new"}
    BY <1>1, <2>2 DEF RolloutInv
  <2>3. CASE phase = "done"
    <3>1. Pod!PodInv /\ Pod!Tied /\ Pod!Settled
      BY <1>1, <2>3, NewPodSays DEF RolloutInv, AllSettled, NewUp
    <3> QED BY <3>1, Pod!SettledCleans, PodConstants, NewPodSays
  <2> QED BY <1>1, <2>1, <2>2, <2>3 DEF RolloutInv
<1>2. RolloutInv => RolloutClean
  BY <1>1 DEF RolloutClean
<1> QED BY <1>2, RolloutInvariant, PTL

\* ...and serve every cluster: neither takes from the other what it deploys, and
\* the new pod takes over what the old one leaves.
THEOREM RolloutServesAll ==
  ASSUME Undisturbed, Patient, CalmAssumption
  PROVE  RolloutSpec => []RolloutProvisioned
<1>1. ASSUME RolloutInv, AllSettled PROVE AllProvisioned
  <2>1. CASE OldUp
    BY <1>1, <2>1, SettledProvisions DEF RolloutInv, AllSettled, AllProvisioned
  <2>2. CASE ~ OldUp
    <3>1. Pod!PodInv /\ Pod!Settled
      BY <1>1, <2>2, NewPodSays DEF RolloutInv, AllSettled, OldUp, NewUp
    <3> QED BY <2>2, <3>1, Pod!SettledProvisions, PodConstants, NewPodSays
            DEF AllProvisioned
  <2> QED BY <2>1, <2>2
<1>2. RolloutInv => RolloutProvisioned
  BY <1>1 DEF RolloutProvisioned
<1> QED BY <1>2, RolloutInvariant, PTL

\* ...and no Deployment is removed from the start of the new pod until it has
\* caught up (undeployControllers), in whatever order the two pods work.
THEOREM RolloutHasNoOutage ==
  ASSUME Undisturbed, Patient, CalmAssumption
  PROVE  RolloutSpec => NoOutage
<1> DEFINE Kept == \A s \in Shards, k \in Component :
                     phase \in {"both", "new"} /\ deployment[s][k] # None =>
                       deployment'[s][k] # None
<1>1. ASSUME RolloutInv, phase \in {"both", "new"},
             \/ UNCHANGED deployment
             \/ \E s \in Shards : Deploys(s) /\ \E c \in Clusters : object[c] = s
      PROVE  Kept
  <2>1. Found
    BY <1>1, PodLeaves, Pod!PodLeaves, PodConstants, NewPodSays
    DEF RolloutInv, OldUp, NewUp
  <2> QED BY <1>1, <2>1, ConstantsAssumption DEF Deploys, Applied, Found
<1>2. RolloutInv /\ [RolloutNext]_rollout => Kept
  <2> SUFFICES ASSUME RolloutInv, [RolloutNext]_rollout, phase \in {"both", "new"}
               PROVE  Kept
    OBVIOUS
  <2>1. CASE ByOld(OldWorks)
    BY <1>1, <2>1, OldStep DEF ByOld, OldUp
  <2>2. CASE ByNew(NewWorks)
    BY <1>1, <2>2, NewStep
  <2>3. CASE StartNew \/ StopOld \/ CaughtUp \/ UNCHANGED rollout
    BY <1>1, <2>3 DEF StartNew, New!Reboot, StopOld, CaughtUp, rollout
  <2>4. CASE UsersAct
    BY <1>1, <2>4, UsersStep
  <2> QED BY <2>1, <2>2, <2>3, <2>4 DEF RolloutNext
<1> QED BY <1>2, RolloutInvariant, PTL DEF RolloutSpec, NoOutage

=============================================================================

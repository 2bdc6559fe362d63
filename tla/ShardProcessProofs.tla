------------------------- MODULE ShardProcessProofs -------------------------
(***************************************************************************)
(* What is proved of the detection of Cluster API alone holds in the       *)
(* process it is part of: nothing the reconcilers or the users do to       *)
(* clusters, and no loss of what a process held, disturbs it.              *)
(***************************************************************************)
EXTENDS ShardProcess, CapiWatcherProofs

Pod == INSTANCE ShardPodProofs WITH
  config <- "absent", changes <- edits, faults <- 0,
  BadShards <- {}, NoConfigMap <- "absent", Configs <- {"absent"}, Unparsable <- {},
  Misfits <- [p \in {"absent"} |-> {}],
  FaultKinds <- {}, MaxFaults <- 0, MaxChanges <- MaxEdits

\* The steps of the process that belong to the reconcilers or to the users of
\* clusters leave the variables of the detection alone.
LEMMA ElsewhereUnseen ==
  ASSUME \/ \E w \in Tracker!Kinds, c \in Clusters : TakeRequest(w, c)
         \/ \E w \in Tracker!Kinds : LockStep(w) \/ HoldStep(w)
         \/ Resync
         \/ \E c \in Clusters, v \in Tracker!ShardKeys \cup {None} : ChangeCluster(c, v)
  PROVE  UNCHANGED vars
BY DEF TakeRequest, LockStep, HoldStep, Resync, ChangeCluster

\* The detection is a part of the process: what the rest does leaves it alone.
LEMMA DetectionKept == ProcessSpec => Spec
<1>1. ProcessInit => Init
  BY DEF ProcessInit
<1>2. [ProcessNext]_process => [Next]_vars
  <2>1. CASE UNCHANGED process
    BY <2>1 DEF process
  <2>2. CASE ProcessNext
    <3>1. CASE Detects(StartCache)
      BY <3>1 DEF Detects, Next
    <3>2. CASE Detects(ProcessStep)
      BY <3>2 DEF Detects, Next
    <3>3. CASE Detects(HandleEvent)
      BY <3>3 DEF Detects, Next
    <3>4. CASE Detects(Crash)
      BY <3>4 DEF Detects, Next
    <3>5. CASE \E v \in Crds : ChangeApi(v)
      BY <3>5 DEF ChangeApi, Next
    <3>6. CASE \E n \in 0 .. OtherCrds : ChangeOtherCrd(n)
      BY <3>6 DEF ChangeOtherCrd, Next
    <3> QED
      BY <2>2, <3>1, <3>2, <3>3, <3>4, <3>5, <3>6, ElsewhereUnseen DEF ProcessNext
  <2> QED
    BY <2>1, <2>2
<1> QED
  BY <1>1, <1>2, PTL DEF ProcessSpec, Spec

\* The variables of the detection keep their types in the process, for any number
\* of clusters, shards, retries, faults and changes.
THEOREM ProcessTypeCorrect == ProcessSpec => []TypeOK
BY DetectionKept, CapiTypeCorrect, PTL

\* An installation of Cluster API is not missed by the process, whatever its
\* reconcilers are doing (capiWatchers), if no CRD is upgraded in place.
THEOREM ProcessMissesNothing ==
  ASSUME ~Upgrades
  PROVE  ProcessSpec => []NothingMissed
BY DetectionKept, InstallationNotMissed, PTL

-----------------------------------------------------------------------------
(* The reconcilers of the process are those of a pod.                       *)

\* They have its constants.
LEMMA PodConstants ==
  /\ KindOf \in [Clusters -> Pod!Kinds]
  /\ NoShard \notin Shards /\ {} \subseteq Shards
  /\ NumComponents \in Nat \ {0}
  /\ "absent" \in {"absent"} /\ "absent" \notin {}
  /\ [p \in {"absent"} |-> {}] \in [{"absent"} -> SUBSET Pod!Component]
  /\ [p \in {"absent"} |-> {}]["absent"] = {}
  /\ None \notin Clusters \cup Pod!ShardKeys \cup {"absent"} \cup Pod!Kinds
  /\ 0 \in Nat
  /\ MaxEdits \in Nat
<1>1. Tracker!ConstantsAssumption
  BY ProcessAssumption
<1> QED
  BY <1>1
  DEF Tracker!ConstantsAssumption, Tracker!Kinds, Pod!Kinds, Tracker!Component,
      Pod!Component, Tracker!ShardKeys, Pod!ShardKeys

\* The steps of its reconcilers,
LEMMA ProcessLockStep ==
  ASSUME NEW w \in Tracker!Kinds, Tracker!LockStep(w)
  PROVE  Pod!LockStep(w)
<1>1. /\ Tracker!TrackUnchanged(w) => Pod!TrackUnchanged(w)
      /\ Tracker!BeginRetire(w) => Pod!BeginRetire(w)
      /\ Tracker!Join(w) => Pod!Join(w)
  BY
  DEF Tracker!Kinds, Pod!Kinds, Tracker!ShardKeys, Pod!ShardKeys, Tracker!Component, Pod!Component,
      Tracker!users, Pod!users, Tracker!maps, Pod!maps, Tracker!configRec, Pod!configRec,
      Tracker!Task, Pod!Task, Tracker!Idle, Pod!Idle, Tracker!TrackUnchanged, Pod!TrackUnchanged,
      Tracker!BeginRetire, Pod!BeginRetire, Tracker!Join, Pod!Join, Tracker!MayLock, Pod!MayLock,
      Tracker!ShardChanged, Pod!ShardChanged, Tracker!LastOfShard, Pod!LastOfShard,
      Tracker!OldShard, Pod!OldShard, Tracker!MayMove, Pod!MayMove,
      Tracker!NeedsNoDeploy, Pod!NeedsNoDeploy, Tracker!Erased, Pod!Erased,
      Tracker!ReturnNil, Pod!ReturnNil, Tracker!Return, Pod!Return
<1>2. Tracker!BeginDeploy(w) => Pod!BeginDeploy(w)
  BY
  DEF Tracker!Kinds, Pod!Kinds, Tracker!ShardKeys, Pod!ShardKeys, Tracker!Component, Pod!Component,
      Tracker!users, Pod!users, Tracker!maps, Pod!maps, Tracker!configRec, Pod!configRec,
      Tracker!Task, Pod!Task, Tracker!Idle, Pod!Idle, Tracker!BeginDeploy, Pod!BeginDeploy,
      Tracker!MayLock, Pod!MayLock, Tracker!ShardChanged, Pod!ShardChanged,
      Tracker!LastOfShard, Pod!LastOfShard, Tracker!OldShard, Pod!OldShard,
      Tracker!MayMove, Pod!MayMove, Tracker!NeedsNoDeploy, Pod!NeedsNoDeploy,
      Tracker!Erased, Pod!Erased, Tracker!PatchesRejected, Pod!PatchesRejected,
      Tracker!Fail, Pod!Fail, Tracker!CanFail, Pod!CanFail, Tracker!ReturnError, Pod!ReturnError,
      Tracker!Return, Pod!Return
<1>3. Tracker!StopTracking(w) => Pod!StopTracking(w)
  BY
  DEF Tracker!Kinds, Pod!Kinds, Tracker!ShardKeys, Pod!ShardKeys, Tracker!Component, Pod!Component,
      Tracker!users, Pod!users, Tracker!maps, Pod!maps, Tracker!configRec, Pod!configRec,
      Tracker!Task, Pod!Task, Tracker!Idle, Pod!Idle, Tracker!StopTracking, Pod!StopTracking,
      Tracker!MayLock, Pod!MayLock, Tracker!LastOfShard, Pod!LastOfShard,
      Tracker!OldShard, Pod!OldShard, Tracker!Erased, Pod!Erased, Tracker!ReturnNil, Pod!ReturnNil,
      Tracker!Return, Pod!Return
<1> QED BY <1>1, <1>2, <1>3 DEF Tracker!LockStep, Pod!LockStep

LEMMA ProcessHoldStep ==
  ASSUME NEW w \in Tracker!Kinds, Tracker!HoldStep(w)
  PROVE  Pod!HoldStep(w)
<1>1. /\ Tracker!DeployNext(w) => Pod!DeployNext(w)
      /\ Tracker!DeployFails(w) => Pod!DeployFails(w)
  BY
  DEF Tracker!Kinds, Pod!Kinds, Tracker!ShardKeys, Pod!ShardKeys, Tracker!Component, Pod!Component,
      Tracker!users, Pod!users, Tracker!maps, Pod!maps, Tracker!configRec, Pod!configRec,
      Tracker!Task, Pod!Task, Tracker!Idle, Pod!Idle, Tracker!DeployNext, Pod!DeployNext,
      Tracker!DeployFails, Pod!DeployFails, Tracker!ApplySucceeds, Pod!ApplySucceeds,
      Tracker!ApplyFails, Pod!ApplyFails, Tracker!Applied, Pod!Applied,
      Tracker!Inapplicable, Pod!Inapplicable, Tracker!Fail, Pod!Fail, Tracker!CanFail, Pod!CanFail,
      Tracker!ReturnError, Pod!ReturnError, Tracker!Return, Pod!Return
<1>2. /\ Tracker!UndeployNext(w) => Pod!UndeployNext(w)
      /\ Tracker!UndeployFails(w) => Pod!UndeployFails(w)
  BY
  DEF Tracker!Kinds, Pod!Kinds, Tracker!ShardKeys, Pod!ShardKeys, Tracker!Component, Pod!Component,
      Tracker!users, Pod!users, Tracker!maps, Pod!maps, Tracker!configRec, Pod!configRec,
      Tracker!Task, Pod!Task, Tracker!Idle, Pod!Idle, Tracker!UndeployNext, Pod!UndeployNext,
      Tracker!UndeployFails, Pod!UndeployFails, Tracker!Deleted, Pod!Deleted,
      Tracker!Fail, Pod!Fail, Tracker!CanFail, Pod!CanFail, Tracker!ReturnError, Pod!ReturnError,
      Tracker!Return, Pod!Return
<1>3. /\ Tracker!Commit(w) => Pod!Commit(w)
      /\ Tracker!Stopped(w) => Pod!Stopped(w)
  BY
  DEF Tracker!Kinds, Pod!Kinds, Tracker!ShardKeys, Pod!ShardKeys, Tracker!Component, Pod!Component,
      Tracker!users, Pod!users, Tracker!maps, Pod!maps, Tracker!configRec, Pod!configRec,
      Tracker!Task, Pod!Task, Tracker!Idle, Pod!Idle, Tracker!Commit, Pod!Commit,
      Tracker!Stopped, Pod!Stopped, Tracker!ReturnNil, Pod!ReturnNil, Tracker!Return, Pod!Return
<1> QED BY <1>1, <1>2, <1>3 DEF Tracker!HoldStep, Pod!HoldStep


\* those of users and of the API server,
LEMMA ProcessSteps ==
  /\ \A w \in Tracker!Kinds, c \in Clusters : Tracker!Fetch(w, c) => Pod!Fetch(w, c)
  /\ Tracker!Resync => Pod!Resync
  /\ \A c \in Clusters, v \in Tracker!ShardKeys \cup {None} :
       Tracker!ChangeCluster(c, v) => Pod!ChangeCluster(c, v)
<1>1. \A w \in Tracker!Kinds, c \in Clusters : Tracker!Fetch(w, c) => Pod!Fetch(w, c)
  BY
  DEF Tracker!Fetch, Pod!Fetch, Tracker!Task, Pod!Task, Tracker!users, Pod!users,
      Tracker!maps, Pod!maps, Tracker!configRec, Pod!configRec
<1>2. Tracker!Resync => Pod!Resync
  BY
  DEF Tracker!Resync, Pod!Resync, Tracker!Live, Pod!Live, Tracker!users, Pod!users,
      Tracker!maps, Pod!maps
<1>3. \A c \in Clusters, v \in Tracker!ShardKeys \cup {None} :
        Tracker!ChangeCluster(c, v) => Pod!ChangeCluster(c, v)
  BY
  DEF Tracker!ChangeCluster, Pod!ChangeCluster,
      Tracker!maps, Pod!maps, Tracker!configRec, Pod!configRec
<1> QED BY <1>1, <1>2, <1>3

\* how they start,
LEMMA ProcessStarts ==
  /\ Tracker!Init => Pod!Init
  /\ Tracker!Reboot => Pod!Reboot
<1>1. Tracker!Init => Pod!Init
  BY
  DEF Tracker!Init, Pod!Init, Tracker!Live, Pod!Live, Tracker!Kinds, Pod!Kinds,
      Tracker!ShardKeys, Pod!ShardKeys, Tracker!Component, Pod!Component,
      Tracker!Idle, Pod!Idle, Tracker!Task, Pod!Task,
      Tracker!Resting, Pod!Resting, Tracker!Round, Pod!Round
<1>2. Tracker!Reboot => Pod!Reboot
  BY
  DEF Tracker!Reboot, Pod!Reboot, Tracker!Live, Pod!Live, Tracker!Kinds, Pod!Kinds,
      Tracker!ShardKeys, Pod!ShardKeys, Tracker!Idle, Pod!Idle, Tracker!Task, Pod!Task,
      Tracker!Resting, Pod!Resting, Tracker!Round, Pod!Round, Tracker!users, Pod!users
<1> QED BY <1>1, <1>2

\* and what is said of them.
LEMMA ProcessSays == SettledServed <=> (Pod!Settled => Pod!Provisioned)
<1>1. Tracker!Settled <=> Pod!Settled
  BY DEF Tracker!Settled, Pod!Settled, Tracker!Kinds, Pod!Kinds
<1>2. Tracker!Provisioned <=> Pod!Provisioned
  BY DEF Tracker!Provisioned, Pod!Provisioned, Tracker!Live, Pod!Live,
         Tracker!Served, Pod!Served, Tracker!Component, Pod!Component
<1> QED BY <1>1, <1>2 DEF SettledServed, Tracker!SettledProvisioned

-----------------------------------------------------------------------------
(* What they promise.                                                       *)

\* What a step of the process is to its reconcilers.
LEMMA ProcessNextCases ==
  ASSUME [ProcessNext]_process
  PROVE  \/ Pod!PodStep
         \/ UNCHANGED tracker
         \/ Lost
         \/ \E v \in Crds : ChangeApi(v)
<1>1. ASSUME NEW w \in Tracker!Kinds, NEW c \in Clusters, TakeRequest(w, c) PROVE Pod!PodStep
  BY <1>1, ProcessSteps
  DEF TakeRequest, Pod!PodStep, Pod!Works, Tracker!Kinds, Pod!Kinds
<1>2. ASSUME NEW w \in Tracker!Kinds, LockStep(w) \/ HoldStep(w) PROVE Pod!PodStep
  BY <1>2, ProcessLockStep, ProcessHoldStep
  DEF LockStep, HoldStep, Pod!PodStep, Pod!Works, Tracker!Kinds, Pod!Kinds
<1>3. ASSUME Resync PROVE Pod!PodStep
  BY <1>3, ProcessSteps DEF Resync, Pod!PodStep, Pod!Works
<1>4. ASSUME NEW c \in Clusters, NEW v \in Tracker!ShardKeys \cup {None}, ChangeCluster(c, v)
      PROVE  Pod!PodStep
  BY <1>4, ProcessSteps
  DEF ChangeCluster, Pod!PodStep, Tracker!ShardKeys, Pod!ShardKeys
<1>5. CASE Detects(StartCache) \/ Detects(ProcessStep) \/ Detects(HandleEvent) \/ Detects(Crash)
  BY <1>5 DEF Detects
<1>6. CASE UNCHANGED process
  BY <1>6 DEF process
<1>7. CASE \E n \in 0 .. OtherCrds : ChangeOtherCrd(n)
  BY <1>7 DEF ChangeOtherCrd
<1> QED BY <1>1, <1>2, <1>3, <1>4, <1>5, <1>6, <1>7 DEF ProcessNext

\* The invariant of a pod is kept across restarts and when Cluster API is removed with
\* its clusters.
LEMMA StepProcess == Pod!PodInv /\ [ProcessNext]_process => Pod!PodInv'
<1> SUFFICES ASSUME Pod!PodInv, [ProcessNext]_process PROVE Pod!PodInv'
  OBVIOUS
<1>1. CASE Pod!PodStep
  <2>1. Pod!Undisturbed
    BY DEF Pod!Undisturbed
  <2> QED BY <1>1, <2>1, Pod!StepPodInv, PodConstants
<1>2. CASE UNCHANGED tracker
  <2>1. /\ UNCHANGED <<Pod!users, Pod!maps, mux, queue, task, Pod!configRec, 0>>
        /\ UNCHANGED deployment
    BY <1>2 DEF tracker, Pod!users, Pod!maps, Pod!configRec
  <2> QED BY <2>1, Pod!OtherPodWorks, PodConstants
<1>3. CASE Lost
  <2>1. Pod!Reboot /\ Pod!Found
    BY <1>3, ProcessStarts, Pod!PodLeaves, PodConstants DEF Lost
  <2> QED BY <2>1, Pod!RebootPod, PodConstants
<1>4. ASSUME NEW v \in Crds, ChangeApi(v) PROVE Pod!PodInv'
  <2>1. /\ CapiClusters \in SUBSET Clusters
        /\ object' = [c \in Clusters |-> IF c \in CapiClusters THEN None ELSE object[c]]
        /\ queue' = queue \cup {c \in CapiClusters : object[c] # None}
        /\ UNCHANGED <<"absent", deployment, Pod!maps, mux, task, Pod!configRec, 0>>
        /\ UNCHANGED edits
    BY <1>4 DEF ChangeApi, CapiClusters, Pod!maps, Pod!configRec
  <2> QED BY <2>1, Pod!ClustersGone, PodConstants
<1> QED BY <1>1, <1>2, <1>3, <1>4, ProcessNextCases

\* In every behavior of the process.
THEOREM ProcessInvariant == ProcessSpec => []Pod!PodInv
<1>1. ProcessInit => Pod!PodInv
  BY ProcessStarts, Pod!InitPod, PodConstants DEF ProcessInit
<1> QED BY <1>1, StepProcess, PTL DEF ProcessSpec

\* However often the process ends while it deploys or removes controllers, and however
\* late one of its reconcilers starts, what is left when it has nothing more to do is
\* that every cluster is served (trackCluster, capiWatchers).
THEOREM SettledIsServed == ProcessSpec => []SettledServed
<1>1. Pod!PodInv => SettledServed
  BY ProcessSays, Pod!SettledProvisions, PodConstants
<1> QED BY <1>1, ProcessInvariant, PTL

\* What the reconcilers do to clusters and controllers is what ShardFleet allows.
LEMMA PodStepRefines == Pod!PodInv /\ Pod!PodStep => [Fleet!Next]_Fleet!vars
<1> SUFFICES ASSUME Pod!PodInv, Pod!PodStep PROVE [Fleet!Next]_Fleet!vars
  OBVIOUS
<1>1. [Pod!Fleet!Next]_Pod!Fleet!vars
  BY Pod!StepRefines, Pod!PodStepIsStep, PodConstants DEF Pod!PodInv
<1>2. Pod!Component = Tracker!Component /\ Pod!Running = Tracker!Running
  BY DEF Pod!Component, Tracker!Component, Pod!Running, Tracker!Running
<1>3. (Pod!Running)' = (Tracker!Running)'
  BY DEF Pod!Component, Tracker!Component, Pod!Running, Tracker!Running
<1>4. Pod!Fleet!Next => Fleet!Next
  <2>1. /\ \A s, k : Pod!Fleet!Start(s, k) => Fleet!Start(s, k)
        /\ \A s, k : Pod!Fleet!Retire(s, k) => Fleet!Retire(s, k)
    BY <1>2, <1>3 DEF Pod!Fleet!Start, Fleet!Start, Pod!Fleet!Retire, Fleet!Retire
  <2>2. \A c, s : Pod!Fleet!Join(c, s) => Fleet!Join(c, s)
    BY <1>2, <1>3 DEF Pod!Fleet!Join, Fleet!Join, Pod!Fleet!ShardKeys, Fleet!ShardKeys
  <2>3. /\ \A c : Pod!Fleet!Leave(c) => Fleet!Leave(c)
        /\ Pod!Fleet!Restart => Fleet!Restart
    BY <1>2, <1>3
    DEF Pod!Fleet!Leave, Fleet!Leave, Pod!Fleet!Restart, Fleet!Restart,
        Pod!Fleet!ShardKeys, Fleet!ShardKeys
  <2> QED BY <1>2, <2>1, <2>2, <2>3
          DEF Pod!Fleet!Next, Fleet!Next, Pod!Fleet!ShardKeys, Fleet!ShardKeys
<1> QED BY <1>1, <1>2, <1>3, <1>4 DEF Pod!Fleet!vars, Fleet!vars

\* Restarts, and the loss of all clusters of Cluster API at once, are steps of it or none.
LEMMA StepKeepsFleet == Pod!PodInv /\ [ProcessNext]_process => [Fleet!Next]_Fleet!vars
<1> SUFFICES ASSUME Pod!PodInv, [ProcessNext]_process PROVE [Fleet!Next]_Fleet!vars
  OBVIOUS
<1>1. ASSUME UNCHANGED <<deployment, shardMap>> PROVE [Fleet!Next]_Fleet!vars
  BY <1>1 DEF Fleet!vars, Tracker!Running
<1>2. CASE UNCHANGED tracker
  BY <1>1, <1>2 DEF tracker
<1>3. CASE Lost
  BY <1>3
  DEF Lost, Tracker!Reboot, Tracker!Running, Tracker!ShardKeys, Fleet!ShardKeys,
      Fleet!Restart, Fleet!Next
<1>4. CASE Pod!PodStep
  BY <1>4, PodStepRefines
<1>5. CASE \E v \in Crds : ChangeApi(v)
  BY <1>1, <1>5 DEF ChangeApi
<1> QED
  BY <1>2, <1>3, <1>4, <1>5, ProcessNextCases

\* The whole process implements ShardFleet, with restarts at any moment.
THEOREM ProcessKeepsFleet == ProcessSpec => KeepsFleet
<1>1. ProcessInit => Fleet!Init
  BY DEF ProcessInit, Tracker!Init, Fleet!Init, Fleet!ShardKeys, Tracker!ShardKeys,
         Tracker!Running
<1> QED BY <1>1, StepKeepsFleet, ProcessInvariant, PTL DEF ProcessSpec, KeepsFleet, Fleet!Spec

=============================================================================

-------------------------- MODULE CapiWatcherProofs --------------------------
(***************************************************************************)
(* Proofs about CapiWatcher, for any number of retries, faults and changes *)
(* of the CRD.                                                             *)
(***************************************************************************)
EXTENDS CapiWatcher, SequenceTheorems, TLAPS

\* The watcher reports events: what it lists is a sequence of them...
LEMMA ListedType ==
  ASSUME TypeOK, NEW l \in Listed
  PROVE  l \in Seq(Events)
<1> DEFINE Several(n) == [i \in 1 .. n |-> Event("v1beta2", "Create")]
           mine == IF crd = "absent" THEN <<>> ELSE <<Event(VersionOf(crd), "Create")>>
<1>1. \A n \in Nat : Several(n) \in Seq(Events)
  BY DEF Event, Events
<1>2. mine \in Seq(Events)
  <2>1. Event(VersionOf(crd), "Create") \in Events
    BY DEF Event, Events, VersionOf
  <2> QED BY <2>1
<1>3. PICK n \in 0 .. others : l = Several(n) \o mine \o Several(others - n)
  BY DEF Listed
<1>4. n \in Nat /\ others - n \in Nat
  BY ConstantsAssumption DEF TypeOK
<1>5. Several(n) \in Seq(Events) /\ Several(others - n) \in Seq(Events)
  BY <1>1, <1>4
<1> HIDE DEF Several, mine
<1> QED BY <1>2, <1>3, <1>5

\* What stands between two sequences.
LEMMA InTheMiddle ==
  ASSUME NEW S, NEW a \in Seq(S), NEW b \in Seq(S), NEW c \in Seq(S), Len(b) = 1
  PROVE  /\ Len(a) + 1 \in 1 .. Len(a \o b \o c)
         /\ (a \o b \o c)[Len(a) + 1] = b[1]
<1> DEFINE ab == a \o b
<1>0. ab \in Seq(S)
  BY ConcatProperties, Zenon
<1>1. /\ Len(ab) = Len(a) + Len(b)
      /\ \A i \in 1 .. Len(a) + Len(b) :
           ab[i] = IF i <= Len(a) THEN a[i] ELSE b[i - Len(a)]
  BY ConcatProperties, Zenon
<1> HIDE DEF ab
<1>2. /\ Len(ab \o c) = Len(ab) + Len(c)
      /\ \A i \in 1 .. Len(ab) + Len(c) :
           (ab \o c)[i] = IF i <= Len(ab) THEN ab[i] ELSE c[i - Len(ab)]
  BY <1>0, ConcatProperties, Zenon
<1>3. Len(a) \in Nat /\ Len(c) \in Nat
  OBVIOUS
<1>4. Len(a) + 1 \in 1 .. Len(ab \o c) /\ (ab \o c)[Len(a) + 1] = b[1]
  BY <1>1, <1>2, <1>3
<1> QED BY <1>4 DEF ab

\* ...with an event for the CRD of clusters...
LEMMA ListedServed ==
  ASSUME TypeOK, crd = "served", NEW l \in Listed
  PROVE  \E i \in 1 .. Len(l) : Restarts(l[i])
<1> DEFINE Several(n) == [i \in 1 .. n |-> Event("v1beta2", "Create")]
           mine == <<Event("v1beta2", "Create")>>
<1>1. PICK n \in 0 .. others : l = Several(n) \o mine \o Several(others - n)
  BY DEF Listed, VersionOf
<1>2. n \in Nat /\ others - n \in Nat
  BY ConstantsAssumption DEF TypeOK
<1>3. /\ \A m \in Nat : Several(m) \in Seq(Events) /\ Len(Several(m)) = m
      /\ mine \in Seq(Events) /\ Len(mine) = 1 /\ mine[1] = Event("v1beta2", "Create")
  BY DEF Event, Events
<1> HIDE DEF Several, mine
<1>4. /\ Several(n) \in Seq(Events) /\ Len(Several(n)) = n
      /\ Several(others - n) \in Seq(Events)
      /\ mine \in Seq(Events) /\ Len(mine) = 1
  BY <1>2, <1>3
<1>5. n + 1 \in 1 .. Len(l) /\ l[n + 1] = mine[1]
  <2>1. /\ Len(Several(n)) + 1 \in 1 .. Len(Several(n) \o mine \o Several(others - n))
        /\ (Several(n) \o mine \o Several(others - n))[Len(Several(n)) + 1] = mine[1]
    BY <1>4, InTheMiddle, Zenon
  <2> QED BY <1>1, <1>4, <2>1, Zenon
<1>6. l[n + 1] = Event("v1beta2", "Create")
  BY <1>3, <1>5, Zenon
<1>7. Restarts(l[n + 1])
  BY <1>6 DEF Restarts, Event
<1> QED BY <1>5, <1>7, Zenon

\* ...and so is what it has after a change of a CRD.
LEMMA ReportType ==
  ASSUME TypeOK, NEW version \in {"v1beta1", "v1beta2"},
         NEW action \in {"Create", "Modify", "Delete"}, Report(version, action)
  PROVE  events' \in Seq(Events)
<1>1. Event(version, action) \in Events
  BY DEF Event, Events
<1> QED BY <1>1 DEF Report, TypeOK

LEMMA ChangeType ==
  ASSUME TypeOK,
         \/ \E v \in Crds : ChangeCrd(v)
         \/ \E n \in 0 .. OtherCrds : ChangeOther(n)
  PROVE  events' \in Seq(Events)
  BY ReportType DEF ChangeCrd, ChangeOther, VersionOf

\* Every step of capiWatchers, of the watcher and of capiCRDHandler preserves the
\* types.
LEMMA StepTypeOK == TypeOK /\ [Next]_vars => TypeOK'
<1> SUFFICES ASSUME TypeOK, [Next]_vars PROVE TypeOK'
  OBVIOUS
<1> USE DEF TypeOK
<1>1. CASE StartCache
  BY <1>1 DEF StartCache
<1>2. CASE CheckFails
  BY <1>2, ConstantsAssumption DEF CheckFails, Pauses, Fail, Phases
<1>3. CASE Wake
  BY <1>3 DEF Wake, Phases
<1>4. CASE CheckSucceeds
  BY <1>4 DEF CheckSucceeds, Phases
<1>5. CASE StartWatch
  <2>1. events' \in Seq(Events)
    BY <1>5, ListedType DEF StartWatch
  <2> QED BY <1>5, <2>1 DEF StartWatch, Phases
<1>6. CASE StartReconciler
  BY <1>6 DEF StartReconciler, Phases
<1>7. CASE ReconcilerFails
  BY <1>7 DEF ReconcilerFails, Phases
<1>8. CASE HandleEvent
  <2>1. events' \in Seq(Events)
    BY <1>8 DEF HandleEvent
  <2>2. phase' \in Phases
    BY <1>8 DEF HandleEvent, Phases
  <2> QED BY <1>8, <2>1, <2>2 DEF HandleEvent
<1>9. CASE Exit
  BY <1>9 DEF Exit, Phases
<1>10. CASE Boot
  <2>1. events' \in Seq(Events)
    BY <1>10 DEF Boot
  <2>2. retries' \in 0 .. MaxRetries
    BY <1>10, ConstantsAssumption DEF Boot
  <2>3. started' \in BOOLEAN
    BY <1>10 DEF Boot
  <2> QED BY <1>10, <2>1, <2>2, <2>3 DEF Boot, Phases
<1>11. CASE Crash
  BY <1>11, ConstantsAssumption DEF Crash, Fail, Phases
<1>12. ASSUME NEW v \in Crds, ChangeCrd(v) PROVE TypeOK'
  <2>1. changes' \in 0 .. MaxChanges
    BY <1>12, ConstantsAssumption DEF ChangeCrd
  <2> QED BY <1>12, <2>1, ChangeType DEF ChangeCrd
<1>13. ASSUME NEW n \in 0 .. OtherCrds, ChangeOther(n) PROVE TypeOK'
  <2>1. changes' \in 0 .. MaxChanges
    BY <1>13, ConstantsAssumption DEF ChangeOther
  <2> QED BY <1>13, <2>1, ChangeType DEF ChangeOther
<1>14. CASE UNCHANGED vars
  BY <1>14 DEF vars
<1> QED BY <1>1, <1>2, <1>3, <1>4, <1>5, <1>6, <1>7, <1>8, <1>9, <1>10, <1>11, <1>12,
           <1>13, <1>14 DEF Next, ProcessStep

\* Every variable keeps its type in every behavior.
THEOREM CapiTypeCorrect == Spec => []TypeOK
<1>1. Init => TypeOK
  <2> SUFFICES ASSUME Init PROVE TypeOK
    OBVIOUS
  <2>1. events \in Seq(Events)
    BY DEF Init
  <2>2. retries \in 0 .. MaxRetries /\ changes \in 0 .. MaxChanges /\ faults \in 0 .. MaxFaults
    BY ConstantsAssumption DEF Init
  <2> QED BY <2>1, <2>2 DEF Init, TypeOK, Phases
<1> QED BY <1>1, StepTypeOK, PTL DEF Spec

\* A step keeps the promise of the watcher, unless a CRD is upgraded in place.
LEMMA StepNothingMissed ==
  ASSUME ~Upgrades, TypeOK, NothingMissed, [Next]_vars
  PROVE  NothingMissed'
<1> SUFFICES ASSUME phase' = "watching", crd' = "served"
             PROVE  \E i \in 1 .. Len(events') : Restarts(events'[i])
  BY DEF NothingMissed, Restarts
\* What is listed includes the CRD.
<1>1. CASE StartWatch
  <2>1. crd = "served" /\ events' \in Listed
    BY <1>1 DEF StartWatch
  <2>2. \E i \in 1 .. Len(events') : Restarts(events'[i])
    BY <2>1, ListedServed
  <2> QED BY <2>2
\* An event that does not restart the process is not the one that was promised.
<1>2. CASE HandleEvent
  <2>1. /\ phase = "watching" /\ crd = "served" /\ ~Restarts(Head(events))
        /\ events # <<>> /\ events' = Tail(events)
    BY <1>2 DEF HandleEvent
  <2>2. PICK i \in 1 .. Len(events) : Restarts(events[i])
    BY <2>1 DEF NothingMissed
  <2>3. i # 1 /\ i - 1 \in 1 .. Len(events')
    BY <2>1, <2>2 DEF TypeOK
  <2>4. events'[i - 1] = events[i]
    BY <2>1, <2>3 DEF TypeOK
  <2> QED BY <2>2, <2>3, <2>4 DEF Restarts
\* Without upgrades, the CRD is only served after it was created.
<1>3. ASSUME NEW v \in Crds, ChangeCrd(v)
      PROVE  \E i \in 1 .. Len(events') : Restarts(events'[i])
  <2>1. crd = "absent" /\ v = "served" /\ phase = "watching"
    BY <1>3 DEF ChangeCrd, Crds
  <2>2. events' = Append(events, Event("v1beta2", "Create"))
    BY <1>3, <2>1 DEF ChangeCrd, Report, VersionOf
  <2>3. Len(events') \in 1 .. Len(events') /\ events'[Len(events')] = Event("v1beta2", "Create")
    BY <2>2 DEF TypeOK
  <2> QED BY <2>3 DEF Restarts, Event
\* What becomes of other CRDs is reported after what was promised.
<1>6. ASSUME NEW n \in 0 .. OtherCrds, ChangeOther(n)
      PROVE  \E i \in 1 .. Len(events') : Restarts(events'[i])
  <2>1. crd = "served" /\ phase = "watching"
    BY <1>6 DEF ChangeOther
  <2>2. PICK i \in 1 .. Len(events) : Restarts(events[i])
    BY <2>1 DEF NothingMissed
  <2>3. PICK e : events' = Append(events, e)
    BY <1>6, <2>1 DEF ChangeOther, Report
  <2>4. i \in 1 .. Len(events') /\ events'[i] = events[i]
    BY <2>3 DEF TypeOK
  <2> QED BY <2>2, <2>4 DEF Restarts
\* The other steps neither start the watcher nor touch its events.
<1>4. CASE UNCHANGED <<phase, crd, events>>
  BY <1>4 DEF NothingMissed, Restarts
<1>5. CASE CheckFails \/ Wake \/ CheckSucceeds \/ StartReconciler \/ ReconcilerFails
           \/ Exit \/ Boot \/ Crash \/ StartCache
  BY <1>4, <1>5 DEF CheckFails, Wake, CheckSucceeds, StartReconciler, ReconcilerFails,
     Exit, Boot, Crash, StartCache
<1> QED BY <1>1, <1>2, <1>3, <1>4, <1>5, <1>6 DEF Next, ProcessStep, vars

\* Unless it is installed by an in-place upgrade, Cluster API is never missed
\* between the check of capiWatchers and the start of the CRD watcher.
THEOREM InstallationNotMissed ==
  ASSUME ~Upgrades
  PROVE  Spec => []NothingMissed
<1>1. Init => NothingMissed
  BY DEF Init, NothingMissed
<1>2. TypeOK /\ NothingMissed /\ [Next]_vars => NothingMissed'
  BY StepNothingMissed
<1> QED BY <1>1, <1>2, CapiTypeCorrect, PTL DEF Spec

=============================================================================

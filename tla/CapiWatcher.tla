----------------------------- MODULE CapiWatcher -----------------------------
(***************************************************************************)
(* How the process finds out that Cluster API is installed (cmd/main.go):  *)
(* capiWatchers asks for the CRD of clusters, and either starts the        *)
(* Cluster reconciler or has libsveltos watch CRDs, and then restarts the  *)
(* process (capiCRDHandler) when a CRD of Cluster API shows up.  The       *)
(* watcher is an informer: it lists what exists, then reports every change *)
(* in order, and for a CRD each of its versions.                           *)
(*                                                                         *)
(* The check looks at the CRD of clusters and whether v1beta2 is served;   *)
(* the handler at the group and the version, of any CRD.                   *)
(***************************************************************************)
EXTENDS Naturals, Sequences

CONSTANTS
  MaxRetries,   \* failed checks that are followed by a pause: 20 in the code
  Upgrades,     \* whether a CRD may start or stop serving v1beta2 by an update
  OtherCrds,    \* CRDs of the group besides that of clusters: machines, ...
  MaxFaults,    \* bound on the number of failed reads and crashes
  MaxChanges    \* bound on the number of changes of CRDs

ASSUME ConstantsAssumption ==
  /\ MaxRetries \in Nat /\ MaxFaults \in Nat /\ MaxChanges \in Nat
  /\ OtherCrds \in Nat
  /\ Upgrades \in BOOLEAN

VARIABLES
  crd,          \* the CRD of clusters: absent, with older versions only, with
                \* v1beta2 but not serving it, or serving it
  others,       \* how many of the other CRDs of the group have v1beta2
  started,      \* the manager has started its cache
  phase,        \* what the process does about Cluster API
  retries,      \* failed checks, up to MaxRetries
  events,       \* what the CRD watcher has still to report to capiCRDHandler
  changes, faults

vars == <<crd, others, started, phase, retries, events, changes, faults>>

Crds == {"absent", "old", "unserved", "served"}

Phases ==
  {"checking", "sleeping",      \* the loop of capiWatchers
   "missing", "watching",       \* CRD not there: watcher to be started, started
   "found", "reconciling",      \* CRD there: reconciler set up, reconciler runs
   "exiting", "down"}           \* SIGTERM received, process gone

\* What the watcher reports: a version of a CRD, and what happened to it.  The handler
\* does not look at the kind.
Events == [version : {"v1beta1", "v1beta2"}, action : {"Create", "Modify", "Delete"}]

Event(version, action) == [version |-> version, action |-> action]

\* The version of the CRD of clusters that matters most to the handler.
VersionOf(v) == IF v = "old" THEN "v1beta1" ELSE "v1beta2"

\* Mutated: the version is not compared.
AnyVersion(e) == e.action # "Modify"

\* capiCRDHandler sends SIGTERM to its own process.
Restarts(e) == e.action # "Modify" /\ e.version = "v1beta2"

\* Mutated: off by one.
PausesOnceMore == retries <= MaxRetries

\* The loop of capiWatchers sleeps after a failed check.
Pauses == retries < MaxRetries

Fail == faults < MaxFaults /\ faults' = faults + 1

-----------------------------------------------------------------------------
Init ==
  /\ crd \in Crds /\ others \in 0 .. OtherCrds
  /\ started = FALSE
  /\ phase = "checking"
  /\ retries = 0
  /\ events = <<>>
  /\ changes = 0
  /\ faults = 0

\* The cached client answers from here on.
StartCache ==
  /\ ~started /\ phase # "down"
  /\ started' = TRUE
  /\ UNCHANGED <<crd, others, phase, retries, events, changes, faults>>

\* isCAPIInstalled returns an error.  Past MaxRetries the loop does not pause.
CheckFails ==
  /\ phase = "checking"
  /\ \/ ~started /\ UNCHANGED faults
     \/ started /\ Fail
  /\ IF Pauses
       THEN phase' = "sleeping" /\ retries' = retries + 1
       ELSE UNCHANGED <<phase, retries>>
  /\ UNCHANGED <<crd, others, started, events, changes>>

Wake ==
  /\ phase = "sleeping"
  /\ phase' = "checking"
  /\ UNCHANGED <<crd, others, started, retries, events, changes, faults>>

\* isCAPIInstalled returns nil: v1beta2 is served, or not.
CheckSucceeds ==
  /\ phase = "checking" /\ started
  /\ phase' = IF crd = "served" THEN "found" ELSE "missing"
  /\ UNCHANGED <<crd, others, started, retries, events, changes, faults>>

\* Mutated: the watcher reports changes only.
NothingListed == {<<>>}

\* What an informer reports first: the objects that exist, in any order.
Listed ==
  LET Several(n) == [i \in 1 .. n |-> Event("v1beta2", "Create")]
      mine == IF crd = "absent" THEN <<>> ELSE <<Event(VersionOf(crd), "Create")>> IN
  {Several(n) \o mine \o Several(others - n) : n \in 0 .. others}

\* WatchCustomResourceDefinition, in a goroutine of its own.
StartWatch ==
  /\ phase = "missing"
  /\ phase' = "watching"
  /\ events' \in Listed
  /\ UNCHANGED <<crd, others, started, retries, changes, faults>>

\* The reconciler's informer can list clusters...
StartReconciler ==
  /\ phase = "found" /\ crd = "served"
  /\ phase' = "reconciling"
  /\ UNCHANGED <<crd, others, started, retries, events, changes, faults>>

\* ...or it cannot: the CRD has gone meanwhile, the manager gives up and the
\* process exits.
ReconcilerFails ==
  /\ phase = "found" /\ crd # "served"
  /\ phase' = "down"
  /\ UNCHANGED <<crd, others, started, retries, events, changes, faults>>

\* capiCRDHandler is called; a second SIGTERM ends the process at once.
HandleEvent ==
  /\ phase \in {"watching", "exiting"} /\ events # <<>>
  /\ events' = Tail(events)
  /\ phase' = CASE ~Restarts(Head(events)) -> phase
                [] Restarts(Head(events)) /\ phase = "watching" -> "exiting"
                [] OTHER -> "down"
  /\ UNCHANGED <<crd, others, started, retries, changes, faults>>

\* The manager stops, main returns.
Exit ==
  /\ phase = "exiting"
  /\ phase' = "down"
  /\ UNCHANGED <<crd, others, started, retries, events, changes, faults>>

\* The kubelet starts the container again.
Boot ==
  /\ phase = "down"
  /\ phase' = "checking"
  /\ started' = FALSE /\ retries' = 0 /\ events' = <<>>
  /\ UNCHANGED <<crd, others, changes, faults>>

Crash ==
  /\ phase # "down"
  /\ Fail
  /\ phase' = "down"
  /\ UNCHANGED <<crd, others, started, retries, events, changes>>

\* A running watcher sees what happens to a CRD.
Report(version, action) ==
  events' = IF phase \in {"watching", "exiting"}
              THEN Append(events, Event(version, action)) ELSE events

\* The CRD of clusters is installed, upgraded or removed...
ChangeCrd(v) ==
  /\ changes < MaxChanges
  /\ v # crd
  /\ Upgrades \/ "absent" \in {v, crd}
  /\ crd' = v
  /\ changes' = changes + 1
  /\ CASE crd = "absent" -> Report(VersionOf(v), "Create")
       [] v = "absent" -> Report(VersionOf(crd), "Delete")
       [] OTHER -> Report(VersionOf(v), "Modify")
  /\ UNCHANGED <<others, started, phase, retries, faults>>

\* ...or one of the others is, which a removal may leave behind and an installation
\* may create first.
ChangeOther(n) ==
  /\ changes < MaxChanges
  /\ \/ n = others + 1 /\ Report("v1beta2", "Create")
     \/ n = others - 1 /\ Report("v1beta2", "Delete")
     \/ Upgrades /\ n \in {others + 1, others - 1} /\ Report("v1beta2", "Modify")
  /\ others' = n
  /\ changes' = changes + 1
  /\ UNCHANGED <<crd, started, phase, retries, faults>>

\* The steps the process takes by itself.
ProcessStep ==
  \/ CheckFails \/ Wake \/ CheckSucceeds
  \/ StartWatch \/ StartReconciler \/ ReconcilerFails
  \/ Exit \/ Boot

Next ==
  \/ StartCache
  \/ ProcessStep
  \/ HandleEvent
  \/ Crash
  \/ \E v \in Crds : ChangeCrd(v)
  \/ \E n \in 0 .. OtherCrds : ChangeOther(n)

Spec == Init /\ [][Next]_vars

\* Goroutines run, a read of the cache returns, an informer delivers what it has
\* seen, and a container that has exited is started again.
FairSpec == Spec /\ WF_vars(StartCache) /\ WF_vars(ProcessStep) /\ WF_vars(HandleEvent)

-----------------------------------------------------------------------------
\* Every variable has its type.
TypeOK ==
  /\ crd \in Crds /\ others \in 0 .. OtherCrds
  /\ started \in BOOLEAN
  /\ phase \in Phases
  /\ retries \in 0 .. MaxRetries
  /\ events \in Seq(Events)
  /\ changes \in 0 .. MaxChanges
  /\ faults \in 0 .. MaxFaults

\* A process that only watches CRDs while v1beta2 is served is about to restart:
\* what is installed between the check of capiWatchers and the start of the
\* watcher is not missed.  In-place upgrades apart, see capiCRDHandler.
NothingMissed ==
  phase = "watching" /\ crd = "served" =>
    \E i \in 1 .. Len(events) : Restarts(events[i])

\* Once Cluster API stays installed, the Cluster reconciler runs for good.  The
\* comment of capiCRDHandler says that the process restarts when a CAPI CRD is
\* updated.
EventuallyReconciling == <>[](crd = "served" => phase = "reconciling")

\* Some CRD of Cluster API has v1beta2, and isCAPIInstalled does not find the one it
\* looks for: an installation that is not complete yet, or a removal that is stuck.
Partial == crd # "served" /\ (crd = "unserved" \/ others > 0)

\* The process does not restart for ever (capiCRDHandler, while other versions of
\* the CRD exist, and whatever other CRDs do meanwhile), nor does it stay in the loop
\* of capiWatchers, unless Cluster API is never there completely.
EventuallySettled ==
  \/ []<>Partial
  \/ <>[](phase \in {"watching", "reconciling"})

\* The comment of capiCRDHandler says that the process restarts when a CAPI CRD is
\* updated: when none is any more, it does not restart for ever.
EventuallyRestsWithCrds == <>[](phase \in {"watching", "reconciling"})

=============================================================================

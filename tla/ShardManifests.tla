--------------------------- MODULE ShardManifests ---------------------------
(***************************************************************************)
(* What deployControllers sends to the API server and undeployControllers  *)
(* deletes: the five templates of pkg/sharding, the options and arguments  *)
(* added to them, the shard key they are rendered with and the patches of  *)
(* the shard-components ConfigMap (internal/controller/utils.go).          *)
(* ShardTracker takes all this as a value; here calls run one at a time.   *)
(*                                                                         *)
(* Calls for one shard change another's Deployments if what YAML keeps of  *)
(* the two keys is the same; ShardTracker leaves such keys out.            *)
(*                                                                         *)
(* Of a Deployment the model keeps its name, the arguments of its          *)
(* containers that the code handles, and one label, the thing patches set. *)
(***************************************************************************)
EXTENDS Naturals, Sequences, SequencesExt

CONSTANTS
  Options,    \* the command lines the process may have, see Flags
  Shards,     \* shard keys that leave the templates YAML
  Rendered,   \* what is read of each where a template has it without quotes: spaces and
              \* a comment at its end are lost, so that two keys may be read alike; what
              \* is read is valid in a name, and so is a key of which nothing is lost
  Keys,       \* keys of the ConfigMap's data
  Labels,     \* what patches set the label to
  Targets,    \* sets of components the target of a patch may select
  NoLabel,    \* the template's label
  NoTarget,   \* a patch without a target
  Hole,       \* the place of the shard key in a template, {{.SHARD}}
  None,       \* no Deployment, no value, no shard
  Invalid,    \* a value of the ConfigMap that is not a patch
  MaxCalls,   \* bound on the calls of deployControllers and undeployControllers
  MaxEdits    \* bound on the edits of the ConfigMap

Component == 1 .. 5     \* in the order of deployControllers

\* Which options are set.
Flags == [agentInMgmtCluster : BOOLEAN, driftDetectionConfig : BOOLEAN,
          sveltosAgentConfig : BOOLEAN, sveltosApplierConfig : BOOLEAN]

\* What becomes of the shard keys.
Readings == {Rendered[s] : s \in Shards}

\* The names of the Deployments; those of the templates have the hole.
Names == {"addon-controller", "classifier-manager", "sc-manager", "event-manager",
          "hc-manager"} \X (Readings \cup {Hole})

\* The arguments the code handles.
ArgFlags  == {"diagnostics-address", "report-mode", "shard-key", "version",
              "agent-in-mgmt-cluster", "drift-detection-config",
              "sveltos-agent-config", "sveltos-applier-config"}
ArgValues == {":8443", "0", "v1.17.0", "false", "true", "set"}
Arguments == [flag : ArgFlags, value : ArgValues \cup Readings \cup {Hole}]

Containers == [name : {"controller", "initialization", "manager", "migrate"},
               args : Seq(Arguments)]

\* Templates, and the Deployments made of them.
Manifests == [name : Names, containers : Seq(Containers), init : Seq(Containers),
              label : Labels \cup {NoLabel}]

ASSUME ConstantsAssumption ==
  /\ Options \subseteq Flags
  /\ Targets \subseteq SUBSET Component
  /\ NoTarget \notin Targets /\ NoLabel \notin Labels
  /\ DOMAIN Rendered = Shards
  /\ Hole \notin Readings \cup ArgValues /\ None \notin Shards \cup Manifests
  /\ IsFiniteSet(Keys)
  /\ MaxCalls \in Nat /\ MaxEdits \in Nat

VARIABLES
  flags,      \* the options of the command line
  data,       \* for each key of the ConfigMap, a patch, Invalid or None
  deployment, \* the Deployments in the API server, by name
  pc, shard, step,   \* the call being made
  patches,    \* the patches the call has read, in the order it applies them
  read,       \* history: the data they come from
  used,       \* shards that were deployed without an error: they have clusters
  calls, edits

vars == <<flags, data, deployment, pc, shard, step, patches, read, used, calls, edits>>

-----------------------------------------------------------------------------
(* The templates.                                                           *)

Arg(flag, value) == [flag |-> flag, value |-> value]
AgentArg(value) == Arg("agent-in-mgmt-cluster", value)
Container(name, args) == [name |-> name, args |-> args]
Template(name, containers, init) ==
  [name |-> <<name, Hole>>, containers |-> containers, init |-> init, label |-> NoLabel]

Diagnostics == Arg("diagnostics-address", ":8443")
ReportMode  == Arg("report-mode", "0")
ShardKey    == Arg("shard-key", Hole)
Version     == Arg("version", "v1.17.0")

AddonController == Template("addon-controller",
  <<Container("controller",
              <<Diagnostics, ReportMode, ShardKey, Version, AgentArg("false")>>)>>,
  <<Container("initialization", <<ReportMode, ShardKey, AgentArg("false")>>)>>)

Classifier == Template("classifier-manager",
  <<Container("manager",
              <<Diagnostics, ReportMode, ShardKey, Version, AgentArg("false")>>)>>,
  <<Container("migrate", <<>>)>>)

SveltosClusterManager == Template("sc-manager",
  <<Container("manager", <<Diagnostics, ShardKey>>)>>, <<>>)

EventManager == Template("event-manager",
  <<Container("manager", <<Diagnostics, ShardKey, Version, AgentArg("false")>>)>>, <<>>)

HealthCheckManager == Template("hc-manager",
  <<Container("manager", <<Diagnostics, ShardKey, Version, AgentArg("false")>>)>>, <<>>)

Templates == <<AddonController, Classifier, SveltosClusterManager, EventManager,
               HealthCheckManager>>

-----------------------------------------------------------------------------
(* Options and arguments.                                                   *)

IsAgentArg(a) == a.flag = "agent-in-mgmt-cluster"

\* The first such flag is overwritten by the last argument, which is cut off.
WithoutAgentArg(args) ==
  LET j == SelectInSeq(args, IsAgentArg) IN
  IF j = 0 THEN args ELSE Front(ReplaceAt(args, j, Last(args)))

\* Mutated: the new flag is added next to the old one.
AddAgentArg(c) == [c EXCEPT !.args = Append(@, AgentArg("true"))]

SetAgentArg(c) == [c EXCEPT !.args = Append(WithoutAgentArg(@), AgentArg("true"))]

SetOptions(t) ==
  [t EXCEPT !.containers = [i \in DOMAIN @ |-> SetAgentArg(@[i])],
            !.init = [i \in DOMAIN @ |-> SetAgentArg(@[i])]]

\* Mutated: the container is left with the new arguments only.
SetArgsOfContainer(t, name, args) ==
  [t EXCEPT !.containers =
     [i \in DOMAIN @ |-> IF @[i].name = name /\ args # <<>> THEN [@[i] EXCEPT !.args = args]
                                                           ELSE @[i]]]

WithArgs(c, args) == [c EXCEPT !.args = @ \o args]

AppendArgsToContainer(t, name, args) ==
  [t EXCEPT !.containers =
     [i \in DOMAIN @ |-> IF @[i].name = name THEN WithArgs(@[i], args) ELSE @[i]]]

ConfigArg ==
  [driftDetectionConfig |-> Arg("drift-detection-config", "set"),
   sveltosAgentConfig   |-> Arg("sveltos-agent-config", "set"),
   sveltosApplierConfig |-> Arg("sveltos-applier-config", "set")]

ConfigFlags(k) ==
  CASE k = 1 -> {"driftDetectionConfig"}
    [] k = 2 -> {"sveltosAgentConfig", "sveltosApplierConfig"}
    [] OTHER -> {}

\* The arguments addDriftDetectionConfig and addClassifierConfigs add.
ConfigArgs(k) == {ConfigArg[f] : f \in {g \in ConfigFlags(k) : flags[g]}}

\* Mutated: all containers are taken to have the name of the classifier's.
ManagerContainer(k) == "manager"

\* The container they are added to.
ConfigContainer(k) == IF k = 1 THEN "controller" ELSE "manager"

\* deployControllers does not set options of the sveltoscluster-manager.
WithOptions(k) ==
  IF flags.agentInMgmtCluster /\ k # 3 THEN SetOptions(Templates[k]) ELSE Templates[k]

\* The arguments come out of a map, in any order.
Configured(k) ==
  {AppendArgsToContainer(WithOptions(k), ConfigContainer(k), args) :
     args \in SetToSeqs(ConfigArgs(k))}

-----------------------------------------------------------------------------
(* Rendering and patches.                                                   *)

\* Mutated: the name has no place for the shard key.
KeptName(name, s) == name

Named(name, s) == <<name[1], Rendered[s]>>

Filled(c, s) ==
  [c EXCEPT !.args = [i \in DOMAIN @ |-> IF @[i].value = Hole THEN Arg(@[i].flag, Rendered[s])
                                                             ELSE @[i]]]

\* instantiateTemplate puts the key into the text, and GetUnstructured reads the text.
InstantiateTemplate(t, s) ==
  [t EXCEPT !.name = Named(@, s),
            !.containers = [i \in DOMAIN @ |-> Filled(@[i], s)],
            !.init = [i \in DOMAIN @ |-> Filled(@[i], s)]]

\* setOptions and appendArgsToContainer make JSON of a template before it is rendered.
Encoded(k) == (flags.agentInMgmtCluster /\ k # 3) \/ ConfigArgs(k) # {}

\* In JSON the key is between quotes and read as it is; the API server refuses a name
\* with what YAML takes away.
NameAccepted(k, s) == Encoded(k) => Rendered[s] = s

\* A value of the ConfigMap, and what getPatchesFromConfigMap makes of it.
Sources == [target : Targets \cup {NoTarget}, label : Labels]

\* Mutated: no default.
TargetAsIs(p) == IF p.target = NoTarget THEN {} ELSE p.target

\* A patch without a target is for every Deployment.
DefaultTarget(p) == IF p.target = NoTarget THEN Component ELSE p.target

Present == {x \in Keys : data[x] # None}

\* Mutated: an invalid value is skipped.
ValidPatches ==
  {[i \in DOMAIN order |-> [target |-> DefaultTarget(data[order[i]]),
                            label |-> data[order[i]].label]] :
     order \in SetToSeqs({x \in Present : data[x] # Invalid})}

\* One invalid value rejects them all; the others come in any order.
ParsedPatches ==
  IF \E x \in Present : data[x] = Invalid THEN {}
  ELSE {[i \in DOMAIN order |-> [target |-> DefaultTarget(data[order[i]]),
                                 label |-> data[order[i]].label]] :
          order \in SetToSeqs(Present)}

\* Mutated: the others are not looked at once a patch was.
FirstPatchOnly(t, k) ==
  IF patches # <<>> /\ k \in Head(patches).target
    THEN [t EXCEPT !.label = Head(patches).label] ELSE t

\* The patches that select component k, by their position.
Selecting(k) == {i \in DOMAIN patches : k \in patches[i].target}

\* Each patch applies to what the ones before it have made, so the last one that
\* selects the component has set its label.
ApplyShardPatches(t, k) ==
  IF Selecting(k) = {} THEN t ELSE [t EXCEPT !.label = patches[Max(Selecting(k))].label]

-----------------------------------------------------------------------------
Init ==
  /\ flags \in Options
  /\ data \in [Keys -> Sources \cup {Invalid, None}]
  /\ deployment = [n \in Names |-> None]
  /\ pc = "idle" /\ shard = None /\ step = 0
  /\ patches = <<>> /\ read = None
  /\ used = {}
  /\ calls = 0 /\ edits = 0

\* deployControllers: the patches are read once; an error ends the call here.
BeginDeploy(s) ==
  /\ pc = "idle" /\ calls < MaxCalls
  /\ patches' \in ParsedPatches
  /\ pc' = "deploying" /\ shard' = s /\ step' = 1
  /\ read' = data
  /\ calls' = calls + 1
  /\ UNCHANGED <<flags, data, deployment, used, edits>>

\* deployDeployment, by server-side apply.
DeployDeployment ==
  /\ pc = "deploying" /\ step \in Component
  /\ NameAccepted(step, shard)
  /\ \E t \in Configured(step) :
       LET d == ApplyShardPatches(InstantiateTemplate(t, shard), step) IN
       deployment' = [deployment EXCEPT ![d.name] = d]
  /\ step' = step + 1
  /\ UNCHANGED <<flags, data, pc, shard, patches, read, used, calls, edits>>

\* The last cluster of a shard leaves it; it is not counted any more, whatever comes
\* of the call.
BeginUndeploy(s) ==
  /\ pc = "idle" /\ calls < MaxCalls
  /\ s \in used /\ used' = used \ {s}
  /\ pc' = "undeploying" /\ shard' = s /\ step' = 1
  /\ calls' = calls + 1
  /\ UNCHANGED <<flags, data, deployment, patches, read, edits>>

\* Mutated: deleted by the label control-plane, which all shards have.
DeletedByLabel(k, s) ==
  [n \in Names |-> IF n[1] = Templates[k].name[1] THEN None ELSE deployment[n]]

\* undeployDeployment: the name is that of the template, without the patches.
Deleted(k, s) == [deployment EXCEPT ![InstantiateTemplate(Templates[k], s).name] = None]

UndeployDeployment ==
  /\ pc = "undeploying" /\ step \in Component
  /\ deployment' = Deleted(step, shard)
  /\ step' = step + 1
  /\ UNCHANGED <<flags, data, pc, shard, patches, read, used, calls, edits>>

\* Mutated: the cluster is counted before the call.
ReturnCounted ==
  /\ pc # "idle"
  /\ pc' = "idle" /\ shard' = None /\ step' = 0
  /\ patches' = <<>> /\ read' = None
  /\ used' = IF pc = "deploying" THEN used \cup {shard} ELSE used
  /\ UNCHANGED <<flags, data, deployment, calls, edits>>

\* The call returns: all is done, and a cluster is counted if it was a deployment; or
\* the API server has refused something.
Return ==
  /\ pc # "idle"
  /\ pc' = "idle" /\ shard' = None /\ step' = 0
  /\ patches' = <<>> /\ read' = None
  /\ used' = IF pc = "deploying" /\ step = 6 THEN used \cup {shard} ELSE used
  /\ UNCHANGED <<flags, data, deployment, calls, edits>>

\* A user edits the ConfigMap.
Edit(x, p) ==
  /\ edits < MaxEdits
  /\ p # data[x]
  /\ data' = [data EXCEPT ![x] = p]
  /\ edits' = edits + 1
  /\ UNCHANGED <<flags, deployment, pc, shard, step, patches, read, used, calls>>

Next ==
  \/ \E s \in Shards : BeginDeploy(s) \/ BeginUndeploy(s)
  \/ DeployDeployment
  \/ UndeployDeployment
  \/ Return
  \/ \E x \in Keys, p \in Sources \cup {Invalid, None} : Edit(x, p)

Spec == Init /\ [][Next]_vars

-----------------------------------------------------------------------------
(* Properties.                                                              *)

\* A patch of a call that deploys.
Patches == [target : SUBSET Component, label : Labels]

\* Every variable has its type: what deployControllers sends is a Deployment, by
\* whatever options, arguments and patches it was changed, and it sends any only
\* when every value of the ConfigMap is a patch.
TypeOK ==
  /\ flags \in Options
  /\ data \in [Keys -> Sources \cup {Invalid, None}]
  /\ deployment \in [Names -> Manifests \cup {None}]
  /\ \/ pc = "idle" /\ shard = None /\ step = 0
     \/ pc \in {"deploying", "undeploying"} /\ shard \in Shards /\ step \in 1 .. 6
  /\ \/ pc = "deploying" /\ patches \in Seq(Patches) /\ read \in [Keys -> Sources \cup {None}]
     \/ pc # "deploying" /\ patches = <<>> /\ read = None
  /\ used \in SUBSET Shards
  /\ calls \in 0 .. MaxCalls
  /\ edits \in 0 .. MaxEdits

\* The Deployment of component k for a shard.
Of(k, s) == deployment[<<Templates[k].name[1], Rendered[s]>>]

Deployed == {ks \in Component \X Shards : Of(ks[1], ks[2]) # None}

AllContainers(t) == t.containers \o t.init

IsConfigArg(a) == \E f \in DOMAIN ConfigArg : a.flag = ConfigArg[f].flag

\* The argument is given, and its flag only once.
Once(args, a) ==
  \E j \in DOMAIN args :
    args[j] = a /\ \A i \in DOMAIN args : args[i].flag = a.flag => i = j

\* Whatever is added or replaced, every other argument of the template stays, with
\* what YAML keeps of the shard key where the template has a place for it, once, and
\* nothing else is there (setOptions moves the last argument; appendArgsToContainer
\* copies).
ArgumentsKept ==
  \A ks \in Deployed :
    LET Other(a) == ~IsAgentArg(a) /\ ~IsConfigArg(a)
        was == AllContainers(Templates[ks[1]])
        is  == AllContainers(Of(ks[1], ks[2])) IN
    /\ Len(is) = Len(was)
    /\ \A i \in DOMAIN is :
         LET before == Filled(was[i], ks[2]).args
             now    == is[i].args IN
         /\ \A j \in DOMAIN before : Other(before[j]) => Once(now, before[j])
         /\ \A j \in DOMAIN now : Other(now[j]) => Once(before, now[j])

\* A container that takes the flag gets it once, with the value of the process
\* (deployControllers and setOptions).
AgentOptionPassed ==
  \A ks \in Deployed :
    LET was == AllContainers(Templates[ks[1]])
        is  == AllContainers(Of(ks[1], ks[2])) IN
    \A i \in DOMAIN is :
      (\E j \in DOMAIN was[i].args : IsAgentArg(was[i].args[j])) =>
        Once(is[i].args, AgentArg(IF flags.agentInMgmtCluster THEN "true" ELSE "false"))

\* Each config of the command line reaches the container that runs its component,
\* once, and no other (addDriftDetectionConfig and addClassifierConfigs name the
\* container; the names are in the templates).
ConfigsPassed ==
  \A ks \in Deployed :
    LET is == AllContainers(Of(ks[1], ks[2])) IN
    /\ \A a \in ConfigArgs(ks[1]) : Once(is[1].args, a)
    /\ \A i \in DOMAIN is : \A j \in DOMAIN is[i].args :
         IsConfigArg(is[i].args[j]) => i = 1 /\ is[i].args[j] \in ConfigArgs(ks[1])

\* A complete call leaves all five Deployments of its shard, or none: what is
\* deleted is what was deployed, and no two components share a name.
CompleteSets ==
  step = 6 =>
    \A k \in Component : Of(k, shard) # None <=> pc = "deploying"

\* A call changes no Deployment of a shard whose key is read differently: names are
\* made of the key and nothing else selects a Deployment (undeployDeployment).
OtherShardsKept ==
  [][\A s \in Shards :
       (shard \in Shards => Rendered[s] # Rendered[shard]) =>
         \A k \in Component : UNCHANGED Of(k, s)]_vars

\* While a shard has clusters its set is complete, whatever becomes of other shards and
\* however often it is deployed again and fails to (deployControllers,
\* undeployControllers), if no other key is read like its own: else the removal of
\* one shard takes the Deployments of the other.
SetsApart ==
  \A s \in used :
    (\A t \in Shards : Rendered[t] = Rendered[s] => t = s) =>
      \A k \in Component : Of(k, s) # None

\* The values of the ConfigMap that were read and are meant for component k.
Aimed(k) ==
  {x \in Keys : /\ read[x] # None
                /\ read[x].target = NoTarget \/ k \in read[x].target}

\* After a complete deployment the patches have reached the components they are
\* meant for, and no others, and components with the same patches are patched
\* alike, in whatever order the map gave them.
PatchesReach ==
  pc = "deploying" /\ step = 6 =>
    \A k, j \in Component :
      /\ IF Aimed(k) = {} THEN Of(k, shard).label = NoLabel
                          ELSE Of(k, shard).label \in {read[x].label : x \in Aimed(k)}
      /\ Aimed(k) = Aimed(j) => Of(k, shard).label = Of(j, shard).label

\* What two calls make of component k when nothing was edited in between: the same
\* arguments of every container, in the same order unless two come out of a map,
\* and the same label unless two patches set it.
Alike(k, d, e) ==
  LET is == AllContainers(d)
      becomes == AllContainers(e) IN
  /\ Len(is) = Len(becomes)
  /\ \A i \in DOMAIN is : ToBag(is[i].args) = ToBag(becomes[i].args)
  /\ Cardinality(ConfigArgs(k)) < 2 => is = becomes
  /\ Cardinality(Aimed(k)) < 2 => d.label = e.label

\* Deploying a shard again changes nothing by itself, so no pod is rolled for
\* nothing, where maps are iterated over: two configs of the classifier
\* (appendArgsToContainer) and the values of the ConfigMap (getPatchesFromConfigMap).
\* Two configs of the classifier may swap, and two patches of one field compete.
RedeployStable ==
  [][\A ks \in Deployed :
       edits = 0 /\ pc = "deploying" /\ Of(ks[1], ks[2])' # None =>
         Alike(ks[1], Of(ks[1], ks[2]), Of(ks[1], ks[2])')]_vars

=============================================================================

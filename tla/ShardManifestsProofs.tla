------------------------ MODULE ShardManifestsProofs ------------------------
(***************************************************************************)
(* Proofs about ShardManifests: what is sent for a component of a shard is *)
(* the Deployment of that component and that shard, with the label of a    *)
(* patch meant for it.                                                     *)
(***************************************************************************)
EXTENDS ShardManifests, FiniteSetTheorems, SequenceTheorems, WellFoundedInduction, TLAPS

-----------------------------------------------------------------------------
(* Templates, options and arguments.                                        *)

\* The templates are Deployments, with a place for the shard key in their names.
LEMMA TemplateType ==
  ASSUME NEW k \in Component
  PROVE  /\ Templates[k] \in Manifests
         /\ Templates[k].name[2] = Hole /\ Templates[k].label = NoLabel
<1> USE DEF Template, Container, AgentArg, Arg, Diagnostics, ReportMode, ShardKey, Version,
            Manifests, Names, Containers, Arguments, ArgFlags, ArgValues
<1>1. /\ AddonController \in Manifests
      /\ AddonController.name[2] = Hole /\ AddonController.label = NoLabel
  BY DEF AddonController
<1>2. /\ Classifier \in Manifests
      /\ Classifier.name[2] = Hole /\ Classifier.label = NoLabel
  BY DEF Classifier
<1>3. /\ SveltosClusterManager \in Manifests
      /\ SveltosClusterManager.name[2] = Hole /\ SveltosClusterManager.label = NoLabel
  BY DEF SveltosClusterManager
<1>4. /\ EventManager \in Manifests
      /\ EventManager.name[2] = Hole /\ EventManager.label = NoLabel
  BY DEF EventManager
<1>5. /\ HealthCheckManager \in Manifests
      /\ HealthCheckManager.name[2] = Hole /\ HealthCheckManager.label = NoLabel
  BY DEF HealthCheckManager
<1> HIDE DEF Manifests
<1> QED BY <1>1, <1>2, <1>3, <1>4, <1>5 DEF Templates, Component

\* No two of them share a name.
LEMMA TemplateNames ==
  ASSUME NEW k \in Component, NEW j \in Component, Templates[k].name[1] = Templates[j].name[1]
  PROVE  k = j
  BY DEF Templates, Template, Component, AddonController, Classifier, SveltosClusterManager,
         EventManager, HealthCheckManager

\* Replacing the flag (setOptions) leaves a list of arguments.
LEMMA WithoutAgentArgType ==
  ASSUME NEW args \in Seq(Arguments)
  PROVE  WithoutAgentArg(args) \in Seq(Arguments)
<1> DEFINE j == SelectInSeq(args, IsAgentArg)
<1>1. CASE j = 0
  BY <1>1 DEF WithoutAgentArg
<1>2. CASE j # 0
  <2>1. args # <<>>
    BY <1>2 DEF SelectInSeq
  <2>2. Len(args) \in 1 .. Len(args)
    BY <2>1
  <2>3. Last(args) \in Arguments
    BY <2>2, ElementOfSeq DEF Last
  <2>4. ReplaceAt(args, j, Last(args)) \in [1 .. Len(args) -> Arguments]
    BY <2>3, LenProperties DEF ReplaceAt
  <2>5. ReplaceAt(args, j, Last(args)) \in Seq(Arguments)
    BY <2>4, SeqDef, LenProperties
  <2> QED BY <1>2, <2>1, <2>5 DEF WithoutAgentArg, Front
<1> QED BY <1>1, <1>2

LEMMA SetAgentArgType ==
  ASSUME NEW c \in Containers
  PROVE  SetAgentArg(c) \in Containers
<1>1. AgentArg("true") \in Arguments
  BY DEF AgentArg, Arg, Arguments, ArgFlags, ArgValues
<1>2. c.args \in Seq(Arguments)
  BY DEF Containers
<1>3. Append(WithoutAgentArg(c.args), AgentArg("true")) \in Seq(Arguments)
  BY <1>1, <1>2, WithoutAgentArgType
<1> QED BY <1>3 DEF SetAgentArg, Containers

\* A function on the positions of a list is a list.
LEMMA MappedSeq ==
  ASSUME NEW S, NEW T, NEW list \in Seq(S), NEW f, f \in [1 .. Len(list) -> T]
  PROVE  f \in Seq(T)
  BY SeqDef, LenProperties

\* Options and arguments change neither the name nor the label.
LEMMA SetOptionsType ==
  ASSUME NEW t \in Manifests
  PROVE  /\ SetOptions(t) \in Manifests
         /\ SetOptions(t).name = t.name /\ SetOptions(t).label = t.label
<1> DEFINE cs == [i \in DOMAIN t.containers |-> SetAgentArg(t.containers[i])]
           is == [i \in DOMAIN t.init |-> SetAgentArg(t.init[i])]
<1>1. t.containers \in Seq(Containers) /\ t.init \in Seq(Containers)
  BY DEF Manifests
<1>2. /\ \A i \in 1 .. Len(t.containers) : SetAgentArg(t.containers[i]) \in Containers
      /\ \A i \in 1 .. Len(t.init) : SetAgentArg(t.init[i]) \in Containers
  BY <1>1, ElementOfSeq, SetAgentArgType
<1>3. cs \in Seq(Containers) /\ is \in Seq(Containers)
  <2>1. /\ cs \in [1 .. Len(t.containers) -> Containers]
        /\ is \in [1 .. Len(t.init) -> Containers]
    BY <1>1, <1>2, LenProperties
  <2> QED BY <1>1, <2>1, MappedSeq
<1>4. SetOptions(t) = [t EXCEPT !.containers = cs, !.init = is]
  BY DEF SetOptions
<1> QED BY <1>3, <1>4 DEF Manifests

LEMMA AppendArgsType ==
  ASSUME NEW t \in Manifests, NEW name, NEW args \in Seq(Arguments)
  PROVE  LET a == AppendArgsToContainer(t, name, args) IN
         a \in Manifests /\ a.name = t.name /\ a.label = t.label
<1> DEFINE cs == [i \in DOMAIN t.containers |->
                    IF t.containers[i].name = name
                      THEN WithArgs(t.containers[i], args)
                      ELSE t.containers[i]]
<1>1. t.containers \in Seq(Containers)
  BY DEF Manifests
<1>2. cs \in [1 .. Len(t.containers) -> Containers]
  <2> SUFFICES ASSUME NEW i \in 1 .. Len(t.containers) PROVE cs[i] \in Containers
    BY <1>1, LenProperties
  <2>1. t.containers[i] \in Containers /\ i \in DOMAIN t.containers
    BY <1>1, ElementOfSeq, LenProperties
  <2>2. t.containers[i].args \o args \in Seq(Arguments)
    BY <2>1, ConcatProperties DEF Containers
  <2> QED BY <2>1, <2>2 DEF WithArgs, Containers
<1>3. cs \in Seq(Containers)
  BY <1>1, <1>2, MappedSeq
<1>4. AppendArgsToContainer(t, name, args) = [t EXCEPT !.containers = cs]
  BY DEF AppendArgsToContainer
<1> QED BY <1>3, <1>4 DEF Manifests

\* A configuration adds no more than three arguments.
LEMMA ConfigArgsFinite ==
  ASSUME NEW k \in Component
  PROVE  IsFiniteSet(ConfigArgs(k))
<1> DEFINE all == {ConfigArg.driftDetectionConfig} \cup {ConfigArg.sveltosAgentConfig}
                    \cup {ConfigArg.sveltosApplierConfig}
<1>1. ConfigArgs(k) \subseteq all
  BY DEF ConfigArgs, ConfigFlags, ConfigArg
<1>2. IsFiniteSet(all)
  <2>1. IsFiniteSet({ConfigArg.driftDetectionConfig})
    BY FS_Singleton
  <2>2. IsFiniteSet({ConfigArg.driftDetectionConfig} \cup {ConfigArg.sveltosAgentConfig})
    BY <2>1, FS_AddElement
  <2> QED BY <2>2, FS_AddElement
<1> QED BY <1>1, <1>2, FS_Subset

\* The arguments a configuration adds are a list.
LEMMA ConfigArgsType ==
  ASSUME NEW k \in Component, NEW args \in SetToSeqs(ConfigArgs(k))
  PROVE  args \in Seq(Arguments)
<1>1. ConfigArgs(k) \subseteq Arguments
  BY DEF ConfigArgs, ConfigFlags, ConfigArg, Arg, Arguments, ArgFlags, ArgValues
<1>2. IsFiniteSet(ConfigArgs(k))
  BY ConfigArgsFinite
<1>3. Cardinality(ConfigArgs(k)) \in Nat
  BY <1>2, FS_CardinalityType
<1>4. args \in [1 .. Cardinality(ConfigArgs(k)) -> ConfigArgs(k)]
  BY DEF SetToSeqs
<1>5. args \in Seq(ConfigArgs(k))
  BY <1>3, <1>4, SeqDef
<1> QED BY <1>1, <1>5, SeqMonotonic

\* What deployControllers makes of a template.
LEMMA ConfiguredType ==
  ASSUME NEW k \in Component, NEW t \in Configured(k)
  PROVE  /\ t \in Manifests /\ t.name = Templates[k].name /\ t.label = NoLabel
<1>1. PICK args \in SetToSeqs(ConfigArgs(k)) :
        t = AppendArgsToContainer(WithOptions(k), ConfigContainer(k), args)
  BY DEF Configured
<1>2. /\ WithOptions(k) \in Manifests
      /\ WithOptions(k).name = Templates[k].name /\ WithOptions(k).label = NoLabel
  BY TemplateType, SetOptionsType DEF WithOptions
<1> QED BY <1>1, <1>2, AppendArgsType, ConfigArgsType

\* Rendering puts the shard key in place of the hole (instantiateTemplate).
LEMMA InstantiateType ==
  ASSUME NEW t \in Manifests, NEW s \in Shards
  PROVE  LET d == InstantiateTemplate(t, s) IN
         d \in Manifests /\ d.name = <<t.name[1], Rendered[s]>> /\ d.label = t.label
<1>0. Rendered[s] \in Readings
  BY DEF Readings
<1>1. ASSUME NEW c \in Containers PROVE Filled(c, s) \in Containers
  <2> DEFINE args == [i \in DOMAIN c.args |->
                        IF c.args[i].value = Hole THEN Arg(c.args[i].flag, Rendered[s])
                                                  ELSE c.args[i]]
  <2>1. c.args \in Seq(Arguments)
    BY DEF Containers
  <2>2. args \in [1 .. Len(c.args) -> Arguments]
    BY <1>0, <2>1, ElementOfSeq, LenProperties DEF Arg, Arguments
  <2>3. args \in Seq(Arguments)
    BY <2>1, <2>2, MappedSeq
  <2>4. Filled(c, s) = [c EXCEPT !.args = args]
    BY DEF Filled
  <2> QED BY <2>3, <2>4 DEF Containers
<1> DEFINE cs == [i \in DOMAIN t.containers |-> Filled(t.containers[i], s)]
           is == [i \in DOMAIN t.init |-> Filled(t.init[i], s)]
<1>2. t.containers \in Seq(Containers) /\ t.init \in Seq(Containers) /\ t.name \in Names
  BY DEF Manifests
<1>3. /\ cs \in [1 .. Len(t.containers) -> Containers]
      /\ is \in [1 .. Len(t.init) -> Containers]
  BY <1>1, <1>2, ElementOfSeq, LenProperties
<1>4. cs \in Seq(Containers) /\ is \in Seq(Containers)
  BY <1>2, <1>3, MappedSeq
<1>5. Named(t.name, s) \in Names /\ Named(t.name, s) = <<t.name[1], Rendered[s]>>
  BY <1>0, <1>2 DEF Named, Names
<1>6. InstantiateTemplate(t, s) =
        [t EXCEPT !.name = Named(@, s), !.containers = cs, !.init = is]
  BY DEF InstantiateTemplate
<1> QED BY <1>4, <1>5, <1>6 DEF Manifests

-----------------------------------------------------------------------------
(* Patches.                                                                 *)

\* A list has a last position among those that are not excluded.
LEMMA LastPosition ==
  ASSUME NEW n \in Nat, NEW S \in SUBSET (1 .. n), S # {}
  PROVE  Max(S) \in S
<1> DEFINE T == {n - i : i \in S}
<1>1. T \subseteq Nat /\ T # {}
  <2>1. \A i \in S : i \in 1 .. n
    OBVIOUS
  <2>2. \A i \in S : n - i \in Nat
    BY <2>1
  <2> QED BY <2>2
<1>2. PICK m \in T : \A y \in T : ~ (<<y, m>> \in OpToRel(<, Nat))
  BY <1>1, NatLessThanWellFounded, WFMin
<1>3. PICK x \in S : m = n - x
  OBVIOUS
<1>4. \A y \in S : x >= y
  <2> SUFFICES ASSUME NEW y \in S PROVE x >= y
    OBVIOUS
  <2>1. n - y \in T /\ n - y \in Nat /\ m \in Nat
    BY <1>1
  <2>2. ~ (n - y < m)
    BY <1>2, <2>1 DEF OpToRel
  <2> QED BY <1>3, <2>2
<1> QED BY <1>3, <1>4 DEF Max

\* The values of the ConfigMap are listed once each, and all of them.
LEMMA ListedAll ==
  ASSUME NEW P \in SUBSET Keys, NEW order \in SetToSeqs(P)
  PROVE  /\ order \in Seq(P) /\ DOMAIN order = 1 .. Len(order)
         /\ \A x \in P : \E i \in DOMAIN order : order[i] = x
<1> DEFINE n == Cardinality(P)
<1>1. IsFiniteSet(P) /\ n \in Nat
  BY ConstantsAssumption, FS_Subset, FS_CardinalityType
<1>2. order \in Injection(1 .. n, P)
  BY DEF SetToSeqs, Injection, IsInjective
<1>3. Cardinality(1 .. n) = n
  BY <1>1, FS_Interval
<1>4. order \in Surjection(1 .. n, P)
  BY <1>1, <1>2, <1>3, FS_Injection
<1>5. order \in [1 .. n -> P]
  BY <1>2 DEF Injection
<1>6. order \in Seq(P) /\ Len(order) = n
  BY <1>1, <1>5, SeqDef, LenProperties
<1> QED BY <1>4, <1>5, <1>6 DEF Surjection

\* The patches are those of the data that were read, in some order.
FromRead ==
  pc = "deploying" =>
    \E order \in SetToSeqs({x \in Keys : read[x] # None}) :
      patches = [i \in DOMAIN order |-> [target |-> DefaultTarget(read[order[i]]),
                                         label |-> read[order[i]].label]]

\* The patches that select a component are those that are aimed at it.
LEMMA SelectingAimed ==
  ASSUME TypeOK, FromRead, pc = "deploying"
  PROVE  /\ \A k \in Component : Selecting(k) = {} <=> Aimed(k) = {}
         /\ \A k \in Component : \A i \in Selecting(k) :
              \E x \in Aimed(k) : patches[i].label = read[x].label
         /\ \A k, j \in Component : Aimed(k) = Aimed(j) => Selecting(k) = Selecting(j)
<1> DEFINE P == {x \in Keys : read[x] # None}
<1>1. PICK order \in SetToSeqs(P) :
        patches = [i \in DOMAIN order |-> [target |-> DefaultTarget(read[order[i]]),
                                           label |-> read[order[i]].label]]
  BY DEF FromRead
<1>2. /\ order \in Seq(P) /\ DOMAIN order = 1 .. Len(order)
      /\ \A x \in P : \E i \in DOMAIN order : order[i] = x
  BY ListedAll
<1>3. \A i \in DOMAIN order : order[i] \in P
  BY <1>2, ElementOfSeq
<1>4. \A x \in P : read[x] \in Sources
  BY DEF TypeOK
<1>5. \A x \in P, k \in Component :
        k \in DefaultTarget(read[x]) <=> x \in Aimed(k)
  BY <1>4 DEF DefaultTarget, Aimed
<1>6. \A k \in Component : Aimed(k) \subseteq P
  BY DEF Aimed
<1>7. \A k \in Component, i \in DOMAIN order : i \in Selecting(k) <=> order[i] \in Aimed(k)
  BY <1>1, <1>3, <1>5 DEF Selecting
<1>8. \A k \in Component : Selecting(k) \subseteq DOMAIN order
  BY <1>1 DEF Selecting
<1>9. \A k \in Component : Selecting(k) = {} <=> Aimed(k) = {}
  BY <1>2, <1>6, <1>7, <1>8
<1>10. \A k \in Component : \A i \in Selecting(k) :
         \E x \in Aimed(k) : patches[i].label = read[x].label
  BY <1>1, <1>7, <1>8
<1>11. \A k, j \in Component : Aimed(k) = Aimed(j) => Selecting(k) = Selecting(j)
  BY <1>7, <1>8
<1> QED BY <1>9, <1>10, <1>11

-----------------------------------------------------------------------------
(* What a call sends and deletes.                                           *)

NameOf(k, s) == <<Templates[k].name[1], Rendered[s]>>

\* The label that the patches of a call give component k.
LabelOf(k) ==
  IF Selecting(k) = {} THEN NoLabel ELSE patches[Max(Selecting(k))].label

\* Each component has a name of its own, for all keys that are read alike.
LEMMA NamesDiffer ==
  /\ \A k \in Component, s \in Shards : NameOf(k, s) \in Names
  /\ \A k, j \in Component : \A s, x :
       NameOf(k, s) = NameOf(j, x) <=> k = j /\ Rendered[s] = Rendered[x]
<1>1. \A k \in Component : Templates[k].name \in Names
  BY TemplateType DEF Manifests
<1>2. \A k \in Component, s \in Shards : NameOf(k, s) \in Names
  BY <1>1 DEF Names, NameOf, Readings
<1> QED BY <1>2, TemplateNames DEF NameOf

\* Those of one shard are told apart by the component.
LEMMA OwnNames ==
  \A k, j \in Component, s \in Shards :
    /\ NameOf(k, s) \in Names
    /\ NameOf(k, s) = NameOf(j, s) <=> k = j
<1> SUFFICES ASSUME NEW k \in Component, NEW j \in Component, NEW s \in Shards
             PROVE  /\ NameOf(k, s) \in Names
                    /\ NameOf(k, s) = NameOf(j, s) <=> k = j
  OBVIOUS
<1>1. NameOf(k, s) \in Names
  BY NamesDiffer, Zenon
<1>2. NameOf(k, s) = NameOf(j, s) => k = j
  BY TemplateNames DEF NameOf
<1> QED BY <1>1, <1>2

\* The label is one of the template or of a patch.
LEMMA LabelType ==
  ASSUME TypeOK, pc = "deploying", NEW k \in Component, Selecting(k) # {}
  PROVE  Max(Selecting(k)) \in Selecting(k) /\ LabelOf(k) \in Labels
<1>1. patches \in Seq(Patches) /\ Len(patches) \in Nat /\ DOMAIN patches = 1 .. Len(patches)
  BY LenProperties DEF TypeOK
<1>2. Max(Selecting(k)) \in Selecting(k)
  BY <1>1, LastPosition DEF Selecting
<1>3. patches[Max(Selecting(k))] \in Patches
  BY <1>1, <1>2, ElementOfSeq DEF Selecting
<1> QED BY <1>2, <1>3 DEF LabelOf, Patches

\* What deployDeployment sends is the Deployment of that component and shard.
LEMMA Sent ==
  ASSUME TypeOK, pc = "deploying", step \in Component, NEW t \in Configured(step)
  PROVE  LET d == ApplyShardPatches(InstantiateTemplate(t, shard), step) IN
         /\ d \in Manifests /\ d # None
         /\ d.name = NameOf(step, shard) /\ d.label = LabelOf(step)
<1> DEFINE r == InstantiateTemplate(t, shard)
           d == ApplyShardPatches(r, step)
<1>1. shard \in Shards
  BY DEF TypeOK
<1>2. r \in Manifests /\ r.name = NameOf(step, shard) /\ r.label = NoLabel
  BY <1>1, ConfiguredType, InstantiateType DEF NameOf
<1>3. d \in Manifests /\ d.name = r.name /\ d.label = LabelOf(step)
  <2>1. CASE Selecting(step) = {}
    BY <1>2, <2>1 DEF ApplyShardPatches, LabelOf
  <2>2. CASE Selecting(step) # {}
    <3>1. LabelOf(step) \in Labels
      BY <2>2, LabelType
    <3>2. d = [r EXCEPT !.label = LabelOf(step)]
      BY <2>2 DEF ApplyShardPatches, LabelOf
    <3> QED BY <1>2, <3>1, <3>2 DEF Manifests
  <2> QED BY <2>1, <2>2
<1> QED BY <1>2, <1>3, ConstantsAssumption

\* What undeployDeployment deletes is that one.
LEMMA DeletesNamed ==
  ASSUME NEW k \in Component, NEW s \in Shards
  PROVE  Deleted(k, s) = [deployment EXCEPT ![NameOf(k, s)] = None]
  BY TemplateType, InstantiateType DEF Deleted, NameOf

-----------------------------------------------------------------------------
(* The invariant of a call.                                                 *)

\* The components before the step have been deployed, with their labels, or deleted.
Progress ==
  \A k \in Component : k < step =>
    /\ pc = "deploying" => Of(k, shard) # None /\ Of(k, shard).label = LabelOf(k)
    /\ pc = "undeploying" => Of(k, shard) = None

CallInv == TypeOK /\ FromRead /\ Progress

LEMMA InitCallInv == Init => CallInv
<1> SUFFICES ASSUME Init PROVE CallInv
  OBVIOUS
<1>1. TypeOK
  BY ConstantsAssumption DEF Init, TypeOK
<1>2. FromRead /\ Progress
  BY DEF Init, FromRead, Progress
<1> QED BY <1>1, <1>2 DEF CallInv

\* The data are read as patches, or not at all.
LEMMA ReadsPatches ==
  ASSUME TypeOK, NEW s \in Shards, BeginDeploy(s)
  PROVE  TypeOK' /\ FromRead'
<1>1. /\ \A x \in Present : data[x] # Invalid
      /\ \E order \in SetToSeqs(Present) :
           patches' = [i \in DOMAIN order |-> [target |-> DefaultTarget(data[order[i]]),
                                               label |-> data[order[i]].label]]
  BY DEF BeginDeploy, ParsedPatches
<1>2. read' = data /\ Present = {x \in Keys : data[x] # None}
  BY DEF BeginDeploy, Present
<1>3. FromRead'
  BY <1>1, <1>2 DEF FromRead
<1>4. PICK order \in SetToSeqs(Present) :
        patches' = [i \in DOMAIN order |-> [target |-> DefaultTarget(data[order[i]]),
                                            label |-> data[order[i]].label]]
  BY <1>1
<1>5. /\ order \in Seq(Present) /\ Len(order) \in Nat /\ DOMAIN order = 1 .. Len(order)
  BY <1>2, ListedAll, LenProperties
<1>6. \A x \in Present : [target |-> DefaultTarget(data[x]), label |-> data[x].label] \in Patches
  <2> SUFFICES ASSUME NEW x \in Present
               PROVE  [target |-> DefaultTarget(data[x]), label |-> data[x].label] \in Patches
    OBVIOUS
  <2>1. data[x] \in Sources
    BY <1>1, <1>2 DEF TypeOK
  <2> QED BY <2>1, ConstantsAssumption DEF Sources, DefaultTarget, Patches
<1>7. patches' \in Seq(Patches)
  <2>1. \A i \in 1 .. Len(order) : order[i] \in Present
    BY <1>5, ElementOfSeq
  <2>2. patches' \in [1 .. Len(order) -> Patches]
    BY <1>4, <1>5, <1>6, <2>1
  <2> QED BY <1>5, <2>2, SeqDef
<1>8. read' \in [Keys -> Sources \cup {None}]
  BY <1>1, <1>2 DEF TypeOK
<1>9. TypeOK'
  BY <1>7, <1>8, ConstantsAssumption DEF BeginDeploy, TypeOK
<1> QED BY <1>3, <1>9

\* A call keeps its invariant, component by component.
LEMMA StepCallInv == CallInv /\ [Next]_vars => CallInv'
<1> SUFFICES ASSUME CallInv, [Next]_vars PROVE CallInv'
  OBVIOUS
<1>1. TypeOK /\ FromRead /\ Progress
  BY DEF CallInv
<1>2. ASSUME NEW s \in Shards, BeginDeploy(s) PROVE CallInv'
  <2>1. step' = 1
    BY <1>2 DEF BeginDeploy
  <2>2. Progress'
    BY <2>1 DEF Progress, Component
  <2> QED BY <1>1, <1>2, <2>2, ReadsPatches DEF CallInv
<1>3. ASSUME NEW s \in Shards, BeginUndeploy(s) PROVE CallInv'
  <2>1. TypeOK'
    BY <1>1, <1>3, ConstantsAssumption DEF BeginUndeploy, TypeOK
  <2>2. FromRead' /\ Progress'
    BY <1>3 DEF BeginUndeploy, FromRead, Progress, Component
  <2> QED BY <2>1, <2>2 DEF CallInv
<1>4. ASSUME DeployDeployment PROVE CallInv'
  <2>1. /\ pc = "deploying" /\ step \in Component /\ shard \in Shards /\ step' = step + 1
        /\ UNCHANGED <<flags, data, pc, shard, patches, read, used, calls, edits>>
    BY <1>1, <1>4 DEF DeployDeployment, TypeOK
  <2>2. PICK t \in Configured(step) :
          LET d == ApplyShardPatches(InstantiateTemplate(t, shard), step) IN
          deployment' = [deployment EXCEPT ![d.name] = d]
    BY <1>4 DEF DeployDeployment
  <2> DEFINE d == ApplyShardPatches(InstantiateTemplate(t, shard), step)
  <2>3. /\ d \in Manifests /\ d # None /\ d.label = LabelOf(step)
        /\ deployment' = [deployment EXCEPT ![NameOf(step, shard)] = d]
    BY <1>1, <2>1, <2>2, Sent
  <2> HIDE DEF d
  <2>4. step + 1 \in 1 .. 6
    BY <2>1 DEF Component
  <2>5. TypeOK'
    BY <1>1, <2>1, <2>3, <2>4 DEF TypeOK
  <2>6. FromRead'
    BY <1>1, <2>1 DEF FromRead
  <2>7. \A j \in Component : Of(j, shard)' = IF j = step THEN d ELSE Of(j, shard)
    <3>1. \A j \in Component :
            deployment'[NameOf(j, shard)] = IF j = step THEN d ELSE deployment[NameOf(j, shard)]
      BY <1>1, <2>1, <2>3, OwnNames DEF TypeOK
    <3> QED BY <2>1, <3>1 DEF Of, NameOf
  <2>8. \A j \in Component : LabelOf(j)' = LabelOf(j)
    BY <2>1 DEF LabelOf, Selecting
  <2>9. Progress'
    <3> SUFFICES ASSUME NEW k \in Component, k < step'
                 PROVE  Of(k, shard)' # None /\ Of(k, shard)'.label = LabelOf(k)
      BY <2>1, <2>8 DEF Progress, Of
    <3>1. k = step \/ k < step
      BY <2>1 DEF Component
    <3> QED BY <1>1, <2>1, <2>3, <2>7, <3>1 DEF Progress
  <2> QED BY <2>5, <2>6, <2>9 DEF CallInv
<1>5. ASSUME UndeployDeployment PROVE CallInv'
  <2>1. /\ pc = "undeploying" /\ step \in Component /\ shard \in Shards /\ step' = step + 1
        /\ UNCHANGED <<flags, data, pc, shard, patches, read, used, calls, edits>>
        /\ deployment' = [deployment EXCEPT ![NameOf(step, shard)] = None]
    BY <1>1, <1>5, DeletesNamed DEF UndeployDeployment, TypeOK
  <2>2. step + 1 \in 1 .. 6
    BY <2>1 DEF Component
  <2>3. TypeOK'
    BY <1>1, <2>1, <2>2 DEF TypeOK
  <2>4. FromRead'
    BY <2>1 DEF FromRead
  <2>5. \A j \in Component : Of(j, shard)' = IF j = step THEN None ELSE Of(j, shard)
    <3>1. \A j \in Component :
            deployment'[NameOf(j, shard)] = IF j = step THEN None ELSE deployment[NameOf(j, shard)]
      BY <1>1, <2>1, OwnNames DEF TypeOK
    <3> QED BY <2>1, <3>1 DEF Of, NameOf
  <2>6. Progress'
    <3> SUFFICES ASSUME NEW k \in Component, k < step'
                 PROVE  Of(k, shard)' = None
      BY <2>1 DEF Progress, Of
    <3>1. k = step \/ k < step
      BY <2>1 DEF Component
    <3> QED BY <1>1, <2>1, <2>5, <3>1 DEF Progress
  <2> QED BY <2>3, <2>4, <2>6 DEF CallInv
<1>6. ASSUME Return PROVE CallInv'
  <2>1. TypeOK'
    BY <1>1, <1>6 DEF Return, TypeOK
  <2> QED BY <1>6, <2>1 DEF Return, CallInv, FromRead, Progress
<1>7. ASSUME TypeOK', UNCHANGED <<deployment, pc, shard, step, patches, read>> PROVE CallInv'
  <2>1. \A k \in Component : LabelOf(k)' = LabelOf(k) /\ Of(k, shard)' = Of(k, shard)
    BY <1>7 DEF LabelOf, Selecting, Of
  <2>2. Progress'
    BY <1>1, <1>7, <2>1 DEF Progress
  <2> QED BY <1>1, <1>7, <2>2 DEF CallInv, FromRead
<1>8. ASSUME NEW x \in Keys, NEW p \in Sources \cup {Invalid, None}, Edit(x, p) PROVE CallInv'
  <2>1. TypeOK'
    BY <1>1, <1>8, ConstantsAssumption DEF Edit, TypeOK
  <2> QED BY <1>7, <1>8, <2>1 DEF Edit
<1>9. ASSUME UNCHANGED vars PROVE CallInv'
  <2>1. TypeOK'
    BY <1>1, <1>9 DEF vars, TypeOK
  <2> QED BY <1>7, <1>9, <2>1 DEF vars
<1> QED BY <1>2, <1>3, <1>4, <1>5, <1>6, <1>8, <1>9 DEF Next

\* The invariant of a call holds in every behavior.
THEOREM CallInvariant == Spec => []CallInv
  BY InitCallInv, StepCallInv, PTL DEF Spec

\* Whatever options, arguments and patches are applied to the templates, calls send
\* Deployments, and none when some value of the ConfigMap is no patch
\* (deployControllers, getPatchesFromConfigMap).
THEOREM ManifestsTypeCorrect == Spec => []TypeOK
<1>1. CallInv => TypeOK
  BY DEF CallInv
<1> QED BY <1>1, CallInvariant, PTL

-----------------------------------------------------------------------------
(* What calls promise.                                                      *)

\* For every shard key, command line and ConfigMap, a complete call of
\* deployControllers leaves all five Deployments of its shard, and one of
\* undeployControllers none, although the one names them after the patches and the
\* other before.
THEOREM SetsAreComplete == Spec => []CompleteSets
<1>1. CallInv => CompleteSets
  <2> SUFFICES ASSUME CallInv, step = 6, NEW k \in Component
               PROVE  Of(k, shard) # None <=> pc = "deploying"
    BY DEF CompleteSets
  <2>1. k < step
    BY DEF Component
  <2>2. pc \in {"deploying", "undeploying"}
    BY DEF CallInv, TypeOK
  <2> QED BY <2>1, <2>2 DEF CallInv, Progress
<1> QED BY <1>1, CallInvariant, PTL

\* A set of Deployments is complete while its shard has clusters, for any number of shards
\* and calls, whichever of them fail, if no other key is read like that of the shard.
THEOREM SetsStayApart == Spec => []SetsApart
<1> DEFINE Apart(s) == \A t \in Shards : Rendered[t] = Rendered[s] => t = s
           Inv == SetsApart /\ (pc = "undeploying" => shard \notin used)
<1>1. Init => Inv
  BY DEF Init, SetsApart
<1>2. CallInv /\ Inv /\ [Next]_vars => Inv'
  <2> SUFFICES ASSUME CallInv, Inv, [Next]_vars PROVE Inv'
    OBVIOUS
  <2>1. TypeOK
    BY DEF CallInv
  <2>2. ASSUME NEW s \in Shards, BeginDeploy(s) PROVE Inv'
    BY <2>2 DEF BeginDeploy, SetsApart, Of
  <2>3. ASSUME NEW s \in Shards, BeginUndeploy(s) PROVE Inv'
    BY <2>3 DEF BeginUndeploy, SetsApart, Of
  <2>4. CASE DeployDeployment
    <3>1. /\ pc = "deploying" /\ step \in Component /\ shard \in Shards
          /\ pc' = pc /\ used' = used
      BY <2>1, <2>4 DEF DeployDeployment, TypeOK
    <3>2. PICK t \in Configured(step) :
            LET d == ApplyShardPatches(InstantiateTemplate(t, shard), step) IN
            deployment' = [deployment EXCEPT ![d.name] = d]
      BY <2>4 DEF DeployDeployment
    <3> DEFINE d == ApplyShardPatches(InstantiateTemplate(t, shard), step)
    <3>3. d # None /\ deployment' = [deployment EXCEPT ![NameOf(step, shard)] = d]
      BY <2>1, <3>1, <3>2, Sent
    <3> HIDE DEF d
    <3>4. \A s \in Shards, k \in Component : Of(k, s) # None => Of(k, s)' # None
      <4>1. \A s \in Shards, k \in Component :
              deployment[NameOf(k, s)] # None => deployment'[NameOf(k, s)] # None
        BY <2>1, <3>1, <3>3, NamesDiffer DEF TypeOK
      <4> QED BY <4>1 DEF Of, NameOf
    <3>5. used \subseteq Shards
      BY <2>1 DEF TypeOK
    <3> QED BY <3>1, <3>4, <3>5 DEF SetsApart
  <2>5. CASE UndeployDeployment
    <3>1. /\ pc = "undeploying" /\ step \in Component /\ shard \in Shards /\ shard \notin used
          /\ shard' = shard /\ used' = used /\ used \subseteq Shards
          /\ deployment' = [deployment EXCEPT ![NameOf(step, shard)] = None]
      BY <2>1, <2>5, DeletesNamed DEF UndeployDeployment, TypeOK
    <3>2. \A s \in Shards, k \in Component :
            Rendered[s] # Rendered[shard] => Of(k, s)' = Of(k, s)
      <4>1. \A s \in Shards, k \in Component :
              Rendered[s] # Rendered[shard] => deployment'[NameOf(k, s)] = deployment[NameOf(k, s)]
        BY <2>1, <3>1, NamesDiffer DEF TypeOK
      <4> QED BY <4>1 DEF Of, NameOf
    <3>3. \A s \in used : Apart(s) => Rendered[s] # Rendered[shard]
      BY <3>1
    <3> QED BY <3>1, <3>2, <3>3 DEF SetsApart
  <2>6. CASE Return
    <3>1. \A k, s : Of(k, s)' = Of(k, s)
      BY <2>6 DEF Return, Of
    <3>2. CASE pc = "deploying" /\ step = 6
      <4>1. \A k \in Component : Of(k, shard) # None
        <5>1. \A k \in Component : k < step
          BY <3>2 DEF Component
        <5> QED BY <3>2, <5>1 DEF CallInv, Progress
      <4>2. used' = used \cup {shard} /\ pc' = "idle"
        BY <2>6, <3>2 DEF Return
      <4> QED BY <3>1, <4>1, <4>2 DEF SetsApart
    <3>3. CASE ~(pc = "deploying" /\ step = 6)
      <4>1. used' = used /\ pc' = "idle"
        BY <2>6, <3>3 DEF Return
      <4> QED BY <3>1, <4>1 DEF SetsApart
    <3> QED BY <3>2, <3>3
  <2>7. CASE UNCHANGED vars
    BY <2>7 DEF vars, SetsApart, Of
  <2>8. CASE \E x \in Keys, p \in Sources \cup {Invalid, None} : Edit(x, p)
    BY <2>8 DEF Edit, SetsApart, Of
  <2> QED BY <2>2, <2>3, <2>4, <2>5, <2>6, <2>7, <2>8 DEF Next
<1> QED BY <1>1, <1>2, CallInvariant, PTL DEF Spec

\* The labels that the data that were read are to give component k.
LabelsAimed(k) ==
  IF Aimed(k) = {} THEN {NoLabel} ELSE {read[x].label : x \in Aimed(k)}

LEMMA LabelAimed ==
  ASSUME TypeOK, FromRead, pc = "deploying", NEW k \in Component
  PROVE  LabelOf(k) \in LabelsAimed(k)
<1>1. CASE Aimed(k) = {}
  BY <1>1, SelectingAimed DEF LabelOf, LabelsAimed
<1>2. CASE Aimed(k) # {}
  <2>1. Selecting(k) # {}
    BY <1>2, SelectingAimed
  <2>2. Max(Selecting(k)) \in Selecting(k)
    BY <2>1, LabelType
  <2> QED BY <1>2, <2>1, <2>2, SelectingAimed DEF LabelOf, LabelsAimed
<1> QED BY <1>1, <1>2

\* For any number of patches, in the order a map gives them, those meant for a
\* component and no others have reached it once a deployment is complete
\* (getPatchesFromConfigMap, applyShardPatches).
THEOREM PatchesReachTargets == Spec => []PatchesReach
<1>1. CallInv => PatchesReach
  <2> SUFFICES ASSUME CallInv, pc = "deploying", step = 6,
                      NEW k \in Component, NEW j \in Component
               PROVE  /\ IF Aimed(k) = {}
                           THEN Of(k, shard).label = NoLabel
                           ELSE Of(k, shard).label \in {read[x].label : x \in Aimed(k)}
                      /\ Aimed(k) = Aimed(j) =>
                           Of(k, shard).label = Of(j, shard).label
    BY DEF PatchesReach
  <2>1. TypeOK /\ FromRead /\ Progress
    BY DEF CallInv
  <2>2. \A i \in Component : Of(i, shard).label = LabelOf(i)
    <3>1. \A i \in Component : i < step
      BY DEF Component
    <3> QED BY <2>1, <3>1 DEF Progress
  <2>3. LabelOf(k) \in LabelsAimed(k)
    BY <2>1, LabelAimed
  <2>5. Aimed(k) = Aimed(j) => LabelOf(k) = LabelOf(j)
    <3>1. Aimed(k) = Aimed(j) => Selecting(k) = Selecting(j)
      BY <2>1, SelectingAimed
    <3> QED BY <3>1 DEF LabelOf
  <2> QED BY <2>2, <2>3, <2>5 DEF LabelsAimed
<1> QED BY <1>1, CallInvariant, PTL

\* No call touches a Deployment of another shard, unless what is read of the two keys is
\* the same (instantiateTemplate, undeployDeployment).
THEOREM OtherShardsUntouched == Spec => OtherShardsKept
<1> DEFINE Kept ==
      \A s \in Shards :
        (shard \in Shards => Rendered[s] # Rendered[shard]) =>
          \A k \in Component : UNCHANGED Of(k, s)
<1>1. ASSUME UNCHANGED deployment PROVE Kept
  BY <1>1 DEF Of
<1>2. ASSUME TypeOK, NEW k \in Component, shard \in Shards, NEW d,
             deployment' = [deployment EXCEPT ![NameOf(k, shard)] = d]
      PROVE  Kept
  <2>1. \A s \in Shards, j \in Component :
          Rendered[s] # Rendered[shard] =>
            deployment'[NameOf(j, s)] = deployment[NameOf(j, s)]
    BY <1>2, NamesDiffer DEF TypeOK
  <2> SUFFICES ASSUME NEW s \in Shards, Rendered[s] # Rendered[shard], NEW j \in Component
               PROVE  Of(j, s)' = Of(j, s)
    BY <1>2
  <2> QED BY <2>1 DEF Of, NameOf
<1>3. CallInv /\ [Next]_vars => Kept
  <2> SUFFICES ASSUME CallInv, [Next]_vars PROVE Kept
    OBVIOUS
  <2>1. TypeOK
    BY DEF CallInv
  <2>2. CASE DeployDeployment
    <3>1. pc = "deploying" /\ step \in Component /\ shard \in Shards
      BY <2>1, <2>2 DEF DeployDeployment, TypeOK
    <3>2. PICK t \in Configured(step) :
            LET d == ApplyShardPatches(InstantiateTemplate(t, shard), step) IN
            deployment' = [deployment EXCEPT ![d.name] = d]
      BY <2>2 DEF DeployDeployment
    <3>3. LET d == ApplyShardPatches(InstantiateTemplate(t, shard), step) IN
          deployment' = [deployment EXCEPT ![NameOf(step, shard)] = d]
      BY <2>1, <3>1, <3>2, Sent
    <3> QED BY <1>2, <2>1, <3>1, <3>3
  <2>3. CASE UndeployDeployment
    BY <1>2, <2>1, <2>3, DeletesNamed DEF UndeployDeployment, TypeOK
  <2>4. CASE UNCHANGED vars
    BY <1>1, <2>4 DEF vars
  <2>5. CASE Return \/ \E s \in Shards : BeginDeploy(s) \/ BeginUndeploy(s)
    BY <1>1, <2>5 DEF Return, BeginDeploy, BeginUndeploy
  <2>6. CASE \E x \in Keys, p \in Sources \cup {Invalid, None} : Edit(x, p)
    BY <1>1, <2>6 DEF Edit
  <2> QED BY <2>2, <2>3, <2>4, <2>5, <2>6 DEF Next
<1> QED BY <1>3, CallInvariant, PTL DEF Spec, OtherShardsKept

-----------------------------------------------------------------------------
(* Lists of arguments.                                                      *)

\* No flag is given twice.
Distinct(args) == \A i, j \in DOMAIN args : args[i].flag = args[j].flag => i = j

LEMMA GivenOnce ==
  ASSUME NEW args, Distinct(args), NEW a, a \in Range(args)
  PROVE  Once(args, a)
  BY DEF Range, Distinct, Once

\* What setOptions removes is the flag, and nothing else, although it moves the
\* last argument.
LEMMA AgentArgRemoved ==
  ASSUME NEW args \in Seq(Arguments), Distinct(args)
  PROVE  LET w == WithoutAgentArg(args) IN
         /\ Distinct(w)
         /\ Range(w) = {a \in Range(args) : ~IsAgentArg(a)}
<1> DEFINE n == Len(args)
           I == {i \in 1 .. n : IsAgentArg(args[i])}
           j == SelectInSeq(args, IsAgentArg)
           w == WithoutAgentArg(args)
<1>1. n \in Nat /\ DOMAIN args = 1 .. n
  BY LenProperties
<1>2. \A x \in I : I = {x}
  BY <1>1 DEF Distinct, IsAgentArg
<1>3. j = IF I # {} THEN Min(I) ELSE 0
  BY DEF SelectInSeq
<1>4. \A x \in I : Min(I) = x
  BY <1>2 DEF Min
<1>5. CASE I = {}
  <2>1. w = args
    BY <1>3, <1>5 DEF WithoutAgentArg
  <2>2. \A a \in Range(args) : ~IsAgentArg(a)
    BY <1>1, <1>5 DEF Range
  <2> QED BY <2>1, <2>2
<1>6. CASE I # {}
  <2>1. j \in I /\ j \in 1 .. n /\ I = {j} /\ j # 0
    BY <1>1, <1>2, <1>3, <1>4, <1>6
  <2> DEFINE r == ReplaceAt(args, j, Last(args))
  <2>2. /\ r \in [1 .. n -> Arguments]
        /\ \A i \in 1 .. n : r[i] = IF i = j THEN args[n] ELSE args[i]
    <3>1. args[n] \in Arguments /\ args \in [1 .. n -> Arguments]
      BY <1>1, <2>1, ElementOfSeq, LenProperties
    <3> QED BY <3>1 DEF ReplaceAt, Last
  <2>3. r \in Seq(Arguments) /\ Len(r) = n
    BY <1>1, <2>2, SeqDef, LenProperties
  <2>4. w = SubSeq(r, 1, n - 1)
    BY <2>1, <2>3 DEF WithoutAgentArg, Front
  <2>5. /\ w \in Seq(Arguments) /\ Len(w) = n - 1
        /\ \A i \in 1 .. n - 1 : w[i] = r[i]
    BY <1>1, <2>1, <2>2, <2>3, <2>4, SubSeqProperties
  <2>6. DOMAIN w = 1 .. n - 1
    BY <2>5, LenProperties
  <2>7. \A i \in 1 .. n - 1 : w[i] = IF i = j THEN args[n] ELSE args[i]
    BY <1>1, <2>2, <2>5
  <2>8. Distinct(w)
    BY <1>1, <2>1, <2>6, <2>7 DEF Distinct
  <2>9. ASSUME NEW a \in Range(w) PROVE a \in Range(args) /\ ~IsAgentArg(a)
    <3>1. PICK i \in 1 .. n - 1 : w[i] = a
      BY <2>6, <2>9 DEF Range
    <3>2. PICK l \in 1 .. n : l # j /\ args[l] = a
      BY <1>1, <2>1, <2>7, <3>1
    <3> QED BY <1>1, <2>1, <3>2 DEF Range
  <2>10. ASSUME NEW a \in Range(args), ~IsAgentArg(a) PROVE a \in Range(w)
    <3>1. PICK l \in 1 .. n : l # j /\ args[l] = a
      BY <1>1, <2>1, <2>10 DEF Range
    <3>2. CASE l = n
      BY <1>1, <2>1, <2>6, <2>7, <3>1, <3>2 DEF Range
    <3>3. CASE l # n
      <4>1. l \in 1 .. n - 1
        <5> HIDE DEF n, j
        <5> QED BY <1>1, <3>1, <3>3
      <4>2. w[l] = a
        BY <2>7, <3>1, <4>1
      <4> QED BY <2>6, <4>1, <4>2 DEF Range
    <3> QED BY <3>2, <3>3
  <2> QED BY <2>8, <2>9, <2>10
<1> QED BY <1>5, <1>6

\* Lists without a common flag can be put together.
LEMMA ArgsAppended ==
  ASSUME NEW args \in Seq(Arguments), Distinct(args),
         NEW more \in Seq(Arguments), Distinct(more),
         \A i \in DOMAIN args, j \in DOMAIN more : args[i].flag # more[j].flag
  PROVE  /\ Distinct(args \o more)
         /\ Range(args \o more) = Range(args) \cup Range(more)
<1> DEFINE n == Len(args)
           m == Len(more)
           both == args \o more
<1>1. n \in Nat /\ m \in Nat /\ DOMAIN args = 1 .. n /\ DOMAIN more = 1 .. m
  BY LenProperties
<1>2. /\ both \in Seq(Arguments) /\ Len(both) = n + m
      /\ \A i \in 1 .. n + m : both[i] = IF i <= n THEN args[i] ELSE more[i - n]
  BY ConcatProperties
<1>3. DOMAIN both = 1 .. n + m
  BY <1>2, LenProperties
<1> HIDE DEF both, n, m
<1>4. \A i \in 1 .. n : i \in 1 .. n + m /\ both[i] = args[i]
  BY <1>1, <1>2
<1>5. \A i \in 1 .. m : n + i \in 1 .. n + m /\ both[n + i] = more[i]
  BY <1>1, <1>2
<1>6. \A i \in 1 .. n + m : i \in 1 .. n \/ (i - n \in 1 .. m /\ both[i] = more[i - n])
  BY <1>1, <1>2
<1>7. ASSUME NEW a \in Range(both) PROVE a \in Range(args) \cup Range(more)
  <2>1. PICK i \in 1 .. n + m : both[i] = a
    BY <1>3, <1>7 DEF Range
  <2> QED BY <1>1, <1>4, <1>6, <2>1 DEF Range
<1>8. ASSUME NEW a \in Range(args) \cup Range(more) PROVE a \in Range(both)
  <2>1. CASE a \in Range(args)
    BY <1>1, <1>3, <1>4, <2>1 DEF Range
  <2>2. CASE a \in Range(more)
    BY <1>1, <1>3, <1>5, <2>2 DEF Range
  <2> QED BY <1>8, <2>1, <2>2
<1>9. Distinct(both)
  <2> SUFFICES ASSUME NEW i \in 1 .. n + m, NEW j \in 1 .. n + m,
                      both[i].flag = both[j].flag
               PROVE  i = j
    BY <1>3 DEF Distinct
  <2>1. CASE i \in 1 .. n /\ j \in 1 .. n
    BY <1>1, <1>4, <2>1 DEF Distinct
  <2>2. CASE i - n \in 1 .. m /\ both[i] = more[i - n]
             /\ j - n \in 1 .. m /\ both[j] = more[j - n]
    <3>1. i - n = j - n
      BY <1>1, <2>2 DEF Distinct
    <3> QED BY <1>1, <3>1
  <2>3. CASE i \in 1 .. n /\ j - n \in 1 .. m /\ both[j] = more[j - n]
    BY <1>1, <1>4, <2>3
  <2>4. CASE i - n \in 1 .. m /\ both[i] = more[i - n] /\ j \in 1 .. n
    BY <1>1, <1>4, <2>4
  <2> QED BY <1>6, <2>1, <2>2, <2>3, <2>4
<1> QED BY <1>7, <1>8, <1>9 DEF both

\* The options are set in a list of arguments (setOptions).
LEMMA AgentArgSet ==
  ASSUME NEW c \in Containers, Distinct(c.args)
  PROVE  LET o == SetAgentArg(c).args IN
         /\ SetAgentArg(c).name = c.name
         /\ Distinct(o)
         /\ Range(o) = {a \in Range(c.args) : ~IsAgentArg(a)} \cup {AgentArg("true")}
<1> DEFINE w == WithoutAgentArg(c.args)
           b == AgentArg("true")
<1>1. c.args \in Seq(Arguments)
  BY DEF Containers
<1>2. w \in Seq(Arguments) /\ Distinct(w) /\ Range(w) = {a \in Range(c.args) : ~IsAgentArg(a)}
  BY <1>1, WithoutAgentArgType, AgentArgRemoved
<1>3. b \in Arguments /\ IsAgentArg(b)
  BY DEF AgentArg, Arg, Arguments, ArgFlags, ArgValues, IsAgentArg
<1>4. Append(w, b) = w \o <<b>> /\ <<b>> \in Seq(Arguments)
  BY <1>2, <1>3, AppendIsConcat
<1>5. Distinct(<<b>>) /\ Range(<<b>>) = {b}
  BY DEF Distinct, Range
<1>6. \A i \in DOMAIN w, j \in DOMAIN <<b>> : w[i].flag # <<b>>[j].flag
  <2>1. \A i \in DOMAIN w : ~IsAgentArg(w[i])
    BY <1>2 DEF Range
  <2> QED BY <1>3, <2>1 DEF IsAgentArg
<1>7. Distinct(w \o <<b>>) /\ Range(w \o <<b>>) = Range(w) \cup {b}
  BY <1>2, <1>4, <1>5, <1>6, ArgsAppended
<1>8. SetAgentArg(c).args = w \o <<b>> /\ SetAgentArg(c).name = c.name
  BY <1>4 DEF SetAgentArg, Containers
<1> QED BY <1>2, <1>7, <1>8

\* The configs of the command line are listed once each, and all of them.
LEMMA ConfigArgsListed ==
  ASSUME NEW k \in Component, NEW args \in SetToSeqs(ConfigArgs(k))
  PROVE  Distinct(args) /\ Range(args) = ConfigArgs(k)
<1> DEFINE n == Cardinality(ConfigArgs(k))
<1>1. IsFiniteSet(ConfigArgs(k))
  BY ConfigArgsFinite
<1>2. n \in Nat /\ IsFiniteSet(1 .. n) /\ Cardinality(1 .. n) = n
  BY <1>1, FS_CardinalityType, FS_Interval
<1>3. args \in Injection(1 .. n, ConfigArgs(k))
  BY DEF SetToSeqs, Injection, IsInjective
<1>4. args \in Surjection(1 .. n, ConfigArgs(k))
  BY <1>1, <1>2, <1>3, FS_Injection
<1>5. args \in [1 .. n -> ConfigArgs(k)]
  BY DEF SetToSeqs
<1>6. Range(args) = ConfigArgs(k)
  BY <1>4, <1>5 DEF Surjection, Range
<1>7. \A a, b \in ConfigArgs(k) : a.flag = b.flag => a = b
  BY DEF ConfigArgs, ConfigFlags, ConfigArg, Arg
<1>8. \A i, j \in 1 .. n : i # j => args[i] # args[j]
  BY DEF SetToSeqs
<1> QED BY <1>5, <1>6, <1>7, <1>8 DEF Distinct

\* The place for the shard key is filled in (instantiateTemplate).
Fill(a, s) == IF a.value = Hole THEN Arg(a.flag, Rendered[s]) ELSE a

LEMMA ArgsFilled ==
  ASSUME NEW c \in Containers, NEW s
  PROVE  LET f == Filled(c, s).args IN
         /\ DOMAIN f = DOMAIN c.args /\ \A j \in DOMAIN f : f[j] = Fill(c.args[j], s)
         /\ Range(f) = {Fill(a, s) : a \in Range(c.args)}
         /\ Distinct(c.args) => Distinct(f)
<1> DEFINE f == Filled(c, s).args
<1>1. f = [j \in DOMAIN c.args |-> Fill(c.args[j], s)]
  BY DEF Filled, Fill, Containers
<1>2. DOMAIN f = DOMAIN c.args /\ \A j \in DOMAIN f : f[j] = Fill(c.args[j], s)
  BY <1>1
<1>3. Range(f) = {Fill(a, s) : a \in Range(c.args)}
  BY <1>2 DEF Range
<1>4. \A j \in DOMAIN f : f[j].flag = c.args[j].flag
  <2>1. \A a : Fill(a, s).flag = a.flag
    BY DEF Fill, Arg
  <2> QED BY <1>2, <2>1
<1>5. Distinct(c.args) => Distinct(f)
  BY <1>2, <1>4 DEF Distinct
<1> QED BY <1>2, <1>3, <1>5

-----------------------------------------------------------------------------
(* What a Deployment is given.                                              *)

\* deployControllers sets options of the component.
Optional(k) == flags.agentInMgmtCluster /\ k # 3

\* The container has these arguments, no flag twice.
Carries(c, args) == Distinct(c.args) /\ Range(c.args) = args

\* What a template's container may have: the flag only with this value, no config.
Plain(k, c) ==
  /\ Distinct(c.args)
  /\ \A a \in Range(c.args) :
       ~IsConfigArg(a) /\ (IsAgentArg(a) => k # 3 /\ a = AgentArg("false"))

\* The arguments of a template's container, with the options set.
WithAgent(k, c) ==
  IF Optional(k) THEN {a \in Range(c.args) : ~IsAgentArg(a)} \cup {AgentArg("true")}
                 ELSE Range(c.args)

LEMMA TemplateArgs ==
  ASSUME NEW k \in Component
  PROVE  LET t == Templates[k] IN
         /\ Len(t.containers) = 1 /\ t.containers[1].name = ConfigContainer(k)
         /\ \A i \in DOMAIN t.containers : Plain(k, t.containers[i])
         /\ \A i \in DOMAIN t.init : Plain(k, t.init[i])
<1> DEFINE Flag == AgentArg("false")
           All == {Diagnostics, ReportMode, ShardKey, Version, Flag}
<1>1. /\ \A a \in All : ~IsConfigArg(a) /\ (IsAgentArg(a) <=> a = Flag)
      /\ \A a, b \in All : a.flag = b.flag => a = b
  BY DEF AgentArg, Arg, Diagnostics, ReportMode, ShardKey, Version, IsAgentArg,
         IsConfigArg, ConfigArg
<1>2. /\ Diagnostics # ReportMode /\ Diagnostics # ShardKey /\ Diagnostics # Version
      /\ Diagnostics # Flag /\ ReportMode # ShardKey /\ ReportMode # Version
      /\ ReportMode # Flag /\ ShardKey # Version /\ ShardKey # Flag /\ Version # Flag
  BY DEF AgentArg, Arg, Diagnostics, ReportMode, ShardKey, Version
<1>3. ASSUME NEW c, c.args \in Seq(All),
             \A i, j \in DOMAIN c.args : c.args[i] = c.args[j] => i = j,
             k # 3 \/ \A i \in DOMAIN c.args : c.args[i] # Flag
      PROVE  Plain(k, c)
  <2> HIDE DEF All
  <2>1. \A i \in DOMAIN c.args : c.args[i] \in All
    BY <1>3, ElementOfSeq, LenProperties
  <2> HIDE DEF Flag
  <2> QED BY <1>1, <1>3, <2>1 DEF Plain, Distinct, Range, Flag
<1>4. ASSUME NEW n, NEW args, args \in Seq(All),
             \A i, j \in DOMAIN args : args[i] = args[j] => i = j,
             k # 3 \/ \A i \in DOMAIN args : args[i] # Flag
      PROVE  Plain(k, Container(n, args))
  <2>1. Container(n, args).args = args
    BY DEF Container
  <2> HIDE DEF All, Flag
  <2> QED BY <1>3, <1>4, <2>1
<1>5. k # 3 =>
        \A n : Plain(k, Container(n, <<Diagnostics, ReportMode, ShardKey, Version, Flag>>))
  <2> DEFINE args == <<Diagnostics, ReportMode, ShardKey, Version, Flag>>
  <2>1. args \in Seq(All) /\ DOMAIN args = {1, 2, 3, 4, 5}
    OBVIOUS
  <2>2. \A i, j \in {1, 2, 3, 4, 5} : args[i] = args[j] => i = j
    BY <1>2
  <2> HIDE DEF args
  <2> QED BY <1>4, <2>1, <2>2 DEF args
<1>6. k # 3 => \A n : Plain(k, Container(n, <<Diagnostics, ShardKey, Version, Flag>>))
  <2> DEFINE args == <<Diagnostics, ShardKey, Version, Flag>>
  <2>1. args \in Seq(All) /\ \A i, j \in DOMAIN args : args[i] = args[j] => i = j
    BY <1>2
  <2> HIDE DEF args
  <2> QED BY <1>4, <2>1 DEF args
<1>7. k # 3 => \A n : Plain(k, Container(n, <<ReportMode, ShardKey, Flag>>))
  <2> DEFINE args == <<ReportMode, ShardKey, Flag>>
  <2>1. args \in Seq(All) /\ \A i, j \in DOMAIN args : args[i] = args[j] => i = j
    BY <1>2
  <2> HIDE DEF args
  <2> QED BY <1>4, <2>1 DEF args
<1>8. \A n : Plain(k, Container(n, <<Diagnostics, ShardKey>>)) /\ Plain(k, Container(n, <<>>))
  <2> DEFINE args == <<Diagnostics, ShardKey>>
             none == <<>>
  <2>1. /\ args \in Seq(All) /\ \A i, j \in DOMAIN args : args[i] = args[j] => i = j
        /\ \A i \in DOMAIN args : args[i] # Flag
    BY <1>2
  <2>2. /\ none \in Seq(All) /\ \A i, j \in DOMAIN none : none[i] = none[j] => i = j
        /\ \A i \in DOMAIN none : none[i] # Flag
    OBVIOUS
  <2> HIDE DEF args, none
  <2> QED BY <1>4, <2>1, <2>2 DEF args, none
<1> DEFINE Good(t) ==
             /\ Len(t.containers) = 1 /\ t.containers[1].name = ConfigContainer(k)
             /\ \A i \in DOMAIN t.containers : Plain(k, t.containers[i])
             /\ \A i \in DOMAIN t.init : Plain(k, t.init[i])
<1>9. ASSUME NEW name, NEW n, NEW args, n = ConfigContainer(k), Plain(k, Container(n, args))
      PROVE  /\ Good(Template(name, <<Container(n, args)>>, <<>>))
             /\ \A c : Plain(k, c) => Good(Template(name, <<Container(n, args)>>, <<c>>))
  <2> DEFINE c == Container(n, args)
  <2>1. c.name = n
    BY DEF Container
  <2> HIDE DEF c
  <2> QED BY <1>9, <2>1 DEF Template, c
<1> HIDE DEF Good
<1>10. k = 1 => Good(AddonController)
  <2> DEFINE c == Container("initialization", <<ReportMode, ShardKey, Flag>>)
  <2>1. k = 1 => Plain(k, c)
    BY <1>7
  <2> HIDE DEF c
  <2> DEFINE args == <<Diagnostics, ReportMode, ShardKey, Version, Flag>>
  <2>2. k = 1 => Plain(k, Container("controller", args))
    BY <1>5
  <2> HIDE DEF args
  <2>3. k = 1 => Good(Template("addon-controller", <<Container("controller", args)>>, <<c>>))
    BY <1>9, <2>1, <2>2 DEF ConfigContainer
  <2> QED BY <2>3 DEF AddonController, args, c
<1>11. k = 2 => Good(Classifier)
  <2> DEFINE c == Container("migrate", <<>>)
  <2>1. Plain(k, c)
    BY <1>8
  <2> HIDE DEF c
  <2> DEFINE args == <<Diagnostics, ReportMode, ShardKey, Version, Flag>>
  <2>2. k = 2 => Plain(k, Container("manager", args))
    BY <1>5
  <2> HIDE DEF args
  <2>3. k = 2 => "manager" = ConfigContainer(k)
    BY DEF ConfigContainer
  <2>4. k = 2 => Good(Template("classifier-manager", <<Container("manager", args)>>, <<c>>))
    BY <1>9, <2>1, <2>2, <2>3
  <2> QED BY <2>4 DEF Classifier, args, c
<1>12. k = 3 => Good(SveltosClusterManager)
  BY <1>8, <1>9 DEF SveltosClusterManager, ConfigContainer
<1>13. k = 4 => Good(EventManager)
  BY <1>6, <1>9 DEF EventManager, ConfigContainer
<1>14. k = 5 => Good(HealthCheckManager)
  BY <1>6, <1>9 DEF HealthCheckManager, ConfigContainer
<1>15. Good(Templates[k])
  BY <1>10, <1>11, <1>12, <1>13, <1>14 DEF Templates, Component
<1> QED BY <1>15 DEF Good

\* The options are set in every container (setOptions).
LEMMA OptionsGiven ==
  ASSUME NEW k \in Component
  PROVE  LET t == Templates[k]
             o == WithOptions(k) IN
         /\ DOMAIN o.containers = DOMAIN t.containers /\ DOMAIN o.init = DOMAIN t.init
         /\ \A i \in DOMAIN o.containers :
              /\ o.containers[i].name = t.containers[i].name
              /\ Carries(o.containers[i], WithAgent(k, t.containers[i]))
         /\ \A i \in DOMAIN o.init : Carries(o.init[i], WithAgent(k, t.init[i]))
<1> DEFINE t == Templates[k]
           o == WithOptions(k)
<1>1. t \in Manifests /\ t.containers \in Seq(Containers) /\ t.init \in Seq(Containers)
  BY TemplateType DEF Manifests
<1>2. /\ \A i \in DOMAIN t.containers :
           t.containers[i] \in Containers /\ Distinct(t.containers[i].args)
      /\ \A i \in DOMAIN t.init : t.init[i] \in Containers /\ Distinct(t.init[i].args)
  BY <1>1, TemplateArgs, ElementOfSeq, LenProperties DEF Plain
<1>3. CASE Optional(k)
  <2> DEFINE cs == [i \in DOMAIN t.containers |-> SetAgentArg(t.containers[i])]
             is == [i \in DOMAIN t.init |-> SetAgentArg(t.init[i])]
  <2>1. o = [t EXCEPT !.containers = cs, !.init = is]
    BY <1>3 DEF WithOptions, SetOptions, Optional
  <2>2. o.containers = cs /\ o.init = is
    BY <1>1, <2>1 DEF Manifests
  <2>3. /\ \A i \in DOMAIN t.containers :
             /\ SetAgentArg(t.containers[i]).name = t.containers[i].name
             /\ Carries(SetAgentArg(t.containers[i]), WithAgent(k, t.containers[i]))
        /\ \A i \in DOMAIN t.init :
             Carries(SetAgentArg(t.init[i]), WithAgent(k, t.init[i]))
    BY <1>2, <1>3, AgentArgSet DEF Carries, WithAgent
  <2> QED BY <2>2, <2>3
<1>4. CASE ~Optional(k)
  <2>1. o = t
    BY <1>4 DEF WithOptions, Optional
  <2> QED BY <1>2, <1>4, <2>1 DEF Carries, WithAgent
<1> QED BY <1>3, <1>4

\* The configs are given to the container of the component only (appendArgsToContainer).
LEMMA ConfigsGiven ==
  ASSUME NEW k \in Component, NEW c \in Configured(k)
  PROVE  LET t == Templates[k] IN
         /\ Len(c.containers) = 1 /\ DOMAIN c.init = DOMAIN t.init
         /\ Carries(c.containers[1], WithAgent(k, t.containers[1]) \cup ConfigArgs(k))
         /\ \A i \in DOMAIN c.init : Carries(c.init[i], WithAgent(k, t.init[i]))
<1> DEFINE t == Templates[k]
           o == WithOptions(k)
           before == o.containers[1]
<1>1. PICK args \in SetToSeqs(ConfigArgs(k)) :
        c = AppendArgsToContainer(o, ConfigContainer(k), args)
  BY DEF Configured
<1>2. o \in Manifests /\ o.containers \in Seq(Containers)
  <2>1. o \in Manifests
    BY TemplateType, SetOptionsType DEF WithOptions
  <2> QED BY <2>1 DEF Manifests
<1>3. Len(o.containers) = 1 /\ DOMAIN o.containers = {1}
  <2>1. DOMAIN t.containers = 1 .. 1
    <3>1. t.containers \in Seq(Containers)
      BY TemplateType DEF Manifests
    <3> QED BY <3>1, TemplateArgs, LenProperties
  <2>2. DOMAIN o.containers = 1 .. 1
    BY <2>1, OptionsGiven
  <2>3. Len(o.containers) \in Nat /\ DOMAIN o.containers = 1 .. Len(o.containers)
    BY <1>2, LenProperties
  <2> HIDE DEF o
  <2>4. Len(o.containers) = 1
    <3> DEFINE n == Len(o.containers)
    <3>1. n \in Nat /\ 1 .. 1 = 1 .. n
      BY <2>2, <2>3
    <3> HIDE DEF n
    <3>2. 1 \in 1 .. n
      BY <3>1
    <3>3. n \in 1 .. n
      BY <3>1, <3>2
    <3>4. n \in 1 .. 1
      BY <3>1, <3>3
    <3> QED BY <3>4 DEF n
  <2> QED BY <2>2, <2>4
<1>4. /\ before.name = ConfigContainer(k) /\ before \in Containers
      /\ Carries(before, WithAgent(k, t.containers[1]))
  BY <1>2, <1>3, OptionsGiven, TemplateArgs, ElementOfSeq, LenProperties
<1>5. c.containers = [i \in {1} |-> WithArgs(before, args)] /\ c.init = o.init
  <2> HIDE DEF o
  <2>1. c.containers = [i \in DOMAIN o.containers |->
                          IF o.containers[i].name = ConfigContainer(k)
                            THEN WithArgs(o.containers[i], args) ELSE o.containers[i]]
    BY <1>1, <1>2 DEF AppendArgsToContainer, Manifests
  <2>2. c.init = o.init
    BY <1>1, <1>2 DEF AppendArgsToContainer, Manifests
  <2> QED BY <1>3, <1>4, <2>1, <2>2
<1>6. /\ args \in Seq(Arguments) /\ before.args \in Seq(Arguments)
      /\ Distinct(args) /\ Range(args) = ConfigArgs(k)
  BY <1>4, ConfigArgsType, ConfigArgsListed DEF Containers
<1>7. \A i \in DOMAIN before.args, j \in DOMAIN args : before.args[i].flag # args[j].flag
  <2>1. \A a \in WithAgent(k, t.containers[1]) : ~IsConfigArg(a)
    <3>1. Plain(k, t.containers[1])
      BY <1>3, OptionsGiven, TemplateArgs
    <3>2. ~IsConfigArg(AgentArg("true"))
      BY DEF IsConfigArg, AgentArg, Arg, ConfigArg
    <3> QED BY <3>1, <3>2 DEF WithAgent, Plain
  <2>2. \A i \in DOMAIN before.args : ~IsConfigArg(before.args[i])
    BY <1>4, <2>1 DEF Carries, Range
  <2>3. \A a \in ConfigArgs(k) : \E g \in DOMAIN ConfigArg : a.flag = ConfigArg[g].flag
    BY DEF ConfigArgs, ConfigFlags, ConfigArg
  <2>4. \A j \in DOMAIN args : args[j] \in ConfigArgs(k)
    BY <1>6 DEF Range
  <2> QED BY <2>2, <2>3, <2>4 DEF IsConfigArg
<1>8. /\ Distinct(before.args \o args)
      /\ Range(before.args \o args) = Range(before.args) \cup Range(args)
  BY <1>4, <1>6, <1>7, ArgsAppended DEF Carries
<1>9. WithArgs(before, args).args = before.args \o args
  BY <1>4 DEF WithArgs, Containers
<1>10. Carries(c.containers[1], WithAgent(k, t.containers[1]) \cup ConfigArgs(k))
  BY <1>4, <1>5, <1>6, <1>8, <1>9 DEF Carries
<1>11. Len(c.containers) = 1
  BY <1>5
<1> QED BY <1>5, <1>10, <1>11, OptionsGiven

\* The containers of a list and then those of another.
LEMMA Joined ==
  ASSUME NEW cs \in Seq(Containers), Len(cs) = 1, NEW is \in Seq(Containers)
  PROVE  /\ DOMAIN (cs \o is) = 1 .. 1 + Len(is) /\ Len(cs \o is) = 1 + Len(is)
         /\ Len(is) \in Nat /\ DOMAIN is = 1 .. Len(is)
         /\ (cs \o is)[1] = cs[1]
         /\ \A i \in 1 .. 1 + Len(is) :
              i # 1 => i - 1 \in 1 .. Len(is) /\ (cs \o is)[i] = is[i - 1]
<1> DEFINE n == Len(is)
           both == cs \o is
<1>1. n \in Nat /\ DOMAIN is = 1 .. n
  BY LenProperties
<1>2. /\ both \in Seq(Containers) /\ Len(both) = 1 + n
      /\ \A i \in 1 .. 1 + n : both[i] = IF i <= 1 THEN cs[i] ELSE is[i - 1]
  BY ConcatProperties
<1>3. DOMAIN both = 1 .. 1 + n
  BY <1>2, LenProperties
<1> HIDE DEF n, both
<1>4. both[1] = cs[1]
  BY <1>1, <1>2
<1>5. \A i \in 1 .. 1 + n : i # 1 => i - 1 \in 1 .. n /\ both[i] = is[i - 1]
  BY <1>1, <1>2
<1> QED BY <1>1, <1>2, <1>3, <1>4, <1>5 DEF n, both

\* A Deployment has the containers that a call makes for component k.
MadeFor(k, s, d) ==
  \E t \in Configured(k) :
    LET r == InstantiateTemplate(t, s) IN d.containers = r.containers /\ d.init = r.init

\* The arguments of container i, before the shard key is filled in.
Wanted(k, i) ==
  WithAgent(k, AllContainers(Templates[k])[i]) \cup (IF i = 1 THEN ConfigArgs(k) ELSE {})

LEMMA ArgsGiven ==
  ASSUME NEW k \in Component, NEW s \in Shards, NEW d, MadeFor(k, s, d)
  PROVE  LET was == AllContainers(Templates[k])
             is == AllContainers(d) IN
         /\ Len(is) = Len(was) /\ DOMAIN is = DOMAIN was /\ 1 \in DOMAIN was
         /\ \A i \in DOMAIN was :
              /\ was[i] \in Containers /\ Plain(k, was[i])
              /\ Carries(is[i], {Fill(a, s) : a \in Wanted(k, i)})
<1> DEFINE o == Templates[k]
           was == AllContainers(o)
           is == AllContainers(d)
<1>1. PICK t \in Configured(k) :
        LET r == InstantiateTemplate(t, s) IN d.containers = r.containers /\ d.init = r.init
  BY DEF MadeFor
<1>2. /\ o.containers \in Seq(Containers) /\ o.init \in Seq(Containers)
      /\ t.containers \in Seq(Containers) /\ t.init \in Seq(Containers)
  BY TemplateType, ConfiguredType DEF Manifests
<1>3. t \in Manifests /\ InstantiateTemplate(t, s) \in Manifests
  BY ConfiguredType, InstantiateType
<1>4. d.containers \in Seq(Containers) /\ d.init \in Seq(Containers)
  BY <1>1, <1>3 DEF Manifests
<1>5. /\ d.containers = [i \in DOMAIN t.containers |-> Filled(t.containers[i], s)]
      /\ d.init = [i \in DOMAIN t.init |-> Filled(t.init[i], s)]
  BY <1>1, <1>3 DEF InstantiateTemplate, Manifests
<1>6. /\ Len(t.containers) = 1 /\ DOMAIN t.init = DOMAIN o.init
      /\ Carries(t.containers[1], WithAgent(k, o.containers[1]) \cup ConfigArgs(k))
      /\ \A i \in DOMAIN o.init : Carries(t.init[i], WithAgent(k, o.init[i]))
  BY ConfigsGiven
<1>7. /\ Len(o.containers) = 1 /\ Plain(k, o.containers[1])
      /\ \A i \in DOMAIN o.init : Plain(k, o.init[i])
  BY <1>2, TemplateArgs, LenProperties
<1>8. /\ 1 \in DOMAIN t.containers /\ o.containers[1] \in Containers
      /\ t.containers[1] \in Containers
      /\ \A i \in DOMAIN o.init : o.init[i] \in Containers /\ t.init[i] \in Containers
  BY <1>2, <1>6, <1>7, ElementOfSeq, LenProperties
<1>9. \A c \in Containers : \A args :
        Carries(c, args) => Carries(Filled(c, s), {Fill(a, s) : a \in args})
  BY ArgsFilled DEF Carries
<1>10. Carries(d.containers[1],
               {Fill(a, s) : a \in WithAgent(k, o.containers[1]) \cup ConfigArgs(k)})
  BY <1>5, <1>6, <1>8, <1>9
<1>11. \A i \in DOMAIN o.init :
         Carries(d.init[i], {Fill(a, s) : a \in WithAgent(k, o.init[i])})
  BY <1>5, <1>6, <1>8, <1>9
<1>12. Len(d.containers) = 1 /\ Len(d.init) = Len(o.init)
  <2>1. DOMAIN d.containers = 1 .. 1 /\ DOMAIN d.init = 1 .. Len(o.init)
    BY <1>2, <1>5, <1>6, LenProperties
  <2>2. Len(o.init) \in Nat
    BY <1>2, LenProperties
  <2> QED BY <1>5, <2>1, <2>2
<1>13. /\ DOMAIN was = 1 .. 1 + Len(o.init) /\ Len(was) = 1 + Len(o.init)
       /\ Len(o.init) \in Nat /\ DOMAIN o.init = 1 .. Len(o.init)
       /\ was[1] = o.containers[1]
       /\ \A i \in DOMAIN was : i # 1 => i - 1 \in DOMAIN o.init /\ was[i] = o.init[i - 1]
  <2> DEFINE cs == o.containers
             ins == o.init
  <2>1. cs \in Seq(Containers) /\ Len(cs) = 1 /\ ins \in Seq(Containers)
    BY <1>2, <1>7
  <2>2. was = cs \o ins
    BY DEF AllContainers
  <2> HIDE DEF cs, ins, was
  <2>3. /\ DOMAIN was = 1 .. 1 + Len(ins) /\ Len(was) = 1 + Len(ins)
        /\ Len(ins) \in Nat /\ DOMAIN ins = 1 .. Len(ins)
        /\ was[1] = cs[1]
        /\ \A i \in 1 .. 1 + Len(ins) :
             i # 1 => i - 1 \in 1 .. Len(ins) /\ was[i] = ins[i - 1]
    BY <2>1, <2>2, Joined
  <2> QED BY <2>3 DEF cs, ins
<1>14. /\ DOMAIN is = 1 .. 1 + Len(o.init) /\ Len(is) = 1 + Len(o.init)
       /\ is[1] = d.containers[1]
       /\ \A i \in DOMAIN is : i # 1 => is[i] = d.init[i - 1]
  <2> DEFINE cs == d.containers
             ins == d.init
  <2>1. cs \in Seq(Containers) /\ Len(cs) = 1 /\ ins \in Seq(Containers)
    BY <1>4, <1>12
  <2>2. is = cs \o ins
    BY DEF AllContainers
  <2> HIDE DEF cs, ins, is
  <2>3. /\ DOMAIN is = 1 .. 1 + Len(ins) /\ Len(is) = 1 + Len(ins)
        /\ is[1] = cs[1]
        /\ \A i \in 1 .. 1 + Len(ins) : i # 1 => is[i] = ins[i - 1]
    BY <2>1, <2>2, Joined
  <2> QED BY <1>12, <2>3 DEF cs, ins
<1> HIDE DEF is, was, o
<1>15. ASSUME NEW i \in DOMAIN was
       PROVE  /\ was[i] \in Containers /\ Plain(k, was[i])
              /\ Carries(is[i], {Fill(a, s) : a \in Wanted(k, i)})
  <2>1. CASE i = 1
    <3>1. Wanted(k, i) = WithAgent(k, o.containers[1]) \cup ConfigArgs(k)
      BY <1>13, <2>1 DEF Wanted, was, o
    <3> QED BY <1>7, <1>8, <1>10, <1>13, <1>14, <2>1, <3>1
  <2>2. CASE i # 1
    <3>1. Wanted(k, i) = WithAgent(k, o.init[i - 1])
      BY <1>13, <2>2 DEF Wanted, was, o
    <3> QED BY <1>7, <1>8, <1>11, <1>13, <1>14, <2>2, <3>1
  <2> QED BY <2>1, <2>2
<1>16. Len(is) = Len(was) /\ DOMAIN is = DOMAIN was /\ 1 \in DOMAIN was
  BY <1>13, <1>14
<1> QED BY <1>15, <1>16 DEF is, was, o

\* What deployDeployment sends has these containers: patches keep them.
LEMMA SentMade ==
  ASSUME NEW k \in Component, NEW s \in Shards, NEW t \in Configured(k)
  PROVE  MadeFor(k, s, ApplyShardPatches(InstantiateTemplate(t, s), k))
<1> DEFINE r == InstantiateTemplate(t, s)
           d == ApplyShardPatches(r, k)
<1>1. r \in Manifests
  BY ConfiguredType, InstantiateType
<1> HIDE DEF r
<1>2. d.containers = r.containers /\ d.init = r.init
  BY <1>1 DEF ApplyShardPatches, Manifests
<1> QED BY <1>2 DEF MadeFor, r

\* Every Deployment has the containers that its component and its shard are given.
AllMade == \A k \in Component, s \in Shards : Of(k, s) # None => MadeFor(k, s, Of(k, s))

LEMMA StepAllMade == CallInv /\ AllMade /\ [Next]_vars => AllMade'
<1> SUFFICES ASSUME CallInv, AllMade, [Next]_vars PROVE AllMade'
  OBVIOUS
<1>1. TypeOK
  BY DEF CallInv
<1>2. flags' = flags
  BY DEF Next, BeginDeploy, BeginUndeploy, DeployDeployment, UndeployDeployment, Return,
         Edit, vars
<1>3. \A k, s, d : MadeFor(k, s, d) => MadeFor(k, s, d)'
  BY <1>2 DEF MadeFor, Configured, WithOptions, ConfigArgs
<1>3a. \A k, d : \A s, x \in Shards :
          Rendered[s] = Rendered[x] /\ MadeFor(k, s, d) => MadeFor(k, x, d)
  <2> SUFFICES ASSUME NEW s \in Shards, NEW x \in Shards, Rendered[s] = Rendered[x]
               PROVE  \A k, d : MadeFor(k, s, d) => MadeFor(k, x, d)
    OBVIOUS
  <2>1. \A c : Filled(c, s) = Filled(c, x)
    BY DEF Filled
  <2>2. \A n : Named(n, s) = Named(n, x)
    BY DEF Named
  <2>3. \A t : InstantiateTemplate(t, s) = InstantiateTemplate(t, x)
    <3> SUFFICES ASSUME NEW t PROVE InstantiateTemplate(t, s) = InstantiateTemplate(t, x)
      OBVIOUS
    <3> DEFINE made(n, cs, is) == [t EXCEPT !.name = n, !.containers = cs, !.init = is]
    <3>1. /\ InstantiateTemplate(t, s) =
               made(Named(t.name, s), [i \in DOMAIN t.containers |-> Filled(t.containers[i], s)],
                    [i \in DOMAIN t.init |-> Filled(t.init[i], s)])
          /\ InstantiateTemplate(t, x) =
               made(Named(t.name, x), [i \in DOMAIN t.containers |-> Filled(t.containers[i], x)],
                    [i \in DOMAIN t.init |-> Filled(t.init[i], x)])
      BY DEF InstantiateTemplate
    <3> HIDE DEF made
    <3> QED BY <2>1, <2>2, <3>1
  <2> QED BY <2>3 DEF MadeFor
<1>4. ASSUME UNCHANGED deployment PROVE AllMade'
  BY <1>3, <1>4 DEF AllMade, Of
<1>5. ASSUME NEW j \in Component, NEW x \in Shards, NEW d,
             deployment' = [deployment EXCEPT ![NameOf(j, x)] = d],
             d # None => MadeFor(j, x, d)
      PROVE  AllMade'
  <2>1. \A k \in Component, s \in Shards :
          deployment'[NameOf(k, s)] =
            IF k = j /\ Rendered[s] = Rendered[x] THEN d ELSE deployment[NameOf(k, s)]
    BY <1>1, <1>5, NamesDiffer DEF TypeOK
  <2>2. \A k \in Component, s \in Shards :
          Of(k, s)' = IF k = j /\ Rendered[s] = Rendered[x] THEN d ELSE Of(k, s)
    BY <2>1 DEF Of, NameOf
  <2> QED BY <1>3, <1>3a, <1>5, <2>2 DEF AllMade
<1>6. CASE DeployDeployment
  <2>1. pc = "deploying" /\ step \in Component /\ shard \in Shards
    BY <1>1, <1>6 DEF DeployDeployment, TypeOK
  <2>2. PICK t \in Configured(step) :
          LET d == ApplyShardPatches(InstantiateTemplate(t, shard), step) IN
          deployment' = [deployment EXCEPT ![d.name] = d]
    BY <1>6 DEF DeployDeployment
  <2> DEFINE d == ApplyShardPatches(InstantiateTemplate(t, shard), step)
  <2>3. deployment' = [deployment EXCEPT ![NameOf(step, shard)] = d]
    BY <1>1, <2>1, <2>2, Sent
  <2>4. MadeFor(step, shard, d)
    BY <2>1, SentMade
  <2> HIDE DEF d
  <2> QED BY <1>5, <2>1, <2>3, <2>4
<1>7. CASE UndeployDeployment
  <2>1. /\ step \in Component /\ shard \in Shards
        /\ deployment' = [deployment EXCEPT ![NameOf(step, shard)] = None]
    BY <1>1, <1>7, DeletesNamed DEF UndeployDeployment, TypeOK
  <2> QED BY <1>5, <2>1
<1>8. CASE UNCHANGED vars \/ Return \/ \E s \in Shards : BeginDeploy(s) \/ BeginUndeploy(s)
  BY <1>4, <1>8 DEF vars, Return, BeginDeploy, BeginUndeploy
<1>9. CASE \E x \in Keys, p \in Sources \cup {Invalid, None} : Edit(x, p)
  BY <1>4, <1>9 DEF Edit
<1> QED BY <1>6, <1>7, <1>8, <1>9 DEF Next

\* Every Deployment has them in every behavior.
THEOREM MadeInvariant == Spec => []AllMade
<1>1. Init => AllMade
  <2> SUFFICES ASSUME Init PROVE AllMade
    OBVIOUS
  <2>1. \A k \in Component, s \in Shards : Of(k, s) = None
    BY NamesDiffer DEF Init, Of, NameOf
  <2> QED BY <2>1 DEF AllMade
<1> QED BY <1>1, StepAllMade, CallInvariant, PTL DEF Spec

\* Whatever options and configs the process has, and whatever is read of a key, every
\* other argument of a template reaches its container, once, and no argument comes
\* from elsewhere (setOptions, appendArgsToContainer, instantiateTemplate).
THEOREM ArgumentsAreKept == Spec => []ArgumentsKept
<1> DEFINE Other(a) == ~IsAgentArg(a) /\ ~IsConfigArg(a)
<1>1. ASSUME NEW k \in Component, NEW s \in Shards, NEW d, MadeFor(k, s, d)
      PROVE  LET was == AllContainers(Templates[k])
                 is  == AllContainers(d) IN
             /\ Len(is) = Len(was)
             /\ \A i \in DOMAIN is :
                  LET before == Filled(was[i], s).args
                      now    == is[i].args IN
                  /\ \A j \in DOMAIN before : Other(before[j]) => Once(now, before[j])
                  /\ \A j \in DOMAIN now : Other(now[j]) => Once(before, now[j])
  <2> DEFINE was == AllContainers(Templates[k])
             is  == AllContainers(d)
  <2>1. /\ Len(is) = Len(was) /\ DOMAIN is = DOMAIN was
        /\ \A i \in DOMAIN was :
             /\ was[i] \in Containers /\ Plain(k, was[i])
             /\ Carries(is[i], {Fill(a, s) : a \in Wanted(k, i)})
    BY <1>1, ArgsGiven
  <2>2. ASSUME NEW i \in DOMAIN was, NEW a, Other(a)
        PROVE  a \in Wanted(k, i) <=> a \in Range(was[i].args)
    <3>1. \A b \in ConfigArgs(k) : IsConfigArg(b)
      BY DEF ConfigArgs, ConfigFlags, ConfigArg, IsConfigArg
    <3>2. IsAgentArg(AgentArg("true"))
      BY DEF IsAgentArg, AgentArg, Arg
    <3> QED BY <2>2, <3>1, <3>2 DEF Wanted, WithAgent
  <2> HIDE DEF was, is
  <2>3. \A a : Other(Fill(a, s)) <=> Other(a)
    BY DEF Fill, Arg, IsAgentArg, IsConfigArg
  <2> HIDE DEF Other
  <2> SUFFICES ASSUME NEW i \in DOMAIN is
               PROVE  LET before == Filled(was[i], s).args
                          now    == is[i].args IN
                      /\ \A j \in DOMAIN before : Other(before[j]) => Once(now, before[j])
                      /\ \A j \in DOMAIN now : Other(now[j]) => Once(before, now[j])
    BY <2>1 DEF was, is
  <2> DEFINE before == Filled(was[i], s).args
             now    == is[i].args
  <2>4. /\ Range(before) = {Fill(a, s) : a \in Range(was[i].args)} /\ Distinct(before)
        /\ Range(now) = {Fill(a, s) : a \in Wanted(k, i)} /\ Distinct(now)
    BY <2>1, ArgsFilled DEF Plain, Carries
  <2> HIDE DEF before, now
  <2>5. \A b : Other(b) => (b \in Range(before) <=> b \in Range(now))
    BY <2>1, <2>2, <2>3, <2>4
  <2>6. /\ \A j \in DOMAIN before : before[j] \in Range(before)
        /\ \A j \in DOMAIN now : now[j] \in Range(now)
    BY DEF Range
  <2> QED BY <2>4, <2>5, <2>6, GivenOnce DEF before, now
<1>2. AllMade => ArgumentsKept
  BY <1>1 DEF AllMade, ArgumentsKept, Deployed
<1> QED BY <1>2, MadeInvariant, PTL

\* Every container that takes the flag gets it once, with the value of the process
\* (setOptions takes the old one away; the sveltoscluster-manager has none).
THEOREM AgentOptionIsPassed == Spec => []AgentOptionPassed
<1> DEFINE Passed == AgentArg(IF flags.agentInMgmtCluster THEN "true" ELSE "false")
<1>1. ASSUME NEW k \in Component, NEW s \in Shards, NEW d, MadeFor(k, s, d),
             NEW i \in DOMAIN AllContainers(d),
             NEW j \in DOMAIN AllContainers(Templates[k])[i].args,
             IsAgentArg(AllContainers(Templates[k])[i].args[j])
      PROVE  Once(AllContainers(d)[i].args, Passed)
  <2> DEFINE was == AllContainers(Templates[k])
             is  == AllContainers(d)
  <2>1. /\ i \in DOMAIN was /\ Plain(k, was[i])
        /\ Carries(is[i], {Fill(a, s) : a \in Wanted(k, i)})
    BY <1>1, ArgsGiven
  <2>2. was[i].args[j] \in Range(was[i].args)
    BY DEF Range
  <2>3. k # 3 /\ AgentArg("false") \in Range(was[i].args)
    BY <1>1, <2>1, <2>2 DEF Plain
  <2>4. Passed \in Wanted(k, i)
    BY <2>3 DEF Wanted, WithAgent, Optional
  <2>5. Fill(Passed, s) = Passed
    BY ConstantsAssumption DEF Fill, AgentArg, Arg, ArgValues
  <2> HIDE DEF Passed
  <2>6. Passed \in {Fill(a, s) : a \in Wanted(k, i)}
    BY <2>4, <2>5
  <2> QED BY <2>1, <2>6, GivenOnce DEF Carries
<1>2. AllMade => AgentOptionPassed
  <2> HIDE DEF Passed
  <2> SUFFICES ASSUME AllMade, NEW ks \in Deployed,
                      NEW i \in DOMAIN AllContainers(Of(ks[1], ks[2])),
                      NEW j \in DOMAIN AllContainers(Templates[ks[1]])[i].args,
                      IsAgentArg(AllContainers(Templates[ks[1]])[i].args[j])
               PROVE  Once(AllContainers(Of(ks[1], ks[2]))[i].args, Passed)
    BY DEF AgentOptionPassed, Passed
  <2>1. ks[1] \in Component /\ ks[2] \in Shards /\ MadeFor(ks[1], ks[2], Of(ks[1], ks[2]))
    BY DEF AllMade, Deployed
  <2> QED BY <1>1, <2>1
<1> QED BY <1>2, MadeInvariant, PTL

\* Each config of the command line reaches the container that runs its component, once,
\* and no other container (addDriftDetectionConfig, addClassifierConfigs).
THEOREM ConfigsArePassed == Spec => []ConfigsPassed
<1>1. ASSUME NEW k \in Component, NEW s \in Shards, NEW d, MadeFor(k, s, d)
      PROVE  LET is == AllContainers(d) IN
             /\ \A a \in ConfigArgs(k) : Once(is[1].args, a)
             /\ \A i \in DOMAIN is : \A j \in DOMAIN is[i].args :
                  IsConfigArg(is[i].args[j]) => i = 1 /\ is[i].args[j] \in ConfigArgs(k)
  <2> DEFINE was == AllContainers(Templates[k])
             is  == AllContainers(d)
  <2>1. /\ DOMAIN is = DOMAIN was /\ 1 \in DOMAIN was
        /\ \A i \in DOMAIN was :
             /\ Plain(k, was[i])
             /\ Carries(is[i], {Fill(a, s) : a \in Wanted(k, i)})
    BY <1>1, ArgsGiven
  <2>2. \A a \in ConfigArgs(k) : Fill(a, s) = a
    BY ConstantsAssumption DEF ConfigArgs, ConfigFlags, ConfigArg, Fill, Arg, ArgValues
  <2>3. ASSUME NEW a \in ConfigArgs(k) PROVE Once(is[1].args, a)
    <3>1. a \in Wanted(k, 1)
      BY DEF Wanted
    <3>2. a \in {Fill(b, s) : b \in Wanted(k, 1)}
      BY <2>2, <3>1
    <3> QED BY <2>1, <3>2, GivenOnce DEF Carries
  <2>4. ASSUME NEW i \in DOMAIN is, NEW b \in Range(is[i].args), IsConfigArg(b)
        PROVE  i = 1 /\ b \in ConfigArgs(k)
    <3>1. PICK a \in Wanted(k, i) : b = Fill(a, s)
      BY <2>1, <2>4 DEF Carries
    <3>2. IsConfigArg(a)
      BY <2>4, <3>1 DEF Fill, Arg, IsConfigArg
    <3>3. ~IsConfigArg(AgentArg("true"))
      BY DEF IsConfigArg, AgentArg, Arg, ConfigArg
    <3>4. a \notin WithAgent(k, was[i])
      BY <2>1, <3>2, <3>3 DEF WithAgent, Plain
    <3>5. i = 1 /\ a \in ConfigArgs(k)
      BY <3>4 DEF Wanted
    <3> QED BY <2>2, <3>1, <3>5
  <2> HIDE DEF is
  <2>5. \A i \in DOMAIN is : \A j \in DOMAIN is[i].args : is[i].args[j] \in Range(is[i].args)
    BY DEF Range
  <2> QED BY <2>3, <2>4, <2>5 DEF is
<1>2. AllMade => ConfigsPassed
  BY <1>1 DEF AllMade, ConfigsPassed, Deployed
<1> QED BY <1>2, MadeInvariant, PTL

-----------------------------------------------------------------------------
(* Deploying again.                                                         *)

LEMMA AtMostOne ==
  ASSUME NEW S, IsFiniteSet(S), Cardinality(S) < 2, NEW x \in S, NEW y \in S
  PROVE  x = y
<1> SUFFICES ASSUME x # y PROVE FALSE
  OBVIOUS
<1>1. IsFiniteSet({x}) /\ Cardinality({x}) = 1
  BY FS_Singleton
<1>2. IsFiniteSet({x} \cup {y}) /\ Cardinality({x} \cup {y}) = 2
  <2>1. y \notin {x}
    OBVIOUS
  <2>2. Cardinality({x} \cup {y}) = Cardinality({x}) + 1
    BY <1>1, <2>1, FS_AddElement
  <2> QED BY <1>1, <2>2, FS_AddElement
<1>3. Cardinality({x} \cup {y}) <= Cardinality(S) /\ Cardinality(S) \in Nat
  BY FS_Subset, FS_CardinalityType
<1> QED BY <1>2, <1>3

\* Lists of the same arguments are the same but for their order.
LEMMA SameBag ==
  ASSUME NEW a, NEW b, Distinct(a), Distinct(b), Range(a) = Range(b)
  PROVE  ToBag(a) = ToBag(b)
<1>1. ASSUME NEW c, Distinct(c), NEW x \in Range(c)
      PROVE  Cardinality({i \in DOMAIN c : c[i] = x}) = 1
  <2>1. PICK j \in DOMAIN c : c[j] = x
    BY <1>1 DEF Range
  <2>2. {i \in DOMAIN c : c[i] = x} = {j}
    BY <1>1, <2>1 DEF Distinct
  <2> QED BY <2>2, FS_Singleton
<1>2. ToBag(a) = [x \in Range(a) |-> 1] /\ ToBag(b) = [x \in Range(b) |-> 1]
  BY <1>1 DEF ToBag
<1> QED BY <1>2

\* With fewer than two configs there is only one list of them.
LEMMA OneConfigured ==
  ASSUME NEW k \in Component, Cardinality(ConfigArgs(k)) < 2,
         NEW t \in Configured(k), NEW u \in Configured(k)
  PROVE  t = u
<1>1. ASSUME NEW a \in SetToSeqs(ConfigArgs(k)), NEW b \in SetToSeqs(ConfigArgs(k))
      PROVE  a = b
  <2> DEFINE n == Cardinality(ConfigArgs(k))
  <2>1. a \in [1 .. n -> ConfigArgs(k)] /\ b \in [1 .. n -> ConfigArgs(k)]
    BY DEF SetToSeqs
  <2>2. \A i \in 1 .. n : a[i] = b[i]
    BY <2>1, ConfigArgsFinite, AtMostOne
  <2> HIDE DEF n
  <2>3. a = [i \in 1 .. n |-> a[i]] /\ b = [i \in 1 .. n |-> b[i]]
    BY <2>1
  <2> QED BY <2>2, <2>3
<1> QED BY <1>1 DEF Configured

\* Two Deployments of a component and a shard have the same containers.
LEMMA MadeAlike ==
  ASSUME NEW k \in Component, NEW s \in Shards, NEW d, NEW e,
         MadeFor(k, s, d), MadeFor(k, s, e)
  PROVE  LET is == AllContainers(d)
             becomes == AllContainers(e) IN
         /\ Len(is) = Len(becomes)
         /\ \A i \in DOMAIN is : ToBag(is[i].args) = ToBag(becomes[i].args)
         /\ Cardinality(ConfigArgs(k)) < 2 => is = becomes
<1> DEFINE is == AllContainers(d)
           becomes == AllContainers(e)
           was == AllContainers(Templates[k])
<1>1. /\ Len(is) = Len(was) /\ DOMAIN is = DOMAIN was
      /\ \A i \in DOMAIN was : Carries(is[i], {Fill(a, s) : a \in Wanted(k, i)})
  BY ArgsGiven
<1>2. /\ Len(becomes) = Len(was) /\ DOMAIN becomes = DOMAIN was
      /\ \A i \in DOMAIN was : Carries(becomes[i], {Fill(a, s) : a \in Wanted(k, i)})
  BY ArgsGiven
<1>3. Cardinality(ConfigArgs(k)) < 2 => is = becomes
  BY OneConfigured DEF MadeFor, AllContainers
<1> HIDE DEF is, becomes, was
<1>4. \A i \in DOMAIN is : ToBag(is[i].args) = ToBag(becomes[i].args)
  BY <1>1, <1>2, SameBag DEF Carries
<1> QED BY <1>1, <1>2, <1>3, <1>4 DEF is, becomes, was

\* The labels that the data are to give component k.
Labelling(k) ==
  LET aimed == {x \in Keys : /\ data[x] # None
                             /\ data[x].target = NoTarget \/ k \in data[x].target} IN
  IF aimed = {} THEN {NoLabel} ELSE {data[x].label : x \in aimed}

\* As long as nothing was edited, calls have read the data as they are, and what they
\* have deployed is labelled by them.
Unedited ==
  edits = 0 =>
    /\ pc = "deploying" => read = data
    /\ \A k \in Component, s \in Shards :
         Of(k, s) # None => Of(k, s).label \in Labelling(k)

LEMMA SentLabelled ==
  ASSUME CallInv, Unedited, edits = 0, pc = "deploying", NEW k \in Component
  PROVE  LabelsAimed(k) = Labelling(k) /\ LabelOf(k) \in Labelling(k)
<1>1. read = data
  BY DEF Unedited
<1>2. LabelsAimed(k) = Labelling(k)
  BY <1>1 DEF LabelsAimed, Labelling, Aimed
<1> QED BY <1>2, LabelAimed DEF CallInv

LEMMA StepUnedited == CallInv /\ Unedited /\ [Next]_vars => Unedited'
<1> SUFFICES ASSUME CallInv, Unedited, [Next]_vars, edits' = 0 PROVE Unedited'
  BY DEF Unedited
<1>1. TypeOK
  BY DEF CallInv
<1>2. edits = 0 /\ data' = data
  <2>1. edits \in Nat
    BY <1>1, ConstantsAssumption DEF TypeOK
  <2> QED BY <2>1 DEF Next, BeginDeploy, BeginUndeploy, DeployDeployment,
             UndeployDeployment, Return, Edit, vars
<1>3. \A k \in Component : Labelling(k)' = Labelling(k)
  BY <1>2 DEF Labelling
<1>4. pc' = "deploying" => read' = data'
  BY <1>2 DEF Unedited, Next, BeginDeploy, BeginUndeploy, DeployDeployment,
              UndeployDeployment, Return, Edit, vars
<1>5. ASSUME UNCHANGED deployment PROVE Unedited'
  BY <1>2, <1>3, <1>4, <1>5 DEF Unedited, Of
<1>6. ASSUME NEW j \in Component, NEW x \in Shards, NEW d,
             deployment' = [deployment EXCEPT ![NameOf(j, x)] = d],
             d # None => d.label \in Labelling(j)
      PROVE  Unedited'
  <2>1. \A k \in Component, s \in Shards :
          deployment'[NameOf(k, s)] =
            IF k = j /\ Rendered[s] = Rendered[x] THEN d ELSE deployment[NameOf(k, s)]
    BY <1>1, <1>6, NamesDiffer DEF TypeOK
  <2>2. \A k \in Component, s \in Shards :
          Of(k, s)' = IF k = j /\ Rendered[s] = Rendered[x] THEN d ELSE Of(k, s)
    BY <2>1 DEF Of, NameOf
  <2> QED BY <1>2, <1>3, <1>4, <1>6, <2>2 DEF Unedited
<1>7. CASE DeployDeployment
  <2>1. pc = "deploying" /\ step \in Component /\ shard \in Shards
    BY <1>1, <1>7 DEF DeployDeployment, TypeOK
  <2>2. PICK t \in Configured(step) :
          LET d == ApplyShardPatches(InstantiateTemplate(t, shard), step) IN
          deployment' = [deployment EXCEPT ![d.name] = d]
    BY <1>7 DEF DeployDeployment
  <2> DEFINE d == ApplyShardPatches(InstantiateTemplate(t, shard), step)
  <2>3. d.label = LabelOf(step) /\ deployment' = [deployment EXCEPT ![NameOf(step, shard)] = d]
    BY <1>1, <2>1, <2>2, Sent
  <2> HIDE DEF d
  <2> QED BY <1>2, <1>6, <2>1, <2>3, SentLabelled
<1>8. CASE UndeployDeployment
  <2>1. /\ step \in Component /\ shard \in Shards
        /\ deployment' = [deployment EXCEPT ![NameOf(step, shard)] = None]
    BY <1>1, <1>8, DeletesNamed DEF UndeployDeployment, TypeOK
  <2> QED BY <1>6, <2>1
<1>9. CASE UNCHANGED vars \/ Return \/ \E s \in Shards : BeginDeploy(s) \/ BeginUndeploy(s)
  BY <1>5, <1>9 DEF vars, Return, BeginDeploy, BeginUndeploy
<1>10. CASE \E x \in Keys, p \in Sources \cup {Invalid, None} : Edit(x, p)
  BY <1>5, <1>10 DEF Edit
<1> QED BY <1>7, <1>8, <1>9, <1>10 DEF Next

\* Deploying a shard again gives its Deployments the same arguments, in the same order
\* unless two configs come out of a map, and the same label unless two patches of the
\* component come out of one, as long as the ConfigMap is not edited.
THEOREM RedeployIsStable == Spec => RedeployStable
<1> DEFINE Stable ==
      \A ks \in Deployed :
        edits = 0 /\ pc = "deploying" /\ Of(ks[1], ks[2])' # None =>
          Alike(ks[1], Of(ks[1], ks[2]), Of(ks[1], ks[2])')
<1>1. Init => Unedited
  <2> SUFFICES ASSUME Init PROVE Unedited
    OBVIOUS
  <2>1. \A k \in Component, s \in Shards : Of(k, s) = None
    BY NamesDiffer DEF Init, Of, NameOf
  <2> QED BY <2>1 DEF Unedited, Init
<1>2. CallInv /\ AllMade /\ AllMade' /\ Unedited /\ Unedited' /\ [Next]_vars => Stable
  <2> SUFFICES ASSUME CallInv, AllMade, AllMade', Unedited, Unedited', [Next]_vars,
                      NEW ks \in Deployed, edits = 0, pc = "deploying",
                      Of(ks[1], ks[2])' # None
               PROVE  Alike(ks[1], Of(ks[1], ks[2]), Of(ks[1], ks[2])')
    OBVIOUS
  <2> DEFINE k == ks[1]
             s == ks[2]
             d == Of(k, s)
  <2> PICK e : e = Of(k, s)'
    OBVIOUS
  <2>1. k \in Component /\ s \in Shards /\ d # None /\ e # None
    BY DEF Deployed
  <2>2. flags' = flags
    BY DEF Next, BeginDeploy, BeginUndeploy, DeployDeployment, UndeployDeployment, Return,
           Edit, vars
  <2>3. MadeFor(k, s, d) /\ MadeFor(k, s, e)
    <3>1. MadeFor(k, s, d) /\ MadeFor(k, s, e)'
      BY <2>1 DEF AllMade
    <3> QED BY <2>2, <3>1 DEF MadeFor, Configured, WithOptions, ConfigArgs
  <2>4. Cardinality(Aimed(k)) < 2 => d.label = e.label
    <3>1. CASE edits' = 0
      <4>1. data' = data
        BY <3>1 DEF Next, BeginDeploy, BeginUndeploy, DeployDeployment, UndeployDeployment,
                    Return, Edit, vars, CallInv, TypeOK
      <4>2. d.label \in LabelsAimed(k) /\ e.label \in LabelsAimed(k)
        <5>1. d.label \in Labelling(k)
          BY <2>1 DEF Unedited
        <5>2. Labelling(k)' = Labelling(k)
          BY <4>1 DEF Labelling
        <5>3. (Of(k, s).label)' \in Labelling(k)'
          BY <2>1, <3>1 DEF Unedited
        <5> QED BY <2>1, <5>1, <5>2, <5>3, SentLabelled
      <4>3. IsFiniteSet(Aimed(k))
        BY ConstantsAssumption, FS_Subset DEF Aimed
      <4> QED BY <4>2, <4>3, AtMostOne DEF LabelsAimed
    <3>2. CASE edits' # 0
      <4>1. deployment' = deployment
        BY <3>2 DEF Next, BeginDeploy, BeginUndeploy, DeployDeployment, UndeployDeployment,
                    Return, Edit, vars
      <4> QED BY <4>1 DEF Of
    <3> QED BY <3>1, <3>2
  <2> HIDE DEF d
  <2>5. Alike(k, d, e)
    BY <2>1, <2>3, <2>4, MadeAlike DEF Alike
  <2> QED BY <2>5 DEF d
<1>3. CallInv /\ Unedited /\ [Next]_vars => Unedited'
  BY StepUnedited
<1> QED BY <1>1, <1>2, <1>3, CallInvariant, MadeInvariant, PTL DEF Spec, RedeployStable

=============================================================================

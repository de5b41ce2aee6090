----------------------------- MODULE FeatureAdmin -----------------------------
(***************************************************************************)
(* features describe, upgrade, downgrade, disable, version-mapping and     *)
(* feature-dependencies, with the table of metadata versions.              *)
(***************************************************************************)
EXTENDS AdminTool, Integers, FiniteSetsExt

CONSTANT Nodes            \* registered brokers

VARIABLE levels           \* the finalized level of each feature, 0 if it is off

Metadata == "metadata.version"
ProductionFeatures ==
  {"kraft.version", "transaction.version", "group.version",
   "eligible.leader.replicas.version", "share.version", "streams.version"}
Features == ProductionFeatures \cup {Metadata}

-----------------------------------------------------------------------------
(* The table *)

MetadataLevels == 7..32
ProductionLevels == 7..30
LevelsOf ==
  [release \in {"3.3", "3.4", "3.5", "3.6", "3.7", "3.8", "3.9", "4.0", "4.1", "4.2", "4.3", "4.4"} |->
     CASE release = "3.3" -> {7}      [] release = "3.4" -> {8}      [] release = "3.5" -> 9..11
       [] release = "3.6" -> 12..14   [] release = "3.7" -> 15..19   [] release = "3.8" -> {20}
       [] release = "3.9" -> {21}     [] release = "4.0" -> 22..25   [] release = "4.1" -> 26..27
       [] release = "4.2" -> 28..29   [] release = "4.3" -> {30}     [] release = "4.4" -> 31..32]

DefaultLevel(f, level) ==
  CASE f = "kraft.version" -> IF level >= 21 THEN 1 ELSE 0
    [] f = "transaction.version" -> IF level >= 24 THEN 2 ELSE 0
    [] f = "group.version" -> IF level >= 22 THEN 1 ELSE 0
    [] f = "eligible.leader.replicas.version" -> IF level >= 26 THEN 1 ELSE 0
    [] f = "share.version" -> IF level >= 31 THEN 2 ELSE IF level >= 28 THEN 1 ELSE 0
    [] f = "streams.version" -> IF level >= 29 THEN 1 ELSE 0
    [] OTHER -> 0
MaximumLevel(f) ==
  CASE f = Metadata -> 32 [] f \in {"transaction.version", "share.version"} -> 2 [] OTHER -> 1
Dependency(f, level) == IF f = "eligible.leader.replicas.version" /\ level = 1 THEN {23} ELSE {}

\* The table and the rules agree: a default is a level the feature has, it needs no
\* newer metadata, and a newer metadata version has no lower default.
ASSUME TableAgrees ==
  /\ UNION {LevelsOf[r] : r \in DOMAIN LevelsOf} = MetadataLevels
  /\ \A f \in ProductionFeatures : \A m \in MetadataLevels :
       /\ DefaultLevel(f, m) \in 0..MaximumLevel(f)
       /\ \A d \in Dependency(f, DefaultLevel(f, m)) : d <= m
       /\ \A n \in MetadataLevels : m <= n => DefaultLevel(f, m) <= DefaultLevel(f, n)

\* A version is given as such, by its level here, or as a release, which stands for
\* its last version in production; no level if there is none.
MetadataVersion(v) ==
  IF v[1] = "version" THEN {v[2]} \cap MetadataLevels
  ELSE LET production == IF v[2] \in DOMAIN LevelsOf THEN LevelsOf[v[2]] \cap ProductionLevels ELSE {}
       IN IF production = {} THEN {} ELSE {Max(production)}

-----------------------------------------------------------------------------
(* The arguments *)

\* What the command line can be.
FeatureCommand(c) ==
  IsOption(c.release) /\ IsOption(c.metadata) /\ c.features \in Seq(STRING \X Int)

ListedLevels(c) == {c.features[i] : i \in DOMAIN c.features}
NamedOnce(c) == Cardinality({f[1] : f \in ListedLevels(c)}) = Len(c.features)
FeatureOk(f) == f[1] # "" /\ f[2] \in (-32768)..32767
FeaturesOk(c) == NamedOnce(c) /\ \A f \in ListedLevels(c) : FeatureOk(f)

\* Mutant: a downgrade leaves alone what the release does not turn on, like an upgrade.
ReleaseLevelsOn(c) ==
  LET level == The(MetadataVersion(The(c.release)))
      chosen == {f \in ProductionFeatures : DefaultLevel(f, level) > 0}
  IN {<<Metadata, level>>} \cup {<<f, DefaultLevel(f, level)>> : f \in chosen}

\* An upgrade leaves alone what the release does not turn on; a downgrade turns it off.
ReleaseLevels(c) ==
  LET level == The(MetadataVersion(The(c.release)))
      chosen == {f \in ProductionFeatures : c.action # "upgrade" \/ DefaultLevel(f, level) > 0}
  IN {<<Metadata, level>>} \cup {<<f, DefaultLevel(f, level)>> : f \in chosen}
FeatureLevels(c) == IF c.release # {} THEN ReleaseLevels(c) ELSE ListedLevels(c)
FeatureUpdates(c) ==
  IF c.action = "disable" THEN {<<f[1], 0>> : f \in ListedLevels(c)}
  ELSE FeatureLevels(c) \cup {<<Metadata, The(MetadataVersion(v))>> : v \in c.metadata}
VersionsOk(c) == \A v \in c.release \cup c.metadata : MetadataVersion(v) # {}
UpdatesRefused(c) ==
  \/ ~ VersionsOk(c)
  \/ c.release = {} /\ ~ IF c.action = "disable" THEN NamedOnce(c) ELSE FeaturesOk(c)
  \/ c.metadata # {} /\ Metadata \in {f[1] : f \in FeatureLevels(c)}
  \/ FeatureUpdates(c) = {}

-----------------------------------------------------------------------------
\* One node is asked for what it supports, or the cluster.
DescribeFeatures ==
  /\ Is("features", "describe") /\ pc = "start"
  /\ IF cmd.nodes \subseteq Nodes THEN Report(Rows({<<f, levels[f]>> : f \in Features}, "shown"))
     ELSE Usage
  /\ UNCHANGED levels

\* The controller moves a feature up or down, never the other way than it was told.
MayUpdate(c, u) ==
  /\ u[1] \in Features /\ u[2] \in 0..MaximumLevel(u[1])
  /\ u[1] = Metadata => u[2] \in MetadataLevels
  /\ IF c.action = "upgrade" THEN u[2] > 0 /\ u[2] >= levels[u[1]] ELSE u[2] <= levels[u[1]]
UpdateFeatures ==
  /\ Is("features", "upgrade") \/ Is("features", "downgrade") \/ Is("features", "disable")
  /\ pc = "start"
  /\ IF UpdatesRefused(cmd) THEN Usage
     ELSE LET updates == FeatureUpdates(cmd)
              can == {u \in updates : MayUpdate(cmd, u)}
          IN IF cmd.dryRun THEN DryRun(updates, can) ELSE Request(updates, can, {}, "rows")
  /\ levels' = [f \in Features |->
       IF \E u \in applied' : u[1] = f THEN (CHOOSE u \in applied' : u[1] = f)[2] ELSE levels[f]]

VersionMapping ==
  /\ Is("features", "version-mapping") /\ pc = "start"
  /\ IF ~ VersionsOk(cmd) THEN Usage
     ELSE LET level == IF cmd.release = {} THEN 30 ELSE The(MetadataVersion(The(cmd.release)))
          IN Report(Rows({<<Metadata, level>>} \cup {<<f, DefaultLevel(f, level)>> : f \in ProductionFeatures}, "shown"))
  /\ UNCHANGED levels

KnownLevel(f) ==
  IF f[1] = Metadata THEN f[2] \in MetadataLevels
  ELSE f[1] \in ProductionFeatures /\ f[2] \in 0..MaximumLevel(f[1])
FeatureDependencies ==
  /\ Is("features", "feature-dependencies") /\ pc = "start"
  /\ IF FeaturesOk(cmd) /\ \A f \in ListedLevels(cmd) : KnownLevel(f)
     THEN Report(Rows({<<f, Dependency(f[1], f[2])>> : f \in ListedLevels(cmd)}, "shown"))
     ELSE Usage
  /\ UNCHANGED levels

\* Another operator turns a feature off or on.
FeaturesForeign ==
  /\ cmd.tool = "features" /\ Foreign
  /\ \E f \in {"group.version", "share.version"} :
       levels' = [levels EXCEPT ![f] = IF @ = 0 THEN 1 ELSE 0]

FeaturesNext ==
  DescribeFeatures \/ UpdateFeatures \/ VersionMapping \/ FeatureDependencies \/ FeaturesForeign

FeatureLevelsOk(l) == l \in [Features -> 0..32] /\ \A f \in Features : l[f] \in 0..MaximumLevel(f)
FeaturesTypeOK == FeatureLevelsOk(levels)
=============================================================================

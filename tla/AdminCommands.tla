---------------------------- MODULE AdminCommands ----------------------------
(***************************************************************************)
(* The administrative commands together: an operator runs a script of one  *)
(* or two of them against a cluster that other clients change, over        *)
(* connections that fail.                                                  *)
(***************************************************************************)
EXTENDS TopicAdmin, AclAdmin, ConfigAdmin, FeatureAdmin, ClusterAdmin, PartitionAdmin

CONSTANTS InitialTopics, InitialConfigs, InitialLevels, InitialQuorum, InitialLeader

Command(c) ==
  /\ c.tool = "topics" => TopicCommand(c)
  /\ c.tool = "acls" => AclCommand(c)
  /\ c.tool = "configs" => ConfigCommand(c)
  /\ c.tool = "features" => FeatureCommand(c)
  /\ c.tool = "metadata-quorum" => QuorumCommand(c)
  /\ c.tool = "delegation-tokens" => TokenCommand(c)
  /\ c.tool = "delete-records" => RecordsCommand(c)

ASSUME BoundsAssumption ==
  {MaxFaults, MaxForeign, MaxId, MaxPartitions, MaxTokens} \subseteq Nat /\ MaxPartitions # 0
ASSUME ScriptsAssumption ==
  \A s \in Scripts :
    /\ s \in Seq(Elements(s)) /\ s # <<>>
    /\ \A i \in DOMAIN s : Command(s[i])
ASSUME ClusterAssumption ==
  /\ IsFiniteSet(Names) /\ InitialTopics \in [Names -> TopicRecords]
  /\ Cardinality({n \in Names : InitialTopics[n].id # 0}) <= MaxId
  /\ "*" \in AclHosts
  /\ \A x \in InitialConfigs : ConfigEntry(x)
  /\ FeatureLevelsOk(InitialLevels)
  /\ InitialQuorum \in Quorums
  /\ \A dir \in LogDirs : dir.replicas \subseteq Parts
  /\ LogEnd \in Nat \ {0} /\ InitialLeader \in [Parts -> {"preferred", "other", "none"}]

clusterState == <<topicVars, acls, configs, levels, clusterVars, partVars>>
vars == <<adminVars, clusterState>>

Init ==
  /\ AdminInit
  /\ topics = InitialTopics /\ lastId = Cardinality(TopicNames)
  /\ acls = {} /\ configs = InitialConfigs
  /\ levels = InitialLevels
  /\ quorum = InitialQuorum /\ servers = [s \in Servers |-> "alive"]
  /\ tokens = {} /\ lastToken = 0
  /\ logStart = [p \in Parts |-> 1] /\ tiered = {} /\ leader = InitialLeader

Next ==
  \/ TopicsNext /\ UNCHANGED <<acls, configs, levels, clusterVars, partVars>>
  \/ AclsNext /\ UNCHANGED <<topicVars, configs, levels, clusterVars, partVars>>
  \/ ConfigsNext /\ UNCHANGED <<topicVars, acls, levels, clusterVars, partVars>>
  \/ FeaturesNext /\ UNCHANGED <<topicVars, acls, configs, clusterVars, partVars>>
  \/ ClusterNext /\ UNCHANGED <<topicVars, acls, configs, levels, partVars>>
  \/ PartsNext /\ UNCHANGED <<topicVars, acls, configs, levels, clusterVars>>
  \/ (CallFails \/ NextCommand) /\ UNCHANGED clusterState

Spec == Init /\ [][Next]_vars

-----------------------------------------------------------------------------
TypeOK ==
  /\ AdminTypeOK
  /\ TopicsTypeOK /\ AclsTypeOK /\ ConfigsTypeOK /\ FeaturesTypeOK /\ ClusterTypeOK /\ PartsTypeOK

\* Every command keeps the contract of AdminContract: what its exit status and its rows
\* say is what the cluster has done for it, whatever was refused, lost or changed under
\* way.  delete-records is lenient: it prints the error of a partition and succeeds.
Contract ==
  INSTANCE AdminContract WITH phase <- IF exit = "none" THEN "working" ELSE "over",
                              lenient <- cmd.tool = "delete-records"
KeepsContract == Contract!Spec

-----------------------------------------------------------------------------
(* Two commands, one after the other *)

Earlier == script[1]
Pair(tool, first, second) ==
  /\ Earlier.tool = tool /\ Earlier.action = first
  /\ cmd.tool = tool /\ cmd.action = second

TopicsUndone ==
  Pair("topics", "create", "delete") /\ Earlier.name \in cmd.expression => ~ Exists(Earlier.name)
\* The exception is an access control list given with --principal and --allow-host: the
\* removal does not look at --allow-host.
AclsUndone ==
  Pair("acls", "add", "remove") /\ cmd = [Earlier EXCEPT !.action = "remove"] =>
    (cmd.execute /\ ~ HostsDiffer(cmd) => Bindings(Earlier) \cap acls = {})
ConfigsUndone ==
  Pair("configs", "alter", "alter") /\ cmd = [Earlier EXCEPT !.add = {}, !.delete = Earlier.add] =>
    (cmd.execute => \A x \in configs : x[2] \in cmd.delete => x \in InitialConfigs)
MetricsUndone ==
  Pair("client-metrics", "alter", "delete") =>
    (cmd.execute /\ cmd.name = Earlier.name => KeysOf(Metrics(cmd)) = {})
FeaturesUndone ==
  Pair("features", "upgrade", "downgrade") /\ cmd.release # {} /\ ~ cmd.dryRun =>
    LET level == The(MetadataVersion(The(cmd.release)))
    IN \A f \in Features :
         levels[f] = IF f = Metadata THEN level ELSE DefaultLevel(f, level)
QuorumUndone ==
  Pair("metadata-quorum", "add-controller", "remove-controller") =>
    (~ cmd.dryRun => cmd.node \notin quorum.voters)

\* What one command has done, the one that undoes it takes away, to the last of it, when
\* both succeed and nobody interferes: the two parse their arguments and build their
\* requests by different code.
UndoneIsGone ==
  SecondOver /\ exit = "ok" /\ past[1].exit = "ok" /\ past[1].calm =>
    TopicsUndone /\ AclsUndone /\ ConfigsUndone /\ MetricsUndone /\ FeaturesUndone /\ QuorumUndone

\* A command whose answer was lost has been done; who repeats it, as it was, is told that
\* all is well.  Not so for what the code refuses to do twice: to delete the quota or
\* the credential that is gone, to grow a topic that has grown, to create or delete
\* a topic without --if-not-exists or --if-exists, to add or remove a controller, a broker
\* or a token.
RefusedTwice ==
  \/ cmd.tool = "configs" /\ IsQuota(cmd) /\ cmd.delete # {}
  \/ cmd.tool = "topics" /\ (cmd.action = "alter" \/ ~ cmd.lenient)
  \/ cmd.tool = "metadata-quorum"
  \/ cmd.action \in {"expire", "unregister"}
RetrySucceeds ==
  SecondOver /\ cmd = Earlier /\ past[1].done /\ ~ RefusedTwice => exit = "ok"

-----------------------------------------------------------------------------
(* What describe and list show *)

TopicsShown ==
  cmd.tool = "topics" /\ cmd.action \in {"list", "describe"} /\ ~ OtherAlphabet =>
    /\ exit = "ok" => Shown = TopicsToShow
    /\ exit = "usage" /\ TopicIdOk(cmd.selector) => TopicsToShow = {}

\* The values that were set are shown with their entity; those of a group only by --all.
ConfigsShown ==
  /\ cmd.tool = "configs" /\ cmd.action = "describe" /\ exit = "ok" =>
       \A x \in configs :
         x \in Shown <=>
           /\ {e[1] : e \in x[1]} = IF EntityDefault(cmd) /\ Only(cmd, "broker") THEN {"brokerDefault"}
                                    ELSE Elements(Kinds(cmd))
           /\ EntityDefault(cmd) => \A e \in x[1] : e[2] = ""
           /\ EntityNames(cmd) # <<>> =>
                \A i \in DOMAIN Kinds(cmd) : <<Kinds(cmd)[i], EntityNames(cmd)[i]>> \in x[1]
           /\ Only(cmd, "group") => cmd.all
  /\ cmd.tool = "client-metrics" /\ cmd.action = "describe" /\ cmd.name # "" /\ exit = "ok" =>
       {x[2] : x \in Shown} = KeysOf(Metrics(cmd))

\* The error of a directory is told with its replicas, and not at all if it has none.
LogDirsShown ==
  cmd.tool = "log-dirs" /\ exit = "ok" /\ cmd.topics = {} =>
    \A dir \in LogDirs :
      OnBroker(cmd, dir) /\ dir.error /\ dir.replicas # {} => dir \in {row[1] : row \in Shown}

\* A report that nobody disturbs shows what there is: the topics, in two or four calls,
\* the values of an entity, in one or two, the directories with an error.
DescribeTellsTheTruth ==
  calm /\ exit # "none" => TopicsShown /\ ConfigsShown /\ LogDirsShown
=============================================================================

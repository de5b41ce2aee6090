----------------------------- MODULE ConfigAdmin -----------------------------
(***************************************************************************)
(* configs describe and alter, and client-metrics list, describe, alter    *)
(* and delete.                                                             *)
(*                                                                         *)
(* An entity is a set of pairs of a kind and a name, of one pair except    *)
(* for the clients of a user; the name of a default is "".  What a         *)
(* command changes is which keys an entity has a dynamic value for.        *)
(***************************************************************************)
EXTENDS AdminTool

CONSTANTS Resources,      \* brokers and topics that exist, as pairs of a kind and a name
          Unresolvable    \* names of hosts that do not resolve

VARIABLE configs          \* pairs of an entity and a key

QuotaKinds == {"user", "client", "ip"}
QuotaKeys == {"producer_byte_rate", "consumer_byte_rate", "request_percentage",
              "controller_mutation_rate"}
IpKey == "connection_creation_rate"
ScramKeys == {"SCRAM-SHA-256", "SCRAM-SHA-512", "SCRAM-SHA-1"}
Mechanisms == {"SCRAM-SHA-256", "SCRAM-SHA-512"}
ProtocolKinds == {"brokerDefault", "brokerLogger", "clientMetrics"}
MetricsKeys == {"interval.ms", "match", "metrics"}
KeysOf(entity) == {x[2] : x \in {y \in configs : y[1] = entity}}

Elements(s) == {s[i] : i \in DOMAIN s}

-----------------------------------------------------------------------------
(* The entity of a command: kinds and names in parallel, or flags for one    *)
(* kind each, of which only one names a default by itself.                   *)

\* What the command line can be: --entity-default excludes --entity-name.
ConfigCommand(c) ==
  /\ c \in [tool : {"configs"}, action : {"describe", "alter"}, kinds : Seq(STRING), names : Seq(STRING),
            default : BOOLEAN, flags : Seq(STRING \X STRING), add : SUBSET STRING, delete : SUBSET STRING,
            badValue : BOOLEAN, execute : BOOLEAN, all : BOOLEAN]
  /\ c.default => c.names = <<>>

Generic(c) == c.kinds # <<>> \/ c.names # <<>> \/ c.default
OnlyDefault(c) == Len(c.flags) = 1 /\ c.flags[1][2] = ""
Kinds(c) == IF Generic(c) THEN c.kinds ELSE [i \in DOMAIN c.flags |-> c.flags[i][1]]
EntityNames(c) ==
  IF Generic(c) THEN c.names
  ELSE IF OnlyDefault(c) THEN <<>> ELSE [i \in DOMAIN c.flags |-> c.flags[i][2]]
EntityDefault(c) == IF Generic(c) THEN c.default ELSE OnlyDefault(c)
ResolveRefused(c) ==
  \/ Generic(c) /\ (c.flags # <<>> \/ c.kinds = <<>>)
  \/ ~ Generic(c) /\ c.flags = <<>>

Only(c, kind) == Kinds(c) = <<kind>>
EntityKindsOk(c) ==
  /\ \A i, j \in DOMAIN Kinds(c) : Kinds(c)[i] = Kinds(c)[j] => i = j
  /\ Len(Kinds(c)) > 1 => Elements(Kinds(c)) = {"user", "client"}
EntityNamesOk(c, altering) ==
  LET names == Elements(EntityNames(c)) IN
  /\ Only(c, "brokerLogger") /\ ~ altering => names # {}
  /\ altering /\ (Generic(c) \/ OnlyDefault(c)) => "" \notin names
  /\ Only(c, "broker") \/ Only(c, "brokerLogger") => names \cap {"", "x"} = {}
  /\ Only(c, "ip") => names \cap Unresolvable = {}

IsQuota(c) == Kinds(c) # <<>> /\ Elements(Kinds(c)) \subseteq QuotaKinds
Changes(c) == c.add \cup c.delete
OnlyScram(c) == Changes(c) \subseteq ScramKeys
QuotaKeysOk(c) ==
  LET quotas == Changes(c) \ ScramKeys
      scram == Changes(c) \cap ScramKeys
  IN /\ quotas \subseteq QuotaKeys \cup {IpKey}
     /\ "ip" \in Elements(Kinds(c)) => quotas \subseteq {IpKey}
     /\ "ip" \notin Elements(Kinds(c)) => IpKey \notin quotas
     /\ scram # {} => Only(c, "user") /\ quotas = {}
AlterArgsOk(c) ==
  /\ ~ ResolveRefused(c) /\ Changes(c) # {}
  /\ EntityKindsOk(c) /\ EntityNamesOk(c, TRUE)
  /\ "bad key" \notin c.add
  /\ IsQuota(c) => QuotaKeysOk(c)

\* The one resource that is not a quota: its kind, and its name if it has one.  The
\* default of all brokers is a kind of its own here.
SingleResourceOk(c, named) ==
  /\ Len(Kinds(c)) = 1
  /\ IF EntityDefault(c) THEN Only(c, "broker")
     ELSE Len(EntityNames(c)) <= 1 /\ (named => EntityNames(c) # <<>>)
KindOf(c) == IF EntityDefault(c) THEN "brokerDefault" ELSE Kinds(c)[1]
Entity(c) ==
  IF EntityDefault(c) THEN {<<KindOf(c), "">>} ELSE {<<Kinds(c)[1], EntityNames(c)[1]>>}

\* A quota entity has a name for each kind, or is the default of one kind.
QuotaEntityOk(c, named) ==
  IF EntityDefault(c) THEN Len(Kinds(c)) = 1 /\ EntityNames(c) = <<>>
  ELSE /\ named => EntityNames(c) # <<>>
       /\ EntityNames(c) # <<>> => Len(EntityNames(c)) = Len(Kinds(c))
QuotaEntity(c) ==
  {<<Kinds(c)[i], IF EntityDefault(c) THEN "" ELSE EntityNames(c)[i]>> : i \in DOMAIN Kinds(c)}
IsQuotaEntity(c, e) ==
  IF EntityDefault(c) \/ EntityNames(c) # <<>> THEN e = QuotaEntity(c)
  ELSE {x[1] : x \in e} = Elements(Kinds(c))

-----------------------------------------------------------------------------
(* alter *)

Preview == Report(Rows(Changes(cmd), "preview"))

AlterConfig ==
  /\ Is("configs", "alter") /\ pc = "start"
  /\ IF ~ AlterArgsOk(cmd) THEN Usage
     ELSE IF IsQuota(cmd) /\ ~ OnlyScram(cmd)
     THEN IF ~ QuotaEntityOk(cmd, TRUE) \/ cmd.badValue THEN Usage
          ELSE IF cmd.execute THEN Goto("decide") ELSE Preview
     ELSE IF ~ SingleResourceOk(cmd, TRUE) THEN Usage
     ELSE IF Only(cmd, "user")
     THEN IF cmd.badValue \/ cmd.add \cap cmd.delete # {} \/ ~ Changes(cmd) \subseteq Mechanisms THEN Usage
          ELSE IF cmd.execute THEN Goto("scram") ELSE Preview
     ELSE IF ~ cmd.execute THEN Preview
     ELSE IF KindOf(cmd) \in ProtocolKinds THEN Goto("identify")
     ELSE Goto("resource")
  /\ UNCHANGED configs

\* Values are set and deleted together.
Altered(entity) == (configs \cup ({entity} \X cmd.add)) \ ({entity} \X cmd.delete)
AlterEntity(entity, can, manner) ==
  /\ Request({entity}, IF can THEN {entity} ELSE {}, {}, manner)
  /\ configs' = IF applied' = {} THEN configs ELSE Altered(entity)

\* What a quota entity has is read first: to delete what it has not is an error.
ReadQuota ==
  /\ Is("configs", "alter") /\ pc = "decide"
  /\ IF cmd.delete \subseteq KeysOf(QuotaEntity(cmd)) THEN Goto("quota") ELSE Failed
  /\ UNCHANGED configs
AlterQuota ==
  /\ Is("configs", "alter") /\ pc = "quota"
  /\ AlterEntity(QuotaEntity(cmd), TRUE, "rows")

\* The broker does all the changes of a user's credentials or none.
AlterScram ==
  /\ Is("configs", "alter") /\ pc = "scram"
  /\ AlterEntity(Entity(cmd), cmd.delete \subseteq KeysOf(Entity(cmd)), "firstError")

\* Groups, subscriptions and defaults need not exist.
ResourceOk(entity) == \A x \in entity : x[1] \in {"broker", "topic"} => x \in Resources
AlterResource ==
  /\ Is("configs", "alter") /\ pc = "resource"
  /\ AlterEntity(Entity(cmd), ResourceOk(Entity(cmd)), "firstError")

\* The broker that must be asked: the logger's own, or the controller.
ConfigBrokerOk(entity) == \A x \in entity : x[1] = "brokerLogger" => <<"broker", x[2]>> \in Resources
FindConfigBroker ==
  /\ Is("configs", "alter") /\ pc = "identify"
  /\ IF ConfigBrokerOk(Entity(cmd)) THEN Goto("protocol") ELSE Usage
  /\ UNCHANGED configs
AlterProtocol ==
  /\ Is("configs", "alter") /\ pc = "protocol"
  /\ AlterEntity(Entity(cmd), TRUE, "rows")

-----------------------------------------------------------------------------
(* describe *)

Scram(x) == x[2] \in ScramKeys
Configured == {x[1] : x \in configs}
Described(wanted) == Rows({x \in configs : x[1] \in wanted}, "shown")
\* A named user without credentials is an error.
DescribeQuota ==
  /\ Is("configs", "describe") /\ pc = "start"
  /\ ~ ResolveRefused(cmd) /\ IsQuota(cmd) /\ EntityKindsOk(cmd) /\ EntityNamesOk(cmd, FALSE)
  /\ LET quotas == {x \in configs : IsQuotaEntity(cmd, x[1]) /\ ~ Scram(x)}
     IN IF ~ QuotaEntityOk(cmd, FALSE) THEN Usage
        ELSE IF Only(cmd, "user") /\ ~ EntityDefault(cmd)
                /\ (EntityNames(cmd) = <<>> \/ EntityNames(cmd)[1] # "")
        THEN Read("scram", quotas)
        ELSE Report(Rows(quotas, "shown"))
  /\ UNCHANGED configs
DescribeScram ==
  /\ Is("configs", "describe") /\ pc = "scram"
  /\ LET credentials == {x \in configs : IsQuotaEntity(cmd, x[1]) /\ Scram(x)}
     IN IF EntityNames(cmd) # <<>> /\ credentials = {} THEN Failed
        ELSE Report(Rows(seen \cup credentials, "shown"))
  /\ UNCHANGED configs

\* Without --all only dynamic values, and those of a group are not among the sources
\* that count as dynamic.
DynamicSource(kind) == kind # "group"
WithName(c, e) ==
  IF EntityDefault(c) \/ EntityNames(c) # <<>> THEN e = Entity(c)
  ELSE {x[1] : x \in e} = Elements(Kinds(c))
DescribeConfigArgsOk(c) ==
  /\ ~ ResolveRefused(c) /\ EntityKindsOk(c) /\ EntityNamesOk(c, FALSE)
  /\ IsQuota(c) \/ SingleResourceOk(c, FALSE)
DescribeConfig ==
  /\ Is("configs", "describe") /\ pc = "start"
  /\ IF ~ DescribeConfigArgsOk(cmd) THEN Usage
     ELSE /\ ~ IsQuota(cmd)
          /\ IF KindOf(cmd) = "brokerLogger" /\ ~ ConfigBrokerOk(Entity(cmd)) THEN Usage
             ELSE IF EntityNames(cmd) # <<>> /\ ~ ResourceOk(Entity(cmd)) THEN Failed
             ELSE Report(Described({e \in Configured : WithName(cmd, e) /\ (cmd.all \/ DynamicSource(KindOf(cmd)))}))
  /\ UNCHANGED configs

-----------------------------------------------------------------------------
(* client-metrics *)

Metrics(c) == {<<"clientMetrics", c.name>>}

MetricsList ==
  /\ Is("client-metrics", "list") \/ Is("client-metrics", "describe")
  /\ pc = "start"
  /\ Report(Described({e \in Configured : IF cmd.action = "describe" /\ cmd.name # "" THEN e = Metrics(cmd)
                                          ELSE \E x \in e : x[1] = "clientMetrics"}))
  /\ UNCHANGED configs

\* An empty value deletes its key.
MetricsAlter ==
  /\ Is("client-metrics", "alter") /\ pc = "start"
  /\ IF cmd.badValue \/ cmd.name = "" THEN Usage /\ UNCHANGED configs
     ELSE IF ~ cmd.execute THEN Preview /\ UNCHANGED configs
     ELSE AlterEntity(Metrics(cmd), TRUE, "rows")

\* The keys are read first, and then deleted one and all.
MetricsKeysRead ==
  /\ Is("client-metrics", "delete") /\ pc = "start"
  /\ IF cmd.execute THEN Read("decide", KeysOf(Metrics(cmd)))
     ELSE Report(Rows(KeysOf(Metrics(cmd)), "preview"))
  /\ UNCHANGED configs
MetricsDelete ==
  /\ Is("client-metrics", "delete") /\ pc = "decide"
  /\ Request({Metrics(cmd)}, {Metrics(cmd)}, {}, "rows")
  /\ configs' = IF applied' = {} THEN configs ELSE configs \ ({Metrics(cmd)} \X seen)

ConfigsForeign ==
  /\ cmd.tool \in {"configs", "client-metrics"} /\ Foreign
  /\ \/ \E x \in configs : configs' = configs \ {x}
     \/ \E k \in {"interval.ms", "match"} :
          configs' = configs \cup {<<{<<"clientMetrics", "m">>}, k>>}

ConfigsNext ==
  \/ AlterConfig \/ ReadQuota \/ AlterQuota \/ AlterScram \/ AlterResource
  \/ FindConfigBroker \/ AlterProtocol
  \/ DescribeQuota \/ DescribeScram \/ DescribeConfig
  \/ MetricsList \/ MetricsAlter \/ MetricsKeysRead \/ MetricsDelete
  \/ ConfigsForeign

\* An entity is of one kind or the clients of a user, with one name for each kind;
\* of those that have quotas only a user alone, by name, has credentials.
ConfigEntry(x) ==
  LET kinds == {y[1] : y \in x[1]} IN
  /\ x = <<x[1], x[2]>>
  /\ (\E k \in kinds : kinds = {k}) \/ kinds = {"user", "client"}
  /\ \A y \in x[1] : y = <<y[1], y[2]>>
  /\ \A y, z \in x[1] : y[1] = z[1] => y = z
  /\ x[2] \in ScramKeys /\ kinds \subseteq QuotaKinds =>
       kinds = {"user"} /\ \A u \in x[1] : u[2] # ""
ConfigsTypeOK == \A x \in configs : ConfigEntry(x)
=============================================================================

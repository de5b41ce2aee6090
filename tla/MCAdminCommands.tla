--------------------------- MODULE MCAdminCommands ---------------------------
EXTENDS AdminCommands

-----------------------------------------------------------------------------
(* The cluster *)

MCConditions == [n \in Names |-> IF n = "t1" THEN {"unavailable", "under-replicated"} ELSE {}]
MCTopics ==
  [n \in Names |-> CASE n = "t1" -> [id |-> 1, partitions |-> 1, overrides |-> TRUE]
                     [] n = "__t" -> [id |-> 2, partitions |-> 2, overrides |-> FALSE]
                     [] OTHER -> Absent]
MCResources == {<<"topic", "topic1">>, <<"cluster", "kafka-cluster">>, <<"group", "group1">>,
                <<"transactional-id", "txn1">>, <<"token", "token1">>, <<"topic", "">>}
MCExisting == {<<"broker", "1">>, <<"topic", "t1">>}
MCConfigs ==
  {<<{<<"user", "u">>}, "producer_byte_rate">>, <<{<<"user", "u">>}, "SCRAM-SHA-256">>,
   <<{<<"user", "u">>, <<"client", "c">>}, "consumer_byte_rate">>,
   <<{<<"client", "">>}, "request_percentage">>, <<{<<"brokerDefault", "">>}, "log.cleaner.threads">>,
   <<{<<"broker", "1">>}, "log.cleaner.threads">>, <<{<<"group", "g">>}, "consumer.session.timeout.ms">>,
   <<{<<"topic", "t1">>}, "retention.ms">>, <<{<<"clientMetrics", "n">>}, "metrics">>}
MCLevels == [f \in Features |-> IF f = Metadata THEN 25 ELSE DefaultLevel(f, 25)]
MCQuorum == [leader |-> 1, voters |-> {1, 2}, observers |-> {3}]
MCParts == {<<"a", 0>>, <<"a", 1>>, <<"__internal", 0>>}
MCLeader == [p \in Parts |-> CASE p = <<"a", 0>> -> "preferred" [] p = <<"a", 1>> -> "other" [] OTHER -> "none"]
MCLogDirs ==
  {[broker |-> 1, dir |-> "d1", error |-> FALSE, replicas |-> Parts],
   [broker |-> 2, dir |-> "d1", error |-> TRUE, replicas |-> {<<"a", 0>>}],
   [broker |-> 2, dir |-> "d2", error |-> TRUE, replicas |-> {}]}

-----------------------------------------------------------------------------
(* topics *)

List1 == [tool |-> "topics", action |-> "list", selector |-> Selector, lenient |-> FALSE]
By(c, s) == [c EXCEPT !.selector = s]
Describe1 == [List1 EXCEPT !.action = "describe"]
TopicReads ==
  {[By(c, [Selector EXCEPT !.topic = t, !.excludeInternal = x]) EXCEPT !.lenient = l] :
     c \in {List1, Describe1}, t \in {{}, {{"t1", "t2"}}, {{"t2"}}}, x \in BOOLEAN, l \in BOOLEAN}
  \cup {By(Describe1, [Selector EXCEPT !.topicId = {id}, !.topic = t]) :
          id \in {<<1, "standard">>, <<1, "url">>, <<2, "url">>, <<9, "url">>, <<0, "url">>, <<1, "bad">>},
          t \in {{}, {{"t2"}}}}
  \cup {By(Describe1, [Selector EXCEPT !.flags = {"unavailable"}]),
        By(Describe1, [Selector EXCEPT !.overrides = TRUE])}
Create1 ==
  [tool |-> "topics", action |-> "create", name |-> "t2", lenient |-> FALSE, assignment |-> {},
   partitions |-> {}, factor |-> {}]
Creates ==
  {[Create1 EXCEPT !.lenient = l, !.name = n] : l \in BOOLEAN, n \in {"t1", "t2"}}
  \cup {[Create1 EXCEPT !.assignment = {a}] : a \in {0, 2}}
  \cup {[Create1 EXCEPT !.partitions = {p}] : p \in {0, 2}}
  \cup {[Create1 EXCEPT !.factor = {f}] : f \in {1, 32768}}
Delete1 == [tool |-> "topics", action |-> "delete", expression |-> {"t1", "t2"}, lenient |-> FALSE]
Deletes == {[Delete1 EXCEPT !.lenient = l, !.expression = e] : l \in BOOLEAN, e \in {{"t2"}, {"t1", "t2"}}}
Alter1 ==
  [tool |-> "topics", action |-> "alter", expression |-> {"t1"}, lenient |-> FALSE, target |-> 2,
   assignment |-> {}]
Alters ==
  {[Alter1 EXCEPT !.target = n, !.expression = e] : n \in {0, 2, 3}, e \in {{"t1"}, {"t1", "__t"}, {"t2"}}}
  \cup {[Alter1 EXCEPT !.assignment = {a}] : a \in {2, 3}}
TopicScripts ==
  {<<c>> : c \in TopicReads \cup Alters}
  \cup {<<c, d>> : c \in Creates, d \in Deletes}
  \cup {<<c, c>> : c \in Creates \cup Deletes \cup {Alter1}}
  \cup {<<c, d>> : c \in {Create1} \cup Deletes, d \in {Describe1, By(Describe1, [Selector EXCEPT !.topicId = {<<1, "standard">>}])}}

-----------------------------------------------------------------------------
(* acls *)

Acl1 ==
  [tool |-> "acls", action |-> "add", resources |-> {<<"topic", "topic1">>}, roles |-> {},
   operations |-> {}, pattern |-> "literal", principals |-> {}, allow |-> {}, deny |-> {},
   allowHosts |-> {}, denyHosts |-> {}, host |-> {}, execute |-> TRUE]
RoleTopicGroup == {<<"topic", "topic1">>, <<"group", "group1">>}
AclChanges ==
  {[Acl1 EXCEPT !.allow = {"p"}, !.operations = o, !.allowHosts = h, !.pattern = t] :
     o \in {{}, {"Read"}, {"Read", "Write"}}, h \in {{}, {"h1"}}, t \in {"literal", "prefixed"}}
  \cup {[Acl1 EXCEPT !.principals = {"p"}, !.operations = {"Read"}, !.allowHosts = h, !.host = d] :
          h \in {{}, {"h1"}}, d \in {{}, {"h2"}}}
  \cup {[Acl1 EXCEPT !.deny = {"q"}, !.allow = {"p"}, !.denyHosts = {"h1"}, !.host = {"h2"}],
        [Acl1 EXCEPT !.allow = {"p"}, !.roles = {"producer"}],
        [Acl1 EXCEPT !.allow = {"p"}, !.roles = {"producer", "idempotent"},
                     !.resources = @ \cup {<<"transactional-id", "txn1">>}],
        [Acl1 EXCEPT !.allow = {"p"}, !.roles = {"producer", "consumer"}, !.resources = RoleTopicGroup],
        [Acl1 EXCEPT !.allow = {"p"}, !.roles = {"consumer"}],
        [Acl1 EXCEPT !.allow = {"p"}, !.roles = {"consumer"}, !.resources = RoleTopicGroup],
        [Acl1 EXCEPT !.deny = {"p"}, !.roles = {"producer"}],
        [Acl1 EXCEPT !.execute = FALSE, !.allow = {"p"}],
        [Acl1 EXCEPT !.operations = {"Grant"}, !.allow = {"p"}],
        [Acl1 EXCEPT !.operations = {"ClusterAction"}, !.allow = {"p"}],
        [Acl1 EXCEPT !.pattern = "any", !.allow = {"p"}],
        [Acl1 EXCEPT !.resources = {}], [Acl1 EXCEPT !.resources = {}, !.allow = {"p"}],
        [Acl1 EXCEPT !.resources = {<<"token", "token1">>}, !.allow = {"p"}],
        [Acl1 EXCEPT !.resources = {<<"topic", "">>}, !.allow = {"p"}],
        [Acl1 EXCEPT !.allow = {""}], [Acl1 EXCEPT !.principals = {""}],
        [Acl1 EXCEPT !.resources = {<<"cluster", "kafka-cluster">>}, !.allow = {"p"}],
        Acl1}
AsRemoval(c) == [c EXCEPT !.action = "remove"]
AclLists ==
  {[Acl1 EXCEPT !.action = "list", !.resources = r, !.principals = p, !.pattern = t] :
     r \in {{}, {<<"topic", "topic1">>}}, p \in {{}, {"p"}}, t \in {"literal", "match"}}
Add1 == [Acl1 EXCEPT !.allow = {"p"}, !.operations = {"Read", "Write"}]
AclScripts ==
  {<<c, AsRemoval(c)>> : c \in AclChanges}
  \cup {<<c, c>> : c \in {c \in AclChanges : c.pattern = "literal" /\ c.execute /\ c.resources = Acl1.resources}}
  \cup {<<AsRemoval(c), AsRemoval(c)>> : c \in {Acl1, Add1}}
  \cup {<<Add1, l>> : l \in AclLists}
  \cup {<<Add1, AsRemoval(c)>> : c \in {Acl1, [Acl1 EXCEPT !.resources = {}, !.pattern = "any"],
                                        [Acl1 EXCEPT !.principals = {"p"}]}}

-----------------------------------------------------------------------------
(* configs and client-metrics *)

Config1 ==
  [tool |-> "configs", action |-> "alter", kinds |-> <<>>, names |-> <<>>, default |-> FALSE,
   flags |-> <<>>, add |-> {}, delete |-> {}, badValue |-> FALSE, execute |-> TRUE, all |-> FALSE]
Named1(kinds, names) == [Config1 EXCEPT !.kinds = kinds, !.names = names]
ConfigChanges ==
  {[Named1(<<"user">>, <<"u">>) EXCEPT !.add = {"consumer_byte_rate"}],
   [Named1(<<"user">>, <<"v">>) EXCEPT !.add = {"SCRAM-SHA-512"}],
   [Named1(<<"user">>, <<"u">>) EXCEPT !.add = {"SCRAM-SHA-256"}, !.delete = {"SCRAM-SHA-256"}],
   [Named1(<<"user">>, <<"u">>) EXCEPT !.add = {"SCRAM-SHA-1"}],
   [Named1(<<"user">>, <<"u">>) EXCEPT !.add = {"SCRAM-SHA-256", "producer_byte_rate"}],
   [Named1(<<"user", "client">>, <<"u", "c">>) EXCEPT !.add = {"request_percentage"}],
   [Named1(<<"user", "client">>, <<"u">>) EXCEPT !.add = {"request_percentage"}],
   [Named1(<<"user", "ip">>, <<"u", "i">>) EXCEPT !.add = {"request_percentage"}],
   [Named1(<<"user", "user">>, <<"u", "u">>) EXCEPT !.add = {"request_percentage"}],
   [Named1(<<"ip">>, <<"10.0.0.1">>) EXCEPT !.add = {"connection_creation_rate"}],
   [Named1(<<"ip">>, <<"nowhere">>) EXCEPT !.add = {"connection_creation_rate"}],
   [Named1(<<"ip">>, <<"10.0.0.1">>) EXCEPT !.add = {"producer_byte_rate"}],
   [Named1(<<"client">>, <<"c">>) EXCEPT !.add = {"connection_creation_rate"}],
   [Named1(<<"client">>, <<"c">>) EXCEPT !.add = {"producer_byte_rate"}, !.badValue = TRUE],
   [Named1(<<"client">>, <<"c">>) EXCEPT !.add = {"producer_byte_rate"}, !.execute = FALSE],
   [Named1(<<"client">>, <<>>) EXCEPT !.add = {"producer_byte_rate"}, !.default = TRUE],
   [Config1 EXCEPT !.flags = << <<"user", "u">>, <<"client", "c">> >>, !.add = {"producer_byte_rate"}],
   [Config1 EXCEPT !.flags = << <<"client", "">> >>, !.add = {"producer_byte_rate"}],
   [Config1 EXCEPT !.flags = << <<"user", "u">> >>, !.kinds = <<"user">>, !.add = {"producer_byte_rate"}],
   [Config1 EXCEPT !.add = {"producer_byte_rate"}],
   [Named1(<<"broker">>, <<"1">>) EXCEPT !.add = {"num.io.threads"}],
   [Named1(<<"broker">>, <<"1">>) EXCEPT !.add = {"num.io.threads"}, !.execute = FALSE],
   [Named1(<<"broker">>, <<"7">>) EXCEPT !.add = {"num.io.threads"}],
   [Named1(<<"broker">>, <<"x">>) EXCEPT !.add = {"num.io.threads"}],
   [Named1(<<"broker">>, <<>>) EXCEPT !.add = {"num.io.threads"}, !.default = TRUE],
   [Named1(<<"broker">>, <<>>) EXCEPT !.add = {"num.io.threads"}],
   [Named1(<<"brokerLogger">>, <<"1">>) EXCEPT !.add = {"kafka.log"}],
   [Named1(<<"brokerLogger">>, <<"7">>) EXCEPT !.add = {"kafka.log"}],
   [Named1(<<"topic">>, <<"t1">>) EXCEPT !.add = {"cleanup.policy"}],
   [Named1(<<"topic">>, <<"t1">>) EXCEPT !.add = {"bad key"}],
   [Named1(<<"topic">>, <<"t1">>) EXCEPT !.add = {}],
   [Named1(<<"topic">>, <<>>) EXCEPT !.add = {"cleanup.policy"}, !.default = TRUE],
   [Named1(<<"group">>, <<"g">>) EXCEPT !.add = {"consumer.heartbeat.interval.ms"}],
   [Named1(<<"clientMetrics">>, <<"m">>) EXCEPT !.add = {"match"}]}
ConfigReads ==
  {[Config1 EXCEPT !.action = "describe", !.kinds = e[1], !.names = e[2], !.all = a] :
     a \in BOOLEAN,
     e \in {<< <<"user">>, <<"u">> >>, << <<"user">>, <<"w">> >>, << <<"user">>, <<>> >>,
            << <<"user", "client">>, <<"u", "c">> >>, << <<"client">>, <<"c">> >>,
            << <<"broker">>, <<"1">> >>, << <<"broker">>, <<"7">> >>, << <<"broker">>, <<>> >>,
            << <<"brokerLogger">>, <<"1">> >>, << <<"brokerLogger">>, <<>> >>, << <<"brokerLogger">>, <<"7">> >>,
            << <<"group">>, <<"g">> >>, << <<"topic">>, <<"t1">> >>, << <<"clientMetrics">>, <<>> >>}}
  \cup {[Config1 EXCEPT !.action = "describe", !.kinds = <<k>>, !.default = TRUE] : k \in {"client", "user", "broker"}}
  \cup {[Config1 EXCEPT !.action = "describe"]}
Undo(c) == [c EXCEPT !.add = {}, !.delete = c.add]
Metrics1 ==
  [tool |-> "client-metrics", action |-> "alter", name |-> "m", add |-> {"interval.ms", "match"},
   delete |-> {}, badValue |-> FALSE, execute |-> TRUE]
MetricsChanges ==
  {Metrics1, [Metrics1 EXCEPT !.add = {"match"}, !.delete = {"metrics"}], [Metrics1 EXCEPT !.execute = FALSE],
   [Metrics1 EXCEPT !.badValue = TRUE], [Metrics1 EXCEPT !.name = ""]}
MetricsAs(action) == [Metrics1 EXCEPT !.action = action]
ConfigScripts ==
  {<<c, Undo(c)>> : c \in ConfigChanges} \cup {<<c, c>> : c \in ConfigChanges \cup MetricsChanges}
  \cup {<<c>> : c \in ConfigReads \cup {MetricsAs("list"), [MetricsAs("describe") EXCEPT !.name = ""]}}
  \cup {<<c, [MetricsAs(a) EXCEPT !.execute = e]>> :
          c \in MetricsChanges, a \in {"delete", "describe"}, e \in BOOLEAN}
  \cup {<<MetricsAs("delete"), MetricsAs("delete")>>}
  \cup {<<Undo(c), Undo(c)>> : c \in {[Named1(<<"user">>, <<"u">>) EXCEPT !.add = {k}] :
                                       k \in {"producer_byte_rate", "SCRAM-SHA-256"}}}

-----------------------------------------------------------------------------
(* features *)

Feature1 ==
  [tool |-> "features", action |-> "upgrade", release |-> {}, metadata |-> {}, features |-> <<>>,
   dryRun |-> FALSE, nodes |-> {}]
To(action, release) == [Feature1 EXCEPT !.action = action, !.release = {release}]
Set(action, features) == [Feature1 EXCEPT !.action = action, !.features = features]
FeatureScripts ==
  {<<To("upgrade", r), To("downgrade", s)>> :
     r \in {<<"release", "4.2">>, <<"release", "4.3">>, <<"version", 32>>, <<"release", "4.4">>, <<"version", 99>>},
     s \in {<<"release", "4.0">>, <<"release", "3.9">>, <<"version", 22>>}}
  \cup {<<c, c>> : c \in {To("upgrade", <<"release", "4.1">>), To("downgrade", <<"release", "3.7">>),
                           Set("disable", << <<"group.version", 0>> >>),
                           Set("upgrade", << <<"share.version", 1>>, <<"streams.version", 1>> >>)}}
  \cup {<<c>> : c \in
    {Set("upgrade", <<>>), Set("upgrade", << <<"", 1>> >>), Set("upgrade", << <<"share.version", 9>> >>),
     Set("upgrade", << <<"x.version", 1>>, <<"share.version", 1>> >>),
     Set("upgrade", << <<"share.version", 1>>, <<"share.version", 2>> >>),
     Set("disable", << <<"group.version", 0>>, <<"group.version", 0>> >>),
     [Set("upgrade", << <<"share.version", 1>> >>) EXCEPT !.metadata = {<<"release", "4.2">>}],
     [To("upgrade", <<"release", "4.1">>) EXCEPT !.metadata = {<<"release", "4.2">>}],
     [To("upgrade", <<"release", "4.1">>) EXCEPT !.dryRun = TRUE],
     [Set("downgrade", << <<"share.version", 1>> >>) EXCEPT !.dryRun = TRUE],
     [Feature1 EXCEPT !.action = "describe"],
     [Feature1 EXCEPT !.action = "describe", !.nodes = {1}], [Feature1 EXCEPT !.action = "describe", !.nodes = {7}],
     [Feature1 EXCEPT !.action = "version-mapping"], To("version-mapping", <<"release", "3.6">>),
     To("version-mapping", <<"release", "9.9">>),
     Set("feature-dependencies", << <<Metadata, 23>>, <<"eligible.leader.replicas.version", 1>> >>),
     Set("feature-dependencies", << <<"x.version", 1>> >>)}}

-----------------------------------------------------------------------------
(* metadata-quorum, delegation-tokens, cluster *)

Quorum1 ==
  [tool |-> "metadata-quorum", action |-> "describe", status |-> FALSE, replication |-> FALSE,
   humanReadable |-> FALSE, hasConfig |-> TRUE, complete |-> TRUE, node |-> 3, dryRun |-> FALSE]
Controller(action, n) == [Quorum1 EXCEPT !.action = action, !.node = n]
Token1 ==
  [tool |-> "delegation-tokens", action |-> "create", hasConfig |-> TRUE, period |-> -1, owners |-> {},
   hmac |-> 1, badHmac |-> FALSE]
TokenAs(action) == [Token1 EXCEPT !.action = action]
Cluster1 ==
  [tool |-> "cluster", action |-> "list-endpoints", fenced |-> FALSE, node |-> 1, execute |-> TRUE]
ClusterScripts ==
  {<<[Quorum1 EXCEPT !.status = s, !.replication = r, !.humanReadable = h]>> :
     s \in BOOLEAN, r \in BOOLEAN, h \in BOOLEAN}
  \cup {<<Controller("add-controller", n), Controller("remove-controller", n)>> : n \in {1, 3}}
  \cup {<<Controller("remove-controller", 1), [Quorum1 EXCEPT !.status = s, !.replication = ~ s]>> : s \in BOOLEAN}
  \cup {<<Controller("remove-controller", 3), Controller("remove-controller", -1)>>,
        <<[Controller("add-controller", 3) EXCEPT !.hasConfig = FALSE],
          [Controller("add-controller", 3) EXCEPT !.complete = FALSE]>>,
        <<[Controller("add-controller", 3) EXCEPT !.dryRun = TRUE],
          [Controller("remove-controller", 1) EXCEPT !.dryRun = TRUE]>>}
  \cup {<<c, [TokenAs(a) EXCEPT !.period = p]>> :
          c \in {Token1, [Token1 EXCEPT !.owners = {"o"}]}, a \in {"describe", "renew", "expire"}, p \in {-2, -1, 5}}
  \cup {<<[Token1 EXCEPT !.owners = {"o", "self"}], [Token1 EXCEPT !.hasConfig = FALSE]>>,
        <<[Token1 EXCEPT !.owners = {""}], [TokenAs("renew") EXCEPT !.badHmac = TRUE]>>,
        <<Token1, [TokenAs("describe") EXCEPT !.owners = {"o"}]>>}
  \cup {<<Cluster1>>, <<[Cluster1 EXCEPT !.fenced = TRUE]>>, <<[Cluster1 EXCEPT !.action = "api-versions"]>>,
        <<[Cluster1 EXCEPT !.action = "unregister"], [Cluster1 EXCEPT !.action = "unregister"]>>,
        <<[Cluster1 EXCEPT !.action = "unregister", !.execute = FALSE]>>}

-----------------------------------------------------------------------------
(* offsets, delete-records, leader-election, log-dirs *)

Offsets1 ==
  [tool |-> "offsets", action |-> "list", patterns |-> {}, topic |-> {}, numbers |-> {},
   excludeInternal |-> FALSE, time |-> "latest", timestamp |-> {}]
Span(topicNames, first, last) == [topics |-> topicNames, start |-> first, end |-> last]
OffsetReads ==
  {[Offsets1 EXCEPT !.time = t, !.excludeInternal = x] : t \in {"earliest", "latest", "tiered"}, x \in BOOLEAN}
  \cup {[Offsets1 EXCEPT !.timestamp = {t}] : t \in {-1, 0, 2, 9}}
  \cup {[Offsets1 EXCEPT !.patterns = {ps}] :
          ps \in {{}, {Span({"a"}, {1}, {})}, {Span({"a"}, {}, {1}), Span({"a"}, {0}, {2})},
                  {Span({"a"}, {1}, {1})}, {Span({"a"}, {-1}, {})}}}
  \cup {[Offsets1 EXCEPT !.topic = {{"a"}}, !.numbers = n] : n \in {{}, {{1}}, {{7}}}}
Records1 ==
  [tool |-> "delete-records", action |-> "delete", version |-> {}, execute |-> TRUE,
   records |-> <<[part |-> <<"a", 0>>, offset |-> 2], [part |-> <<"a", 1>>, offset |-> 9]>>]
RecordsDeletions ==
  {[Records1 EXCEPT !.version = v, !.execute = e] : v \in {{}, {2}}, e \in BOOLEAN}
  \cup {[Records1 EXCEPT !.records = r] :
          r \in {<<>>, <<Records1.records[1]>>, <<Records1.records[1], Records1.records[1]>>,
                 <<[part |-> <<"a", 0>>, offset |-> -1]>>}}
Election1 ==
  [tool |-> "leader-election", action |-> "elect", unclean |-> FALSE, all |-> FALSE, topic |-> {},
   number |-> {}, file |-> {}, execute |-> TRUE]
Elections ==
  {[Election1 EXCEPT !.unclean = u, !.all = TRUE, !.execute = e] : u \in BOOLEAN, e \in BOOLEAN}
  \cup {[Election1 EXCEPT !.topic = {"a"}, !.number = {n}] : n \in {0, 1, 7}}
  \cup {[Election1 EXCEPT !.file = {f}] :
          f \in {<<>>, << <<"a", 1>>, <<"__internal", 0>> >>, << <<"a", 1>>, <<"a", 1>> >>, << <<"", 1>> >>}}
  \cup {Election1, [Election1 EXCEPT !.topic = {"a"}]}
LogDirs1 == [tool |-> "log-dirs", action |-> "describe", topics |-> {}, brokers |-> {}]
PartScripts ==
  {<<c>> : c \in OffsetReads} \cup {<<c, c>> : c \in RecordsDeletions \cup Elections}
  \cup {<<[LogDirs1 EXCEPT !.topics = t, !.brokers = b]>> :
          t \in {{}, {{}}, {{"a"}}, {{"b"}}}, b \in {{}, {{}}, {{2}}}}

MCScripts ==
  TopicScripts \cup AclScripts \cup ConfigScripts \cup FeatureScripts \cup ClusterScripts \cup PartScripts
==============================================================================

----------------------------- MODULE MCDataPlane -----------------------------
EXTENDS DataPlane

Produce1 ==
  [tool |-> "produce", sync |-> FALSE, json |-> FALSE, parse |-> {"parse.key"},
   lines |-> <<{"key.separator"}, {"key.separator"}, {"key.separator"}>>,
   ignoreError |-> FALSE, equalSeparators |-> FALSE, maxMemory |-> {}, bufferMemory |-> {}]
HeaderLine == {"headers.delimiter", "headers.key.separator"}
ProduceCommands ==
  { [Produce1 EXCEPT !.sync = s, !.bufferMemory = b] : s \in BOOLEAN, b \in {{}, {0}, {1}} }
  \cup
  { [Produce1 EXCEPT !.maxMemory = {1}, !.bufferMemory = {2}],
    [Produce1 EXCEPT !.equalSeparators = TRUE],
    [Produce1 EXCEPT !.lines = <<>>],
    [Produce1 EXCEPT !.lines = <<{"key.separator"}, {}>>],
    [Produce1 EXCEPT !.lines = <<{}, {}>>, !.ignoreError = TRUE],
    [Produce1 EXCEPT !.lines = <<HeaderLine, HeaderLine \cup {"null.header.key"}>>,
                     !.parse = {"parse.headers"}, !.ignoreError = TRUE],
    [Produce1 EXCEPT !.json = TRUE, !.lines = <<{"json"}, {"json", "negative.partition"}>>] }

VerifiableProducerCommands ==
  [tool : {"verifiable-producer"}, max : {{}, {0}, {2}},
   throughput : {"unlimited", "zero", "paced"}, twoConfigs : {FALSE}]
  \cup
  [tool : {"verifiable-producer"}, max : {{2}}, throughput : {"paced"}, twoConfigs : {TRUE}]

Perf1 ==
  [tool |-> "producer-perf", records |-> 3, warmup |-> 1, keys |-> "none", keyRange |-> {},
   payloads |-> "random", transactional |-> FALSE, throughput |-> "unlimited",
   twoConfigs |-> FALSE]
ProducerPerfCommands ==
  { [Perf1 EXCEPT !.transactional = t, !.throughput = p] : t \in BOOLEAN, p \in {"unlimited", "zero"} }
  \cup
  { [Perf1 EXCEPT !.warmup = 3], [Perf1 EXCEPT !.records = 0, !.warmup = 0],
    [Perf1 EXCEPT !.keyRange = {0}, !.keys = "random"], [Perf1 EXCEPT !.keys = "random"],
    [Perf1 EXCEPT !.payloads = "empty"], [Perf1 EXCEPT !.twoConfigs = TRUE],
    [Perf1 EXCEPT !.keys = "random", !.keyRange = {2}, !.warmup = 0] }

LatencyCommands == [tool : {"e2e-latency"}, records : {3}]

Consume1 ==
  [tool |-> "consume", groups |-> {"g"}, partition |-> FALSE, fromBeginning |-> FALSE,
   reset |-> {}, topic |-> TRUE, include |-> FALSE, offset |-> "latest", autoCommit |-> {},
   max |-> {2}, timeout |-> TRUE, skipErrors |-> FALSE, deserializers |-> {"bytes"}]
ConsumeCommands ==
  { [Consume1 EXCEPT !.groups = g, !.autoCommit = a, !.max = m, !.timeout = t] :
      g \in {{}, {"g"}}, a \in {{}, {TRUE}, {FALSE}}, m \in {{}, {2}}, t \in BOOLEAN }
  \cup
  { [Consume1 EXCEPT !.skipErrors = TRUE],
    [Consume1 EXCEPT !.groups = {"g", "h"}],
    [Consume1 EXCEPT !.partition = TRUE],
    [Consume1 EXCEPT !.partition = TRUE, !.groups = {}, !.offset = "invalid"],
    [Consume1 EXCEPT !.partition = TRUE, !.groups = {}, !.topic = FALSE, !.include = TRUE],
    [Consume1 EXCEPT !.topic = FALSE],
    [Consume1 EXCEPT !.deserializers = {"bytes", "java"}],
    [Consume1 EXCEPT !.fromBeginning = TRUE, !.reset = {"latest"}],
    [Consume1 EXCEPT !.topic = FALSE, !.include = TRUE] }

VerifiableConsumerCommands ==
  [tool : {"verifiable-consumer"}, negativeClose : {FALSE}, twoConfigs : {FALSE},
   autoCommit : {{TRUE}, {FALSE}}, max : {{}, {2}}, timeout : {FALSE}]
  \cup
  [tool : {"verifiable-consumer"}, negativeClose : BOOLEAN, twoConfigs : {TRUE},
   autoCommit : {{FALSE}}, max : {{2}}, timeout : {FALSE}]

ConsumerPerfCommands ==
  [tool : {"consumer-perf"}, sizes : {{100}, {0, 100}}, twoConfigs : BOOLEAN,
   max : {{2}}, timeout : {TRUE}]

ShareConsumeCommands ==
  [tool : {"share-consume"}, groups : {{"g"}}, max : {{}, {1}}, timeout : BOOLEAN,
   kind : {"accept", "release", "reject"}, rejectOnError : BOOLEAN, systest : {FALSE},
   deserializers : {{"bytes", "utf8"}}]
  \cup
  [tool : {"share-consume"}, groups : {{}, {"g", "h"}}, max : {{2}}, timeout : {TRUE},
   kind : {"accept"}, rejectOnError : {FALSE}, systest : {TRUE},
   deserializers : {{"bytes"}, {"latin1"}}]

VerifiableShareCommands ==
  [tool : {"verifiable-share-consumer"}, max : {{}, {1}}, systest : {FALSE}, timeout : {FALSE},
   pattern : {<<>>, <<"accept", "renew">>, <<"renew", "release", "renew">>, <<"renew">>},
   mode : {"sync"}]
  \cup
  [tool : {"verifiable-share-consumer"}, max : {{1}}, systest : {FALSE}, timeout : {FALSE},
   pattern : {<<"reject">>, <<>>}, mode : {"auto"}]

SharePerfCommands ==
  [tool : {"share-consumer-perf"}, threads : {0, 1, 2}, target : {1, 2}, timeout : BOOLEAN,
   sizes : {{100}}, twoConfigs : {FALSE}]
  \cup
  [tool : {"share-consumer-perf"}, threads : {1}, target : {1}, timeout : {TRUE},
   sizes : {{0, 100}, {100}}, twoConfigs : {TRUE}]

MCCommands ==
  ProduceCommands \cup VerifiableProducerCommands \cup ProducerPerfCommands
  \cup LatencyCommands \cup ConsumeCommands \cup VerifiableConsumerCommands
  \cup ConsumerPerfCommands \cup ShareConsumeCommands \cup VerifiableShareCommands
  \cup SharePerfCommands
MCWorkers == 1..2
=============================================================================

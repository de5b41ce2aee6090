# TLA+ models of kafka-cli

kafka-cli is one binary with some thirty commands that do for a Kafka cluster what
Apache Kafka's shell tools do.  Each invocation is a short-lived process: it reads
arguments and files, sends a sequence of requests to brokers (through an async Rust client,
through librdkafka, or over its own connections), prints rows and exits with
a status.  It keeps no state of its own between two invocations; what it changes is
the cluster's state, or files.

Correctness is therefore about *sequences of remote calls*: what is read in one
call and used in a later one, what has already been changed when a later call fails,
what several invocations do to each other, and whether the rows and the exit status tell
the truth about it.  The models put each command beside a model of the part of
the cluster it talks to, which goes on moving between any two of its calls.

All paths below are relative to the repository.  Line numbers are those of the files
modelled; `PROJECT.json` maps every definition to its lines.

## 1. Inventory

| Component | Code | State it reads or changes | What is hard |
|---|---|---|---|
| partition reassignment | `src/commands.rs` 15002-16001 | controller's moves, throttle configs of topics and brokers, log-dir moves | five kinds of calls in a row; moves finish and other operators act between them; throttles have to be lifted afterwards by another command |
| transactions | `src/commands.rs` 10500-11075 | producer states at leaders, transactions at coordinators | two views read at different times; a marker written by hand cannot be undone |
| replica verification | `src/commands.rs` 2023-2688 | nothing changed; compares what replicas answer | answers taken at different times through elections and truncation |
| storage tool | `src/storage_tool.rs` | `meta.properties` and controller files in log directories | crash or error between two file-system calls, repeated runs |
| produce (console producer) | 1157-1339, 3251-3623 | deliveries in flight | asynchronous results, first error |
| consume (console consumer) | 3623-3692 | position in partitions, offsets of a group | offsets committed before the record is written; limits, timeouts |
| share-consume | 3693-3800, 4663-4716 | acknowledgements of a share group | acknowledge and commit are separate calls; leases run out |
| verifiable producer, consumer, share consumer | 1521-2022, 4453-4661 | counters, pending deliveries | a signal at any moment; order of the events printed |
| performance tools, end-to-end latency | 1340-1520, 2689-3250, 3800-4312 | shared counters of workers, statistics updated by callbacks | workers that stop at a shared target; callbacks |
| consumer, share and streams groups | 5309-9318 | groups, committed offsets, internal topics | batches that fail half way |
| offset reset | 9320-9850 | committed offsets | a group that becomes active between its check and the alter |
| streams application reset | 8101-8468 | members, offsets, internal topics | three kinds of calls in a row |
| topics | 607-1156 | topics | describe reads in two to four calls; batches with `--if-exists`, `--if-not-exists` |
| features | 9853-10500 | finalized levels | a table of releases and levels; upgrade and downgrade leave out different features |
| metadata quorum | 11076-11800 | voters | identify, then alter |
| delegation tokens, client metrics | 11801-12371 | tokens, subscriptions | a deletion that reads the keys first |
| configs | 12373-13690 | configs, SCRAM credentials | four kinds of requests for eight kinds of entities; what is deleted is read first |
| offsets, delete-records | 13690-14010 | log start offsets | per-partition results |
| cluster, API versions, log-dirs, leader election | 14013-14279, 16003-16228 | leaders | per-partition results; dry runs |
| ACLs | 14280-14957, `src/ffi.rs` 1189-1640 | ACL bindings | add and remove build their bindings by different code |
| dump-log | `src/dump_log.rs` | nothing changed; reads segment and index files | index sanity checks over damaged files |
| librdkafka admin bridge | `src/ffi.rs` | native objects | freed exactly once |
| command line, configuration, output | `src/cli.rs`, `main.rs`, `lib.rs`, `config.rs`, `output.rs`, `error.rs` | none | none concurrent |

Components share no memory.  They meet in the cluster: `reassign` and `configs`
write the same topic and broker configs; `transactions` acts on what producers
opened; `groups`, offset reset and streams reset act on groups that consumers keep alive.
Inside one process there is concurrency only in the fetches of replica verification
(one task per broker, joined before the comparison), the deliveries and signals of the
data-plane clients, and the workers of the share performance tool.

What makes each component right:

- *reassignment*: success means everything in the plan was accepted; a throttled move is
  throttled from its first byte and stays so; throttles are lifted only
  when nothing is being moved, and are lifted in the end; COMPLETED is true;
- *transactions*: a row of find-hanging is a transaction nobody will end, every
  such transaction is found, abort hits what it was asked to hit;
- *replica verification*: no difference is reported between replicas that agree,
  and nothing is passed that differs;
- *storage*: a success leaves every directory formatted, an identity is never replaced,
  info accepts only directories of one cluster;
- *batches* (groups, topics, ACLs, configs, records): every row tells what happened to its
  item, also when a later item fails; a repetition finishes what was begun;
- *clients* (produce, consume, verifiable, performance): every record is counted once as what became
  of it, the closing event comes after everything it sums up, and no offset or acknowledgement
  covers a record the reader was not shown;
- *administration*: the exit status and the rows are what the cluster has done; what one
  command does its counterpart undoes; a command whose answer was lost can be repeated;
- *resets*: nothing is altered under an active group; what is reported is what was altered.

The hazards behind these, each at its line and with the properties that cover it, are
in `PROJECT.json`.

## 2. Modules

| Module | What it models |
|---|---|
| `Reassign` | reassign execute, cancel, verify, list: several sessions against one controller, its configs and its moves |
| `MCReassign` | plans and command lines for TLC |
| `ReassignProofs` | theorems about `Reassign` |
| `HangingTxn` | transactions find-hanging, abort, force-terminate, among producers, leaders and coordinators |
| `MCHangingTxn`, `HangingTxnProofs` | instances and theorems |
| `Replication` | external: logs, high watermarks, ISR and elections of one partition |
| `ReplicaVerification` | the replica-verification loop, EXTENDS `Replication` |
| `MCReplicaVerification`, `ReplicaVerificationProofs` | instances and theorems |
| `StorageFormat` | storage format and info over file-system calls that fail or crash |
| `MCStorageFormat`, `StorageFormatProofs` | instances and theorems |
| `GroupCoordinator` | external: members, committed offsets, logs and topics, and the cluster's other clients |
| `OffsetReset` | reset-offsets of groups, share-groups and streams-groups; streams-application-reset |
| `GroupDelete` | delete and delete-offsets of the three kinds of groups |
| `GroupCommands` | these commands one after another: EXTENDS both, `Init`, `Next`, the properties |
| `MCGroupCommands` | twenty command lines over two groups |
| `GroupDeleteProofs`, `OffsetResetProofs` | theorems about the deletions, and about the resets |
| `ClientTool` | what the data-plane commands share: arguments, lifecycle events, exit, SIGINT as tokio delivers it |
| `Producers` | produce, verifiable-producer, producer-perf-test, e2e-latency against librdkafka's queue and a topic |
| `Consumers` | consume, verifiable-consumer, consumer-perf-test against a partition and a group |
| `ShareConsumers` | share-consume, verifiable-share-consumer, share-consumer-perf-test against a share partition |
| `DataPlane`, `MCDataPlane` | the ten commands together: EXTENDS the three; 127 sets of arguments |
| `DataPlaneProofs` | theorems about `DataPlane` |
| `AdminContract` | abstract: what the exit status and the rows of any administrative command promise |
| `AdminTool` | what the administrative commands share: scripts, one request with its refusals and lost answers, reports |
| `TopicAdmin` | topics list, describe, create, alter, delete |
| `AclAdmin` | acls list, add, remove, their roles, bindings and filters |
| `ConfigAdmin` | configs describe and alter, client-metrics |
| `FeatureAdmin` | features, version-mapping, feature-dependencies, the table of metadata versions |
| `ClusterAdmin` | metadata-quorum, delegation-tokens, cluster, API versions |
| `PartitionAdmin` | offsets, delete-records, leader-election, log-dirs |
| `AdminCommands`, `MCAdminCommands` | the six together, shown to implement `AdminContract`; over 400 scripts |
| `AdminCommandsProofs` | theorems: they implement `AdminContract`, keep their types, describe what there is, can be repeated once done, and leave nothing of what they undo |

A definition whose comment begins with "Mutant" is a plausible mistake in the definition
below it.  It occurs in no specification; `PROJECT.json` lists which property
notices it when it is put in that definition's place.

### 2.1 Reassign

State.  `assigned` and `ongoing` are the controller's replica sets and targets in
progress; `leaderThr`, `followerThr`, `rate`, `dirRate` are the
throttle configs; `moving` the replicas with a future log directory.  A session has a
program counter (`pc`, named after the remote call it makes next), its command line
(`cmd`), what it has read and still has to write (`mem`), and what it reports (`out`).

| Action | Code |
|---|---|
| `Start`, `Preview` | `reassign`: dispatch, plan parsing, `--execute` missing |
| `ListRunning`, `Refused` | `list_partition_reassignments` and the additional guard |
| `CheckFactors` | `validate_replication_factors` |
| `PlanMoves`, `Sources`, `Destinations` | `reassignment_move_map` |
| `ThrottleTopic`, `ThrottleBroker`, `ThrottleDirs` | `apply_reassignment_throttles`, one alter call each |
| `Alter`, `AlterUnanswered`, `Cancel`, `CancelUnanswered` | `alter_partition_reassignments`, with its per-partition errors and a lost reply |
| `AlterLogDirs`, `FinishExecute` | `alter_replica_log_dirs`, broker by broker, then the status |
| `DescribeLogDirs`, `DescribeForVerify`, `DescribeForCancel`, `ReadCurrent` | the reads of verify and of cancel |
| `ClearTopic`, `ClearBroker`, `FinishClear` | `clear_reassignment_throttles` |
| `CallFails` | any of these calls ends in an error |
| `CompleteMove`, `CompleteDirMove` | the cluster |

Every action is atomic where the code makes one remote call; local computation between two
calls belongs to the call before it.  A replica list is a set; a throttle is set or
not (the rate itself is not kept).  `Serial` says that nobody starts a command while
another runs: with it the reports are true, without it `VerifyClearsOnlyWhenIdle` is not.

### 2.2 HangingTxn

State.  `txn[p][q]` is the transaction producer `q` has open on partition `p`; `owned`,
`ending`, `epoch`, `known` are the coordinators' side; `find` and `abort` are
the two commands with what they have read.  Producers begin, write, end and expire at any time;
`LateProduce` is the delayed request that makes a transaction hang.

| Action | Code |
|---|---|
| `StartFind`, `ReadPartition`, `ListTransactions`, `DescribeTransactions`, `FindFails` | find-hanging (10949-11050): clock, producer states by partition, list, describe, rows |
| `StartAbort`, `ReadForAbort` | abort with `--start-offset`: search of the producer states |
| `StartAbortOf` | abort with `--producer-id`, epoch and coordinator epoch |
| `WriteAbortMarker`, `AbortFails` | WriteTxnMarkers with its per-partition errors, a lost reply |
| `ForceTerminate` | `init_transactions` of forceTerminateTransaction |

`find.hung` and `abort.seen` are history variables: what hung when the command
started, and the log end when the state was read.  Coordinator epochs are left out: a marker they
refuse is one of the refusals of `WriteAbortMarker`.

### 2.3 Replication and ReplicaVerification

`Replication` is what a client can observe of one partition: followers truncate to
their leader and fetch, high watermarks lag, the ISR shrinks and grows,
elections are clean.  `ReplicaVerification` adds the command: `Start` (initial offset for
`--time`), `FetchAnswer`, `FetchNothing`, `RoundFails` (one fetch per replica from the same
offset, in any order), and `Compare` (one turn of `advance_matching_batches`).
`Compare(visited)` takes the replicas visited before the first that has no
batch ready: the code iterates a hash map, so any set of ready replicas may come first.

Partition steps are allowed only while the command waits for answers (`Observed`).  A
comparison reads the answers alone, so a partition step during it commutes with it and
may as well be taken after it.  One partition is modelled: partitions are compared independently of
each other.  Compaction and retention, which make replicas' batches differ legitimately, are not modelled.

### 2.4 StorageFormat

State.  `disk[d]` is a directory: whether it exists, its `meta.properties` (exists, cluster,
number of lines written), `__cluster_metadata-0`, the residual marker, and
`bootstrap.checkpoint`.  `pc`, `dir` and `ask` are the running format; `info` the verdict of the
last `storage info`.

| Action | Code (`src/storage_tool.rs`) |
|---|---|
| `Start`, `OpenDir` | 168-240: directories in sorted order, create, skip or refuse |
| `CreateMeta`, `WriteMeta` | 241-248, 475-488: `File::create`, then one write per line |
| `MakeLayout`, `CreateResidual`, `FillResidual` | 258-277, 307-376: controller files |
| `Stop` | an error or a crash before the next call |
| `Info`, `Readable`, `Consistent` | 104-162, 419-471: info's checks |

### 2.5 GroupCoordinator, OffsetReset, GroupDelete, GroupCommands

`GroupCoordinator` is the cluster: `active` groups have members, `committed` holds offsets,
`log` the first offset and the end of each partition, `topics` what exists.  Other clients
produce, commit, join and leave, and retention deletes records, at any time (`Others`).  `Doable` says what
a coordinator can do of a request: nothing if the group has members, any part of it otherwise.

`OffsetReset` is one machine for four commands, since they take the same steps: `job.cmd`
says which, and `Kind` where they differ.  `job` also holds what has been read (`seen`,
`inactive`, `internal`), the report (`rows`, `errors`) and, as history, what the cluster
accepted (`written`, `dropped`).

| Action | Code |
|---|---|
| `SelectGroups`, `ListStates`, `DescribeStreams`, `DescribeShare`, `DescribeApplication`, `Classified` | which groups, and are they inactive (9320-9331, 7247-7268, 7662-7676, 8230-8253) |
| `Evict` | `force_remove_consumer_group_members` |
| `NextGroup`, `ReadTopic`, `ReadShare`, `ReadApplication`, `ReadWatermarks` | what the new offsets depend on, and `reset_target` |
| `OpenFile`, `ReadLine`, `CloseFile` | `read_reset_plan`, which is read to its end before anything is stored |
| `SkipStore`, `EmptyStore`, `Store` | `alter_consumer_group_offsets`, `alter_share_group_offsets` |
| `StartCleanup`, `Clean`, `Finish` | internal topics, exit status |

`GroupDelete` does the same for deletions: `List`, `Describe`, `Refuse`, `ShowGroup`,
`DeleteGroup`, `DeleteTopics`, `Conclude` for groups; `ListCommitted`, `SelectPartitions`, `DeleteOffsets` for
the offsets of one group.  `Fail` and `Break` are a request that fails before it changes anything.

### 2.6 ClientTool, Producers, Consumers, ShareConsumers, DataPlane

One command runs, chosen in `Init` with its arguments.  `ClientTool` has what all ten have:
`cmd`, `pc`, `exit`, the lifecycle `events` of the verifiable tools, and `signal`.  A SIGINT kills
the process until a `ctrl_c()` future has been polled for the first time (`default`); from then on
it reaches only the futures that exist when it arrives (`pending`), and is lost otherwise
(`missed`).  That is tokio's behaviour, and it decides which loops can be stopped.

*Producers.*  `fate[i]` is what librdkafka has made of record `i` and `task[i]` what the
command has made of that: a delivery future not yet awaited, a task not yet joined, a callback not
yet served.

| Action | Code (`src/commands.rs`) |
|---|---|
| `ProduceStart`, `ProduceLine`, `ProduceAwaitOne`, `ProduceAwaitAll` | `produce`: checks, one line, `--sync`, the drain |
| `VerifiableStart`, `VerifiableTurn`, `VerifiableWait`, `WriteEvent`, `VerifiableDrain` | verifiable-producer: the loop, its tasks, the summary |
| `PerfStart`, `PerfSend`, `PerfSent`, `PerfCommit`, `PerfGoOn`, `PerfFlush`, `PerfReport` | producer-perf-test: callbacks are served when it polls |
| `LatencyStart`, `LatencySend`, `LatencyRead`, `LatencyEnd` | e2e-latency |
| `Deliver`, `ForeignRecord`, `PerfWake` | external: librdkafka, other writers, a spurious wake-up |

*Consumers.*  `position` is what librdkafka has handed over, `committed` the group's offset, `shown` what was
written to standard output.

| Action | Code |
|---|---|
| `ConsumerStart`, `ConsumerPoll`, `ConsumerPerfPoll` | arguments, subscription, the top of the loop |
| `ConsumerTake`, `ConsumerHears`, `ConsumerIdle`, `ConsumerError` | the branches of `select!` |
| `ConsumerShow`, `CommitRecord`, `ConsumerClose` | output, `commit_message`, the end of verifiable-consumer |
| `AppendRecord`, `Revoke`, `Assign`, `AutoCommit` | external: producers, the group, librdkafka |

*ShareConsumers.*  `share[r]` is the share partition's side of a record (state, leaseholder,
deliveries), `acks[w]` what worker `w` has acknowledged and not sent.

| Action | Code |
|---|---|
| `ShareConsumeStart`, `VerifiableShareStart`, `SharePerfStart` | arguments and the joining of the group |
| `SharePoll`, `ShareRecords`, `PerfRecords`, `ShareNothing`, `ShareIdle`, `SharePollFails`, `ShareHears` | one turn of a loop |
| `ShareRecord`, `ShareRecordFails`, `BatchOver` | the records of a poll: output, acknowledgement, the pattern's place |
| `ShareCommit`, `ShareClose`, `PerfCommits` | `commit_sync`, close |
| `Expire`, `OtherAccepts` | external: a lease runs out, another member takes a record |

Rates, percentiles and the layout of records are left out.  A line is the set of separators found in
it, since that is all its parsing depends on.

### 2.7 AdminTool, its commands, AdminContract, AdminCommands

An operator runs a script of one or two commands.  `AdminTool` has the script, the place in it (`turn`),
what the running command has read (`seen`), asked for (`asked`) and been granted (`applied`), its `rows`
and its `exit`; `past` keeps how the first command ended.  Each command is one to four actions, one
for each of its calls: the first holds its checks, the last its request and report.  `Request` is a
request for several things: the cluster does those it can, a fault refuses one more or loses the
answer, and the rows and the exit status are made from the answer in the code's three manners (rows
with `Partial`, rows without it, first error).  `Foreign` is a change by another client between two calls,
and `CallFails` a read that fails.

| Module | State | Actions |
|---|---|---|
| `TopicAdmin` | `topics`, `lastId` | `ListTopics`; `DescribeTopics`, `IdentifyTopics`, `ReadTopicConfigs`, `DescribePartitions`; `CreateTopic`; `SelectTopics`, `AlterTopics`, `DeleteTopics` |
| `AclAdmin` | `acls` | `ListAcls`; `AddAcls`, `CreateAcls`; `RemoveAcls` |
| `ConfigAdmin` | `configs` | `AlterConfig` and the request it leads to (`ReadQuota`, `AlterQuota`, `AlterScram`, `AlterResource`, `FindConfigBroker`, `AlterProtocol`); `DescribeQuota`, `DescribeScram`, `DescribeConfig`; `MetricsList`, `MetricsAlter`, `MetricsKeysRead`, `MetricsDelete` |
| `FeatureAdmin` | `levels` | `DescribeFeatures`, `UpdateFeatures`, `VersionMapping`, `FeatureDependencies` |
| `ClusterAdmin` | `quorum`, `servers`, `tokens` | `DescribeQuorum`, `AddController`, `RemoveController`, `AlterVoters`; `CreateToken`, `DescribeTokens`, `RenewToken`, `ExpireToken`; `ListEndpoints`, `ApiVersions`, `Unregister` |
| `PartitionAdmin` | `logStart`, `tiered`, `leader` | `OffsetsStart`, `ListOffsets`; `DeleteRecords`; `ElectLeaders`; `LogDirsStart`, `DescribeLogDirs` |

`AdminContract` says nothing of how a command works: it asks (`Ask`), any number of times, and
finishes (`Finish`) with a status and rows that are `Honest`.  `AdminCommands` instantiates it with
`phase <- IF exit = "none" THEN "working" ELSE "over"` and `lenient <- cmd.tool = "delete-records"`, and
`KeepsContract == Contract!Spec` is checked as a property: every step of every command is a step of
the contract or leaves it alone.

Regular expressions are the sets of names they match, hosts and identifiers are names, a dynamic
config is a key that is set.  The assumption `TableAgrees` of `FeatureAdmin` says that the table of
releases and the default levels agree with each other.

## 3. Runs

| Run | Instance | Properties | States |
|---|---|---|---|
| `reassign_serial` | 4 brokers (one not registered), 3 partitions of 2 topics, commands one at a time, 16 command lines, 2 execute or cancel commands, log directories, a partition that may not exist, 1 fault, fairness | `TypeOK`, `OkMeansStarted`, `VerifyClearsOnlyWhenIdle`, `CompletedIsSettled`, `VerifiedIsClean`, `MovesStayThrottled`, `ThrottlesLifted` | 176 000 |
| `reassign_verify_race` | 2 brokers, 1 partition, 2 sessions at once, no fault | `VerifyClearsOnlyWhenIdle` (violated) | |
| `hanging_find` | 1 producer, 2 partitions, 1 late request, 1 fault, coordinators with and without error rows | `RowsAreOrphans`, `HangingIsFound` | 260 000 |
| `hanging_abort` | 2 producers, 1 partition, epochs 0 and 1, 1 late request, 1 fault | `TypeOK`, `AbortedIsClosed`, `AbortIsAimed` | 1.9 million |
| `hanging_live` | 1 producer, fairness, coordinators with error rows | `HangingCleared` | 56 000 |
| `storage_format` | 3 directories, 2 clusters, 2 faults | `TypeOK`, `OkMeansFormatted`, `InfoOkMeansOneCluster`, `NeverOverwrites` | 380 000 |
| `storage_controller` | 1 directory, which holds the controller's log, 1 fault | `OkMeansControllerReady` (violated) | |
| `replica_elections` | 3 replicas, 2 offsets, 2 elections | `NoFalseAlarm`, `VerifiedIsTheSame` | 1.1 million |
| `replica_live` | 2 replicas, 2 offsets, 1 election, 1 rotten batch, 1 fault, starts inside the log, fairness | `TypeOK`, `CatchesUp` | 150 000 |
| `group_commands` | 2 groups, 2 partitions, offsets up to 2, an internal topic, 2 commands of 20, 2 steps of other clients, 1 fault | `TypeOK`, `ResetEndIsTrue`, `StoredWithinLog`, `CleanupAfterReset`, `DeletionIsReported`, `TopicsAfterGroup` | 1.9 million |
| `data_plane` | 10 commands with 127 sets of arguments, 3 records, 2 places in the queue, polls of 2, 2 deliveries, 2 workers, 1 foreign record, fairness | `TypeOK`, `OkMeansDone`, `SettledWasShown`, `SyncLeavesNoGap`, `CountsAreTrue`, `RenewalsEnd`, `LifecycleTold`, `EndsEventually` | 450 000 |
| `admin_commands` | over 400 scripts of one or two commands, 3 topic names, 6 resources for ACLs, 7 features, 3 controllers, 2 brokers, 3 partitions, 1 fault, 1 change by another client | `TypeOK`, `UndoneIsGone`, `RetrySucceeds`, `DescribeTellsTheTruth`, `KeepsContract` | 69 000 |

All passing runs are exhaustive.  What they show, beyond the table:

- `MovesStayThrottled` joins `ThrottledFromStart` (a throttled execute holds back its own
  moves from the first byte) and `OthersStayThrottled` (it leaves those of others
  throttled); `CountsAreTrue`, `OkMeansDone`, `SettledWasShown` and `DescribeTellsTheTruth` join the parts
  that each family of commands states for itself.
- `SettledWasShown` is the property of a consumer that is killed at any moment: whoever goes on from the
  group's offset, or is given a record whose lease ran out, misses nothing that the
  reader of standard output has not seen.  Its exceptions are librdkafka's, which counts the last record as
  consumed before the command has written it, and are part of the formula.
- `EndsEventually` says which commands end by themselves, which end on a signal, and that
  a signal can be lost: while an offset is committed, a consumer is closed, or the next
  record is being taken.
- `UndoneIsGone` compares two pieces of code that parse the same arguments: acls add and
  remove, configs `--add-config` and `--delete-config`, a release up and down, a controller in and out.
- `RetrySucceeds` lists what the code refuses to do twice, and says that all else may be repeated after a
  lost answer.

The bounds and why they are enough:

- *Reassign.*  Two partitions of one topic are needed because throttle lists belong to a
  topic and are replaced as a whole: the second partition is the one that could lose its
  throttle; the third belongs to another topic.  Two execute or cancel commands are needed for a second plan beside a move or a new
  target for it; `verify` and `list` are not bounded.  One fault anywhere leaves every possible half-way
  state behind, and the commands after it meet that state.
- *HangingTxn.*  Two partitions show a producer that owns one and hangs on the other; two
  producers on one partition show an abort that could hit the wrong one.  `MaxTime` 2
  over a threshold of 0 gives a record before, at and after the command's clock.
  One late request makes one hanging transaction, and an epoch to spare lets
  force-terminate fence.
- *ReplicaVerification.*  Three replicas and two elections are the least for a tail that was written in one
  epoch, lost in the next and replaced in the third; batches have one record or two, so batches
  end at different offsets.  One rotten batch is enough, since batches are compared one by one.
- *StorageFormat.*  Three directories put a directory before and after the one at fault;
  two faults allow a run that fails on what another left; runs are not bounded.
- *GroupCommands.*  Two groups show a command that has done one and fails at the other; two partitions a
  request that is half refused.  Two commands in a row let the second meet what the first left
  half done.  Two steps of other clients let a log grow and be cut, or a member join and leave,
  between a read and the request that relies on it.  Clamping needs a value beyond the end of a log (shift by 2)
  and one below its start.
- *DataPlane.*  Three records are the least for one acknowledged, one in flight and one not yet sent, and
  for a warmup of one; a queue of two is full before the third.  Polls of two make a batch that a limit of
  one cuts in the middle; two workers pass the shared counter together; two deliveries let a
  record come back once and be archived.  The patterns of up to three kinds have a renewal at their
  beginning and at their end.
- *AdminCommands.*  Two commands are a command and its repetition, its undoing, or its description; a third would
  meet a state that a pair already reaches.  One fault and one change by others may fall anywhere in the
  script, but not both more than once: the contract is about each request by itself.  Every
  list of an argument has a pair of members that are treated differently.

Deadlock is checked except where a state may be final: in the replica-verification runs
(the command has ended), in `group_commands` (the last command has ended and the other clients are at their bound),
and in `data_plane` and `admin_commands` (the command, or the script, has ended).

### Fairness

- `Reassign`: every session goes on (weak fairness of its steps: a command's remote
  calls have time limits, so each is answered or fails) and every move ends.  Strong fairness
  of starting verify is the operator's: `ThrottlesLifted` is about one who keeps running it.  It has to
  be strong because another command may be running whenever verify could be started.
- `HangingTxn`: the clock, the coordinators' markers, and the calls of a command in progress
  are weakly fair.  The operator starts find-hanging, and aborts reported
  rows, again and again (strong, since one command runs at a time);
  `Discipline` says that nothing else is aborted.  Nothing is assumed of producers.
- `ReplicaVerification`: the command's loop and the brokers' answers are weakly fair.
  Replication and the commit of what is replicated are strongly fair only because
  `Observed` disables them during comparisons; nothing is assumed of elections or of the ISR.
- `DataPlane`: the command's own steps are weakly fair; librdkafka decides every delivery
  (`message.timeout.ms`), and tasks that were spawned run.  Nothing is assumed of signals, of the broker's
  leases, of rebalances or of other writers.  An idle timer is weakly fair in the consumers, which
  wait for one record at a time, and strongly in the share consumers, whose timer runs on
  over polls that bring nothing and so leaves and enters the waiting state.

## 4. Disagreements between the code and what it says

Two runs check one property that a doc or a comment states, and TLC shows a behaviour of
the code that violates it:

| Run | Property | What happens |
|---|---|---|
| `reassign_verify_race` | `VerifyClearsOnlyWhenIdle` | verify listed no move; another operator's execute starts one; verify then deletes its throttles |
| `storage_controller` | `OkMeansControllerReady` | a run stops after `meta.properties`; the next one, with `--ignore-formatted`, skips the directory and succeeds without the controller's files |

In the others the property holds with an exception that the words around the code do not make.
The exception is part of the property's comment, and without it the run violates the property:

| Run | Property | Exception |
|---|---|---|
| `hanging_find` | `RowsAreOrphans` | a coordinator that answers a description with an error has no topics in it, so what it still owns is reported as hanging (11026; `cli.rs` 563) |
| `group_commands` | `DeletionIsReported` | `delete_group_offsets` reads the error of the group only (`ffi.rs` 2063), so a partition that is refused counts as deleted |
| `group_commands` | `CleanupAfterReset` | an input topic that does not exist is a FAILED row of an application reset (8323), which deletes the internal topics all the same |
| `admin_commands` | `DescribeTellsTheTruth` | a topic identifier is accepted in the URL-safe alphabet and compared in the standard one (661, 1060); the error of a log directory without replicas is not shown (16179) |
| `admin_commands` | `UndoneIsGone` | acls remove with `--principal` does not look at `--allow-host`, by which acls add bound the principal (14606, 14662) |
| `admin_commands` | `KeepsContract` | delete-records succeeds although a row of it failed (13982; `error.rs` 32) |

`PROJECT.json` quotes the words for each.  Other properties have exceptions that nothing in the repository
contradicts:

- `ThrottledFromStart`: a partition in flight keeps the sources that the list gave (15282).
- `InfoOkMeansOneCluster`: a `meta.properties` that was created and not written reads as version 0 and
  is accepted (`storage_tool.rs` 453), so directories without an identity pass together.
- `CatchesUp`: a broker that cannot be connected to ends the whole command (2601); only a
  failed request on an open connection leaves the others verified.
- `ResetEndIsTrue`: several groups are planned and stored in turn (9361-9464), so a usage error
  at a later one leaves the earlier ones changed and unreported.
- `SettledWasShown`: with auto-commit the last record handed over may be committed and not
  written; a command that acknowledges implicitly gives up the rest of a batch when its output breaks.
- `LifecycleTold`: verifiable-consumer tells `shutdown_requested` after `shutdown_complete` when nobody
  asked it to stop (1989).
- `ConfigsShown` (in `DescribeTellsTheTruth`): the configs of a group are shown only with `--all`.
- The `Partial` error of log-dir moves counts replicas as failed out of partitions (15079); no property
  is about the wording.

## 5. Proofs

The theorems hold for every value of the constants that satisfies the modules' named assumptions:
any finite sets of brokers and partitions, any plans that `read_reassignment` accepts, any sessions;
any partitions, producers and bounds; any number of directories and cluster ids; any groups, internal
topics and deletion commands, while the other clients do what they want; any clusters, scripts of
administrative commands, faults and changes by others; any set of arguments of the data-plane commands,
number of records and of workers; any set of replicas and any bounds on what becomes of them; any groups,
topics and logs, and any reset commands.

The assumptions say what the argument parsers and the shape of the bounds guarantee, and TLC evaluates
them on every run:

- `SetsAssumption`, `CommandsAssumption`, `ParametersAssumption`, `StorageAssumption`, `ReplicationAssumption`,
  `MaxRecordsAssumption`: bounds are natural numbers, sets of nodes finite, command lines ones that the
  parser accepts;
- `ResetsAssumption`: a reset of a share group or an application names one group, an application never
  asks for all topics (`cli.rs` 1584-1764), and no group is called like the placeholder for none;
  `ClusterAssumption`: a partition starts with an offset of -1 (none), 0 or 1 for each group;
  `RunsAssumption`: the bound on commands is a number;
- `ProducersAssumption`: no command is asked for more than `MaxRecords`, and a warmup is not negative;
  `ConsumersAssumption`: verifiable-consumer has no idle timeout (`cli.rs` 1139);
  `ShareAssumption`: workers are numbered from 1, as many as a performance test may ask for, patterns and
  kinds are those the parser accepts, limits are not negative;
- of `AdminCommands`, `ScriptsAssumption`: each command is one the argument definitions of `cli.rs` admit
  (`TopicCommand`, `AclCommand`, `ConfigCommand`, `FeatureCommand`, `QuorumCommand`, `TokenCommand`,
  `RecordsCommand`: what excludes what, and that values come from the model's sets); `ClusterAssumption`: the cluster begins with
  well-formed entries (`TopicRecords`, `ConfigEntry`: an entity has one name for each of its kinds, and only
  a named user has credentials), and a log directory holds replicas of partitions there are;
  `TableAgrees`: the table of releases has the levels that the features' defaults depend on.

| Theorem | Says | Argument |
|---|---|---|
| `ReassignProofs!TypeCorrect` | `[]TypeOK` | one step per action; lemmas on the updates of `mem` and `out` |
| `ReassignProofs!ReportSound` | `[]OkMeansStarted` | `ExecuteInv`: the report is put together over several calls, so the invariant says what is in it before, at and after the log-dir calls; `KindInv` says which command can be at which call |
| `ReassignProofs!VerifySafe`, `CompletedSound`, `VerifyCleans` | if `Serial`: `VerifyClearsOnlyWhenIdle`, `CompletedIsSettled`, `VerifiedIsClean` | `SerialInv` (one session runs) and `VerifyInv`: from its list to its end a verify over-estimates what moves, and what it has gone through has no throttle |
| `ReassignProofs!MovesThrottled` | if `Serial`: `MovesStayThrottled` | `ThrottleInv`: from its list on an execute knows every move there is (`KnowsMoves`); what it then plans covers its own moves and those beside it (`CoversMoves`), and each pair has its throttle or is still to get it |
| `HangingTxnProofs!TypeCorrect` | `[]TypeOK` | the world's steps and the commands' steps apart |
| `HangingTxnProofs!AbortCloses`, `AbortAims` | `AbortedIsClosed`, `AbortIsAimed` | `AbortInv`: a start offset is below the log end and belongs to one producer, so what the command read identifies its transaction until something younger opens |
| `HangingTxnProofs!HangingFound` | `HangingIsFound` | `FindInv`: what hung at the start and has not changed is still to be read or was found; a candidate not listed has no transaction and never will |
| `HangingTxnProofs!RowsSound` | `RowsAreOrphans` if no description is answered with an error | the same invariant: whoever owns a candidate was listed |
| `ReplicaVerificationProofs!TypeCorrect` | `[]TypeOK` | `IInv`, below |
| `ReplicaVerificationProofs!NoFalseAlarms`, `PassedIsTheSame` | `NoFalseAlarm`, `VerifiedIsTheSame` | `RepInv`: below its high watermark a replica has only what every in-sync replica has, at the same place (`Held`), which truncation and clean elections preserve; `AnsInv`: the batches of an answer below its high watermark are held ones, from one place of the log on, so the answers compared at one offset are copies of one batch; `Passed` and `Reported` remember that for the batches already compared.  The place at which a truncation or a comparison begins is a least element, so no induction over logs is needed |
| `StorageFormatProofs!TypeCorrect`, `FormatComplete`, `IdentityKept` | `TypeOK`, `OkMeansFormatted`, `NeverOverwrites` | `Inv`: what the directory the command is at looks like, and that a run that ignores nothing has completed those before it |
| `StorageFormatProofs!InfoSound` | `InfoOkMeansOneCluster` | `InfoInv`: a verdict is about the present contents; if some directory disagreed with the first, the least such would disagree with its neighbour |
| `OffsetResetProofs!ResetTypes` | `TypeOK` of `GroupCommands` | `ResetInv`, which is about one job: its type, what is known at each step (`Ordered`, `Chosen`), and the next three |
| `OffsetResetProofs!StoredIsWithinLog` | `StoredWithinLog` | `WithinInv`: what was read, planned or stored is below the end of a log, which only grows |
| `OffsetResetProofs!ResetEndings`, `CleanupLast` | `ResetEndIsTrue`, `CleanupAfterReset` | `StoredInv`: groups no longer to do are stored as they are reported; `CoverInv`: they have a row for each partition asked for, the group being planned has one or still has to read it; `DropInv`: nothing is deleted before that; `EndingInv`: what had not begun when a usage error is found |
| `GroupDeleteProofs!DeletionSound`, `TopicsLast` | `DeletionIsReported`, `TopicsAfterGroup` | `WorkInv`: each group of the command is handled, has a `FAILED` row, or is still to come; the topics asked for belong to groups that are gone; an idle group's topology is the one it was described with |
| `AdminCommandsProofs!ContractKept` | `KeepsContract`: `AdminCommands` implements `AdminContract` | every action of the five modules is one of a few moves of `AdminTool` (begin, tell a row, finish, leave the command alone), and each move is a step or a stutter of the contract; the invariant `Fresh` says that a command that has not begun has told and exited nothing |
| `AdminCommandsProofs!AdminTypes` | `TypeOK` of `AdminCommands` | `AdminInv`, which adds `Fresh` and `Prepared`: what a command checked before a call that it makes later still holds of the arguments and of what it read, so what it creates is well-formed |
| `AdminCommandsProofs!ReportsAreTrue` | `DescribeTellsTheTruth` | `ShownInv`: while nobody disturbs it, what a describe read in its first calls is what there is (`TopicsRead`, `ConfigsRead`, `LogDirsRead`); then, apart from steps, that the code's way of selecting entries is the property's: an entity is known by its kinds and the name for each (`NamedIs`), and only who is asked for credentials has some (`NoCredentials`) |
| `AdminCommandsProofs!RetriesSucceed` | `RetrySucceeds` | `RetryInv`: what a command found out before its call still holds of its arguments (`AllChosen`); if it was done, whatever it reported, it left the cluster and its arguments such that it succeeds again (`Repeatable`, a condition for each tool), and while nobody interferes nothing disturbs that until the second command ends |
| `AdminCommandsProofs!UndoneCompletely` | `UndoneIsGone` | `UndoneInv`, beside `RetryInv`: ACLs that were added were not refused (`Accepted`), and the configs that are there beside the initial ones are those the first command added (`AddedOnly`).  Then, apart from steps, that the two commands mean the same by the same arguments: the filters of the removal match every binding of the addition (`RemovalMatches`), the entity altered is the same (`SameChanged`), and an update names each feature once (`FeaturesOnce`) |
| `DataPlaneProofs!SettledHolds` | `SettledWasShown` | `ReadInv`: what was handed over was shown but for the last record, and the group's offset is not past it unless librdkafka commits; `AckInv`: each acknowledgement not yet sent is of a record that was told, is to be rejected, or is of the batch being told |
| `DataPlaneProofs!DataPlaneTypes` | `TypeOK` | `DataInv`, the conjunction of all that follows |
| `DataPlaneProofs!NoGapIsLeft`, `DoneIsDone`, `CountsHold` | `SyncLeavesNoGap`, `OkMeansDone`, `CountsAreTrue` | `ProducerInv`: the records before `next` were handed over and no others, and the tally is the count of the tasks that are closed (`Closed`, `Steady`); `SendInv`: a share consumer polls with nothing left to send, a worker accepts all it leased, and one that succeeded holds nothing; `LimitInv`: the counter leaves room for one poll of every worker that waits for one (`Room`), and for the records in hand |
| `DataPlaneProofs!RenewalsAreFew` | `RenewalsEnd` | `RenewInv`: the last `k` places before a record's place in the pattern, `k` its renewals in a row, all say renew (`Before`); some place does not, so `k` is less than their number |
| `DataPlaneProofs!TheStoryIsTrue` | `LifecycleTold` | `EventsInv`: which of eight sequences of events has been told at each step, and that a pending signal is one that was heard or is about to be |

Hardly one of these invariants is inductive as the property states it: it speaks of the end of a
command, or of what the broker has been sent, and the strengthening says what is known on the way.

Every invariant, action property and refinement that a passing run checks is thereby a theorem.
Model-checked only is liveness (`ThrottlesLifted`, `HangingCleared`, `CatchesUp`, `EndsEventually`):
temporal properties under fairness are outside what the provers do.

## 6. Not modelled

- *dump-log* (`src/dump_log.rs`): reads files, changes nothing and prints what it decodes.
- *Command line, configuration, output* (`cli.rs`, `main.rs`, `config.rs`, `output.rs`): argument definitions,
  properties files, printing and JSON, wherever no property depends on them.
- *The librdkafka bridge* (`src/ffi.rs`) below the outcome of a request: allocation and release of
  native objects.
- *reassign generate* (striped assignment) and the list and describe actions of groups and
  transactions, which print one answer and keep no state.
- Security settings and connections; rates, percentiles and generated values of the performance tools;
  rates of throttles; the preferred order of replicas; placement and configs of a new topic; several
  partitions in replica verification; compaction and retention.

## 7. Plan

What is left: `StripedAssignment` (reassign generate) and `LogIndex` (dump-log's index checks) as
recursive functions checked against a reference definition over bounded inputs.

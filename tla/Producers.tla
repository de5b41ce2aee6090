------------------------------ MODULE Producers ------------------------------
(***************************************************************************)
(* The commands that write records: the console producer, the verifiable   *)
(* producer, the producer performance test and the end-to-end latency      *)
(* test.  Record i is the i-th the command hands to librdkafka, which      *)
(* queues it, and decides its fate on a thread of its own.                 *)
(***************************************************************************)
EXTENDS ClientTool

CONSTANTS DefaultSlots,        \* places in librdkafka's queue by default
          MaxForeign           \* bound: records others write to the topic

\* MaxRecords bounds what a command is asked for.
ASSUME ProducersAssumption ==
  /\ DefaultSlots \in Nat \ {0} /\ MaxForeign \in Nat
  /\ \A c \in Commands :
       /\ c.tool = "produce" => Len(c.lines) \in 0..MaxRecords
       /\ c.tool = "verifiable-producer" => c.max \subseteq 0..MaxRecords
       /\ c.tool \in {"producer-perf", "e2e-latency"} => c.records \in 0..MaxRecords
       /\ c.tool = "producer-perf" => c.warmup \in Nat

VARIABLES next,                \* the record the command handles next
          fate,                \* librdkafka: what became of each record
          task,                \* what the command made of that
          tally,               \* its counters
          log                  \* the topic, from where e2e-latency reads

producerVars == <<next, fate, task, tally, log>>
producers == <<toolVars, producerVars>>

Fates == {"unsent", "queued", "acked", "failed"}
Tasks == {"none", "open", "written", "broken", "closed", "foreign"}
NoTally == [sent |-> 0, acked |-> 0, failed |-> 0, steady |-> 0, txn |-> 0]

Decided == {i \in Record : fate[i] \in {"acked", "failed"}}
Queued == {i \in Record : fate[i] = "queued"}
OpenTasks == {i \in Record : task[i] = "open"}
Count(records, f) == Cardinality({i \in records : fate[i] = f})

-----------------------------------------------------------------------------
(* Arguments *)

\* An explicit option wins over the property, and the property over the default.
MergeProducerOption(explicit, property, default) ==
  IF explicit # {} THEN The(explicit) ELSE IF property # {} THEN The(property) ELSE default
\* Places in the queue of the command's librdkafka instance.
Slots ==
  IF cmd.tool = "produce"
  THEN MergeProducerOption(cmd.maxMemory, cmd.bufferMemory, DefaultSlots)
  ELSE DefaultSlots
QueueFull == Cardinality(Queued) >= Slots

\* --producer.config and --command-config exclude each other.
TwoConfigs == cmd.tool \in {"verifiable-producer", "producer-perf"} /\ cmd.twoConfigs

\* What the console producer refuses before it reads a line: a queue without
\* room, and separators it could not tell apart.
ProducerConfigOk == 0 \notin cmd.bufferMemory
LineReaderOk == ~cmd.equalSeparators

\* A line is the set of the separators found in it.  A field without its
\* separator is refused, or taken to be absent with ignore.error.
Enabled(field) == field \in cmd.parse
LineFieldOk(field, separator, line) ==
  Enabled(field) => separator \in line \/ cmd.ignoreError
\* A header whose key is the null marker is refused even then.
LineHeadersOk(line) ==
  Enabled("parse.headers") /\ "headers.delimiter" \in line =>
    /\ "null.header.key" \notin line
    /\ "headers.key.separator" \in line \/ cmd.ignoreError
ProducerInputOk(line) ==
  IF cmd.json
  THEN "json" \in line /\ "negative.partition" \notin line
  ELSE /\ LineFieldOk("parse.headers", "headers.delimiter", line)
       /\ LineFieldOk("parse.key", "key.separator", line)
       /\ LineHeadersOk(line)

PerfArgsOk ==
  /\ cmd.records > 0
  /\ cmd.warmup < cmd.records
  /\ (cmd.keys = "none") = (cmd.keyRange = {})
  /\ 0 \notin cmd.keyRange
  /\ cmd.payloads # "empty"

\* How many records the command would write.
Target == CASE cmd.tool = "produce" -> Len(cmd.lines)
            [] cmd.tool = "verifiable-producer" ->
                 IF cmd.max = {} THEN MaxRecords ELSE The(cmd.max)
            [] OTHER -> cmd.records

-----------------------------------------------------------------------------
(* librdkafka and the broker. *)

Hand(i) == fate' = [fate EXCEPT ![i] = "queued"]
\* Librdkafka takes a record when it has a place for it.
Enqueue(i) == ~QueueFull /\ Hand(i)

\* A record that is acknowledged is in the topic, one that failed may be.
Deliver(i) ==
  /\ Running
  /\ fate[i] = "queued"
  /\ \E f \in {"acked", "failed"} :
       /\ fate' = [fate EXCEPT ![i] = f]
       /\ log' = IF cmd.tool = "e2e-latency" /\ f = "acked"
                 THEN Append(log, [by |-> "own", content |-> i]) ELSE log
  /\ UNCHANGED <<toolVars, next, task, tally>>

\* Somebody else writes to the topic of e2e-latency: another run of it writes
\* the same contents, for every run seeds its generator with 0.
ForeignRecord ==
  /\ cmd.tool = "e2e-latency" /\ pc \in {"send", "await", "read"}
  /\ Cardinality({n \in DOMAIN log : log[n].by = "other"}) < MaxForeign
  /\ \E content \in Record \cup {0} :
       log' = Append(log, [by |-> "other", content |-> content])
  /\ UNCHANGED <<toolVars, next, fate, task, tally>>

-----------------------------------------------------------------------------
(* produce *)

ProduceStart ==
  /\ cmd.tool = "produce" /\ pc = "start"
  /\ IF ProducerConfigOk /\ LineReaderOk THEN Goto("send") ELSE End("usage")
  /\ UNCHANGED <<cmd, signal, events, producerVars>>

\* The next line is parsed and handed over.  A full queue is retried until
\* max.block.ms has passed; any other refusal ends the command at once.
ProduceLine ==
  /\ cmd.tool = "produce" /\ pc = "send" /\ next <= Target
  /\ \/ /\ ~ProducerInputOk(cmd.lines[next])
        /\ End("usage")
        /\ UNCHANGED <<next, fate>>
     \/ /\ ProducerInputOk(cmd.lines[next])
        /\ Enqueue(next)
        /\ IF cmd.sync THEN Goto("await") /\ UNCHANGED next
           ELSE next' = next + 1 /\ Goto("send")
     \/ /\ ProducerInputOk(cmd.lines[next])
        /\ End("error")
        /\ UNCHANGED <<next, fate>>
  /\ UNCHANGED <<cmd, signal, events, task, tally, log>>

ProduceAwaitNone ==
  /\ cmd.tool = "produce" /\ cmd.sync /\ pc = "await"
  /\ next' = next + 1 /\ Goto("send")
  /\ UNCHANGED <<cmd, signal, events, fate, task, tally, log>>

\* --sync: the command waits for this record before it reads the next line.
ProduceAwaitOne ==
  /\ cmd.tool = "produce" /\ cmd.sync /\ pc = "await"
  /\ \/ fate[next] = "acked" /\ next' = next + 1 /\ Goto("send")
     \/ fate[next] = "failed" /\ End("error") /\ UNCHANGED next
  /\ UNCHANGED <<cmd, signal, events, fate, task, tally, log>>

\* The deliveries are awaited in the order of the lines, up to the first error.
Unawaited == {i \in Record : fate[i] # "unsent" /\ task[i] = "none"}
ProduceAwaitLast ==
  /\ cmd.tool = "produce" /\ pc = "send" /\ next > Target
  /\ IF cmd.sync \/ Target = 0 \/ fate[Target] = "acked" THEN End("ok")
     ELSE fate[Target] = "failed" /\ End("error")
  /\ UNCHANGED <<cmd, signal, events, producerVars>>

ProduceAwaitAll ==
  /\ cmd.tool = "produce" /\ pc = "send" /\ next > Target
  /\ IF cmd.sync \/ Unawaited = {}
     THEN End("ok") /\ UNCHANGED task
     ELSE LET first == CHOOSE i \in Unawaited : \A j \in Unawaited : i <= j
          IN \/ /\ fate[first] = "acked"
                /\ task' = [task EXCEPT ![first] = "closed"]
                /\ Goto("send")
             \/ fate[first] = "failed" /\ End("error") /\ UNCHANGED task
  /\ UNCHANGED <<cmd, signal, events, next, fate, tally, log>>
Produce == ProduceStart \/ ProduceLine \/ ProduceAwaitOne \/ ProduceAwaitAll

-----------------------------------------------------------------------------
(* verifiable-producer: a task per record sends it and writes its event. *)

VerifiableStart ==
  /\ cmd.tool = "verifiable-producer" /\ pc = "start"
  /\ IF TwoConfigs THEN End("usage") /\ UNCHANGED events
     ELSE \/ Goto("loop") /\ events' = Append(events, "startup_complete")
          \/ End("error") /\ UNCHANGED events
  /\ UNCHANGED <<cmd, signal, producerVars>>

\* The task of a record whose fate is known writes it, or cannot.
WriteEvent(i) ==
  /\ Running
  /\ cmd.tool = "verifiable-producer"
  /\ i \in OpenTasks \cap Decided
  /\ \E outcome \in {"written", "broken"} :
       task' = [task EXCEPT ![i] = outcome]
  /\ UNCHANGED <<toolVars, next, fate, tally, log>>

\* What joining the tasks that have finished comes to.
Finished == {i \in Record : task[i] \in {"written", "broken"}}
Join(joined) ==
  /\ task' = [i \in Record |-> IF i \in joined THEN "closed" ELSE task[i]]
  /\ tally' = [tally EXCEPT !.acked = @ + Count(joined, "acked")]
BrokenAmong(joined) == \E i \in joined : task[i] = "broken"

\* One turn of the loop: join what has finished, look for the signal, spawn
\* the next record.  A limit of -1 is bounded by MaxRecords.
VerifiableTurn ==
  /\ cmd.tool = "verifiable-producer" /\ pc = "loop"
  /\ IF next > Target
     THEN /\ cmd.max # {}
          /\ Goto("drain") /\ UNCHANGED <<next, fate, task, tally, signal>>
     ELSE IF BrokenAmong(Finished)
     THEN End("error") /\ UNCHANGED <<next, fate, task, tally, signal>>
     ELSE /\ Armed
          /\ IF signal = "pending"
             THEN Join(Finished) /\ Goto("drain") /\ UNCHANGED <<next, fate>>
             ELSE /\ task' = [i \in Record |->
                                IF i \in Finished THEN "closed"
                                ELSE IF i = next THEN "open" ELSE task[i]]
                  /\ tally' = [tally EXCEPT !.acked = @ + Count(Finished, "acked"),
                                            !.sent = @ + 1]
                  /\ Hand(next)
                  /\ next' = next + 1
                  /\ IF cmd.throughput = "zero" /\ next > 1 THEN Goto("wait")
                     ELSE IF cmd.throughput = "paced" THEN Goto("pace")
                     ELSE Goto("loop")
  /\ UNCHANGED <<cmd, events, log>>

VerifiableWaitDeaf ==
  /\ cmd.tool = "verifiable-producer"
  /\ \/ pc = "pace" /\ Goto("loop")
     \/ /\ pc = "loop" /\ cmd.max = {} /\ next > Target
        /\ signal = "pending" /\ Goto("drain")
  /\ UNCHANGED <<cmd, signal, events, producerVars>>

\* --throughput 0 waits for the signal; a pace waits for it or for its time.
VerifiableWait ==
  /\ cmd.tool = "verifiable-producer"
  /\ \/ pc \in {"wait", "pace"} /\ signal = "pending" /\ Goto("drain")
     \/ pc = "pace" /\ Goto("loop")
     \/ /\ pc = "loop" /\ cmd.max = {} /\ next > Target
        /\ signal = "pending" /\ Goto("drain")
  /\ UNCHANGED <<cmd, signal, events, producerVars>>

\* Every task is joined before the end is told; sent and acked are told last.
VerifiableDrain ==
  /\ cmd.tool = "verifiable-producer" /\ pc = "drain"
  /\ \/ /\ Finished # {}
        /\ IF BrokenAmong(Finished) THEN End("error") /\ UNCHANGED <<task, tally>>
           ELSE Join(Finished) /\ Goto("drain")
        /\ UNCHANGED events
     \/ /\ OpenTasks \cup Finished = {}
        /\ \/ End("ok") /\ events' = events \o <<"shutdown_complete", "tool_data">>
           \/ End("error") /\ events' \in {events, Append(events, "shutdown_complete")}
        /\ UNCHANGED <<task, tally>>
  /\ UNCHANGED <<cmd, signal, next, fate, log>>
VerifiableProducer == VerifiableStart \/ VerifiableTurn \/ VerifiableWait \/ VerifiableDrain

-----------------------------------------------------------------------------
(* producer-perf-test: delivery reports are served when the command polls. *)

PerfStart ==
  /\ cmd.tool = "producer-perf" /\ pc = "start"
  /\ IF TwoConfigs \/ ~PerfArgsOk THEN End("usage")
     ELSE Goto("loop") \/ End("error")
  /\ UNCHANGED <<cmd, signal, events, producerVars>>

\* The callbacks of some records whose fate is known run.  A record is steady
\* or not from the moment it was handed over.
Ready == OpenTasks \cap Decided
CountSteadyByClock(served) ==
  IF cmd.warmup > 0 /\ next > cmd.warmup THEN Count(served, "acked") ELSE 0
CountSteady(served) ==
  IF cmd.warmup > 0 THEN Count({i \in served : i > cmd.warmup}, "acked") ELSE 0
Serve(served, txn) ==
  /\ task' = [i \in Record |-> IF i \in served THEN "closed" ELSE task[i]]
  /\ tally' = [tally EXCEPT !.acked = @ + Count(served, "acked"),
                            !.failed = @ + Count(served, "failed"),
                            !.steady = @ + CountSteady(served),
                            !.txn = txn]

\* A record is handed over, inside a transaction that begins with the first
\* record after a commit.  A full queue is polled until there is room.
PerfSend ==
  /\ cmd.tool = "producer-perf" /\ pc = "loop" /\ next <= Target
  /\ \/ /\ Enqueue(next)
        /\ task' = [task EXCEPT ![next] = "open"]
        /\ tally' = [tally EXCEPT !.txn = @ + 1]
        /\ next' = next + 1
        /\ Goto("sent")
     \/ /\ QueueFull
        /\ \E served \in SUBSET Ready : Serve(served, tally.txn)
        /\ Goto("loop")
        /\ UNCHANGED <<next, fate>>
     \/ End("error") /\ UNCHANGED <<next, fate, task, tally>>
  /\ UNCHANGED <<cmd, signal, events, log>>

\* --throughput 0 parks the thread after the second record.
Throttle == IF cmd.throughput = "zero" /\ next > 2 THEN Goto("parked") ELSE Goto("loop")

\* Then it polls, and commits a transaction that has lasted long enough.
PerfSent ==
  /\ cmd.tool = "producer-perf" /\ pc = "sent"
  /\ \E served \in SUBSET Ready : Serve(served, tally.txn)
  /\ Throttle \/ (cmd.transactional /\ Goto("commit"))
  /\ UNCHANGED <<cmd, signal, events, next, fate, log>>

\* A commit flushes, and is refused when a record of the transaction failed.
\* Earlier transactions were committed, so no earlier record failed.
PerfCommit ==
  /\ cmd.tool = "producer-perf" /\ pc \in {"commit", "last"}
  /\ \/ /\ Queued = {}
        /\ ~\E i \in Record : fate[i] = "failed"
        /\ Serve(Ready, 0)
        /\ IF pc = "last" THEN Goto("flush") ELSE Throttle
     \/ End("error") /\ UNCHANGED <<task, tally>>
  /\ UNCHANGED <<cmd, signal, events, next, fate, log>>

\* What is left of a transaction is committed.
PerfGoOn ==
  /\ cmd.tool = "producer-perf" /\ pc = "loop" /\ next > Target
  /\ Goto(IF cmd.transactional /\ tally.txn > 0 THEN "last" ELSE "flush")
  /\ UNCHANGED <<cmd, signal, events, producerVars>>

\* park may return for no reason.
PerfWake ==
  /\ cmd.tool = "producer-perf" /\ pc = "parked"
  /\ Goto("loop")
  /\ UNCHANGED <<cmd, signal, events, producerVars>>

\* The totals are taken after the flush, or never when it times out.
PerfFlush ==
  /\ cmd.tool = "producer-perf" /\ pc = "flush"
  /\ \/ Queued = {} /\ Serve(Ready, 0) /\ Goto("report")
     \/ End("error") /\ UNCHANGED <<task, tally>>
  /\ UNCHANGED <<cmd, signal, events, next, fate, log>>
PerfReport ==
  /\ cmd.tool = "producer-perf" /\ pc = "report"
  /\ End(IF tally.failed > 0 THEN "error" ELSE "ok")
  /\ UNCHANGED <<cmd, signal, events, producerVars>>

ProducerPerf == PerfStart \/ PerfSend \/ PerfSent \/ PerfCommit \/ PerfGoOn
                \/ PerfFlush \/ PerfReport

-----------------------------------------------------------------------------
(* e2e-latency *)

\* The topic is created if it is missing, unless somebody else just did, and
\* the consumer is put at the end of every partition before anything is sent.
LatencyStart ==
  /\ cmd.tool = "e2e-latency" /\ pc = "start"
  /\ Goto("send") \/ End("error")
  /\ UNCHANGED <<cmd, signal, events, producerVars>>

LatencySend ==
  /\ cmd.tool = "e2e-latency"
  /\ \/ pc = "send" /\ next <= Target /\ Hand(next) /\ Goto("await")
     \/ /\ pc = "await" /\ fate[next] \in {"acked", "failed"}
        /\ IF fate[next] = "acked" THEN Goto("read") ELSE End("error")
        /\ UNCHANGED fate
  /\ UNCHANGED <<cmd, signal, events, next, task, tally, log>>

\* One record is read back, whoever wrote it, and compared with the one sent.
SameContent(record) == record.content = next
LatencyRead ==
  /\ cmd.tool = "e2e-latency" /\ pc = "read"
  /\ \/ /\ next \in DOMAIN log
        /\ IF SameContent(log[next])
           THEN /\ task' = [task EXCEPT ![next] =
                              IF log[next].by = "own" THEN "closed" ELSE "foreign"]
                /\ next' = next + 1
                /\ Goto("send")
           ELSE End("error") /\ UNCHANGED <<next, task>>
     \/ End("error") /\ UNCHANGED <<next, task>>
  /\ UNCHANGED <<cmd, signal, events, fate, tally, log>>

\* The last commit may fail for want of a coordinator.
LatencyEnd ==
  /\ cmd.tool = "e2e-latency" /\ pc = "send" /\ next > Target
  /\ End("ok") \/ End("error")
  /\ UNCHANGED <<cmd, signal, events, producerVars>>

Latency == LatencyStart \/ LatencySend \/ LatencyRead \/ LatencyEnd

-----------------------------------------------------------------------------
ProducersIdle ==
  /\ next = 1
  /\ fate = [i \in Record |-> "unsent"]
  /\ task = [i \in Record |-> "none"]
  /\ tally = NoTally
  /\ log = <<>>

ProducerTools == {"produce", "verifiable-producer", "producer-perf", "e2e-latency"}

\* Only verifiable-producer listens for SIGINT, and never stops.
ProducersEnvironment ==
  \/ \E i \in Record : Deliver(i)
  \/ ForeignRecord
  \/ PerfWake
  \/ cmd.tool \in ProducerTools /\ Interrupt(TRUE) /\ UNCHANGED producerVars

ProducersStep ==
  Produce \/ VerifiableProducer \/ ProducerPerf \/ Latency

ProducersNext ==
  ProducersEnvironment \/ ProducersStep \/ \E i \in Record : WriteEvent(i)

\* librdkafka decides the fate of every record (message.timeout.ms), tasks are
\* scheduled, and the command's thread runs.
ProducersFairness ==
  /\ WF_producers(ProducersStep)
  /\ \A i \in Record : WF_producers(Deliver(i)) /\ WF_producers(WriteEvent(i))

-----------------------------------------------------------------------------
ProducersTypeOK ==
  /\ next \in 1..MaxRecords + 1
  /\ fate \in [Record -> Fates]
  /\ task \in [Record -> Tasks]
  /\ \A counter \in DOMAIN NoTally : tally[counter] \in 0..MaxRecords

\* A command that writes records and succeeds has had every one of them
\* acknowledged: no delivery is forgotten among those that are in flight when
\* the last line is read, the queue is full or the transaction is committed.
\* (verifiable-producer reports failures instead: see EveryDeliveryCounted.)
OkMeansDelivered ==
  exit = "ok" /\ cmd.tool \in ProducerTools \ {"verifiable-producer"} =>
    \A i \in 1..Target : fate[i] = "acked"

\* produce --sync and e2e-latency hand a record over only when the one before
\* it is acknowledged: whenever they stop, for whatever reason, what is in the
\* topic is the beginning of the input and at most one record more.
SyncLeavesNoGap ==
  cmd.tool = "e2e-latency" \/ (cmd.tool = "produce" /\ cmd.sync) =>
    \A i, j \in Record : i < j /\ fate[j] # "unsent" => fate[i] = "acked"

\* The numbers a run ends with count each delivery once, however the signal,
\* the deliveries and the callbacks interleave: verifiable-producer says it is
\* complete when every record it sent has its event, and its tool_data agree
\* with them; the performance test's totals, and those of the records sent
\* after the warmup, are complete when they are printed.
EveryDeliveryCounted ==
  /\ cmd.tool = "verifiable-producer" /\ Said("shutdown_complete") =>
       LET sent == {i \in Record : fate[i] # "unsent"}
       IN /\ \A i \in sent : task[i] = "closed" /\ fate[i] \in {"acked", "failed"}
          /\ tally.sent = Cardinality(sent)
          /\ tally.acked = Count(sent, "acked")
  /\ cmd.tool = "producer-perf" /\ pc = "report" =>
       /\ tally.acked = Count(1..Target, "acked")
       /\ tally.failed = Count(1..Target, "failed")
       /\ tally.acked + tally.failed = Target
       /\ cmd.warmup > 0 => tally.steady = Count(cmd.warmup + 1 .. Target, "acked")
=============================================================================

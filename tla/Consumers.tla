------------------------------ MODULE Consumers ------------------------------
(***************************************************************************)
(* The commands that read a partition: the console consumer, the           *)
(* verifiable consumer and the consumer performance test.  Record i is the *)
(* i-th of the partition, position and committed are the last record       *)
(* handed to the command and the last one its group will not read again.   *)
(***************************************************************************)
EXTENDS ClientTool

\* The verifiable consumer has no idle timeout.
ASSUME ConsumersAssumption ==
  \A c \in Commands : c.tool = "verifiable-consumer" => ~c.timeout

VARIABLES end,              \* records in the partition
          assigned,         \* the group gave the partition to the command
          position,         \* the last record librdkafka handed over
          committed,        \* the group's offset
          shown,            \* the records written to standard output, or counted
          received          \* how many the command has counted

consumerVars == <<end, assigned, position, committed, shown, received>>
consumers == <<toolVars, consumerVars>>

ConsumerTools == {"consume", "verifiable-consumer", "consumer-perf"}
IsConsumer == cmd.tool \in ConsumerTools

-----------------------------------------------------------------------------
(* Arguments *)

\* Group names from --group, the properties file and --command-property must
\* agree, and exclude --partition, which needs a topic and a valid offset.
ConfiguredConsumerOk ==
  /\ Cardinality(cmd.groups) <= 1
  /\ ~(cmd.partition /\ cmd.groups # {})
  /\ ~(cmd.fromBeginning /\ cmd.reset = {"latest"})
OffsetOk == cmd.offset # "invalid"
\* The formatter is native, and so are its deserializers, which read UTF-8.
FormatterOk == cmd.deserializers \subseteq {"bytes", "utf8"}
ConsumeArgsOk ==
  /\ ConfiguredConsumerOk /\ FormatterOk
  /\ cmd.topic \/ (cmd.include /\ ~cmd.partition)
  /\ cmd.partition => OffsetOk
ConsumerPerfArgsOk == 0 \notin cmd.sizes /\ ~cmd.twoConfigs
VerifiableConsumerArgsOk == ~cmd.negativeClose /\ ~cmd.twoConfigs

\* Offsets are committed as records are handed over: by default in a group the
\* user named, not in the one console-consumer makes up.
AutoCommits ==
  CASE cmd.tool = "consume" ->
         IF cmd.groups = {} THEN cmd.autoCommit = {TRUE} ELSE cmd.autoCommit # {FALSE}
    [] cmd.tool = "verifiable-consumer" -> cmd.autoCommit = {TRUE}
    [] OTHER -> TRUE

ConsumerArgsOk ==
  CASE cmd.tool = "consume" -> ConsumeArgsOk
    [] cmd.tool = "verifiable-consumer" -> VerifiableConsumerArgsOk
    [] OTHER -> ConsumerPerfArgsOk

\* -1 and no limit are the same; any other negative limit reads nothing.
ShouldConsumeMore == UnderLimit(cmd.max, received)

-----------------------------------------------------------------------------
(* The broker and librdkafka *)

AppendRecord ==
  /\ IsConsumer /\ Running
  /\ end < MaxRecords
  /\ end' = end + 1
  /\ UNCHANGED <<toolVars, assigned, position, committed, shown, received>>

\* The partition is taken away and, later, given back at the group's offset:
\* what was read since the last commit is read again.  The new assignment is
\* taken by a poll.
Revoke ==
  /\ IsConsumer /\ Running /\ assigned
  /\ assigned' = FALSE
  /\ committed' \in IF AutoCommits THEN {committed, position} ELSE {committed}
  /\ UNCHANGED <<toolVars, end, position, shown, received>>
Assign ==
  /\ IsConsumer /\ Running /\ ~assigned /\ pc \in {"poll", "wait"}
  /\ assigned' = TRUE
  /\ position' = committed
  /\ UNCHANGED <<toolVars, end, committed, shown, received>>

\* librdkafka commits what it has handed over, now and then and when the
\* consumer is closed, which includes the command's end by an error.
AutoCommit ==
  /\ IsConsumer /\ assigned /\ AutoCommits /\ exit # "killed"
  /\ committed # position
  /\ committed' = position
  /\ UNCHANGED <<toolVars, end, assigned, position, shown, received>>

Available == assigned /\ position < end
TakeTwo == position' = position + 2
TakeRecord == position' = position + 1

-----------------------------------------------------------------------------
(* The commands *)

ConsumerStart ==
  /\ IsConsumer /\ pc = "start"
  /\ IF ~ConsumerArgsOk THEN End("usage") /\ UNCHANGED events
     ELSE \/ /\ Goto("poll")
             /\ events' = IF cmd.tool = "verifiable-consumer"
                          THEN Append(events, "startup_complete") ELSE events
          \/ End("error") /\ UNCHANGED events
  /\ UNCHANGED <<cmd, signal, consumerVars>>

\* The top of the loop.  A fresh ctrl_c() future races with the next record:
\* when one is there already the future may not be polled at all.
ConsumerPoll ==
  /\ cmd.tool \in {"consume", "verifiable-consumer"} /\ pc = "poll"
  /\ IF ~ShouldConsumeMore
     THEN /\ IF cmd.tool = "verifiable-consumer" THEN Goto("close") ELSE End("ok")
          /\ UNCHANGED <<signal, position>>
     ELSE \/ Armed /\ Goto("wait") /\ UNCHANGED position
          \/ Available /\ TakeRecord /\ Goto("got") /\ UNCHANGED signal
  /\ UNCHANGED <<cmd, events, end, assigned, committed, shown, received>>
\* The performance test does not listen for the signal.
ConsumerPerfPoll ==
  /\ cmd.tool = "consumer-perf" /\ pc = "poll"
  /\ IF ShouldConsumeMore THEN Goto("wait") ELSE End("ok")
  /\ UNCHANGED <<cmd, signal, events, consumerVars>>

\* A record wins the race, and a signal that came in the meantime is lost.
ConsumerTake ==
  /\ IsConsumer /\ pc = "wait" /\ Available
  /\ TakeRecord
  /\ Drop
  /\ Goto("got")
  /\ UNCHANGED <<cmd, events, end, assigned, committed, shown, received>>

\* The signal wins it.
ConsumerHears ==
  /\ cmd.tool \in {"consume", "verifiable-consumer"} /\ pc = "wait" /\ signal = "pending"
  /\ IF cmd.tool = "consume" THEN End("ok") /\ UNCHANGED events
     ELSE Goto("close") /\ events' = Append(events, "shutdown_requested")
  /\ UNCHANGED <<cmd, signal, consumerVars>>

\* Nothing came for as long as the command waits (a new wait for every record),
\* or an error did, which may be skipped, may end the loop or the command.
ConsumerIdle ==
  /\ IsConsumer /\ pc = "wait" /\ cmd.timeout
  /\ Drop
  /\ End("ok")
  /\ UNCHANGED <<cmd, events, consumerVars>>
ConsumerError ==
  /\ IsConsumer /\ pc = "wait"
  /\ Drop
  /\ CASE cmd.tool = "consume" -> IF cmd.skipErrors THEN Goto("poll") ELSE End("error")
       [] cmd.tool = "verifiable-consumer" -> Goto("close")
       [] OTHER -> End("error")
  /\ UNCHANGED <<cmd, events, consumerVars>>

\* The record is written and counted.  Only the verifiable consumer survives a
\* write that fails; without auto-commit it goes on to commit the record.
Counted == IF cmd.max = {} THEN received ELSE received + 1
ConsumerShow ==
  /\ IsConsumer /\ pc = "got"
  /\ \/ /\ shown' = shown \cup {position}
        /\ received' = Counted
        /\ Goto(IF cmd.tool = "verifiable-consumer" /\ ~AutoCommits THEN "commit" ELSE "poll")
     \/ /\ cmd.tool = "consume"
        /\ End("error")
        /\ UNCHANGED <<shown, received>>
  /\ UNCHANGED <<cmd, signal, events, end, assigned, position, committed>>

\* A commit that fails is told, and the loop goes on.  So does the wait for it:
\* a signal that arrives here is heard by nobody.
OneTooFar == IF position < end THEN position + 1 ELSE position
NextToCommit == position
CommitRecord ==
  /\ cmd.tool = "verifiable-consumer" /\ pc = "commit"
  /\ \/ assigned /\ committed' = NextToCommit
     \/ UNCHANGED committed
  /\ Goto("poll")
  /\ UNCHANGED <<cmd, signal, events, end, assigned, position, shown, received>>

ConsumerCloseAlways ==
  /\ cmd.tool = "verifiable-consumer" /\ pc = "close"
  /\ \/ /\ End("ok")
        /\ events' = events \o <<"shutdown_complete", "shutdown_requested">>
     \/ End("error") /\ UNCHANGED events
  /\ UNCHANGED <<cmd, signal, consumerVars>>

\* Unsubscribe, wait for the assignment to go or for --close-timeout, and tell.
\* Told that it was asked to stop when nobody asked, the reader learns it last.
ConsumerClose ==
  /\ cmd.tool = "verifiable-consumer" /\ pc = "close"
  /\ \/ /\ End("ok")
        /\ events' = events \o IF Said("shutdown_requested") THEN <<"shutdown_complete">>
                               ELSE <<"shutdown_complete", "shutdown_requested">>
     \/ End("error") /\ UNCHANGED events
  /\ UNCHANGED <<cmd, signal, consumerVars>>

-----------------------------------------------------------------------------
ConsumersIdle ==
  /\ end = 0 /\ assigned = FALSE /\ position = 0 /\ committed = 0
  /\ shown = {} /\ received = 0

\* consumer-perf has no handler: SIGINT kills it.
ConsumersEnvironment ==
  \/ AppendRecord \/ Revoke \/ Assign \/ AutoCommit
  \/ IsConsumer /\ Interrupt(pc = "wait") /\ UNCHANGED consumerVars

ConsumersStep ==
  \/ ConsumerStart \/ ConsumerPoll \/ ConsumerPerfPoll \/ ConsumerTake \/ ConsumerHears
  \/ ConsumerShow \/ CommitRecord \/ ConsumerClose

ConsumersNext == ConsumersEnvironment \/ ConsumersStep \/ ConsumerIdle \/ ConsumerError

\* The command's thread runs, and select! (which polls its branches in random
\* order) does not pass over the signal for ever; nor does an idle timer that
\* is shorter than the waits between records fail to fire.
ConsumersFairness ==
  /\ WF_consumers(ConsumersStep)
  /\ WF_consumers(ConsumerIdle)

ConsumersTypeOK ==
  /\ end \in 0..MaxRecords
  /\ assigned \in BOOLEAN
  /\ position \in 0..MaxRecords
  /\ committed \in 0..end
  /\ shown \subseteq 1..end
  /\ received \in Nat

\* The offset of the group never passes a record that was not written to
\* standard output, whatever is revoked, committed late or killed in between:
\* a consumer that goes on from it misses nothing the reader has not seen.
\* With auto-commit the last record handed over may be missing: librdkafka
\* counts it as consumed before the command has written it.
CommittedWasShown ==
  /\ IsConsumer =>
       \A i \in 1..committed : i \in shown \/ (AutoCommits /\ i = position)
=============================================================================

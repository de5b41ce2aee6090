--------------------------- MODULE DataPlaneProofs ---------------------------
(***************************************************************************)
(* Theorems about the data-plane commands, for every set of commands, any  *)
(* number of records and of workers, and whatever the broker, librdkafka,  *)
(* other clients and the operator do.                                      *)
(***************************************************************************)
EXTENDS DataPlane, FiniteSetTheorems, SequenceTheorems, TLAPS

\* The command does not change.
SameCommand == cmd' = cmd

LEMMA CommandKept == [Next]_dataPlaneVars => SameCommand
<1> USE DEF SameCommand
<1>1. ProducersNext => SameCommand
  <2>1. ProducersEnvironment => SameCommand
    BY DEF ProducersEnvironment, Deliver, ForeignRecord, PerfWake, Interrupt, toolVars
  <2>2. ProducersStep => SameCommand
    <3>1. Produce => SameCommand
      BY DEF Produce, ProduceStart, ProduceLine, ProduceAwaitOne, ProduceAwaitAll
    <3>2. VerifiableProducer => SameCommand
      BY DEF VerifiableProducer, VerifiableStart, VerifiableTurn, VerifiableWait, VerifiableDrain
    <3>3. ProducerPerf => SameCommand
      BY DEF ProducerPerf, PerfStart, PerfSend, PerfSent, PerfCommit, PerfGoOn, PerfFlush, PerfReport
    <3>4. Latency => SameCommand
      BY DEF Latency, LatencyStart, LatencySend, LatencyRead, LatencyEnd
    <3> QED
      BY <3>1, <3>2, <3>3, <3>4 DEF ProducersStep
  <2>3. ASSUME NEW i \in Record, WriteEvent(i) PROVE SameCommand
    BY <2>3 DEF WriteEvent, toolVars
  <2> QED
    BY <2>1, <2>2, <2>3 DEF ProducersNext
<1>2. ConsumersNext => SameCommand
  BY DEF ConsumersNext, ConsumersEnvironment, ConsumersStep, AppendRecord, Revoke, Assign, AutoCommit,
         Interrupt, ConsumerStart, ConsumerPoll, ConsumerPerfPoll, ConsumerTake, ConsumerHears,
         ConsumerShow, CommitRecord, ConsumerClose, ConsumerIdle, ConsumerError, toolVars
<1>3. SharesNext => SameCommand
  BY DEF SharesNext, SharesEnvironment, SharesStep, WorkerStep, Expire, OtherAccepts, Interrupt,
         ShareConsumeStart, VerifiableShareStart, SharePerfStart, ShareRecords, ShareRecord, BatchOver,
         ShareHears, ShareCommit, ShareClose, PerfCommits, ShareRecordFails, SharePoll, PerfRecords,
         ShareNothing, ShareIdle, SharePollFails, toolVars
<1>4. UNCHANGED dataPlaneVars => SameCommand
  BY DEF dataPlaneVars, toolVars
<1> QED
  BY <1>1, <1>2, <1>3, <1>4 DEF Next

-----------------------------------------------------------------------------
(* Consumers: what the group's offset covers has been shown *)

\* Everything handed over was shown, but for a record that the command holds or held
\* when it ended; the group's offset is not past what was handed over, and is the
\* command's own doing unless librdkafka commits.
ReadInv ==
  /\ end \in Nat /\ position \in Nat /\ committed \in 0..position
  /\ \A i \in 1..position : i \in shown \/ (i = position /\ pc \in {"got", "done"})
  /\ ~ AutoCommits => \A i \in 1..committed : i \in shown
ConsumerInv == IsConsumer => ReadInv

LEMMA AutoCommitsKept ==
  ASSUME SameCommand
  PROVE  AutoCommits' = AutoCommits /\ IsConsumer' = IsConsumer
  BY DEF SameCommand, AutoCommits, IsConsumer

\* Nobody else moves a consumer.
LEMMA OthersLeaveConsumers ==
  ASSUME IsConsumer, ProducersNext \/ SharesNext
  PROVE  pc' = pc
<1> USE DEF IsConsumer, ConsumerTools
<1>1. CASE ProducersNext
  <2>1. CASE ProducersEnvironment
    BY <2>1 DEF ProducersEnvironment, Deliver, ForeignRecord, PerfWake, Interrupt, toolVars, ProducerTools
  <2>2. CASE ProducersStep
    BY <2>2 DEF ProducersStep, Produce, ProduceStart, ProduceLine, ProduceAwaitOne, ProduceAwaitAll,
         VerifiableProducer, VerifiableStart, VerifiableTurn, VerifiableWait, VerifiableDrain,
         ProducerPerf, PerfStart, PerfSend, PerfSent, PerfCommit, PerfGoOn, PerfFlush, PerfReport,
         Latency, LatencyStart, LatencySend, LatencyRead, LatencyEnd
  <2>3. ASSUME NEW i \in Record, WriteEvent(i) PROVE pc' = pc
    BY <2>3 DEF WriteEvent, toolVars
  <2> QED
    BY <1>1, <2>1, <2>2, <2>3 DEF ProducersNext
<1>2. CASE SharesNext
  BY <1>2 DEF SharesNext, SharesEnvironment, SharesStep, WorkerStep, Expire, OtherAccepts, Interrupt,
         ShareConsumeStart, VerifiableShareStart, SharePerfStart, ShareRecords, ShareRecord, BatchOver,
         ShareHears, ShareCommit, ShareClose, PerfCommits, ShareRecordFails, SharePoll, PerfRecords,
         ShareNothing, ShareIdle, SharePollFails, toolVars, IsShare, ShareTools, Single, Perf
<1> QED
  BY <1>1, <1>2

LEMMA ConsumersKeep ==
  ASSUME ReadInv, IsConsumer, ConsumersNext, SameCommand
  PROVE  ReadInv'
<1> USE AutoCommitsKept DEF ReadInv
<1>1. CASE AppendRecord
  BY <1>1 DEF AppendRecord, toolVars
<1>2. CASE Revoke
  BY <1>2 DEF Revoke, toolVars, Running
<1>3. CASE Assign
  BY <1>3 DEF Assign, toolVars
<1>4. CASE AutoCommit
  BY <1>4 DEF AutoCommit, toolVars
<1>5. CASE Interrupt(pc = "wait") /\ UNCHANGED consumerVars
  BY <1>5 DEF Interrupt, End, consumerVars
<1>6. CASE ConsumerStart
  BY <1>6 DEF ConsumerStart, End, Goto, consumerVars
<1>7. CASE ConsumerPoll
  BY <1>7 DEF ConsumerPoll, End, Goto, Available, TakeRecord
<1>8. CASE ConsumerPerfPoll
  BY <1>8 DEF ConsumerPerfPoll, End, Goto, consumerVars
<1>9. CASE ConsumerTake
  BY <1>9 DEF ConsumerTake, Goto, Available, TakeRecord
<1>10. CASE ConsumerHears
  BY <1>10 DEF ConsumerHears, End, Goto, consumerVars
<1>11. CASE ConsumerShow
  BY <1>11 DEF ConsumerShow, End, Goto
<1>12. CASE CommitRecord
  BY <1>12 DEF CommitRecord, Goto, NextToCommit
<1>13. CASE ConsumerClose
  BY <1>13 DEF ConsumerClose, End, consumerVars
<1>14. CASE ConsumerIdle
  BY <1>14 DEF ConsumerIdle, End, consumerVars
<1>15. CASE ConsumerError
  BY <1>15 DEF ConsumerError, End, Goto, consumerVars
<1> QED
  BY <1>1, <1>2, <1>3, <1>4, <1>5, <1>6, <1>7, <1>8, <1>9, <1>10, <1>11, <1>12, <1>13, <1>14, <1>15
     DEF ConsumersNext, ConsumersEnvironment, ConsumersStep

LEMMA ConsumerInvKept ==
  ASSUME ConsumerInv, [Next]_dataPlaneVars
  PROVE  ConsumerInv'
<1>1. SameCommand
  BY CommandKept
<1>2. CASE ~ IsConsumer
  BY <1>1, <1>2, AutoCommitsKept DEF ConsumerInv
<1>3. CASE IsConsumer /\ ConsumersNext
  BY <1>1, <1>3, ConsumersKeep DEF ConsumerInv
<1>4. CASE IsConsumer /\ UNCHANGED consumerVars /\ pc' = pc
  BY <1>1, <1>4, AutoCommitsKept DEF ConsumerInv, ReadInv, consumerVars
<1> QED
  BY <1>2, <1>3, <1>4, OthersLeaveConsumers DEF Next, dataPlaneVars, toolVars

LEMMA ConsumerInvStarts == Init => ConsumerInv
  BY DEF Init, ConsumersIdle, ConsumerInv, ReadInv

LEMMA ConsumerInvImplies == ConsumerInv => CommittedWasShown
  BY DEF ConsumerInv, ReadInv, CommittedWasShown

-----------------------------------------------------------------------------
(* Share consumers: what they take from the group has been told *)

ShareStates == {"available", "leased", "renewed", "accepted", "rejected", "archived"}
Entry == [state : ShareStates, owner : Workers \cup {Nobody}, deliveries : Nat]

\* The shapes that updates rely on.
ShareTyped ==
  /\ share \in [Record -> Entry]
  /\ DOMAIN at = Workers
  /\ DOMAIN acks = Workers /\ \A w \in Workers : DOMAIN acks[w] = Record

RejectsUnwritten == cmd.tool = "share-consume" /\ cmd.rejectOnError

\* A record that is settled was told, could not be written and was to be rejected then,
\* or was lost to an implicit acknowledgement.
Justified(r, settled) ==
  \/ r \in told
  \/ settled = "rejected" /\ RejectsUnwritten
  \/ Implicit /\ failed

\* The same for an acknowledgement that has not been sent, which may be of a record that
\* is still to be told.
JustifiedAck(w, r) ==
  \/ r \in told
  \/ acks[w][r] = "reject" /\ RejectsUnwritten
  \/ Implicit /\ (failed \/ (r \in batch /\ w = 1))

AckInv ==
  /\ \A r \in Record : share[r].state \in {"accepted", "rejected"} /\ share[r].owner # Nobody
                         => Justified(r, share[r].state)
  /\ \A w \in Workers, r \in Record : acks[w][r] \in {"accept", "reject"} => JustifiedAck(w, r)
  /\ batch # {} => at[1] = "batch" /\ pc # "start"
  /\ Perf => batch = {}
ShareInv == IsShare => ShareTyped /\ AckInv

\* The command is one of those the assumptions are about.
Allowed == cmd \in Commands

LEMMA WorkerOne == 1 \in Workers
  BY ShareAssumption

LEMMA ShareToolKept ==
  ASSUME SameCommand
  PROVE  /\ IsShare' = IsShare /\ Perf' = Perf /\ Implicit' = Implicit
         /\ RejectsUnwritten' = RejectsUnwritten
  BY DEF SameCommand, IsShare, Perf, Implicit, RejectsUnwritten

\* What is sent when no record of the batch is left settles only what was told.
LEMMA SentJustified ==
  ASSUME ShareTyped, AckInv, batch = {}, NEW w \in Workers, NEW r \in Record
  PROVE  /\ Sent(w)[r] \in Entry
         /\ Sent(w)[r].state \in {"accepted", "rejected"} /\ Sent(w)[r].owner # Nobody
              => Justified(r, Sent(w)[r].state)
<1>1. share[r] \in Entry
  BY DEF ShareTyped
<1>2. CASE ~ (acks[w][r] # "none" /\ r \in LeaseOf(w))
  <2>1. Sent(w)[r] = share[r]
    BY <1>2 DEF Sent
  <2> QED
    BY <1>1, <2>1 DEF AckInv
<1>3. CASE acks[w][r] # "none" /\ r \in LeaseOf(w)
  <2>1. Sent(w)[r] = Acknowledged(share[r], acks[w][r])
    BY <1>3 DEF Sent
  <2>2. CASE acks[w][r] = "accept"
    <3>1. JustifiedAck(w, r)
      BY <2>2 DEF AckInv
    <3>2. Sent(w)[r] = [share[r] EXCEPT !.state = "accepted"]
      BY <2>1, <2>2 DEF Acknowledged
    <3> QED
      BY <1>1, <2>2, <3>1, <3>2 DEF Entry, ShareStates, Justified, JustifiedAck
  <2>3. CASE acks[w][r] = "reject"
    <3>1. JustifiedAck(w, r)
      BY <2>3 DEF AckInv
    <3>2. Sent(w)[r] = [share[r] EXCEPT !.state = "rejected"]
      BY <2>1, <2>3 DEF Acknowledged
    <3> QED
      BY <1>1, <2>3, <3>1, <3>2 DEF Entry, ShareStates, Justified, JustifiedAck
  <2>4. CASE acks[w][r] = "renew"
    <3>1. Sent(w)[r] = [share[r] EXCEPT !.state = "renewed"]
      BY <2>1, <2>4 DEF Acknowledged
    <3> QED
      BY <1>1, <3>1 DEF Entry, ShareStates
  <2>5. CASE acks[w][r] \notin {"accept", "reject", "renew"}
    <3>1. Sent(w)[r] = Returned(share[r])
      BY <2>1, <2>5 DEF Acknowledged
    <3> QED
      BY <1>1, <3>1 DEF Entry, ShareStates, Returned
  <2> QED
    BY <2>2, <2>3, <2>4, <2>5
<1> QED
  BY <1>2, <1>3

LEMMA SentIsFunction == \A w : Sent(w) = [r \in Record |-> Sent(w)[r]]
  BY DEF Sent

\* Leases that are given back settle nothing.
LEMMA GivenBackSettlesNothing ==
  ASSUME NEW entries, NEW w, NEW r \in Record, entries[r] \in Entry
  PROVE  /\ GivenBack(entries, w)[r] \in Entry
         /\ GivenBack(entries, w)[r].state \in {"accepted", "rejected"}
              => GivenBack(entries, w)[r] = entries[r]
  BY DEF GivenBack, Returned, Entry, ShareStates

\* Sending, with or without giving back, keeps what is known of the share partition.
LEMMA SentKeepsShare ==
  ASSUME ShareTyped, AckInv, SameCommand, batch = {}, NEW w \in Workers,
         told \subseteq told', failed => failed',
         \/ share' = share
         \/ share' = Sent(w)
         \/ share' = GivenBack(share, w)
         \/ share' = GivenBack(Sent(w), w)
  PROVE  /\ share' \in [Record -> Entry]
         /\ \A r \in Record : (share[r].state \in {"accepted", "rejected"} /\ share[r].owner # Nobody)'
                              => Justified(r, share[r].state)'
<1> DEFINE Sound(entries) ==
      /\ entries = [r \in Record |-> entries[r]]
      /\ \A r \in Record :
           /\ entries[r] \in Entry
           /\ entries[r].state \in {"accepted", "rejected"} /\ entries[r].owner # Nobody
                => Justified(r, entries[r].state)
<1>1. Sound(share)
  BY DEF ShareTyped, AckInv
<1>2. Sound(Sent(w))
  BY SentJustified, SentIsFunction
<1>3. ASSUME NEW entries, Sound(entries) PROVE Sound(GivenBack(entries, w))
  <2>1. GivenBack(entries, w) = [r \in Record |-> GivenBack(entries, w)[r]]
    BY DEF GivenBack
  <2>2. ASSUME NEW r \in Record
        PROVE  /\ GivenBack(entries, w)[r] \in Entry
               /\ GivenBack(entries, w)[r].state \in {"accepted", "rejected"}
                    /\ GivenBack(entries, w)[r].owner # Nobody
                      => Justified(r, GivenBack(entries, w)[r].state)
    BY <1>3, GivenBackSettlesNothing
  <2> QED
    BY <2>1, <2>2
<1>4. Sound(share')
  BY <1>1, <1>2, <1>3
<1>5. \A r, settled : Justified(r, settled) => Justified(r, settled)'
  BY ShareToolKept DEF Justified
<1> QED
  BY <1>4, <1>5

\* What the broker does by itself settles nothing for this command.
LEMMA BrokerKeepsShare ==
  ASSUME ShareTyped, AckInv, SameCommand, NEW r \in Record, NEW entry \in Entry,
         entry.owner = Nobody, share' = [share EXCEPT ![r] = entry],
         pc' = pc, at' = at, batch' = batch, acks' = acks, told' = told, failed' = failed
  PROVE  ShareTyped' /\ AckInv'
<1>1. ShareTyped'
  BY DEF ShareTyped
<1>2. \A x \in Record : share'[x] = IF x = r THEN entry ELSE share[x]
  BY DEF ShareTyped
<1>3. ASSUME NEW x \in Record, share'[x].state \in {"accepted", "rejected"}, share'[x].owner # Nobody
      PROVE  Justified(x, share[x].state)'
  <2>1. share'[x] = share[x]
    BY <1>2, <1>3
  <2>2. Justified(x, share[x].state)
    BY <1>3, <2>1 DEF AckInv
  <2> QED
    BY <2>1, <2>2, ShareToolKept DEF Justified
<1>4. ASSUME NEW w \in Workers, NEW x \in Record, acks[w][x] \in {"accept", "reject"}
      PROVE  JustifiedAck(w, x)'
  <2>1. JustifiedAck(w, x)
    BY <1>4 DEF AckInv
  <2> QED
    BY <2>1, ShareToolKept DEF JustifiedAck
<1>5. (batch # {} => at[1] = "batch" /\ pc # "start")' /\ (Perf => batch = {})'
  BY ShareToolKept DEF AckInv
<1> QED
  BY <1>1, <1>3, <1>4, <1>5 DEF AckInv

LEMMA SharesKeep ==
  ASSUME Allowed, ShareTyped, AckInv, IsShare, SharesNext, SameCommand
  PROVE  ShareTyped' /\ AckInv'
<1> USE ShareToolKept, WorkerOne
<1>1. CASE UNCHANGED shareVars /\ (pc' = pc \/ pc' = "done")
  BY <1>1 DEF shareVars, ShareTyped, AckInv, Justified, JustifiedAck
<1>2. ASSUME NEW r \in Record, Expire(r) PROVE ShareTyped' /\ AckInv'
  <2>1. Returned(share[r]) \in Entry /\ Returned(share[r]).owner = Nobody
    BY DEF Returned, Entry, ShareStates, ShareTyped
  <2>2. share' = [share EXCEPT ![r] = Returned(share[r])]
    BY <1>2 DEF Expire
  <2>3. /\ pc' = pc /\ at' = at /\ batch' = batch /\ acks' = acks /\ told' = told
        /\ failed' = failed
    BY <1>2 DEF Expire, toolVars
  <2> HIDE DEF Returned
  <2> QED
    BY <2>1, <2>2, <2>3, BrokerKeepsShare
<1>3. ASSUME NEW r \in Record, OtherAccepts(r) PROVE ShareTyped' /\ AckInv'
  <2> DEFINE entry == [[share[r] EXCEPT !.state = "accepted"] EXCEPT !.owner = Nobody]
  <2>1. entry \in Entry /\ entry.owner = Nobody
    BY DEF Entry, ShareStates, ShareTyped
  <2>2. share' = [share EXCEPT ![r] = entry]
    BY <1>3 DEF OtherAccepts, ShareTyped
  <2> QED
    BY <1>3, <2>1, <2>2, BrokerKeepsShare DEF OtherAccepts, toolVars
<1>4. CASE ShareConsumeStart \/ VerifiableShareStart \/ SharePerfStart
  BY <1>4 DEF ShareConsumeStart, VerifiableShareStart, SharePerfStart, UnchangedShares, Joins, Refuses,
       Goto, End, ShareTyped, AckInv, Justified, JustifiedAck
<1>5. ASSUME NEW w \in Workers, SharePoll(w) \/ ShareNothing(w) \/ ShareIdle(w) \/ SharePollFails(w)
      PROVE  ShareTyped' /\ AckInv'
  BY <1>5 DEF SharePoll, ShareNothing, ShareIdle, SharePollFails, MoveTo, End, ShareTyped, AckInv,
       Justified, JustifiedAck
<1>6. CASE ShareHears
  BY <1>6 DEF ShareHears, MoveTo, ShareTyped, AckInv, Justified, JustifiedAck
<1>7. CASE ShareRecord
  BY <1>7 DEF ShareRecord, KindOf, Implicit, Perf, RejectsUnwritten, toolVars, ShareTyped, AckInv,
       Justified, JustifiedAck
<1>8. CASE ShareRecordFails
  BY <1>8 DEF ShareRecordFails, MoveTo, toolVars, ShareTyped, AckInv, Justified, JustifiedAck
<1>9. CASE BatchOver
  BY <1>9 DEF BatchOver, MoveTo, toolVars, Implicit, Perf, ShareTyped, AckInv, Justified, JustifiedAck
<1>10. ASSUME NEW w \in Workers, NEW records, Lease(w, records), batch = {},
              told \subseteq told', failed' = failed
       PROVE  /\ share' \in [Record -> Entry]
              /\ \A r \in Record :
                   (share[r].state \in {"accepted", "rejected"} /\ share[r].owner # Nobody)'
                     => Justified(r, share[r].state)'
  <2>1. share' = [r \in Record |-> share'[r]]
    BY <1>10 DEF Lease
  <2>2. ASSUME NEW r \in Record
        PROVE  /\ share'[r] \in Entry
               /\ share'[r].state \in {"accepted", "rejected"} /\ share'[r].owner # Nobody
                    => Justified(r, share'[r].state)
    <3>1. CASE r \in records
      <4>1. share'[r] = [state |-> "leased", owner |-> w,
              deliveries |-> share[r].deliveries + IF share[r].state = "renewed" THEN 0 ELSE 1]
        BY <1>10, <3>1 DEF Lease
      <4>2. share[r].deliveries \in Nat
        BY DEF ShareTyped, Entry
      <4> QED
        BY <4>1, <4>2 DEF Entry, ShareStates
    <3>2. CASE r \notin records /\ Implicit
      <4>1. share'[r] = Sent(w)[r]
        BY <1>10, <3>2 DEF Lease
      <4> QED
        BY <1>10, <4>1, SentJustified
    <3>3. CASE r \notin records /\ ~ Implicit
      <4>1. share'[r] = share[r]
        BY <1>10, <3>3 DEF Lease
      <4> QED
        BY <4>1 DEF ShareTyped, AckInv
    <3> QED
      BY <3>1, <3>2, <3>3
  <2>3. \A r, settled : Justified(r, settled) => Justified(r, settled)'
    BY <1>10 DEF Justified
  <2> QED
    BY <2>1, <2>2, <2>3
<1>11. CASE ShareRecords
  <2>1. PICK records : Lease(1, records) /\ batch' = records
    BY <1>11 DEF ShareRecords
  <2>2. /\ batch = {} /\ Single /\ pc' = pc /\ pc = "run"
        /\ at' = [at EXCEPT ![1] = "batch"] /\ told' = told /\ failed' = failed
        /\ acks' = IF Implicit THEN [acks EXCEPT ![1] = AllAccepted(batch')] ELSE acks
    BY <1>11 DEF ShareRecords, MoveTo, AckInv
  <2>3. \A r \in Record : AllAccepted(batch')[r] = IF r \in batch' THEN "accept" ELSE "none"
    BY DEF AllAccepted
  <2>4. DOMAIN AllAccepted(batch') = Record
    BY DEF AllAccepted
  <2>5. ShareTyped'
    BY <1>10, <2>1, <2>2, <2>4 DEF ShareTyped
  <2>6. ASSUME NEW w \in Workers, NEW r \in Record, (acks[w][r] \in {"accept", "reject"})'
        PROVE  JustifiedAck(w, r)'
    BY <2>2, <2>3, <2>6 DEF AckInv, JustifiedAck, ShareTyped
  <2>7. ~ Perf
    BY <2>2 DEF Single, Perf
  <2> QED
    BY <1>10, <2>1, <2>2, <2>5, <2>6, <2>7 DEF AckInv, ShareTyped
<1>12. ASSUME NEW w \in Workers, PerfRecords(w) PROVE ShareTyped' /\ AckInv'
  <2>1. PICK records \in Polled(w) :
          /\ Lease(w, records)
          /\ acks' = [acks EXCEPT ![w] = AllAccepted(records)]
          /\ told' = told \cup records
    BY <1>12 DEF PerfRecords
  <2>2. Perf /\ batch = {} /\ batch' = {} /\ failed' = failed /\ at' = [at EXCEPT ![w] = "poll"]
    BY <1>12 DEF PerfRecords, MoveTo, AckInv
  <2>3. /\ DOMAIN AllAccepted(records) = Record
        /\ \A r \in Record : AllAccepted(records)[r] = IF r \in records THEN "accept" ELSE "none"
    BY DEF AllAccepted
  <2>4. ShareTyped'
    BY <1>10, <2>1, <2>2, <2>3 DEF ShareTyped
  <2>5. ASSUME NEW v \in Workers, NEW r \in Record, (acks[v][r] \in {"accept", "reject"})'
        PROVE  JustifiedAck(v, r)'
    <3>1. CASE v = w
      BY <2>1, <2>3, <2>5, <3>1 DEF JustifiedAck, ShareTyped
    <3>2. CASE v # w
      BY <2>1, <2>2, <2>5, <3>2 DEF JustifiedAck, ShareTyped, AckInv
    <3> QED
      BY <3>1, <3>2
  <2> QED
    BY <1>10, <2>1, <2>2, <2>4, <2>5 DEF AckInv
<1>13. CASE ShareCommit
  <2>1. /\ batch = {} /\ batch' = {} /\ told' = told /\ (failed => failed')
        /\ share' = share \/ share' = Sent(1)
        /\ acks' = [acks EXCEPT ![1] = NoAcks]
        /\ DOMAIN at' = DOMAIN at
    BY <1>13 DEF ShareCommit, MoveTo, ClearAcks, AckInv
  <2>2. DOMAIN NoAcks = Record /\ \A r \in Record : NoAcks[r] = "none"
    BY DEF NoAcks
  <2>3. ShareTyped'
    BY <2>1, <2>2, SentKeepsShare DEF ShareTyped
  <2>4. ASSUME NEW w \in Workers, NEW r \in Record, acks'[w][r] \in {"accept", "reject"}
        PROVE  JustifiedAck(w, r)'
    <3>1. w # 1 /\ acks'[w] = acks[w]
      BY <2>1, <2>2, <2>4 DEF ShareTyped
    <3>2. JustifiedAck(w, r)
      BY <2>4, <3>1 DEF AckInv
    <3> QED
      BY <2>1, <3>1, <3>2 DEF JustifiedAck
  <2> QED
    BY <2>1, <2>3, <2>4, SentKeepsShare DEF AckInv
<1>14. CASE ShareClose
  <2>1. /\ batch = {} /\ batch' = {} /\ told' = told /\ failed' = failed /\ at' = at
        /\ \/ share' = GivenBack(share, 1) /\ acks' = acks
           \/ share' = GivenBack(Sent(1), 1) /\ acks' = [acks EXCEPT ![1] = NoAcks]
    BY <1>14 DEF ShareClose, ClearAcks, AckInv
  <2>2. DOMAIN NoAcks = Record /\ \A r \in Record : NoAcks[r] = "none"
    BY DEF NoAcks
  <2> QED
    BY <2>1, <2>2, SentKeepsShare DEF AckInv, ShareTyped, JustifiedAck
<1>15. CASE PerfCommits
  <2>1. /\ Perf /\ batch = {} /\ batch' = {} /\ told' = told /\ failed' = failed
        /\ \/ share' = share /\ at' = at /\ acks' = acks
           \/ \E w \in Threads : /\ share' = Sent(w) /\ acks' = [acks EXCEPT ![w] = NoAcks]
                                 /\ at' = [at EXCEPT ![w] = "committed"]
    BY <1>15 DEF PerfCommits, ClearAcks, MoveTo, AckInv
  <2>2. DOMAIN NoAcks = Record /\ \A r \in Record : NoAcks[r] = "none"
    BY DEF NoAcks
  <2>3. CASE share' = share /\ at' = at /\ acks' = acks
    BY <2>1, <2>3 DEF AckInv, ShareTyped, Justified, JustifiedAck
  <2>4. ASSUME NEW w \in Threads, share' = Sent(w), acks' = [acks EXCEPT ![w] = NoAcks],
               at' = [at EXCEPT ![w] = "committed"]
        PROVE  ShareTyped' /\ AckInv'
    <3>1. w \in Workers
      BY <2>1, ShareAssumption DEF Threads, Perf, Allowed
    <3> QED
      BY <2>1, <2>2, <2>4, <3>1, SentKeepsShare DEF AckInv, ShareTyped, JustifiedAck
  <2> QED
    BY <2>1, <2>3, <2>4
<1>16. SharesEnvironment => \/ UNCHANGED shareVars /\ (pc' = pc \/ pc' = "done")
                           \/ \E r \in Record : Expire(r) \/ OtherAccepts(r)
  BY DEF SharesEnvironment, Interrupt, End
<1> QED
  BY <1>1, <1>2, <1>3, <1>4, <1>5, <1>6, <1>7, <1>8, <1>9, <1>11, <1>12, <1>13, <1>14, <1>15, <1>16
     DEF SharesNext, SharesStep, WorkerStep

\* Nobody else ends a share command, or starts it.
LEMMA OthersLeaveShares ==
  ASSUME IsShare, ProducersNext \/ ConsumersNext
  PROVE  pc' = pc
<1> USE DEF IsShare, ShareTools
<1>1. CASE ProducersNext
  <2>1. CASE ProducersEnvironment
    BY <2>1 DEF ProducersEnvironment, Deliver, ForeignRecord, PerfWake, Interrupt, toolVars, ProducerTools
  <2>2. CASE ProducersStep
    BY <2>2 DEF ProducersStep, Produce, ProduceStart, ProduceLine, ProduceAwaitOne, ProduceAwaitAll,
         VerifiableProducer, VerifiableStart, VerifiableTurn, VerifiableWait, VerifiableDrain,
         ProducerPerf, PerfStart, PerfSend, PerfSent, PerfCommit, PerfGoOn, PerfFlush, PerfReport,
         Latency, LatencyStart, LatencySend, LatencyRead, LatencyEnd
  <2>3. ASSUME NEW i \in Record, WriteEvent(i) PROVE pc' = pc
    BY <2>3 DEF WriteEvent, toolVars
  <2> QED
    BY <1>1, <2>1, <2>2, <2>3 DEF ProducersNext
<1>2. CASE ConsumersNext
  BY <1>2 DEF ConsumersNext, ConsumersEnvironment, ConsumersStep, AppendRecord, Revoke, Assign, AutoCommit,
         Interrupt, ConsumerStart, ConsumerPoll, ConsumerPerfPoll, ConsumerTake, ConsumerHears,
         ConsumerShow, CommitRecord, ConsumerClose, ConsumerIdle, ConsumerError, toolVars,
         IsConsumer, ConsumerTools
<1> QED
  BY <1>1, <1>2

LEMMA ShareInvKept ==
  ASSUME Allowed /\ ShareInv, [Next]_dataPlaneVars
  PROVE  (Allowed /\ ShareInv)'
<1>1. SameCommand
  BY CommandKept
<1>2. Allowed'
  BY <1>1 DEF Allowed, SameCommand
<1>3. CASE ~ IsShare
  BY <1>1, <1>2, <1>3, ShareToolKept DEF ShareInv
<1>4. CASE IsShare /\ SharesNext
  BY <1>1, <1>2, <1>4, ShareToolKept, SharesKeep DEF ShareInv
<1>5. CASE IsShare /\ UNCHANGED shareVars /\ pc' = pc
  BY <1>1, <1>2, <1>5, ShareToolKept
     DEF ShareInv, ShareTyped, AckInv, Justified, JustifiedAck, shareVars
<1> QED
  BY <1>3, <1>4, <1>5, OthersLeaveShares DEF Next, dataPlaneVars, toolVars

LEMMA ShareInvStarts ==
  ASSUME Init
  PROVE  Allowed /\ ShareInv
<1>1. Allowed
  BY DEF Init, ToolInit, Allowed
<1>2. ShareTyped
  BY DEF Init, SharesIdle, ShareTyped, Entry, ShareStates, NoAcks
<1>3. \A w \in Workers, r \in Record : acks[w][r] = "none"
  BY DEF Init, SharesIdle, NoAcks
<1>4. batch = {} /\ \A r \in Record : share[r].state = "available"
  BY DEF Init, SharesIdle
<1> QED
  BY <1>1, <1>2, <1>3, <1>4 DEF ShareInv, AckInv

LEMMA ShareInvImplies == ShareInv => AcceptedWasTold
  BY DEF ShareInv, AckInv, Justified, RejectsUnwritten, AcceptedWasTold

-----------------------------------------------------------------------------
\* No offset that a command commits, and no acknowledgement it sends, covers a record
\* that the reader of standard output has not been shown: an offset is committed after
\* the record before it was written, and a record is acknowledged when it was told,
\* through every error, rebalance, expired lease, signal and repeated commit.
THEOREM SettledHolds == Spec => []SettledWasShown
<1>1. Init => ConsumerInv /\ Allowed /\ ShareInv
  BY ConsumerInvStarts, ShareInvStarts
<1>2. (ConsumerInv /\ Allowed /\ ShareInv) /\ [Next]_dataPlaneVars
        => (ConsumerInv /\ Allowed /\ ShareInv)'
  BY ConsumerInvKept, ShareInvKept
<1>3. ConsumerInv /\ Allowed /\ ShareInv => SettledWasShown
  BY ConsumerInvImplies, ShareInvImplies DEF SettledWasShown
<1> QED
  BY <1>1, <1>2, <1>3, PTL DEF Spec

-----------------------------------------------------------------------------
(* One command runs: the parts of the specification that are not its own leave *)
(* the tool alone.                                                            *)

IsProducer == cmd.tool \in ProducerTools

\* Only the share commands run a loop of several consumers.
ToolInv ==
  /\ exit \in Exits /\ signal \in Signals
  /\ (exit = "none") <=> (pc # "done")
  /\ pc = "run" => IsShare

LEMMA ProducersAlone ==
  ASSUME ProducersNext, ~ IsProducer
  PROVE  UNCHANGED toolVars
<1> USE DEF IsProducer, ProducerTools
<1>1. CASE ProducersEnvironment
  BY <1>1 DEF ProducersEnvironment, Deliver, ForeignRecord, PerfWake
<1>2. CASE ProducersStep
  BY <1>2 DEF ProducersStep, Produce, ProduceStart, ProduceLine, ProduceAwaitOne, ProduceAwaitAll,
       VerifiableProducer, VerifiableStart, VerifiableTurn, VerifiableWait, VerifiableDrain,
       ProducerPerf, PerfStart, PerfSend, PerfSent, PerfCommit, PerfGoOn, PerfFlush, PerfReport,
       Latency, LatencyStart, LatencySend, LatencyRead, LatencyEnd
<1>3. ASSUME NEW i \in Record, WriteEvent(i) PROVE UNCHANGED toolVars
  BY <1>3 DEF WriteEvent
<1> QED
  BY <1>1, <1>2, <1>3 DEF ProducersNext

LEMMA ConsumersAlone ==
  ASSUME ConsumersNext, ~ IsConsumer
  PROVE  FALSE
  BY DEF ConsumersNext, ConsumersEnvironment, ConsumersStep, AppendRecord, Revoke, Assign, AutoCommit,
         ConsumerStart, ConsumerPoll, ConsumerPerfPoll, ConsumerTake, ConsumerHears, ConsumerShow,
         CommitRecord, ConsumerClose, ConsumerIdle, ConsumerError, IsConsumer, ConsumerTools

LEMMA SharesAlone ==
  ASSUME SharesNext, ~ IsShare, pc # "run"
  PROVE  \E r \in Record : Expire(r)
  BY DEF SharesNext, SharesEnvironment, SharesStep, WorkerStep, OtherAccepts,
         ShareConsumeStart, VerifiableShareStart, SharePerfStart, ShareRecords, ShareRecord, BatchOver,
         ShareHears, ShareCommit, ShareClose, PerfCommits, ShareRecordFails, SharePoll, PerfRecords,
         ShareNothing, ShareIdle, SharePollFails, IsShare, ShareTools, Perf

LEMMA OneKindOfCommand ==
  /\ IsProducer => ~ IsConsumer /\ ~ IsShare
  /\ IsConsumer => ~ IsProducer /\ ~ IsShare
  /\ IsShare => ~ IsProducer /\ ~ IsConsumer
  BY DEF IsProducer, IsConsumer, IsShare, ProducerTools, ConsumerTools, ShareTools

LEMMA SameKind ==
  ASSUME SameCommand
  PROVE  IsProducer' = IsProducer /\ IsConsumer' = IsConsumer /\ IsShare' = IsShare
  BY DEF SameCommand, IsProducer, IsConsumer, IsShare

LEMMA ToolInvKept ==
  ASSUME ToolInv, [Next]_dataPlaneVars
  PROVE  ToolInv'
<1>0. SameCommand
  BY CommandKept
<1> USE <1>0, SameKind DEF ToolInv, Exits, Signals
<1>1. CASE UNCHANGED toolVars
  BY <1>1 DEF toolVars
<1>2. ASSUME NEW listening, Interrupt(listening) PROVE ToolInv'
  BY <1>2 DEF Interrupt, End, Running
<1>3. CASE ProducersStep
  <2> USE DEF Goto, End, toolVars
  <2>1. CASE Produce
    BY <2>1 DEF Produce, ProduceStart, ProduceLine, ProduceAwaitOne, ProduceAwaitAll
  <2>2. CASE VerifiableProducer
    BY <2>2 DEF VerifiableProducer, VerifiableStart, VerifiableTurn, VerifiableWait, VerifiableDrain, Armed
  <2>3. CASE ProducerPerf
    BY <2>3 DEF ProducerPerf, PerfStart, PerfSend, PerfSent, PerfCommit, PerfGoOn, PerfFlush, PerfReport,
         Throttle
  <2>4. CASE Latency
    BY <2>4 DEF Latency, LatencyStart, LatencySend, LatencyRead, LatencyEnd
  <2> QED
    BY <1>3, <2>1, <2>2, <2>3, <2>4 DEF ProducersStep
<1>4. CASE ProducersNext
  <2>1. ASSUME NEW i \in Record, WriteEvent(i) PROVE ToolInv'
    BY <1>1, <2>1 DEF WriteEvent
  <2>2. CASE PerfWake
    BY <2>2 DEF PerfWake, Goto
  <2>3. CASE ProducersEnvironment
    BY <1>1, <1>2, <2>2, <2>3 DEF ProducersEnvironment, Deliver, ForeignRecord
  <2> QED
    BY <1>3, <1>4, <2>1, <2>3 DEF ProducersNext
<1>5. CASE ConsumersNext
  <2>1. CASE ConsumersEnvironment
    BY <1>1, <1>2, <2>1 DEF ConsumersEnvironment, AppendRecord, Revoke, Assign, AutoCommit
  <2>2. CASE ConsumersStep \/ ConsumerIdle \/ ConsumerError
    BY <2>2 DEF ConsumersStep, ConsumerStart, ConsumerPoll, ConsumerPerfPoll, ConsumerTake, ConsumerHears,
         ConsumerShow, CommitRecord, ConsumerClose, ConsumerIdle, ConsumerError, Goto, End, Drop, Armed,
         toolVars
  <2> QED
    BY <1>5, <2>1, <2>2 DEF ConsumersNext
<1>6. CASE SharesNext
  <2>1. CASE SharesEnvironment
    BY <1>1, <1>2, <2>1 DEF SharesEnvironment, Expire, OtherAccepts
  <2>2. CASE SharesStep \/ ShareRecordFails
    BY <2>2 DEF SharesStep, ShareConsumeStart, VerifiableShareStart, SharePerfStart, Joins, Refuses,
         ShareRecords, ShareRecord, BatchOver, ShareHears, ShareCommit, ShareClose, PerfCommits,
         ShareRecordFails, Goto, End, Drop, toolVars, IsShare, ShareTools, Perf
  <2>3. ASSUME NEW w \in Workers,
               SharePoll(w) \/ PerfRecords(w) \/ ShareNothing(w) \/ ShareIdle(w) \/ SharePollFails(w)
        PROVE  ToolInv'
    BY <2>3 DEF SharePoll, PerfRecords, ShareNothing, ShareIdle, SharePollFails, End, Drop, Armed, toolVars
  <2> QED
    BY <1>6, <2>1, <2>2, <2>3 DEF SharesNext, WorkerStep
<1> QED
  BY <1>1, <1>4, <1>5, <1>6 DEF Next, dataPlaneVars

LEMMA ToolInvStarts == Init => ToolInv
  BY DEF Init, ToolInit, ToolInv, Exits, Signals

-----------------------------------------------------------------------------
(* Producers: counting *)

LEMMA RecordsAreFinite ==
  /\ IsFiniteSet(Record) /\ Cardinality(Record) = MaxRecords
  /\ \A S \in SUBSET Record : IsFiniteSet(S) /\ Cardinality(S) \in 0..MaxRecords
<1>1. MaxRecords \in Nat /\ MaxRecords > 0
  BY MaxRecordsAssumption
<1>2. IsFiniteSet(Record) /\ Cardinality(Record) = MaxRecords
  BY <1>1, FS_Interval DEF Record
<1>3. ASSUME NEW S \in SUBSET Record
      PROVE  IsFiniteSet(S) /\ Cardinality(S) \in 0..MaxRecords
  <2>1. IsFiniteSet(S) /\ Cardinality(S) <= MaxRecords
    BY <1>2, FS_Subset
  <2>2. Cardinality(S) \in Nat
    BY <2>1, FS_CardinalityType
  <2> QED
    BY <1>1, <2>1, <2>2
<1> QED
  BY <1>2, <1>3

LEMMA CountType ==
  ASSUME NEW A \in SUBSET Record, NEW f
  PROVE  Count(A, f) \in 0..MaxRecords
<1>1. {i \in A : fate[i] = f} \in SUBSET Record
  OBVIOUS
<1> QED
  BY <1>1, RecordsAreFinite DEF Count

\* Sets that have nothing in common are counted one by one.
LEMMA CardinalityOfParts ==
  ASSUME NEW A \in SUBSET Record, NEW B \in SUBSET Record, A \cap B = {}
  PROVE  Cardinality(A \cup B) = Cardinality(A) + Cardinality(B)
<1>1. IsFiniteSet(A) /\ IsFiniteSet(B) /\ Cardinality(A) \in Nat /\ Cardinality(B) \in Nat
  BY RecordsAreFinite, MaxRecordsAssumption
<1>2. Cardinality(A \cup B) = Cardinality(A) + Cardinality(B) - Cardinality(A \cap B)
  BY <1>1, FS_Union
<1>3. Cardinality(A \cap B) = 0
  BY FS_EmptySet
<1> QED
  BY <1>1, <1>2, <1>3

LEMMA CountOfParts ==
  ASSUME NEW A \in SUBSET Record, NEW B \in SUBSET Record, A \cap B = {}, NEW f
  PROVE  Count(A \cup B, f) = Count(A, f) + Count(B, f)
<1> DEFINE CA == {i \in A : fate[i] = f}
           CB == {i \in B : fate[i] = f}
<1>1. CA \in SUBSET Record /\ CB \in SUBSET Record /\ CA \cap CB = {}
  OBVIOUS
<1>2. {i \in A \cup B : fate[i] = f} = CA \cup CB
  OBVIOUS
<1> HIDE DEF CA, CB
<1>3. Cardinality(CA \cup CB) = Cardinality(CA) + Cardinality(CB)
  BY <1>1, CardinalityOfParts
<1> QED
  BY <1>2, <1>3 DEF Count, CA, CB

LEMMA CountOfNone ==
  ASSUME NEW A \in SUBSET Record, NEW f, Count(A, f) = 0
  PROVE  \A i \in A : fate[i] # f
<1> DEFINE CA == {i \in A : fate[i] = f}
<1>1. IsFiniteSet(CA) /\ Cardinality(CA) = 0
  BY RecordsAreFinite DEF Count
<1>2. CA = {}
  BY <1>1, FS_EmptySet
<1> QED
  BY <1>2

\* A count does not change with records that are not counted.
LEMMA CountKept ==
  ASSUME NEW A, \A i \in A : fate'[i] = fate[i], NEW f
  PROVE  {i \in A : fate'[i] = f} = {i \in A : fate[i] = f}
  OBVIOUS

-----------------------------------------------------------------------------
(* Producers: what is handed over, decided and counted *)

Tally == [sent : Nat, acked : Nat, failed : Nat, steady : Nat, txn : Nat]
Closed == {i \in Record : task[i] = "closed"}
IsDecided(i) == fate[i] \in {"acked", "failed"}

ProducerTyped ==
  /\ next \in Nat /\ next >= 1
  /\ fate \in [Record -> Fates] /\ task \in [Record -> Tasks] /\ tally \in Tally

\* Record i is handed over when those before it are.
HandedInOrder == \A i \in Record : fate[i] # "unsent" <=> i < next

\* One at a time: the record before the one at hand is acknowledged.
OneByOne ==
  /\ \A i \in Record : i < next => fate[i] = "acked"
  /\ \A i \in Record : i > next => fate[i] = "unsent"

ProduceInv ==
  /\ next <= Target + 1
  /\ cmd.sync => OneByOne
  /\ ~ cmd.sync => HandedInOrder /\ pc # "await"
  /\ pc = "await" => next <= Target
  /\ \A i \in Record : task[i] # "none" => ~ cmd.sync /\ task[i] = "closed" /\ fate[i] = "acked"
  /\ tally = NoTally
  /\ exit = "ok" => \A i \in 1..Target : fate[i] = "acked"

LatencyInv ==
  /\ next <= Target + 1
  /\ OneByOne
  /\ pc \in {"await", "read"} => next <= Target
  /\ pc = "read" => fate[next] = "acked"
  /\ tally = NoTally
  /\ exit = "ok" => \A i \in 1..Target : fate[i] = "acked"

\* A task is opened when its record is handed over; when it is over the fate is known.
TasksFollow ==
  /\ HandedInOrder
  /\ \A i \in Record : task[i] # "none" <=> i < next
  /\ \A i \in Record : task[i] \notin {"none", "open"} => IsDecided(i)
  /\ \A i \in Record : task[i] # "foreign"

VerifiableInv ==
  /\ next <= Target + 1
  /\ TasksFollow
  /\ tally.sent = next - 1 /\ tally.acked = Count(Closed, "acked")
  /\ tally.failed = 0 /\ tally.steady = 0 /\ tally.txn = 0
  /\ Said("shutdown_complete") => pc = "done" /\ \A i \in Record : i < next => i \in Closed

Steady == {i \in Closed : i > cmd.warmup}
PerfInv ==
  /\ next <= Target + 1
  /\ TasksFollow
  /\ \A i \in Record : task[i] \notin {"written", "broken"}
  /\ tally.sent = 0 /\ tally.txn <= next - 1
  /\ tally.acked = Count(Closed, "acked")
  /\ tally.failed = Count(Closed, "failed")
  /\ tally.steady = IF cmd.warmup > 0 THEN Count(Steady, "acked") ELSE 0
  /\ pc \in {"last", "flush", "report"} => next > Target
  /\ pc = "report" => \A i \in Record : i < next => i \in Closed
  /\ exit = "ok" => \A i \in 1..Target : fate[i] = "acked"

ProducerInv ==
  /\ ProducerTyped
  /\ cmd.tool = "produce" => ProduceInv
  /\ cmd.tool = "verifiable-producer" => VerifiableInv
  /\ cmd.tool = "producer-perf" => PerfInv
  /\ cmd.tool = "e2e-latency" => LatencyInv
  /\ ~ IsProducer => next = 1 /\ tally = NoTally

LEMMA TargetBound ==
  ASSUME Allowed, IsProducer
  PROVE  Target \in 0..MaxRecords
<1>1. cmd \in Commands /\ MaxRecords \in Nat
  BY MaxRecordsAssumption DEF Allowed
<1>2. CASE cmd.tool = "produce"
  BY <1>1, <1>2, ProducersAssumption DEF Target
<1>3. CASE cmd.tool = "verifiable-producer"
  BY <1>1, <1>3, ProducersAssumption DEF Target, The
<1>4. CASE cmd.tool \in {"producer-perf", "e2e-latency"}
  <2>1. Target = cmd.records
    BY <1>4 DEF Target
  <2> QED
    BY <1>1, <1>4, <2>1, ProducersAssumption
<1> QED
  BY <1>2, <1>3, <1>4 DEF IsProducer, ProducerTools

LEMMA TargetKept ==
  ASSUME SameCommand
  PROVE  Target' = Target
  BY DEF SameCommand, Target

\* The steps of librdkafka decide what was queued, and nothing else.
LEMMA DeliverDecides ==
  ASSUME ProducerTyped, NEW i \in Record, Deliver(i)
  PROVE  /\ fate[i] = "queued" /\ fate'[i] \in {"acked", "failed"}
         /\ \A j \in Record : j # i => fate'[j] = fate[j]
         /\ fate' \in [Record -> Fates]
         /\ exit = "none" /\ UNCHANGED <<cmd, pc, exit, signal, events, next, task, tally>>
<1>1. PICK f \in {"acked", "failed"} : fate' = [fate EXCEPT ![i] = f]
  BY DEF Deliver
<1> QED
  BY <1>1 DEF Deliver, ProducerTyped, Fates, Running, toolVars

LEMMA HandChanges ==
  ASSUME ProducerTyped, Hand(next)
  PROVE  /\ fate' \in [Record -> Fates]
         /\ \A j \in Record : fate'[j] = IF j = next THEN "queued" ELSE fate[j]
  BY DEF Hand, ProducerTyped, Fates

-----------------------------------------------------------------------------
(* produce *)

LEMMA ProduceSteps ==
  ASSUME cmd.tool = "produce", ProducersNext
  PROVE  \/ Produce
         \/ \E i \in Record : Deliver(i)
         \/ Interrupt(TRUE) /\ UNCHANGED producerVars
  BY DEF ProducersNext, ProducersEnvironment, ProducersStep, ForeignRecord, PerfWake, WriteEvent,
         VerifiableProducer, VerifiableStart, VerifiableTurn, VerifiableWait, VerifiableDrain,
         ProducerPerf, PerfStart, PerfSend, PerfSent, PerfCommit, PerfGoOn, PerfFlush, PerfReport,
         Latency, LatencyStart, LatencySend, LatencyRead, LatencyEnd

LEMMA ProduceKeeps ==
  ASSUME Allowed, ToolInv, SameCommand, cmd.tool = "produce", ProducerTyped, ProduceInv, ProducersNext
  PROVE  ProducerTyped' /\ ProduceInv'
<1>0. Target \in 0..MaxRecords /\ Target' = Target /\ cmd' = cmd /\ MaxRecords \in Nat
  BY TargetBound, TargetKept, MaxRecordsAssumption DEF IsProducer, ProducerTools, SameCommand
<1> USE <1>0 DEF OneByOne, HandedInOrder, Record
<1>1. ASSUME NEW i \in Record, Deliver(i) PROVE ProducerTyped' /\ ProduceInv'
  <2>1. ProducerTyped'
    BY <1>1, DeliverDecides DEF ProducerTyped
  <2>2. \A j \in Record : fate[j] # "unsent" <=> fate'[j] # "unsent"
    BY <1>1, DeliverDecides
  <2>3. \A j \in Record : fate[j] = "acked" => fate'[j] = "acked"
    BY <1>1, DeliverDecides
  <2> QED
    BY <1>1, <2>1, <2>2, <2>3, DeliverDecides DEF ProduceInv
<1>2. CASE Interrupt(TRUE) /\ UNCHANGED producerVars
  BY <1>2 DEF Interrupt, End, producerVars, ProducerTyped, ProduceInv
<1>3. CASE ProduceStart
  BY <1>3 DEF ProduceStart, Goto, End, producerVars, ProducerTyped, ProduceInv
<1>4. CASE ProduceLine
  <2>1. CASE pc' # "done"
    <3>0. Enqueue(next)
      BY <1>4, <2>1 DEF ProduceLine, End
    <3>1. /\ fate' \in [Record -> Fates]
          /\ \A j \in Record : fate'[j] = IF j = next THEN "queued" ELSE fate[j]
      BY <3>0, HandChanges DEF Enqueue
    <3>2. /\ IF cmd.sync THEN pc' = "await" /\ next' = next ELSE next' = next + 1 /\ pc' = "send"
          /\ exit' = exit
      BY <1>4, <2>1 DEF ProduceLine, Goto, End
    <3>3. task' = task /\ tally' = tally /\ exit = "none" /\ next <= Target
      BY <1>4 DEF ProduceLine, ToolInv
    <3> QED
      BY <1>4, <3>1, <3>2, <3>3 DEF ProducerTyped, ProduceInv
  <2>2. CASE pc' = "done"
    <3>1. UNCHANGED <<next, fate, task, tally>> /\ exit' # "ok"
      BY <1>4, <2>2 DEF ProduceLine, Goto, End
    <3> QED
      BY <2>2, <3>1 DEF ProducerTyped, ProduceInv
  <2> QED
    BY <2>1, <2>2
<1>5. CASE ProduceAwaitOne
  <2>1. /\ cmd.sync /\ UNCHANGED <<fate, task, tally>>
        /\ \/ fate[next] = "acked" /\ next' = next + 1 /\ pc' = "send" /\ exit' = exit
           \/ next' = next /\ pc' = "done" /\ exit' = "error"
    BY <1>5 DEF ProduceAwaitOne, Goto, End
  <2>2. next <= Target
    BY <1>5 DEF ProduceAwaitOne, ProduceInv
  <2> QED
    BY <2>1, <2>2 DEF ProducerTyped, ProduceInv
<1>6. CASE ProduceAwaitAll
  <2>1. CASE cmd.sync
    BY <1>6, <2>1 DEF ProduceAwaitAll, End, ProducerTyped, ProduceInv, Record
  <2>2. CASE ~ cmd.sync /\ Unawaited = {}
    <3>1. /\ pc' = "done" /\ exit' = "ok" /\ UNCHANGED <<next, fate, task, tally>> /\ next > Target
      BY <1>6, <2>2 DEF ProduceAwaitAll, End
    <3>2. \A i \in 1..Target : i \in Record /\ i < next
      BY <3>1 DEF Record, ProducerTyped
    <3>3. \A i \in 1..Target : fate[i] = "acked"
      BY <2>2, <3>2 DEF Unawaited, ProduceInv
    <3> QED
      BY <3>1, <3>3 DEF ProducerTyped, ProduceInv
  <2>3. CASE ~ cmd.sync /\ Unawaited # {}
    <3> DEFINE first == CHOOSE i \in Unawaited : \A j \in Unawaited : i <= j
    <3>1. \/ /\ fate[first] = "acked" /\ task' = [task EXCEPT ![first] = "closed"]
             /\ pc' = "send" /\ exit' = exit
          \/ pc' = "done" /\ exit' = "error" /\ task' = task
      BY <1>6, <2>3 DEF ProduceAwaitAll, Goto, End
    <3> HIDE DEF first
    <3>2. UNCHANGED <<next, fate, tally>>
      BY <1>6 DEF ProduceAwaitAll
    <3>3. task' \in [Record -> Tasks]
      BY <3>1 DEF ProducerTyped, Tasks
    <3>4. \A i \in Record : task'[i] = task[i] \/ (task'[i] = "closed" /\ fate[i] = "acked")
      BY <3>1 DEF ProducerTyped
    <3>5. pc' # "await" /\ (exit' = exit \/ exit' = "error")
      BY <3>1
    <3> QED
      BY <2>3, <3>2, <3>3, <3>4, <3>5 DEF ProducerTyped, ProduceInv
  <2> QED
    BY <2>1, <2>2, <2>3
<1> QED
  BY <1>1, <1>2, <1>3, <1>4, <1>5, <1>6, ProduceSteps DEF Produce

-----------------------------------------------------------------------------
(* e2e-latency *)

LEMMA LatencySteps ==
  ASSUME cmd.tool = "e2e-latency", ProducersNext
  PROVE  \/ Latency \/ ForeignRecord
         \/ \E i \in Record : Deliver(i)
         \/ Interrupt(TRUE) /\ UNCHANGED producerVars
  BY DEF ProducersNext, ProducersEnvironment, ProducersStep, PerfWake, WriteEvent,
         Produce, ProduceStart, ProduceLine, ProduceAwaitOne, ProduceAwaitAll,
         VerifiableProducer, VerifiableStart, VerifiableTurn, VerifiableWait, VerifiableDrain,
         ProducerPerf, PerfStart, PerfSend, PerfSent, PerfCommit, PerfGoOn, PerfFlush, PerfReport

LEMMA LatencyKeeps ==
  ASSUME Allowed, ToolInv, SameCommand, cmd.tool = "e2e-latency", ProducerTyped, LatencyInv,
         ProducersNext
  PROVE  ProducerTyped' /\ LatencyInv'
<1>0. Target \in 0..MaxRecords /\ Target' = Target /\ cmd' = cmd /\ MaxRecords \in Nat
  BY TargetBound, TargetKept, MaxRecordsAssumption DEF IsProducer, ProducerTools, SameCommand
<1> USE <1>0 DEF OneByOne, Record
<1>1. ASSUME NEW i \in Record, Deliver(i) PROVE ProducerTyped' /\ LatencyInv'
  <2>1. ProducerTyped'
    BY <1>1, DeliverDecides DEF ProducerTyped
  <2>2. \A j \in Record : (fate[j] = "unsent" => fate'[j] = "unsent")
                          /\ (fate[j] = "acked" => fate'[j] = "acked")
    BY <1>1, DeliverDecides
  <2>3. pc = "read" => next \in Record
    BY DEF LatencyInv, ProducerTyped
  <2> QED
    BY <1>1, <2>1, <2>2, <2>3, DeliverDecides DEF LatencyInv
<1>2. CASE Interrupt(TRUE) /\ UNCHANGED producerVars
  BY <1>2 DEF Interrupt, End, producerVars, ProducerTyped, LatencyInv
<1>3. CASE ForeignRecord
  BY <1>3 DEF ForeignRecord, toolVars, ProducerTyped, LatencyInv
<1>4. CASE LatencyStart
  BY <1>4 DEF LatencyStart, Goto, End, producerVars, ProducerTyped, LatencyInv
<1>5. CASE LatencySend
  <2>1. CASE pc = "send"
    <3>1. /\ Hand(next) /\ next <= Target /\ pc' = "await" /\ exit' = exit /\ exit = "none"
          /\ UNCHANGED <<next, task, tally>>
      BY <1>5, <2>1 DEF LatencySend, Goto, ToolInv
    <3>2. /\ fate' \in [Record -> Fates]
          /\ \A j \in Record : fate'[j] = IF j = next THEN "queued" ELSE fate[j]
      BY <3>1, HandChanges
    <3> QED
      BY <3>1, <3>2 DEF ProducerTyped, LatencyInv
  <2>2. CASE pc = "await"
    <3>1. /\ UNCHANGED <<next, fate, task, tally>>
          /\ IF fate[next] = "acked" THEN pc' = "read" /\ exit' = exit
             ELSE pc' = "done" /\ exit' = "error"
      BY <1>5, <2>2 DEF LatencySend, Goto, End
    <3> QED
      BY <2>2, <3>1 DEF ProducerTyped, LatencyInv
  <2> QED
    BY <1>5, <2>1, <2>2 DEF LatencySend
<1>6. CASE LatencyRead
  <2>1. /\ pc = "read" /\ UNCHANGED <<fate, tally>>
        /\ \/ /\ next' = next + 1 /\ pc' = "send" /\ exit' = exit
              /\ task' = [task EXCEPT ![next] = "closed"] \/ task' = [task EXCEPT ![next] = "foreign"]
           \/ next' = next /\ pc' = "done" /\ exit' = "error" /\ task' = task
    BY <1>6 DEF LatencyRead, Goto, End
  <2>2. task' \in [Record -> Tasks]
    BY <2>1 DEF ProducerTyped, Tasks
  <2> QED
    BY <2>1, <2>2 DEF ProducerTyped, LatencyInv
<1>7. CASE LatencyEnd
  BY <1>7 DEF LatencyEnd, End, producerVars, ProducerTyped, LatencyInv
<1> QED
  BY <1>1, <1>2, <1>3, <1>4, <1>5, <1>6, <1>7, LatencySteps DEF Latency

-----------------------------------------------------------------------------
(* verifiable-producer *)

\* Nothing closed, nothing counted
LEMMA CountSame ==
  ASSUME NEW A \in SUBSET Record, NEW f, \A i \in A : fate'[i] = fate[i]
  PROVE  Cardinality({i \in A : fate'[i] = f}) = Count(A, f)
  BY CountKept DEF Count

\* What is closed is added to what was, once.
LEMMA CountAdded ==
  ASSUME NEW A \in SUBSET Record, NEW B \in SUBSET Record, A \cap B = {}, NEW f,
         \A i \in A \cup B : fate'[i] = fate[i]
  PROVE  Cardinality({i \in A \cup B : fate'[i] = f}) = Count(A, f) + Count(B, f)
<1>1. A \cup B \in SUBSET Record
  OBVIOUS
<1>2. Cardinality({i \in A \cup B : fate'[i] = f}) = Count(A \cup B, f)
  BY <1>1, CountSame
<1> QED
  BY <1>2, CountOfParts

LEMMA VerifiableSteps ==
  ASSUME cmd.tool = "verifiable-producer", ProducersNext
  PROVE  \/ VerifiableProducer
         \/ \E i \in Record : Deliver(i) \/ WriteEvent(i)
         \/ Interrupt(TRUE) /\ UNCHANGED producerVars
  BY DEF ProducersNext, ProducersEnvironment, ProducersStep, PerfWake, ForeignRecord,
         Produce, ProduceStart, ProduceLine, ProduceAwaitOne, ProduceAwaitAll,
         ProducerPerf, PerfStart, PerfSend, PerfSent, PerfCommit, PerfGoOn, PerfFlush, PerfReport,
         Latency, LatencyStart, LatencySend, LatencyRead, LatencyEnd

\* What happens to the tasks and to the fates of their records, whichever command it is
LEMMA TasksDelivered ==
  ASSUME ProducerTyped, TasksFollow, NEW i \in Record, Deliver(i)
  PROVE  /\ ProducerTyped' /\ TasksFollow' /\ Closed' = Closed
         /\ \A j \in Record : j \in Closed => fate'[j] = fate[j]
         /\ \A j \in Record : IsDecided(j) => fate'[j] = fate[j]
  BY DeliverDecides DEF ProducerTyped, TasksFollow, HandedInOrder, IsDecided, Closed

LEMMA TasksSame ==
  ASSUME ProducerTyped, TasksFollow, UNCHANGED <<next, fate, task, tally>>
  PROVE  /\ ProducerTyped' /\ TasksFollow' /\ Closed' = Closed
         /\ \A f : Count(Closed, f)' = Count(Closed, f)
  BY DEF ProducerTyped, TasksFollow, HandedInOrder, IsDecided, Closed, Count

\* Tasks are closed when the fate of their records is known.
LEMMA TasksClosed ==
  ASSUME ProducerTyped, TasksFollow, tally' \in Tally, UNCHANGED <<next, fate>>,
         NEW done \in SUBSET Record, done \cap Closed = {},
         \A i \in done : IsDecided(i),
         task' = [i \in Record |-> IF i \in done THEN "closed" ELSE task[i]]
  PROVE  /\ ProducerTyped' /\ TasksFollow' /\ Closed' = Closed \cup done
         /\ \A f \in {"acked", "failed"} : Count(Closed, f)' = Count(Closed, f) + Count(done, f)
<1>1. task' \in [Record -> Tasks]
  BY DEF ProducerTyped, Tasks
<1>2. \A i \in done : i < next
  BY DEF TasksFollow, HandedInOrder, IsDecided
<1>3. Closed' = Closed \cup done
  BY DEF Closed
<1>4. Closed \in SUBSET Record
  BY DEF Closed
<1>5. ASSUME NEW f \in {"acked", "failed"} PROVE Count(Closed, f)' = Count(Closed, f) + Count(done, f)
  <2>1. Cardinality({i \in Closed \cup done : fate'[i] = f}) = Count(Closed, f) + Count(done, f)
    BY <1>4, CountAdded
  <2> QED
    BY <1>3, <2>1 DEF Count
<1>6. ProducerTyped'
  BY <1>1 DEF ProducerTyped
<1>7. TasksFollow'
  BY <1>1, <1>2 DEF TasksFollow, HandedInOrder, IsDecided
<1> QED
  BY <1>3, <1>5, <1>6, <1>7

\* A record is handed over and its task opened, while others may be closed.
LEMMA TaskOpened ==
  ASSUME ProducerTyped, TasksFollow, tally' \in Tally, Hand(next), next' = next + 1,
         NEW done \in SUBSET Record, done \cap Closed = {},
         \A i \in done : IsDecided(i),
         task' = [i \in Record |-> IF i \in done THEN "closed"
                                   ELSE IF i = next THEN "open" ELSE task[i]]
  PROVE  /\ ProducerTyped' /\ TasksFollow' /\ Closed' = Closed \cup done
         /\ \A i \in Closed' : fate'[i] = fate[i]
         /\ \A f \in {"acked", "failed"} : Count(Closed, f)' = Count(Closed, f) + Count(done, f)
<1>1. task' \in [Record -> Tasks]
  BY DEF ProducerTyped, Tasks
<1>2. /\ fate' \in [Record -> Fates]
      /\ \A j \in Record : fate'[j] = IF j = next THEN "queued" ELSE fate[j]
  BY HandChanges
<1>3. \A i \in done \cup Closed : i < next
  BY DEF TasksFollow, HandedInOrder, IsDecided, Closed
<1>4. Closed' = Closed \cup done
  BY <1>3 DEF Closed, TasksFollow, ProducerTyped
<1>5. Closed \in SUBSET Record
  BY DEF Closed
<1>6. \A i \in Closed \cup done : fate'[i] = fate[i]
  BY <1>2, <1>3, <1>5 DEF ProducerTyped
<1>7. ASSUME NEW f \in {"acked", "failed"} PROVE Count(Closed, f)' = Count(Closed, f) + Count(done, f)
  <2>1. Cardinality({i \in Closed \cup done : fate'[i] = f}) = Count(Closed, f) + Count(done, f)
    BY <1>5, <1>6, CountAdded
  <2> QED
    BY <1>4, <2>1 DEF Count
<1>8. ProducerTyped'
  BY <1>1, <1>2 DEF ProducerTyped
<1>9. TasksFollow'
  <2>1. MaxRecords \in Nat
    BY MaxRecordsAssumption
  <2> QED
    BY <1>1, <1>2, <1>3, <2>1 DEF TasksFollow, HandedInOrder, IsDecided, ProducerTyped, Record
<1> QED
  BY <1>4, <1>6, <1>7, <1>8, <1>9

\* The counters after an update are those before it, and what was added
LEMMA TallyAdds ==
  ASSUME NEW t \in Tally, NEW a \in Nat, NEW u, u = [t EXCEPT !.acked = @ + a]
  PROVE  /\ u \in Tally /\ u.acked = t.acked + a /\ u.sent = t.sent
         /\ u.failed = t.failed /\ u.steady = t.steady /\ u.txn = t.txn
  BY DEF Tally

LEMMA TallySends ==
  ASSUME NEW t \in Tally, NEW a \in Nat, NEW u, u = [t EXCEPT !.acked = @ + a, !.sent = @ + 1]
  PROVE  /\ u \in Tally /\ u.acked = t.acked + a /\ u.sent = t.sent + 1
         /\ u.failed = t.failed /\ u.steady = t.steady /\ u.txn = t.txn
<1> DEFINE v == [t EXCEPT !.acked = @ + a]
<1>1. u = [v EXCEPT !.sent = @ + 1]
  OBVIOUS
<1>2. /\ v \in Tally /\ v.acked = t.acked + a /\ v.sent = t.sent
      /\ v.failed = t.failed /\ v.steady = t.steady /\ v.txn = t.txn
  BY TallyAdds
<1> HIDE DEF v
<1> QED
  BY <1>1, <1>2 DEF Tally

LEMMA VerifiableKeeps ==
  ASSUME Allowed, ToolInv, SameCommand, cmd.tool = "verifiable-producer", ProducerTyped,
         VerifiableInv, ProducersNext
  PROVE  ProducerTyped' /\ VerifiableInv'
<1>0. /\ Target \in 0..MaxRecords /\ Target' = Target /\ cmd' = cmd /\ MaxRecords \in Nat
      /\ TasksFollow
  BY TargetBound, TargetKept, MaxRecordsAssumption
     DEF IsProducer, ProducerTools, SameCommand, VerifiableInv
<1> USE <1>0 DEF Record
\* Steps after which no task is closed and nothing is told about the end
<1>1. ASSUME ProducerTyped', TasksFollow', Closed' = Closed, \A f : Count(Closed, f)' = Count(Closed, f),
             UNCHANGED <<next, tally>>, Said("shutdown_complete")' => Said("shutdown_complete"),
             pc = "done" => pc' = "done"
      PROVE  ProducerTyped' /\ VerifiableInv'
  BY <1>1 DEF VerifiableInv
<1>2. ASSUME NEW i \in Record, Deliver(i) PROVE ProducerTyped' /\ VerifiableInv'
  <2>1. /\ ProducerTyped' /\ TasksFollow' /\ Closed' = Closed
        /\ \A j \in Record : j \in Closed => fate'[j] = fate[j]
    BY <1>2, TasksDelivered
  <2>2. \A f : Count(Closed, f)' = Count(Closed, f)
    BY <2>1, CountSame DEF Count, Closed
  <2> QED
    BY <1>1, <1>2, <2>1, <2>2, DeliverDecides DEF Said
<1>3. CASE Interrupt(TRUE) /\ UNCHANGED producerVars
  <2>1. UNCHANGED <<next, fate, task, tally, events>> /\ (pc = "done" => pc' = "done")
    BY <1>3 DEF Interrupt, End, producerVars
  <2> QED
    BY <1>1, <2>1, TasksSame DEF Said
<1>4. CASE VerifiableStart \/ VerifiableWait
  <2>1. /\ UNCHANGED <<next, fate, task, tally>> /\ pc # "done"
        /\ events' = events \/ events' = Append(events, "startup_complete")
    BY <1>4 DEF VerifiableStart, VerifiableWait, producerVars, ToolInv
  <2> QED
    BY <1>1, <2>1, TasksSame DEF Said
<1>5. ASSUME NEW i \in Record, WriteEvent(i) PROVE ProducerTyped' /\ VerifiableInv'
  <2>1. PICK outcome \in {"written", "broken"} : task' = [task EXCEPT ![i] = outcome]
    BY <1>5 DEF WriteEvent
  <2>2. /\ task[i] = "open" /\ IsDecided(i) /\ pc # "done"
        /\ UNCHANGED <<next, fate, tally, events, pc>>
    BY <1>5 DEF WriteEvent, OpenTasks, Decided, IsDecided, Running, toolVars, ToolInv
  <2>3. Closed' = Closed /\ task' \in [Record -> Tasks]
    BY <2>1, <2>2 DEF Closed, ProducerTyped, Tasks
  <2>4. ProducerTyped' /\ TasksFollow'
    BY <2>1, <2>2, <2>3 DEF ProducerTyped, TasksFollow, HandedInOrder, IsDecided
  <2>5. \A f : Count(Closed, f)' = Count(Closed, f)
    BY <2>2, <2>3 DEF Count
  <2> QED
    BY <1>1, <2>2, <2>3, <2>4, <2>5 DEF Said
<1>6. /\ Finished \in SUBSET Record /\ Finished \cap Closed = {}
      /\ \A i \in Finished : IsDecided(i)
      /\ Count(Finished, "acked") \in Nat
  <2>1. Finished \in SUBSET Record /\ Finished \cap Closed = {}
    BY DEF Finished, Closed
  <2>2. \A i \in Finished : IsDecided(i)
    BY DEF Finished, TasksFollow
  <2> QED
    BY <2>1, <2>2, CountType
\* What finished is joined: closed and counted.
<1>7. ASSUME Join(Finished), UNCHANGED <<next, fate, events>>, pc # "done"
      PROVE  ProducerTyped' /\ VerifiableInv'
  <2>1. /\ tally' = [tally EXCEPT !.acked = @ + Count(Finished, "acked")]
        /\ task' = [i \in Record |-> IF i \in Finished THEN "closed" ELSE task[i]]
    BY <1>7 DEF Join
  <2>2. /\ tally' \in Tally /\ tally'.acked = tally.acked + Count(Finished, "acked")
        /\ tally'.sent = tally.sent /\ tally'.failed = tally.failed
        /\ tally'.steady = tally.steady /\ tally'.txn = tally.txn
    BY <1>6, <2>1, TallyAdds DEF ProducerTyped
  <2>3. /\ ProducerTyped' /\ TasksFollow'
        /\ \A f \in {"acked", "failed"} : Count(Closed, f)' = Count(Closed, f) + Count(Finished, f)
    BY <1>6, <1>7, <2>1, <2>2, TasksClosed
  <2>4. ~ Said("shutdown_complete")'
    BY <1>7 DEF Said, VerifiableInv
  <2> QED
    BY <1>7, <2>2, <2>3, <2>4 DEF VerifiableInv
<1>8. CASE VerifiableTurn
  <2>1. /\ pc = "loop" /\ events' = events
        /\ \/ UNCHANGED <<next, fate, task, tally>>
           \/ Join(Finished) /\ UNCHANGED <<next, fate>>
           \/ /\ next <= Target /\ Hand(next) /\ next' = next + 1
              /\ task' = [i \in Record |-> IF i \in Finished THEN "closed"
                                           ELSE IF i = next THEN "open" ELSE task[i]]
              /\ tally' = [tally EXCEPT !.acked = @ + Count(Finished, "acked"), !.sent = @ + 1]
    <3>1. pc = "loop" /\ events' = events
      BY <1>8 DEF VerifiableTurn
    <3>2. CASE next > Target \/ BrokenAmong(Finished)
      BY <1>8, <3>2 DEF VerifiableTurn
    <3>3. CASE ~ (next > Target) /\ ~ BrokenAmong(Finished) /\ signal = "pending"
      BY <1>8, <3>3 DEF VerifiableTurn
    <3>4. CASE ~ (next > Target) /\ ~ BrokenAmong(Finished) /\ signal # "pending"
      BY <1>8, <3>4 DEF VerifiableTurn, ProducerTyped
    <3> QED
      BY <3>1, <3>2, <3>3, <3>4
  <2>2. CASE UNCHANGED <<next, fate, task, tally>>
    BY <1>1, <2>1, <2>2, TasksSame DEF Said
  <2>3. CASE /\ next <= Target /\ Hand(next) /\ next' = next + 1
             /\ task' = [i \in Record |-> IF i \in Finished THEN "closed"
                                           ELSE IF i = next THEN "open" ELSE task[i]]
             /\ tally' = [tally EXCEPT !.acked = @ + Count(Finished, "acked"), !.sent = @ + 1]
    <3>1. /\ tally' \in Tally /\ tally'.acked = tally.acked + Count(Finished, "acked")
          /\ tally'.sent = tally.sent + 1 /\ tally'.failed = tally.failed
          /\ tally'.steady = tally.steady /\ tally'.txn = tally.txn
      BY <1>6, <2>3, TallySends, ZenonT(40) DEF ProducerTyped
    <3>2. /\ ProducerTyped' /\ TasksFollow'
          /\ \A f \in {"acked", "failed"} : Count(Closed, f)' = Count(Closed, f) + Count(Finished, f)
      BY <1>6, <2>3, <3>1, TaskOpened
    <3>3. ~ Said("shutdown_complete")'
      BY <2>1 DEF Said, VerifiableInv
    <3> QED
      BY <2>3, <3>1, <3>2, <3>3 DEF VerifiableInv, ProducerTyped
  <2> QED
    BY <1>7, <2>1, <2>2, <2>3
<1>9. CASE VerifiableDrain
  <2>1. pc = "drain" /\ UNCHANGED <<next, fate>>
    BY <1>9 DEF VerifiableDrain
  <2>2. CASE Join(Finished) /\ events' = events
    BY <1>7, <2>1, <2>2
  <2>3. CASE UNCHANGED <<task, tally>> /\ events' = events
    BY <1>1, <2>1, <2>3, TasksSame DEF Said
  <2>4. CASE UNCHANGED <<task, tally>> /\ OpenTasks \cup Finished = {} /\ pc' = "done"
    <3>1. \A i \in Record : i < next => i \in Closed
      BY <2>4 DEF OpenTasks, Finished, Closed, TasksFollow, ProducerTyped, Tasks
    <3>2. ProducerTyped' /\ TasksFollow' /\ \A f : Count(Closed, f)' = Count(Closed, f)
      BY <2>1, <2>4, TasksSame
    <3>3. (\A i \in Record : i < next => i \in Closed)'
      BY <2>1, <2>4, <3>1 DEF Closed
    <3> QED
      BY <2>1, <2>4, <3>2, <3>3 DEF VerifiableInv
  <2> QED
    BY <1>9, <2>2, <2>3, <2>4 DEF VerifiableDrain, End
<1> QED
  BY <1>2, <1>3, <1>4, <1>5, <1>8, <1>9, VerifiableSteps DEF VerifiableProducer

-----------------------------------------------------------------------------
(* producer-perf-test *)

LEMMA PerfSteps ==
  ASSUME cmd.tool = "producer-perf", ProducersNext
  PROVE  \/ ProducerPerf \/ PerfWake
         \/ \E i \in Record : Deliver(i)
         \/ Interrupt(TRUE) /\ UNCHANGED producerVars
  BY DEF ProducersNext, ProducersEnvironment, ProducersStep, ForeignRecord, WriteEvent,
         Produce, ProduceStart, ProduceLine, ProduceAwaitOne, ProduceAwaitAll,
         VerifiableProducer, VerifiableStart, VerifiableTurn, VerifiableWait, VerifiableDrain,
         Latency, LatencyStart, LatencySend, LatencyRead, LatencyEnd

\* The totals are those of the records that are closed.
PerfTotals ==
  /\ tally.acked = Count(Closed, "acked")
  /\ tally.failed = Count(Closed, "failed")
  /\ tally.steady = IF cmd.warmup > 0 THEN Count(Steady, "acked") ELSE 0
PerfTasks ==
  /\ TasksFollow
  /\ \A i \in Record : task[i] \notin {"written", "broken"}
  /\ tally.sent = 0 /\ tally.txn <= next - 1

LEMMA Served ==
  ASSUME ProducerTyped, PerfTasks, PerfTotals, cmd.warmup \in Nat, cmd' = cmd,
         NEW served \in SUBSET Ready, NEW txn \in Nat, txn <= next - 1, Serve(served, txn),
         UNCHANGED <<next, fate>>
  PROVE  ProducerTyped' /\ PerfTasks' /\ PerfTotals' /\ Closed' = Closed \cup served
<1>1. /\ served \in SUBSET Record /\ served \cap Closed = {} /\ \A i \in served : IsDecided(i)
      /\ {i \in served : i > cmd.warmup} \in SUBSET Record
  BY DEF Ready, OpenTasks, Decided, IsDecided, Closed
<1>2. /\ Count(served, "acked") \in Nat /\ Count(served, "failed") \in Nat
      /\ CountSteady(served) \in Nat
  BY <1>1, CountType, MaxRecordsAssumption DEF CountSteady
<1>3. /\ tally' \in Tally /\ tally'.acked = tally.acked + Count(served, "acked")
      /\ tally'.failed = tally.failed + Count(served, "failed")
      /\ tally'.steady = tally.steady + CountSteady(served)
      /\ tally'.sent = tally.sent /\ tally'.txn = txn
  <2> DEFINE a == Count(served, "acked")
             b == Count(served, "failed")
             c == CountSteady(served)
             v == [tally EXCEPT !.acked = @ + a]
             w == [v EXCEPT !.failed = @ + b]
             x == [w EXCEPT !.steady = @ + c]
  <2>1. tally' = [x EXCEPT !.txn = txn]
    BY DEF Serve
  <2>2. tally \in Tally /\ a \in Nat /\ b \in Nat /\ c \in Nat
    BY <1>2 DEF ProducerTyped
  <2> HIDE DEF a, b, c
  <2>3. /\ v \in Tally /\ v.acked = tally.acked + a /\ v.sent = tally.sent
        /\ v.failed = tally.failed /\ v.steady = tally.steady
    BY <2>2, TallyAdds
  <2> HIDE DEF v
  <2>4. /\ w \in Tally /\ w.acked = tally.acked + a /\ w.sent = tally.sent
        /\ w.failed = tally.failed + b /\ w.steady = tally.steady
    BY <2>2, <2>3 DEF Tally
  <2> HIDE DEF w
  <2>5. /\ x \in Tally /\ x.acked = tally.acked + a /\ x.sent = tally.sent
        /\ x.failed = tally.failed + b /\ x.steady = tally.steady + c
    BY <2>2, <2>4 DEF Tally
  <2> HIDE DEF x
  <2> QED
    BY <2>1, <2>5 DEF Tally, a, b, c
<1>4. task' = [i \in Record |-> IF i \in served THEN "closed" ELSE task[i]]
  BY DEF Serve
<1>5. /\ ProducerTyped' /\ TasksFollow' /\ Closed' = Closed \cup served
      /\ \A f \in {"acked", "failed"} : Count(Closed, f)' = Count(Closed, f) + Count(served, f)
  BY <1>1, <1>3, <1>4, TasksClosed DEF PerfTasks
<1>6. PerfTasks'
  BY <1>3, <1>4, <1>5 DEF PerfTasks
<1>7. tally'.steady = IF cmd.warmup > 0 THEN Count(Steady, "acked")' ELSE 0
  <2> DEFINE late == {i \in served : i > cmd.warmup}
  <2>1. Steady' = Steady \cup late /\ Steady \in SUBSET Record /\ Steady \cap late = {}
    BY <1>1, <1>5 DEF Steady, Closed
  <2>2. Cardinality({i \in Steady \cup late : fate'[i] = "acked"}) = Count(Steady, "acked") + Count(late, "acked")
    BY <1>1, <2>1, CountAdded
  <2>3. Count(Steady, "acked")' = Count(Steady, "acked") + Count(late, "acked")
    BY <2>1, <2>2 DEF Count
  <2>4. CountSteady(served) = IF cmd.warmup > 0 THEN Count(late, "acked") ELSE 0
    BY DEF CountSteady
  <2> HIDE DEF late
  <2> QED
    BY <1>3, <2>3, <2>4 DEF PerfTotals
<1> QED
  BY <1>3, <1>5, <1>6, <1>7 DEF PerfTotals

LEMMA PerfKeeps ==
  ASSUME Allowed, ToolInv, SameCommand, cmd.tool = "producer-perf", ProducerTyped, PerfInv,
         ProducersNext
  PROVE  ProducerTyped' /\ PerfInv'
<1>0. /\ Target \in 0..MaxRecords /\ Target' = Target /\ cmd' = cmd /\ MaxRecords \in Nat
      /\ PerfTasks /\ PerfTotals /\ cmd.warmup \in Nat
  BY TargetBound, TargetKept, MaxRecordsAssumption, ProducersAssumption
     DEF IsProducer, ProducerTools, SameCommand, PerfInv, PerfTasks, PerfTotals, Allowed
\* Steps that leave the counters and the tasks as they were
<1>1. ASSUME UNCHANGED <<next, fate, task, tally>>
      PROVE  ProducerTyped' /\ PerfTasks' /\ PerfTotals' /\ Closed' = Closed
  BY <1>0, <1>1 DEF ProducerTyped, PerfTasks, PerfTotals, TasksFollow, HandedInOrder, IsDecided,
     Closed, Steady, Count
<1>2. ASSUME NEW i \in Record, Deliver(i) PROVE ProducerTyped' /\ PerfInv'
  <2>1. /\ ProducerTyped' /\ TasksFollow' /\ Closed' = Closed
        /\ \A j \in Record : j \in Closed => fate'[j] = fate[j]
    BY <1>0, <1>2, TasksDelivered DEF PerfTasks
  <2>2. Steady' = Steady
    BY <1>0, <2>1 DEF Steady
  <2>3. \A f : Count(Closed, f)' = Count(Closed, f) /\ Count(Steady, f)' = Count(Steady, f)
    BY <2>1, <2>2, CountSame DEF Count, Closed, Steady
  <2>4. UNCHANGED <<cmd, next, pc, exit, task, tally>> /\ exit = "none"
    BY <1>2, DeliverDecides
  <2> QED
    BY <1>0, <2>1, <2>3, <2>4 DEF PerfInv
<1>3. CASE Interrupt(TRUE) /\ UNCHANGED producerVars
  <2>1. /\ UNCHANGED <<next, fate, task, tally>> /\ exit = "none"
        /\ \/ pc' = "done" /\ exit' = "killed"
           \/ UNCHANGED <<pc, exit>>
    BY <1>3 DEF Interrupt, End, producerVars, Running
  <2> QED
    BY <1>0, <1>1, <2>1 DEF PerfInv, PerfTasks, PerfTotals
<1>4. CASE PerfStart \/ PerfWake \/ PerfGoOn
  <2>1. /\ UNCHANGED <<next, fate, task, tally>> /\ exit' # "ok"
        /\ (pc' \in {"done", "loop"} \/ (pc' \in {"last", "flush"} /\ next > Target))
    <3>1. CASE PerfStart
      BY <3>1 DEF PerfStart, Goto, End, producerVars, ToolInv
    <3>3. CASE PerfWake
      BY <3>3 DEF PerfWake, Goto, producerVars, ToolInv
    <3>2. CASE PerfGoOn
      BY <3>2 DEF PerfGoOn, Goto, producerVars, ToolInv
    <3> QED
      BY <1>4, <3>1, <3>2, <3>3
  <2> QED
    BY <1>0, <1>1, <2>1 DEF PerfInv, PerfTasks, PerfTotals
<1>5. CASE PerfSend
  <2>1. pc = "loop" /\ next <= Target /\ exit = "none"
    BY <1>5 DEF PerfSend, ToolInv
  <2>2. CASE pc' = "sent"
    <3>1. /\ Hand(next) /\ task' = [task EXCEPT ![next] = "open"]
          /\ tally' = [tally EXCEPT !.txn = @ + 1] /\ next' = next + 1 /\ exit' = exit
      BY <1>5, <2>2 DEF PerfSend, Enqueue, Goto, End
    <3>2. task' = [i \in Record |-> IF i \in {} THEN "closed"
                                    ELSE IF i = next THEN "open" ELSE task[i]]
      BY <3>1 DEF ProducerTyped
    <3>3. /\ tally' \in Tally /\ tally'.txn = tally.txn + 1 /\ tally'.sent = tally.sent
          /\ tally'.acked = tally.acked /\ tally'.failed = tally.failed /\ tally'.steady = tally.steady
      BY <3>1 DEF ProducerTyped, Tally
    <3>4. /\ ProducerTyped' /\ TasksFollow' /\ Closed' = Closed \cup {}
          /\ \A i \in Closed' : fate'[i] = fate[i]
      <4>1. {} \in SUBSET Record /\ {} \cap Closed = {} /\ \A i \in {} : IsDecided(i)
        OBVIOUS
      <4>2. TasksFollow
        BY <1>0 DEF PerfTasks
      <4> QED
        BY <3>1, <3>2, <3>3, <4>1, <4>2, TaskOpened
    <3>5. Closed' = Closed /\ Steady' = Steady
      BY <1>0, <3>4 DEF Steady
    <3>6. \A f : Count(Closed, f)' = Count(Closed, f) /\ Count(Steady, f)' = Count(Steady, f)
      BY <3>4, <3>5, CountSame DEF Count, Closed, Steady
    <3>7. \A i \in Record : task'[i] \notin {"written", "broken"}
      BY <1>0, <3>2 DEF PerfTasks
    <3> QED
      <4>1. PerfTasks'
        BY <1>0, <3>1, <3>3, <3>4, <3>7 DEF PerfTasks, ProducerTyped, Tally
      <4>2. PerfTotals'
        BY <1>0, <3>3, <3>6 DEF PerfTotals
      <4> QED
        BY <1>0, <2>1, <2>2, <3>1, <3>4, <4>1, <4>2 DEF PerfInv, PerfTasks, PerfTotals, ProducerTyped
  <2>3. CASE pc' = "loop"
    <3>1. PICK served \in SUBSET Ready : Serve(served, tally.txn)
      BY <1>5, <2>3 DEF PerfSend, Goto, End
    <3>2. UNCHANGED <<next, fate, exit>>
      BY <1>5, <2>3 DEF PerfSend, Goto, End
    <3>3. ProducerTyped' /\ PerfTasks' /\ PerfTotals'
      BY <1>0, <3>1, <3>2, Served DEF PerfTasks, ProducerTyped, Tally
    <3> QED
      BY <1>0, <2>1, <2>3, <3>2, <3>3 DEF PerfInv, PerfTasks, PerfTotals
  <2>4. CASE pc' \notin {"sent", "loop"}
    <3>1. UNCHANGED <<next, fate, task, tally>> /\ pc' = "done" /\ exit' = "error"
      BY <1>5, <2>4 DEF PerfSend, Goto, End
    <3> QED
      BY <1>0, <1>1, <3>1 DEF PerfInv, PerfTasks, PerfTotals
  <2> QED
    BY <2>2, <2>3, <2>4
<1>6. CASE PerfSent
  <2>1. PICK served \in SUBSET Ready : Serve(served, tally.txn)
    BY <1>6 DEF PerfSent
  <2>2. UNCHANGED <<next, fate, exit>> /\ exit = "none" /\ pc' \in {"parked", "loop", "commit"}
    BY <1>6 DEF PerfSent, Throttle, Goto, ToolInv
  <2>3. ProducerTyped' /\ PerfTasks' /\ PerfTotals'
    BY <1>0, <2>1, <2>2, Served DEF PerfTasks, ProducerTyped, Tally
  <2> QED
    BY <1>0, <2>2, <2>3 DEF PerfInv, PerfTasks, PerfTotals
<1>7. CASE PerfCommit \/ PerfFlush
  <2>1. CASE pc' = "done"
    <3>1. UNCHANGED <<next, fate, task, tally>> /\ exit' = "error"
      BY <1>7, <2>1 DEF PerfCommit, PerfFlush, Throttle, Goto, End
    <3> QED
      BY <1>0, <1>1, <2>1, <3>1 DEF PerfInv, PerfTasks, PerfTotals
  <2>2. CASE pc' # "done"
    <3>1. /\ UNCHANGED <<next, fate, exit>> /\ exit = "none" /\ Queued = {} /\ Serve(Ready, 0)
          /\ \/ pc' \in {"parked", "loop"}
             \/ pc' \in {"flush", "report"} /\ pc \in {"last", "flush"}
      BY <1>7, <2>2 DEF PerfCommit, PerfFlush, Throttle, Goto, End, ToolInv
    <3>2. ProducerTyped' /\ PerfTasks' /\ PerfTotals' /\ Closed' = Closed \cup Ready
      BY <1>0, <3>1, Served DEF ProducerTyped
    <3>3. \A i \in Record : i < next => i \in Closed \cup Ready
      BY <1>0, <3>1 DEF PerfTasks, TasksFollow, HandedInOrder, ProducerTyped, Closed, Ready, OpenTasks,
         Decided, Queued, Tasks, Fates
    <3> QED
      BY <1>0, <3>1, <3>2, <3>3 DEF PerfInv, PerfTasks, PerfTotals
  <2> QED
    BY <2>1, <2>2
<1>8. CASE PerfReport
  <2>1. /\ UNCHANGED <<next, fate, task, tally>> /\ pc = "report" /\ pc' = "done"
        /\ exit' = IF tally.failed > 0 THEN "error" ELSE "ok"
    BY <1>8 DEF PerfReport, End, producerVars
  <2>2. ASSUME exit' = "ok", NEW i \in 1..Target PROVE fate[i] = "acked"
    <3>1. i \in Record /\ i < next
      BY <1>0, <2>1 DEF PerfInv, Record, ProducerTyped
    <3>2. i \in Closed /\ Closed \in SUBSET Record
      BY <2>1, <3>1 DEF PerfInv, Closed
    <3>3. IsDecided(i)
      BY <1>0, <3>1, <3>2 DEF PerfTasks, TasksFollow, Closed
    <3>4. Count(Closed, "failed") = 0
      BY <1>0, <2>1, <2>2 DEF PerfTotals, ProducerTyped, Tally
    <3> QED
      BY <3>2, <3>3, <3>4, CountOfNone DEF IsDecided
  <2> QED
    BY <1>0, <1>1, <2>1, <2>2 DEF PerfInv, PerfTasks, PerfTotals
<1> QED
  BY <1>2, <1>3, <1>4, <1>5, <1>6, <1>7, <1>8, PerfSteps DEF ProducerPerf

-----------------------------------------------------------------------------
(* All the commands that write *)

LEMMA ProducersUntouched ==
  ASSUME ProducerInv, SameCommand, UNCHANGED <<toolVars, next, fate, task, tally>>
  PROVE  ProducerInv'
<1>1. ProducerTyped'
  BY DEF ProducerInv, ProducerTyped
<1>2. Target' = Target /\ IsProducer' = IsProducer
  BY TargetKept, SameKind
<1>3. (cmd.tool = "produce" => ProduceInv)'
  BY <1>2 DEF ProducerInv, ProduceInv, OneByOne, HandedInOrder, toolVars
<1>4. (cmd.tool = "verifiable-producer" => VerifiableInv)'
  BY <1>2 DEF ProducerInv, VerifiableInv, TasksFollow, HandedInOrder, IsDecided, Closed, Count, Said, toolVars
<1>5. (cmd.tool = "producer-perf" => PerfInv)'
  BY <1>2 DEF ProducerInv, PerfInv, TasksFollow, HandedInOrder, IsDecided, Closed, Steady, Count, toolVars
<1>6. (cmd.tool = "e2e-latency" => LatencyInv)'
  BY <1>2 DEF ProducerInv, LatencyInv, OneByOne, toolVars
<1> QED
  BY <1>1, <1>2, <1>3, <1>4, <1>5, <1>6 DEF ProducerInv, toolVars

LEMMA ProducerInvKept ==
  ASSUME Allowed, ToolInv, ProducerInv, [Next]_dataPlaneVars
  PROVE  ProducerInv'
<1>1. SameCommand
  BY CommandKept
<1>2. CASE UNCHANGED dataPlaneVars
  BY <1>1, <1>2, ProducersUntouched DEF dataPlaneVars, producerVars
<1>3. CASE ConsumersNext /\ UNCHANGED producerVars
  <2>1. ~ IsProducer
    BY <1>3, ConsumersAlone, OneKindOfCommand
  <2> QED
    BY <1>1, <1>3, <2>1, SameKind
       DEF ProducerInv, ProducerTyped, producerVars, SameCommand, IsProducer, ProducerTools
<1>4. CASE SharesNext /\ UNCHANGED producerVars
  <2>1. CASE IsShare
    BY <1>1, <1>4, <2>1, SameKind, OneKindOfCommand
       DEF ProducerInv, ProducerTyped, producerVars, SameCommand, IsProducer, ProducerTools
  <2>2. CASE ~ IsShare
    <3>1. UNCHANGED toolVars
      BY <1>4, <2>2, SharesAlone DEF ToolInv, Expire
    <3> QED
      BY <1>1, <1>4, <3>1, ProducersUntouched DEF producerVars
  <2> QED
    BY <2>1, <2>2
<1>5. CASE ProducersNext /\ IsProducer
  <2>1. cmd' = cmd /\ IsProducer'
    BY <1>1, <1>5, SameKind DEF SameCommand
  <2>2. CASE cmd.tool = "produce"
    BY <1>1, <1>5, <2>1, <2>2, ProduceKeeps DEF ProducerInv
  <2>3. CASE cmd.tool = "verifiable-producer"
    BY <1>1, <1>5, <2>1, <2>3, VerifiableKeeps DEF ProducerInv
  <2>4. CASE cmd.tool = "producer-perf"
    BY <1>1, <1>5, <2>1, <2>4, PerfKeeps DEF ProducerInv
  <2>5. CASE cmd.tool = "e2e-latency"
    BY <1>1, <1>5, <2>1, <2>5, LatencyKeeps DEF ProducerInv
  <2> QED
    BY <1>5, <2>2, <2>3, <2>4, <2>5 DEF IsProducer, ProducerTools
<1>6. CASE ProducersNext /\ ~ IsProducer
  <2>1. \/ \E i \in Record : Deliver(i)
        \/ UNCHANGED <<next, fate, task, tally>>
    BY <1>6 DEF IsProducer, ProducerTools, ProducersNext, ProducersEnvironment, ForeignRecord, PerfWake,
         WriteEvent, ProducersStep, Produce, ProduceStart, ProduceLine, ProduceAwaitOne, ProduceAwaitAll,
         VerifiableProducer, VerifiableStart, VerifiableTurn, VerifiableWait, VerifiableDrain,
         ProducerPerf, PerfStart, PerfSend, PerfSent, PerfCommit, PerfGoOn, PerfFlush, PerfReport,
         Latency, LatencyStart, LatencySend, LatencyRead, LatencyEnd
  <2>2. ProducerTyped' /\ UNCHANGED <<next, tally>>
    BY <2>1, DeliverDecides DEF ProducerInv, ProducerTyped
  <2> QED
    BY <1>1, <1>6, <2>2, SameKind DEF ProducerInv, IsProducer, ProducerTools
<1> QED
  BY <1>2, <1>3, <1>4, <1>5, <1>6 DEF Next

LEMMA ProducerInvStarts ==
  ASSUME Init
  PROVE  ProducerInv
<1>1. /\ next = 1 /\ tally = NoTally /\ exit = "none" /\ events = <<>> /\ pc = "start"
      /\ fate \in [Record -> Fates] /\ task \in [Record -> Tasks]
      /\ \A i \in Record : fate[i] = "unsent" /\ task[i] = "none"
  BY DEF Init, ToolInit, ProducersIdle, Fates, Tasks
<1>2. ProducerTyped
  BY <1>1 DEF ProducerTyped, Tally, NoTally
<1>3. Allowed /\ MaxRecords \in Nat
  BY MaxRecordsAssumption DEF Init, ToolInit, Allowed
<1>4. Closed = {} /\ Steady = {}
  BY <1>1 DEF Closed, Steady
<1>5. \A f : Count({}, f) = 0
  BY FS_EmptySet DEF Count
<1>6. IsProducer => Target \in 0..MaxRecords
  BY <1>3, TargetBound
<1>7. \A i \in Record : ~ (i < 1)
  BY DEF Record
<1>8. OneByOne /\ HandedInOrder /\ TasksFollow
  BY <1>1, <1>7 DEF OneByOne, HandedInOrder, TasksFollow
<1> QED
  BY <1>1, <1>2, <1>3, <1>4, <1>5, <1>6, <1>7, <1>8
     DEF ProducerInv, ProduceInv, LatencyInv, VerifiableInv, PerfInv, NoTally, IsProducer, ProducerTools, Said

LEMMA ProducerInvTyped ==
  ASSUME Allowed, ProducerInv
  PROVE  ProducersTypeOK
<1>1. MaxRecords \in Nat /\ ProducerTyped
  BY MaxRecordsAssumption DEF ProducerInv
<1>2. next \in 1..MaxRecords + 1
  BY <1>1, TargetBound
     DEF ProducerInv, ProducerTyped, ProduceInv, VerifiableInv, PerfInv, LatencyInv, IsProducer, ProducerTools
<1>3. Closed \in SUBSET Record /\ Steady \in SUBSET Record
  BY DEF Closed, Steady
<1>4. \A f : Count(Closed, f) \in 0..MaxRecords /\ Count(Steady, f) \in 0..MaxRecords
  BY <1>3, CountType
<1>5. /\ tally.sent \in 0..MaxRecords /\ tally.acked \in 0..MaxRecords /\ tally.failed \in 0..MaxRecords
      /\ tally.steady \in 0..MaxRecords /\ tally.txn \in 0..MaxRecords
  <2>1. CASE tally = NoTally
    BY <1>1, <2>1 DEF NoTally
  <2>2. CASE cmd.tool = "verifiable-producer"
    BY <1>1, <1>2, <1>4, <2>2 DEF ProducerInv, VerifiableInv
  <2>3. CASE cmd.tool = "producer-perf"
    BY <1>1, <1>2, <1>4, <2>3 DEF ProducerInv, PerfInv, ProducerTyped, Tally
  <2> QED
    BY <2>1, <2>2, <2>3 DEF ProducerInv, ProduceInv, LatencyInv, IsProducer, ProducerTools
<1>6. DOMAIN NoTally = {"sent", "acked", "failed", "steady", "txn"}
  BY DEF NoTally
<1> QED
  BY <1>1, <1>2, <1>5, <1>6 DEF ProducersTypeOK, ProducerTyped

LEMMA ProducerInvNoGap == ProducerInv => SyncLeavesNoGap
<1> SUFFICES ASSUME ProducerInv, cmd.tool = "e2e-latency" \/ (cmd.tool = "produce" /\ cmd.sync),
                    NEW i \in Record, NEW j \in Record, i < j, fate[j] # "unsent"
             PROVE  fate[i] = "acked"
  BY DEF SyncLeavesNoGap
<1>1. OneByOne /\ next \in Nat
  BY DEF ProducerInv, ProduceInv, LatencyInv, ProducerTyped
<1> QED
  BY <1>1 DEF OneByOne, Record

LEMMA ProducerInvDelivered == ProducerInv => OkMeansDelivered
  BY DEF ProducerInv, ProduceInv, PerfInv, LatencyInv, OkMeansDelivered, ProducerTools

LEMMA ProducerInvCounted ==
  ASSUME Allowed, ProducerInv
  PROVE  EveryDeliveryCounted
<1>1. MaxRecords \in Nat /\ ProducerTyped /\ next \in Nat
  BY MaxRecordsAssumption DEF ProducerInv, ProducerTyped
<1>2. ASSUME cmd.tool = "verifiable-producer", Said("shutdown_complete"),
             NEW sent, sent = {i \in Record : fate[i] # "unsent"}
      PROVE  /\ \A i \in sent : task[i] = "closed" /\ fate[i] \in {"acked", "failed"}
             /\ tally.sent = Cardinality(sent)
             /\ tally.acked = Count(sent, "acked")
  <2>1. VerifiableInv /\ next <= MaxRecords + 1
    BY <1>1, <1>2, TargetBound DEF ProducerInv, VerifiableInv, IsProducer, ProducerTools
  <2>2. sent = {i \in Record : i < next} /\ Closed = sent
    BY <1>2, <2>1 DEF VerifiableInv, TasksFollow, HandedInOrder, Closed
  <2>3. {i \in Record : i < next} = 1..(next - 1)
    BY <1>1, <2>1 DEF Record
  <2>4. Cardinality(1..(next - 1)) = next - 1
    BY <1>1, FS_Interval DEF ProducerInv, ProducerTyped
  <2>5. \A i \in sent : task[i] = "closed" /\ fate[i] \in {"acked", "failed"}
    BY <2>1, <2>2 DEF VerifiableInv, TasksFollow, IsDecided, Closed
  <2> QED
    BY <2>1, <2>2, <2>3, <2>4, <2>5 DEF VerifiableInv
<1>3. ASSUME cmd.tool = "producer-perf", pc = "report"
      PROVE  /\ tally.acked = Count(1..Target, "acked")
             /\ tally.failed = Count(1..Target, "failed")
             /\ tally.acked + tally.failed = Target
             /\ cmd.warmup > 0 => tally.steady = Count(cmd.warmup + 1 .. Target, "acked")
  <2>1. PerfInv /\ Target \in 0..MaxRecords /\ cmd.warmup \in Nat
    BY <1>3, TargetBound, ProducersAssumption DEF ProducerInv, IsProducer, ProducerTools, Allowed
  <2>2. next = Target + 1
    BY <1>1, <1>3, <2>1 DEF PerfInv
  <2>3. \A i \in Record : i \in Closed <=> i < next
    BY <1>3, <2>1 DEF PerfInv, TasksFollow, Closed
  <2>4. Closed = 1..Target /\ Closed \in SUBSET Record
    BY <1>1, <2>1, <2>2, <2>3 DEF Record, Closed
  <2>5. Steady = cmd.warmup + 1 .. Target
    BY <1>1, <2>1, <2>4 DEF Steady
  <2> DEFINE acked == {i \in 1..Target : fate[i] = "acked"}
             failing == {i \in 1..Target : fate[i] = "failed"}
  <2>6. acked \cup failing = 1..Target /\ acked \cap failing = {}
    BY <2>1, <2>4 DEF PerfInv, TasksFollow, IsDecided, Closed
  <2>7. acked \in SUBSET Record /\ failing \in SUBSET Record
    BY <2>4
  <2>8. Cardinality(acked \cup failing) = Cardinality(acked) + Cardinality(failing)
    <3> HIDE DEF acked, failing
    <3> QED
      BY <2>6, <2>7, CardinalityOfParts
  <2>9. Cardinality(1..Target) = Target
    BY <2>1, FS_Interval
  <2>10. Count(1..Target, "acked") + Count(1..Target, "failed") = Target
    BY <2>6, <2>8, <2>9 DEF Count
  <2> QED
    BY <2>1, <2>4, <2>5, <2>10 DEF PerfInv
<1> QED
  BY <1>2, <1>3 DEF EveryDeliveryCounted

-----------------------------------------------------------------------------
(* Types of the commands that read a partition *)

\* The group's offset is not past what was handed over, nor that past the partition.
ConsumerTyped ==
  /\ ConsumersTypeOK
  /\ position <= end /\ committed <= position
  /\ IsConsumer /\ pc = "got" => position >= 1

LEMMA ConsumerTypedKept ==
  ASSUME ConsumerTyped, [Next]_dataPlaneVars
  PROVE  ConsumerTyped'
<1>0. SameCommand /\ MaxRecords \in Nat
  BY CommandKept, MaxRecordsAssumption
<1> USE <1>0, SameKind DEF ConsumerTyped, ConsumersTypeOK
<1>1. CASE UNCHANGED consumerVars /\ (IsConsumer => pc' = pc \/ pc' # "got")
  BY <1>1 DEF consumerVars
<1>2. CASE AppendRecord
  BY <1>2 DEF AppendRecord, toolVars
<1>3. CASE Revoke \/ AutoCommit
  <2>1. /\ committed' \in {committed, position} /\ assigned' \in BOOLEAN
        /\ UNCHANGED <<end, position, shown, received, pc>>
    BY <1>3 DEF Revoke, AutoCommit, toolVars
  <2> QED
    BY <2>1
<1>4. CASE Assign
  BY <1>4 DEF Assign, toolVars
<1>5. CASE Interrupt(pc = "wait") /\ UNCHANGED consumerVars
  BY <1>1, <1>5 DEF Interrupt, End
<1>6. CASE ConsumerStart \/ ConsumerPerfPoll \/ ConsumerHears \/ ConsumerClose \/ ConsumerIdle
           \/ ConsumerError
  BY <1>1, <1>6 DEF ConsumerStart, ConsumerPerfPoll, ConsumerHears, ConsumerClose, ConsumerIdle,
       ConsumerError, End, Goto
<1>7. CASE ConsumerPoll \/ ConsumerTake
  <2>1. UNCHANGED <<end, assigned, committed, shown, received>>
    BY <1>7 DEF ConsumerPoll, ConsumerTake
  <2>2. \/ position' = position /\ pc' # "got"
        \/ position < end /\ position' = position + 1
    BY <1>7 DEF ConsumerPoll, ConsumerTake, End, Goto, Available, TakeRecord
  <2> QED
    BY <2>1, <2>2
<1>8. CASE ConsumerShow
  <2>1. IsConsumer /\ pc = "got" /\ UNCHANGED <<end, assigned, position, committed>> /\ pc' # "got"
    BY <1>8 DEF ConsumerShow, End, Goto
  <2>2. shown' = shown \cup {position} \/ shown' = shown
    BY <1>8 DEF ConsumerShow
  <2>3. received' \in {received, received + 1}
    BY <1>8 DEF ConsumerShow, Counted
  <2>4. position \in Nat /\ end \in Nat /\ 1 <= position /\ position <= end
    BY <2>1
  <2>6. position \in 1..end
    BY <2>4
  <2>7. shown' \subseteq 1..end'
    BY <2>1, <2>2, <2>6
  <2>5. received' \in Nat
    BY <2>3
  <2> QED
    BY <2>1, <2>5, <2>7
<1>9. CASE CommitRecord
  BY <1>9 DEF CommitRecord, Goto, NextToCommit
<1>10. CASE ConsumersNext
  BY <1>2, <1>3, <1>4, <1>5, <1>6, <1>7, <1>8, <1>9, <1>10
     DEF ConsumersNext, ConsumersEnvironment, ConsumersStep
<1>11. CASE (ProducersNext \/ SharesNext) /\ UNCHANGED consumerVars
  <2>1. IsConsumer => pc' = pc
    BY <1>11, OthersLeaveConsumers
  <2> QED
    BY <1>1, <1>11, <2>1
<1>12. CASE UNCHANGED dataPlaneVars
  BY <1>1, <1>12 DEF dataPlaneVars, toolVars
<1> QED
  BY <1>10, <1>11, <1>12 DEF Next

LEMMA ConsumerTypedStarts == Init => ConsumerTyped
<1> SUFFICES ASSUME Init
             PROVE  ConsumerTyped
  OBVIOUS
<1>1. end = 0 /\ position = 0 /\ committed = 0 /\ shown = {} /\ received = 0 /\ assigned = FALSE
  BY DEF Init, ConsumersIdle
<1>2. pc # "got"
  BY DEF Init, ToolInit
<1>3. ConsumersTypeOK
  <2>1. MaxRecords \in Nat
    BY MaxRecordsAssumption
  <2>2. 0 \in 0..MaxRecords /\ 0 \in 0..0
    BY <2>1
  <2>3. shown \subseteq 1..end
    BY <1>1
  <2> QED
    BY <1>1, <2>2, <2>3 DEF ConsumersTypeOK
<1> QED
  BY <1>1, <1>2, <1>3 DEF ConsumerTyped

-----------------------------------------------------------------------------
(* Share consumers: leases *)

\* Nothing happens to the share partition of a command that does not read it.
NobodyShares == ~ IsShare => SharesIdle

\* A record that may be delivered has a delivery left, and a lease has a holder.
Good ==
  {e \in Entry : /\ e.deliveries <= MaxDeliveries
                 /\ e.state = "available" => e.deliveries < MaxDeliveries
                 /\ e.state \in {"leased", "renewed"} => e.owner # Nobody}
LeaseInv ==
  /\ share \in [Record -> Good]
  /\ acks \in [Workers -> [Record -> AckKinds \cup {"none"}]]
  /\ batch \subseteq Record /\ told \subseteq Record

\* The one consumer polls with nothing left to send, whichever way it comes back to that.
SentBeforePoll ==
  at[1] \in {"idle", "poll", "wait"} \/ (at[1] = "stopped" /\ ~ failed) => acks[1] = NoAcks
AloneInv ==
  Single => /\ SentBeforePoll
            /\ \A w \in Workers \ {1} : acks[w] = NoAcks /\ LeaseOf(w) = {}

\* A worker of the performance test accepts all it leased, and has sent it once it committed.
CrowdInv ==
  Perf => \A w \in Workers :
            /\ \A r \in Record : acks[w][r] \in {"none", "accept"}
            /\ \A r \in LeaseOf(w) : acks[w][r] = "accept"
            /\ at[w] \in {"idle", "committed"} => acks[w] = NoAcks
            /\ w \notin Threads => at[w] = "idle"

NothingLeft == \A w \in Workers : acks[w] = NoAcks /\ LeaseOf(w) = {}
SendInv ==
  /\ LeaseInv /\ AloneInv /\ CrowdInv
  /\ pc = "start" => at = [w \in Workers |-> "idle"]
  /\ exit = "ok" => NothingLeft


LEMMA FirstOfBatch ==
  ASSUME NEW S \in SUBSET Record, S # {}
  PROVE  First(S) \in S
<1>1. S \in SUBSET Nat
  BY DEF Record
<1>2. \E x \in S : \A y \in S : ~ (<<y, x>> \in OpToRel(<, Nat))
  BY <1>1, NatLessThanWellFounded, WFMin, Zenon
<1>3. PICK x \in S : \A y \in S : ~ (<<y, x>> \in OpToRel(<, Nat))
  BY <1>2
<1>4. \A y \in S : ~ (y < x)
  BY <1>1, <1>3 DEF OpToRel
<1>5. \A y \in S : x <= y
  BY <1>1, <1>4
<1> QED
  BY <1>5 DEF First

LEMMA MaxDeliveriesType == MaxDeliveries \in Nat /\ MaxDeliveries > 0 /\ MaxPoll \in Nat /\ MaxPoll > 0
  BY ShareAssumption

LEMMA WorkersArePositive == Workers \subseteq Nat \ {0}
  BY ShareAssumption

\* A record that comes back, or is acknowledged, is not leased.
LEMMA ReturnedIsGood ==
  ASSUME NEW e \in Good
  PROVE  Returned(e) \in Good /\ Returned(e).state \in {"available", "archived"}
  BY MaxDeliveriesType DEF Returned, Good, Entry, ShareStates

LEMMA AcknowledgedIsGood ==
  ASSUME NEW e \in Good, e.state = "leased", NEW kind
  PROVE  Acknowledged(e, kind) \in Good /\ Acknowledged(e, kind).state # "leased"
<1>1. CASE kind \in {"accept", "reject", "renew"}
  BY <1>1 DEF Acknowledged, Good, Entry, ShareStates
<1>2. CASE kind \notin {"accept", "reject", "renew"}
  <2>1. Acknowledged(e, kind) = Returned(e)
    BY <1>2 DEF Acknowledged
  <2> QED
    BY <2>1, ReturnedIsGood
<1> QED
  BY <1>1, <1>2

\* A partition in which every entry is good and every lease was there before.
Lessens(entries, before) ==
  /\ entries \in [Record -> Good]
  /\ \A r \in Record : entries[r].state = "leased" => entries[r] = before[r]

LEMMA SentLessens ==
  ASSUME LeaseInv, NEW w \in Workers
  PROVE  /\ Lessens(Sent(w), share)
         /\ \A r \in Record : Sent(w)[r].state = "leased" /\ acks[w][r] # "none"
                              => Sent(w)[r].owner # w
<1>1. ASSUME NEW r \in Record
      PROVE  /\ Sent(w)[r] \in Good
             /\ Sent(w)[r].state = "leased" => Sent(w)[r] = share[r]
             /\ Sent(w)[r].state = "leased" /\ acks[w][r] # "none" => Sent(w)[r].owner # w
  <2>1. share[r] \in Good
    BY DEF LeaseInv
  <2>2. CASE acks[w][r] # "none" /\ r \in LeaseOf(w)
    <3>1. Sent(w)[r] = Acknowledged(share[r], acks[w][r]) /\ share[r].state = "leased"
      BY <2>2 DEF Sent, LeaseOf
    <3> QED
      BY <2>1, <3>1, AcknowledgedIsGood
  <2>3. CASE ~ (acks[w][r] # "none" /\ r \in LeaseOf(w))
    <3>1. Sent(w)[r] = share[r]
      BY <2>3 DEF Sent
    <3> QED
      BY <2>1, <2>3, <3>1 DEF LeaseOf
  <2> QED
    BY <2>2, <2>3
<1> QED
  BY <1>1, SentIsFunction DEF Lessens

LEMMA GivenBackLessens ==
  ASSUME NEW entries, NEW before, Lessens(entries, before), NEW w \in Workers
  PROVE  /\ Lessens(GivenBack(entries, w), before)
         /\ \A r \in Record : GivenBack(entries, w)[r].state = "leased"
                              => GivenBack(entries, w)[r].owner # w
<1>1. GivenBack(entries, w) = [r \in Record |-> GivenBack(entries, w)[r]]
  BY DEF GivenBack
<1>2. ASSUME NEW r \in Record
      PROVE  /\ GivenBack(entries, w)[r] \in Good
             /\ GivenBack(entries, w)[r].state = "leased" =>
                  GivenBack(entries, w)[r] = before[r] /\ GivenBack(entries, w)[r].owner # w
  <2>1. entries[r] \in Good /\ (entries[r].state = "leased" => entries[r] = before[r])
    BY DEF Lessens
  <2>2. CASE entries[r].owner = w /\ entries[r].state \in {"leased", "renewed"}
    <3>1. GivenBack(entries, w)[r] = Returned(entries[r])
      BY <2>2 DEF GivenBack
    <3> QED
      BY <2>1, <3>1, ReturnedIsGood
  <2>3. CASE ~ (entries[r].owner = w /\ entries[r].state \in {"leased", "renewed"})
    <3>1. GivenBack(entries, w)[r] = entries[r]
      BY <2>3 DEF GivenBack
    <3> QED
      BY <2>1, <2>3, <3>1
  <2> QED
    BY <2>2, <2>3
<1> QED
  BY <1>1, <1>2 DEF Lessens

LEMMA LessensSame ==
  ASSUME LeaseInv
  PROVE  Lessens(share, share)
  BY DEF LeaseInv, Lessens

LEMMA LeasesLessen ==
  ASSUME Lessens(share', share)
  PROVE  \A w : LeaseOf(w)' \subseteq LeaseOf(w)
  BY DEF Lessens, LeaseOf
-----------------------------------------------------------------------------
(* Share consumers: renewals *)

HasPattern == cmd.tool = "verifiable-share-consumer" /\ cmd.pattern # <<>>

\* The k places before p in the pattern, around its end.
Before(p, k) ==
  {q \in 1..Len(cmd.pattern) : (q < p /\ p <= q + k) \/ p + Len(cmd.pattern) <= q + k}

\* A record was renewed at each of the places before the one where it is now.
RenewInv ==
  HasPattern =>
    /\ pc = "run" => AckPatternOk
    /\ DOMAIN renewIndex = Record /\ DOMAIN renewals = Record
    /\ \A r \in Record :
         /\ renewIndex[r] \in 0..Len(cmd.pattern)
         /\ renewals[r] \in 0..Len(cmd.pattern) - 1
         /\ \A q \in Before(PatternPlace(r), renewals[r]) : cmd.pattern[q] = "renew"

LEMMA PatternIsSeq ==
  ASSUME Allowed, HasPattern
  PROVE  /\ cmd.pattern \in Seq(AckKinds) /\ Len(cmd.pattern) \in Nat /\ Len(cmd.pattern) > 0
         /\ DOMAIN cmd.pattern = 1..Len(cmd.pattern)
         /\ ~ Implicit
<1>1. cmd.pattern \in Seq(AckKinds)
  BY ShareAssumption DEF Allowed, HasPattern, AckKinds
<1>2. Len(cmd.pattern) \in Nat /\ DOMAIN cmd.pattern = 1..Len(cmd.pattern)
  BY <1>1
<1>3. Len(cmd.pattern) # 0
  BY <1>1 DEF HasPattern
<1>4. ~ Implicit
  BY DEF Implicit, HasPattern, Perf
<1> QED
  BY <1>1, <1>2, <1>3, <1>4

LEMMA Places ==
  ASSUME Allowed, HasPattern, RenewInv, NEW r \in Record
  PROVE  /\ PatternPlace(r) \in 1..Len(cmd.pattern)
         /\ NextPlace(r) = IF PatternPlace(r) = Len(cmd.pattern) THEN 1 ELSE PatternPlace(r) + 1
<1> DEFINE n == Len(cmd.pattern)
<1>1. n \in Nat /\ n > 0 /\ r \in Nat
  BY PatternIsSeq DEF Record
<1>2. r % n \in 0..n - 1
  <2> HIDE DEF n
  <2> QED
    BY <1>1
<1>3. OffsetPlace(r) \in 1..n
  <2>1. OffsetPlace(r) = (r % n) + 1
    BY DEF OffsetPlace
  <2> HIDE DEF n
  <2> QED
    BY <1>1, <1>2, <2>1
<1>4. renewIndex[r] \in 0..n
  BY DEF RenewInv
<1>5. PatternPlace(r) \in 1..n
  <2> HIDE DEF n
  <2> QED
    BY <1>1, <1>3, <1>4 DEF PatternPlace
<1> DEFINE p == PatternPlace(r)
<1>6. p % n = IF p = n THEN 0 ELSE p
  <2>1. p \in 1..n
    BY <1>5
  <2> HIDE DEF n, p
  <2> QED
    BY <1>1, <2>1
<1>7. NextPlace(r) = (p % n) + 1
  BY DEF NextPlace
<1>8. NextPlace(r) = IF p = n THEN 1 ELSE p + 1
  <2>1. p \in 1..n
    BY <1>5
  <2> HIDE DEF n, p
  <2> QED
    BY <1>1, <1>6, <1>7, <2>1
<1> QED
  BY <1>5, <1>8

LEMMA KindsOfPattern ==
  ASSUME Allowed, HasPattern, RenewInv, NEW r \in Record, NEW written
  PROVE  KindOf(r, written) = cmd.pattern[PatternPlace(r)] /\ KindOf(r, written) \in AckKinds
<1>1. PatternPlace(r) \in 1..Len(cmd.pattern)
  BY Places
<1>2. KindOf(r, written) = cmd.pattern[PatternPlace(r)]
  BY PatternIsSeq DEF KindOf, HasPattern
<1>3. cmd.pattern[PatternPlace(r)] \in AckKinds
  BY <1>1, PatternIsSeq
<1> QED
  BY <1>2, <1>3

\* One more renewal, and the place after it.
LEMMA RenewedOnce ==
  ASSUME NEW n \in Nat, NEW p \in 1..n, NEW k \in 0..n - 1, NEW next0 \in Nat,
         next0 = IF p = n THEN 1 ELSE p + 1,
         NEW q \in 1..n,
         (q < next0 /\ next0 <= q + (k + 1)) \/ next0 + n <= q + (k + 1)
  PROVE  q = p \/ (q < p /\ p <= q + k) \/ p + n <= q + k
  OBVIOUS

\* With all but one of the places before it, a place is the whole pattern.
LEMMA AllTheOthers ==
  ASSUME NEW n \in Nat, NEW p \in 1..n, NEW k \in 0..n - 1, k + 1 >= n, NEW q \in 1..n, q # p
  PROVE  (q < p /\ p <= q + k) \/ p + n <= q + k
  OBVIOUS

LEMMA RenewKept ==
  ASSUME Allowed, HasPattern, RenewInv, SameCommand, NEW r \in Record, NEW kind, pc = "run", pc' = pc,
         kind = cmd.pattern[PatternPlace(r)],
         renewIndex' = [renewIndex EXCEPT ![r] = IF kind = "renew" THEN NextPlace(r) ELSE 0],
         renewals' = [renewals EXCEPT ![r] = IF kind = "renew" THEN @ + 1 ELSE 0]
  PROVE  RenewInv'
<1> DEFINE n == Len(cmd.pattern)
           p == PatternPlace(r)
           k == renewals[r]
<1>1. n \in Nat /\ n > 0 /\ cmd' = cmd /\ HasPattern' /\ n' = n
  BY PatternIsSeq DEF SameCommand, HasPattern
<1>2. p \in 1..n /\ NextPlace(r) = IF p = n THEN 1 ELSE p + 1
  BY Places
<1>3. k \in 0..n - 1 /\ \A q \in Before(p, k) : cmd.pattern[q] = "renew"
  BY DEF RenewInv
<1>4. AckPatternOk /\ AckPatternOk'
  BY <1>1 DEF RenewInv, AckPatternOk
<1>5. PICK q \in 1..n : cmd.pattern[q] # "renew"
  BY <1>4, PatternIsSeq DEF AckPatternOk, HasPattern
<1>6. DOMAIN renewIndex' = Record /\ DOMAIN renewals' = Record
  BY DEF RenewInv
<1>7. ASSUME NEW s \in Record, s # r
      PROVE  /\ renewIndex'[s] = renewIndex[s] /\ renewals'[s] = renewals[s]
             /\ PatternPlace(s)' = PatternPlace(s)
  BY <1>1, <1>7 DEF PatternPlace, OffsetPlace, RenewInv
<1>8. CASE kind = "renew"
  <2>1. renewals'[r] = k + 1 /\ renewIndex'[r] = NextPlace(r)
    BY <1>8 DEF RenewInv
  <2>2. k + 1 < n
    <3>1. q # p
      BY <1>5, <1>8
    <3>2. q \notin Before(p, k)
      BY <1>3, <1>5
    <3>3. ~ ((q < p /\ p <= q + k) \/ p + n <= q + k)
      BY <3>2 DEF Before
    <3> HIDE DEF n, p, k
    <3> QED
      BY <1>1, <1>2, <1>3, <3>1, <3>3, AllTheOthers
  <2>3. NextPlace(r) \in 1..n
    <3> HIDE DEF n, p, k
    <3> QED
      BY <1>1, <1>2
  <2>4. PatternPlace(r)' = NextPlace(r)
    <3>1. NextPlace(r) # 0
      <4> HIDE DEF n
      <4> QED
        BY <1>1, <2>3
    <3> QED
      BY <2>1, <3>1 DEF PatternPlace
  <2>5. ASSUME NEW s \in Before(NextPlace(r), k + 1)
        PROVE  cmd.pattern[s] = "renew"
    <3>1. s \in 1..n /\ ((s < NextPlace(r) /\ NextPlace(r) <= s + (k + 1))
                         \/ NextPlace(r) + n <= s + (k + 1))
      BY DEF Before
    <3>2. s = p \/ (s < p /\ p <= s + k) \/ p + n <= s + k
      <4> DEFINE next0 == NextPlace(r)
      <4>1. next0 \in Nat /\ next0 = IF p = n THEN 1 ELSE p + 1
        BY <1>2, <2>3
      <4>2. s \in 1..n /\ ((s < next0 /\ next0 <= s + (k + 1)) \/ next0 + n <= s + (k + 1))
        BY <3>1
      <4> HIDE DEF n, p, k, next0
      <4> QED
        BY <1>1, <1>2, <1>3, <4>1, <4>2, RenewedOnce
    <3>3. s = p \/ s \in Before(p, k)
      BY <3>1, <3>2 DEF Before
    <3> QED
      BY <1>3, <1>8, <3>3
  <2>6. /\ renewIndex'[r] \in 0..n /\ renewals'[r] \in 0..n - 1
        /\ \A s \in Before(PatternPlace(r)', renewals'[r]) : cmd.pattern[s] = "renew"
    <3>1. k + 1 \in 0..n - 1
      <4> HIDE DEF n, k
      <4> QED
        BY <1>1, <1>3, <2>2
    <3>2. NextPlace(r) \in 0..n
      BY <2>3
    <3> QED
      BY <2>1, <2>4, <2>5, <3>1, <3>2
  <2> QED
    BY <1>1, <1>4, <1>6, <1>7, <2>6 DEF RenewInv, Before
<1>9. CASE kind # "renew"
  <2>1. renewals'[r] = 0 /\ renewIndex'[r] = 0
    BY <1>9 DEF RenewInv
  <2>2. PatternPlace(r)' \in Nat \ {0}
    <3>1. PatternPlace(r)' = OffsetPlace(r)'
      BY <2>1 DEF PatternPlace
    <3>2. OffsetPlace(r)' = (r % n) + 1
      BY <1>1 DEF OffsetPlace
    <3>3. r \in Nat
      BY DEF Record
    <3> HIDE DEF n
    <3> QED
      BY <1>1, <3>1, <3>2, <3>3
  <2>3. Before(PatternPlace(r)', 0) = {}
    <3> DEFINE place == PatternPlace(r)'
    <3>1. place \in Nat \ {0}
      BY <2>2
    <3> HIDE DEF place
    <3>2. ASSUME NEW s \in Before(place, 0)
          PROVE  FALSE
      <4>1. s \in 1..n /\ ((s < place /\ place <= s + 0) \/ place + n <= s + 0)
        BY DEF Before
      <4> HIDE DEF n
      <4> QED
        BY <1>1, <3>1, <4>1
    <3> QED
      BY <3>2 DEF place
  <2>4. 0 \in 0..n /\ 0 \in 0..n - 1
    <3> HIDE DEF n
    <3> QED
      BY <1>1
  <2>5. ASSUME NEW s \in Record
        PROVE  /\ renewIndex'[s] \in 0..n /\ renewals'[s] \in 0..n - 1
               /\ \A x \in Before(PatternPlace(s)', renewals'[s]) : cmd.pattern[x] = "renew"
    <3>1. CASE s = r
      BY <2>1, <2>3, <2>4, <3>1
    <3>2. CASE s # r
      BY <1>1, <1>7, <3>2 DEF RenewInv
    <3> QED
      BY <3>1, <3>2
  <2> QED
    BY <1>1, <1>4, <1>6, <2>5 DEF RenewInv, Before
<1> QED
  BY <1>8, <1>9

\* A step of the whole, seen from a command that reads through a share group.
LEMMA ShareOrStill ==
  ASSUME IsShare, [Next]_dataPlaneVars
  PROVE  SharesNext \/ (UNCHANGED shareVars /\ UNCHANGED toolVars)
<1>1. ~ IsProducer /\ ~ IsConsumer
  BY OneKindOfCommand
<1> QED
  BY <1>1, ProducersAlone, ConsumersAlone DEF Next, dataPlaneVars

LEMMA RenewSteps ==
  ASSUME SharesNext, ~ ShareRecord
  PROVE  /\ UNCHANGED <<renewIndex, renewals>>
         /\ pc' = "run" /\ HasPattern => pc = "run" \/ AckPatternOk
  BY DEF SharesNext, SharesEnvironment, SharesStep, WorkerStep, Expire, OtherAccepts, Interrupt, End, Goto,
         ShareConsumeStart, VerifiableShareStart, SharePerfStart, UnchangedShares, Joins, Refuses,
         ShareRecords, BatchOver, ShareHears, ShareCommit, ShareClose, PerfCommits, ShareRecordFails,
         SharePoll, PerfRecords, ShareNothing, ShareIdle, SharePollFails, toolVars, shareVars, HasPattern,
         Perf

LEMMA RenewInvKept ==
  ASSUME Allowed, RenewInv, LeaseInv, [Next]_dataPlaneVars
  PROVE  RenewInv'
<1>0. SameCommand
  BY CommandKept
<1>1. HasPattern' = HasPattern /\ cmd' = cmd
  BY <1>0 DEF HasPattern, SameCommand
<1>2. CASE ~ HasPattern
  BY <1>1, <1>2 DEF RenewInv
<1>3. ASSUME HasPattern, UNCHANGED <<renewIndex, renewals>>, pc' = "run" => pc = "run" \/ AckPatternOk
      PROVE  RenewInv'
  <2>1. \A r : PatternPlace(r)' = PatternPlace(r)
    BY <1>1, <1>3 DEF PatternPlace, OffsetPlace
  <2>2. AckPatternOk' = AckPatternOk /\ \A p, k : Before(p, k)' = Before(p, k)
    BY <1>1 DEF AckPatternOk, Before
  <2> QED
    BY <1>1, <1>3, <2>1, <2>2 DEF RenewInv
<1>4. CASE HasPattern /\ ShareRecord
  <2>1. batch \in SUBSET Record /\ batch # {} /\ pc = "run" /\ pc' = pc
    BY <1>4 DEF ShareRecord, LeaseInv, toolVars
  <2> DEFINE r == First(batch)
  <2>2. r \in Record
    BY <2>1, FirstOfBatch
  <2>3. PICK written \in BOOLEAN :
          /\ renewIndex' = [renewIndex EXCEPT ![r] = IF KindOf(r, written) = "renew" THEN NextPlace(r) ELSE 0]
          /\ renewals' = [renewals EXCEPT ![r] = IF KindOf(r, written) = "renew" THEN @ + 1 ELSE 0]
    BY <1>4 DEF ShareRecord
  <2>4. KindOf(r, written) = cmd.pattern[PatternPlace(r)]
    BY <1>4, <2>2, KindsOfPattern
  <2> HIDE DEF r
  <2> QED
    BY <1>0, <1>4, <2>1, <2>2, <2>3, <2>4, RenewKept
<1>5. IsShare \/ ~ HasPattern
  BY DEF HasPattern, IsShare, ShareTools
<1> QED
  BY <1>2, <1>3, <1>4, <1>5, RenewSteps, ShareOrStill DEF shareVars, toolVars

LEMMA RenewInvStarts ==
  ASSUME Init
  PROVE  RenewInv
<1>1. SUFFICES ASSUME HasPattern
               PROVE  RenewInv
  BY DEF RenewInv
<1>2. Allowed /\ pc = "start" /\ \A r \in Record : renewIndex[r] = 0 /\ renewals[r] = 0
  BY DEF Init, ToolInit, SharesIdle, Allowed
<1> DEFINE n == Len(cmd.pattern)
<1>3. n \in Nat /\ n > 0
  BY <1>1, <1>2, PatternIsSeq
<1>4. ASSUME NEW r \in Record
      PROVE  Before(PatternPlace(r), 0) = {}
  <2>0. r \in Nat
    BY DEF Record
  <2>1. PatternPlace(r) = (r % n) + 1
    BY <1>2 DEF PatternPlace, OffsetPlace
  <2>2. PatternPlace(r) \in Nat \ {0}
    <3> HIDE DEF n
    <3> QED
      BY <1>3, <2>0, <2>1
  <2>3. ASSUME NEW s \in Before(PatternPlace(r), 0)
        PROVE  FALSE
    <3> DEFINE place == PatternPlace(r)
    <3>1. s \in 1..n /\ ((s < place /\ place <= s + 0) \/ place + n <= s + 0)
      BY DEF Before
    <3>2. place \in Nat \ {0}
      BY <2>2
    <3> HIDE DEF n, place
    <3> QED
      BY <1>3, <3>1, <3>2
  <2> QED
    BY <2>3
<1>5. 0 \in 0..n /\ 0 \in 0..n - 1
  <2> HIDE DEF n
  <2> QED
    BY <1>3
<1>6. DOMAIN renewIndex = Record /\ DOMAIN renewals = Record
  BY DEF Init, SharesIdle
<1> QED
  BY <1>2, <1>4, <1>5, <1>6 DEF RenewInv

LEMMA RenewInvImplies ==
  ASSUME Allowed, RenewInv
  PROVE  RenewalsEnd
<1>1. SUFFICES ASSUME HasPattern, NEW r \in Record
               PROVE  renewals[r] < Len(cmd.pattern)
  BY DEF RenewalsEnd, HasPattern
<1> DEFINE n == Len(cmd.pattern)
<1>2. n \in Nat /\ renewals[r] \in 0..n - 1
  BY <1>1, PatternIsSeq DEF RenewInv
<1> HIDE DEF n
<1> QED
  BY <1>2 DEF n

LEMMA NobodySharesKept ==
  ASSUME NobodyShares, ToolInv, [Next]_dataPlaneVars
  PROVE  NobodyShares'
<1>0. SameCommand /\ IsShare' = IsShare
  BY CommandKept, SameKind
<1>1. CASE UNCHANGED shareVars
  BY <1>0, <1>1 DEF shareVars, NobodyShares, SharesIdle
<1>2. CASE SharesNext /\ ~ IsShare
  <2>1. PICK r \in Record : Expire(r)
    BY <1>2, SharesAlone DEF ToolInv
  <2>2. share[r].state = "available"
    BY <1>2 DEF NobodyShares, SharesIdle
  <2> QED
    BY <2>1, <2>2 DEF Expire, Held
<1> QED
  BY <1>0, <1>1, <1>2 DEF Next, dataPlaneVars, NobodyShares

LEMMA NobodySharesStarts == Init => NobodyShares
  BY DEF Init, NobodyShares

-----------------------------------------------------------------------------
(* Share consumers: what is sent *)

LEMMA NoAcksType ==
  /\ NoAcks \in [Record -> AckKinds \cup {"none"}]
  /\ \A r \in Record : NoAcks[r] = "none"
  BY DEF NoAcks

LEMMA AllAcceptedType ==
  ASSUME NEW records
  PROVE  /\ AllAccepted(records) \in [Record -> AckKinds \cup {"none"}]
         /\ \A r \in Record : AllAccepted(records)[r] = IF r \in records THEN "accept" ELSE "none"
  BY DEF AllAccepted, AckKinds

LEMMA KindsOfShare ==
  ASSUME Allowed, Single, RenewInv, NEW r \in Record, NEW written \in BOOLEAN
  PROVE  KindOf(r, written) \in AckKinds
<1>1. CASE cmd.tool = "share-consume"
  <2>1. KindOf(r, written) \in {cmd.kind, "reject"}
    <3>1. ~ Implicit
      BY <1>1 DEF Implicit, Perf
    <3>2. KindOf(r, written) = IF written THEN cmd.kind ELSE "reject"
      BY <1>1, <3>1 DEF KindOf
    <3> QED
      BY <3>2
  <2>2. cmd.kind \in {"accept", "release", "reject"}
    BY <1>1, ShareAssumption DEF Allowed
  <2> QED
    BY <2>1, <2>2 DEF AckKinds
<1>2. CASE cmd.tool = "verifiable-share-consumer" /\ cmd.pattern = <<>>
  BY <1>2 DEF KindOf, Implicit, AckKinds
<1>3. CASE HasPattern
  BY <1>3, KindsOfPattern
<1> QED
  BY <1>1, <1>2, <1>3 DEF Single, HasPattern

LEMMA SameShareCommand ==
  ASSUME SameCommand
  PROVE  Single' = Single /\ Perf' = Perf /\ Threads' = Threads /\ Implicit' = Implicit
  BY DEF SameCommand, Single, Perf, Threads, Implicit

LEMMA ThreadsAreWorkers ==
  ASSUME Allowed, IsShare
  PROVE  Threads \subseteq Workers
  BY ShareAssumption, WorkerOne DEF Threads, Allowed, Perf

\* The steps that lease nothing: what changes is where the workers are, what is to be sent
\* and, by leases that end, the partition.
LEMMA LeasesAreKept ==
  ASSUME LeaseInv, Lessens(share', share), batch' \subseteq Record, told' \subseteq Record,
         acks' \in [Workers -> [Record -> AckKinds \cup {"none"}]]
  PROVE  LeaseInv' /\ \A w : LeaseOf(w)' \subseteq LeaseOf(w)
  BY LeasesLessen DEF LeaseInv, Lessens

LEMMA StillSends ==
  ASSUME SendInv, SameCommand, Lessens(share', share), UNCHANGED <<at, batch, acks, told, failed>>,
         exit' \in {exit, "usage", "error", "killed"}, pc' = "start" => pc = "start"
  PROVE  SendInv'
<1>1. LeaseInv' /\ \A w : LeaseOf(w)' \subseteq LeaseOf(w)
  BY LeasesAreKept DEF SendInv, LeaseInv
<1>2. AloneInv'
  BY <1>1, SameShareCommand DEF SendInv, AloneInv, SentBeforePoll
<1>3. CrowdInv'
  BY <1>1, SameShareCommand DEF SendInv, CrowdInv
<1>4. (exit = "ok" => NothingLeft)'
  BY <1>1 DEF SendInv, NothingLeft
<1> QED
  BY <1>1, <1>2, <1>3, <1>4 DEF SendInv

\* A worker moves and acknowledges nothing: from where it has nothing to send, or to where
\* it may have.
LEMMA MovesOn ==
  ASSUME SendInv, ShareTyped, Allowed, IsShare, SameCommand, pc = "run", exit # "ok",
         UNCHANGED <<share, acks, told>>, batch' \subseteq Record, exit' \in {exit, "error"},
         pc' # "start", NEW w \in Workers, at[w] # "idle",
         NEW label \in {"poll", "wait", "stopped", "batch", "commit"},
         at' = [at EXCEPT ![w] = label],
         \/ at[w] \in {"poll", "wait"} /\ (failed' = failed \/ failed' = TRUE)
         \/ label = "stopped" /\ failed' = TRUE
         \/ label \in {"batch", "commit"} /\ failed' = failed
  PROVE  SendInv'
<1>1. Lessens(share', share) /\ acks' = acks
  BY LessensSame DEF SendInv
<1>2. LeaseInv' /\ \A v : LeaseOf(v)' \subseteq LeaseOf(v)
  BY <1>1, LeasesAreKept DEF SendInv, LeaseInv
<1>3. \A v \in Workers : at'[v] = IF v = w THEN label ELSE at[v]
  BY DEF ShareTyped
<1>4. AloneInv'
  <2>1. ASSUME Single, at'[1] \in {"idle", "poll", "wait"} \/ (at'[1] = "stopped" /\ ~ failed')
        PROVE  acks[1] = NoAcks
    <3>1. CASE w # 1
      BY <1>3, <2>1, <3>1, WorkerOne DEF SendInv, AloneInv, SentBeforePoll
    <3>2. CASE w = 1
      BY <1>3, <2>1, <3>2 DEF SendInv, AloneInv, SentBeforePoll
    <3> QED
      BY <3>1, <3>2
  <2> QED
    BY <1>1, <1>2, <2>1, SameShareCommand DEF SendInv, AloneInv, SentBeforePoll
<1>5. ASSUME Perf, NEW v \in Workers
      PROVE  /\ \A r \in Record : acks[v][r] \in {"none", "accept"}
             /\ \A r \in LeaseOf(v) : acks[v][r] = "accept"
             /\ at'[v] \in {"idle", "committed"} => acks[v] = NoAcks
             /\ v \notin Threads => at'[v] = "idle"
  <2>1. CASE v # w
    BY <1>3, <1>5, <2>1 DEF SendInv, CrowdInv
  <2>2. CASE v = w
    <3>1. at'[v] = label
      BY <1>3, <2>2
    <3> QED
      BY <1>5, <2>2, <3>1 DEF SendInv, CrowdInv
  <2> QED
    BY <2>1, <2>2
<1>6. Perf' = Perf /\ Threads' = Threads
  BY SameShareCommand
<1>7. CrowdInv'
  BY <1>1, <1>2, <1>5, <1>6 DEF CrowdInv
<1> QED
  BY <1>2, <1>4, <1>7 DEF SendInv

\* The records of a poll are leased, the others lose leases at most.
LEMMA LeaseIsGood ==
  ASSUME LeaseInv, NEW w \in Workers, NEW records \in SUBSET Pollable(w), Lease(w, records)
  PROVE  /\ share' \in [Record -> Good]
         /\ \A r \in records : share'[r].owner = w
         /\ \A r \in Record \ records : share'[r].state = "leased" => share'[r] = share[r]
         /\ Implicit => \A r \in Record \ records :
              share'[r].state = "leased" /\ acks[w][r] # "none" => share'[r].owner # w
<1>1. ASSUME NEW r \in Record
      PROVE  /\ share'[r] \in Good
             /\ r \in records => share'[r].owner = w
             /\ r \notin records /\ share'[r].state = "leased" => share'[r] = share[r]
             /\ Implicit /\ r \notin records /\ share'[r].state = "leased" /\ acks[w][r] # "none"
                  => share'[r].owner # w
  <2>1. share[r] \in Good
    BY DEF LeaseInv
  <2>2. CASE r \in records
    <3>1. share'[r] = [state |-> "leased", owner |-> w,
            deliveries |-> share[r].deliveries + IF share[r].state = "renewed" THEN 0 ELSE 1]
      BY <2>2 DEF Lease
    <3>2. share[r].state = "available" \/ share[r].state = "renewed"
      BY <2>2 DEF Pollable
    <3>3. /\ share[r].deliveries \in Nat /\ share[r].deliveries <= MaxDeliveries
          /\ share[r].state = "available" => share[r].deliveries < MaxDeliveries
      BY <2>1 DEF Good, Entry
    <3>4. CASE share[r].state = "renewed"
      <4>1. share'[r] = [state |-> "leased", owner |-> w, deliveries |-> share[r].deliveries]
        BY <3>1, <3>3, <3>4
      <4> QED
        BY <2>2, <3>3, <4>1, WorkersArePositive DEF Good, Entry, ShareStates, Nobody
    <3>5. CASE share[r].state = "available"
      <4>1. share'[r] = [state |-> "leased", owner |-> w, deliveries |-> share[r].deliveries + 1]
        BY <3>1, <3>5
      <4>2. share[r].deliveries + 1 \in Nat /\ share[r].deliveries + 1 <= MaxDeliveries
        BY <3>3, <3>5, MaxDeliveriesType
      <4> QED
        BY <2>2, <4>1, <4>2, WorkersArePositive DEF Good, Entry, ShareStates, Nobody
    <3> QED
      BY <3>2, <3>4, <3>5
  <2>3. CASE r \notin records /\ Implicit
    <3>1. share'[r] = Sent(w)[r]
      BY <2>3 DEF Lease
    <3> QED
      BY <2>3, <3>1, SentLessens DEF Lessens
  <2>4. CASE r \notin records /\ ~ Implicit
    <3>1. share'[r] = share[r]
      BY <2>4 DEF Lease
    <3> QED
      BY <2>1, <2>4, <3>1
  <2> QED
    BY <2>2, <2>3, <2>4
<1>2. share' = [r \in Record |-> share'[r]]
  BY DEF Lease
<1>3. records \subseteq Record
  BY DEF Pollable
<1> QED
  BY <1>1, <1>2, <1>3

LEMMA ShareMoves ==
  ASSUME Allowed, IsShare, ShareTyped, SendInv, ToolInv, SameCommand, NEW w \in Workers,
         SharePoll(w) \/ ShareNothing(w) \/ ShareIdle(w) \/ SharePollFails(w)
  PROVE  SendInv'
<1>1. /\ pc = "run" /\ exit = "none" /\ at[w] \in {"poll", "wait"} /\ batch' = batch
      /\ UNCHANGED <<share, acks, told>> /\ pc' \in {"run", "done"} /\ exit' \in {exit, "error"}
  BY DEF SharePoll, ShareNothing, ShareIdle, SharePollFails, End, ToolInv
<1>2. batch \subseteq Record
  BY DEF SendInv, LeaseInv
<1>3. CASE at' = at /\ failed' = failed
  BY <1>1, <1>3, StillSends, LessensSame DEF SendInv
<1>4. ASSUME NEW label \in {"poll", "wait", "stopped"}, at' = [at EXCEPT ![w] = label],
             failed' = failed \/ failed' = TRUE
      PROVE  SendInv'
  BY <1>1, <1>2, <1>4, MovesOn
<1> QED
  BY <1>3, <1>4 DEF SharePoll, ShareNothing, ShareIdle, SharePollFails, MoveTo

LEMMA AloneMoves ==
  ASSUME Allowed, IsShare, ShareTyped, SendInv, ToolInv, SameCommand,
         ShareHears \/ ShareRecordFails \/ BatchOver
  PROVE  SendInv'
<1>1. /\ pc = "run" /\ exit = "none" /\ batch' \subseteq batch
      /\ UNCHANGED <<share, acks, told, pc, exit>>
  BY DEF ShareHears, ShareRecordFails, BatchOver, toolVars, ToolInv
<1>2. batch' \subseteq Record
  BY <1>1 DEF SendInv, LeaseInv
<1>3. CASE ShareHears
  <2>1. at[1] = "wait" /\ at' = [at EXCEPT ![1] = "stopped"] /\ failed' = failed
    BY <1>3 DEF ShareHears, MoveTo
  <2> QED
    BY <1>1, <1>2, <2>1, WorkerOne, MovesOn
<1>4. CASE ShareRecordFails
  <2>1. at[1] = "batch" /\ at' = [at EXCEPT ![1] = "stopped"] /\ failed' = TRUE
    BY <1>4 DEF ShareRecordFails, MoveTo
  <2> QED
    BY <1>1, <1>2, <2>1, WorkerOne, MovesOn
<1>5. CASE BatchOver
  <2>1. at[1] = "batch" /\ at' = [at EXCEPT ![1] = "commit"] /\ failed' = failed
    BY <1>5 DEF BatchOver, MoveTo
  <2> QED
    BY <1>1, <1>2, <2>1, WorkerOne, MovesOn
<1> QED
  BY <1>3, <1>4, <1>5

LEMMA BrokerLessens ==
  ASSUME LeaseInv, NEW r \in Record, Expire(r) \/ OtherAccepts(r)
  PROVE  Lessens(share', share)
<1>1. share[r] \in Good /\ share \in [Record -> Good]
  BY DEF LeaseInv
<1>2. ASSUME NEW e \in Good, e.state # "leased", share' = [share EXCEPT ![r] = e]
      PROVE  Lessens(share', share)
  BY <1>1, <1>2 DEF Lessens
<1>3. CASE Expire(r)
  <2>1. share' = [share EXCEPT ![r] = Returned(share[r])]
    BY <1>3 DEF Expire
  <2> QED
    BY <1>1, <1>2, <2>1, ReturnedIsGood
<1>4. CASE OtherAccepts(r)
  <2> DEFINE e == [[share[r] EXCEPT !.state = "accepted"] EXCEPT !.owner = Nobody]
  <2>1. share' = [share EXCEPT ![r] = e]
    BY <1>1, <1>4 DEF OtherAccepts
  <2>2. e \in Good /\ e.state # "leased"
    BY <1>1 DEF Good, Entry, ShareStates
  <2> HIDE DEF e
  <2> QED
    BY <1>2, <2>1, <2>2
<1> QED
  BY <1>3, <1>4

LEMMA StartSends ==
  ASSUME Allowed, IsShare, SendInv, ToolInv, SameCommand,
         ShareConsumeStart \/ VerifiableShareStart \/ SharePerfStart
  PROVE  SendInv'
<1>1. /\ pc = "start" /\ exit = "none" /\ UNCHANGED <<share, batch, acks, told, failed>>
      /\ exit' \in {exit, "usage", "error"} /\ pc' \in {"run", "done"}
      /\ \/ at' = at
         \/ at' = [w \in Workers |-> IF w \in Threads THEN "poll" ELSE "idle"]
  BY DEF ShareConsumeStart, VerifiableShareStart, SharePerfStart, UnchangedShares, Joins, Refuses, Goto, End,
         ToolInv
<1>2. CASE at' = at
  BY <1>1, <1>2, StillSends, LessensSame DEF SendInv
<1>3. CASE at' = [w \in Workers |-> IF w \in Threads THEN "poll" ELSE "idle"]
  <2>1. \A w \in Workers : at[w] = "idle"
    BY <1>1 DEF SendInv
  <2>2. LeaseInv' /\ \A w : LeaseOf(w)' = LeaseOf(w)
    BY <1>1 DEF SendInv, LeaseInv, LeaseOf
  <2>3. AloneInv'
    BY <1>1, <2>1, <2>2, SameShareCommand, WorkerOne DEF SendInv, AloneInv, SentBeforePoll
  <2>4. Perf' = Perf /\ Threads' = Threads
    BY SameShareCommand
  <2>5. \A w \in Workers : at'[w] = IF w \in Threads THEN "poll" ELSE "idle"
    BY <1>3
  <2>6. CrowdInv'
    BY <1>1, <2>1, <2>2, <2>4, <2>5 DEF SendInv, CrowdInv
  <2> QED
    BY <1>1, <2>2, <2>3, <2>6 DEF SendInv
<1> QED
  BY <1>1, <1>2, <1>3

LEMMA RecordAcks ==
  ASSUME Allowed, IsShare, ShareTyped, AckInv, SendInv, RenewInv, ToolInv, SameCommand, ShareRecord
  PROVE  SendInv'
<1> DEFINE r == First(batch)
<1>1. /\ pc = "run" /\ exit = "none" /\ at[1] = "batch" /\ batch # {}
      /\ UNCHANGED <<share, at, failed, pc, exit>> /\ batch' = batch \ {r}
  BY DEF ShareRecord, toolVars, ToolInv
<1>2. Single
  BY <1>1 DEF AckInv, IsShare, ShareTools, Single, Perf
<1>3. r \in Record
  BY <1>1, FirstOfBatch DEF SendInv, LeaseInv
<1>4. PICK written \in BOOLEAN : /\ acks' = [acks EXCEPT ![1][r] = KindOf(r, written)]
                                 /\ told' = IF written THEN told \cup {r} ELSE told
  BY DEF ShareRecord
<1>5. KindOf(r, written) \in AckKinds
  BY <1>2, <1>3, KindsOfShare
<1> DEFINE kind == KindOf(r, written)
<1>6. acks' = [acks EXCEPT ![1][r] = kind] /\ kind \in AckKinds
  BY <1>4, <1>5
<1> HIDE DEF r, kind
<1>7. acks' \in [Workers -> [Record -> AckKinds \cup {"none"}]]
  BY <1>3, <1>6, WorkerOne DEF SendInv, LeaseInv
<1>8. \A w \in Workers \ {1} : acks'[w] = acks[w]
  BY <1>6 DEF SendInv, LeaseInv
<1>9. told' \subseteq Record /\ batch' \subseteq Record
  BY <1>1, <1>3, <1>4 DEF SendInv, LeaseInv
<1>10. LeaseInv' /\ \A w : LeaseOf(w)' = LeaseOf(w)
  BY <1>1, <1>7, <1>9 DEF SendInv, LeaseInv, LeaseOf
<1>11. AloneInv'
  BY <1>1, <1>8, <1>10, SameShareCommand DEF SendInv, AloneInv, SentBeforePoll
<1>12. CrowdInv'
  BY <1>2, SameShareCommand DEF CrowdInv, Single, Perf
<1> QED
  BY <1>1, <1>10, <1>11, <1>12 DEF SendInv

LEMMA RecordsLease ==
  ASSUME Allowed, IsShare, ShareTyped, SendInv, ToolInv, SameCommand, ShareRecords
  PROVE  SendInv'
<1>1. /\ Single /\ pc = "run" /\ exit = "none" /\ UNCHANGED <<told, failed, pc, exit>>
      /\ at' = [at EXCEPT ![1] = "batch"]
      /\ acks' = IF Implicit THEN [acks EXCEPT ![1] = AllAccepted(batch')] ELSE acks
  BY DEF ShareRecords, MoveTo, ToolInv
<1>2. PICK records \in Polled(1) : Lease(1, records) /\ batch' = records
  BY DEF ShareRecords
<1>3. records \in SUBSET Pollable(1) /\ records \subseteq Record
  BY <1>2 DEF Polled, Pollable
<1>4. /\ share' \in [Record -> Good]
      /\ \A r \in records : share'[r].owner = 1
      /\ \A r \in Record \ records : share'[r].state = "leased" => share'[r] = share[r]
  BY <1>2, <1>3, LeaseIsGood, WorkerOne DEF SendInv
<1>5. /\ acks' \in [Workers -> [Record -> AckKinds \cup {"none"}]]
      /\ \A w \in Workers \ {1} : acks'[w] = acks[w]
  <2>1. AllAccepted(batch') \in [Record -> AckKinds \cup {"none"}]
    BY AllAcceptedType
  <2> QED
    BY <1>1, <2>1, WorkerOne DEF SendInv, LeaseInv
<1>6. LeaseInv'
  BY <1>1, <1>2, <1>3, <1>4, <1>5 DEF SendInv, LeaseInv
<1>7. ASSUME NEW w \in Workers \ {1}
      PROVE  LeaseOf(w)' \subseteq LeaseOf(w)
  BY <1>4 DEF LeaseOf
<1>8. AloneInv'
  <2>1. at'[1] = "batch"
    BY <1>1, WorkerOne DEF ShareTyped
  <2> QED
    BY <1>5, <1>7, <2>1, SameShareCommand DEF SendInv, AloneInv, SentBeforePoll
<1>9. CrowdInv'
  BY <1>1, SameShareCommand DEF CrowdInv, Single, Perf
<1> QED
  BY <1>1, <1>6, <1>8, <1>9 DEF SendInv

LEMMA PerfLeases ==
  ASSUME Allowed, IsShare, ShareTyped, SendInv, ToolInv, SameCommand, NEW w \in Workers, PerfRecords(w)
  PROVE  SendInv'
<1>1. /\ Perf /\ pc = "run" /\ exit = "none" /\ at[w] = "wait" /\ UNCHANGED <<batch, failed, pc, exit>>
      /\ at' = [at EXCEPT ![w] = "poll"]
  BY DEF PerfRecords, MoveTo, ToolInv, toolVars
<1>2. PICK records \in Polled(w) : /\ Lease(w, records) /\ told' = told \cup records
                                   /\ acks' = [acks EXCEPT ![w] = AllAccepted(records)]
  BY DEF PerfRecords
<1>3. records \in SUBSET Pollable(w) /\ records \subseteq Record
  BY <1>2 DEF Polled, Pollable
<1>4. Implicit
  BY <1>1 DEF Implicit
<1>5. /\ share' \in [Record -> Good]
      /\ \A r \in records : share'[r].owner = w
      /\ \A r \in Record \ records : share'[r].state = "leased" => share'[r] = share[r]
      /\ \A r \in Record \ records :
           share'[r].state = "leased" /\ acks[w][r] # "none" => share'[r].owner # w
  BY <1>2, <1>3, <1>4, LeaseIsGood DEF SendInv
<1>6. /\ acks' \in [Workers -> [Record -> AckKinds \cup {"none"}]]
      /\ \A v \in Workers : v # w => acks'[v] = acks[v]
      /\ acks'[w] = AllAccepted(records)
  BY <1>2, AllAcceptedType DEF SendInv, LeaseInv
<1>7. LeaseInv'
  BY <1>1, <1>2, <1>3, <1>5, <1>6 DEF SendInv, LeaseInv
<1>8. \A v \in Workers : at'[v] = IF v = w THEN "poll" ELSE at[v]
  BY <1>1 DEF ShareTyped
<1>9. ASSUME NEW v \in Workers
      PROVE  /\ \A r \in Record : acks'[v][r] \in {"none", "accept"}
             /\ \A r \in LeaseOf(v)' : acks'[v][r] = "accept"
             /\ at'[v] \in {"idle", "committed"} => acks'[v] = NoAcks
             /\ v \notin Threads => at'[v] = "idle"
  <2>1. CASE v # w
    <3>1. LeaseOf(v)' \subseteq LeaseOf(v)
      BY <1>5, <2>1 DEF LeaseOf
    <3> QED
      BY <1>1, <1>6, <1>8, <2>1, <3>1 DEF SendInv, CrowdInv
  <2>2. CASE v = w
    <3>1. \A r \in Record : acks'[v][r] = IF r \in records THEN "accept" ELSE "none"
      BY <1>6, <2>2, AllAcceptedType
    <3>2. ASSUME NEW r \in LeaseOf(v)'
          PROVE  r \in records
      <4>1. r \in Record /\ share'[r].state = "leased" /\ share'[r].owner = w
        BY <2>2 DEF LeaseOf
      <4>2. SUFFICES ASSUME r \notin records
                     PROVE  FALSE
        OBVIOUS
      <4>3. share[r].state = "leased" /\ share[r].owner = w /\ acks[w][r] = "none"
        BY <1>1, <1>5, <4>1, <4>2 DEF SendInv, CrowdInv
      <4> QED
        BY <1>1, <4>1, <4>3 DEF SendInv, CrowdInv, LeaseOf
    <3>3. v \in Threads /\ at'[v] = "poll"
      BY <1>1, <1>8, <2>2 DEF SendInv, CrowdInv
    <3> QED
      BY <3>1, <3>2, <3>3 DEF LeaseOf
  <2> QED
    BY <2>1, <2>2
<1>10. Perf' = Perf /\ Threads' = Threads /\ Single' = Single
  BY SameShareCommand
<1>11. CrowdInv'
  BY <1>9, <1>10 DEF CrowdInv
<1>12. AloneInv'
  BY <1>1, <1>10 DEF AloneInv, Single, Perf
<1> QED
  BY <1>1, <1>7, <1>11, <1>12 DEF SendInv

LEMMA ClearedAcks ==
  ASSUME LeaseInv, NEW w \in Workers, acks' = [acks EXCEPT ![w] = NoAcks]
  PROVE  /\ acks' \in [Workers -> [Record -> AckKinds \cup {"none"}]]
         /\ acks'[w] = NoAcks /\ \A v \in Workers : v # w => acks'[v] = acks[v]
  BY NoAcksType DEF LeaseInv

LEMMA CommitSends ==
  ASSUME Allowed, IsShare, ShareTyped, SendInv, ToolInv, SameCommand, ShareCommit
  PROVE  SendInv'
<1>1. /\ Single /\ pc = "run" /\ exit = "none" /\ UNCHANGED <<batch, told, pc, exit>>
      /\ acks' = [acks EXCEPT ![1] = NoAcks] /\ share' \in {share, Sent(1)}
      /\ at' = [at EXCEPT ![1] = "poll"] \/ at' = [at EXCEPT ![1] = "stopped"]
  BY DEF ShareCommit, ClearAcks, MoveTo, ToolInv
<1>2. Lessens(share', share)
  BY <1>1, LessensSame, SentLessens, WorkerOne DEF SendInv
<1>3. /\ acks' \in [Workers -> [Record -> AckKinds \cup {"none"}]]
      /\ acks'[1] = NoAcks /\ \A v \in Workers : v # 1 => acks'[v] = acks[v]
  BY <1>1, ClearedAcks, WorkerOne DEF SendInv
<1>4. LeaseInv' /\ \A v : LeaseOf(v)' \subseteq LeaseOf(v)
  BY <1>1, <1>2, <1>3, LeasesAreKept DEF SendInv, LeaseInv
<1>5. AloneInv'
  BY <1>1, <1>3, <1>4, SameShareCommand DEF SendInv, AloneInv, SentBeforePoll
<1>6. CrowdInv'
  BY <1>1, SameShareCommand DEF CrowdInv, Single, Perf
<1> QED
  BY <1>1, <1>4, <1>5, <1>6 DEF SendInv

LEMMA CloseSends ==
  ASSUME Allowed, IsShare, ShareTyped, SendInv, ToolInv, SameCommand, ShareClose
  PROVE  SendInv'
<1>1. /\ Single /\ pc = "run" /\ at[1] = "stopped" /\ UNCHANGED <<at, batch, told, failed>>
      /\ pc' = "done" /\ (exit' = "ok" => ~ failed)
      /\ \/ share' = GivenBack(share, 1) /\ acks' = acks
         \/ share' = GivenBack(Sent(1), 1) /\ acks' = [acks EXCEPT ![1] = NoAcks]
  BY DEF ShareClose, ClearAcks, End
<1>2. /\ Lessens(share', share)
      /\ \A r \in Record : share'[r].state = "leased" => share'[r].owner # 1
  BY <1>1, LessensSame, SentLessens, GivenBackLessens, WorkerOne DEF SendInv
<1>3. /\ acks' \in [Workers -> [Record -> AckKinds \cup {"none"}]]
      /\ acks'[1] \in {acks[1], NoAcks} /\ \A v \in Workers : v # 1 => acks'[v] = acks[v]
  <2>1. CASE acks' = acks
    BY <2>1 DEF SendInv, LeaseInv
  <2>2. CASE acks' = [acks EXCEPT ![1] = NoAcks]
    BY <2>2, ClearedAcks, WorkerOne DEF SendInv
  <2> QED
    BY <1>1, <2>1, <2>2
<1>4. LeaseInv' /\ \A v : LeaseOf(v)' \subseteq LeaseOf(v)
  BY <1>1, <1>2, <1>3, LeasesAreKept DEF SendInv, LeaseInv
<1>5. LeaseOf(1)' = {}
  BY <1>2 DEF LeaseOf
<1>6. AloneInv'
  BY <1>1, <1>3, <1>4, SameShareCommand DEF SendInv, AloneInv, SentBeforePoll
<1>7. CrowdInv'
  BY <1>1, SameShareCommand DEF CrowdInv, Single, Perf
<1>8. ASSUME exit' = "ok", NEW v \in Workers
      PROVE  acks'[v] = NoAcks /\ LeaseOf(v)' = {}
  <2>1. CASE v = 1
    BY <1>1, <1>3, <1>5, <1>8, <2>1 DEF SendInv, AloneInv, SentBeforePoll
  <2>2. CASE v # 1
    <3>1. acks[v] = NoAcks /\ LeaseOf(v) = {}
      BY <1>1, <2>2 DEF SendInv, AloneInv
    <3>2. LeaseOf(v)' \subseteq LeaseOf(v)
      BY <1>4
    <3> QED
      BY <1>3, <2>2, <3>1, <3>2
  <2> QED
    BY <2>1, <2>2
<1>9. (exit = "ok" => NothingLeft)'
  BY <1>8 DEF NothingLeft
<1> QED
  BY <1>1, <1>4, <1>6, <1>7, <1>9 DEF SendInv

LEMMA PerfSends ==
  ASSUME Allowed, IsShare, ShareTyped, SendInv, ToolInv, SameCommand, PerfCommits
  PROVE  SendInv'
<1>1. /\ Perf /\ pc = "run" /\ exit = "none" /\ UNCHANGED <<batch, told, failed>>
      /\ pc' \in {pc, "done"} /\ exit' \in {exit, "ok", "error"}
  BY DEF PerfCommits, End, ToolInv
<1>2. CASE share' = share /\ at' = at /\ acks' = acks /\ exit' # "ok"
  BY <1>1, <1>2, StillSends, LessensSame DEF SendInv
<1>3. CASE share' = share /\ at' = at /\ acks' = acks /\ \A w \in Threads : at[w] = "committed"
  <2>1. ASSUME NEW w \in Workers
        PROVE  acks[w] = NoAcks /\ LeaseOf(w) = {}
    <3>1. acks[w] = NoAcks
      BY <1>1, <1>3 DEF SendInv, CrowdInv
    <3>2. \A r \in LeaseOf(w) : acks[w][r] = "accept" /\ acks[w][r] = "none"
      BY <1>1, <3>1, NoAcksType DEF SendInv, CrowdInv, LeaseOf
    <3> QED
      BY <3>1, <3>2
  <2>2. LeaseInv' /\ NothingLeft' /\ \A w : LeaseOf(w)' = LeaseOf(w)
    BY <1>1, <1>3, <2>1 DEF SendInv, LeaseInv, NothingLeft, LeaseOf
  <2>3. AloneInv'
    BY <1>1, SameShareCommand DEF AloneInv, Single, Perf
  <2>4. Perf' = Perf /\ Threads' = Threads
    BY SameShareCommand
  <2>5. CrowdInv'
    BY <1>3, <2>2, <2>4 DEF SendInv, CrowdInv
  <2> QED
    BY <1>1, <2>2, <2>3, <2>5 DEF SendInv
<1>4. ASSUME NEW w \in Threads, share' = Sent(w), acks' = [acks EXCEPT ![w] = NoAcks],
             at' = [at EXCEPT ![w] = "committed"], exit' = exit, pc' = pc
      PROVE  SendInv'
  <2>1. w \in Workers
    BY ThreadsAreWorkers
  <2>2. /\ Lessens(share', share)
        /\ \A r \in Record : share'[r].state = "leased" /\ acks[w][r] # "none" => share'[r].owner # w
    BY <1>4, <2>1, SentLessens DEF SendInv
  <2>3. /\ acks' \in [Workers -> [Record -> AckKinds \cup {"none"}]]
        /\ acks'[w] = NoAcks /\ \A v \in Workers : v # w => acks'[v] = acks[v]
    BY <1>4, <2>1, ClearedAcks DEF SendInv
  <2>4. LeaseInv' /\ \A v : LeaseOf(v)' \subseteq LeaseOf(v)
    BY <1>1, <2>2, <2>3, LeasesAreKept DEF SendInv, LeaseInv
  <2>5. LeaseOf(w)' = {}
    <3>1. ASSUME NEW r \in LeaseOf(w)'
          PROVE  FALSE
      <4>1. r \in Record /\ share'[r].state = "leased" /\ share'[r].owner = w /\ r \in LeaseOf(w)
        BY <2>4 DEF LeaseOf
      <4>2. acks[w][r] = "accept"
        BY <1>1, <2>1, <4>1 DEF SendInv, CrowdInv
      <4> QED
        BY <2>2, <4>1, <4>2
    <3> QED
      BY <3>1
  <2>6. \A v \in Workers : at'[v] = IF v = w THEN "committed" ELSE at[v]
    BY <1>4 DEF ShareTyped
  <2>7. ASSUME NEW v \in Workers
        PROVE  /\ \A r \in Record : acks'[v][r] \in {"none", "accept"}
               /\ \A r \in LeaseOf(v)' : acks'[v][r] = "accept"
               /\ at'[v] \in {"idle", "committed"} => acks'[v] = NoAcks
               /\ v \notin Threads => at'[v] = "idle"
    <3>1. CASE v # w
      BY <1>1, <2>3, <2>4, <2>6, <3>1 DEF SendInv, CrowdInv
    <3>2. CASE v = w
      BY <1>4, <2>3, <2>5, <3>2, NoAcksType
    <3> QED
      BY <3>1, <3>2
  <2>8. Perf' = Perf /\ Threads' = Threads
    BY SameShareCommand
  <2>9. CrowdInv'
    BY <2>7, <2>8 DEF CrowdInv
  <2>10. AloneInv'
    BY <1>1, SameShareCommand DEF AloneInv, Single, Perf
  <2> QED
    BY <1>1, <1>4, <2>4, <2>9, <2>10 DEF SendInv
<1> QED
  BY <1>2, <1>3, <1>4 DEF PerfCommits, ClearAcks, MoveTo, End

LEMMA SendKeeps ==
  ASSUME Allowed, IsShare, ShareTyped, AckInv, SendInv, RenewInv, ToolInv, SameCommand, SharesNext
  PROVE  SendInv'
<1>1. ASSUME NEW r \in Record, Expire(r) \/ OtherAccepts(r)
      PROVE  SendInv'
  <2>1. Lessens(share', share)
    BY <1>1, BrokerLessens DEF SendInv
  <2> QED
    BY <1>1, <2>1, StillSends DEF Expire, OtherAccepts, toolVars
<1>2. CASE Interrupt(at[1] = "wait") /\ UNCHANGED shareVars
  BY <1>2, StillSends, LessensSame DEF Interrupt, End, SendInv, shareVars
<1>3. SharesEnvironment => SendInv'
  BY <1>1, <1>2 DEF SharesEnvironment
<1>4. SharesStep => SendInv'
  BY StartSends, RecordAcks, RecordsLease, AloneMoves, CommitSends, CloseSends, PerfSends DEF SharesStep
<1>5. ShareRecordFails => SendInv'
  BY AloneMoves
<1>6. ASSUME NEW w \in Workers, WorkerStep(w) \/ ShareNothing(w) \/ ShareIdle(w) \/ SharePollFails(w)
      PROVE  SendInv'
  BY <1>6, ShareMoves, PerfLeases DEF WorkerStep
<1> QED
  BY <1>3, <1>4, <1>5, <1>6 DEF SharesNext

LEMMA SendInvKept ==
  ASSUME Allowed, ToolInv, ShareInv, RenewInv, IsShare => SendInv, [Next]_dataPlaneVars
  PROVE  (IsShare => SendInv)'
<1>0. SameCommand /\ IsShare' = IsShare
  BY CommandKept, SameKind
<1>1. CASE IsShare /\ SharesNext
  BY <1>0, <1>1, SendKeeps DEF ShareInv
<1>2. CASE IsShare /\ UNCHANGED shareVars /\ UNCHANGED toolVars
  BY <1>0, <1>2, StillSends, LessensSame DEF SendInv, shareVars, toolVars
<1> QED
  BY <1>0, <1>1, <1>2, ShareOrStill

LEMMA SendInvStarts == Init => SendInv
<1> SUFFICES ASSUME Init
             PROVE  SendInv
  OBVIOUS
<1>1. /\ share = [r \in Record |-> [state |-> "available", owner |-> Nobody, deliveries |-> 0]]
      /\ at = [w \in Workers |-> "idle"] /\ acks = [w \in Workers |-> NoAcks]
      /\ batch = {} /\ told = {} /\ exit = "none"
  BY DEF Init, ToolInit, SharesIdle
<1>2. [state |-> "available", owner |-> Nobody, deliveries |-> 0] \in Good
  BY MaxDeliveriesType DEF Good, Entry, ShareStates
<1>3. LeaseInv
  BY <1>1, <1>2, NoAcksType DEF LeaseInv
<1>4. \A w : LeaseOf(w) = {}
  BY <1>1 DEF LeaseOf
<1>5. AloneInv
  BY <1>1, <1>4, WorkerOne DEF AloneInv, SentBeforePoll
<1>6. CrowdInv
  BY <1>1, <1>4, NoAcksType DEF CrowdInv
<1> QED
  BY <1>1, <1>3, <1>5, <1>6 DEF SendInv
-----------------------------------------------------------------------------
(* Share consumers: limits *)

InHand == batch \cup {r \in Record : acks[1][r] # "none"}
Waiting == {w \in Threads : at[w] = "wait"}
\* The workers that do not wait.
Room == cmd.threads - Cardinality(Waiting)

\* What a consumer may still count was in reach when it looked at the limit: the records in
\* hand, or a poll for every worker that waits for one.
ConsumeLimit == cmd.tool = "share-consume" => \A m \in cmd.max : taken <= m
BatchLimit ==
  cmd.tool = "verifiable-share-consumer" =>
    /\ \A m \in cmd.max : /\ taken < m + MaxPoll
                          /\ at[1] \in {"wait", "batch", "commit"} => taken < m
    /\ at[1] \in {"batch", "commit"} => Cardinality(InHand) <= MaxPoll
CrowdLimit == Perf /\ pc = "run" => taken < cmd.target + MaxPoll * Room
LimitInv ==
  /\ taken \in Nat /\ (pc = "start" => taken = 0)
  /\ ConsumeLimit /\ BatchLimit /\ CrowdLimit

LEMMA MoreTimes ==
  ASSUME NEW a \in Nat, NEW x \in Nat, NEW y \in Nat, x <= y
  PROVE  a * x <= a * y
<1>1. y - x \in Nat /\ y = x + (y - x)
  OBVIOUS
<1>2. ASSUME NEW d \in Nat
      PROVE  a * x <= a * (x + d)
  <2>1. a * (x + d) = a * x + a * d
    OBVIOUS
  <2>2. a * d \in Nat /\ a * x \in Nat
    OBVIOUS
  <2> QED
    BY <2>1, <2>2
<1> QED
  BY <1>1, <1>2

LEMMA TimesType ==
  ASSUME NEW a \in Nat, NEW x \in Nat
  PROVE  a * x \in Nat
  OBVIOUS

LEMMA OnceMore ==
  ASSUME NEW a \in Nat, NEW x \in Nat
  PROVE  a * (x + 1) = a * x + a
  OBVIOUS

LEMMA ThreadsAreCounted ==
  ASSUME Allowed, Perf
  PROVE  /\ cmd.threads \in Nat /\ cmd.target \in Nat
         /\ Threads = 1..cmd.threads /\ IsFiniteSet(Threads) /\ Cardinality(Threads) = cmd.threads
         /\ \A S \in SUBSET Threads : IsFiniteSet(S) /\ Cardinality(S) \in 0..cmd.threads
<1>1. cmd.threads \in Nat /\ cmd.target \in Nat /\ Threads = 1..cmd.threads
  BY ShareAssumption DEF Allowed, Perf, Threads
<1>2. IsFiniteSet(Threads) /\ Cardinality(Threads) = cmd.threads
  BY <1>1, FS_Interval
<1>3. ASSUME NEW S \in SUBSET Threads
      PROVE  IsFiniteSet(S) /\ Cardinality(S) \in 0..cmd.threads
  <2>1. IsFiniteSet(S) /\ Cardinality(S) <= cmd.threads
    BY <1>2, FS_Subset
  <2>2. Cardinality(S) \in Nat
    BY <2>1, FS_CardinalityType
  <2> QED
    BY <1>1, <2>1, <2>2
<1> QED
  BY <1>1, <1>2, <1>3

LEMMA RoomType ==
  ASSUME Allowed, Perf
  PROVE  Room \in Nat /\ Room <= cmd.threads
<1>1. Waiting \in SUBSET Threads
  BY DEF Waiting
<1>2. Cardinality(Waiting) \in 0..cmd.threads /\ cmd.threads \in Nat
  BY <1>1, ThreadsAreCounted
<1> QED
  BY <1>2 DEF Room

\* A worker that stops waiting makes room.
LEMMA RoomGrows ==
  ASSUME Allowed, Perf, SameCommand, NEW w \in Threads, at[w] = "wait", NEW label, label # "wait",
         DOMAIN at = Workers, IsShare, at' = [at EXCEPT ![w] = label]
  PROVE  Room' = Room + 1
<1>1. w \in Workers
  BY ThreadsAreWorkers
<1>2. Threads' = Threads /\ cmd' = cmd
  BY SameShareCommand DEF SameCommand
<1>3. Waiting' = Waiting \ {w} /\ w \in Waiting
  <2>1. \A v \in Workers : at'[v] = IF v = w THEN label ELSE at[v]
    OBVIOUS
  <2>2. \A v \in Threads : v \in Workers
    BY ThreadsAreWorkers
  <2> QED
    BY <1>2, <2>1, <2>2 DEF Waiting
<1>4. Waiting \in SUBSET Threads
  BY DEF Waiting
<1>5. IsFiniteSet(Waiting) /\ Cardinality(Waiting) \in 0..cmd.threads /\ cmd.threads \in Nat
  BY <1>4, ThreadsAreCounted
<1>6. Cardinality(Waiting \ {w}) = Cardinality(Waiting) - 1
  BY <1>3, <1>5, FS_RemoveElement
<1> QED
  BY <1>2, <1>3, <1>5, <1>6 DEF Room

LEMMA RoomKept ==
  ASSUME SameCommand, at' = at
  PROVE  Room' = Room
  BY SameShareCommand DEF Room, Waiting, SameCommand

LEMMA BatchesAreSmall ==
  ASSUME NEW S \in SUBSET Record, NEW T \in SUBSET S
  PROVE  Cardinality(T) \in Nat /\ Cardinality(S) \in Nat /\ Cardinality(T) <= Cardinality(S)
<1>1. IsFiniteSet(S)
  BY RecordsAreFinite
<1>2. IsFiniteSet(T) /\ Cardinality(T) <= Cardinality(S)
  BY <1>1, FS_Subset
<1> QED
  BY <1>1, <1>2, FS_CardinalityType

LEMMA LimitsType ==
  ASSUME Allowed, Single
  PROVE  cmd.max \subseteq Nat
  BY ShareAssumption DEF Allowed, Single

\* A step that counts nothing and takes no more records in hand.
LEMMA CountsNothing ==
  ASSUME LimitInv, SendInv, Single, SameCommand, taken' = taken, pc' = "start" => pc = "start",
         at'[1] \in {"batch", "commit"} => at[1] \in {"batch", "commit"} /\ InHand' \subseteq InHand,
         at'[1] = "wait" => at[1] = "wait" \/ Continues
  PROVE  LimitInv'
<1>1. cmd' = cmd
  BY DEF SameCommand
<1>2. ConsumeLimit'
  BY <1>1 DEF LimitInv, ConsumeLimit
<1>3. CrowdLimit'
  BY SameShareCommand DEF CrowdLimit, Single, Perf
<1>4. ASSUME cmd.tool = "verifiable-share-consumer", NEW m \in cmd.max
      PROVE  /\ taken < m + MaxPoll
             /\ at'[1] \in {"wait", "batch", "commit"} => taken < m
  <2>1. Continues => taken < m
    BY <1>4 DEF Continues, UnderLimit, Perf
  <2> QED
    BY <1>4, <2>1 DEF LimitInv, BatchLimit
<1>5. ASSUME cmd.tool = "verifiable-share-consumer", at'[1] \in {"batch", "commit"}
      PROVE  Cardinality(InHand') <= MaxPoll
  <2>1. InHand \in SUBSET Record /\ InHand' \in SUBSET InHand
    BY <1>5 DEF InHand, SendInv, LeaseInv
  <2>2. Cardinality(InHand) <= MaxPoll
    BY <1>5 DEF LimitInv, BatchLimit
  <2> QED
    BY <2>1, <2>2, BatchesAreSmall, MaxDeliveriesType
<1>6. BatchLimit'
  BY <1>1, <1>4, <1>5 DEF BatchLimit
<1> QED
  BY <1>2, <1>3, <1>6 DEF LimitInv

LEMMA PollTakesInHand ==
  ASSUME Allowed, LimitInv, SendInv, ShareTyped, Single, SameCommand, ShareRecords
  PROVE  LimitInv'
<1>1. /\ pc = "run" /\ pc' = pc /\ at[1] = "wait" /\ taken' = taken
      /\ acks' = IF Implicit THEN [acks EXCEPT ![1] = AllAccepted(batch')] ELSE acks
      /\ batch' \in Polled(1)
  BY DEF ShareRecords
<1>2. cmd' = cmd
  BY DEF SameCommand
<1>3. ConsumeLimit'
  BY <1>1, <1>2 DEF LimitInv, ConsumeLimit
<1>4. CrowdLimit'
  BY SameShareCommand DEF CrowdLimit, Single, Perf
<1>5. acks[1] = NoAcks
  BY <1>1 DEF SendInv, AloneInv, SentBeforePoll
<1>6. \A r \in Record : acks'[1][r] # "none" => r \in batch'
  <2>1. CASE Implicit
    <3>1. acks'[1] = AllAccepted(batch')
      BY <1>1, <2>1, WorkerOne DEF ShareTyped
    <3> QED
      BY <3>1, AllAcceptedType
  <2>2. CASE ~ Implicit
    <3>1. acks'[1] = NoAcks
      BY <1>1, <1>5, <2>2
    <3> QED
      BY <3>1, NoAcksType
  <2> QED
    BY <2>1, <2>2
<1>7. InHand' = batch' /\ Cardinality(batch') <= MaxPoll
  BY <1>1, <1>6, MaxDeliveriesType DEF InHand, Polled, Pollable
<1>8. BatchLimit'
  BY <1>1, <1>2, <1>7 DEF LimitInv, BatchLimit
<1> QED
  BY <1>1, <1>3, <1>4, <1>8 DEF LimitInv

LEMMA RecordCounts ==
  ASSUME Allowed, LimitInv, SendInv, ShareTyped, Single, SameCommand, ShareRecord
  PROVE  LimitInv'
<1> DEFINE r == First(batch)
<1>1. /\ pc = "run" /\ pc' = pc /\ at' = at /\ at[1] = "batch" /\ batch' = batch \ {r} /\ batch # {}
      /\ cmd.tool = "share-consume" => Continues
      /\ taken' = IF cmd.tool = "verifiable-share-consumer" THEN taken ELSE taken + 1
  BY DEF ShareRecord, toolVars
<1>2. r \in Record /\ r \in batch
  BY <1>1, FirstOfBatch DEF SendInv, LeaseInv
<1>3. CASE cmd.tool = "verifiable-share-consumer"
  <2>1. PICK kind : acks' = [acks EXCEPT ![1][r] = kind]
    BY DEF ShareRecord
  <2>2. \A s \in Record : s # r => acks'[1][s] = acks[1][s]
    <3> HIDE DEF r
    <3> QED
      BY <2>1, WorkerOne DEF SendInv, LeaseInv
  <2>3. InHand' \subseteq InHand
    <3> HIDE DEF r
    <3> QED
      BY <1>1, <1>2, <2>2 DEF InHand
  <2> HIDE DEF r
  <2> QED
    BY <1>1, <1>3, <2>3, CountsNothing
<1>4. CASE cmd.tool = "share-consume"
  <2>1. \A m \in cmd.max : taken < m
    BY <1>1, <1>4 DEF Continues, UnderLimit, Perf
  <2>2. cmd' = cmd /\ taken \in Nat /\ taken' = taken + 1 /\ cmd.max \subseteq Nat
    BY <1>1, <1>4, LimitsType DEF SameCommand, LimitInv
  <2>3. ConsumeLimit'
    BY <2>1, <2>2 DEF ConsumeLimit
  <2>4. CrowdLimit' /\ BatchLimit'
    BY <1>4, <2>2, SameShareCommand DEF CrowdLimit, BatchLimit, Perf
  <2> QED
    BY <1>1, <2>2, <2>3, <2>4 DEF LimitInv
<1> QED
  BY <1>3, <1>4 DEF Single

LEMMA CommitCounts ==
  ASSUME Allowed, LimitInv, SendInv, ShareTyped, Single, SameCommand, ShareCommit
  PROVE  LimitInv'
<1>1. /\ pc = "run" /\ pc' = pc /\ at[1] = "commit"
      /\ at' = [at EXCEPT ![1] = "poll"] \/ at' = [at EXCEPT ![1] = "stopped"]
      /\ taken' = taken \/ (cmd.tool # "share-consume" /\ taken' = taken + Batched)
  BY DEF ShareCommit, MoveTo
<1>2. at'[1] \in {"poll", "stopped"}
  BY <1>1, WorkerOne DEF ShareTyped
<1>3. CASE taken' = taken
  BY <1>1, <1>2, <1>3, CountsNothing
<1>4. CASE cmd.tool = "verifiable-share-consumer" /\ taken' = taken + Batched
  <2>1. InHand \in SUBSET Record /\ {r \in Record : acks[1][r] # "none"} \in SUBSET InHand
    BY DEF InHand, SendInv, LeaseInv
  <2>2. Cardinality(InHand) <= MaxPoll
    BY <1>1, <1>4 DEF LimitInv, BatchLimit
  <2>3. Batched \in Nat /\ Batched <= MaxPoll
    BY <2>1, <2>2, BatchesAreSmall, MaxDeliveriesType DEF Batched
  <2>4. taken \in Nat /\ taken' \in Nat /\ cmd' = cmd
    BY <1>4, <2>3 DEF LimitInv, SameCommand
  <2>5. ASSUME NEW m \in cmd.max
        PROVE  taken' < m + MaxPoll
    <3>1. taken < m /\ m \in Nat
      BY <1>1, <1>4, <2>4, LimitsType DEF LimitInv, BatchLimit
    <3> QED
      BY <1>4, <2>3, <2>4, <3>1, MaxDeliveriesType
  <2>6. BatchLimit'
    BY <1>2, <2>4, <2>5 DEF BatchLimit
  <2>7. CrowdLimit' /\ ConsumeLimit'
    BY <1>4, <2>4, SameShareCommand DEF CrowdLimit, ConsumeLimit, Perf
  <2> QED
    BY <1>1, <2>4, <2>6, <2>7 DEF LimitInv
<1> QED
  BY <1>1, <1>3, <1>4 DEF Single

LEMMA AloneKeepsLimit ==
  ASSUME Allowed, LimitInv, SendInv, ShareTyped, Single, SameCommand, SharesNext
  PROVE  LimitInv'
<1>0. ~ Perf
  BY DEF Single, Perf
<1>1. ASSUME batch' \subseteq batch, acks' = acks
      PROVE  InHand' \subseteq InHand
  BY <1>1 DEF InHand
<1>2. CASE UNCHANGED shareVars /\ (pc' = "start" => pc = "start")
  BY <1>1, <1>2, CountsNothing DEF shareVars
<1>3. SharesEnvironment => LimitInv'
  BY <1>1, <1>2, CountsNothing DEF SharesEnvironment, Expire, OtherAccepts, Interrupt, End, toolVars
<1>4. CASE ShareConsumeStart \/ VerifiableShareStart
  <2>1. /\ UNCHANGED <<batch, acks, taken>> /\ pc' # "start"
        /\ at' = at \/ at' = [w \in Workers |-> IF w \in Threads THEN "poll" ELSE "idle"]
    BY <1>4 DEF ShareConsumeStart, VerifiableShareStart, UnchangedShares, Joins, Refuses, Goto, End
  <2>2. at'[1] = at[1] \/ at'[1] \in {"poll", "idle"}
    BY <2>1, WorkerOne
  <2> QED
    BY <1>1, <2>1, <2>2, CountsNothing
<1>5. ASSUME NEW w \in Workers, SharePoll(w) \/ ShareNothing(w) \/ ShareIdle(w) \/ SharePollFails(w)
      PROVE  LimitInv'
  <2>1. UNCHANGED <<batch, acks, taken>> /\ pc = "run" /\ pc' # "start"
    BY <1>5 DEF SharePoll, ShareNothing, ShareIdle, SharePollFails, End
  <2>2. PICK label \in {"poll", "wait", "stopped"} :
          at' = [at EXCEPT ![w] = label] /\ (label = "wait" => Continues)
    BY <1>0, <1>5 DEF SharePoll, ShareNothing, ShareIdle, SharePollFails, MoveTo
  <2>3. at'[1] = at[1] \/ at'[1] = label
    BY <2>2, WorkerOne DEF ShareTyped
  <2> QED
    BY <1>1, <2>1, <2>2, <2>3, CountsNothing
<1>6. CASE ShareHears \/ ShareRecordFails \/ BatchOver
  <2>1. acks' = acks /\ batch' \subseteq batch /\ taken' = taken /\ pc' = pc
    BY <1>6 DEF ShareHears, ShareRecordFails, BatchOver, toolVars
  <2>2. at'[1] = "stopped" \/ (at[1] = "batch" /\ at'[1] = "commit")
    BY <1>6, WorkerOne DEF ShareHears, ShareRecordFails, BatchOver, MoveTo, ShareTyped
  <2> QED
    BY <1>1, <2>1, <2>2, CountsNothing
<1>7. CASE ShareClose
  <2>1. at' = at /\ at[1] = "stopped" /\ taken' = taken /\ pc' = "done"
    BY <1>7 DEF ShareClose, End
  <2> QED
    BY <2>1, CountsNothing
<1>8. ~ SharePerfStart /\ ~ PerfCommits /\ \A w : ~ PerfRecords(w)
  BY <1>0 DEF SharePerfStart, PerfCommits, PerfRecords
<1> QED
  BY <1>3, <1>4, <1>5, <1>6, <1>7, <1>8, PollTakesInHand, RecordCounts, CommitCounts
     DEF SharesNext, SharesStep, WorkerStep

\* A step of the performance test that counts nothing.
LEMMA CrowdCountsNothing ==
  ASSUME LimitInv, Perf, SameCommand, taken' = taken, pc' = "start" => pc = "start",
         pc' = "run" => taken < cmd.target + MaxPoll * Room'
  PROVE  LimitInv'
<1>1. cmd' = cmd
  BY DEF SameCommand
<1>2. ConsumeLimit' /\ BatchLimit'
  BY <1>1 DEF ConsumeLimit, BatchLimit, Perf
<1> QED
  BY <1>1, <1>2 DEF LimitInv, CrowdLimit

LEMMA CrowdMoves ==
  ASSUME Allowed, IsShare, ShareTyped, LimitInv, Perf, SameCommand, taken' = taken, pc = "run", pc' = pc,
         NEW w \in Threads, NEW label, at' = [at EXCEPT ![w] = label],
         label = "wait" => taken < cmd.target
  PROVE  LimitInv'
<1>1. Room \in Nat /\ Room' \in Nat
  <2>1. Waiting' \in SUBSET Threads
    BY SameShareCommand DEF Waiting
  <2>2. Cardinality(Waiting') \in 0..cmd.threads /\ cmd.threads \in Nat
    BY <2>1, ThreadsAreCounted
  <2>3. Room' = cmd.threads - Cardinality(Waiting')
    BY DEF Room, SameCommand
  <2> QED
    BY <2>2, <2>3, RoomType
<1>2. /\ taken \in Nat /\ cmd.target \in Nat /\ MaxPoll \in Nat
      /\ taken < cmd.target + MaxPoll * Room
  BY ThreadsAreCounted, MaxDeliveriesType DEF LimitInv, CrowdLimit
<1>3. CASE label = "wait"
  <2>1. MaxPoll * Room' \in Nat
    BY <1>1, <1>2, TimesType
  <2>2. taken < cmd.target + MaxPoll * Room'
    BY <1>2, <1>3, <2>1
  <2> QED
    BY <2>2, CrowdCountsNothing
<1>4. CASE label # "wait" /\ at[w] = "wait"
  <2>1. Room' = Room + 1
    BY <1>4, RoomGrows DEF ShareTyped
  <2>2. MaxPoll * (Room + 1) = MaxPoll * Room + MaxPoll
    BY <1>1, <1>2, OnceMore
  <2>3. MaxPoll * Room \in Nat
    BY <1>1, <1>2
  <2>4. taken < cmd.target + MaxPoll * Room'
    BY <1>2, <2>1, <2>2, <2>3
  <2> QED
    BY <2>4, CrowdCountsNothing
<1>5. CASE label # "wait" /\ at[w] # "wait"
  <2>1. \A v \in Workers : at'[v] = IF v = w THEN label ELSE at[v]
    BY DEF ShareTyped
  <2>2. \A v \in Threads : v \in Workers
    BY ThreadsAreWorkers
  <2>3. Waiting' = Waiting
    BY <1>5, <2>1, <2>2, SameShareCommand DEF Waiting
  <2>4. Room' = Room
    BY <2>3 DEF Room, SameCommand
  <2> QED
    BY <1>2, <2>4, CrowdCountsNothing
<1> QED
  BY <1>3, <1>4, <1>5

LEMMA CrowdReads ==
  ASSUME Allowed, IsShare, ShareTyped, LimitInv, SendInv, Perf, SameCommand,
         NEW w \in Workers, PerfRecords(w)
  PROVE  LimitInv'
<1>1. pc = "run" /\ pc' = pc /\ at[w] = "wait" /\ at' = [at EXCEPT ![w] = "poll"]
  BY DEF PerfRecords, MoveTo, toolVars
<1>2. PICK records \in Polled(w) : taken' = taken + Cardinality(records)
  BY DEF PerfRecords
<1>3. w \in Threads
  BY <1>1 DEF SendInv, CrowdInv
<1>4. Room' = Room + 1
  BY <1>1, <1>3, RoomGrows DEF ShareTyped
<1>5. Room \in Nat /\ taken \in Nat /\ cmd.target \in Nat /\ MaxPoll \in Nat /\ cmd' = cmd
  BY RoomType, ThreadsAreCounted, MaxDeliveriesType DEF LimitInv, SameCommand
<1>6. MaxPoll * (Room + 1) = MaxPoll * Room + MaxPoll
  BY <1>5, OnceMore
<1>7. MaxPoll * Room \in Nat /\ taken < cmd.target + MaxPoll * Room
  BY <1>1, <1>5 DEF LimitInv, CrowdLimit
<1>8. Cardinality(records) \in Nat /\ Cardinality(records) <= MaxPoll
  BY <1>2, <1>5 DEF Polled
<1>9. taken' \in Nat
  BY <1>2, <1>5, <1>8
<1>10. taken' < cmd.target + MaxPoll * Room'
  BY <1>2, <1>4, <1>5, <1>6, <1>7, <1>8
<1>11. ConsumeLimit' /\ BatchLimit'
  BY <1>5 DEF ConsumeLimit, BatchLimit, Perf
<1> QED
  BY <1>1, <1>5, <1>9, <1>10, <1>11 DEF LimitInv, CrowdLimit

LEMMA CrowdKeepsLimit ==
  ASSUME Allowed, IsShare, ShareTyped, AckInv, LimitInv, SendInv, Perf, SameCommand, SharesNext
  PROVE  LimitInv'
<1>0. ~ Single /\ cmd' = cmd /\ batch = {}
  BY DEF Single, Perf, SameCommand, AckInv
<1>1. ASSUME at' = at, taken' = taken, pc' \in {pc, "done"}
      PROVE  LimitInv'
  <2>1. pc' = "run" => taken < cmd.target + MaxPoll * Room'
    BY <1>1, RoomKept DEF LimitInv, CrowdLimit
  <2> QED
    BY <1>1, <2>1, CrowdCountsNothing
<1>2. SharesEnvironment => LimitInv'
  BY <1>1 DEF SharesEnvironment, Expire, OtherAccepts, Interrupt, End, toolVars, shareVars
<1>3. CASE SharePerfStart
  <2>1. /\ pc = "start" /\ taken' = taken /\ pc' # "start"
        /\ pc' = "run" => /\ cmd.threads > 0
                          /\ at' = [w \in Workers |-> IF w \in Threads THEN "poll" ELSE "idle"]
    BY <1>3 DEF SharePerfStart, UnchangedShares, Joins, Refuses, Goto, End, SharePerfArgsOk
  <2>2. ASSUME pc' = "run"
        PROVE  taken < cmd.target + MaxPoll * Room'
    <3>1. \A v \in Threads : at'[v] # "wait"
      BY <2>1, <2>2, ThreadsAreWorkers
    <3>2. Waiting' = {}
      BY <3>1, SameShareCommand DEF Waiting
    <3>3. Room' = cmd.threads /\ cmd.threads \in Nat /\ cmd.threads >= 1 /\ cmd.target \in Nat
      BY <1>0, <2>1, <2>2, <3>2, ThreadsAreCounted, FS_EmptySet DEF Room
    <3>4. MaxPoll * 1 <= MaxPoll * cmd.threads
      BY <3>3, MoreTimes, MaxDeliveriesType
    <3>5. MaxPoll * cmd.threads > 0
      BY <3>3, <3>4, MaxDeliveriesType
    <3>6. taken = 0
      BY <2>1 DEF LimitInv
    <3> QED
      BY <3>3, <3>5, <3>6, MaxDeliveriesType
  <2> QED
    BY <2>1, <2>2, CrowdCountsNothing
<1>4. ASSUME NEW w \in Workers, SharePoll(w) \/ ShareNothing(w) \/ ShareIdle(w)
      PROVE  LimitInv'
  <2>1. pc = "run" /\ pc' = pc /\ taken' = taken /\ at[w] # "idle"
    BY <1>4 DEF SharePoll, ShareNothing, ShareIdle
  <2>2. PICK label : at' = [at EXCEPT ![w] = label] /\ (label = "wait" => Continues)
    BY <1>4 DEF SharePoll, ShareNothing, ShareIdle, MoveTo
  <2>3. w \in Threads
    BY <2>1 DEF SendInv, CrowdInv
  <2>4. Continues => taken < cmd.target
    BY DEF Continues
  <2> QED
    BY <2>1, <2>2, <2>3, <2>4, CrowdMoves
<1>5. ASSUME NEW w \in Workers, SharePollFails(w)
      PROVE  LimitInv'
  BY <1>1, <1>5 DEF SharePollFails, End
<1>6. CASE PerfCommits
  <2>1. taken' = taken /\ pc = "run" /\ pc' \in {"run", "done"}
    BY <1>6 DEF PerfCommits, End
  <2>2. ASSUME NEW w \in Threads, at' = [at EXCEPT ![w] = "committed"], pc' = pc
        PROVE  LimitInv'
    BY <2>1, <2>2, CrowdMoves
  <2> QED
    BY <1>1, <1>6, <2>1, <2>2 DEF PerfCommits, MoveTo
<1>7. CASE BatchOver
  <2>1. /\ pc = "run" /\ pc' = pc /\ taken' = taken /\ at[1] = "batch"
        /\ at' = [at EXCEPT ![1] = "commit"]
    BY <1>7 DEF BatchOver, MoveTo, toolVars
  <2>2. 1 \in Threads
    BY <2>1, WorkerOne DEF SendInv, CrowdInv
  <2> QED
    BY <2>1, <2>2, CrowdMoves
<1>8. /\ ~ ShareConsumeStart /\ ~ VerifiableShareStart /\ ~ ShareRecords /\ ~ ShareRecord
      /\ ~ ShareHears /\ ~ ShareCommit /\ ~ ShareClose /\ ~ ShareRecordFails
  BY <1>0 DEF Perf, ShareConsumeStart, VerifiableShareStart, ShareRecords, ShareRecord, ShareHears,
       ShareCommit, ShareClose, ShareRecordFails
<1> QED
  BY <1>2, <1>3, <1>4, <1>5, <1>6, <1>7, <1>8, CrowdReads DEF SharesNext, SharesStep, WorkerStep

LEMMA LimitInvKept ==
  ASSUME Allowed, ToolInv, ShareInv, IsShare => SendInv, IsShare => LimitInv, [Next]_dataPlaneVars
  PROVE  (IsShare => LimitInv)'
<1>0. SameCommand /\ IsShare' = IsShare
  BY CommandKept, SameKind
<1>1. CASE IsShare /\ SharesNext
  <2>1. Single \/ Perf
    BY <1>1 DEF IsShare, ShareTools, Single, Perf
  <2> QED
    BY <1>0, <1>1, <2>1, AloneKeepsLimit, CrowdKeepsLimit DEF ShareInv
<1>2. CASE IsShare /\ UNCHANGED shareVars /\ UNCHANGED toolVars
  BY <1>0, <1>2
     DEF LimitInv, ConsumeLimit, BatchLimit, CrowdLimit, InHand, Room, Waiting, Threads, Perf, shareVars,
         toolVars
<1> QED
  BY <1>0, <1>1, <1>2, ShareOrStill

LEMMA LimitInvStarts == Init => LimitInv
<1> SUFFICES ASSUME Init
             PROVE  LimitInv
  OBVIOUS
<1>1. taken = 0 /\ pc = "start" /\ at = [w \in Workers |-> "idle"] /\ Allowed
  BY DEF Init, ToolInit, SharesIdle, Allowed
<1>2. at[1] = "idle"
  BY <1>1, WorkerOne
<1>3. \A m \in cmd.max : Single => m \in Nat
  BY <1>1, LimitsType
<1> QED
  BY <1>1, <1>2, <1>3, MaxDeliveriesType DEF LimitInv, ConsumeLimit, BatchLimit, CrowdLimit, Single

LEMMA LimitInvImplies ==
  ASSUME Allowed, IsShare => LimitInv
  PROVE  ReadsWithinLimit
<1> SUFFICES ASSUME IsShare, pc = "run"
             PROVE  CASE cmd.tool = "share-consume" -> \A m \in cmd.max : taken <= m
                      [] cmd.tool = "verifiable-share-consumer" ->
                           \A m \in cmd.max : taken < m + MaxPoll
                      [] OTHER -> taken < cmd.target + MaxPoll * Cardinality(Threads)
  BY DEF ReadsWithinLimit
<1>1. CASE cmd.tool = "share-consume"
  BY <1>1 DEF LimitInv, ConsumeLimit
<1>2. CASE cmd.tool = "verifiable-share-consumer"
  BY <1>2 DEF LimitInv, BatchLimit
<1>3. CASE Perf
  <2>1. /\ Cardinality(Threads) = cmd.threads /\ cmd.threads \in Nat /\ cmd.target \in Nat /\ taken \in Nat
        /\ Room \in Nat /\ Room <= cmd.threads /\ MaxPoll \in Nat
        /\ taken < cmd.target + MaxPoll * Room
    BY <1>3, ThreadsAreCounted, RoomType, MaxDeliveriesType DEF LimitInv, CrowdLimit
  <2>2. MaxPoll * Room <= MaxPoll * cmd.threads
    BY <2>1, MoreTimes
  <2>3. MaxPoll * Room \in Nat /\ MaxPoll * cmd.threads \in Nat
    BY <2>1
  <2>4. taken < cmd.target + MaxPoll * Cardinality(Threads)
    BY <2>1, <2>2, <2>3
  <2> QED
    BY <1>3, <2>4 DEF Perf
<1> QED
  BY <1>1, <1>2, <1>3 DEF IsShare, ShareTools, Perf

-----------------------------------------------------------------------------
(* What the reader of a verifiable tool is told *)

Start == "startup_complete"
Asked == "shutdown_requested"
Over == "shutdown_complete"

ProducerEvents ==
  cmd.tool = "verifiable-producer" =>
    /\ pc = "start" => events = <<>>
    /\ pc \notin {"start", "done"} => events = <<Start>>
    /\ pc = "done" =>
         \/ exit # "ok" /\ events \in {<<>>, <<Start>>, <<Start, Over>>}
         \/ events = <<Start, Over, "tool_data">>

\* A signal that was heard, or is about to be, is pending, and no other.
ConsumerEvents ==
  cmd.tool = "verifiable-consumer" =>
    /\ pc = "start" => events = <<>> /\ signal # "pending"
    /\ pc \notin {"start", "close", "done"} => events = <<Start>> /\ (signal = "pending" => pc = "wait")
    /\ pc = "close" => events = IF signal = "pending" THEN <<Start, Asked>> ELSE <<Start>>
    /\ pc = "done" =>
         \/ exit # "ok" /\ events \in {<<>>, <<Start>>, <<Start, Asked>>}
         \/ events = IF signal = "pending" THEN <<Start, Asked, Over>> ELSE <<Start, Over, Asked>>

ShareEvents ==
  cmd.tool = "verifiable-share-consumer" =>
    /\ pc \in {"start", "run", "done"}
    /\ \A w \in Workers \ {1} : at[w] = "idle"
    /\ pc = "start" => events = <<>> /\ signal # "pending" /\ at[1] = "idle"
    /\ pc = "run" =>
         \/ at[1] # "stopped" /\ events = <<Start>> /\ (signal = "pending" => at[1] = "wait")
         \/ /\ at[1] = "stopped"
            /\ events = IF signal = "pending" THEN <<Start, Asked>> ELSE <<Start>>
    /\ pc = "done" =>
         \/ exit # "ok" /\ events \in {<<>>, <<Start>>}
         \/ events = IF signal = "pending" THEN <<Start, Asked, Over>> ELSE <<Start, Over>>

OtherEvents ==
  ~ Verifiable => /\ pc # "done" => events = <<>>
                  /\ events \in {<<>>, <<Over>>}

EventsInv == ProducerEvents /\ ConsumerEvents /\ ShareEvents /\ OtherEvents

LEMMA Told ==
  ASSUME NEW S, NEW x \in S, NEW y \in S, NEW z \in S
  PROVE  /\ Append(<<>>, x) = <<x>> /\ Append(<<x>>, y) = <<x, y>> /\ Append(<<x, y>>, z) = <<x, y, z>>
         /\ <<x>> \o <<y, z>> = <<x, y, z>> /\ <<x, y>> \o <<z>> = <<x, y, z>>
<1>0. /\ <<>> \in Seq(S) /\ <<x>> \in Seq(S) /\ <<x, y>> \in Seq(S) /\ <<x, y, z>> \in Seq(S)
      /\ <<y, z>> \in Seq(S) /\ <<z>> \in Seq(S)
  OBVIOUS
<1> USE <1>0
<1>1. Append(<<>>, x) = <<x>>
  <2>1. Append(<<>>, x) \in Seq(S) /\ <<x>> \in Seq(S)
    OBVIOUS
  <2>2. Len(Append(<<>>, x)) = 1 /\ Len(<<x>>) = 1
    OBVIOUS
  <2>3. \A i \in 1..1 : (Append(<<>>, x))[i] = <<x>>[i]
    OBVIOUS
  <2> QED
    BY <2>1, <2>2, <2>3, SeqEqual
<1>2. Append(<<x>>, y) = <<x, y>>
  <2>1. Append(<<x>>, y) \in Seq(S) /\ <<x, y>> \in Seq(S)
    OBVIOUS
  <2>2. Len(Append(<<x>>, y)) = 2 /\ Len(<<x, y>>) = 2
    OBVIOUS
  <2>3. \A i \in 1..2 : (Append(<<x>>, y))[i] = <<x, y>>[i]
    OBVIOUS
  <2> QED
    BY <2>1, <2>2, <2>3, SeqEqual
<1>3. Append(<<x, y>>, z) = <<x, y, z>>
  <2>1. Append(<<x, y>>, z) \in Seq(S) /\ <<x, y, z>> \in Seq(S)
    OBVIOUS
  <2>2. Len(Append(<<x, y>>, z)) = 3 /\ Len(<<x, y, z>>) = 3
    OBVIOUS
  <2>3. \A i \in 1..3 : (Append(<<x, y>>, z))[i] = <<x, y, z>>[i]
    OBVIOUS
  <2> QED
    BY <2>1, <2>2, <2>3, SeqEqual
<1>4. <<x>> \o <<y, z>> = <<x, y, z>>
  <2>1. <<x>> \o <<y, z>> \in Seq(S) /\ <<x, y, z>> \in Seq(S)
    OBVIOUS
  <2>2. Len(<<x>> \o <<y, z>>) = 3 /\ Len(<<x, y, z>>) = 3
    OBVIOUS
  <2>3. \A i \in 1..3 : (<<x>> \o <<y, z>>)[i] = <<x, y, z>>[i]
    OBVIOUS
  <2> QED
    BY <2>1, <2>2, <2>3, SeqEqual
<1>5. <<x, y>> \o <<z>> = <<x, y, z>>
  <2>1. <<x, y>> \o <<z>> \in Seq(S) /\ <<x, y, z>> \in Seq(S)
    OBVIOUS
  <2>2. Len(<<x, y>> \o <<z>>) = 3 /\ Len(<<x, y, z>>) = 3
    OBVIOUS
  <2>3. \A i \in 1..3 : (<<x, y>> \o <<z>>)[i] = <<x, y, z>>[i]
    OBVIOUS
  <2> QED
    BY <2>1, <2>2, <2>3, SeqEqual
<1> QED
  BY <1>1, <1>2, <1>3, <1>4, <1>5

LEMMA TuplePlaces ==
  ASSUME NEW x, NEW y, NEW z
  PROVE  /\ DOMAIN <<>> = {} /\ DOMAIN <<x>> = 1..1 /\ DOMAIN <<x, y>> = 1..2
         /\ DOMAIN <<x, y, z>> = 1..3
         /\ <<x>>[1] = x /\ <<x, y>>[1] = x /\ <<x, y>>[2] = y
         /\ <<x, y, z>>[1] = x /\ <<x, y, z>>[2] = y /\ <<x, y, z>>[3] = z
<1>1. DOMAIN <<>> = {}
  OBVIOUS
<1>2. DOMAIN <<x>> = 1..1 /\ <<x>>[1] = x
  OBVIOUS
<1>3. DOMAIN <<x, y>> = 1..2 /\ <<x, y>>[1] = x /\ <<x, y>>[2] = y
  OBVIOUS
<1>4. DOMAIN <<x, y, z>> = 1..3 /\ <<x, y, z>>[1] = x /\ <<x, y, z>>[2] = y /\ <<x, y, z>>[3] = z
  OBVIOUS
<1> QED
  BY <1>1, <1>2, <1>3, <1>4

LEMMA EventsDiffer ==
  Start # Asked /\ Start # Over /\ Asked # Over /\ Start # "tool_data" /\ Asked # "tool_data" /\ Over # "tool_data"
  BY DEF Start, Asked, Over

LEMMA Appends ==
  /\ Append(<<>>, Start) = <<Start>> /\ Append(<<>>, Over) = <<Over>>
  /\ Append(<<Start>>, Asked) = <<Start, Asked>> /\ Append(<<Start>>, Over) = <<Start, Over>>
  /\ Append(<<Start, Asked>>, Over) = <<Start, Asked, Over>>
  /\ <<Start>> \o <<Over, "tool_data">> = <<Start, Over, "tool_data">>
  /\ <<Start>> \o <<Over, Asked>> = <<Start, Over, Asked>>
  /\ <<Start, Asked>> \o <<Over>> = <<Start, Asked, Over>>
<1> DEFINE S == {Start, Asked, Over, "tool_data"}
<1>1. Start \in S /\ Asked \in S /\ Over \in S /\ "tool_data" \in S
  OBVIOUS
<1> HIDE DEF S
<1>2. Append(<<>>, Start) = <<Start>> /\ Append(<<Start>>, Asked) = <<Start, Asked>>
      /\ Append(<<Start, Asked>>, Over) = <<Start, Asked, Over>>
      /\ <<Start, Asked>> \o <<Over>> = <<Start, Asked, Over>>
  BY <1>1, Told, ZenonT(40)
<1>3. Append(<<>>, Over) = <<Over>> /\ Append(<<Start>>, Over) = <<Start, Over>>
  BY <1>1, Told
<1>4. <<Start>> \o <<Over, "tool_data">> = <<Start, Over, "tool_data">>
  BY <1>1, Told
<1>5. <<Start>> \o <<Over, Asked>> = <<Start, Over, Asked>>
  BY <1>1, Told
<1> QED
  BY <1>2, <1>3, <1>4, <1>5

LEMMA SaidAsked ==
  /\ events = <<Start, Asked>> => Said(Asked)
  /\ events = <<Start>> => ~ Said(Asked)
<1>1. ASSUME events = <<Start, Asked>>
      PROVE  Said(Asked)
  <2>1. 2 \in DOMAIN events /\ events[2] = Asked
    BY <1>1, TuplePlaces
  <2> QED
    BY <2>1 DEF Said
<1>2. ASSUME events = <<Start>>
      PROVE  ~ Said(Asked)
  <2>1. \A i \in DOMAIN events : events[i] = Start
    BY <1>2, TuplePlaces
  <2> QED
    BY <2>1, EventsDiffer DEF Said
<1> QED
  BY <1>1, <1>2

LEMMA ProducerEventsKept ==
  ASSUME ProducerEvents, ToolInv, cmd.tool = "verifiable-producer", SameCommand, ProducersNext
  PROVE  ProducerEvents'
<1> USE Appends DEF ProducerEvents, SameCommand, Start, Over
<1>1. CASE UNCHANGED toolVars
  BY <1>1 DEF toolVars
<1>2. CASE Interrupt(TRUE)
  BY <1>2 DEF Interrupt, End, ToolInv, Running
<1>3. CASE VerifiableStart
  BY <1>3 DEF VerifiableStart, Goto, End, ToolInv
<1>4. CASE VerifiableTurn \/ VerifiableWait
  BY <1>4 DEF VerifiableTurn, VerifiableWait, Goto, End
<1>5. CASE VerifiableDrain
  <2>1. events = <<Start>> /\ pc = "drain"
    BY <1>5 DEF VerifiableDrain
  <2>2. \/ pc' = "drain" /\ events' = events
        \/ pc' = "done" /\ exit' = "error" /\ events' \in {events, Append(events, "shutdown_complete")}
        \/ pc' = "done" /\ events' = events \o <<"shutdown_complete", "tool_data">>
    BY <1>5 DEF VerifiableDrain, Goto, End
  <2> QED
    BY <2>1, <2>2
<1>6. ASSUME NEW i \in Record, Deliver(i) \/ WriteEvent(i)
      PROVE  ProducerEvents'
  BY <1>1, <1>6 DEF Deliver, WriteEvent
<1>7. ~ ForeignRecord /\ ~ PerfWake /\ ~ Produce /\ ~ ProducerPerf /\ ~ Latency
  BY DEF ForeignRecord, PerfWake, Produce, ProduceStart, ProduceLine, ProduceAwaitOne, ProduceAwaitAll,
       ProducerPerf, PerfStart, PerfSend, PerfSent, PerfCommit, PerfGoOn, PerfFlush, PerfReport,
       Latency, LatencyStart, LatencySend, LatencyRead, LatencyEnd
<1> QED
  BY <1>2, <1>3, <1>4, <1>5, <1>6, <1>7
     DEF ProducersNext, ProducersEnvironment, ProducersStep, VerifiableProducer

LEMMA ConsumerEventsKept ==
  ASSUME Allowed, ConsumerEvents, ToolInv, cmd.tool = "verifiable-consumer", SameCommand, ConsumersNext
  PROVE  ConsumerEvents'
<1> USE Appends DEF ConsumerEvents, SameCommand
<1>1. CASE UNCHANGED toolVars
  BY <1>1 DEF toolVars
<1>2. CASE Interrupt(pc = "wait")
  BY <1>2 DEF Interrupt, End, ToolInv, Running
<1>3. CASE ConsumerStart
  BY <1>3 DEF ConsumerStart, Goto, End, ToolInv, Start
<1>4. CASE ConsumerPoll \/ ConsumerTake \/ ConsumerIdle \/ ConsumerError
  <2>1. CASE ConsumerPoll
    BY <2>1 DEF ConsumerPoll, Goto, End, Armed
  <2>2. CASE ConsumerTake
    BY <2>2 DEF ConsumerTake, Goto, Drop
  <2>4. ~ ConsumerIdle
    BY ConsumersAssumption DEF ConsumerIdle, Allowed
  <2>3. CASE ConsumerError
    <3>1. pc = "wait" /\ Drop /\ events' = events
      BY <2>3 DEF ConsumerError
    <3>2. pc' = "close"
      BY <2>3 DEF ConsumerError, Goto
    <3> QED
      BY <3>1, <3>2 DEF Drop
  <2> QED
    BY <1>4, <2>1, <2>2, <2>3, <2>4
<1>5. CASE ConsumerHears
  BY <1>5 DEF ConsumerHears, Goto, End, Asked
<1>6. CASE ConsumerShow \/ CommitRecord
  BY <1>6 DEF ConsumerShow, CommitRecord, Goto, End
<1>7. CASE ConsumerClose
  <2>1. pc = "close" /\ pc' = "done" /\ signal' = signal
    BY <1>7 DEF ConsumerClose, End
  <2>2. CASE exit' = "error" /\ events' = events
    BY <2>1, <2>2
  <2>3. CASE signal = "pending" /\ events' = events \o <<"shutdown_complete">>
    BY <2>1, <2>3 DEF Over
  <2>4. CASE signal # "pending" /\ events' = events \o <<"shutdown_complete", "shutdown_requested">>
    BY <2>1, <2>4 DEF Over, Asked
  <2> QED
    BY <1>7, <2>1, <2>2, <2>3, <2>4, SaidAsked DEF ConsumerClose, End, Asked
<1>8. AppendRecord \/ Revoke \/ Assign \/ AutoCommit => UNCHANGED toolVars
  BY DEF AppendRecord, Revoke, Assign, AutoCommit
<1>9. ~ ConsumerPerfPoll
  BY DEF ConsumerPerfPoll
<1> QED
  BY <1>1, <1>2, <1>3, <1>4, <1>5, <1>6, <1>7, <1>8, <1>9
     DEF ConsumersNext, ConsumersEnvironment, ConsumersStep

LEMMA ShareEventsKept ==
  ASSUME ShareEvents, ShareTyped, ToolInv, cmd.tool = "verifiable-share-consumer", SameCommand, SharesNext
  PROVE  ShareEvents'
<1> USE Appends, WorkerOne DEF ShareEvents, SameCommand
<1>0. ~ Perf /\ Threads = {1} /\ (pc = "run" => exit = "none")
  BY DEF Perf, Threads, ToolInv
<1>1. CASE UNCHANGED toolVars /\ at' = at
  BY <1>1 DEF toolVars
<1>2. CASE Interrupt(at[1] = "wait") /\ at' = at
  <2>1. /\ exit = "none" /\ signal # "pending" /\ events' = events
        /\ \/ signal = "default" /\ pc' = "done" /\ exit' = "killed" /\ signal' = signal
           \/ signal' = (IF at[1] = "wait" THEN "pending" ELSE "missed") /\ pc' = pc /\ exit' = exit
    BY <1>2 DEF Interrupt, End, Running
  <2>2. pc # "done"
    BY <2>1 DEF ToolInv
  <2>3. CASE pc' = "done"
    BY <1>2, <2>1, <2>2, <2>3
  <2>4. CASE pc' = pc
    BY <1>2, <2>1, <2>2, <2>4
  <2> QED
    BY <2>1, <2>3, <2>4
<1>3. CASE VerifiableShareStart
  <2>1. /\ pc = "start" /\ signal' = signal /\ signal # "pending" /\ events = <<>>
        /\ events' = IF AckPatternOk THEN Append(events, "startup_complete") ELSE events
    BY <1>3 DEF VerifiableShareStart
  <2>2. events' \in {<<>>, <<Start>>} /\ (AckPatternOk => events' = <<Start>>)
    BY <2>1 DEF Start
  <2>3. \/ pc' = "done" /\ exit' # "ok" /\ at' = at
        \/ /\ AckPatternOk /\ pc' = "run"
           /\ at' = [w \in Workers |-> IF w \in Threads THEN "poll" ELSE "idle"]
    BY <1>3 DEF VerifiableShareStart, Joins, Refuses, Goto, End
  <2>4. CASE pc' = "done"
    BY <1>0, <2>1, <2>2, <2>3, <2>4
  <2>5. CASE pc' = "run"
    <3>1. at'[1] = "poll" /\ \A w \in Workers \ {1} : at'[w] = "idle"
      BY <1>0, <2>3, <2>5
    <3> QED
      BY <1>0, <2>1, <2>2, <2>3, <2>5, <3>1
  <2> QED
    BY <2>3, <2>4, <2>5
<1>4. ASSUME pc = "run", pc' = "run", NEW label, at' = [at EXCEPT ![1] = label]
      PROVE  at'[1] = label /\ \A w \in Workers \ {1} : at'[w] = "idle"
  BY <1>4 DEF ShareTyped
<1>5. ASSUME NEW w \in Workers, SharePoll(w) \/ ShareNothing(w) \/ ShareIdle(w) \/ SharePollFails(w)
      PROVE  ShareEvents'
  <2>1. pc = "run" /\ pc' = "run" /\ at[w] # "idle" /\ events' = events
    BY <1>0, <1>5 DEF SharePoll, ShareNothing, ShareIdle, SharePollFails
  <2>2. w = 1
    BY <2>1
  <2>3. CASE SharePoll(w)
    <3>1. at[1] = "poll" /\ (signal' = "pending" => signal = "pending")
      BY <2>2, <2>3 DEF SharePoll, Armed
    <3>2. at' = [at EXCEPT ![1] = "wait"] \/ at' = [at EXCEPT ![1] = "stopped"]
      BY <2>2, <2>3 DEF SharePoll, MoveTo
    <3> QED
      BY <1>0, <1>4, <2>1, <3>1, <3>2
  <2>4. CASE ~ SharePoll(w)
    <3>1. at[1] = "wait" /\ Drop
      BY <1>5, <2>2, <2>4 DEF ShareNothing, ShareIdle, SharePollFails
    <3>2. signal' # "pending"
      BY <3>1 DEF Drop
    <3>3. at' = [at EXCEPT ![1] = "poll"] \/ at' = [at EXCEPT ![1] = "stopped"]
      BY <1>0, <1>5, <2>2, <2>4 DEF ShareNothing, ShareIdle, SharePollFails, MoveTo
    <3> QED
      BY <1>0, <1>4, <2>1, <3>1, <3>2, <3>3
  <2> QED
    BY <2>3, <2>4
<1>6. CASE ShareHears
  <2>1. /\ pc = "run" /\ pc' = "run" /\ at[1] = "wait" /\ signal = "pending" /\ signal' = signal
        /\ at' = [at EXCEPT ![1] = "stopped"] /\ events' = Append(events, "shutdown_requested")
    BY <1>6 DEF ShareHears, MoveTo
  <2> QED
    BY <1>0, <1>4, <2>1 DEF Asked
<1>7. CASE ShareRecords
  <2>1. /\ pc = "run" /\ pc' = "run" /\ at[1] = "wait" /\ at' = [at EXCEPT ![1] = "batch"]
        /\ Drop /\ events' = events
    BY <1>7 DEF ShareRecords, MoveTo
  <2>2. signal' # "pending"
    BY <2>1 DEF Drop
  <2> QED
    BY <1>0, <1>4, <2>1, <2>2
<1>8. CASE ShareRecord
  BY <1>1, <1>8 DEF ShareRecord
<1>9. CASE ShareRecordFails \/ BatchOver \/ ShareCommit
  <2>1. /\ pc = "run" /\ pc' = "run" /\ at[1] \in {"batch", "commit"} /\ events' = events /\ signal' = signal
        /\ \E label \in {"poll", "commit", "stopped"} : at' = [at EXCEPT ![1] = label]
    BY <1>9 DEF ShareRecordFails, BatchOver, ShareCommit, MoveTo, toolVars
  <2>2. signal # "pending" /\ events = <<Start>>
    BY <2>1
  <2> QED
    BY <1>0, <1>4, <2>1, <2>2
<1>10. CASE ShareClose
  <2>1. /\ pc = "run" /\ pc' = "done" /\ at[1] = "stopped" /\ at' = at /\ signal' = signal
        /\ events' = Append(events, "shutdown_complete")
    BY <1>10 DEF ShareClose, End
  <2>2. events' = IF signal = "pending" THEN <<Start, Asked, Over>> ELSE <<Start, Over>>
    BY <2>1 DEF Over
  <2> QED
    BY <1>0, <2>1, <2>2
<1>11. ~ ShareConsumeStart /\ ~ SharePerfStart /\ ~ PerfCommits /\ \A w : ~ PerfRecords(w)
  BY <1>0 DEF ShareConsumeStart, SharePerfStart, PerfCommits, PerfRecords
<1>12. SharesEnvironment => ShareEvents'
  BY <1>1, <1>2 DEF SharesEnvironment, Expire, OtherAccepts, shareVars
<1> QED
  BY <1>3, <1>5, <1>6, <1>7, <1>8, <1>9, <1>10, <1>11, <1>12 DEF SharesNext, SharesStep, WorkerStep

\* The other tools tell the reader at most that a share consumer is closed, last.
LEMMA OtherProducersTell ==
  ASSUME ProducersNext, cmd.tool # "verifiable-producer"
  PROVE  events' = events /\ (pc = "done" => pc' = "done")
<1>1. CASE ProducersEnvironment
  BY <1>1 DEF ProducersEnvironment, Deliver, ForeignRecord, PerfWake, Interrupt, End, toolVars
<1>2. CASE ProducersStep
  BY <1>2 DEF ProducersStep, Produce, ProduceStart, ProduceLine, ProduceAwaitOne, ProduceAwaitAll,
       VerifiableProducer, VerifiableStart, VerifiableTurn, VerifiableWait, VerifiableDrain,
       ProducerPerf, PerfStart, PerfSend, PerfSent, PerfCommit, PerfGoOn, PerfFlush, PerfReport,
       Latency, LatencyStart, LatencySend, LatencyRead, LatencyEnd
<1>3. ASSUME NEW i \in Record, WriteEvent(i)
      PROVE  events' = events /\ (pc = "done" => pc' = "done")
  BY <1>3 DEF WriteEvent, toolVars
<1> QED
  BY <1>1, <1>2, <1>3 DEF ProducersNext

LEMMA OtherConsumersTell ==
  ASSUME ConsumersNext, cmd.tool # "verifiable-consumer"
  PROVE  events' = events /\ (pc = "done" => pc' = "done")
  BY DEF ConsumersNext, ConsumersEnvironment, ConsumersStep, AppendRecord, Revoke, Assign, AutoCommit,
         Interrupt, End, ConsumerStart, ConsumerPoll, ConsumerPerfPoll, ConsumerTake, ConsumerHears,
         ConsumerShow, CommitRecord, ConsumerClose, ConsumerIdle, ConsumerError, toolVars,
         IsConsumer, ConsumerTools

LEMMA OtherSharesTell ==
  ASSUME SharesNext, cmd.tool # "verifiable-share-consumer"
  PROVE  \/ events' = events /\ (pc = "done" => pc' = "done")
         \/ pc = "run" /\ pc' = "done" /\ events' = Append(events, "shutdown_complete")
<1>0. ~ Single \/ cmd.tool = "share-consume"
  BY DEF Single
<1>1. CASE SharesEnvironment
  BY <1>1 DEF SharesEnvironment, Expire, OtherAccepts, Interrupt, End, toolVars
<1>2. CASE ShareClose
  BY <1>2 DEF ShareClose, End
<1>3. CASE ShareConsumeStart \/ SharePerfStart \/ ShareRecords \/ ShareRecord \/ BatchOver \/ ShareHears
           \/ ShareCommit \/ PerfCommits \/ ShareRecordFails
  BY <1>0, <1>3 DEF ShareConsumeStart, SharePerfStart, ShareRecords, ShareRecord, BatchOver, ShareHears,
       ShareCommit, PerfCommits, ShareRecordFails, toolVars
<1>4. ASSUME NEW w \in Workers,
             SharePoll(w) \/ PerfRecords(w) \/ ShareNothing(w) \/ ShareIdle(w) \/ SharePollFails(w)
      PROVE  events' = events /\ (pc = "done" => pc' = "done")
  BY <1>4 DEF SharePoll, PerfRecords, ShareNothing, ShareIdle, SharePollFails, toolVars
<1>5. ~ VerifiableShareStart
  BY DEF VerifiableShareStart
<1> QED
  BY <1>1, <1>2, <1>3, <1>4, <1>5 DEF SharesNext, SharesStep, WorkerStep

LEMMA OtherEventsKept ==
  ASSUME OtherEvents, SameCommand, [Next]_dataPlaneVars
  PROVE  OtherEvents'
<1>1. Verifiable' = Verifiable
  BY DEF Verifiable, SameCommand
<1>2. CASE Verifiable
  BY <1>1, <1>2 DEF OtherEvents
<1>3. CASE ~ Verifiable /\ events' = events /\ (pc = "done" => pc' = "done")
  BY <1>1, <1>3 DEF OtherEvents
<1>4. CASE ~ Verifiable /\ pc = "run" /\ pc' = "done" /\ events' = Append(events, "shutdown_complete")
  BY <1>1, <1>4, Appends DEF OtherEvents, Over
<1> QED
  BY <1>2, <1>3, <1>4, OtherProducersTell, OtherConsumersTell, OtherSharesTell
     DEF Next, dataPlaneVars, toolVars, Verifiable

LEMMA EventsInvKept ==
  ASSUME Allowed, ToolInv, ShareInv, EventsInv, [Next]_dataPlaneVars
  PROVE  EventsInv'
<1>0. SameCommand /\ cmd' = cmd
  BY CommandKept DEF SameCommand
<1>1. ProducerEvents'
  <2>1. CASE cmd.tool # "verifiable-producer"
    BY <1>0, <2>1 DEF ProducerEvents
  <2>2. CASE cmd.tool = "verifiable-producer"
    <3>1. ~ IsConsumer /\ ~ IsShare /\ pc # "run"
      BY <2>2 DEF IsConsumer, ConsumerTools, IsShare, ShareTools, ToolInv
    <3>2. SharesNext => UNCHANGED toolVars
      BY <3>1, SharesAlone DEF Expire
    <3>3. CASE UNCHANGED toolVars
      BY <3>3 DEF ProducerEvents, EventsInv, toolVars
    <3> QED
      BY <1>0, <2>2, <3>1, <3>2, <3>3, ConsumersAlone, ProducerEventsKept
         DEF Next, dataPlaneVars, EventsInv
  <2> QED
    BY <2>1, <2>2
<1>2. ConsumerEvents'
  <2>1. CASE cmd.tool # "verifiable-consumer"
    BY <1>0, <2>1 DEF ConsumerEvents
  <2>2. CASE cmd.tool = "verifiable-consumer"
    <3>1. ~ IsProducer /\ ~ IsShare /\ pc # "run"
      BY <2>2 DEF IsProducer, ProducerTools, IsShare, ShareTools, ToolInv
    <3>2. (SharesNext \/ ProducersNext) => UNCHANGED toolVars
      BY <3>1, SharesAlone, ProducersAlone DEF Expire
    <3>3. CASE UNCHANGED toolVars
      BY <3>3 DEF ConsumerEvents, EventsInv, toolVars
    <3> QED
      BY <1>0, <2>2, <3>1, <3>2, <3>3, ConsumerEventsKept DEF Next, dataPlaneVars, EventsInv
  <2> QED
    BY <2>1, <2>2
<1>3. ShareEvents'
  <2>1. CASE cmd.tool # "verifiable-share-consumer"
    BY <1>0, <2>1 DEF ShareEvents
  <2>2. CASE cmd.tool = "verifiable-share-consumer"
    <3>1. IsShare /\ ShareTyped
      BY <2>2 DEF IsShare, ShareTools, ShareInv
    <3>2. CASE SharesNext
      BY <1>0, <2>2, <3>1, <3>2, ShareEventsKept DEF EventsInv
    <3>3. CASE UNCHANGED shareVars /\ UNCHANGED toolVars
      BY <3>3 DEF ShareEvents, EventsInv, toolVars, shareVars
    <3> QED
      BY <3>1, <3>2, <3>3, ShareOrStill
  <2> QED
    BY <2>1, <2>2
<1>4. OtherEvents'
  BY <1>0, OtherEventsKept DEF EventsInv
<1> QED
  BY <1>1, <1>2, <1>3, <1>4 DEF EventsInv

LEMMA EventsInvStarts == Init => EventsInv
<1> SUFFICES ASSUME Init
             PROVE  EventsInv
  OBVIOUS
<1>1. pc = "start" /\ signal = "default" /\ events = <<>> /\ at = [w \in Workers |-> "idle"]
  BY DEF Init, ToolInit, SharesIdle
<1> QED
  BY <1>1, WorkerOne DEF EventsInv, ProducerEvents, ConsumerEvents, ShareEvents, OtherEvents

\* All that a reader may have been told.
Stories == {<<>>, <<Over>>, <<Start>>, <<Start, Asked>>, <<Start, Over>>, <<Start, Asked, Over>>,
            <<Start, Over, Asked>>, <<Start, Over, "tool_data">>}
Place(event) == CHOOSE i \in DOMAIN events : events[i] = event

LEMMA OneStory == EventsInv => events \in Stories
  BY DEF EventsInv, ProducerEvents, ConsumerEvents, ShareEvents, OtherEvents, Verifiable, Stories

LEMMA StoriesTold ==
  ASSUME events \in Stories
  PROVE  /\ \A i \in DOMAIN events : events[i] \in {Start, Asked, Over, "tool_data"}
         /\ \A i, j \in DOMAIN events : events[i] = events[j] => i = j
         /\ events # <<>> /\ events # <<Over>> => events[1] = Start
<1> USE TuplePlaces, EventsDiffer
<1>1. CASE events \in {<<>>, <<Over>>, <<Start>>}
  BY <1>1
<1>2. CASE events \in {<<Start, Asked>>, <<Start, Over>>}
  BY <1>2
<1>3. CASE events \in {<<Start, Asked, Over>>, <<Start, Over, Asked>>, <<Start, Over, "tool_data">>}
  <2>1. DOMAIN events = 1..3 /\ events[1] = Start /\ events[2] # Start /\ events[3] # Start
        /\ events[2] # events[3] /\ events[2] \in {Asked, Over} /\ events[3] \in {Asked, Over, "tool_data"}
    BY <1>3
  <2> QED
    BY <2>1
<1> QED
  BY <1>1, <1>2, <1>3 DEF Stories

LEMMA PlaceOf ==
  ASSUME events \in Stories, NEW i \in DOMAIN events
  PROVE  Place(events[i]) = i
<1>1. Place(events[i]) \in DOMAIN events /\ events[Place(events[i])] = events[i]
  BY DEF Place
<1> QED
  BY <1>1, StoriesTold

LEMMA HeardOrNot ==
  /\ events = <<Start, Asked, Over>> => Said(Asked) /\ Said(Over) /\ Place(Asked) < Place(Over)
  /\ events = <<Start, Over, Asked>> => Said(Over) /\ ~ (Place(Asked) < Place(Over))
  /\ events = <<Start, Over>> => Said(Over) /\ ~ Said(Asked)
  /\ events = <<Start, Over, "tool_data">> => Said(Over)
  /\ events \in {<<>>, <<Start>>, <<Start, Asked>>} => ~ Said(Over)
<1> USE TuplePlaces, EventsDiffer
<1>1. ASSUME events = <<Start, Asked, Over>>
      PROVE  Said(Asked) /\ Said(Over) /\ Place(Asked) < Place(Over)
  <2>1. events \in Stories /\ 2 \in DOMAIN events /\ 3 \in DOMAIN events /\ events[2] = Asked
        /\ events[3] = Over
    BY <1>1 DEF Stories
  <2>2. Place(Asked) = 2 /\ Place(Over) = 3
    BY <2>1, PlaceOf
  <2> QED
    BY <2>1, <2>2 DEF Said
<1>2. ASSUME events = <<Start, Over, Asked>>
      PROVE  Said(Over) /\ ~ (Place(Asked) < Place(Over))
  <2>1. events \in Stories /\ 2 \in DOMAIN events /\ 3 \in DOMAIN events /\ events[2] = Over
        /\ events[3] = Asked
    BY <1>2 DEF Stories
  <2>2. Place(Asked) = 3 /\ Place(Over) = 2
    BY <2>1, PlaceOf
  <2> QED
    BY <2>1, <2>2 DEF Said
<1>3. ASSUME events = <<Start, Over>>
      PROVE  Said(Over) /\ ~ Said(Asked)
  BY <1>3 DEF Said
<1>4. ASSUME events = <<Start, Over, "tool_data">>
      PROVE  Said(Over)
  <2>1. 2 \in DOMAIN events /\ events[2] = Over
    BY <1>4
  <2> QED
    BY <2>1 DEF Said
<1>5. ASSUME events \in {<<>>, <<Start>>, <<Start, Asked>>}
      PROVE  ~ Said(Over)
  BY <1>5 DEF Said
<1> QED
  BY <1>1, <1>2, <1>3, <1>4, <1>5

LEMMA EventsInvImplies ==
  ASSUME ToolInv, EventsInv
  PROVE  LifecycleTold
<1> SUFFICES ASSUME Verifiable
             PROVE  LifecycleTold
  BY DEF LifecycleTold
<1>1. events \in Stories /\ events # <<Over>>
  <2>1. ASSUME events = <<Over>> PROVE FALSE
    <3>1. events # <<>>
      BY <2>1, TuplePlaces
    <3>2. events[1] = Over
      BY <2>1, TuplePlaces
    <3>3. events[1] = Start
      BY <3>1, TuplePlaces DEF EventsInv, ProducerEvents, ConsumerEvents, ShareEvents, Verifiable
    <3> QED
      BY <3>2, <3>3, EventsDiffer
  <2> QED
    BY <2>1, OneStory
<1>2. events # <<>> => events[1] = "startup_complete"
  BY <1>1, StoriesTold DEF Start
<1>3. \A i, j \in DOMAIN events : events[i] = events[j] => i = j
  BY <1>1, StoriesTold
<1>4. \/ exit # "ok" /\ ~ Said(Over)
      \/ cmd.tool = "verifiable-producer" /\ (Said(Over) \/ exit # "ok")
      \/ events = <<Start, Asked, Over>> /\ signal = "pending"
      \/ events \in {<<Start, Over, Asked>>, <<Start, Over>>} /\ signal # "pending"
  <2>1. CASE cmd.tool = "verifiable-producer"
    BY <2>1, HeardOrNot DEF EventsInv, ProducerEvents, ToolInv
  <2>2. CASE cmd.tool = "verifiable-consumer"
    BY <2>2, HeardOrNot DEF EventsInv, ConsumerEvents, ToolInv
  <2>3. CASE cmd.tool = "verifiable-share-consumer"
    BY <2>3, HeardOrNot DEF EventsInv, ShareEvents, ToolInv
  <2> QED
    BY <2>1, <2>2, <2>3 DEF Verifiable
<1>5. exit = "ok" => Said(Over)
  BY <1>4, HeardOrNot
<1>6. Said(Over) /\ cmd.tool # "verifiable-producer" =>
        (signal = "pending") = (Said(Asked) /\ Place(Asked) < Place(Over))
  BY <1>4, HeardOrNot
<1> QED
  BY <1>2, <1>3, <1>5, <1>6 DEF LifecycleTold, Start, Asked, Over, Place

-----------------------------------------------------------------------------
(* The data plane *)

\* What holds whatever command runs, and what else holds when it is a share command.
DataInv ==
  /\ Allowed /\ ToolInv
  /\ ProducerInv /\ ConsumerTyped
  /\ ShareInv /\ NobodyShares /\ RenewInv
  /\ IsShare => SendInv
  /\ IsShare => LimitInv
  /\ EventsInv

LEMMA IdleLeases == SharesIdle => LeaseInv
<1> SUFFICES ASSUME SharesIdle
             PROVE  LeaseInv
  OBVIOUS
<1>1. [state |-> "available", owner |-> Nobody, deliveries |-> 0] \in Good
  BY MaxDeliveriesType DEF Good, Entry, ShareStates
<1> QED
  BY <1>1, NoAcksType DEF SharesIdle, LeaseInv

LEMMA DataInvStarts == Init => DataInv
  BY ShareInvStarts, ToolInvStarts, ProducerInvStarts, ConsumerTypedStarts, NobodySharesStarts,
     RenewInvStarts, SendInvStarts, LimitInvStarts, EventsInvStarts DEF DataInv

LEMMA DataInvKept ==
  ASSUME DataInv, [Next]_dataPlaneVars
  PROVE  DataInv'
<1>1. LeaseInv
  BY IdleLeases DEF DataInv, NobodyShares, SendInv
<1>2. (Allowed /\ ShareInv)' /\ ToolInv' /\ ProducerInv' /\ ConsumerTyped'
  BY ShareInvKept, ToolInvKept, ProducerInvKept, ConsumerTypedKept DEF DataInv
<1>3. NobodyShares' /\ RenewInv'
  BY <1>1, NobodySharesKept, RenewInvKept DEF DataInv
<1>4. (IsShare => SendInv)'
  BY SendInvKept DEF DataInv
<1>5. (IsShare => LimitInv)'
  BY LimitInvKept DEF DataInv
<1>6. EventsInv'
  BY EventsInvKept DEF DataInv
<1> QED
  BY <1>2, <1>3, <1>4, <1>5, <1>6 DEF DataInv

LEMMA DataInvAlways == Spec => []DataInv
<1>1. Init => DataInv
  BY DataInvStarts
<1>2. DataInv /\ [Next]_dataPlaneVars => DataInv'
  BY DataInvKept
<1> QED
  BY <1>1, <1>2, PTL DEF Spec

LEMMA LeasesTyped ==
  ASSUME LeaseInv
  PROVE  SharesTypeOK
<1>1. MaxDeliveries \in Nat
  BY MaxDeliveriesType
<1>2. ASSUME NEW r \in Record
      PROVE  /\ share[r].state \in ShareStates
             /\ share[r].owner \in Workers \cup {Nobody}
             /\ share[r].deliveries \in 0..MaxDeliveries
             /\ share[r].state \in {"leased", "renewed"} => share[r].owner # Nobody
  <2>1. share[r] \in Good
    BY DEF LeaseInv
  <2>2. share[r] \in Entry /\ share[r].deliveries <= MaxDeliveries
    BY <2>1 DEF Good
  <2>3. share[r].state \in ShareStates /\ share[r].owner \in Workers \cup {Nobody}
        /\ share[r].deliveries \in Nat
    BY <2>2 DEF Entry
  <2>4. share[r].state \in {"leased", "renewed"} => share[r].owner # Nobody
    BY <2>1 DEF Good
  <2> QED
    BY <1>1, <2>2, <2>3, <2>4
<1>3. \A w \in Workers : acks[w] \in [Record -> AckKinds \cup {"none"}]
  BY DEF LeaseInv
<1> QED
  BY <1>2, <1>3 DEF SharesTypeOK, ShareStates, Held, LeaseInv

-----------------------------------------------------------------------------
\* The variables keep their types in every state of every data-plane command: positions
\* stay within the partition, counters within what was handed over, every lease has a
\* holder, no record is delivered more often than the broker allows.
THEOREM DataPlaneTypes == Spec => []TypeOK
<1>1. DataInv => TypeOK
  <2> SUFFICES ASSUME DataInv
               PROVE  TypeOK
    OBVIOUS
  <2>1. ToolTypeOK
    <3>1. \A i \in DOMAIN events : events[i] \in {Start, Asked, Over, "tool_data"}
      BY OneStory, StoriesTold DEF DataInv
    <3> QED
      BY <3>1 DEF DataInv, ToolInv, Allowed, ToolTypeOK, Start, Asked, Over
  <2>2. ProducersTypeOK
    BY ProducerInvTyped DEF DataInv
  <2>3. ConsumersTypeOK
    BY DEF DataInv, ConsumerTyped
  <2>4. SharesTypeOK
    BY IdleLeases, LeasesTyped DEF DataInv, NobodyShares, SendInv
  <2> QED
    BY <2>1, <2>2, <2>3, <2>4 DEF TypeOK
<1> QED
  BY <1>1, DataInvAlways, PTL

\* A command that ends with "ok" has had every record it wrote acknowledged, and has sent
\* what it acknowledged of a share group: no delivery and no acknowledgement is forgotten
\* between a full queue, a commit, a lease that runs out and the close.
THEOREM DoneIsDone == Spec => []OkMeansDone
<1>1. DataInv => OkMeansDone
  BY ProducerInvDelivered DEF DataInv, SendInv, NothingLeft, OkMeansSent, OkMeansDone
<1> QED
  BY <1>1, DataInvAlways, PTL

\* produce --sync and e2e-latency leave no gap in the topic: the record before one that was
\* handed over is acknowledged, whenever and for whatever reason they stop.
THEOREM NoGapIsLeft == Spec => []SyncLeavesNoGap
<1>1. DataInv => SyncLeavesNoGap
  BY ProducerInvNoGap DEF DataInv
<1> QED
  BY <1>1, DataInvAlways, PTL

\* The numbers told are true: a delivery is counted once, whether its callback, its task or
\* the signal came first, and a reader counts more than its limit by no more than the polls
\* that were under way when the limit was looked at.
THEOREM CountsHold == Spec => []CountsAreTrue
<1>1. DataInv => CountsAreTrue
  BY ProducerInvCounted, LimitInvImplies DEF DataInv, CountsAreTrue
<1> QED
  BY <1>1, DataInvAlways, PTL

\* No record is renewed for ever by verifiable-share-consumer, for any --ack-pattern: in a
\* row it is renewed less often than the pattern has places.
THEOREM RenewalsAreFew == Spec => []RenewalsEnd
<1>1. DataInv => RenewalsEnd
  BY RenewInvImplies DEF DataInv
<1> QED
  BY <1>1, DataInvAlways, PTL

\* The reader of a verifiable tool is told of the start first, of everything once, of the
\* end by every command that succeeds, and of a signal before the end exactly when one was
\* heard.
THEOREM TheStoryIsTrue == Spec => []LifecycleTold
<1>1. DataInv => LifecycleTold
  BY EventsInvImplies DEF DataInv
<1> QED
  BY <1>1, DataInvAlways, PTL
=============================================================================

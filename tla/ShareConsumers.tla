--------------------------- MODULE ShareConsumers ---------------------------
(***************************************************************************)
(* The commands that read through a share group: the console share         *)
(* consumer, the verifiable share consumer and the share consumer          *)
(* performance test, whose workers share one counter.  The broker leases   *)
(* each record to one consumer at a time; the consumer acknowledges it     *)
(* (accept, release, reject, or renew the lease) and sends what it         *)
(* acknowledged with a commit or, when it acknowledges implicitly, with    *)
(* its next poll.                                                          *)
(***************************************************************************)
EXTENDS ClientTool

CONSTANTS Workers,          \* consumers a command may have, 1..n
          MaxPoll,          \* records a poll returns at most
          MaxDeliveries     \* the broker's delivery count limit

ASSUME ShareAssumption ==
  /\ Cardinality(Workers) \in Nat \ {0} /\ Workers = 1..Cardinality(Workers)
  /\ \A c \in Commands : c.tool = "share-consumer-perf" => 1..c.threads \subseteq Workers
  /\ MaxPoll \in Nat \ {0} /\ MaxDeliveries \in Nat \ {0}
  /\ \A c \in Commands :
       /\ c.tool = "share-consume" =>
            c.kind \in {"accept", "release", "reject"} /\ c.max \subseteq Nat
       /\ c.tool = "verifiable-share-consumer" =>
            /\ c.pattern \in Seq({"accept", "release", "reject", "renew"})
            /\ c.max \subseteq Nat
       /\ c.tool = "share-consumer-perf" => c.threads \in Nat /\ c.target \in Nat

VARIABLES share,            \* the broker: state, leaseholder and deliveries of a record
          at,               \* where each worker is
          batch,            \* the records of the last poll not looked at yet (one consumer)
          acks,             \* the acknowledgements it has not sent
          renewIndex,       \* the place in --ack-pattern of a renewed record, or 0
          renewals,         \* history: renewals of a record in a row
          told,             \* the records written to standard output, or counted
          taken,            \* records counted against the limit, by all of them
          failed            \* the loop ended with an error

shareVars == <<share, at, batch, acks, renewIndex, renewals, told, taken, failed>>
shares == <<toolVars, shareVars>>

ShareTools == {"share-consume", "verifiable-share-consumer", "share-consumer-perf"}
IsShare == cmd.tool \in ShareTools
Perf == cmd.tool = "share-consumer-perf"
Single == cmd.tool \in {"share-consume", "verifiable-share-consumer"}
Threads == IF Perf THEN 1..cmd.threads ELSE {1}

Nobody == 0
AckKinds == {"accept", "release", "reject", "renew"}
NoAcks == [r \in Record |-> "none"]
\* Without a pattern the verifiable consumer acknowledges implicitly, as the
\* performance test always does.
Implicit == Perf \/ (cmd.tool = "verifiable-share-consumer" /\ cmd.pattern = <<>>)

-----------------------------------------------------------------------------
(* Arguments *)

\* A pattern needs a kind other than renew, and a mode that acknowledges.
AckPatternOk ==
  cmd.pattern # <<>> =>
    /\ \E i \in DOMAIN cmd.pattern : cmd.pattern[i] # "renew"
    /\ cmd.mode # "auto"
ShareFormatterOk == cmd.deserializers \subseteq {"bytes", "utf8"}
ShareConsumeArgsOk == ShareFormatterOk /\ Cardinality(cmd.groups) <= 1
SharePerfArgsOk == cmd.threads > 0 /\ 0 \notin cmd.sizes /\ ~cmd.twoConfigs

\* Whether the loop polls again.
Continues ==
  IF Perf THEN taken < cmd.target
  ELSE UnderLimit(cmd.max, taken)

-----------------------------------------------------------------------------
(* The broker *)

LeaseOf(w) == {r \in Record : share[r].state = "leased" /\ share[r].owner = w}
Pollable(w) ==
  {r \in Record : \/ share[r].state = "available"
                  \/ share[r].state = "renewed" /\ share[r].owner = w}
Held(r) == share[r].state \in {"leased", "renewed"}

\* A record that comes back is delivered again, up to the limit.
Returned(entry) ==
  [entry EXCEPT !.owner = Nobody,
                !.state = IF entry.deliveries < MaxDeliveries THEN "available" ELSE "archived"]

\* A lease runs out.
Expire(r) ==
  /\ Held(r)
  /\ share' = [share EXCEPT ![r] = Returned(@)]
  /\ UNCHANGED <<toolVars, at, batch, acks, renewIndex, renewals, told, taken, failed>>

\* Another member of the group reads a record and accepts it.
OtherAccepts(r) ==
  /\ IsShare /\ Running
  /\ share[r].state = "available"
  /\ share' = [share EXCEPT ![r].state = "accepted", ![r].owner = Nobody]
  /\ UNCHANGED <<toolVars, at, batch, acks, renewIndex, renewals, told, taken, failed>>

Acknowledged(entry, kind) ==
  CASE kind = "accept" -> [entry EXCEPT !.state = "accepted"]
    [] kind = "reject" -> [entry EXCEPT !.state = "rejected"]
    [] kind = "renew" -> [entry EXCEPT !.state = "renewed"]
    [] OTHER -> Returned(entry)
\* The acknowledgements of worker w arrive; those of leases that ran out do not count.
Sent(w) ==
  [r \in Record |-> IF acks[w][r] # "none" /\ r \in LeaseOf(w)
                    THEN Acknowledged(share[r], acks[w][r]) ELSE share[r]]
AllHeld(w) == \A r \in Record : acks[w][r] # "none" => r \in LeaseOf(w)
\* Closing a consumer gives its leases back.
GivenBack(entries, w) ==
  [r \in Record |-> IF entries[r].owner = w /\ entries[r].state \in {"leased", "renewed"}
                    THEN Returned(entries[r]) ELSE entries[r]]

-----------------------------------------------------------------------------
(* The loops *)

MoveTo(w, label) == at' = [at EXCEPT ![w] = label]
ClearAcks(w) == acks' = [acks EXCEPT ![w] = NoAcks]

\* The consumers are built and join the group, or one of them cannot.
Joins ==
  \/ Goto("run") /\ at' = [w \in Workers |-> IF w \in Threads THEN "poll" ELSE "idle"]
  \/ End("error") /\ UNCHANGED at
Refuses == End("usage") /\ UNCHANGED at
UnchangedShares == UNCHANGED <<share, batch, acks, renewIndex, renewals, told, taken, failed>>

ShareConsumeStart ==
  /\ cmd.tool = "share-consume" /\ pc = "start"
  /\ IF ShareConsumeArgsOk THEN Joins ELSE Refuses
  /\ UNCHANGED <<cmd, signal, events>> /\ UnchangedShares
\* The start is told before anything that may fail.
VerifiableShareStart ==
  /\ cmd.tool = "verifiable-share-consumer" /\ pc = "start"
  /\ IF AckPatternOk THEN Joins ELSE Refuses
  /\ events' = IF AckPatternOk THEN Append(events, "startup_complete") ELSE events
  /\ UNCHANGED <<cmd, signal>> /\ UnchangedShares
SharePerfStart ==
  /\ Perf /\ pc = "start"
  /\ IF SharePerfArgsOk THEN Joins ELSE Refuses
  /\ UNCHANGED <<cmd, signal, events>> /\ UnchangedShares

\* The limit is looked at before a poll; between that and the records that
\* come other workers count theirs.
SharePoll(w) ==
  /\ pc = "run" /\ at[w] = "poll"
  /\ IF Continues
     THEN MoveTo(w, "wait") /\ IF Perf THEN UNCHANGED signal ELSE Armed
     ELSE MoveTo(w, "stopped") /\ UNCHANGED signal
  /\ UNCHANGED <<cmd, pc, exit, events, share, batch, acks, renewIndex, renewals, told,
                 taken, failed>>

\* The broker leases worker w the records it polls.  When it acknowledges
\* implicitly the poll sends what the last one brought.
Lease(w, records) ==
  share' = [r \in Record |->
    IF r \in records
    THEN [state |-> "leased", owner |-> w,
          deliveries |-> share[r].deliveries + IF share[r].state = "renewed" THEN 0 ELSE 1]
    ELSE IF Implicit THEN Sent(w)[r] ELSE share[r]]
AllAccepted(records) == [r \in Record |-> IF r \in records THEN "accept" ELSE "none"]
Polled(w) == {records \in SUBSET Pollable(w) : Cardinality(records) \in 1..MaxPoll}

ShareRecords ==
  /\ Single /\ pc = "run" /\ at[1] = "wait"
  /\ \E records \in Polled(1) : Lease(1, records) /\ batch' = records
  /\ acks' = IF Implicit THEN [acks EXCEPT ![1] = AllAccepted(batch')] ELSE acks
  /\ MoveTo(1, "batch")
  /\ Drop
  /\ UNCHANGED <<cmd, pc, exit, events, renewIndex, renewals, told, taken, failed>>

\* A worker of the performance test counts them before it awaits again.
PerfRecords(w) ==
  /\ Perf /\ pc = "run" /\ at[w] = "wait"
  /\ \E records \in Polled(w) :
       /\ Lease(w, records)
       /\ acks' = [acks EXCEPT ![w] = AllAccepted(records)]
       /\ told' = told \cup records
       /\ taken' = taken + Cardinality(records)
  /\ MoveTo(w, "poll")
  /\ UNCHANGED <<toolVars, batch, renewIndex, renewals, failed>>

\* It brings none, and the loop goes on or, once nothing came for the idle time,
\* is over.
ShareNothing(w) ==
  /\ pc = "run" /\ at[w] = "wait"
  /\ Drop
  /\ MoveTo(w, "poll")
  /\ UNCHANGED <<cmd, pc, exit, events, share, batch, acks, renewIndex, renewals, told, taken,
                 failed>>
ShareIdle(w) ==
  /\ pc = "run" /\ at[w] = "wait" /\ cmd.timeout
  /\ Drop
  /\ MoveTo(w, "stopped")
  /\ UNCHANGED <<cmd, pc, exit, events, share, batch, acks, renewIndex, renewals, told, taken,
                 failed>>

\* It fails, which ends a loop; all the workers of the performance test are
\* abandoned, with no commit and no close.
SharePollFails(w) ==
  /\ pc = "run" /\ at[w] = "wait"
  /\ Drop
  /\ IF Perf THEN End("error") /\ UNCHANGED <<at, failed>>
     ELSE MoveTo(w, "stopped") /\ failed' = TRUE /\ UNCHANGED <<pc, exit>>
  /\ UNCHANGED <<cmd, events, share, batch, acks, renewIndex, renewals, told, taken>>

\* The signal, in the loops that listen.
ShareHears ==
  /\ Single /\ pc = "run" /\ at[1] = "wait" /\ signal = "pending"
  /\ MoveTo(1, "stopped")
  /\ events' = IF cmd.tool = "share-consume" THEN events ELSE Append(events, "shutdown_requested")
  /\ UNCHANGED <<cmd, pc, exit, signal, share, batch, acks, renewIndex, renewals, told,
                 taken, failed>>

First(records) == CHOOSE r \in records : \A s \in records : r <= s

\* The place of a record in the pattern: where its renewals left it, or the one
\* of its offset.
OffsetPlace(r) == (r % Len(cmd.pattern)) + 1
PatternPlaceByOffset(r) == OffsetPlace(r)
PatternPlace(r) ==
  IF renewIndex[r] # 0 THEN renewIndex[r] ELSE OffsetPlace(r)
NextPlace(r) == (PatternPlace(r) % Len(cmd.pattern)) + 1
KindOf(r, written) ==
  CASE cmd.tool = "share-consume" -> IF written THEN cmd.kind ELSE "reject"
    [] Implicit -> "accept"
    [] OTHER -> cmd.pattern[PatternPlace(r)]

\* One record of the batch: it is written (or cannot be, and is rejected if the
\* command was told to) and acknowledged.
ShareRecord ==
  LET r == First(batch)
  IN /\ pc = "run" /\ at[1] = "batch" /\ batch # {}
     /\ cmd.tool = "share-consume" => Continues
     /\ \E written \in BOOLEAN :
          LET kind == KindOf(r, written)
          IN /\ ~written => cmd.tool = "share-consume" /\ cmd.rejectOnError
             /\ acks' = [acks EXCEPT ![1][r] = kind]
             /\ told' = IF written THEN told \cup {r} ELSE told
             /\ renewIndex' = [renewIndex EXCEPT ![r] = IF kind = "renew" THEN NextPlace(r) ELSE 0]
             /\ renewals' = [renewals EXCEPT ![r] = IF kind = "renew" THEN @ + 1 ELSE 0]
     /\ taken' = IF cmd.tool = "verifiable-share-consumer" THEN taken
                 ELSE taken + 1
     /\ batch' = batch \ {r}
     /\ UNCHANGED <<toolVars, share, at, failed>>

\* Or the command fails on it.  What it acknowledged so far is not sent.
ShareRecordFails ==
  /\ pc = "run" /\ at[1] = "batch" /\ batch # {}
  /\ cmd.tool = "share-consume" => Continues
  /\ MoveTo(1, "stopped") /\ failed' = TRUE /\ batch' = {}
  /\ UNCHANGED <<toolVars, share, acks, renewIndex, renewals, told, taken>>

\* The batch is done, or the limit is reached inside it.
BatchOverEarly ==
  /\ pc = "run" /\ at[1] = "batch"
  /\ batch = {} \/ (cmd.tool = "share-consume" /\ ~Continues)
  /\ MoveTo(1, IF Continues THEN "commit" ELSE "stopped")
  /\ batch' = {}
  /\ UNCHANGED <<toolVars, share, acks, renewIndex, renewals, told, taken, failed>>
BatchOver ==
  /\ pc = "run" /\ at[1] = "batch"
  /\ batch = {} \/ (cmd.tool = "share-consume" /\ ~Continues)
  /\ MoveTo(1, "commit")
  /\ batch' = {}
  /\ UNCHANGED <<toolVars, share, acks, renewIndex, renewals, told, taken, failed>>

\* The acknowledgements are sent before the next poll.  The commit fails if a
\* lease ran out, and may fail otherwise, after it was carried out or before.
Batched == Cardinality({r \in Record : acks[1][r] # "none"})
ShareCommit ==
  /\ Single /\ pc = "run" /\ at[1] = "commit"
  /\ \/ /\ AllHeld(1)
        /\ share' = Sent(1)
        /\ MoveTo(1, "poll")
        /\ taken' = IF cmd.tool = "share-consume" THEN taken
                    ELSE taken + Batched
        /\ UNCHANGED failed
     \/ /\ share' \in {share, Sent(1)}
        /\ MoveTo(1, "stopped") /\ failed' = TRUE
        /\ UNCHANGED taken
  /\ ClearAcks(1)
  /\ UNCHANGED <<cmd, pc, exit, signal, events, batch, renewIndex, renewals, told>>

\* Then the consumer is closed, whatever the loop ended with, which may send
\* what was acknowledged.  The reader is told before the error, if any, is.
ShareClose ==
  /\ Single /\ pc = "run" /\ at[1] = "stopped"
  /\ End(IF failed THEN "error" ELSE "ok") \/ End("error")
  /\ events' = IF cmd.tool = "verifiable-share-consumer" \/ cmd.systest
               THEN Append(events, "shutdown_complete") ELSE events
  /\ \/ share' = GivenBack(share, 1) /\ UNCHANGED acks
     \/ share' = GivenBack(Sent(1), 1) /\ ClearAcks(1)
  /\ UNCHANGED <<cmd, signal, at, batch, renewIndex, renewals, told, taken, failed>>

\* The performance test commits for one worker after the other once all have
\* stopped, and closes them; it ends at the first that fails.
PerfCommits ==
  /\ Perf /\ pc = "run" /\ \A w \in Threads : at[w] \in {"stopped", "committed"}
  /\ IF \A w \in Threads : at[w] = "committed"
     THEN /\ End("ok") \/ End("error")
          /\ UNCHANGED <<share, at, acks>>
     ELSE \E w \in Threads :
            /\ at[w] = "stopped" /\ \A v \in Threads : v < w => at[v] = "committed"
            /\ \/ /\ AllHeld(w)
                  /\ share' = Sent(w) /\ ClearAcks(w) /\ MoveTo(w, "committed")
                  /\ UNCHANGED <<pc, exit>>
               \/ End("error") /\ UNCHANGED <<share, at, acks>>
  /\ UNCHANGED <<cmd, signal, events, batch, renewIndex, renewals, told, taken, failed>>

-----------------------------------------------------------------------------
SharesIdle ==
  /\ share = [r \in Record |-> [state |-> "available", owner |-> Nobody, deliveries |-> 0]]
  /\ at = [w \in Workers |-> "idle"]
  /\ batch = {}
  /\ acks = [w \in Workers |-> NoAcks]
  /\ renewIndex = [r \in Record |-> 0]
  /\ renewals = [r \in Record |-> 0]
  /\ told = {}
  /\ taken = 0
  /\ failed = FALSE

\* The performance test has no handler: SIGINT kills it.
SharesEnvironment ==
  \/ \E r \in Record : Expire(r) \/ OtherAccepts(r)
  \/ IsShare /\ Interrupt(at[1] = "wait") /\ UNCHANGED shareVars

WorkerStep(w) == SharePoll(w) \/ PerfRecords(w)
SharesStep ==
  \/ ShareConsumeStart \/ VerifiableShareStart \/ SharePerfStart
  \/ ShareRecords \/ ShareRecord \/ BatchOver \/ ShareHears \/ ShareCommit
  \/ ShareClose \/ PerfCommits

SharesNext ==
  \/ SharesEnvironment \/ SharesStep \/ ShareRecordFails
  \/ \E w \in Workers : WorkerStep(w) \/ ShareNothing(w) \/ ShareIdle(w) \/ SharePollFails(w)

\* A command's loop runs, a poll returns, and a loop in which nothing comes for
\* the idle time notices.
SharesFairness ==
  /\ WF_shares(SharesStep)
  /\ \A w \in Workers : /\ WF_shares(WorkerStep(w)) /\ WF_shares(ShareNothing(w))
                        /\ SF_shares(ShareIdle(w))

SharesTypeOK ==
  /\ \A r \in Record :
       /\ share[r].state \in {"available", "leased", "renewed", "accepted", "rejected", "archived"}
       /\ share[r].owner \in Workers \cup {Nobody}
       /\ share[r].deliveries \in 0..MaxDeliveries
       /\ Held(r) => share[r].owner # Nobody
  /\ batch \subseteq Record
  /\ \A w \in Workers : acks[w] \in [Record -> AckKinds \cup {"none"}]
  /\ told \subseteq Record

\* A record leaves the share group by this command's hand only when it was
\* written to standard output or counted, although polls, leases that run out,
\* errors in the middle of a batch and the close all touch what is sent.  The
\* exceptions: a record whose output failed when the command was told to reject
\* those, and the rest of a batch that was being reported when the output of a
\* command that acknowledges implicitly broke.
AcceptedWasTold ==
  IsShare => \A r \in Record :
    share[r].state \in {"accepted", "rejected"} /\ share[r].owner # Nobody =>
      \/ r \in told
      \/ share[r].state = "rejected" /\ cmd.tool = "share-consume" /\ cmd.rejectOnError
      \/ Implicit /\ failed

\* A share command that succeeds has sent what it acknowledged: no record it
\* wrote or counted is still leased to it, waiting for the lease to run out and
\* for another consumer to be given it again.
OkMeansSent ==
  IsShare /\ exit = "ok" =>
    \A w \in Workers : acks[w] = NoAcks /\ LeaseOf(w) \cap told = {}

\* verifiable-share-consumer renews no record for ever: the place in the pattern
\* survives from one delivery to the next, also over a lease that ran out, so
\* that in a row there are fewer renewals than the pattern has places.
RenewalsEnd ==
  cmd.tool = "verifiable-share-consumer" /\ cmd.pattern # <<>> =>
    \A r \in Record : renewals[r] < Len(cmd.pattern)

\* share-consume never counts more than --max-messages, although its polls may
\* bring more.  The other two finish what a poll brought: the verifiable
\* consumer passes its limit by less than a poll, the performance test by less
\* than a poll of every worker, for all may have looked at the shared counter
\* just before the last record that was wanted.
ReadsWithinLimit ==
  IsShare /\ pc = "run" =>
    CASE cmd.tool = "share-consume" -> \A m \in cmd.max : taken <= m
      [] cmd.tool = "verifiable-share-consumer" ->
           \A m \in cmd.max : taken < m + MaxPoll
      [] OTHER -> taken < cmd.target + MaxPoll * Cardinality(Threads)
=============================================================================

------------------------- MODULE ReplicaVerification ------------------------
(***************************************************************************)
(* `kafka replica-verification`: the loop that fetches one partition from    *)
(* each of its replicas and compares the batches, while the partition goes   *)
(* on being written, truncated and elected.                                 *)
(*                                                                         *)
(* Abstractions.  One partition: partitions are verified one by one and      *)
(* share nothing but the round.  A batch's checksum is its leader epoch and  *)
(* whether it has gone bad.  Nothing is compacted or deleted: the brokers'    *)
(* batches of one offset differ then for reasons of their own.  The report   *)
(* of the maximum lag is left out.                                          *)
(***************************************************************************)
EXTENDS Replication

CONSTANTS
  Starts,      \* --time: "earliest", "latest" or a timestamp ("time")
  MaxRots,     \* bound: batches that go bad
  MaxFaults    \* bound: fetches that fail

ASSUME ToolAssumption ==
  /\ Starts \subseteq {"earliest", "latest", "time"}
  /\ MaxRots \in Nat /\ MaxFaults \in Nat

VARIABLES
  pc,          \* of the command
  offset,      \* fetch_offsets: verified up to here
  cursor,      \* index of the batches compared next
  answers,     \* records_cache: what each replica answered in this round
  reported,    \* last offsets of the batches reported with unmatched checksums
  first,       \* history: the offset the command started from
  unseen,      \* history: batches that went bad behind their answer
  faults       \* number of failed fetches so far

tool == <<pc, offset, cursor, answers, reported, first>>
vars == <<partition, tool, unseen, faults>>

None == [hw |-> -2, batches |-> << >>]
Unanswered == [r \in Replicas |-> None]

\* A fetch that could not be sent, and a partition the response leaves out or
\* answers with an error
Nothing == [hw |-> -1, batches |-> << >>]

Fault == faults < MaxFaults /\ faults' = faults + 1

-----------------------------------------------------------------------------
\* The partition

\* Comparing reads the answers only: what happens to the partition meanwhile might
\* as well happen after it, and what happens when the command has ended is nothing
\* to it.
Observed == pc \in {"start", "fetch"}

PartitionStep ==
  /\ Observed /\ Replicating
  /\ UNCHANGED <<tool, unseen, faults>>

RotStep(r, i) ==
  /\ Observed
  /\ Cardinality({at \in Replicas \X (1..MaxOffset) :
                    at[2] <= Len(log[at[1]]) /\ log[at[1]][at[2]].rotten}) < MaxRots
  /\ Rot(r, i)
  /\ unseen' = IF answers[r] # None \/ log[r][i].last < offset
               THEN unseen \union {log[r][i].last} ELSE unseen
  /\ UNCHANGED <<tool, faults>>

-----------------------------------------------------------------------------
\* The command

\* replica_initial_offsets asks the leader: the start of the log, its high
\* watermark, or the first offset of a time, if there is one.
Start ==
  /\ pc = "start"
  /\ \/ "earliest" \in Starts /\ offset' = 0
     \/ "latest" \in Starts /\ offset' = hw[leader]
     \/ "time" \in Starts /\ hw[leader] > 0 /\ offset' \in 0..(hw[leader] - 1)
  /\ first' = offset'
  /\ pc' = "fetch"
  /\ UNCHANGED <<partition, cursor, answers, reported, unseen, faults>>

\* What is stored from the fetch offset on; a log is in the order of its offsets.
From(r) == Least({i \in 1..(Len(log[r]) + 1) : i <= Len(log[r]) => log[r][i].last >= offset})

Stored(r) == SubSeq(log[r], From(r), Len(log[r]))

Respond(r, answer) ==
  /\ pc = "fetch" /\ answers[r] = None
  /\ answers' = [answers EXCEPT ![r] = answer]
  /\ pc' = IF \A s \in Replicas \ {r} : answers[s] # None THEN "verify" ELSE pc
  /\ UNCHANGED <<partition, offset, cursor, reported, first, unseen>>

\* As much of it as the fetch size allows
FetchAnswer(r) ==
  \E n \in 0..Len(Stored(r)) :
    /\ Stored(r) # << >> => n > 0
    /\ Respond(r, [hw |-> hw[r], batches |-> SubSeq(Stored(r), 1, n)])
    /\ UNCHANGED faults

\* The request could not be sent, or the broker answers with an error.
FetchNothing(r) == Respond(r, Nothing) /\ Fault

\* A connection that cannot be made or an answer that cannot be decoded ends the
\* round, and the command.
RoundFails ==
  /\ pc = "fetch" /\ Fault
  /\ pc' = "failed"
  /\ UNCHANGED <<partition, offset, cursor, answers, reported, first, unseen>>

\* Mutants: the highest of the high watermarks counts for all; the last committed
\* batch is left out.
BelowAny(answer, b) == \E r \in Replicas : b.last < answers[r].hw

BelowEnd(answer, b) == b.last + 1 < answer.hw

Below(answer, b) == b.last < answer.hw

\* The replicas that have a batch at the cursor, below their own high watermark
Ready ==
  {r \in Replicas : /\ cursor <= Len(answers[r].batches)
                    /\ Below(answers[r], answers[r].batches[cursor])}

At(r) == answers[r].batches[cursor]

Checksum(b) == <<b.epoch, b.rotten>>

\* Mutant: one more record is taken for verified.
NextAfterNext(last) == last + 2

NextOffset(last) == last + 1

\* advance_matching_batches goes through the replicas in the order of a hash map
\* and stops at the first that is not ready: any of the ready ones come before.
Compare(visited) ==
  LET lasts == {At(r).last : r \in visited}
      sums == {Checksum(At(r)) : r \in visited}
      mismatch == Cardinality(lasts) > 1
      passed == visited = Replicas
  IN  /\ pc = "verify"
      /\ visited \subseteq Ready
      /\ Ready = Replicas => passed
      /\ reported' = IF ~mismatch /\ Cardinality(sums) > 1
                     THEN reported \union lasts ELSE reported
      /\ pc' = IF mismatch THEN "exited" ELSE IF passed THEN "verify" ELSE "fetch"
      /\ IF passed /\ ~mismatch
         THEN offset' = NextOffset(Least(lasts)) /\ cursor' = cursor + 1
         ELSE offset' = offset /\ cursor' = 1
      /\ answers' = IF pc' = "fetch" THEN Unanswered ELSE answers
      /\ unseen' = IF pc' = "fetch" THEN {o \in unseen : o < offset} ELSE unseen
      /\ UNCHANGED <<partition, first, faults>>

-----------------------------------------------------------------------------
Init ==
  /\ InitReplication
  /\ pc = "start" /\ offset = 0 /\ cursor = 1 /\ answers = Unanswered
  /\ reported = {} /\ first = 0 /\ unseen = {} /\ faults = 0

Verifying ==
  \/ Start \/ RoundFails
  \/ \E r \in Replicas : FetchAnswer(r) \/ FetchNothing(r)
  \/ \E visited \in SUBSET Replicas : Compare(visited)

Next ==
  \/ PartitionStep \/ Verifying
  \/ \E r \in Replicas : \E i \in 1..Len(log[r]) : RotStep(r, i)

Spec == Init /\ [][Next]_vars

-----------------------------------------------------------------------------
(* Properties *)

Answer == [hw : -2..MaxOffset, batches : Seq(Batch)]

TypeOK ==
  /\ log \in [Replicas -> Seq(Batch)] /\ hw \in [Replicas -> 0..MaxOffset]
  /\ leader \in isr /\ isr \subseteq Replicas /\ epoch \in 0..MaxEpoch
  /\ pc \in {"start", "fetch", "verify", "exited", "failed"}
  /\ offset \in 0..MaxOffset /\ first \in 0..MaxOffset
  /\ cursor \in 1..(MaxOffset + 1)
  /\ answers \in [Replicas -> Answer]
  /\ reported \subseteq 0..MaxOffset /\ unseen \subseteq 0..MaxOffset
  /\ faults \in Nat

\* The answers of a round are taken at different times, from replicas that lag,
\* truncate and change their leader, and yet nothing is called a difference but a
\* batch that has gone bad somewhere: the command never exits for an offset that
\* does not match and never reports a checksum of sound batches.
NoFalseAlarm ==
  /\ pc # "exited"
  /\ \A o \in reported : \E r \in Replicas : \E i \in 1..Len(log[r]) :
       log[r][i].last = o /\ log[r][i].rotten

\* What the command has passed is stored by every replica, and the same on each,
\* or was reported, or went bad after the replica had answered.
VerifiedIsTheSame ==
  \A r, s \in Replicas : \A i \in 1..Len(log[r]) :
    LET b == log[r][i]
    IN  (pc # "start" /\ b.last >= first /\ b.last < offset) =>
          /\ i <= Len(log[s]) /\ Same(b, log[s][i])
          /\ b.rotten # log[s][i].rotten => b.last \in reported \union unseen

(* Liveness *)

\* Brokers replicate and answer, and the command's loop goes on.  The partition's
\* steps wait for the comparison (Observed), so they are only enabled again and again.
Fairness ==
  /\ WF_vars(Start)
  /\ SF_vars(Commit /\ PartitionStep)
  /\ \A r \in Replicas :
       /\ SF_vars(Replicate(r) /\ PartitionStep)
       /\ WF_vars(FetchAnswer(r))
  /\ WF_vars(\E visited \in SUBSET Replicas : Compare(visited))

FairSpec == Spec /\ Fairness

\* Whatever is committed is verified sooner or later: the lag comes back to zero,
\* unless the command fails or a batch goes bad, which no replica can fetch any more.
CatchesUp ==
  \A o \in 1..MaxOffset :
    hw[leader] >= o ~> \/ offset >= o \/ pc = "failed"
                       \/ \E r \in Replicas : \E i \in 1..Len(log[r]) : log[r][i].rotten
=============================================================================

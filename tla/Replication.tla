---------------------------- MODULE Replication -----------------------------
(***************************************************************************)
(* The replicas of one partition, as far as a client can tell: the log and  *)
(* the high watermark of each, under a leader, in-sync replicas and clean    *)
(* elections.  External to the program: the tools that fetch from replicas   *)
(* are composed with it.                                                    *)
(***************************************************************************)
EXTENDS Integers, FiniteSets, Sequences

CONSTANTS
  Replicas,
  MaxOffset,   \* bound: the log end
  MaxEpoch     \* bound: leader epochs

ASSUME ReplicationAssumption ==
  /\ Replicas # {} /\ IsFiniteSet(Replicas)
  /\ MaxOffset \in Nat /\ MaxEpoch \in Nat

VARIABLES
  log,         \* batches by replica
  hw,          \* high watermark by replica
  leader,
  isr,         \* in-sync replicas
  epoch        \* leader epoch

partition == <<log, hw, leader, isr, epoch>>

\* Two batches with the same last offset and leader epoch have the same records;
\* a rotten one has them no more, and another checksum.
Batch == [last : Nat, epoch : Nat, rotten : BOOLEAN]

Same(b, c) == b.last = c.last /\ b.epoch = c.epoch

EndOf(batches) == IF batches = << >> THEN 0 ELSE batches[Len(batches)].last + 1

Least(S) == CHOOSE x \in S : \A y \in S : x <= y

\* The number of leading batches that the logs of r and s have in common
Common(r, s) ==
  CHOOSE n \in 0..Len(log[r]) :
    /\ n <= Len(log[s])
    /\ \A i \in 1..n : Same(log[r][i], log[s][i])
    /\ n < Len(log[r]) /\ n < Len(log[s]) => ~Same(log[r][n + 1], log[s][n + 1])

Agreed(r) == EndOf(SubSeq(log[r], 1, Common(r, leader)))

Follows(r) == Common(r, leader) = Len(log[r])

-----------------------------------------------------------------------------
Append1(r, b) == log' = [log EXCEPT ![r] = Append(@, b)]

\* The leader appends a batch of one record or of two.
Produce(size) ==
  LET last == EndOf(log[leader]) + size - 1
  IN  /\ last < MaxOffset
      /\ Append1(leader, [last |-> last, epoch |-> epoch, rotten |-> FALSE])
      /\ UNCHANGED <<hw, leader, isr, epoch>>

\* A follower drops what its leader does not have.
Truncate(r) ==
  /\ r # leader /\ ~Follows(r)
  /\ log' = [log EXCEPT ![r] = SubSeq(@, 1, Common(r, leader))]
  /\ hw' = [hw EXCEPT ![r] = Least({@, Agreed(r)})]
  /\ UNCHANGED <<leader, isr, epoch>>

\* A follower fetches the next batch, unless its checksum is wrong.
Fetch(r) ==
  LET next == log[leader][Len(log[r]) + 1]
  IN  /\ r # leader /\ Follows(r)
      /\ Len(log[r]) < Len(log[leader]) /\ ~next.rotten
      /\ Append1(r, next)
      /\ hw' = [hw EXCEPT ![r] = Least({hw[leader], next.last + 1})]
      /\ UNCHANGED <<leader, isr, epoch>>

\* A follower learns the high watermark.
Learn(r) ==
  /\ r # leader /\ Follows(r)
  /\ hw' = [hw EXCEPT ![r] = Least({hw[leader], EndOf(log[r])})]
  /\ UNCHANGED <<log, leader, isr, epoch>>

\* What every in-sync replica has is committed.
Commit ==
  /\ hw[leader] < Least({Agreed(r) : r \in isr})
  /\ hw' = [hw EXCEPT ![leader] = Least({Agreed(r) : r \in isr})]
  /\ UNCHANGED <<log, leader, isr, epoch>>

Shrink(r) ==
  /\ r \in isr \ {leader}
  /\ isr' = isr \ {r}
  /\ UNCHANGED <<log, hw, leader, epoch>>

Expand(r) ==
  /\ r \notin isr /\ Follows(r) /\ Len(log[r]) = Len(log[leader])
  /\ isr' = isr \union {r}
  /\ UNCHANGED <<log, hw, leader, epoch>>

\* Clean elections only.
Elect(r) ==
  /\ r \in isr \ {leader} /\ epoch < MaxEpoch
  /\ leader' = r /\ epoch' = epoch + 1
  /\ UNCHANGED <<log, hw, isr>>

\* A stored batch goes bad.
Rot(r, i) ==
  /\ ~log[r][i].rotten
  /\ log' = [log EXCEPT ![r][i].rotten = TRUE]
  /\ UNCHANGED <<hw, leader, isr, epoch>>

InitReplication ==
  /\ log = [r \in Replicas |-> << >>]
  /\ hw = [r \in Replicas |-> 0]
  /\ leader \in Replicas
  /\ isr = Replicas
  /\ epoch = 0

Replicate(r) == Truncate(r) \/ Fetch(r) \/ Learn(r)

Replicating ==
  \/ Commit
  \/ \E size \in 1..2 : Produce(size)
  \/ \E r \in Replicas : Replicate(r) \/ Shrink(r) \/ Expand(r) \/ Elect(r)
=============================================================================

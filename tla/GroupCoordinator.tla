-------------------------- MODULE GroupCoordinator --------------------------
(***************************************************************************)
(* The cluster as the group commands (OffsetReset, GroupDelete) meet it:     *)
(* groups with their members and committed offsets, partitions that grow and *)
(* lose their oldest records, topics.  All of it lies outside the            *)
(* repository; it is modelled from how its commands use it.                  *)
(*                                                                         *)
(* Abstractions.  A group has members or it has none: which they are, and    *)
(* the stages of a rebalance, tell no command anything more.  A group with   *)
(* neither members nor offsets is gone.  Offsets are committed by members    *)
(* and by consumers that were assigned partitions by hand, which belong to   *)
(* no group state.  Share groups keep start offsets in the same place.       *)
(***************************************************************************)
EXTENDS Integers, FiniteSets

CONSTANTS
  Groups,          \* group ids
  Partitions,      \* the partitions of the topics that groups read
  TopicOf,         \* their topics
  InternalOf,      \* the internal topics of a group
  Starts,          \* committed offsets that the model starts with
  Busy,            \* sets of groups that have members when it starts
  MaxOffset,       \* bound: length of a partition
  MaxMoves,        \* bound: steps of the cluster's other clients
  MaxFaults        \* bound: calls that fail or whose answer is lost

ASSUME ClusterAssumption ==
  /\ MaxOffset \in Nat \ {0} /\ MaxMoves \in Nat /\ MaxFaults \in Nat
  /\ Starts \subseteq [Groups -> [Partitions -> {-1, 0, 1}]]
  /\ Busy \subseteq SUBSET Groups

VARIABLES
  active,          \* groups that have members
  committed,       \* committed offsets of the groups (None: none)
  log,             \* partitions: first offset and end of the log
  topics,          \* the topics that exist
  moves, faults    \* bounds' counters

cluster == <<active, committed, log, topics, moves>>

None == -1
Offsets == 0 .. MaxOffset
Topics == {TopicOf[p] : p \in Partitions}
Internal == UNION {InternalOf[g] : g \in Groups}
NoOffsets == [p \in Partitions |-> None]

PartitionsOf(names) == {p \in Partitions : TopicOf[p] \in names}

HasOffset(g, p) == committed[g][p] # None
Exists(g) == g \in active \/ \E p \in Partitions : HasOffset(g, p)

\* "Empty" or "Dead", or no such group: what commands call inactive.
Inactive(g) == g \notin active

ClusterInit ==
  /\ active \in Busy
  /\ committed \in Starts
  /\ log = [p \in Partitions |-> [low |-> 0, high |-> 1]]
  /\ topics = Topics \union Internal
  /\ moves = 0 /\ faults = 0

-----------------------------------------------------------------------------
(* The cluster's other clients. *)

Move ==
  /\ moves < MaxMoves /\ moves' = moves + 1
  /\ UNCHANGED <<topics, faults>>

Produce(p) ==
  /\ Move
  /\ log[p].high < MaxOffset
  /\ log' = [log EXCEPT ![p].high = @ + 1]
  /\ UNCHANGED <<active, committed>>

\* Retention deletes the oldest record.
Retain(p) ==
  /\ Move
  /\ log[p].low < log[p].high
  /\ log' = [log EXCEPT ![p].low = @ + 1]
  /\ UNCHANGED <<active, committed>>

Join(g) ==
  /\ Move
  /\ g \notin active
  /\ active' = active \union {g}
  /\ UNCHANGED <<committed, log>>

Leave(g) ==
  /\ Move
  /\ g \in active
  /\ active' = active \ {g}
  /\ UNCHANGED <<committed, log>>

\* A consumer that has read to the end of p commits.
Commit(g, p) ==
  /\ Move
  /\ committed[g][p] # log[p].high
  /\ committed' = [committed EXCEPT ![g][p] = log[p].high]
  /\ UNCHANGED <<active, log>>

Others ==
  \/ \E p \in Partitions : Produce(p) \/ Retain(p)
  \/ \E g \in Groups : Join(g) \/ Leave(g)
  \/ \E g \in Groups, p \in Partitions : Commit(g, p)

-----------------------------------------------------------------------------
(* What a request of a command does to the cluster. *)

\* A call fails, or the answer to it is lost.
Fault == faults < MaxFaults /\ faults' = faults + 1

\* What a request for some partitions of a group can get done: partitions are
\* refused one by one, and a group with members refuses all of them.
Doable(g, asked) == IF g \in active THEN {{}} ELSE SUBSET asked

\* AlterConsumerGroupOffsets and AlterShareGroupOffsets: done is what is stored.
StoreOffsets(g, offsets, done) ==
  /\ committed' = [committed EXCEPT ![g] =
                     [p \in Partitions |-> IF p \in done THEN offsets[p] ELSE @[p]]]
  /\ UNCHANGED <<active, log, topics, moves>>

\* DeleteConsumerGroupOffsets and DeleteShareGroupOffsets.
RemoveOffsets(g, done) ==
  /\ committed' = [committed EXCEPT ![g] =
                     [p \in Partitions |-> IF p \in done THEN None ELSE @[p]]]
  /\ UNCHANGED <<active, log, topics, moves>>

\* DeleteTopics: done is what is deleted; a topic that does not exist is refused.
DropTopics(done) ==
  /\ done \subseteq topics
  /\ topics' = topics \ done
  /\ UNCHANGED <<active, committed, log, moves>>

ClusterTypeOK ==
  /\ active \subseteq Groups
  /\ committed \in [Groups -> [Partitions -> Offsets \union {None}]]
  /\ log \in [Partitions -> [low : Offsets, high : Offsets]]
  /\ topics \subseteq Topics \union Internal
  /\ moves \in 0 .. MaxMoves /\ faults \in 0 .. MaxFaults
=============================================================================

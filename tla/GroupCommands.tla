--------------------------- MODULE GroupCommands ---------------------------
(***************************************************************************)
(* The group commands one after another (OffsetReset, GroupDelete), over     *)
(* the same groups, while consumers, producers and retention go on.          *)
(***************************************************************************)
EXTENDS OffsetReset, GroupDelete

CONSTANT MaxRuns     \* bound: commands that are run

ASSUME RunsAssumption == MaxRuns \in Nat

VARIABLE runs        \* number of commands so far

vars == <<cluster, faults, job, work, runs>>

Init == ClusterInit /\ job = NoJob /\ work = NoWork /\ runs = 0

\* The next command, once the report of the last one has been read.
Reset(c) == Begin(c) /\ work' = NoWork
Delete(c) == Order(c) /\ job' = NoJob

Run ==
  /\ runs < MaxRuns /\ runs' = runs + 1
  /\ Ended /\ Stopped
  /\ (\E c \in Resets : Reset(c)) \/ (\E c \in Deletions : Delete(c))

Next ==
  \/ Run
  \/ Others /\ UNCHANGED <<job, work, runs>>
  \/ ResetStep /\ UNCHANGED <<work, runs>>
  \/ DeleteStep /\ UNCHANGED <<job, runs>>

Spec == Init /\ [][Next]_vars

-----------------------------------------------------------------------------
\* The types of the cluster's variables and of the two commands' state.
TypeOK ==
  /\ ClusterTypeOK /\ runs \in 0 .. MaxRuns
  /\ job.cmd \in Resets \union {NoCommand}
  /\ job.pc \in Endings \union {"groups", "states", "evict", "plan", "read", "lines", "store", "clean"}
  /\ job.todo \subseteq Groups /\ job.inactive \subseteq Groups
  /\ job.known \subseteq Groups /\ job.skipped \subseteq Groups
  /\ job.group \in Groups \union {NoGroup}
  /\ job.parts \subseteq Partitions /\ job.lines \subseteq Groups \X Partitions
  /\ job.seen \in [Partitions -> Offsets \union {None}]
  /\ job.rows \in [Groups -> [Partitions -> Offsets \union {None}]]
  /\ job.written \in [Groups -> [Partitions -> Offsets \union {None}]]
  /\ job.internal \in [Groups -> SUBSET Internal] /\ job.dropped \subseteq Internal
  /\ work.cmd \in Deletions \union {NoDeletion}
  /\ work.pc \in Endings \union {"list", "describe", "delete", "topics", "committed", "select", "remove"}
  /\ work.todo \subseteq Groups /\ work.idle \subseteq work.listed
  /\ work.parts \subseteq Partitions /\ work.removed \subseteq work.parts
  /\ work.gone \subseteq Groups /\ work.dropped \subseteq Internal

\* What the end of a reset says is true.  One that succeeds has stored every offset it
\* reports, and has an offset, or the remark that its group is active, for every
\* partition that was asked for (but for topics that are missing and that a consumer
\* group is given): one request per group, some refused, between reports that are put
\* together over many steps.  One that ends because the invocation is wrong
\* (a topic that is missing, no committed offset to start from, a line of another group)
\* has changed nothing; not so for several groups without a file, which are planned and
\* stored in turn.
ResetEndIsTrue ==
  /\ job.pc = "ok" /\ cmd.execute =>
       /\ job.written = job.rows
       /\ ~ cmd.all /\ ~ cmd.every /\ ~ FromFile =>
            \A g \in cmd.groups \ job.skipped, p \in PartitionsOf(cmd.names \union cmd.through) :
              job.rows[g][p] # None \/ (Kind({"consumer"}) /\ TopicOf[p] \notin topics)
  /\ job.pc = "usage" /\ (FromFile \/ (~ cmd.all /\ \E g \in Groups : cmd.groups = {g})) =>
       job.written = NoRows /\ job.dropped = {}

\* No offset that a reset stores lies beyond the end of its log, whatever was asked for
\* and however the log has moved since it was read (the clamps of reset_target and of
\* read_reset_plan).
StoredWithinLog ==
  \A g \in Groups, p \in Partitions : job.written[g][p] <= log[p].high

\* "Internal topics are deleted only after the offset reset has succeeded" (report,
\* line 324): every offset of the report is stored, and each group has one for every
\* partition that was asked for.  An application would else start again without its state
\* and in the middle.  Topics that do not exist are the exception: they are FAILED rows of
\* an application reset, which goes on to delete.
CleanupAfterReset ==
  job.dropped # {} =>
    /\ job.written = job.rows
    /\ \A g \in job.inactive :
         IF cmd.every THEN job.rows[g] # NoOffsets
         ELSE \A p \in PartitionsOf((cmd.names \union cmd.through) \intersect topics) :
                job.rows[g][p] # None

\* What is reported as DELETED has been deleted by this command: groups, internal topics,
\* the offsets of share groups.  (Not the offsets of other groups: an answer that
\* refuses a partition counts as success.)  A deletion of groups that succeeds has
\* deleted them all, with their internal topics if that was asked for.
DeletionIsReported ==
  /\ ~ order.offsets \/ Of({"share"}) =>
       \A row \in work.rows :
         row.status = Deleted => row.resource \in work.gone \union work.dropped \union work.removed
  /\ work.pc = "ok" /\ order.execute /\ ~ order.offsets =>
       \A g \in IF order.all THEN work.listed ELSE order.groups :
         /\ g \in work.gone
         /\ Of({"streams"}) /\ order.internal => InternalOf[g] \subseteq work.dropped

\* Internal topics are deleted only after their group (report, line 492): what a group
\* that still exists may need is not touched.
TopicsAfterGroup == work.dropped \subseteq UNION {InternalOf[g] : g \in work.gone}
=============================================================================

---------------------------- MODULE GroupDelete ----------------------------
(***************************************************************************)
(* The commands that delete groups, and those that delete the offsets of    *)
(* one group: `delete` and `delete-offsets` of kafka groups, share-groups    *)
(* and streams-groups.  They run against the cluster of GroupCoordinator,    *)
(* one request a step.                                                      *)
(*                                                                         *)
(* Abstractions.  Groups are visited in any order.  A topic is chosen with   *)
(* all its partitions.                                                      *)
(***************************************************************************)
EXTENDS GroupCoordinator

CONSTANT Deletions    \* the commands that are run

ASSUME DeletionsAssumption == \A c \in Deletions : c.groups \subseteq Groups

VARIABLE work         \* the command: what it does, what it has read and reported

Deleted == "DELETED"
Failed == "FAILED"
Preview == "PREVIEW"

NoDeletion == [kind |-> "none", offsets |-> FALSE, groups |-> {}, all |-> FALSE,
               names |-> {}, every |-> FALSE, internal |-> FALSE, execute |-> FALSE]

\* rows: the status reported of a group, a topic or a partition.
NoWork == [cmd |-> NoDeletion, pc |-> "ok", todo |-> {}, asked |-> {}, listed |-> {},
           idle |-> {}, topology |-> [g \in Groups |-> {}], parts |-> {},
           rows |-> {}, removed |-> {}, gone |-> {}, dropped |-> {}]

order == work.cmd
Of(kinds) == order.kind \in kinds
Doing(step) == work.pc = step
Stop(how) == [work EXCEPT !.pc = how]
Stopped == work.pc \in {"ok", "partial", "usage", "failed"}

Row(resource, status) == [resource |-> resource, status |-> status]
\* Mutant of AnyFailed: only the rows of groups are counted.
AnyGroupFailed == \E row \in work.rows : row.status = Failed /\ row.resource \in Groups

AnyFailed == \E row \in work.rows : row.status = Failed

\* A request that changes nothing fails, or its answer does not come: the rows that
\* there are by then are not printed.
Break ==
  /\ ~ Stopped
  /\ Fault
  /\ work' = Stop("failed")
  /\ UNCHANGED cluster

-----------------------------------------------------------------------------
(* Groups are deleted. *)

Order(c) ==
  /\ Stopped
  /\ work' = [NoWork EXCEPT !.cmd = c,
                            !.pc = IF c.offsets THEN "committed" ELSE "list"]
  /\ UNCHANGED <<cluster, faults>>

\* Consumer groups are listed for --all-groups only; the others always, and what is
\* listed is then described.
List ==
  /\ Doing("list")
  /\ LET existing == {g \in Groups : Exists(g)}
         groups == IF order.all THEN existing ELSE order.groups
     IN  work' = IF groups = {} THEN Stop("usage")
                 ELSE [work EXCEPT !.todo = groups, !.asked = groups \intersect existing,
                                   !.listed = groups \intersect existing,
                                   !.pc = IF Of({"consumer"}) THEN "delete" ELSE "describe"]
  /\ UNCHANGED <<cluster, faults>>

\* A group that has gone since it was listed is an error of the whole command.
Describe(g) ==
  /\ Doing("describe") /\ g \in work.asked
  /\ work' = IF ~ Exists(g) THEN Stop("failed")
             ELSE IF Inactive(g)
             THEN [work EXCEPT !.asked = @ \ {g}, !.idle = @ \union {g},
                     !.topology[g] = IF order.internal THEN InternalOf[g] ELSE {}]
             ELSE [work EXCEPT !.asked = @ \ {g}]
  /\ UNCHANGED <<cluster, faults>>

Described ==
  /\ Doing("describe") /\ work.asked = {}
  /\ work' = Stop("delete")
  /\ UNCHANGED <<cluster, faults>>

\* What was found decides: a group that was not listed or not Empty gets a FAILED
\* row, and without --execute the rest a PREVIEW row each.
Refuse(g) ==
  /\ Doing("delete") /\ ~ Of({"consumer"}) /\ g \in work.todo \ work.idle
  /\ work' = [work EXCEPT !.todo = @ \ {g}, !.rows = @ \union {Row(g, Failed)}]
  /\ UNCHANGED <<cluster, faults>>

Accepted == IF Of({"consumer"}) THEN work.todo ELSE work.todo \intersect work.idle

ShowGroup(g) ==
  /\ Doing("delete") /\ ~ order.execute /\ g \in Accepted
  /\ work' = [work EXCEPT !.todo = @ \ {g},
                !.rows = @ \union {Row(x, Preview) : x \in {g} \union work.topology[g]}]
  /\ UNCHANGED <<cluster, faults>>

\* Mutant of TopicsToDelete: whether the group was deleted is forgotten.
TopicsAnyway(g, status) == work.topology[g]

\* The internal topics follow a group that was deleted.
TopicsToDelete(g, status) == IF status = Deleted THEN work.topology[g] ELSE {}

\* delete_one_group, and each group of delete_groups.  The coordinator refuses a group
\* that has members or does not exist.  A lost answer ends a command that asks group
\* by group, and is the error of its row where all are asked at once.
DeleteGroup(g) ==
  /\ Doing("delete") /\ order.execute /\ g \in Accepted
  /\ LET rest == [work EXCEPT !.todo = @ \ {g}]
         deleting == Exists(g) /\ Inactive(g)
         told(status) == [rest EXCEPT !.rows = @ \union {Row(g, status)},
                                      !.asked = TopicsToDelete(g, status),
                                      !.pc = IF TopicsToDelete(g, status) = {}
                                             THEN "delete" ELSE "topics"]
     IN  \/ /\ deleting /\ faults' = faults
            /\ RemoveOffsets(g, Partitions)
            /\ work' = [told(Deleted) EXCEPT !.gone = @ \union {g}]
         \/ /\ ~ deleting /\ UNCHANGED <<cluster, faults>>
            /\ work' = told(Failed)
         \/ /\ Fault
            /\ IF deleting THEN RemoveOffsets(g, Partitions) ELSE UNCHANGED cluster
            /\ work' = IF Of({"consumer"}) THEN told(Failed) ELSE [rest EXCEPT !.pc = "failed"]

\* The internal topics of the Streams group that has just been deleted.
DeleteTopics ==
  /\ Doing("topics")
  /\ \E done \in SUBSET (work.asked \intersect topics) :
       LET after == [work EXCEPT !.dropped = @ \union done]
           rows == {Row(t, IF t \in done THEN Deleted ELSE Failed) : t \in work.asked}
       IN  /\ DropTopics(done)
           /\ \/ /\ done = work.asked \intersect topics /\ faults' = faults
                 /\ work' = [after EXCEPT !.rows = @ \union rows, !.pc = "delete", !.asked = {}]
              \/ /\ Fault
                 /\ work' = [after EXCEPT !.rows = @ \union rows, !.pc = "delete", !.asked = {}]
              \/ /\ Fault
                 /\ work' = [after EXCEPT !.pc = "failed"]

Conclude ==
  /\ Doing("delete") /\ work.todo = {}
  /\ work' = IF AnyFailed THEN Stop("partial") ELSE Stop("ok")
  /\ UNCHANGED <<cluster, faults>>

-----------------------------------------------------------------------------
(* The offsets of one group are deleted. *)

TheGroup == CHOOSE g \in Groups : g \in order.groups

\* Streams: the offsets there are now, to compare with.
ListCommitted ==
  /\ Doing("committed")
  /\ work' = IF Of({"streams"})
             THEN [work EXCEPT !.asked = {p \in Partitions : HasOffset(TheGroup, p)},
                               !.pc = "select"]
             ELSE Stop("select")
  /\ UNCHANGED <<cluster, faults>>

\* The partitions to delete: of the topics named, which must exist and, for Streams,
\* have offsets; with --all-input-topics those listed, if the group is still there.
\* Topics of a share group are not looked up.
SelectPartitions ==
  /\ Doing("select")
  /\ LET parts == IF order.every THEN work.asked ELSE PartitionsOf(order.names)
         wrong == \/ ~ Of({"share"}) /\ ~ order.every /\ ~ order.names \subseteq topics
                  \/ Of({"streams"}) /\ ~ parts \subseteq work.asked
                  \/ Of({"streams"}) /\ parts = {}
     IN  work' = IF order.every /\ ~ Exists(TheGroup) THEN Stop("failed")
                 ELSE IF wrong THEN Stop("usage")
                 ELSE IF order.execute THEN [work EXCEPT !.parts = parts, !.pc = "remove"]
                 ELSE [work EXCEPT !.rows = {Row(p, Preview) : p \in parts}, !.pc = "ok"]
  /\ UNCHANGED <<cluster, faults>>

\* One request.  A share group's answer is read topic by topic and an error of the
\* group ends the command; of the other answers only the error of the group is read,
\* and a group with members may refuse each partition instead of the whole.  Nothing
\* is printed for a consumer group.
DeleteOffsets ==
  /\ Doing("remove")
  /\ \E done \in Doable(TheGroup, work.parts) :
       LET after == [work EXCEPT !.removed = done]
           told(ps) == {Row(p, Deleted) : p \in ps}
           missed == {Row(p, Failed) : p \in work.parts \ done}
           refused == TheGroup \in active
       IN  /\ RemoveOffsets(TheGroup, done)
           /\ \/ /\ ~ Exists(TheGroup) \/ refused
                 /\ faults' = faults
                 /\ work' = [after EXCEPT !.pc = "failed"]
              \/ /\ ~ Of({"share"}) /\ Exists(TheGroup)
                 /\ IF done = work.parts \/ refused THEN faults' = faults ELSE Fault
                 /\ work' = [after EXCEPT !.pc = "ok",
                                          !.rows = IF Of({"streams"}) THEN told(work.parts) ELSE {}]
              \/ /\ Of({"share"}) /\ ~ refused /\ Exists(TheGroup)
                 /\ IF done = work.parts THEN faults' = faults ELSE Fault
                 /\ work' = [after EXCEPT !.rows = told(done) \union missed,
                                          !.pc = IF missed = {} THEN "ok" ELSE "partial"]
              \/ /\ Fault
                 /\ work' = [after EXCEPT !.pc = "failed"]

-----------------------------------------------------------------------------
DeleteStep ==
  \/ Break \/ List \/ Described \/ DeleteTopics \/ Conclude
  \/ ListCommitted \/ SelectPartitions \/ DeleteOffsets
  \/ \E g \in Groups :
       \/ Describe(g) \/ Refuse(g) \/ ShowGroup(g) \/ DeleteGroup(g)
=============================================================================

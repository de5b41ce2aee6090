------------------------- MODULE GroupDeleteProofs -------------------------
(***************************************************************************)
(* Theorems about the deletion commands, for every set of groups, partitions *)
(* and command lines, whatever the other clients and the resets do.          *)
(***************************************************************************)
EXTENDS GroupCommands, TLAPS

InternalOfAll(gs) == UNION {InternalOf[g] : g \in gs}

Things == Groups \union Partitions \union Internal

GroupSteps == {"list", "describe", "delete", "topics"}
OffsetSteps == {"committed", "select", "remove"}
Steps == GroupSteps \union OffsetSteps \union Endings

Works ==
  [cmd : Deletions \union {NoDeletion}, pc : Steps, todo : SUBSET Groups,
   asked : SUBSET Things, listed : SUBSET Groups, idle : SUBSET Groups,
   topology : [Groups -> SUBSET Internal], parts : SUBSET Things,
   rows : SUBSET [resource : Things, status : {Deleted, Failed, Preview}],
   removed : SUBSET Things, gone : SUBSET Groups, dropped : SUBSET Internal]

\* The groups that the command is to delete.
Goal(w) == IF w.cmd.all THEN w.listed ELSE w.cmd.groups

Wants(w, g) == w.cmd.kind = "streams" /\ w.cmd.internal

\* g is deleted, and its topics are or will be.
Handled(w, g, names) ==
  g \in w.gone /\ (Wants(w, g) => InternalOf[g] \subseteq names)

HasFailed(w) == \E row \in w.rows : row.status = Failed

\* Topics come after their group.
TopicsInv(w) ==
  /\ w.dropped \subseteq InternalOfAll(w.gone)
  /\ w.pc = "topics" => w.asked \subseteq InternalOfAll(w.gone)

\* What is known of a group's internal topics.
TopologyInv(w) ==
  /\ \A g \in Groups : w.topology[g] \subseteq InternalOf[g]
  /\ \A g \in w.idle : w.cmd.internal => w.topology[g] = InternalOf[g]

\* Rows that say DELETED.
RowsInv(w) ==
  ~ (w.cmd.offsets /\ w.cmd.kind = "streams") =>
     \A row \in w.rows :
       row.status = Deleted => row.resource \in w.gone \union w.dropped \union w.removed

\* Each group of the command is handled, was reported as FAILED, or is still to come.
GoalInv(w) ==
  /\ w.pc \in GroupSteps => ~ w.cmd.offsets
  /\ w.pc \in OffsetSteps => w.cmd.offsets /\ w.rows = {}
  /\ w.pc = "describe" => w.todo = Goal(w)
  /\ w.pc = "delete" /\ w.cmd.execute =>
       \A g \in Goal(w) \ w.todo : Handled(w, g, w.dropped) \/ HasFailed(w)
  /\ w.pc = "topics" =>
       /\ w.cmd.execute
       /\ \A g \in Goal(w) \ w.todo : Handled(w, g, w.dropped \union w.asked) \/ HasFailed(w)
  /\ w.pc = "ok" /\ w.cmd.execute /\ ~ w.cmd.offsets =>
       \A g \in Goal(w) : Handled(w, g, w.dropped)

WorkInv(w) == w \in Works /\ TopicsInv(w) /\ TopologyInv(w) /\ RowsInv(w) /\ GoalInv(w)

-----------------------------------------------------------------------------
LEMMA NoWorkInv == WorkInv(NoWork)
<1>1. NoWork \in Works
  <2>1. NoDeletion \in Deletions \union {NoDeletion} OBVIOUS
  <2>2. [g \in Groups |-> {}] \in [Groups -> SUBSET Internal] OBVIOUS
  <2> QED BY <2>1, <2>2 DEF NoWork, Works, Steps, Endings
<1>2. TopicsInv(NoWork) /\ TopologyInv(NoWork) /\ RowsInv(NoWork) /\ GoalInv(NoWork)
  BY DEF NoWork, NoDeletion, TopicsInv, TopologyInv, RowsInv, GoalInv, GroupSteps, OffsetSteps
<1> QED BY <1>1, <1>2 DEF WorkInv

LEMMA OrderInv == ASSUME NEW c \in Deletions, Order(c) PROVE WorkInv(work')
<1> DEFINE step == IF c.offsets THEN "committed" ELSE "list"
<1>1. work' = [NoWork EXCEPT !.cmd = c, !.pc = step] BY DEF Order
<1>2. /\ work' \in Works /\ work'.cmd = c /\ work'.pc = step
      /\ work'.rows = {} /\ work'.gone = {} /\ work'.dropped = {} /\ work'.idle = {}
      /\ work'.topology = [g \in Groups |-> {}]
  <2> HIDE DEF step
  <2>1. step \in Steps BY DEF step, Steps, GroupSteps, OffsetSteps
  <2> QED BY <1>1, <2>1 DEF NoWork, NoDeletion, Works, Internal
<1>3. TopicsInv(work') /\ TopologyInv(work') /\ RowsInv(work')
  BY <1>2 DEF TopicsInv, TopologyInv, RowsInv
<1>4. GoalInv(work')
  BY <1>2 DEF GoalInv, GroupSteps, OffsetSteps
<1> QED BY <1>2, <1>3, <1>4 DEF WorkInv

\* A command that ends before its work is done promises nothing.
LEMMA StopInv ==
  ASSUME WorkInv(work), NEW how \in {"usage", "failed", "partial"}, work' = Stop(how)
  PROVE  WorkInv(work')
<1>1. work' \in Works
  BY DEF WorkInv, Stop, Works, Steps, Endings
<1>2. /\ work'.pc = how /\ work'.cmd = work.cmd /\ work'.listed = work.listed
      /\ work'.idle = work.idle /\ work'.topology = work.topology /\ work'.rows = work.rows
      /\ work'.removed = work.removed /\ work'.gone = work.gone /\ work'.dropped = work.dropped
  BY DEF WorkInv, Stop, Works
<1>3. TopicsInv(work') /\ TopologyInv(work') /\ RowsInv(work')
  BY <1>2 DEF WorkInv, TopicsInv, TopologyInv, RowsInv
<1>4. GoalInv(work')
  BY <1>2 DEF GoalInv, GroupSteps, OffsetSteps
<1> QED BY <1>1, <1>3, <1>4 DEF WorkInv

LEMMA CommandGroups == ASSUME NEW w \in Works PROVE w.cmd.groups \subseteq Groups
BY DeletionsAssumption DEF Works, NoDeletion

LEMMA ListInv == ASSUME WorkInv(work), List PROVE WorkInv(work')
<1> DEFINE existing == {g \in Groups : Exists(g)}
           groups == IF order.all THEN existing ELSE order.groups
           step == IF Of({"consumer"}) THEN "delete" ELSE "describe"
<1>1. CASE groups = {}
  BY <1>1, StopInv DEF List
<1>2. CASE groups # {}
  <2>1. work' = [work EXCEPT !.todo = groups, !.asked = groups \intersect existing,
                             !.listed = groups \intersect existing, !.pc = step]
    BY <1>2 DEF List
  <2>2. groups \subseteq Groups /\ existing \subseteq Groups /\ step \in {"delete", "describe"}
    BY CommandGroups DEF WorkInv, order
  <2>3. order.all => groups \intersect existing = groups
    OBVIOUS
  <2>4. ~ order.all => groups = order.groups
    OBVIOUS
  <2> HIDE DEF groups, existing, step
  <2>5. work' \in Works
    BY <2>1, <2>2 DEF WorkInv, Works, Steps, GroupSteps, Things
  <2>6. /\ work'.pc = step /\ work'.cmd = work.cmd /\ work'.todo = groups
        /\ work'.listed = groups \intersect existing
        /\ work'.idle = work.idle /\ work'.topology = work.topology /\ work'.rows = work.rows
        /\ work'.removed = work.removed /\ work'.gone = work.gone
        /\ work'.dropped = work.dropped
    BY <2>1 DEF WorkInv, Works
  <2>7. TopicsInv(work') /\ TopologyInv(work') /\ RowsInv(work')
    BY <2>2, <2>6 DEF WorkInv, TopicsInv, TopologyInv, RowsInv
  <2>8. Goal(work') = groups
    BY <2>3, <2>4, <2>6 DEF Goal, order
  <2>9. ~ work.cmd.offsets
    BY DEF List, Doing, WorkInv, GoalInv, GroupSteps
  <2>10. GoalInv(work')
    BY <2>2, <2>6, <2>8, <2>9 DEF GoalInv, OffsetSteps
  <2> QED BY <2>5, <2>7, <2>10 DEF WorkInv
<1> QED BY <1>1, <1>2

LEMMA DescribeInv == ASSUME WorkInv(work), NEW g \in Groups, Describe(g) PROVE WorkInv(work')
<1> DEFINE names == IF order.internal THEN InternalOf[g] ELSE {}
<1>1. CASE ~ Exists(g)
  <2>1. work' = Stop("failed") BY <1>1 DEF Describe
  <2> QED BY <2>1, StopInv
<1>2. CASE Exists(g) /\ Inactive(g)
  <2>1. work' = [work EXCEPT !.asked = @ \ {g}, !.idle = @ \union {g}, !.topology[g] = names]
    BY <1>2 DEF Describe
  <2>2. names \subseteq InternalOf[g] /\ InternalOf[g] \subseteq Internal
        /\ (order.internal => names = InternalOf[g])
    BY DEF Internal
  <2> HIDE DEF names
  <2>3. work' \in Works
    BY <2>1, <2>2 DEF WorkInv, Works
  <2>4. /\ work'.pc = work.pc /\ work'.cmd = work.cmd /\ work'.todo = work.todo
        /\ work'.listed = work.listed
        /\ work'.idle = work.idle \union {g}
        /\ work'.topology = [work.topology EXCEPT ![g] = names]
        /\ work'.rows = work.rows
        /\ work'.removed = work.removed /\ work'.gone = work.gone
        /\ work'.dropped = work.dropped
    BY <2>1 DEF WorkInv, Works
  <2>5. work.pc = "describe"
    BY DEF Describe, Doing
  <2>6. TopicsInv(work') /\ RowsInv(work') /\ GoalInv(work')
    BY <2>4, <2>5 DEF WorkInv, TopicsInv, RowsInv, GoalInv, Goal
  <2>7. TopologyInv(work')
    BY <2>2, <2>4 DEF WorkInv, Works, TopologyInv, order
  <2> QED BY <2>3, <2>6, <2>7 DEF WorkInv
<1>3. CASE Exists(g) /\ ~ Inactive(g)
  <2>1. work' = [work EXCEPT !.asked = @ \ {g}]
    BY <1>3 DEF Describe
  <2>2. work' \in Works
    BY <2>1 DEF WorkInv, Works
  <2>3. /\ work'.pc = work.pc /\ work'.cmd = work.cmd /\ work'.todo = work.todo
        /\ work'.listed = work.listed /\ work'.idle = work.idle
        /\ work'.topology = work.topology /\ work'.rows = work.rows
        /\ work'.removed = work.removed /\ work'.gone = work.gone
        /\ work'.dropped = work.dropped
    BY <2>1 DEF WorkInv, Works
  <2>4. work.pc = "describe"
    BY DEF Describe, Doing
  <2>5. TopicsInv(work') /\ TopologyInv(work') /\ RowsInv(work') /\ GoalInv(work')
    BY <2>3, <2>4 DEF WorkInv, TopicsInv, TopologyInv, RowsInv, GoalInv, Goal
  <2> QED BY <2>2, <2>5 DEF WorkInv
<1> QED BY <1>1, <1>2, <1>3

LEMMA DescribedInv == ASSUME WorkInv(work), Described PROVE WorkInv(work')
<1>1. work' = [work EXCEPT !.pc = "delete"] /\ work.pc = "describe"
  BY DEF Described, Stop, Doing
<1>2. work' \in Works
  BY <1>1 DEF WorkInv, Works, Steps, GroupSteps
<1>3. /\ work'.pc = "delete" /\ work'.cmd = work.cmd /\ work'.todo = work.todo
      /\ work'.listed = work.listed /\ work'.idle = work.idle
      /\ work'.topology = work.topology /\ work'.rows = work.rows
      /\ work'.removed = work.removed /\ work'.gone = work.gone
      /\ work'.dropped = work.dropped
  BY <1>1 DEF WorkInv, Works
<1>4. TopicsInv(work') /\ TopologyInv(work') /\ RowsInv(work')
  BY <1>3 DEF WorkInv, TopicsInv, TopologyInv, RowsInv
<1>5. GoalInv(work')
  BY <1>1, <1>3 DEF WorkInv, GoalInv, Goal, GroupSteps, OffsetSteps
<1> QED BY <1>2, <1>4, <1>5 DEF WorkInv

LEMMA ConcludeInv == ASSUME WorkInv(work), Conclude PROVE WorkInv(work')
<1>1. CASE AnyFailed
  BY <1>1, StopInv DEF Conclude
<1>2. CASE ~ AnyFailed
  <2>1. work' = [work EXCEPT !.pc = "ok"] /\ work.pc = "delete" /\ work.todo = {}
    BY <1>2 DEF Conclude, Stop, Doing
  <2>2. work' \in Works
    BY <2>1 DEF WorkInv, Works, Steps, Endings
  <2>3. /\ work'.pc = "ok" /\ work'.cmd = work.cmd
        /\ work'.listed = work.listed /\ work'.idle = work.idle
        /\ work'.topology = work.topology /\ work'.rows = work.rows
        /\ work'.removed = work.removed /\ work'.gone = work.gone
        /\ work'.dropped = work.dropped
    BY <2>1 DEF WorkInv, Works
  <2>4. TopicsInv(work') /\ TopologyInv(work') /\ RowsInv(work')
    BY <2>3 DEF WorkInv, TopicsInv, TopologyInv, RowsInv
  <2>5. ~ HasFailed(work)
    BY <1>2 DEF AnyFailed, HasFailed
  <2>6. GoalInv(work')
    BY <2>1, <2>3, <2>5 DEF WorkInv, GoalInv, Goal, Handled, Wants, GroupSteps, OffsetSteps
  <2> QED BY <2>2, <2>4, <2>6 DEF WorkInv
<1> QED BY <1>1, <1>2

LEMMA RefuseInv == ASSUME WorkInv(work), NEW g \in Groups, Refuse(g) PROVE WorkInv(work')
<1> DEFINE new == {Row(g, Failed)}
<1>1. work' = [work EXCEPT !.todo = @ \ {g}, !.rows = @ \union new] /\ work.pc = "delete"
  BY DEF Refuse, Doing
<1>2. /\ new \subseteq [resource : Things, status : {Deleted, Failed, Preview}]
      /\ \A row \in new : row.status = Failed
      /\ \E row \in new : row.status = Failed
  BY DEF Row, Things
<1> HIDE DEF new
<1>3. work' \in Works
  BY <1>1, <1>2 DEF WorkInv, Works
<1>4. /\ work'.pc = "delete" /\ work'.cmd = work.cmd /\ work'.rows = work.rows \union new
      /\ work'.listed = work.listed /\ work'.idle = work.idle
      /\ work'.topology = work.topology
      /\ work'.removed = work.removed /\ work'.gone = work.gone
      /\ work'.dropped = work.dropped
  BY <1>1 DEF WorkInv, Works
<1>5. TopicsInv(work') /\ TopologyInv(work')
  BY <1>4 DEF WorkInv, TopicsInv, TopologyInv
<1>6. RowsInv(work')
  BY <1>2, <1>4 DEF WorkInv, RowsInv, Deleted, Failed
<1>7. HasFailed(work')
  <2>1. PICK row \in new : row.status = Failed BY <1>2
  <2>2. row \in work'.rows BY <1>4, <2>1
  <2> QED BY <2>1, <2>2 DEF HasFailed
<1>9. ~ work.cmd.offsets
  BY <1>1 DEF WorkInv, GoalInv, GroupSteps
<1>8. GoalInv(work')
  BY <1>4, <1>7, <1>9 DEF GoalInv, OffsetSteps
<1> QED BY <1>3, <1>5, <1>6, <1>8 DEF WorkInv

LEMMA ShowGroupInv ==
  ASSUME WorkInv(work), NEW g \in Groups, ShowGroup(g) PROVE WorkInv(work')
<1> DEFINE new == {Row(x, Preview) : x \in {g} \union work.topology[g]}
<1>1. work' = [work EXCEPT !.todo = @ \ {g}, !.rows = @ \union new]
      /\ work.pc = "delete" /\ ~ work.cmd.execute
  BY DEF ShowGroup, Doing, order
<1>2. /\ new \subseteq [resource : Things, status : {Deleted, Failed, Preview}]
      /\ \A row \in new : row.status = Preview
  <2>1. work.topology[g] \subseteq Internal BY DEF WorkInv, Works
  <2> QED BY <2>1 DEF Row, Things
<1> HIDE DEF new
<1>3. work' \in Works
  BY <1>1, <1>2 DEF WorkInv, Works
<1>4. /\ work'.pc = "delete" /\ work'.cmd = work.cmd /\ work'.rows = work.rows \union new
      /\ work'.listed = work.listed /\ work'.idle = work.idle
      /\ work'.topology = work.topology
      /\ work'.removed = work.removed /\ work'.gone = work.gone
      /\ work'.dropped = work.dropped
  BY <1>1 DEF WorkInv, Works
<1>5. TopicsInv(work') /\ TopologyInv(work')
  BY <1>4 DEF WorkInv, TopicsInv, TopologyInv
<1>6. RowsInv(work')
  BY <1>2, <1>4 DEF WorkInv, RowsInv, Deleted, Preview
<1>7. GoalInv(work')
  BY <1>1, <1>4 DEF WorkInv, GoalInv, GroupSteps, OffsetSteps
<1> QED BY <1>3, <1>5, <1>6, <1>7 DEF WorkInv

\* The three outcomes of a group's request: deleted, refused, unanswered.
LEMMA DeleteGroupInv ==
  ASSUME WorkInv(work), NEW g \in Groups, DeleteGroup(g) PROVE WorkInv(work')
<1> DEFINE rest == [work EXCEPT !.todo = @ \ {g}]
           told(status) == [rest EXCEPT !.rows = @ \union {Row(g, status)},
                                        !.asked = TopicsToDelete(g, status),
                                        !.pc = IF TopicsToDelete(g, status) = {}
                                               THEN "delete" ELSE "topics"]
<1>1. /\ work.pc = "delete" /\ work.cmd.execute /\ ~ work.cmd.offsets
      /\ work.cmd.kind = "streams" => g \in work.idle
  BY DEF DeleteGroup, Doing, order, WorkInv, GoalInv, GroupSteps, Accepted, Of
<1>2. /\ work.topology[g] \subseteq InternalOf[g]
      /\ Wants(work, g) => work.topology[g] = InternalOf[g]
      /\ work.topology[g] \subseteq Internal
  BY <1>1 DEF WorkInv, TopologyInv, Wants, Works
<1>3. \/ work' = [told(Deleted) EXCEPT !.gone = @ \union {g}]
      \/ work' = told(Failed)
      \/ work' = [rest EXCEPT !.pc = "failed"]
  BY DEF DeleteGroup
<1>4. CASE work' = [told(Deleted) EXCEPT !.gone = @ \union {g}]
  <2> DEFINE names == work.topology[g]
             step == IF names = {} THEN "delete" ELSE "topics"
             row == Row(g, Deleted)
  <2>1. work' = [work EXCEPT !.todo = @ \ {g}, !.rows = @ \union {row}, !.asked = names,
                             !.pc = step, !.gone = @ \union {g}]
    BY <1>4 DEF TopicsToDelete, WorkInv, Works
  <2>2. row \in [resource : Things, status : {Deleted, Failed, Preview}] /\ row.resource = g
    BY DEF Row, Things
  <2>3. step \in {"delete", "topics"} /\ (names = {} <=> step = "delete")
    OBVIOUS
  <2>4. names \subseteq InternalOf[g] /\ (Wants(work, g) => names = InternalOf[g])
        /\ names \subseteq Internal
    BY <1>2
  <2> HIDE DEF names, step, row
  <2>5. work' \in Works
    BY <2>1, <2>2, <2>3, <2>4 DEF WorkInv, Works, Steps, GroupSteps, Things
  <2>6. /\ work'.pc = step /\ work'.cmd = work.cmd /\ work'.rows = work.rows \union {row}
        /\ work'.todo = work.todo \ {g} /\ work'.asked = names
        /\ work'.listed = work.listed /\ work'.idle = work.idle
        /\ work'.topology = work.topology
        /\ work'.removed = work.removed /\ work'.gone = work.gone \union {g}
        /\ work'.dropped = work.dropped
    BY <2>1 DEF WorkInv, Works
  <2>7. TopicsInv(work')
    BY <2>4, <2>6 DEF WorkInv, TopicsInv, InternalOfAll
  <2>8. TopologyInv(work')
    BY <2>6 DEF WorkInv, TopologyInv
  <2>9. RowsInv(work')
    BY <2>2, <2>6 DEF WorkInv, RowsInv
  <2>10. \A h \in Goal(work') \ work'.todo :
           Handled(work', h, work'.dropped \union work'.asked) \/ HasFailed(work')
    <3> TAKE h \in Goal(work') \ work'.todo
    <3>1. CASE h = g
      BY <3>1, <2>4, <2>6 DEF Handled, Wants
    <3>2. CASE h # g
      <4>1. h \in Goal(work) \ work.todo
        BY <3>2, <2>6 DEF Goal
      <4>2. Handled(work, h, work.dropped) \/ HasFailed(work)
        BY <4>1, <1>1 DEF WorkInv, GoalInv
      <4> QED BY <4>2, <2>6 DEF Handled, Wants, HasFailed
    <3> QED BY <3>1, <3>2
  <2>11. GoalInv(work')
    <3>1. CASE step = "delete"
      <4>1. work'.dropped \union work'.asked = work'.dropped
        BY <3>1, <2>3, <2>6
      <4> QED BY <3>1, <4>1, <1>1, <2>6, <2>10 DEF GoalInv, OffsetSteps
    <3>2. CASE step = "topics"
      BY <3>2, <1>1, <2>6, <2>10 DEF GoalInv, OffsetSteps
    <3> QED BY <3>1, <3>2, <2>3
  <2> QED BY <2>5, <2>7, <2>8, <2>9, <2>11 DEF WorkInv
<1>5. CASE work' = told(Failed)
  <2> DEFINE row == Row(g, Failed)
  <2>1. work' = [work EXCEPT !.todo = @ \ {g}, !.rows = @ \union {row}, !.asked = {},
                             !.pc = "delete"]
    BY <1>5 DEF TopicsToDelete, WorkInv, Works, Failed, Deleted
  <2>2. row \in [resource : Things, status : {Deleted, Failed, Preview}] /\ row.status = Failed
    BY DEF Row, Things
  <2> HIDE DEF row
  <2>3. work' \in Works
    BY <2>1, <2>2 DEF WorkInv, Works, Steps, GroupSteps
  <2>4. /\ work'.pc = "delete" /\ work'.cmd = work.cmd /\ work'.rows = work.rows \union {row}
        /\ work'.listed = work.listed /\ work'.idle = work.idle
        /\ work'.topology = work.topology
        /\ work'.removed = work.removed /\ work'.gone = work.gone
        /\ work'.dropped = work.dropped
    BY <2>1 DEF WorkInv, Works
  <2>5. TopicsInv(work') /\ TopologyInv(work')
    BY <2>4 DEF WorkInv, TopicsInv, TopologyInv
  <2>6. RowsInv(work')
    BY <2>2, <2>4 DEF WorkInv, RowsInv, Failed, Deleted
  <2>7. HasFailed(work')
    BY <2>2, <2>4 DEF HasFailed
  <2>8. GoalInv(work')
    BY <1>1, <2>4, <2>7 DEF GoalInv, OffsetSteps
  <2> QED BY <2>3, <2>5, <2>6, <2>8 DEF WorkInv
<1>6. CASE work' = [rest EXCEPT !.pc = "failed"]
  <2>1. work' = [work EXCEPT !.todo = @ \ {g}, !.pc = "failed"]
    BY <1>6
  <2>2. work' \in Works
    BY <2>1 DEF WorkInv, Works, Steps, Endings
  <2>3. /\ work'.pc = "failed" /\ work'.cmd = work.cmd /\ work'.rows = work.rows
        /\ work'.listed = work.listed /\ work'.idle = work.idle
        /\ work'.topology = work.topology
        /\ work'.removed = work.removed /\ work'.gone = work.gone
        /\ work'.dropped = work.dropped
    BY <2>1 DEF WorkInv, Works
  <2>4. TopicsInv(work') /\ TopologyInv(work') /\ RowsInv(work')
    BY <2>3 DEF WorkInv, TopicsInv, TopologyInv, RowsInv
  <2>5. GoalInv(work')
    BY <2>3 DEF GoalInv, GroupSteps, OffsetSteps
  <2> QED BY <2>2, <2>4, <2>5 DEF WorkInv
<1> QED BY <1>3, <1>4, <1>5, <1>6

LEMMA DeleteTopicsInv == ASSUME WorkInv(work), DeleteTopics PROVE WorkInv(work')
<1>1. /\ work.pc = "topics" /\ work.cmd.execute /\ ~ work.cmd.offsets
      /\ work.asked \subseteq InternalOfAll(work.gone)
  BY DEF DeleteTopics, Doing, WorkInv, GoalInv, TopicsInv, GroupSteps
<1>2. InternalOfAll(work.gone) \subseteq Internal
  BY DEF InternalOfAll, Internal, WorkInv, Works
<1>3. PICK done \in SUBSET (work.asked \intersect topics) :
        LET after == [work EXCEPT !.dropped = @ \union done]
            rows == {Row(t, IF t \in done THEN Deleted ELSE Failed) : t \in work.asked}
        IN  \/ work' = [after EXCEPT !.rows = @ \union rows, !.pc = "delete", !.asked = {}]
            \/ work' = [after EXCEPT !.pc = "failed"]
  BY DEF DeleteTopics
<1> DEFINE rows == {Row(t, IF t \in done THEN Deleted ELSE Failed) : t \in work.asked}
<1>4. done \subseteq Internal /\ done \subseteq InternalOfAll(work.gone)
  BY <1>1, <1>2
<1>5. CASE work' = [work EXCEPT !.dropped = @ \union done, !.rows = @ \union rows,
                               !.pc = "delete", !.asked = {}]
  <2>1. rows \subseteq [resource : Things, status : {Deleted, Failed, Preview}]
    BY <1>1, <1>2 DEF Row, Things
  <2>2. \A row \in rows : row.status = Deleted => row.resource \in done
    BY DEF Row, Deleted, Failed
  <2>3. work.asked \subseteq done \/ \E row \in rows : row.status = Failed
    <3> SUFFICES ASSUME NEW t \in work.asked, t \notin done
                 PROVE  \E row \in rows : row.status = Failed
      OBVIOUS
    <3>1. Row(t, Failed) \in rows /\ Row(t, Failed).status = Failed
      BY DEF Row
    <3> QED BY <3>1
  <2> HIDE DEF rows
  <2>4. work' \in Works
    BY <1>4, <1>5, <2>1 DEF WorkInv, Works, Steps, GroupSteps
  <2>5. /\ work'.pc = "delete" /\ work'.cmd = work.cmd /\ work'.rows = work.rows \union rows
        /\ work'.todo = work.todo
        /\ work'.listed = work.listed /\ work'.idle = work.idle
        /\ work'.topology = work.topology
        /\ work'.removed = work.removed /\ work'.gone = work.gone
        /\ work'.dropped = work.dropped \union done
    BY <1>5 DEF WorkInv, Works
  <2>6. TopicsInv(work') /\ TopologyInv(work')
    BY <1>4, <2>5 DEF WorkInv, TopicsInv, TopologyInv
  <2>7. RowsInv(work')
    BY <2>2, <2>5 DEF WorkInv, RowsInv
  <2>8. \A h \in Goal(work') \ work'.todo : Handled(work', h, work'.dropped) \/ HasFailed(work')
    <3> TAKE h \in Goal(work') \ work'.todo
    <3>1. Handled(work, h, work.dropped \union work.asked) \/ HasFailed(work)
      BY <1>1, <2>5 DEF WorkInv, GoalInv, Goal
    <3>2. CASE \E row \in rows : row.status = Failed
      BY <3>2, <2>5 DEF HasFailed
    <3>3. CASE work.asked \subseteq done
      BY <3>1, <3>3, <2>5 DEF Handled, Wants, HasFailed
    <3> QED BY <2>3, <3>2, <3>3
  <2>9. GoalInv(work')
    BY <1>1, <2>5, <2>8 DEF GoalInv, OffsetSteps
  <2> QED BY <2>4, <2>6, <2>7, <2>9 DEF WorkInv
<1>6. CASE work' = [work EXCEPT !.dropped = @ \union done, !.pc = "failed"]
  <2>1. work' \in Works
    BY <1>4, <1>6 DEF WorkInv, Works, Steps, Endings
  <2>2. /\ work'.pc = "failed" /\ work'.cmd = work.cmd /\ work'.rows = work.rows
        /\ work'.listed = work.listed /\ work'.idle = work.idle
        /\ work'.topology = work.topology
        /\ work'.removed = work.removed /\ work'.gone = work.gone
        /\ work'.dropped = work.dropped \union done
    BY <1>6 DEF WorkInv, Works
  <2>3. TopicsInv(work') /\ TopologyInv(work') /\ RowsInv(work')
    BY <1>4, <2>2 DEF WorkInv, TopicsInv, TopologyInv, RowsInv
  <2>4. GoalInv(work')
    BY <2>2 DEF GoalInv, GroupSteps, OffsetSteps
  <2> QED BY <2>1, <2>3, <2>4 DEF WorkInv
<1> QED BY <1>3, <1>5, <1>6

LEMMA ListCommittedInv == ASSUME WorkInv(work), ListCommitted PROVE WorkInv(work')
<1> DEFINE asked == IF Of({"streams"}) THEN {p \in Partitions : HasOffset(TheGroup, p)}
                    ELSE work.asked
<1>1. work' = [work EXCEPT !.asked = asked, !.pc = "select"] /\ work.pc = "committed"
  BY DEF ListCommitted, Doing, Stop, WorkInv, Works
<1>2. asked \subseteq Things
  BY DEF WorkInv, Works, Things
<1> HIDE DEF asked
<1>3. work' \in Works
  BY <1>1, <1>2 DEF WorkInv, Works, Steps, OffsetSteps
<1>4. /\ work'.pc = "select" /\ work'.cmd = work.cmd /\ work'.rows = work.rows
      /\ work'.listed = work.listed /\ work'.idle = work.idle
      /\ work'.topology = work.topology
      /\ work'.removed = work.removed /\ work'.gone = work.gone
      /\ work'.dropped = work.dropped
  BY <1>1 DEF WorkInv, Works
<1>5. TopicsInv(work') /\ TopologyInv(work') /\ RowsInv(work')
  BY <1>4 DEF WorkInv, TopicsInv, TopologyInv, RowsInv
<1>6. work.cmd.offsets /\ work.rows = {}
  BY <1>1 DEF WorkInv, GoalInv, OffsetSteps
<1>7. GoalInv(work')
  BY <1>4, <1>6 DEF GoalInv, GroupSteps
<1> QED BY <1>3, <1>5, <1>7 DEF WorkInv

\* The steps after which the command has rows for its partitions, or none yet.
LEMMA OffsetRowsInv ==
  ASSUME WorkInv(work), work.cmd.offsets,
         NEW parts \in SUBSET Things, NEW removed \in SUBSET Things,
         NEW rows \in SUBSET [resource : Things, status : {Deleted, Failed, Preview}],
         NEW step \in {"remove", "ok", "partial", "failed"},
         work' = [work EXCEPT !.parts = parts, !.removed = removed, !.rows = rows, !.pc = step],
         step = "remove" => rows = {},
         work.cmd.kind # "streams" =>
           \A row \in rows :
             row.status = Deleted => row.resource \in work.gone \union work.dropped \union removed
  PROVE  WorkInv(work')
<1>1. work' \in Works
  BY DEF WorkInv, Works, Steps, OffsetSteps, Endings
<1>2. /\ work'.pc = step /\ work'.cmd = work.cmd /\ work'.rows = rows
      /\ work'.listed = work.listed /\ work'.idle = work.idle
      /\ work'.topology = work.topology
      /\ work'.removed = removed /\ work'.gone = work.gone
      /\ work'.dropped = work.dropped
  BY DEF WorkInv, Works
<1>3. TopicsInv(work') /\ TopologyInv(work')
  BY <1>2 DEF WorkInv, TopicsInv, TopologyInv
<1>4. RowsInv(work')
  BY <1>2 DEF RowsInv
<1>5. GoalInv(work')
  BY <1>2 DEF GoalInv, GroupSteps, OffsetSteps
<1> QED BY <1>1, <1>3, <1>4, <1>5 DEF WorkInv

LEMMA SelectPartitionsInv == ASSUME WorkInv(work), SelectPartitions PROVE WorkInv(work')
<1>1. work.pc = "select" /\ work.cmd.offsets /\ work.rows = {}
  BY DEF SelectPartitions, Doing, WorkInv, GoalInv, OffsetSteps
<1> DEFINE parts == IF order.every THEN work.asked ELSE PartitionsOf(order.names)
           wrong == \/ ~ Of({"share"}) /\ ~ order.every /\ ~ order.names \subseteq topics
                    \/ Of({"streams"}) /\ ~ parts \subseteq work.asked
                    \/ Of({"streams"}) /\ parts = {}
           shown == {Row(p, Preview) : p \in parts}
<1>2. \/ work' = Stop("failed")
      \/ work' = Stop("usage")
      \/ work' = [work EXCEPT !.parts = parts, !.pc = "remove"]
      \/ work' = [work EXCEPT !.rows = shown, !.pc = "ok"]
  BY DEF SelectPartitions
<1>3. parts \subseteq Things
  BY DEF PartitionsOf, Things, WorkInv, Works
<1>4. CASE work' = Stop("failed") \/ work' = Stop("usage")
  <2>1. CASE work' = Stop("failed") BY <2>1, StopInv
  <2>2. CASE work' = Stop("usage") BY <2>2, StopInv
  <2> QED BY <1>4, <2>1, <2>2
<1>5. CASE work' = [work EXCEPT !.parts = parts, !.pc = "remove"]
  <2> HIDE DEF parts
  <2>1. /\ work' = [work EXCEPT !.parts = parts, !.removed = work.removed, !.rows = work.rows,
                                !.pc = "remove"]
        /\ work.removed \in SUBSET Things
        /\ work.rows \in SUBSET [resource : Things, status : {Deleted, Failed, Preview}]
    BY <1>5 DEF WorkInv, Works
  <2>2. work.cmd.kind # "streams" =>
          \A row \in work.rows :
            row.status = Deleted => row.resource \in work.gone \union work.dropped \union work.removed
    BY DEF WorkInv, RowsInv
  <2> QED BY <1>1, <1>3, <2>1, <2>2, OffsetRowsInv
<1>6. CASE work' = [work EXCEPT !.rows = shown, !.pc = "ok"]
  <2>1. /\ shown \in SUBSET [resource : Things, status : {Deleted, Failed, Preview}]
        /\ \A row \in shown : row.status # Deleted
    BY <1>3 DEF Row, Preview, Deleted
  <2> HIDE DEF parts, shown
  <2>2. /\ work' = [work EXCEPT !.parts = work.parts, !.removed = work.removed, !.rows = shown,
                                !.pc = "ok"]
        /\ work.parts \in SUBSET Things /\ work.removed \in SUBSET Things
    BY <1>6 DEF WorkInv, Works
  <2>3. work.cmd.kind # "streams" =>
          \A row \in shown :
            row.status = Deleted => row.resource \in work.gone \union work.dropped \union work.removed
    BY <2>1
  <2> QED BY <1>1, <2>1, <2>2, <2>3, OffsetRowsInv
<1> QED BY <1>2, <1>4, <1>5, <1>6

LEMMA DeleteOffsetsInv == ASSUME WorkInv(work), DeleteOffsets PROVE WorkInv(work')
<1>1. work.pc = "remove" /\ work.cmd.offsets /\ work.rows = {}
  BY DEF DeleteOffsets, Doing, WorkInv, GoalInv, OffsetSteps
<1> DEFINE told(ps) == {Row(p, Deleted) : p \in ps}
           missed(done) == {Row(p, Failed) : p \in work.parts \ done}
           after(done) == [work EXCEPT !.removed = done]
           status(done) == IF missed(done) = {} THEN "ok" ELSE "partial"
           names == IF Of({"streams"}) THEN told(work.parts) ELSE {}
<1>2. PICK done \in SUBSET work.parts :
        \/ work' = [after(done) EXCEPT !.pc = "failed"]
        \/ /\ ~ Of({"share"})
           /\ work' = [after(done) EXCEPT !.pc = "ok", !.rows = names]
        \/ /\ Of({"share"})
           /\ work' = [after(done) EXCEPT !.rows = told(done) \union missed(done),
                                          !.pc = status(done)]
  BY DEF DeleteOffsets, Doable
<1>3. work.parts \in SUBSET Things /\ done \in SUBSET Things
  BY DEF WorkInv, Works
<1>4. CASE work' = [after(done) EXCEPT !.pc = "failed"]
  <2>1. /\ work' = [work EXCEPT !.parts = work.parts, !.removed = done, !.rows = {},
                                !.pc = "failed"]
        /\ {} \in SUBSET [resource : Things, status : {Deleted, Failed, Preview}]
    BY <1>1, <1>4 DEF WorkInv, Works
  <2> QED BY <1>1, <1>3, <2>1, OffsetRowsInv
<1>5. CASE ~ Of({"share"}) /\ work' = [after(done) EXCEPT !.pc = "ok", !.rows = names]
  <2>1. /\ names \in SUBSET [resource : Things, status : {Deleted, Failed, Preview}]
        /\ work.cmd.kind # "streams" => names = {}
    BY <1>3 DEF Row, Of, order
  <2> HIDE DEF names
  <2>2. work' = [work EXCEPT !.parts = work.parts, !.removed = done, !.rows = names, !.pc = "ok"]
    BY <1>5 DEF WorkInv, Works
  <2> QED BY <1>1, <1>3, <2>1, <2>2, OffsetRowsInv
<1>6. CASE work' = [after(done) EXCEPT !.rows = told(done) \union missed(done),
                                       !.pc = status(done)]
  <2> DEFINE rows == told(done) \union missed(done)
             step == status(done)
  <2>1. /\ rows \in SUBSET [resource : Things, status : {Deleted, Failed, Preview}]
        /\ \A row \in rows : row.status = Deleted => row.resource \in done
    BY <1>3 DEF Row, Deleted, Failed
  <2>2. step \in {"ok", "partial"}
    OBVIOUS
  <2>3. work' = [work EXCEPT !.parts = work.parts, !.removed = done, !.rows = rows, !.pc = step]
    BY <1>6 DEF WorkInv, Works
  <2> HIDE DEF rows, step
  <2> QED BY <1>1, <1>3, <2>1, <2>2, <2>3, OffsetRowsInv, ZenonT(40)
<1> QED BY <1>2, <1>4, <1>5, <1>6

-----------------------------------------------------------------------------
LEMMA DeleteStepInv == ASSUME WorkInv(work), DeleteStep PROVE WorkInv(work')
<1>1. CASE Break
  <2>1. work' = Stop("failed") BY <1>1 DEF Break
  <2> QED BY <2>1, StopInv
<1>2. CASE List BY <1>2, ListInv
<1>3. CASE Described BY <1>3, DescribedInv
<1>4. CASE DeleteTopics BY <1>4, DeleteTopicsInv
<1>5. CASE Conclude BY <1>5, ConcludeInv
<1>6. CASE ListCommitted BY <1>6, ListCommittedInv
<1>7. CASE SelectPartitions BY <1>7, SelectPartitionsInv
<1>8. CASE DeleteOffsets BY <1>8, DeleteOffsetsInv
<1>9. ASSUME NEW g \in Groups, Describe(g) \/ Refuse(g) \/ ShowGroup(g) \/ DeleteGroup(g)
      PROVE  WorkInv(work')
  BY <1>9, DescribeInv, RefuseInv, ShowGroupInv, DeleteGroupInv
<1> QED
  BY <1>1, <1>2, <1>3, <1>4, <1>5, <1>6, <1>7, <1>8, <1>9 DEF DeleteStep

\* What is known of the deletion command, in every state.
DeletionInv == WorkInv(work)

LEMMA DeletionInvariant == Spec => []DeletionInv
<1>1. Init => DeletionInv
  BY NoWorkInv DEF Init, DeletionInv
<1>2. DeletionInv /\ [Next]_vars => DeletionInv'
  <2> SUFFICES ASSUME WorkInv(work), [Next]_vars PROVE WorkInv(work')
    BY DEF DeletionInv
  <2>1. CASE Run
    <3>1. ASSUME NEW c \in Resets, Reset(c) PROVE WorkInv(work')
      BY <3>1, NoWorkInv DEF Reset
    <3>2. ASSUME NEW c \in Deletions, Delete(c) PROVE WorkInv(work')
      BY <3>2, OrderInv DEF Delete
    <3> QED BY <2>1, <3>1, <3>2 DEF Run
  <2>2. CASE DeleteStep
    BY <2>2, DeleteStepInv
  <2>3. CASE UNCHANGED work
    BY <2>3
  <2> QED BY <2>1, <2>2, <2>3 DEF Next, vars
<1> QED BY <1>1, <1>2, PTL DEF Spec

\* What a deletion reports as DELETED it has deleted, and a deletion of groups that
\* succeeds has deleted them all, with the topics that were asked for.
THEOREM DeletionSound == Spec => []DeletionIsReported
<1>1. DeletionInv => DeletionIsReported
  <2> SUFFICES ASSUME WorkInv(work) PROVE DeletionIsReported
    BY DEF DeletionInv
  <2>1. ~ order.offsets \/ Of({"share"}) =>
          \A row \in work.rows :
            row.status = Deleted =>
              row.resource \in work.gone \union work.dropped \union work.removed
    BY DEF WorkInv, RowsInv, order, Of
  <2>2. work.pc = "ok" /\ order.execute /\ ~ order.offsets =>
          \A g \in IF order.all THEN work.listed ELSE order.groups :
            /\ g \in work.gone
            /\ Of({"streams"}) /\ order.internal => InternalOf[g] \subseteq work.dropped
    BY DEF WorkInv, GoalInv, Goal, Handled, Wants, order, Of
  <2> QED BY <2>1, <2>2 DEF DeletionIsReported
<1> QED BY <1>1, DeletionInvariant, PTL

\* Internal topics are deleted only after their group has been.
THEOREM TopicsLast == Spec => []TopicsAfterGroup
<1>1. DeletionInv => TopicsAfterGroup
  BY DEF DeletionInv, WorkInv, TopicsInv, TopicsAfterGroup, InternalOfAll
<1> QED BY <1>1, DeletionInvariant, PTL
=============================================================================

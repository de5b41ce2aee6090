---------------------------- MODULE OffsetReset ----------------------------
(***************************************************************************)
(* The four commands that move the committed offsets of groups:              *)
(*   consumer     kafka groups reset-offsets                                 *)
(*   streams      kafka streams-groups reset-offsets                         *)
(*   share        kafka share-groups reset-offsets                           *)
(*   application  kafka streams-application-reset                            *)
(* Each asks for the groups and their states, reads what the new offsets     *)
(* depend on, stores them, and the Streams commands then delete topics.      *)
(* Every request is a step of its own, and the cluster moves in between.     *)
(*                                                                         *)
(* Abstractions.  Groups, topics, partitions and lines of a plan are visited *)
(* in any order.  A topic is chosen with all its partitions.  Metadata and   *)
(* the offsets asked for its partitions come in one step.  What time a       *)
(* datetime or a duration means is left to the broker's answer.              *)
(***************************************************************************)
EXTENDS GroupCoordinator

CONSTANT Resets    \* the commands that are run

\* What the arguments may ask for: share groups and applications are named one by one.
Names == Topics \union {"absent"}

Commands ==
  [kind : {"consumer", "streams", "share", "application"}, groups : SUBSET Groups,
   all : BOOLEAN, names : SUBSET Names, every : BOOLEAN, through : SUBSET Names,
   to : {"earliest", "latest", "offset", "shift", "current", "time", "file"},
   value : Int, file : [Groups -> [Partitions -> Int]],
   execute : BOOLEAN, force : BOOLEAN, cleanup : BOOLEAN]

ASSUME ResetsAssumption ==
  /\ \A c \in Resets :
       /\ c \in Commands
       /\ c.kind \in {"share", "application"} => ~ c.all /\ \E g \in Groups : c.groups = {g}
       /\ c.kind = "application" => ~ c.every
  /\ "-" \notin Groups

VARIABLE job       \* the command: what it does, what it has read and reported

Refused == -2      \* no target: the invocation is at fault
NoGroup == "-"
NoRows == [g \in Groups |-> NoOffsets]

Endings == {"ok", "partial", "usage", "failed"}
NoCommand == [kind |-> "none", groups |-> {}, all |-> FALSE, names |-> {},
              every |-> FALSE, through |-> {}, to |-> "earliest", value |-> 0,
              file |-> NoRows, execute |-> FALSE, force |-> FALSE, cleanup |-> FALSE]

NoJob == [cmd |-> NoCommand, pc |-> "ok", todo |-> {}, inactive |-> {}, known |-> {},
          skipped |-> {}, group |-> NoGroup, names |-> {}, parts |-> {}, lines |-> {},
          seen |-> NoOffsets, internal |-> [g \in Groups |-> {}], rows |-> NoRows,
          errors |-> {}, written |-> NoRows, dropped |-> {}]

cmd == job.cmd
Kind(kinds) == cmd.kind \in kinds
At(step) == job.pc = step
End(how) == [job EXCEPT !.pc = how]
Ended == job.pc \in Endings
FromFile == cmd.to = "file" /\ ~ Kind({"application"})

\* A request that changes nothing fails, or its answer does not come.
Fail ==
  /\ ~ Ended
  /\ Fault
  /\ job' = End("failed")
  /\ UNCHANGED cluster

-----------------------------------------------------------------------------
(* Which groups. *)

Begin(c) ==
  /\ Ended
  /\ job' = [NoJob EXCEPT !.cmd = c, !.pc = "groups"]
  /\ UNCHANGED <<cluster, faults>>

\* The groups that are named or, with --all-groups, listed.  A share group and an
\* application are looked at more closely only when the list has them.
SelectGroups ==
  /\ At("groups")
  /\ LET named == IF cmd.all THEN {g \in Groups : Exists(g)} ELSE cmd.groups
         listed == {g \in named : Exists(g)}
     IN  job' = IF named = {} THEN End("usage")
                ELSE IF Kind({"consumer", "streams"})
                THEN [job EXCEPT !.todo = named, !.pc = "states"]
                ELSE [job EXCEPT !.todo = listed, !.inactive = named, !.pc = "states"]
  /\ UNCHANGED <<cluster, faults>>

\* classify_resettable_groups: one list tells the state of all consumer groups.
ListStates ==
  /\ At("states") /\ Kind({"consumer"})
  /\ LET idle == {g \in job.todo : Inactive(g)}
     IN  job' = [job EXCEPT !.pc = "plan", !.todo = idle, !.inactive = idle,
                            !.skipped = job.todo \ idle]
  /\ UNCHANGED <<cluster, faults>>

\* Streams groups are described one by one; one that is missing is inactive.
DescribeStreams(g) ==
  /\ At("states") /\ Kind({"streams"}) /\ g \in job.todo
  /\ job' = IF Inactive(g)
            THEN [job EXCEPT !.todo = @ \ {g}, !.inactive = @ \union {g},
                             !.known = @ \union ({g} \intersect {h \in Groups : Exists(h)}),
                             !.internal[g] = IF cmd.cleanup /\ Exists(g) THEN InternalOf[g] ELSE {}]
            ELSE [job EXCEPT !.todo = @ \ {g}, !.skipped = @ \union {g}]
  /\ UNCHANGED <<cluster, faults>>

DescribeShare(g) ==
  /\ At("states") /\ Kind({"share"}) /\ g \in job.todo
  /\ job' = IF ~ Exists(g) THEN End("failed")
            ELSE IF Inactive(g) THEN [job EXCEPT !.todo = {}] ELSE End("usage")
  /\ UNCHANGED <<cluster, faults>>

DescribeApplication(g) ==
  /\ At("states") /\ Kind({"application"}) /\ g \in job.todo
  /\ job' = IF Inactive(g) THEN [job EXCEPT !.todo = {}]
            ELSE IF cmd.force THEN End("evict") ELSE End("usage")
  /\ UNCHANGED <<cluster, faults>>

\* force_remove_consumer_group_members, with --dry-run as well.
Evict(g) ==
  /\ At("evict") /\ g \in job.todo
  /\ active' = active \ {g}
  /\ \/ job' = [job EXCEPT !.pc = "states", !.todo = {}] /\ faults' = faults
     \/ job' = End("failed") /\ Fault
  /\ UNCHANGED <<committed, log, topics, moves>>

\* All states are known: every inactive group is to be planned.
Classified ==
  /\ At("states") /\ job.todo = {} /\ ~ Kind({"consumer"})
  /\ job' = [job EXCEPT !.pc = "plan", !.todo = job.inactive]
  /\ UNCHANGED <<cluster, faults>>

-----------------------------------------------------------------------------
(* The plan. *)

\* Mutant of Clamp: the end of the log is forgotten.
ClampBelow(o, l) == IF o < l.low THEN l.low ELSE o

Clamp(o, l) == IF o < l.low THEN l.low ELSE IF o > l.high THEN l.high ELSE o

\* The new offset of a partition whose log is l when its watermarks are read.
Target(p, l) ==
  LET at == job.seen[p]
      requested == cmd.file[job.group][p]
      intermediate == Kind({"application"}) /\ TopicOf[p] \notin cmd.names
      start == IF at # None THEN at ELSE l.high
  IN  IF intermediate THEN l.high
      ELSE CASE cmd.to = "earliest" -> l.low
             [] cmd.to = "latest" -> l.high
             [] cmd.to = "offset" -> Clamp(cmd.value, l)
             [] cmd.to = "file" -> IF requested = None THEN Refused ELSE Clamp(requested, l)
             [] cmd.to = "shift" -> IF at = None /\ ~ Kind({"application"}) THEN Refused
                                    ELSE Clamp(start + cmd.value, l)
             [] cmd.to = "current" -> IF at = None /\ ~ Kind({"share"}) THEN Refused
                                      ELSE start
             [] cmd.to = "time" -> start

\* What is read before the watermarks: committed offsets, or the offsets that the
\* broker finds for a time (none, if every record is older).
Readings(g, parts) ==
  CASE cmd.to \in {"shift", "current"} -> {committed[g]}
    [] cmd.to = "time" ->
         {f \in [Partitions -> Offsets \union {None}] :
            \A p \in Partitions : \/ f[p] = None
                                  \/ p \in parts /\ f[p] \in log[p].low .. log[p].high - 1}
    [] OTHER -> {NoOffsets}

Planning == At("plan") /\ ~ FromFile

\* The next group, and its topics.  --all-topics means those that it has committed
\* to, and a consumer group that has none is passed over; for a Streams group it
\* means the source topics of its topology, if it was there to be described.
NextGroup(g) ==
  /\ Planning /\ job.group = NoGroup /\ g \in job.todo
  /\ LET names == IF ~ cmd.every THEN cmd.names \union cmd.through
                  ELSE IF Kind({"streams"})
                       THEN IF g \in job.known THEN Topics ELSE {}
                       ELSE {TopicOf[p] : p \in {q \in Partitions : HasOffset(g, q)}}
     IN  job' = IF cmd.every /\ Kind({"consumer"}) /\ names = {}
                THEN [job EXCEPT !.todo = @ \ {g}]
                ELSE [job EXCEPT !.group = g, !.names = names,
                                 !.pc = IF Kind({"consumer", "streams"}) THEN "plan" ELSE "read"]
  /\ UNCHANGED <<cluster, faults>>

\* Metadata and offsets of one topic.  Nothing checks that a topic of a consumer
\* group exists: it is planned with no partitions.
ReadTopic(t) ==
  /\ Planning /\ job.group # NoGroup /\ job.parts = {} /\ t \in job.names
  /\ \E seen \in Readings(job.group, PartitionsOf({t})) :
       job' = IF t \in topics \/ Kind({"consumer"})
              THEN [job EXCEPT !.names = @ \ {t}, !.parts = PartitionsOf({t} \intersect topics),
                               !.seen = seen]
              ELSE End("usage")
  /\ UNCHANGED <<cluster, faults>>

\* The same for a share group, whose --all-topics means the partitions it has an
\* offset for.
ReadShare ==
  /\ At("read") /\ Kind({"share"})
  /\ LET g == job.group
         parts == IF cmd.every THEN {p \in Partitions : HasOffset(g, p)}
                  ELSE PartitionsOf(job.names)
     IN  \E seen \in Readings(g, parts) :
           job' = IF cmd.every \/ job.names \subseteq topics
                  THEN [job EXCEPT !.names = {}, !.parts = parts, !.seen = seen, !.pc = "plan"]
                  ELSE End("usage")
  /\ UNCHANGED <<cluster, faults>>

\* The same for an application: a topic that is missing becomes a FAILED row.  The
\* internal topics are those that exist now.
ReadApplication ==
  /\ At("read") /\ Kind({"application"})
  /\ LET parts == PartitionsOf(job.names \intersect topics)
     IN  \E seen \in Readings(job.group, parts) :
           job' = [job EXCEPT !.names = {}, !.parts = parts, !.seen = seen, !.pc = "plan",
                              !.errors = job.names \ topics,
                              !.internal[job.group] = InternalOf[job.group] \intersect topics]
  /\ UNCHANGED <<cluster, faults>>

\* Mutant of ReadWatermarks: a partition without a target is planned.
ReadWatermarksUnchecked(p) ==
  /\ Planning /\ p \in job.parts
  /\ job' = [job EXCEPT !.parts = @ \ {p}, !.rows[job.group][p] = Target(p, log[p])]
  /\ UNCHANGED <<cluster, faults>>

\* Watermarks of one partition, and with them its row.
ReadWatermarks(p) ==
  /\ Planning /\ p \in job.parts
  /\ LET target == Target(p, log[p])
     IN  job' = IF target = Refused THEN End("usage")
                ELSE [job EXCEPT !.parts = @ \ {p}, !.rows[job.group][p] = target]
  /\ UNCHANGED <<cluster, faults>>

\* read_reset_plan: a plan that is imported is read to its end first.
OpenFile ==
  /\ At("plan") /\ FromFile
  /\ job' = IF job.todo = {} THEN End("ok")
            ELSE [job EXCEPT !.pc = "lines",
                    !.lines = {line \in Groups \X Partitions : cmd.file[line[1]][line[2]] # None}]
  /\ UNCHANGED <<cluster, faults>>

ReadLine(g, p) ==
  /\ At("lines") /\ <<g, p>> \in job.lines
  /\ job' = IF g \notin job.todo THEN End("usage")
            ELSE [job EXCEPT !.lines = @ \ {<<g, p>>},
                             !.rows[g][p] = Clamp(cmd.file[g][p], log[p])]
  /\ UNCHANGED <<cluster, faults>>

CloseFile ==
  /\ At("lines") /\ job.lines = {}
  /\ job' = IF job.rows = NoRows THEN End("usage")
            ELSE [job EXCEPT !.pc = "store", !.todo = {g \in Groups : job.rows[g] # NoOffsets}]
  /\ UNCHANGED <<cluster, faults>>

-----------------------------------------------------------------------------
(* The offsets are stored. *)

Planned(g) == {p \in Partitions : job.rows[g][p] # None}

\* Mutant of ReadyToStore: a group is stored as soon as its lines have been read.
ReadyWhileReading(g) ==
  \/ Planning /\ job.group = g /\ job.names = {} /\ job.parts = {}
  \/ At("store") /\ g \in job.todo
  \/ At("lines") /\ Planned(g) # {} /\ \A p \in Partitions : <<g, p>> \notin job.lines

ReadyToStore(g) ==
  \/ Planning /\ job.group = g /\ job.names = {} /\ job.parts = {}
  \/ At("store") /\ g \in job.todo

\* Without --execute, and where there is nothing to store for a share group or an
\* application, nothing is sent.
SkipStore(g) ==
  /\ ReadyToStore(g)
  /\ \/ ~ cmd.execute
     \/ Planned(g) = {} /\ ~ Kind({"consumer", "streams"})
  /\ job' = [job EXCEPT !.todo = @ \ {g}, !.group = NoGroup]
  /\ UNCHANGED <<cluster, faults>>

\* alter_consumer_group_offsets takes no empty list.
EmptyStore(g) ==
  /\ ReadyToStore(g) /\ cmd.execute
  /\ Planned(g) = {} /\ Kind({"consumer", "streams"})
  /\ job' = End("failed")
  /\ UNCHANGED <<cluster, faults>>

\* alter_consumer_group_offsets is content with an answer that has no error, neither
\* of the group nor of a partition.
Content(g, done) == Inactive(g) /\ done = Planned(g)

\* One request for the group: the answer is good; or the group refuses; or some
\* partitions fail, of which a share group's answer tells and the others' end the
\* command; or the answer is lost.
Store(g) ==
  /\ ReadyToStore(g) /\ cmd.execute /\ Planned(g) # {}
  /\ \E done \in Doable(g, Planned(g)) :
       LET stored == [job EXCEPT !.written[g] =
                        [p \in Partitions |-> IF p \in done THEN job.rows[g][p] ELSE None]]
           missing == {<<g, p>> : p \in Planned(g) \ done}
       IN  /\ StoreOffsets(g, job.rows[g], done)
           /\ \/ /\ Content(g, done)
                 /\ IF missing = {} THEN faults' = faults ELSE Fault
                 /\ job' = [stored EXCEPT !.todo = @ \ {g}, !.group = NoGroup]
              \/ /\ g \in active /\ faults' = faults
                 /\ job' = [stored EXCEPT !.pc = "failed"]
              \/ /\ Fault
                 /\ job' = [stored EXCEPT !.pc = "failed"]
              \/ /\ Fault
                 /\ Kind({"share"}) /\ Inactive(g) /\ missing # {}
                 /\ job' = [stored EXCEPT !.todo = @ \ {g}, !.group = NoGroup, !.errors = missing]

-----------------------------------------------------------------------------
(* The topics of an application, and the end. *)

\* Mutant of Stored: the groups that are still to be planned are forgotten.
StoredOne == (Planning \/ At("store")) /\ job.group = NoGroup

Stored == (Planning \/ At("store")) /\ job.todo = {} /\ job.group = NoGroup

\* The groups whose internal topics are to be deleted.
ToClean ==
  IF cmd.execute /\ ~ FromFile THEN {g \in job.inactive : job.internal[g] # {}} ELSE {}

StartCleanup ==
  /\ Stored /\ ToClean # {}
  /\ job' = [job EXCEPT !.pc = "clean", !.todo = ToClean]
  /\ UNCHANGED <<cluster, faults>>

\* One request per group.  What it could not delete is an error of the report; that
\* fails an application reset, not a streams-groups reset.
Clean(g) ==
  /\ At("clean") /\ g \in job.todo
  /\ \E done \in SUBSET (job.internal[g] \intersect topics) :
       LET left == job.internal[g] \ done
           after == [job EXCEPT !.dropped = @ \union done]
       IN  /\ DropTopics(done)
           /\ \/ /\ done = job.internal[g] \intersect topics /\ faults' = faults
                 /\ job' = [after EXCEPT !.todo = @ \ {g}, !.errors = @ \union left]
              \/ /\ Fault
                 /\ job' = [after EXCEPT !.todo = @ \ {g}, !.errors = @ \union left]
              \/ /\ Fault
                 /\ job' = [after EXCEPT !.pc = "failed"]

Finish ==
  /\ \/ Stored /\ ToClean = {}
     \/ At("clean") /\ job.todo = {}
  /\ job' = IF job.errors # {} /\ Kind({"share", "application"})
            THEN End("partial") ELSE End("ok")
  /\ UNCHANGED <<cluster, faults>>

-----------------------------------------------------------------------------
ResetStep ==
  \/ Fail \/ SelectGroups \/ ListStates \/ Classified \/ OpenFile \/ CloseFile
  \/ ReadShare \/ ReadApplication \/ StartCleanup \/ Finish
  \/ \E g \in Groups :
       \/ DescribeStreams(g) \/ DescribeShare(g) \/ DescribeApplication(g) \/ Evict(g)
       \/ NextGroup(g) \/ SkipStore(g) \/ EmptyStore(g) \/ Store(g) \/ Clean(g)
  \/ \E t \in Topics \union {"absent"} : ReadTopic(t)
  \/ \E p \in Partitions : ReadWatermarks(p)
  \/ \E g \in Groups, p \in Partitions : ReadLine(g, p)
=============================================================================

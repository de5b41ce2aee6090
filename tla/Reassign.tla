------------------------------ MODULE Reassign ------------------------------
(***************************************************************************)
(* `kafka reassign execute | cancel | verify | list`: several invocations   *)
(* of the command ("sessions") against one controller.  Each remote call of *)
(* a session is a step of its own, since the calls of two sessions and the  *)
(* progress of the replica moves interleave between them.                   *)
(*                                                                         *)
(* Abstractions.  A replica list is the set of its brokers (order matters   *)
(* only to the preferred leader); a throttle is "set" or "not set" (its     *)
(* rate is not); a topic's throttled-replica list is the part of leaderThr  *)
(* or followerThr whose partitions belong to that topic.  Topics and        *)
(* brokers are model values, so the name order of the code's BTreeMaps is   *)
(* an arbitrary order here.  A definition marked "Mutant" is the one below   *)
(* it with a plausible mistake, to show that a property can fail.           *)
(***************************************************************************)
EXTENDS Naturals, FiniteSets

CONSTANTS
  Brokers,      \* broker ids that occur in assignments and plans
  Registered,   \* the brokers describe_cluster returns
  Partitions,   \* topic-partitions
  TopicOf,      \* the topic of each partition
  Assignments,  \* the assignments the cluster may start from
  Sessions,     \* concurrent invocations of the command
  Commands,     \* the command lines a session may be started with
  Serial,       \* TRUE: nobody starts a command while another one runs
  Additional,   \* bound: how many execute/cancel commands are ever started
  MaxFaults     \* bound: how many calls fail, are refused or lose their reply

Topics == {TopicOf[p] : p \in Partitions}
Pairs  == Partitions \X Brokers

\* read_reassignment: a plan names at least one partition, each one once and
\* with at least one replica; log directories are named for replicas of the plan.
ValidCommand(c) ==
  /\ c.kind \in {"execute", "cancel", "verify", "list"}
  /\ c.parts \subseteq Partitions
  /\ c.target \in [Partitions -> SUBSET Brokers]
  /\ c.dirs \subseteq Pairs
  /\ c.kind # "list" => c.parts # {}
  /\ \A p \in c.parts : c.target[p] # {}
  /\ \A d \in c.dirs : d[1] \in c.parts /\ d[2] \in c.target[d[1]]
  /\ {c.execute, c.additional, c.keepRf, c.throttle, c.dirThrottle, c.preserve}
       \subseteq BOOLEAN

ASSUME SetsAssumption ==
  /\ IsFiniteSet(Brokers) /\ IsFiniteSet(Partitions)
  /\ Registered \subseteq Brokers
  /\ TopicOf \in [Partitions -> Topics]
  /\ Assignments \subseteq [Partitions -> SUBSET Brokers]
  /\ Serial \in BOOLEAN /\ Additional \in Nat /\ MaxFaults \in Nat
ASSUME CommandsAssumption == Commands # {} /\ \A c \in Commands : ValidCommand(c)

VARIABLES
  assigned,     \* controller: the replicas of a partition ({}: no such partition)
  ongoing,      \* controller: the target of a move in progress ({}: none)
  leaderThr,    \* topic configs: leader.replication.throttled.replicas
  followerThr,  \* topic configs: follower.replication.throttled.replicas
  rate,         \* brokers whose leader/follower.replication.throttled.rate is set
  dirRate,      \* brokers whose log-dir move rate is set
  moving,       \* replicas with a future log directory
  pc,           \* the next remote call of a session
  cmd,          \* its command line
  mem,          \* what it has read and what it has still to write
  out,          \* what it reports
  opens,        \* number of execute/cancel commands started so far
  faults        \* number of failed calls so far

cluster == <<assigned, ongoing>>
configs == <<leaderThr, followerThr, rate, dirRate>>
vars == <<assigned, ongoing, leaderThr, followerThr, rate, dirRate, moving,
          pc, cmd, mem, out, opens, faults>>

Labels == {"idle", "list", "factors", "moves", "apply", "logDirs",
           "cancel", "dirs", "describe", "current", "clear", "done"}

Memory == [active  : SUBSET Partitions,  \* partitions listed as being moved
           src     : SUBSET Pairs,       \* move map: replicas that serve the data
           dst     : SUBSET Pairs,       \* move map: replicas that fetch it
           topics  : SUBSET Topics,      \* topic configs still to write
           brokers : SUBSET Brokers,     \* broker configs still to write
           dirs    : SUBSET Brokers,     \* brokers still to send log-dir calls to
           busy    : BOOLEAN]            \* a log-dir move of the plan was seen

Report == [exit     : {"none", "ok", "partial", "error"},
           accepted : SUBSET Partitions, \* partitions the controller accepted
           moved    : SUBSET Pairs,      \* log-dir moves the brokers accepted
           complete : SUBSET Partitions, \* partitions verify reports COMPLETED
           failed   : Nat]               \* rows with an error

NoMemory == [active |-> {}, src |-> {}, dst |-> {}, topics |-> {},
             brokers |-> {}, dirs |-> {}, busy |-> FALSE]
NoReport == [exit |-> "none", accepted |-> {}, moved |-> {}, complete |-> {},
             failed |-> 0]

-----------------------------------------------------------------------------
(* The controller's view of a partition *)

Moving == {p \in Partitions : ongoing[p] # {}}

\* Replicas as metadata shows them: a move in progress adds its targets.
Replicas(p) == assigned[p] \union ongoing[p]

Adding(p) == ongoing[p] \ assigned[p]

(* Control of a session *)

Running(s) == pc[s] \notin {"idle", "done"}

Goto(s, label) == pc' = [pc EXCEPT ![s] = label]

Exit(s, report) ==
  /\ Goto(s, "done")
  /\ out' = [out EXCEPT ![s] = report]

Failed(s) == [out[s] EXCEPT !.exit = "error"]

Fault == faults < MaxFaults /\ faults' = faults + 1

\* A mutating call is answered and the session goes on at label, or its reply
\* is lost after the broker applied it: `?` ends the session with an error.
Answer(s, label) ==
  \/ Goto(s, label) /\ UNCHANGED <<out, faults>>
  \/ Exit(s, Failed(s)) /\ Fault

-----------------------------------------------------------------------------
(* Starting a command *)

FirstCall(c) == IF c.kind = "cancel" THEN "cancel" ELSE "list"

\* Without --execute, execute and cancel print a preview and touch nothing.
Preview(c) == c.kind \in {"execute", "cancel"} /\ ~c.execute

Start(s, c) ==
  /\ ~Running(s)
  /\ Serial => \A r \in Sessions : ~Running(r)
  /\ c.kind \in {"execute", "cancel"} => opens < Additional
  /\ opens' = IF c.kind \in {"execute", "cancel"} THEN opens + 1 ELSE opens
  /\ cmd' = [cmd EXCEPT ![s] = c]
  /\ mem' = [mem EXCEPT ![s] = NoMemory]
  /\ out' = [out EXCEPT ![s] = IF Preview(c) THEN [NoReport EXCEPT !.exit = "ok"]
                                             ELSE NoReport]
  /\ Goto(s, IF Preview(c) THEN "done" ELSE FirstCall(c))
  /\ UNCHANGED <<cluster, configs, moving, faults>>

\* Every remote call can fail without an effect.
CallFails(s) ==
  /\ Running(s)
  /\ Exit(s, Failed(s))
  /\ Fault
  /\ UNCHANGED <<cluster, configs, moving, cmd, mem, opens>>

-----------------------------------------------------------------------------
(* Reading the running reassignments *)

AfterFactors(c) == IF c.throttle \/ c.dirThrottle THEN "moves" ELSE "apply"

AfterList(c) ==
  CASE c.kind = "execute" -> IF c.keepRf THEN "factors" ELSE AfterFactors(c)
    [] c.kind = "verify"  -> "dirs"
    [] OTHER              -> "done"

\* execute without --additional is refused while anything is being moved.
Refused(c, active) == c.kind = "execute" /\ ~c.additional /\ active # {}

\* The list returns replicas and adding_replicas; replicas less the adding
\* ones are the sources of the move, the adding ones its destinations.
ListRunning(s) ==
  /\ pc[s] = "list"
  /\ mem' = [mem EXCEPT ![s].active = Moving,
                        ![s].src = {x \in Pairs : x[1] \in Moving /\ x[2] \in assigned[x[1]]},
                        ![s].dst = {x \in Pairs : x[1] \in Moving /\ x[2] \in Adding(x[1])}]
  /\ IF Refused(cmd[s], Moving)
       THEN Exit(s, Failed(s))
       ELSE /\ Goto(s, AfterList(cmd[s]))
            /\ out' = [out EXCEPT ![s].exit = IF cmd[s].kind = "list" THEN "ok" ELSE @]
  /\ UNCHANGED <<cluster, configs, moving, cmd, opens, faults>>

-----------------------------------------------------------------------------
(* execute *)

\* --disallow-replication-factor-change, against the replicas in metadata
KeepsFactor(c, p) ==
  Replicas(p) # {} /\ Cardinality(Replicas(p)) = Cardinality(c.target[p])

CheckFactors(s) ==
  /\ pc[s] = "factors"
  /\ IF \A p \in cmd[s].parts : KeepsFactor(cmd[s], p)
       THEN Goto(s, AfterFactors(cmd[s])) /\ UNCHANGED out
       ELSE Exit(s, Failed(s))
  /\ UNCHANGED <<cluster, configs, moving, cmd, mem, opens, faults>>

\* reassignment_move_map: a partition that was listed keeps its sources, one
\* that was not takes them from metadata; the plan overrides destinations.
Sources(c, m) ==
  m.src \union {x \in Pairs : /\ x[1] \in c.parts \ m.active
                              /\ x[2] \in Replicas(x[1])}
\* Mutant: the moves already running are forgotten.
DestinationsOfPlanOnly(c, m) ==
  {x \in Pairs : x[1] \in c.parts /\ x[2] \in c.target[x[1]] /\ x \notin Sources(c, m)}
Destinations(c, m) ==
  {x \in m.dst : x[1] \notin c.parts}
    \union {x \in Pairs : /\ x[1] \in c.parts
                          /\ x[2] \in c.target[x[1]]
                          /\ x \notin Sources(c, m)}

TopicsToThrottle(c, m) ==
  IF c.throttle THEN {TopicOf[p] : p \in m.active \union c.parts} ELSE {}
\* Mutant: the key partition:broker of the topic list is taken for a broker id.
PairsToThrottle(c, m) ==
  IF c.throttle THEN Sources(c, m) \union Destinations(c, m) ELSE {}
BrokersToThrottle(c, m) ==
  IF c.throttle THEN {x[2] : x \in Sources(c, m) \union Destinations(c, m)} ELSE {}
DirBrokers(c) == {x[2] : x \in c.dirs}

\* The metadata of the plan's partitions is read and the throttles are planned.
PlanMoves(s) ==
  LET c == cmd[s]
      m == mem[s]
  IN  /\ pc[s] = "moves"
      /\ IF \E p \in c.parts \ m.active : Replicas(p) = {}
           THEN Exit(s, Failed(s)) /\ UNCHANGED mem
           ELSE /\ Goto(s, "apply")
                /\ UNCHANGED out
                /\ mem' = [mem EXCEPT
                     ![s].src = Sources(c, m),
                     ![s].dst = Destinations(c, m),
                     ![s].topics = TopicsToThrottle(c, m),
                     ![s].brokers = BrokersToThrottle(c, m),
                     ![s].dirs = IF c.dirThrottle THEN DirBrokers(c) ELSE {}]
      /\ UNCHANGED <<cluster, configs, moving, cmd, opens, faults>>

\* The two throttled-replica lists of a topic are replaced as a whole.
OfTopic(pairs, t)    == {x \in pairs : TopicOf[x[1]] = t}
NotOfTopic(pairs, t) == {x \in pairs : TopicOf[x[1]] # t}

ThrottleTopic(s, t) ==
  /\ pc[s] = "apply" /\ t \in mem[s].topics
  /\ leaderThr' = NotOfTopic(leaderThr, t) \union OfTopic(mem[s].src, t)
  /\ followerThr' = NotOfTopic(followerThr, t) \union OfTopic(mem[s].dst, t)
  /\ mem' = [mem EXCEPT ![s].topics = @ \ {t}]
  /\ Answer(s, "apply")
  /\ UNCHANGED <<cluster, rate, dirRate, moving, cmd, opens>>

ThrottleBroker(s, b) ==
  /\ pc[s] = "apply" /\ mem[s].topics = {} /\ b \in mem[s].brokers
  /\ rate' = rate \union {b}
  /\ mem' = [mem EXCEPT ![s].brokers = @ \ {b}]
  /\ Answer(s, "apply")
  /\ UNCHANGED <<cluster, leaderThr, followerThr, dirRate, moving, cmd, opens>>

ThrottleDirs(s, b) ==
  /\ pc[s] = "apply" /\ mem[s].topics = {} /\ mem[s].brokers = {}
  /\ b \in mem[s].dirs
  /\ dirRate' = dirRate \union {b}
  /\ mem' = [mem EXCEPT ![s].dirs = @ \ {b}]
  /\ Answer(s, "apply")
  /\ UNCHANGED <<cluster, leaderThr, followerThr, rate, moving, cmd, opens>>

Throttled(m) == m.topics = {} /\ m.brokers = {} /\ m.dirs = {}

\* The controller accepts a target for each of these partitions; a target that
\* is the current assignment ends the move it had.
StartMoves(parts, target) ==
  ongoing' = [p \in Partitions |->
                IF p \notin parts THEN ongoing[p]
                ELSE IF target[p] = assigned[p] THEN {} ELSE target[p]]

\* Mutant: the request-level error is not turned into a row.
VerdictOfRowsOnly(parts, must, refused, failed) ==
  \/ refused = must /\ failed = Cardinality(must) /\ UNCHANGED faults
  \/ refused = parts /\ failed = 0 /\ Fault

\* The partitions of one alter request that the controller refuses: those it
\* must refuse and, at the cost of a fault, others.  A request-level error
\* refuses them all and is one more row.
Verdict(parts, must, refused, failed) ==
  \/ refused = must /\ failed = Cardinality(must) /\ UNCHANGED faults
  \/ /\ must \subseteq refused /\ refused \subseteq parts /\ refused # must
     /\ failed = Cardinality(refused)
     /\ Fault
  \/ refused = parts /\ failed = 1 /\ Fault

\* alter_partition_reassignments with the plan's targets.  Any row with an error
\* ends the command as Partial, though the other partitions have started.
Alter(s) ==
  LET c == cmd[s]
      gone == {p \in c.parts : assigned[p] = {}}
  IN  /\ pc[s] = "apply" /\ Throttled(mem[s])
      /\ \E refused \in SUBSET c.parts, failed \in 0..Cardinality(c.parts) :
           LET report == [out[s] EXCEPT !.accepted = c.parts \ refused, !.failed = failed]
           IN  /\ Verdict(c.parts, gone, refused, failed)
               /\ StartMoves(c.parts \ refused, c.target)
               /\ IF failed > 0
                    THEN Exit(s, [report EXCEPT !.exit = "partial"])
                  ELSE IF c.dirs = {}
                    THEN Exit(s, [report EXCEPT !.exit = "ok"])
                  ELSE Goto(s, "logDirs") /\ out' = [out EXCEPT ![s] = report]
      /\ mem' = [mem EXCEPT ![s].dirs = DirBrokers(c)]
      /\ UNCHANGED <<assigned, configs, moving, cmd, opens>>

\* The controller starts the moves but the reply is lost.
AlterUnanswered(s) ==
  LET c == cmd[s]
      started == {p \in c.parts : assigned[p] # {}}
  IN  /\ pc[s] = "apply" /\ Throttled(mem[s])
      /\ StartMoves(started, c.target)
      /\ Exit(s, [Failed(s) EXCEPT !.accepted = started])
      /\ Fault
      /\ UNCHANGED <<assigned, configs, moving, cmd, mem, opens>>

\* AlterReplicaLogDirs, one call per broker: a broker that is not registered
\* ends the command; each replica of the call is accepted or refused.
AlterLogDirs(s, b) ==
  LET wanted == {x \in cmd[s].dirs : x[2] = b}
  IN  /\ pc[s] = "logDirs" /\ b \in mem[s].dirs
      /\ mem' = [mem EXCEPT ![s].dirs = @ \ {b}]
      /\ \/ /\ b \notin Registered
            /\ Exit(s, Failed(s))
            /\ UNCHANGED <<moving, faults>>
         \/ /\ b \in Registered
            /\ \E bad \in SUBSET wanted :
                 /\ moving' = moving \union (wanted \ bad)
                 /\ out' = [out EXCEPT ![s].moved = out[s].moved \union (wanted \ bad),
                                       ![s].failed = out[s].failed + Cardinality(bad)]
                 /\ IF bad = {} THEN UNCHANGED faults ELSE Fault
            /\ UNCHANGED pc
      /\ UNCHANGED <<cluster, configs, cmd, opens>>

\* Mutant: the error rows of the log-dir calls are not counted.
FinishExecute(s) ==
  /\ pc[s] = "logDirs" /\ mem[s].dirs = {}
  /\ Exit(s, [out[s] EXCEPT !.exit = IF out[s].failed = 0 THEN "ok" ELSE "partial"])
  /\ UNCHANGED <<cluster, configs, moving, cmd, mem, opens, faults>>

-----------------------------------------------------------------------------
(* cancel *)

\* alter_partition_reassignments with null targets: a partition that is not
\* being moved is refused, the others fall back to their assignment.
Cancel(s) ==
  LET c == cmd[s]
      still == {p \in c.parts : ongoing[p] = {}}
  IN  /\ pc[s] = "cancel"
      /\ \E refused \in SUBSET c.parts, failed \in 0..Cardinality(c.parts) :
           /\ Verdict(c.parts, still, refused, failed)
           /\ ongoing' = [p \in Partitions |->
                            IF p \in c.parts \ refused THEN {} ELSE ongoing[p]]
           /\ out' = [out EXCEPT ![s].accepted = c.parts \ refused,
                                 ![s].failed = failed]
      /\ Goto(s, "describe")
      /\ UNCHANGED <<assigned, configs, moving, cmd, mem, opens>>

CancelUnanswered(s) ==
  /\ pc[s] = "cancel"
  /\ ongoing' = [p \in Partitions |-> IF p \in cmd[s].parts THEN {} ELSE ongoing[p]]
  /\ Exit(s, Failed(s))
  /\ Fault
  /\ UNCHANGED <<assigned, configs, moving, cmd, mem, opens>>

\* Mutant: the brokers of the cluster are not added.
BrokersOfPlan(c) == UNION {c.target[p] : p \in c.parts}

\* clear_reassignment_throttles covers the topics of the plan and every broker
\* of the cluster or of the plan.
TopicsToClear(c)  == {TopicOf[p] : p \in c.parts}
BrokersToClear(c) == Registered \union UNION {c.target[p] : p \in c.parts}

PlanClear(s, clear) ==
  mem' = [mem EXCEPT ![s].topics = IF clear THEN TopicsToClear(cmd[s]) ELSE {},
                     ![s].brokers = IF clear THEN BrokersToClear(cmd[s]) ELSE {}]

\* describe_cluster comes between the cancellation and the look at its rows.
DescribeForCancel(s) ==
  /\ pc[s] = "describe" /\ cmd[s].kind = "cancel"
  /\ IF out[s].failed = 0
       THEN /\ PlanClear(s, ~cmd[s].preserve)
            /\ Goto(s, "clear")
            /\ UNCHANGED out
       ELSE Exit(s, [out[s] EXCEPT !.exit = "partial"]) /\ UNCHANGED mem
  /\ UNCHANGED <<cluster, configs, moving, cmd, opens, faults>>

-----------------------------------------------------------------------------
(* verify *)

\* Without explicit log directories in the plan nothing is asked of the brokers.
DescribeLogDirs(s) ==
  /\ pc[s] = "dirs"
  /\ mem' = [mem EXCEPT ![s].busy = cmd[s].dirs \intersect moving # {}]
  /\ Goto(s, "describe")
  /\ UNCHANGED <<cluster, configs, moving, cmd, out, opens, faults>>

DescribeForVerify(s) ==
  /\ pc[s] = "describe" /\ cmd[s].kind = "verify"
  /\ Goto(s, "current")
  /\ UNCHANGED <<cluster, configs, moving, cmd, mem, out, opens, faults>>

\* Mutant: metadata alone decides.
CompleteInMetadata(c, m) == {p \in c.parts : Replicas(p) = c.target[p]}

\* reassignment_statuses: not in the list read first, at the target in the
\* metadata read last.
Complete(c, m) == {p \in c.parts \ m.active : Replicas(p) = c.target[p]}

\* Mutants: the list is searched for the plan's partitions only; log-dir moves
\* are not looked at; every partition of the plan has to be at its target.
MayClearIfPlanIdle(c, m) == m.active \intersect c.parts = {} /\ ~m.busy /\ ~c.preserve
MayClearIfComplete(c, m) ==
  m.active = {} /\ ~m.busy /\ ~c.preserve /\ Complete(c, m) = c.parts

\* Throttles go only if nothing at all was listed as moving.
MayClear(c, m) == m.active = {} /\ ~m.busy /\ ~c.preserve

ReadCurrent(s) ==
  /\ pc[s] = "current"
  /\ out' = [out EXCEPT ![s].complete = Complete(cmd[s], mem[s])]
  /\ PlanClear(s, MayClear(cmd[s], mem[s]))
  /\ Goto(s, "clear")
  /\ UNCHANGED <<cluster, configs, moving, cmd, opens, faults>>

-----------------------------------------------------------------------------
(* Clearing throttles, for cancel and verify *)

ClearTopic(s, t) ==
  /\ pc[s] = "clear" /\ t \in mem[s].topics
  /\ leaderThr' = NotOfTopic(leaderThr, t)
  /\ followerThr' = NotOfTopic(followerThr, t)
  /\ mem' = [mem EXCEPT ![s].topics = @ \ {t}]
  /\ Answer(s, "clear")
  /\ UNCHANGED <<cluster, rate, dirRate, moving, cmd, opens>>

ClearBroker(s, b) ==
  /\ pc[s] = "clear" /\ mem[s].topics = {} /\ b \in mem[s].brokers
  /\ rate' = rate \ {b}
  /\ dirRate' = dirRate \ {b}
  /\ mem' = [mem EXCEPT ![s].brokers = @ \ {b}]
  /\ Answer(s, "clear")
  /\ UNCHANGED <<cluster, leaderThr, followerThr, moving, cmd, opens>>

FinishClear(s) ==
  /\ pc[s] = "clear" /\ mem[s].topics = {} /\ mem[s].brokers = {}
  /\ Exit(s, [out[s] EXCEPT !.exit = "ok"])
  /\ UNCHANGED <<cluster, configs, moving, cmd, mem, opens, faults>>

-----------------------------------------------------------------------------
(* The cluster on its own *)

\* A move ends when the new replicas have caught up.
CompleteMove(p) ==
  /\ ongoing[p] # {}
  /\ assigned' = [assigned EXCEPT ![p] = ongoing[p]]
  /\ ongoing' = [ongoing EXCEPT ![p] = {}]
  /\ UNCHANGED <<configs, moving, pc, cmd, mem, out, opens, faults>>

CompleteDirMove(d) ==
  /\ d \in moving
  /\ moving' = moving \ {d}
  /\ UNCHANGED <<cluster, configs, pc, cmd, mem, out, opens, faults>>

-----------------------------------------------------------------------------
Init ==
  /\ assigned \in Assignments
  /\ ongoing = [p \in Partitions |-> {}]
  /\ leaderThr = {} /\ followerThr = {} /\ rate = {} /\ dirRate = {} /\ moving = {}
  /\ pc = [s \in Sessions |-> "idle"]
  /\ cmd = [s \in Sessions |-> CHOOSE c \in Commands : TRUE]
  /\ mem = [s \in Sessions |-> NoMemory]
  /\ out = [s \in Sessions |-> NoReport]
  /\ opens = 0 /\ faults = 0

Execute(s) ==
  \/ CheckFactors(s) \/ PlanMoves(s) \/ Alter(s) \/ AlterUnanswered(s) \/ FinishExecute(s)
  \/ \E t \in Topics : ThrottleTopic(s, t)
  \/ \E b \in Brokers : ThrottleBroker(s, b) \/ ThrottleDirs(s, b) \/ AlterLogDirs(s, b)

Clear(s) ==
  \/ \E t \in Topics : ClearTopic(s, t)
  \/ \E b \in Brokers : ClearBroker(s, b)
  \/ FinishClear(s)

Step(s) ==
  \/ ListRunning(s) \/ Execute(s)
  \/ Cancel(s) \/ CancelUnanswered(s) \/ DescribeForCancel(s)
  \/ DescribeLogDirs(s) \/ DescribeForVerify(s) \/ ReadCurrent(s)
  \/ Clear(s) \/ CallFails(s)

Next ==
  \/ \E s \in Sessions : Step(s) \/ \E c \in Commands : Start(s, c)
  \/ \E p \in Partitions : CompleteMove(p)
  \/ \E d \in Pairs : CompleteDirMove(d)

Spec == Init /\ [][Next]_vars

-----------------------------------------------------------------------------
(* Properties *)

TypeOK ==
  /\ assigned \in [Partitions -> SUBSET Brokers]
  /\ ongoing \in [Partitions -> SUBSET Brokers]
  /\ leaderThr \subseteq Pairs /\ followerThr \subseteq Pairs
  /\ rate \subseteq Brokers /\ dirRate \subseteq Brokers /\ moving \subseteq Pairs
  /\ pc \in [Sessions -> Labels]
  /\ cmd \in [Sessions -> Commands]
  /\ mem \in [Sessions -> Memory]
  /\ out \in [Sessions -> Report]
  /\ opens \in Nat /\ faults \in Nat

\* The report of execute is complete: it succeeds (exit status 0, every row
\* STARTED) only if the controller accepted every partition of the plan and the
\* brokers accepted every log-dir move, though a refusal, an unregistered
\* broker or a failed call may come after other moves have started.
OkMeansStarted ==
  \A s \in Sessions :
    (pc[s] = "done" /\ out[s].exit = "ok" /\ cmd[s].kind = "execute" /\ cmd[s].execute)
      => out[s].accepted = cmd[s].parts /\ out[s].moved = cmd[s].dirs

\* verify goes on to lift throttles only while nothing is being moved: no
\* partition of the cluster (its list was read three calls earlier) and no
\* replica of the plan to another log directory.  Holds of serial use.
VerifyClearsOnlyWhenIdle ==
  \A s \in Sessions :
    (pc[s] = "clear" /\ cmd[s].kind = "verify" /\ mem[s].topics \union mem[s].brokers # {})
      => Moving = {} /\ cmd[s].dirs \intersect moving = {}

\* When verify reports a partition COMPLETED the partition is at its target and
\* is not being moved, although the list and the metadata it joins are read at
\* different times and metadata shows the targets of a move that has begun.
CompletedIsSettled ==
  \A s \in Sessions :
    (pc[s] = "clear" /\ cmd[s].kind = "verify") =>
      \A p \in out[s].complete : ongoing[p] = {} /\ assigned[p] = cmd[s].target[p]

\* A verify that found nothing moving and ends well has lifted every throttle of
\* its plan: the lists of its topics and the rates of all brokers, however
\* many commands, failed ones included, had set them.
VerifiedIsClean ==
  \A s \in Sessions :
    (/\ pc[s] = "clear" /\ cmd[s].kind = "verify" /\ MayClear(cmd[s], mem[s])
     /\ mem[s].topics = {} /\ mem[s].brokers = {})
      => /\ Registered \intersect (rate \union dirRate) = {}
         /\ \A x \in leaderThr \union followerThr : TopicOf[x[1]] \notin TopicsToClear(cmd[s])

\* Partition p is accepted by the controller for session s in this step.
Starts(s, p) == pc[s] = "apply" /\ p \in out'[s].accepted

\* A move that a throttled execute starts is throttled from its first byte:
\* every new replica and every replica it can fetch from is in the topic's
\* lists, on a broker with a rate.  Excepted are partitions that were already
\* moving when the command read its list: their sources are those of the list, and
\* the move they belonged to may have ended since.
ThrottledFromStart ==
  \A s \in Sessions : \A p \in Partitions :
    (Starts(s, p) /\ cmd[s].throttle /\ p \notin mem[s].active)
      => /\ \A b \in Adding(p)' : <<p, b>> \in followerThr /\ b \in rate
         /\ \A b \in assigned[p] : <<p, b>> \in leaderThr /\ b \in rate

\* Writing the throttles of a plan replaces whole topic lists; it must not
\* take the throttle off a move the plan does not concern.
OthersStayThrottled ==
  \A s \in Sessions : \A x \in Pairs :
    (/\ pc[s] = "apply" /\ x \in followerThr /\ x[1] \notin cmd[s].parts
     /\ x[2] \in Adding(x[1]))
      => x \in followerThr'

\* A throttled execute holds back its own moves from the start and leaves those of
\* others throttled, whatever ended or began since it read its list.
MovesStayThrottled == [][ThrottledFromStart /\ OthersStayThrottled]_vars

(* Liveness *)

Fairness ==
  /\ \A s \in Sessions : WF_vars(Step(s))
  /\ \A p \in Partitions : WF_vars(CompleteMove(p))
  /\ \A d \in Pairs : WF_vars(CompleteDirMove(d))
  /\ \A c \in Commands : c.kind = "verify" =>
       SF_vars(\E s \in Sessions : Start(s, c))

FairSpec == Spec /\ Fairness

\* An operator who keeps running verify gets rid of every throttle on the
\* topics of the plan and on the brokers, whatever failed in between.
ThrottlesLifted ==
  \A c \in Commands : (c.kind = "verify" /\ ~c.preserve) =>
    /\ <>[](\A x \in leaderThr \union followerThr : TopicOf[x[1]] \notin TopicsToClear(c))
    /\ <>[](Registered \intersect (rate \union dirRate) = {})
=============================================================================

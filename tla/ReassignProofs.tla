--------------------------- MODULE ReassignProofs ---------------------------
(***************************************************************************)
(* Proofs about Reassign for every set of brokers, partitions, sessions and *)
(* command lines.  TypeOK and the invariant of execute's report hold of any *)
(* interleaving; what verify does holds when commands run one at a time.    *)
(***************************************************************************)
EXTENDS Reassign, FiniteSetTheorems, TLAPS

-----------------------------------------------------------------------------
(* Types *)

LEMMA ExitType ==
  ASSUME TypeOK, NEW s \in Sessions, NEW r \in Report, Exit(s, r)
  PROVE  pc' \in [Sessions -> Labels] /\ out' \in [Sessions -> Report]
BY DEF TypeOK, Exit, Goto, Labels

LEMMA GotoType ==
  ASSUME TypeOK, NEW s \in Sessions, NEW l \in Labels, Goto(s, l)
  PROVE  pc' \in [Sessions -> Labels]
BY DEF TypeOK, Goto

LEMMA ReportType ==
  ASSUME TypeOK, NEW s \in Sessions
  PROVE  /\ out[s] \in Report /\ mem[s] \in Memory
         /\ cmd[s] \in Commands /\ ValidCommand(cmd[s])
         /\ Failed(s) \in Report
BY CommandsAssumption DEF TypeOK, Failed, Report

LEMMA FaultType == ASSUME TypeOK, Fault PROVE faults' \in Nat
BY DEF TypeOK, Fault

LEMMA AnswerType ==
  ASSUME TypeOK, NEW s \in Sessions, NEW l \in Labels, Answer(s, l)
  PROVE  pc' \in [Sessions -> Labels] /\ out' \in [Sessions -> Report] /\ faults' \in Nat
<1>1. CASE Goto(s, l) /\ UNCHANGED <<out, faults>>
  BY <1>1, GotoType DEF TypeOK
<1>2. CASE Exit(s, Failed(s)) /\ Fault
  BY <1>2, ExitType, ReportType, FaultType
<1> QED BY <1>1, <1>2 DEF Answer

LEMMA Counts ==
  /\ \A ps \in SUBSET Partitions : IsFiniteSet(ps) /\ Cardinality(ps) \in Nat
  /\ \A xs \in SUBSET Pairs : Cardinality(xs) \in Nat
<1>1. IsFiniteSet(Pairs)
  BY SetsAssumption, FS_Product DEF Pairs
<1> QED BY <1>1, SetsAssumption, FS_Subset, FS_CardinalityType

LEMMA MovesType ==
  ASSUME TypeOK, NEW c \in Commands, NEW parts, StartMoves(parts, c.target)
  PROVE  ongoing' \in [Partitions -> SUBSET Brokers]
BY CommandsAssumption DEF TypeOK, StartMoves, ValidCommand

LEMMA ThrottleTypes ==
  ASSUME NEW x \in SUBSET Pairs, NEW y \in SUBSET Pairs, NEW t
  PROVE  NotOfTopic(x, t) \union OfTopic(y, t) \in SUBSET Pairs
BY DEF NotOfTopic, OfTopic

LEMMA MemoryAfterList ==
  ASSUME mem \in [Sessions -> Memory], NEW s \in Sessions,
         NEW a \in SUBSET Partitions, NEW x \in SUBSET Pairs, NEW y \in SUBSET Pairs,
         mem' = [mem EXCEPT ![s].active = a, ![s].src = x, ![s].dst = y]
  PROVE  mem' \in [Sessions -> Memory]
BY ZenonT(40) DEF Memory

LEMMA MemoryAfterPlan ==
  ASSUME mem \in [Sessions -> Memory], NEW s \in Sessions,
         NEW x \in SUBSET Pairs, NEW y \in SUBSET Pairs, NEW ts \in SUBSET Topics,
         NEW bs \in SUBSET Brokers, NEW ds \in SUBSET Brokers,
         mem' = [mem EXCEPT ![s].src = x, ![s].dst = y, ![s].topics = ts,
                            ![s].brokers = bs, ![s].dirs = ds]
  PROVE  mem' \in [Sessions -> Memory]
<1>1. [mem[s] EXCEPT !.src = x, !.dst = y, !.topics = ts, !.brokers = bs, !.dirs = ds]
        \in Memory
  BY DEF Memory
<1>2. mem' = [mem EXCEPT ![s] = [mem[s] EXCEPT !.src = x, !.dst = y, !.topics = ts,
                                               !.brokers = bs, !.dirs = ds]]
  OBVIOUS
<1> QED BY <1>1, <1>2

LEMMA MemoryAfterClear ==
  ASSUME mem \in [Sessions -> Memory], NEW s \in Sessions,
         NEW ts \in SUBSET Topics, NEW bs \in SUBSET Brokers,
         mem' = [mem EXCEPT ![s].topics = ts, ![s].brokers = bs]
  PROVE  mem' \in [Sessions -> Memory]
BY ZenonT(40) DEF Memory

LEMMA ListType ==
  ASSUME TypeOK, NEW s \in Sessions, ListRunning(s)
  PROVE  mem' \in [Sessions -> Memory]
<1>1. Moving \in SUBSET Partitions
  BY DEF Moving
<1>2. /\ {x \in Pairs : x[1] \in Moving /\ x[2] \in assigned[x[1]]} \in SUBSET Pairs
      /\ {x \in Pairs : x[1] \in Moving /\ x[2] \in Adding(x[1])} \in SUBSET Pairs
  OBVIOUS
<1> QED BY <1>1, <1>2, MemoryAfterList DEF TypeOK, ListRunning

LEMMA PlanType ==
  ASSUME TypeOK, NEW s \in Sessions, PlanMoves(s)
  PROVE  mem' \in [Sessions -> Memory]
<1> DEFINE c == cmd[s]
           m == mem[s]
           ds == IF c.dirThrottle THEN DirBrokers(c) ELSE {}
<1>1. c.parts \subseteq Partitions /\ c.dirs \subseteq Pairs /\ m.active \subseteq Partitions
  BY ReportType DEF ValidCommand, Memory
<1>2. Sources(c, m) \in SUBSET Pairs /\ Destinations(c, m) \in SUBSET Pairs
  BY ReportType DEF Sources, Destinations, Memory
<1>3. TopicsToThrottle(c, m) \in SUBSET Topics
  BY <1>1 DEF TopicsToThrottle, Topics
<1>4. BrokersToThrottle(c, m) \in SUBSET Brokers /\ ds \in SUBSET Brokers
  BY <1>1, <1>2 DEF BrokersToThrottle, DirBrokers, Pairs
<1> DEFINE x == Sources(c, m)
           y == Destinations(c, m)
           ts == TopicsToThrottle(c, m)
           bs == BrokersToThrottle(c, m)
<1>5. CASE UNCHANGED mem
  BY <1>5 DEF TypeOK
<1>6. CASE mem' = [mem EXCEPT ![s].src = x, ![s].dst = y, ![s].topics = ts,
                              ![s].brokers = bs, ![s].dirs = ds]
  <2>1. /\ x \in SUBSET Pairs /\ y \in SUBSET Pairs /\ ts \in SUBSET Topics
        /\ bs \in SUBSET Brokers /\ ds \in SUBSET Brokers
    BY <1>2, <1>3, <1>4
  <2>2. mem \in [Sessions -> Memory]
    BY DEF TypeOK
  <2> HIDE DEF x, y, ts, bs, ds
  <2> QED BY <1>6, <2>1, <2>2, MemoryAfterPlan
<1> QED BY <1>5, <1>6 DEF PlanMoves

LEMMA ClearType ==
  ASSUME TypeOK, NEW s \in Sessions, NEW clear, PlanClear(s, clear)
  PROVE  mem' \in [Sessions -> Memory]
<1> DEFINE ts == IF clear THEN TopicsToClear(cmd[s]) ELSE {}
           bs == IF clear THEN BrokersToClear(cmd[s]) ELSE {}
<1>1. ts \in SUBSET Topics
  BY ReportType DEF TopicsToClear, ValidCommand, Topics
<1>2. bs \in SUBSET Brokers
  BY ReportType, SetsAssumption DEF BrokersToClear, ValidCommand
<1>3. mem' = [mem EXCEPT ![s].topics = ts, ![s].brokers = bs]
  BY DEF PlanClear
<1> HIDE DEF ts, bs
<1> QED BY <1>1, <1>2, <1>3, MemoryAfterClear DEF TypeOK

LEMMA StepType ==
  ASSUME TypeOK, NEW s \in Sessions, Step(s)
  PROVE  TypeOK'
<1>1. CASE ListRunning(s)
  <2>1. AfterList(cmd[s]) \in Labels
    BY DEF AfterList, AfterFactors, Labels
  <2>2. CASE Refused(cmd[s], Moving)
    BY <1>1, <2>2, ReportType, ExitType, ListType DEF TypeOK, ListRunning, cluster, configs
  <2>3. CASE ~Refused(cmd[s], Moving)
    <3>1. pc' \in [Sessions -> Labels]
      BY <1>1, <2>1, <2>3, GotoType DEF ListRunning
    <3>2. out' \in [Sessions -> Report]
      <4> DEFINE e == IF cmd[s].kind = "list" THEN "ok" ELSE out[s].exit
      <4>1. out' = [out EXCEPT ![s].exit = e]
        BY <1>1, <2>3 DEF ListRunning
      <4>2. e \in {"none", "ok", "partial", "error"}
        BY ReportType DEF Report
      <4> HIDE DEF e
      <4> QED BY <4>1, <4>2 DEF TypeOK, Report
    <3> QED BY <1>1, <3>1, <3>2, ListType DEF TypeOK, ListRunning, cluster, configs
  <2> QED BY <2>2, <2>3
<1>2. CASE CheckFactors(s)
  <2>1. pc' \in [Sessions -> Labels] /\ out' \in [Sessions -> Report]
    BY <1>2, ReportType, ExitType, GotoType DEF CheckFactors, AfterFactors, Labels, TypeOK
  <2> QED BY <1>2, <2>1 DEF TypeOK, CheckFactors, cluster, configs
<1>3. CASE PlanMoves(s)
  <2>1. pc' \in [Sessions -> Labels] /\ out' \in [Sessions -> Report]
    BY <1>3, ReportType, ExitType, GotoType DEF PlanMoves, Labels, TypeOK
  <2> QED BY <1>3, <2>1, PlanType DEF TypeOK, PlanMoves, cluster, configs
<1>4. ASSUME NEW t \in Topics, ThrottleTopic(s, t) PROVE TypeOK'
  <2>1. leaderThr' \subseteq Pairs /\ followerThr' \subseteq Pairs
    BY <1>4, ThrottleTypes DEF TypeOK, ThrottleTopic, Memory
  <2>2. mem' \in [Sessions -> Memory]
    BY <1>4, ZenonT(40) DEF TypeOK, ThrottleTopic, Memory
  <2> QED BY <1>4, <2>1, <2>2, AnswerType DEF TypeOK, ThrottleTopic, cluster, Labels
<1>5. ASSUME NEW b \in Brokers, ThrottleBroker(s, b) PROVE TypeOK'
  <2>1. mem' \in [Sessions -> Memory]
    BY <1>5, ZenonT(40) DEF TypeOK, ThrottleBroker, Memory
  <2> QED BY <1>5, <2>1, AnswerType DEF TypeOK, ThrottleBroker, cluster, Labels
<1>6. ASSUME NEW b \in Brokers, ThrottleDirs(s, b) PROVE TypeOK'
  <2>1. mem' \in [Sessions -> Memory]
    BY <1>6, ZenonT(40) DEF TypeOK, ThrottleDirs, Memory
  <2> QED BY <1>6, <2>1, AnswerType DEF TypeOK, ThrottleDirs, cluster, Labels
<1>7. CASE Alter(s)
  <2> DEFINE c == cmd[s]
             bs == DirBrokers(c)
  <2>1. PICK refused \in SUBSET c.parts, failed \in 0..Cardinality(c.parts) :
          LET report == [out[s] EXCEPT !.accepted = c.parts \ refused, !.failed = failed]
          IN  /\ faults' = faults \/ Fault
              /\ StartMoves(c.parts \ refused, c.target)
              /\ \/ Exit(s, [report EXCEPT !.exit = "partial"])
                 \/ Exit(s, [report EXCEPT !.exit = "ok"])
                 \/ Goto(s, "logDirs") /\ out' = [out EXCEPT ![s] = report]
    BY <1>7 DEF Alter, Verdict
  <2> DEFINE acc == c.parts \ refused
             report == [out[s] EXCEPT !.accepted = acc, !.failed = failed]
  <2>2. acc \in SUBSET Partitions /\ failed \in Nat
    BY ReportType, Counts DEF ValidCommand
  <2>3. bs \in SUBSET Brokers
    BY ReportType DEF ValidCommand, DirBrokers, Pairs
  <2>4. /\ report \in Report
        /\ [report EXCEPT !.exit = "partial"] \in Report
        /\ [report EXCEPT !.exit = "ok"] \in Report
    <3> HIDE DEF acc
    <3> QED BY <2>2, ReportType DEF Report
  <2>5. pc' \in [Sessions -> Labels] /\ out' \in [Sessions -> Report]
    <3>1. \/ Exit(s, [report EXCEPT !.exit = "partial"])
          \/ Exit(s, [report EXCEPT !.exit = "ok"])
          \/ Goto(s, "logDirs") /\ out' = [out EXCEPT ![s] = report]
      BY <2>1
    <3>2. "logDirs" \in Labels
      BY DEF Labels
    <3> HIDE DEF report
    <3> QED BY <2>4, <3>1, <3>2, ExitType, GotoType DEF TypeOK
  <2>6. mem' \in [Sessions -> Memory]
    <3>1. mem' = [mem EXCEPT ![s].dirs = bs]
      BY <1>7 DEF Alter
    <3> HIDE DEF bs
    <3> QED BY <2>3, <3>1, ZenonT(40) DEF TypeOK, Memory
  <2>7. ongoing' \in [Partitions -> SUBSET Brokers]
    BY <2>1, ReportType, MovesType
  <2> QED BY <1>7, <2>1, <2>5, <2>6, <2>7, FaultType DEF TypeOK, Alter, configs
<1>8. CASE AlterUnanswered(s)
  <2> DEFINE started == {p \in cmd[s].parts : assigned[p] # {}}
  <2>1. started \in SUBSET Partitions
    BY ReportType DEF ValidCommand
  <2>2. [Failed(s) EXCEPT !.accepted = started] \in Report
    <3> HIDE DEF started
    <3> QED BY <2>1, ReportType DEF Report
  <2>3. pc' \in [Sessions -> Labels] /\ out' \in [Sessions -> Report]
    <3>1. Exit(s, [Failed(s) EXCEPT !.accepted = started])
      BY <1>8 DEF AlterUnanswered
    <3> HIDE DEF started
    <3> QED BY <2>2, <3>1, ExitType
  <2>4. ongoing' \in [Partitions -> SUBSET Brokers]
    BY <1>8, ReportType, MovesType DEF AlterUnanswered
  <2> QED BY <1>8, <2>3, <2>4, FaultType DEF TypeOK, AlterUnanswered, configs
<1>9. ASSUME NEW b \in Brokers, AlterLogDirs(s, b) PROVE TypeOK'
  <2> DEFINE wanted == {x \in cmd[s].dirs : x[2] = b}
  <2>1. mem' \in [Sessions -> Memory]
    <3>1. mem' = [mem EXCEPT ![s].dirs = @ \ {b}]
      BY <1>9 DEF AlterLogDirs
    <3> QED BY <3>1, ZenonT(40) DEF TypeOK, Memory
  <2>2. CASE Exit(s, Failed(s)) /\ UNCHANGED <<moving, faults>>
    BY <1>9, <2>1, <2>2, ReportType, ExitType DEF TypeOK, AlterLogDirs, cluster, configs
  <2>3. ASSUME NEW bad \in SUBSET wanted,
               moving' = moving \union (wanted \ bad),
               out' = [out EXCEPT ![s].moved = out[s].moved \union (wanted \ bad),
                                  ![s].failed = out[s].failed + Cardinality(bad)],
               faults' = faults \/ Fault, UNCHANGED pc
        PROVE  TypeOK'
    <3> DEFINE mv == out[s].moved \union (wanted \ bad)
               fl == out[s].failed + Cardinality(bad)
    <3>1. wanted \in SUBSET Pairs /\ bad \in SUBSET Pairs
      BY ReportType DEF ValidCommand
    <3>2. mv \in SUBSET Pairs /\ fl \in Nat
      BY <3>1, ReportType, Counts DEF Report
    <3>3. out' \in [Sessions -> Report]
      <4>1. out' = [out EXCEPT ![s].moved = mv, ![s].failed = fl]
        BY <2>3, Zenon
      <4>2. out[s] \in Report /\ out \in [Sessions -> Report]
        BY DEF TypeOK
      <4> HIDE DEF mv, fl
      <4>3. [out[s] EXCEPT !.moved = mv, !.failed = fl] \in Report
        BY <4>2, <3>2 DEF Report
      <4>4. out' = [out EXCEPT ![s] = [out[s] EXCEPT !.moved = mv, !.failed = fl]]
        BY <4>1
      <4> QED BY <4>2, <4>3, <4>4
    <3>4. faults' \in Nat
      BY <2>3, FaultType DEF TypeOK
    <3>5. moving' \subseteq Pairs
      BY <2>3, <3>1 DEF TypeOK
    <3> QED BY <1>9, <2>1, <2>3, <3>3, <3>4, <3>5 DEF TypeOK, AlterLogDirs, cluster, configs
  <2> QED BY <1>9, <2>2, <2>3 DEF AlterLogDirs
<1>10. CASE FinishExecute(s)
  <2> DEFINE e == IF out[s].failed = 0 THEN "ok" ELSE "partial"
  <2>1. [out[s] EXCEPT !.exit = e] \in Report
    <3>1. e \in {"none", "ok", "partial", "error"}
      OBVIOUS
    <3> HIDE DEF e
    <3> QED BY <3>1, ReportType DEF Report
  <2>2. pc' \in [Sessions -> Labels] /\ out' \in [Sessions -> Report]
    <3>1. Exit(s, [out[s] EXCEPT !.exit = e])
      BY <1>10 DEF FinishExecute
    <3> HIDE DEF e
    <3> QED BY <2>1, <3>1, ExitType
  <2> QED BY <1>10, <2>2 DEF TypeOK, FinishExecute, cluster, configs
<1>11. CASE Cancel(s)
  <2>1. PICK refused \in SUBSET cmd[s].parts, failed \in 0..Cardinality(cmd[s].parts) :
          /\ faults' = faults \/ Fault
          /\ ongoing' = [p \in Partitions |->
                           IF p \in cmd[s].parts \ refused THEN {} ELSE ongoing[p]]
          /\ out' = [out EXCEPT ![s].accepted = cmd[s].parts \ refused, ![s].failed = failed]
    BY <1>11 DEF Cancel, Verdict
  <2> DEFINE acc == cmd[s].parts \ refused
  <2>2. acc \in SUBSET Partitions /\ failed \in Nat
    BY ReportType, Counts DEF ValidCommand
  <2>3. out' \in [Sessions -> Report]
    <3>1. out' = [out EXCEPT ![s] = [out[s] EXCEPT !.accepted = acc, !.failed = failed]]
      BY <2>1
    <3>2. out[s] \in Report /\ out \in [Sessions -> Report]
      BY DEF TypeOK
    <3> HIDE DEF acc
    <3>3. [out[s] EXCEPT !.accepted = acc, !.failed = failed] \in Report
      BY <2>2, <3>2 DEF Report
    <3> QED BY <3>1, <3>2, <3>3
  <2>4. ongoing' \in [Partitions -> SUBSET Brokers]
    BY <2>1 DEF TypeOK
  <2>5. pc' \in [Sessions -> Labels]
    BY <1>11, GotoType DEF Cancel, Labels
  <2> QED BY <1>11, <2>1, <2>3, <2>4, <2>5, FaultType DEF TypeOK, Cancel, configs
<1>12. CASE CancelUnanswered(s)
  <2>1. pc' \in [Sessions -> Labels] /\ out' \in [Sessions -> Report]
    BY <1>12, ReportType, ExitType DEF CancelUnanswered
  <2> QED BY <1>12, <2>1, FaultType DEF TypeOK, CancelUnanswered, configs
<1>13. CASE DescribeForCancel(s)
  <2>1. CASE out[s].failed = 0
    <3>1. mem' \in [Sessions -> Memory] /\ pc' \in [Sessions -> Labels]
      BY <1>13, <2>1, ClearType, GotoType DEF DescribeForCancel, Labels
    <3> QED BY <1>13, <2>1, <3>1 DEF TypeOK, DescribeForCancel, cluster, configs
  <2>2. CASE out[s].failed # 0
    <3>1. [out[s] EXCEPT !.exit = "partial"] \in Report
      BY ReportType DEF Report
    <3>2. pc' \in [Sessions -> Labels] /\ out' \in [Sessions -> Report]
      BY <1>13, <2>2, <3>1, ExitType DEF DescribeForCancel
    <3> QED BY <1>13, <2>2, <3>2 DEF TypeOK, DescribeForCancel, cluster, configs
  <2> QED BY <2>1, <2>2
<1>14. CASE DescribeLogDirs(s)
  <2> DEFINE busy == cmd[s].dirs \intersect moving # {}
  <2>1. mem' \in [Sessions -> Memory]
    <3>1. mem' = [mem EXCEPT ![s].busy = busy] /\ busy \in BOOLEAN
      BY <1>14 DEF DescribeLogDirs
    <3> HIDE DEF busy
    <3> QED BY <3>1, ZenonT(40) DEF TypeOK, Memory
  <2>2. pc' \in [Sessions -> Labels]
    BY <1>14, GotoType DEF DescribeLogDirs, Labels
  <2> QED BY <1>14, <2>1, <2>2 DEF TypeOK, DescribeLogDirs, cluster, configs
<1>15. CASE DescribeForVerify(s)
  <2>1. pc' \in [Sessions -> Labels]
    BY <1>15, GotoType DEF DescribeForVerify, Labels
  <2> QED BY <1>15, <2>1 DEF TypeOK, DescribeForVerify, cluster, configs
<1>16. CASE ReadCurrent(s)
  <2> DEFINE done == Complete(cmd[s], mem[s])
  <2>1. mem' \in [Sessions -> Memory] /\ pc' \in [Sessions -> Labels]
    BY <1>16, ClearType, GotoType DEF ReadCurrent, Labels
  <2>2. out' \in [Sessions -> Report]
    <3>1. out' = [out EXCEPT ![s].complete = done]
      BY <1>16 DEF ReadCurrent
    <3>2. done \in SUBSET Partitions
      BY ReportType DEF Complete, ValidCommand
    <3> HIDE DEF done
    <3> QED BY <3>1, <3>2, ZenonT(40) DEF TypeOK, Report
  <2> QED BY <1>16, <2>1, <2>2 DEF TypeOK, ReadCurrent, cluster, configs
<1>17. ASSUME NEW t \in Topics, ClearTopic(s, t) PROVE TypeOK'
  <2>1. leaderThr' \subseteq Pairs /\ followerThr' \subseteq Pairs
    BY <1>17 DEF TypeOK, ClearTopic, NotOfTopic
  <2>2. mem' \in [Sessions -> Memory]
    <3>1. mem' = [mem EXCEPT ![s].topics = @ \ {t}]
      BY <1>17 DEF ClearTopic
    <3> QED BY <3>1, ZenonT(40) DEF TypeOK, Memory
  <2> QED BY <1>17, <2>1, <2>2, AnswerType DEF TypeOK, ClearTopic, cluster, Labels
<1>18. ASSUME NEW b \in Brokers, ClearBroker(s, b) PROVE TypeOK'
  <2>1. rate' \subseteq Brokers /\ dirRate' \subseteq Brokers
    BY <1>18 DEF TypeOK, ClearBroker
  <2>2. mem' \in [Sessions -> Memory]
    <3>1. mem' = [mem EXCEPT ![s].brokers = @ \ {b}]
      BY <1>18 DEF ClearBroker
    <3> QED BY <3>1, ZenonT(40) DEF TypeOK, Memory
  <2> QED BY <1>18, <2>1, <2>2, AnswerType DEF TypeOK, ClearBroker, cluster, Labels
<1>19. CASE FinishClear(s)
  <2>1. [out[s] EXCEPT !.exit = "ok"] \in Report
    BY ReportType DEF Report
  <2>2. pc' \in [Sessions -> Labels] /\ out' \in [Sessions -> Report]
    BY <1>19, <2>1, ExitType DEF FinishClear
  <2> QED BY <1>19, <2>2 DEF TypeOK, FinishClear, cluster, configs
<1>20. CASE CallFails(s)
  <2>1. pc' \in [Sessions -> Labels] /\ out' \in [Sessions -> Report]
    BY <1>20, ReportType, ExitType DEF CallFails
  <2> QED BY <1>20, <2>1, FaultType DEF TypeOK, CallFails, cluster, configs
<1> QED
  BY <1>1, <1>2, <1>3, <1>4, <1>5, <1>6, <1>7, <1>8, <1>9, <1>10, <1>11, <1>12, <1>13,
     <1>14, <1>15, <1>16, <1>17, <1>18, <1>19, <1>20 DEF Step, Execute, Clear

LEMMA StartType ==
  ASSUME TypeOK, NEW s \in Sessions, NEW c \in Commands, Start(s, c)
  PROVE  TypeOK'
<1> DEFINE r == IF Preview(c) THEN [NoReport EXCEPT !.exit = "ok"] ELSE NoReport
           l == IF Preview(c) THEN "done" ELSE FirstCall(c)
<1>1. r \in Report /\ NoMemory \in Memory
  BY DEF NoReport, Report, NoMemory, Memory
<1>2. l \in Labels
  BY DEF FirstCall, Labels
<1>3. out' = [out EXCEPT ![s] = r] /\ Goto(s, l) /\ mem' = [mem EXCEPT ![s] = NoMemory]
  BY DEF Start
<1>4. opens' \in Nat
  BY DEF Start, TypeOK
<1>5. cmd' \in [Sessions -> Commands]
  BY DEF Start, TypeOK
<1>6. out' \in [Sessions -> Report] /\ mem' \in [Sessions -> Memory]
        /\ pc' \in [Sessions -> Labels]
  <2> HIDE DEF r, l
  <2> QED BY <1>1, <1>2, <1>3, GotoType DEF TypeOK
<1> QED BY <1>4, <1>5, <1>6 DEF Start, TypeOK, cluster, configs

\* Every variable keeps its type, whatever the commands are and however their
\* calls interleave, fail or go unanswered.
THEOREM TypeCorrect == Spec => []TypeOK
<1>1. Init => TypeOK
  <2> SUFFICES ASSUME Init PROVE TypeOK
    OBVIOUS
  <2>1. NoReport \in Report /\ NoMemory \in Memory
    BY DEF NoReport, Report, NoMemory, Memory
  <2>2. (CHOOSE c \in Commands : TRUE) \in Commands
    BY CommandsAssumption
  <2> QED BY <2>1, <2>2, SetsAssumption DEF Init, TypeOK, Labels
<1>2. TypeOK /\ [Next]_vars => TypeOK'
  <2> SUFFICES ASSUME TypeOK, [Next]_vars PROVE TypeOK'
    OBVIOUS
  <2>1. ASSUME NEW p \in Partitions, CompleteMove(p) PROVE TypeOK'
    BY <2>1 DEF TypeOK, CompleteMove, configs
  <2>2. ASSUME NEW d \in Pairs, CompleteDirMove(d) PROVE TypeOK'
    BY <2>2 DEF TypeOK, CompleteDirMove, cluster, configs
  <2>3. CASE UNCHANGED vars
    BY <2>3 DEF TypeOK, vars
  <2> QED BY <2>1, <2>2, <2>3, StepType, StartType DEF Next
<1> QED BY <1>1, <1>2, PTL DEF Spec

-----------------------------------------------------------------------------
(* Which commands reach which calls *)

KindInv ==
  \A s \in Sessions :
    /\ pc[s] \in {"factors", "moves", "apply", "logDirs"} => cmd[s].kind = "execute"
    /\ pc[s] = "cancel" => cmd[s].kind = "cancel"
    /\ pc[s] \in {"dirs", "current"} => cmd[s].kind = "verify"
    /\ pc[s] \in {"describe", "clear"} => cmd[s].kind \in {"cancel", "verify"}

LEMMA ExitEffect ==
  ASSUME TypeOK, NEW s \in Sessions, NEW r, Exit(s, r)
  PROVE  /\ pc'[s] = "done" /\ out'[s] = r
         /\ \A q \in Sessions \ {s} : pc'[q] = pc[q] /\ out'[q] = out[q]
BY DEF TypeOK, Exit, Goto

LEMMA GotoEffect ==
  ASSUME TypeOK, NEW s \in Sessions, NEW l, Goto(s, l)
  PROVE  pc'[s] = l /\ \A q \in Sessions \ {s} : pc'[q] = pc[q]
BY DEF TypeOK, Goto

LEMMA AnswerEffect ==
  ASSUME TypeOK, NEW s \in Sessions, NEW l, Answer(s, l)
  PROVE  /\ \/ pc'[s] = l /\ out'[s] = out[s]
            \/ pc'[s] = "done" /\ out'[s] = Failed(s)
         /\ \A q \in Sessions \ {s} : pc'[q] = pc[q] /\ out'[q] = out[q]
BY ExitEffect, GotoEffect DEF Answer

\* A step of one session leaves what the others know and report alone.
LEMMA StepFrame ==
  ASSUME TypeOK, NEW s \in Sessions, Step(s)
  PROVE  /\ Running(s) /\ cmd' = cmd
         /\ \A q \in Sessions \ {s} :
              pc'[q] = pc[q] /\ mem'[q] = mem[q] /\ out'[q] = out[q]
<1> USE DEF Running
<1>1. CASE ListRunning(s)
  BY <1>1, ExitEffect, GotoEffect DEF ListRunning, TypeOK
<1>2. CASE CheckFactors(s)
  BY <1>2, ExitEffect, GotoEffect DEF CheckFactors, TypeOK
<1>3. CASE PlanMoves(s)
  BY <1>3, ExitEffect, GotoEffect DEF PlanMoves, TypeOK
<1>4. ASSUME NEW t \in Topics, ThrottleTopic(s, t) \/ ClearTopic(s, t)
      PROVE  /\ Running(s) /\ cmd' = cmd
             /\ \A q \in Sessions \ {s} :
                  pc'[q] = pc[q] /\ mem'[q] = mem[q] /\ out'[q] = out[q]
  BY <1>4, AnswerEffect DEF ThrottleTopic, ClearTopic, TypeOK
<1>5. ASSUME NEW b \in Brokers, ThrottleBroker(s, b) \/ ThrottleDirs(s, b) \/ ClearBroker(s, b)
      PROVE  /\ Running(s) /\ cmd' = cmd
             /\ \A q \in Sessions \ {s} :
                  pc'[q] = pc[q] /\ mem'[q] = mem[q] /\ out'[q] = out[q]
  BY <1>5, AnswerEffect DEF ThrottleBroker, ThrottleDirs, ClearBroker, TypeOK
<1>6. CASE Alter(s)
  <2>1. PICK r : \/ Exit(s, r)
                 \/ Goto(s, "logDirs") /\ out' = [out EXCEPT ![s] = r]
    BY <1>6 DEF Alter
  <2>2. CASE Exit(s, r)
    BY <1>6, <2>2, ExitEffect DEF Alter, TypeOK
  <2>3. CASE Goto(s, "logDirs") /\ out' = [out EXCEPT ![s] = r]
    BY <1>6, <2>3, GotoEffect DEF Alter, TypeOK
  <2> QED BY <2>1, <2>2, <2>3
<1>7. CASE AlterUnanswered(s) \/ FinishExecute(s) \/ CancelUnanswered(s) \/ FinishClear(s)
  BY <1>7, ExitEffect DEF AlterUnanswered, FinishExecute, CancelUnanswered, FinishClear, TypeOK
<1>8. ASSUME NEW b \in Brokers, AlterLogDirs(s, b)
      PROVE  /\ Running(s) /\ cmd' = cmd
             /\ \A q \in Sessions \ {s} :
                  pc'[q] = pc[q] /\ mem'[q] = mem[q] /\ out'[q] = out[q]
  <2>1. CASE Exit(s, Failed(s))
    BY <1>8, <2>1, ExitEffect DEF AlterLogDirs, TypeOK
  <2>2. CASE UNCHANGED pc
    <3>1. PICK x, y : out' = [out EXCEPT ![s].moved = x, ![s].failed = y]
      BY <1>8, <2>2 DEF AlterLogDirs, Exit, Goto, TypeOK
    <3> QED BY <1>8, <2>2, <3>1 DEF AlterLogDirs, TypeOK
  <2> QED BY <1>8, <2>1, <2>2 DEF AlterLogDirs
<1>9. CASE Cancel(s)
  <2>1. PICK x, y : out' = [out EXCEPT ![s].accepted = x, ![s].failed = y]
    BY <1>9 DEF Cancel
  <2> QED BY <1>9, <2>1, GotoEffect DEF Cancel, TypeOK
<1>10. CASE DescribeForCancel(s)
  <2>1. CASE out[s].failed = 0
    BY <1>10, <2>1, GotoEffect DEF DescribeForCancel, PlanClear, TypeOK
  <2>2. CASE out[s].failed # 0
    BY <1>10, <2>2, ExitEffect DEF DescribeForCancel, TypeOK
  <2> QED BY <2>1, <2>2
<1>11. CASE DescribeLogDirs(s) \/ DescribeForVerify(s)
  BY <1>11, GotoEffect DEF DescribeLogDirs, DescribeForVerify, TypeOK
<1>12. CASE ReadCurrent(s)
  BY <1>12, GotoEffect DEF ReadCurrent, PlanClear, TypeOK
<1>13. CASE CallFails(s)
  BY <1>13, ExitEffect DEF CallFails, TypeOK
<1> QED
  BY <1>1, <1>2, <1>3, <1>4, <1>5, <1>6, <1>7, <1>8, <1>9, <1>10, <1>11, <1>12, <1>13
     DEF Step, Execute, Clear

LEMMA StartFrame ==
  ASSUME TypeOK, NEW s \in Sessions, NEW c \in Commands, Start(s, c)
  PROVE  /\ cmd'[s] = c /\ mem'[s] = NoMemory
         /\ pc'[s] = IF Preview(c) THEN "done" ELSE FirstCall(c)
         /\ out'[s] = IF Preview(c) THEN [NoReport EXCEPT !.exit = "ok"] ELSE NoReport
         /\ \A q \in Sessions \ {s} : /\ pc'[q] = pc[q] /\ mem'[q] = mem[q]
                                      /\ out'[q] = out[q] /\ cmd'[q] = cmd[q]
BY DEF Start, Goto, TypeOK

LEMMA AfterListCases ==
  ASSUME NEW c
  PROVE  /\ c.kind = "execute" => AfterList(c) \in {"factors", "moves", "apply"}
         /\ c.kind = "verify" => AfterList(c) = "dirs"
         /\ c.kind \notin {"execute", "verify"} => AfterList(c) = "done"
BY DEF AfterList, AfterFactors

LEMMA KindStep ==
  ASSUME TypeOK, KindInv, NEW s \in Sessions, Step(s)
  PROVE  KindInv'
<1>1. SUFFICES
        /\ pc'[s] \in {"factors", "moves", "apply", "logDirs"} => cmd[s].kind = "execute"
        /\ pc'[s] = "cancel" => cmd[s].kind = "cancel"
        /\ pc'[s] \in {"dirs", "current"} => cmd[s].kind = "verify"
        /\ pc'[s] \in {"describe", "clear"} => cmd[s].kind \in {"cancel", "verify"}
  BY StepFrame DEF KindInv
<1>2. CASE ListRunning(s)
  <2> DEFINE l == AfterList(cmd[s])
  <2>1. /\ cmd[s].kind = "execute" => l \in {"factors", "moves", "apply"}
        /\ cmd[s].kind = "verify" => l = "dirs"
        /\ cmd[s].kind \notin {"execute", "verify"} => l = "done"
    BY AfterListCases
  <2>2. pc'[s] = "done" \/ pc'[s] = l
    BY <1>2, ExitEffect, GotoEffect DEF ListRunning
  <2> HIDE DEF l
  <2> QED BY <2>1, <2>2
<1>3. CASE CheckFactors(s) \/ PlanMoves(s)
  BY <1>3, ExitEffect, GotoEffect DEF CheckFactors, PlanMoves, AfterFactors, KindInv
<1>4. CASE Alter(s)
  BY <1>4, ExitEffect, GotoEffect DEF Alter, KindInv
<1>5. ASSUME NEW t \in Topics, ThrottleTopic(s, t)
      PROVE  pc'[s] \in {"apply", "done"} /\ pc[s] = "apply"
  BY <1>5, AnswerEffect DEF ThrottleTopic
<1>6. ASSUME NEW b \in Brokers, ThrottleBroker(s, b) \/ ThrottleDirs(s, b)
      PROVE  pc'[s] \in {"apply", "done"} /\ pc[s] = "apply"
  BY <1>6, AnswerEffect DEF ThrottleBroker, ThrottleDirs
<1>7. ASSUME NEW b \in Brokers, AlterLogDirs(s, b)
      PROVE  pc'[s] \in {"logDirs", "done"} /\ pc[s] = "logDirs"
  BY <1>7, ExitEffect DEF AlterLogDirs
<1>8. ASSUME NEW t \in Topics, ClearTopic(s, t)
      PROVE  pc'[s] \in {"clear", "done"} /\ pc[s] = "clear"
  BY <1>8, AnswerEffect DEF ClearTopic
<1>9. ASSUME NEW b \in Brokers, ClearBroker(s, b)
      PROVE  pc'[s] \in {"clear", "done"} /\ pc[s] = "clear"
  BY <1>9, AnswerEffect DEF ClearBroker
<1>10. CASE AlterUnanswered(s) \/ FinishExecute(s) \/ CancelUnanswered(s) \/ FinishClear(s)
            \/ CallFails(s)
  BY <1>10, ExitEffect DEF AlterUnanswered, FinishExecute, CancelUnanswered, FinishClear,
     CallFails
<1>11. CASE Cancel(s) \/ DescribeLogDirs(s) \/ DescribeForVerify(s) \/ ReadCurrent(s)
  BY <1>11, GotoEffect DEF Cancel, DescribeLogDirs, DescribeForVerify, ReadCurrent, KindInv
<1>12. CASE DescribeForCancel(s)
  BY <1>12, ExitEffect, GotoEffect DEF DescribeForCancel
<1> QED
  BY <1>2, <1>3, <1>4, <1>5, <1>6, <1>7, <1>8, <1>9, <1>10, <1>11, <1>12
     DEF Step, Execute, Clear, KindInv

LEMMA KindInvariant == Spec => []KindInv
<1>1. Init => KindInv
  BY DEF Init, KindInv
<1>2. TypeOK /\ KindInv /\ [Next]_vars => KindInv'
  <2> SUFFICES ASSUME TypeOK, KindInv, [Next]_vars PROVE KindInv'
    OBVIOUS
  <2>1. ASSUME NEW s \in Sessions, NEW c \in Commands, Start(s, c) PROVE KindInv'
    BY <2>1, StartFrame DEF KindInv, FirstCall
  <2>2. CASE UNCHANGED <<pc, cmd>>
    BY <2>2 DEF KindInv
  <2> QED
    BY <2>1, <2>2, KindStep DEF Next, vars, CompleteMove, CompleteDirMove
<1> QED BY <1>1, <1>2, TypeCorrect, PTL DEF Spec

-----------------------------------------------------------------------------
(* What execute reports *)

\* Why OkMeansStarted is not inductive by itself: the report is put together
\* over several calls.  Until the log-dir calls no log-dir move is accepted; at
\* them every partition is, and if no row has failed so are the moves of the
\* brokers already called.
ExecuteFacts(s) ==
  /\ pc[s] \notin {"logDirs", "done"} => out[s].moved = {}
  /\ pc[s] = "logDirs" =>
       /\ out[s].accepted = cmd[s].parts
       /\ out[s].moved \subseteq cmd[s].dirs
       /\ out[s].failed = 0 => {x \in cmd[s].dirs : x[2] \notin mem[s].dirs} \subseteq out[s].moved
  /\ (pc[s] = "done" /\ out[s].exit = "ok" /\ cmd[s].kind = "execute" /\ cmd[s].execute)
       => out[s].accepted = cmd[s].parts /\ out[s].moved = cmd[s].dirs

ExecuteInv == \A s \in Sessions : ExecuteFacts(s)

LEMMA AlterReports ==
  ASSUME TypeOK, KindInv, NEW s \in Sessions, ExecuteFacts(s), Alter(s)
  PROVE  ExecuteFacts(s)'
<1> DEFINE c == cmd[s]
           gone == {p \in c.parts : assigned[p] = {}}
<1>1. PICK refused \in SUBSET c.parts, failed \in 0..Cardinality(c.parts) :
        LET report == [out[s] EXCEPT !.accepted = c.parts \ refused, !.failed = failed]
        IN  /\ Verdict(c.parts, gone, refused, failed)
            /\ IF failed > 0
                 THEN Exit(s, [report EXCEPT !.exit = "partial"])
               ELSE IF c.dirs = {}
                 THEN Exit(s, [report EXCEPT !.exit = "ok"])
               ELSE Goto(s, "logDirs") /\ out' = [out EXCEPT ![s] = report]
  BY DEF Alter
<1> DEFINE report == [out[s] EXCEPT !.accepted = c.parts \ refused, !.failed = failed]
<1>2. out[s] \in Report /\ c.parts \in SUBSET Partitions /\ gone \in SUBSET Partitions
  BY ReportType DEF ValidCommand
<1>3. failed \in Nat
  BY <1>2, Counts
<1>4. failed = 0 => c.parts \ refused = c.parts
  <2>1. \A ps \in SUBSET Partitions : Cardinality(ps) = 0 => ps = {}
    BY Counts, FS_EmptySet
  <2> QED BY <1>1, <1>2, <2>1 DEF Verdict
<1>5. /\ report.accepted = c.parts \ refused /\ report.failed = failed
      /\ report.moved = out[s].moved
  BY <1>2 DEF Report
<1>6. out[s].moved = {} /\ cmd'[s] = c /\ mem'[s].dirs = DirBrokers(c)
  BY DEF Alter, ExecuteFacts, TypeOK, Memory
<1>7. CASE failed > 0
  <2>1. out'[s] = [report EXCEPT !.exit = "partial"] /\ pc'[s] = "done"
    BY <1>1, <1>7, ExitEffect
  <2>2. out'[s].exit = "partial"
    BY <1>2, <2>1 DEF Report
  <2> QED BY <2>1, <2>2 DEF ExecuteFacts
<1>8. CASE failed = 0 /\ c.dirs = {}
  <2>1. out'[s] = [report EXCEPT !.exit = "ok"] /\ pc'[s] = "done"
    BY <1>1, <1>3, <1>8, ExitEffect
  <2>2. out'[s].accepted = c.parts /\ out'[s].moved = {}
    BY <1>2, <1>4, <1>5, <1>6, <1>8, <2>1 DEF Report
  <2> QED BY <1>6, <1>8, <2>1, <2>2 DEF ExecuteFacts
<1>9. CASE failed = 0 /\ c.dirs # {}
  <2>1. out'[s] = report /\ pc'[s] = "logDirs"
    BY <1>1, <1>3, <1>9, GotoEffect DEF TypeOK
  <2>2. out'[s].accepted = c.parts /\ out'[s].moved = {}
    BY <1>4, <1>5, <1>6, <1>9, <2>1
  <2>3. {x \in c.dirs : x[2] \notin DirBrokers(c)} = {}
    BY DEF DirBrokers
  <2> QED BY <1>6, <2>1, <2>2, <2>3 DEF ExecuteFacts
<1> QED BY <1>3, <1>7, <1>8, <1>9

LEMMA LogDirsReport ==
  ASSUME TypeOK, NEW s \in Sessions, NEW b \in Brokers, ExecuteFacts(s), AlterLogDirs(s, b)
  PROVE  ExecuteFacts(s)'
<1> DEFINE c == cmd[s]
           wanted == {x \in c.dirs : x[2] = b}
<1>1. /\ cmd'[s] = c /\ mem'[s].dirs = mem[s].dirs \ {b}
      /\ out[s].accepted = c.parts /\ out[s].moved \subseteq c.dirs
      /\ out[s].failed = 0 => {x \in c.dirs : x[2] \notin mem[s].dirs} \subseteq out[s].moved
  BY DEF AlterLogDirs, ExecuteFacts, TypeOK, Memory
<1>2. CASE Exit(s, Failed(s))
  <2>1. pc'[s] = "done" /\ out'[s] = Failed(s)
    BY <1>2, ExitEffect
  <2>2. Failed(s).exit = "error"
    BY ReportType DEF Failed, Report
  <2> QED BY <2>1, <2>2 DEF ExecuteFacts
<1>3. ASSUME NEW bad \in SUBSET wanted,
             out' = [out EXCEPT ![s].moved = out[s].moved \union (wanted \ bad),
                                ![s].failed = out[s].failed + Cardinality(bad)],
             UNCHANGED pc
      PROVE  ExecuteFacts(s)'
  <2>1. bad \in SUBSET Pairs /\ out[s] \in Report
    BY ReportType DEF ValidCommand
  <2>2. Cardinality(bad) \in Nat /\ (Cardinality(bad) = 0 => bad = {})
    <3>1. IsFiniteSet(bad)
      BY <2>1, SetsAssumption, FS_Product, FS_Subset DEF Pairs
    <3> QED BY <2>1, <3>1, Counts, FS_EmptySet
  <2>3. /\ out'[s].accepted = out[s].accepted
        /\ out'[s].moved = out[s].moved \union (wanted \ bad)
        /\ out'[s].failed = out[s].failed + Cardinality(bad)
    BY <1>3, <2>1 DEF TypeOK, Report
  <2>4. out[s].failed \in Nat
    BY <2>1 DEF Report
  <2>5. out'[s].failed = 0 => out[s].failed = 0 /\ bad = {}
    BY <2>2, <2>3, <2>4
  <2>6. pc'[s] = "logDirs"
    BY <1>3 DEF AlterLogDirs
  <2> QED BY <1>1, <2>3, <2>5, <2>6 DEF ExecuteFacts
<1> QED BY <1>2, <1>3 DEF AlterLogDirs

LEMMA ExecuteStep ==
  ASSUME TypeOK, KindInv, NEW s \in Sessions, ExecuteFacts(s), Step(s)
  PROVE  ExecuteFacts(s)'
<1>1. cmd'[s] = cmd[s] /\ out[s] \in Report /\ Failed(s) \in Report
  BY StepFrame, ReportType
<1>2. Failed(s).exit = "error"
  BY ReportType DEF Failed, Report
<1>3. ASSUME pc'[s] \notin {"logDirs", "done"}, pc[s] \notin {"logDirs", "done"},
             out'[s].moved = out[s].moved
      PROVE  ExecuteFacts(s)'
  BY <1>3 DEF ExecuteFacts
<1>4. ASSUME pc'[s] = "done", \/ out'[s].exit # "ok"
                              \/ cmd[s].kind # "execute"
      PROVE  ExecuteFacts(s)'
  BY <1>1, <1>4 DEF ExecuteFacts
<1>5. CASE ListRunning(s)
  <2>1. CASE Refused(cmd[s], Moving)
    BY <1>2, <1>4, <1>5, <2>1, ExitEffect DEF ListRunning
  <2>2. CASE ~Refused(cmd[s], Moving)
    <3> DEFINE l == AfterList(cmd[s])
               e == IF cmd[s].kind = "list" THEN "ok" ELSE out[s].exit
    <3>1. /\ cmd[s].kind = "execute" => l \in {"factors", "moves", "apply"}
          /\ cmd[s].kind = "verify" => l = "dirs"
          /\ cmd[s].kind \notin {"execute", "verify"} => l = "done"
      BY AfterListCases
    <3>2. pc'[s] = l /\ out' = [out EXCEPT ![s].exit = e]
      BY <1>5, <2>2, GotoEffect DEF ListRunning
    <3>3. out'[s].moved = out[s].moved /\ pc[s] = "list"
      <4> HIDE DEF e
      <4> QED BY <1>1, <1>5, <3>2 DEF ListRunning, TypeOK, Report
    <3> HIDE DEF l, e
    <3> QED BY <1>3, <1>4, <3>1, <3>2, <3>3
  <2> QED BY <2>1, <2>2
<1>6. CASE CheckFactors(s) \/ PlanMoves(s)
  <2>1. \/ pc'[s] = "done" /\ out'[s] = Failed(s)
        \/ pc'[s] \in {"moves", "apply"} /\ out'[s] = out[s]
    BY <1>6, ExitEffect, GotoEffect DEF CheckFactors, PlanMoves, AfterFactors
  <2>2. pc[s] \in {"factors", "moves"}
    BY <1>6 DEF CheckFactors, PlanMoves
  <2> QED BY <1>2, <1>3, <1>4, <2>1, <2>2
<1>7. ASSUME NEW l \in {"apply", "clear"}, pc[s] = l, Answer(s, l)
      PROVE  ExecuteFacts(s)'
  BY <1>2, <1>3, <1>4, <1>7, AnswerEffect
<1>8. ASSUME NEW t \in Topics, ThrottleTopic(s, t) \/ ClearTopic(s, t)
      PROVE  ExecuteFacts(s)'
  BY <1>7, <1>8 DEF ThrottleTopic, ClearTopic
<1>9. ASSUME NEW b \in Brokers, ThrottleBroker(s, b) \/ ThrottleDirs(s, b) \/ ClearBroker(s, b)
      PROVE  ExecuteFacts(s)'
  BY <1>7, <1>9 DEF ThrottleBroker, ThrottleDirs, ClearBroker
<1>10. CASE AlterUnanswered(s)
  <2>1. PICK x : Exit(s, [Failed(s) EXCEPT !.accepted = x])
    BY <1>10 DEF AlterUnanswered
  <2>2. [Failed(s) EXCEPT !.accepted = x].exit = "error"
    BY <1>1, <1>2 DEF Report
  <2> QED BY <1>4, <2>1, <2>2, ExitEffect
<1>11. CASE FinishExecute(s)
  <2>1. pc'[s] = "done" /\ mem[s].dirs = {} /\ pc[s] = "logDirs"
    BY <1>11, ExitEffect DEF FinishExecute
  <2>2. CASE out[s].failed = 0
    <3>1. out'[s] = [out[s] EXCEPT !.exit = "ok"]
      BY <1>11, <2>2, ExitEffect DEF FinishExecute
    <3>2. out'[s].accepted = out[s].accepted /\ out'[s].moved = out[s].moved
      BY <1>1, <3>1 DEF Report
    <3>3. out[s].accepted = cmd[s].parts /\ out[s].moved = cmd[s].dirs
      BY <2>1, <2>2 DEF ExecuteFacts
    <3> QED BY <1>1, <2>1, <3>2, <3>3 DEF ExecuteFacts
  <2>3. CASE out[s].failed # 0
    <3>1. out'[s] = [out[s] EXCEPT !.exit = "partial"]
      BY <1>11, <2>3, ExitEffect DEF FinishExecute
    <3>2. out'[s].exit = "partial"
      BY <1>1, <3>1 DEF Report
    <3> QED BY <1>4, <2>1, <3>2
  <2> QED BY <2>2, <2>3
<1>12. CASE Cancel(s) \/ DescribeForCancel(s)
  <2>1. cmd[s].kind # "execute"
    BY <1>12 DEF Cancel, DescribeForCancel, KindInv
  <2>2. CASE Cancel(s)
    <3>1. PICK x, y : out' = [out EXCEPT ![s].accepted = x, ![s].failed = y]
      BY <2>2 DEF Cancel
    <3>2. out'[s].moved = out[s].moved
      BY <1>1, <3>1 DEF TypeOK, Report
    <3> QED BY <1>3, <2>2, <3>2, GotoEffect DEF Cancel
  <2>3. CASE DescribeForCancel(s)
    <3>1. pc'[s] = "done" \/ (pc'[s] = "clear" /\ out'[s] = out[s])
      BY <2>3, ExitEffect, GotoEffect DEF DescribeForCancel
    <3> QED BY <1>3, <1>4, <2>1, <2>3, <3>1 DEF DescribeForCancel
  <2> QED BY <1>12, <2>2, <2>3
<1>13. CASE CancelUnanswered(s) \/ CallFails(s)
  BY <1>2, <1>4, <1>13, ExitEffect DEF CancelUnanswered, CallFails
<1>14. CASE DescribeLogDirs(s) \/ DescribeForVerify(s)
  BY <1>3, <1>14, GotoEffect DEF DescribeLogDirs, DescribeForVerify
<1>15. CASE ReadCurrent(s)
  <2>1. PICK x : out' = [out EXCEPT ![s].complete = x]
    BY <1>15 DEF ReadCurrent
  <2>2. out'[s].moved = out[s].moved
    BY <1>1, <2>1 DEF TypeOK, Report
  <2> QED BY <1>3, <1>15, <2>2, GotoEffect DEF ReadCurrent
<1>16. CASE FinishClear(s)
  <2>1. cmd[s].kind # "execute"
    BY <1>16 DEF FinishClear, KindInv
  <2> QED BY <1>4, <1>16, <2>1, ExitEffect DEF FinishClear
<1> QED
  BY <1>5, <1>6, <1>8, <1>9, <1>10, <1>11, <1>12, <1>13, <1>14, <1>15, <1>16,
     AlterReports, LogDirsReport DEF Step, Execute, Clear

\* execute succeeds only if everything its plan asks for was accepted, under
\* any interleaving of sessions and any failure.
THEOREM ReportSound == Spec => []OkMeansStarted
<1>1. Init => ExecuteInv
  BY DEF Init, ExecuteInv, ExecuteFacts, NoReport
<1>2. TypeOK /\ KindInv /\ ExecuteInv /\ [Next]_vars => ExecuteInv'
  <2> SUFFICES ASSUME TypeOK, KindInv, ExecuteInv, [Next]_vars,
                      NEW q \in Sessions
               PROVE  ExecuteFacts(q)'
    BY DEF ExecuteInv
  <2>1. ASSUME pc'[q] = pc[q], out'[q] = out[q], cmd'[q] = cmd[q], mem'[q] = mem[q]
        PROVE  ExecuteFacts(q)'
    BY <2>1 DEF ExecuteFacts, ExecuteInv
  <2>2. ASSUME NEW s \in Sessions, Step(s) PROVE ExecuteFacts(q)'
    <3>1. CASE q = s
      BY <2>2, <3>1, ExecuteStep DEF ExecuteInv
    <3>2. CASE q # s
      BY <2>1, <2>2, <3>2, StepFrame
    <3> QED BY <3>1, <3>2
  <2>3. ASSUME NEW s \in Sessions, NEW c \in Commands, Start(s, c) PROVE ExecuteFacts(q)'
    <3>1. CASE q = s
      <4>1. c.execute \in BOOLEAN
        BY CommandsAssumption DEF ValidCommand
      <4>2. CASE Preview(c)
        BY <2>3, <3>1, <4>1, <4>2, StartFrame DEF ExecuteFacts, Preview
      <4>3. CASE ~Preview(c)
        BY <2>3, <3>1, <4>3, StartFrame DEF ExecuteFacts, FirstCall, NoReport
      <4> QED BY <4>2, <4>3
    <3>2. CASE q # s
      BY <2>1, <2>3, <3>2, StartFrame
    <3> QED BY <3>1, <3>2
  <2>4. CASE UNCHANGED <<pc, cmd, mem, out>>
    BY <2>1, <2>4
  <2> QED
    BY <2>2, <2>3, <2>4 DEF Next, vars, CompleteMove, CompleteDirMove
<1>3. ExecuteInv => OkMeansStarted
  BY DEF ExecuteInv, ExecuteFacts, OkMeansStarted
<1> QED BY <1>1, <1>2, <1>3, TypeCorrect, KindInvariant, PTL DEF Spec

-----------------------------------------------------------------------------
(* What verify knows, when commands run one at a time *)

SerialInv == \A r, s \in Sessions : Running(r) /\ Running(s) => r = s

\* No throttle on what a clearing verify has already gone through.
CleanUpTo(s) ==
  /\ BrokersToClear(cmd[s]) \intersect (rate \union dirRate) \subseteq mem[s].brokers
  /\ \A x \in leaderThr \union followerThr :
       TopicOf[x[1]] \in TopicsToClear(cmd[s]) => TopicOf[x[1]] \in mem[s].topics

\* From its list to its end a verify over-estimates what is moving; this is what
\* makes the reads it joins, and the deletes it spreads over several calls, sound.
VerifyFacts(s) ==
  (cmd[s].kind = "verify" /\ pc[s] \in {"dirs", "describe", "current", "clear"}) =>
    /\ Moving \subseteq mem[s].active
    /\ (pc[s] # "dirs" /\ ~mem[s].busy) => cmd[s].dirs \intersect moving = {}
    /\ pc[s] = "clear" =>
         /\ mem[s].topics \union mem[s].brokers # {} => MayClear(cmd[s], mem[s])
         /\ MayClear(cmd[s], mem[s]) => CleanUpTo(s)
         /\ \A p \in out[s].complete : ongoing[p] = {} /\ assigned[p] = cmd[s].target[p]

VerifyInv == \A s \in Sessions : VerifyFacts(s)

LEMMA VerifyReads ==
  ASSUME TypeOK, KindInv, NEW s \in Sessions, VerifyFacts(s),
         ListRunning(s) \/ DescribeLogDirs(s) \/ DescribeForVerify(s)
  PROVE  VerifyFacts(s)'
<1>1. CASE ListRunning(s)
  <2>1. pc'[s] \notin {"describe", "current", "clear"}
    <3> DEFINE l == AfterList(cmd[s])
    <3>1. /\ cmd[s].kind = "execute" => l \in {"factors", "moves", "apply"}
          /\ cmd[s].kind = "verify" => l = "dirs"
          /\ cmd[s].kind \notin {"execute", "verify"} => l = "done"
      BY AfterListCases
    <3>2. pc'[s] = "done" \/ pc'[s] = l
      BY <1>1, ExitEffect, GotoEffect DEF ListRunning
    <3> HIDE DEF l
    <3> QED BY <3>1, <3>2
  <2>2. mem'[s].active = Moving
    <3>1. PICK x, y : mem' = [mem EXCEPT ![s].active = Moving, ![s].src = x, ![s].dst = y]
      BY <1>1 DEF ListRunning
    <3> QED BY <3>1 DEF TypeOK, Memory
  <2>3. Moving' = Moving
    BY <1>1 DEF ListRunning, cluster, Moving
  <2> QED BY <2>1, <2>2, <2>3 DEF VerifyFacts
<1>2. CASE DescribeLogDirs(s)
  <2> DEFINE busy == cmd[s].dirs \intersect moving # {}
  <2>1. pc'[s] = "describe" /\ pc[s] = "dirs" /\ cmd[s].kind = "verify"
    BY <1>2, GotoEffect DEF DescribeLogDirs, KindInv
  <2>2. mem'[s].active = mem[s].active /\ mem'[s].busy = busy
    <3>1. mem' = [mem EXCEPT ![s].busy = busy]
      BY <1>2 DEF DescribeLogDirs
    <3> HIDE DEF busy
    <3> QED BY <3>1 DEF TypeOK, Memory
  <2>3. Moving' = Moving /\ moving' = moving /\ cmd' = cmd
    BY <1>2 DEF DescribeLogDirs, cluster, Moving
  <2> QED BY <2>1, <2>2, <2>3 DEF VerifyFacts
<1>3. CASE DescribeForVerify(s)
  <2>1. pc'[s] = "current" /\ pc[s] = "describe" /\ cmd[s].kind = "verify"
    BY <1>3, GotoEffect DEF DescribeForVerify
  <2>2. Moving' = Moving /\ moving' = moving /\ cmd' = cmd /\ mem' = mem
    BY <1>3 DEF DescribeForVerify, cluster, Moving
  <2> QED BY <2>1, <2>2 DEF VerifyFacts
<1> QED BY <1>1, <1>2, <1>3

LEMMA VerifyStarts ==
  ASSUME TypeOK, KindInv, NEW s \in Sessions, VerifyFacts(s), ReadCurrent(s)
  PROVE  VerifyFacts(s)'
<1> DEFINE c == cmd[s]
           m == mem[s]
           clear == MayClear(c, m)
           ts == IF clear THEN TopicsToClear(c) ELSE {}
           bs == IF clear THEN BrokersToClear(c) ELSE {}
<1>1. pc'[s] = "clear" /\ pc[s] = "current" /\ c.kind = "verify" /\ cmd'[s] = c
  BY GotoEffect DEF ReadCurrent, KindInv
<1>2. /\ Moving \subseteq m.active
      /\ ~m.busy => c.dirs \intersect moving = {}
  BY <1>1 DEF VerifyFacts
<1>3. /\ mem'[s].active = m.active /\ mem'[s].busy = m.busy
      /\ mem'[s].topics = ts /\ mem'[s].brokers = bs
  <2>1. mem' = [mem EXCEPT ![s].topics = ts, ![s].brokers = bs]
    BY DEF ReadCurrent, PlanClear
  <2> HIDE DEF ts, bs
  <2> QED BY <2>1 DEF TypeOK, Memory
<1>4. out'[s].complete = Complete(c, m)
  <2>1. out' = [out EXCEPT ![s].complete = Complete(c, m)]
    BY DEF ReadCurrent
  <2> QED BY <2>1 DEF TypeOK, Report
<1>5. UNCHANGED <<assigned, ongoing, moving, rate, dirRate, leaderThr, followerThr, cmd>>
  BY DEF ReadCurrent, cluster, configs
<1>6. MayClear(c, mem'[s]) <=> clear
  BY <1>3 DEF MayClear
<1>7. \A p \in Complete(c, m) : ongoing[p] = {} /\ assigned[p] = c.target[p]
  <2>1. SUFFICES ASSUME NEW p \in Complete(c, m)
                 PROVE  ongoing[p] = {} /\ assigned[p] = c.target[p]
    OBVIOUS
  <2>2. p \in Partitions /\ p \notin m.active /\ Replicas(p) = c.target[p]
    BY ReportType DEF Complete, ValidCommand
  <2>3. ongoing[p] = {}
    BY <1>2, <2>2 DEF Moving
  <2> QED BY <2>2, <2>3 DEF Replicas
<1>8. clear => CleanUpTo(s)'
  BY <1>3, <1>5 DEF CleanUpTo
<1>9. Moving' = Moving
  BY <1>5 DEF Moving
<1>10. mem'[s].topics \union mem'[s].brokers # {} => clear
  BY <1>3
<1> HIDE DEF clear, ts, bs
<1> QED BY <1>1, <1>2, <1>3, <1>4, <1>5, <1>6, <1>7, <1>8, <1>9, <1>10 DEF VerifyFacts

LEMMA VerifyClears ==
  ASSUME TypeOK, NEW s \in Sessions, VerifyFacts(s), cmd[s].kind = "verify",
         \/ \E t \in Topics : ClearTopic(s, t)
         \/ \E b \in Brokers : ClearBroker(s, b)
  PROVE  VerifyFacts(s)'
<1>1. pc[s] = "clear" /\ cmd' = cmd /\ Moving' = Moving
      /\ UNCHANGED <<assigned, ongoing, moving>>
  BY DEF ClearTopic, ClearBroker, cluster, Moving
<1>2. pc'[s] = "done" \/ (pc'[s] = "clear" /\ out'[s] = out[s])
  BY AnswerEffect DEF ClearTopic, ClearBroker
<1>3. /\ mem'[s].active = mem[s].active /\ mem'[s].busy = mem[s].busy
      /\ mem'[s].topics \subseteq mem[s].topics
      /\ mem'[s].brokers \subseteq mem[s].brokers
  <2>1. ASSUME NEW t, mem' = [mem EXCEPT ![s].topics = @ \ {t}]
        PROVE  /\ mem'[s].active = mem[s].active /\ mem'[s].busy = mem[s].busy
               /\ mem'[s].topics = mem[s].topics \ {t} /\ mem'[s].brokers = mem[s].brokers
    BY <2>1 DEF TypeOK, Memory
  <2>2. ASSUME NEW b, mem' = [mem EXCEPT ![s].brokers = @ \ {b}]
        PROVE  /\ mem'[s].active = mem[s].active /\ mem'[s].busy = mem[s].busy
               /\ mem'[s].topics = mem[s].topics /\ mem'[s].brokers = mem[s].brokers \ {b}
    BY <2>2 DEF TypeOK, Memory
  <2> QED BY <2>1, <2>2 DEF ClearTopic, ClearBroker
<1>4. CleanUpTo(s) => CleanUpTo(s)'
  <2>1. SUFFICES ASSUME CleanUpTo(s) PROVE CleanUpTo(s)'
    OBVIOUS
  <2>2. ASSUME NEW t \in Topics, ClearTopic(s, t) PROVE CleanUpTo(s)'
    <3>1. mem'[s].topics = mem[s].topics \ {t} /\ mem'[s].brokers = mem[s].brokers
      <4>1. mem' = [mem EXCEPT ![s].topics = @ \ {t}]
        BY <2>2 DEF ClearTopic
      <4> QED BY <4>1 DEF TypeOK, Memory
    <3>2. UNCHANGED <<rate, dirRate, cmd>>
      BY <2>2 DEF ClearTopic
    <3>3. \A x \in leaderThr' \union followerThr' :
            x \in leaderThr \union followerThr /\ TopicOf[x[1]] # t
      BY <2>2 DEF ClearTopic, NotOfTopic
    <3> QED BY <2>1, <3>1, <3>2, <3>3 DEF CleanUpTo
  <2>3. ASSUME NEW b \in Brokers, ClearBroker(s, b) PROVE CleanUpTo(s)'
    <3>1. mem'[s].topics = mem[s].topics /\ mem'[s].brokers = mem[s].brokers \ {b}
      <4>1. mem' = [mem EXCEPT ![s].brokers = @ \ {b}]
        BY <2>3 DEF ClearBroker
      <4> QED BY <4>1 DEF TypeOK, Memory
    <3>2. UNCHANGED <<leaderThr, followerThr, cmd>> /\ rate' = rate \ {b}
          /\ dirRate' = dirRate \ {b}
      BY <2>3 DEF ClearBroker
    <3> QED BY <2>1, <3>1, <3>2 DEF CleanUpTo
  <2> QED BY <2>2, <2>3
<1>5. MayClear(cmd'[s], mem'[s]) <=> MayClear(cmd[s], mem[s])
  BY <1>1, <1>3 DEF MayClear
<1> QED BY <1>1, <1>2, <1>3, <1>4, <1>5 DEF VerifyFacts

LEMMA VerifyStep ==
  ASSUME TypeOK, KindInv, NEW s \in Sessions, VerifyFacts(s), Step(s)
  PROVE  VerifyFacts(s)'
<1>1. cmd'[s] = cmd[s]
  BY StepFrame
<1>2. CASE cmd[s].kind # "verify" \/ pc'[s] \notin {"dirs", "describe", "current", "clear"}
  BY <1>1, <1>2 DEF VerifyFacts
<1>3. CASE cmd[s].kind = "verify" /\ pc'[s] \in {"dirs", "describe", "current", "clear"}
  <2>1. ~(CheckFactors(s) \/ PlanMoves(s) \/ Alter(s) \/ Cancel(s) \/ DescribeForCancel(s))
    BY <1>3 DEF CheckFactors, PlanMoves, Alter, Cancel, DescribeForCancel, KindInv
  <2>2. ~(AlterUnanswered(s) \/ FinishExecute(s) \/ CancelUnanswered(s) \/ FinishClear(s)
          \/ CallFails(s))
    BY <1>3, ExitEffect DEF AlterUnanswered, FinishExecute, CancelUnanswered, FinishClear,
       CallFails
  <2>3. \A t \in Topics : ~ThrottleTopic(s, t)
    BY <1>3 DEF ThrottleTopic, KindInv
  <2>4. \A b \in Brokers : ~(ThrottleBroker(s, b) \/ ThrottleDirs(s, b) \/ AlterLogDirs(s, b))
    BY <1>3 DEF ThrottleBroker, ThrottleDirs, AlterLogDirs, KindInv
  <2> QED
    BY <1>3, <2>1, <2>2, <2>3, <2>4, VerifyReads, VerifyStarts, VerifyClears
       DEF Step, Execute, Clear
<1> QED BY <1>2, <1>3

LEMMA SerialInvariant == Serial /\ Spec => []SerialInv
<1> SUFFICES ASSUME Serial PROVE Spec => []SerialInv
  OBVIOUS
<1>1. Init => SerialInv
  BY DEF Init, SerialInv, Running
<1>2. TypeOK /\ SerialInv /\ [Next]_vars => SerialInv'
  <2> SUFFICES ASSUME TypeOK, SerialInv, [Next]_vars PROVE SerialInv'
    OBVIOUS
  <2>1. ASSUME NEW s \in Sessions, Step(s) PROVE SerialInv'
    BY <2>1, StepFrame DEF SerialInv, Running
  <2>2. ASSUME NEW s \in Sessions, NEW c \in Commands, Start(s, c) PROVE SerialInv'
    <3>1. \A r \in Sessions : ~Running(r)
      BY <2>2 DEF Start
    <3> QED BY <2>2, <3>1, StartFrame DEF SerialInv, Running
  <2>3. CASE UNCHANGED pc
    BY <2>3 DEF SerialInv, Running
  <2> QED BY <2>1, <2>2, <2>3 DEF Next, vars, CompleteMove, CompleteDirMove
<1> QED BY <1>1, <1>2, TypeCorrect, PTL DEF Spec

LEMMA VerifyInvariant == Serial /\ Spec => []VerifyInv
<1> SUFFICES ASSUME Serial PROVE Spec => []VerifyInv
  OBVIOUS
<1>1. Init => VerifyInv
  BY DEF Init, VerifyInv, VerifyFacts
<1>2. TypeOK /\ KindInv /\ SerialInv /\ VerifyInv /\ [Next]_vars => VerifyInv'
  <2> SUFFICES ASSUME TypeOK, KindInv, SerialInv, VerifyInv, [Next]_vars,
                      NEW q \in Sessions
               PROVE  VerifyFacts(q)'
    BY DEF VerifyInv
  <2>1. ASSUME pc'[q] \in {"idle", "done", "list", "cancel"} PROVE VerifyFacts(q)'
    BY <2>1 DEF VerifyFacts
  <2>2. ASSUME NEW s \in Sessions, Step(s) PROVE VerifyFacts(q)'
    <3>1. CASE q = s
      BY <2>2, <3>1, VerifyStep DEF VerifyInv
    <3>2. CASE q # s
      BY <2>1, <2>2, <3>2, StepFrame DEF SerialInv, Running
    <3> QED BY <3>1, <3>2
  <2>3. ASSUME NEW s \in Sessions, NEW c \in Commands, Start(s, c) PROVE VerifyFacts(q)'
    <3>1. ~Running(q) /\ pc'[s] \in {"done", "list", "cancel"}
      BY <2>3, StartFrame DEF Start, FirstCall
    <3>2. q # s => pc'[q] = pc[q]
      BY <2>3, StartFrame
    <3> QED BY <2>1, <3>1, <3>2 DEF Running
  <2>4. ASSUME NEW p \in Partitions, CompleteMove(p) PROVE VerifyFacts(q)'
    <3>1. UNCHANGED <<pc, cmd, mem, out, moving, rate, dirRate, leaderThr, followerThr>>
      BY <2>4 DEF CompleteMove, configs
    <3>2. Moving' \subseteq Moving
      BY <2>4 DEF CompleteMove, Moving, TypeOK
    <3>3. \A x \in Partitions : ongoing[x] = {} => assigned'[x] = assigned[x] /\ ongoing'[x] = {}
      BY <2>4 DEF CompleteMove, TypeOK
    <3>4. out[q].complete \subseteq Partitions
      BY ReportType DEF Report
    <3>5. CleanUpTo(q)' <=> CleanUpTo(q)
      BY <3>1 DEF CleanUpTo
    <3> QED BY <3>1, <3>2, <3>3, <3>4, <3>5 DEF VerifyFacts, VerifyInv
  <2>5. ASSUME NEW d \in Pairs, CompleteDirMove(d) PROVE VerifyFacts(q)'
    <3>1. UNCHANGED <<pc, cmd, mem, out, assigned, ongoing, rate, dirRate, leaderThr, followerThr>>
      BY <2>5 DEF CompleteDirMove, configs, cluster
    <3>2. moving' \subseteq moving /\ Moving' = Moving
      BY <2>5, <3>1 DEF CompleteDirMove, Moving
    <3>3. CleanUpTo(q)' <=> CleanUpTo(q)
      BY <3>1 DEF CleanUpTo
    <3> QED BY <3>1, <3>2, <3>3 DEF VerifyFacts, VerifyInv
  <2>6. CASE UNCHANGED vars
    <3>1. CleanUpTo(q)' <=> CleanUpTo(q)
      BY <2>6 DEF CleanUpTo, vars
    <3> QED BY <2>6, <3>1 DEF VerifyFacts, VerifyInv, vars, Moving
  <2> QED BY <2>2, <2>3, <2>4, <2>5, <2>6 DEF Next
<1> QED BY <1>1, <1>2, TypeCorrect, KindInvariant, SerialInvariant, PTL DEF Spec

\* Used serially, verify lifts throttles only while nothing is being moved.
THEOREM VerifySafe == Serial /\ Spec => []VerifyClearsOnlyWhenIdle
<1>1. VerifyInv => VerifyClearsOnlyWhenIdle
  BY DEF VerifyInv, VerifyFacts, VerifyClearsOnlyWhenIdle, MayClear
<1> QED BY <1>1, VerifyInvariant, PTL

\* Used serially, verify reports only partitions that are at their target.
THEOREM CompletedSound == Serial /\ Spec => []CompletedIsSettled
<1>1. VerifyInv => CompletedIsSettled
  BY DEF VerifyInv, VerifyFacts, CompletedIsSettled
<1> QED BY <1>1, VerifyInvariant, PTL

\* Used serially, a verify that found nothing moving has lifted every throttle
\* of its plan's topics and of the cluster's brokers when it ends.
THEOREM VerifyCleans == Serial /\ Spec => []VerifiedIsClean
<1>1. VerifyInv => VerifiedIsClean
  BY DEF VerifyInv, VerifyFacts, VerifiedIsClean, CleanUpTo, BrokersToClear
<1> QED BY <1>1, VerifyInvariant, PTL
-----------------------------------------------------------------------------
(* Throttled moves stay throttled *)

\* What an execute has read of the moves that run: their new replicas are all among the
\* destinations, and nothing is known of other partitions.
KnowsMoves(s) ==
  /\ \A x \in mem[s].src \union mem[s].dst : x[1] \in mem[s].active
  /\ \A x \in Pairs : x[2] \in Adding(x[1]) => x \in mem[s].dst

\* What it has planned and not yet written: the move map covers the plan and the moves
\* beside it, and each of its pairs has been throttled or is still to be.
CoversMoves(s) ==
  /\ \A x \in Pairs : x[1] \in cmd[s].parts \ mem[s].active =>
       /\ x[2] \in assigned[x[1]] => x \in mem[s].src
       /\ x[2] \in cmd[s].target[x[1]] \ assigned[x[1]] => x \in mem[s].dst
  /\ \A x \in Pairs : x[1] \notin cmd[s].parts /\ x[2] \in Adding(x[1]) => x \in mem[s].dst
  /\ \A x \in mem[s].src : TopicOf[x[1]] \in mem[s].topics \/ x \in leaderThr
  /\ \A x \in mem[s].dst : TopicOf[x[1]] \in mem[s].topics \/ x \in followerThr
  /\ \A x \in mem[s].src \union mem[s].dst : x[2] \in mem[s].brokers \/ x[2] \in rate

\* Why MovesStayThrottled is more than its own step: the lists an execute writes were
\* made two calls earlier, of a list read one call before that.
ThrottleFacts(s) ==
  /\ pc[s] \in {"list", "factors", "moves", "apply"} => out[s].accepted = {}
  /\ pc[s] \in {"list", "factors", "moves"} => mem[s].topics = {}
  /\ pc[s] = "apply" /\ ~ cmd[s].throttle => mem[s].topics = {}
  /\ pc[s] \in {"factors", "moves", "apply"} => Moving \subseteq mem[s].active
  /\ pc[s] \in {"factors", "moves"} => KnowsMoves(s)
  /\ pc[s] = "apply" /\ cmd[s].throttle => CoversMoves(s)

ThrottleInv == \A s \in Sessions : ThrottleFacts(s)

LEMMA ThrottleList ==
  ASSUME TypeOK, KindInv, NEW s \in Sessions, ThrottleFacts(s), ListRunning(s)
  PROVE  ThrottleFacts(s)'
<1> DEFINE l == AfterList(cmd[s])
           src == {x \in Pairs : x[1] \in Moving /\ x[2] \in assigned[x[1]]}
           dst == {x \in Pairs : x[1] \in Moving /\ x[2] \in Adding(x[1])}
<1>1. pc[s] = "list" /\ UNCHANGED <<assigned, ongoing, cmd>>
  BY DEF ListRunning, cluster
<1>2. /\ mem'[s].active = Moving /\ mem'[s].src = src /\ mem'[s].dst = dst
      /\ mem'[s].topics = mem[s].topics
  <2>1. mem' = [mem EXCEPT ![s].active = Moving, ![s].src = src, ![s].dst = dst]
    BY DEF ListRunning
  <2> HIDE DEF src, dst
  <2> QED BY <2>1 DEF TypeOK, Memory
<1>3. CASE pc'[s] = "done"
  BY <1>3 DEF ThrottleFacts
<1>4. CASE pc'[s] # "done"
  <2>1. /\ pc'[s] = l
        /\ out' = [out EXCEPT ![s].exit = IF cmd[s].kind = "list" THEN "ok" ELSE @]
    BY <1>4, ExitEffect, GotoEffect DEF ListRunning
  <2>2. out'[s].accepted = {}
    <3>1. PICK e : out' = [out EXCEPT ![s].exit = e]
      BY <2>1
    <3>2. out'[s].accepted = out[s].accepted
      BY <3>1 DEF TypeOK, Report
    <3> QED BY <1>1, <3>2 DEF ThrottleFacts
  <2>3. mem[s].topics = {}
    BY <1>1 DEF ThrottleFacts
  <2>4. Moving' = Moving /\ \A p : Adding(p)' = Adding(p)
    BY <1>1 DEF Moving, Adding
  <2>5. \A x \in Pairs : x[2] \in Adding(x[1]) => x \in dst
    BY DEF Adding, Moving, Pairs
  <2>6. KnowsMoves(s)'
    BY <1>2, <2>3, <2>4, <2>5 DEF KnowsMoves
  <2>7. l = "apply" => ~ cmd[s].throttle
    BY DEF AfterList, AfterFactors
  <2> HIDE DEF l
  <2> QED BY <1>1, <1>2, <2>1, <2>2, <2>3, <2>4, <2>6, <2>7 DEF ThrottleFacts
<1> QED BY <1>3, <1>4

LEMMA ThrottlePlan ==
  ASSUME TypeOK, KindInv, NEW s \in Sessions, ThrottleFacts(s), PlanMoves(s)
  PROVE  ThrottleFacts(s)'
<1> DEFINE c == cmd[s]
           m == mem[s]
           x1 == Sources(c, m)
           x2 == Destinations(c, m)
           ts == TopicsToThrottle(c, m)
           bs == BrokersToThrottle(c, m)
           ds == IF c.dirThrottle THEN DirBrokers(c) ELSE {}
<1>1. /\ pc[s] = "moves" /\ UNCHANGED <<assigned, ongoing, cmd, leaderThr, followerThr, rate>>
      /\ Moving \subseteq m.active /\ out[s].accepted = {} /\ KnowsMoves(s)
  BY DEF PlanMoves, cluster, configs, ThrottleFacts
<1>2. CASE pc'[s] = "done"
  BY <1>2 DEF ThrottleFacts
<1>3. CASE pc'[s] # "done"
  <2>1. /\ pc'[s] = "apply" /\ out' = out
        /\ mem' = [mem EXCEPT ![s].src = x1, ![s].dst = x2, ![s].topics = ts,
                              ![s].brokers = bs, ![s].dirs = ds]
    BY <1>3, ExitEffect, GotoEffect DEF PlanMoves
  <2>2. /\ mem'[s].src = x1 /\ mem'[s].dst = x2 /\ mem'[s].topics = ts
        /\ mem'[s].brokers = bs /\ mem'[s].active = m.active
    <3> HIDE DEF x1, x2, ts, bs, ds
    <3> QED BY <2>1 DEF TypeOK, Memory
  <2>3. Moving' = Moving /\ \A p : Adding(p)' = Adding(p)
    BY <1>1 DEF Moving, Adding
  <2>4. ~ c.throttle => ts = {}
    BY DEF TopicsToThrottle
  <2>5. ASSUME c.throttle PROVE CoversMoves(s)'
    <3>1. /\ c.parts \subseteq Partitions /\ m.active \subseteq Partitions
          /\ m.src \subseteq Pairs /\ m.dst \subseteq Pairs
      BY ReportType DEF ValidCommand, Memory
    <3>2. ASSUME NEW x \in Pairs, x[1] \in c.parts \ m.active
          PROVE  /\ x[2] \in assigned[x[1]] => x \in x1
                 /\ x[2] \in c.target[x[1]] \ assigned[x[1]] => x \in x2
      <4>1. ongoing[x[1]] = {}
        BY <1>1, <3>1, <3>2 DEF Moving
      <4>2. Replicas(x[1]) = assigned[x[1]]
        BY <4>1 DEF Replicas
      <4>3. x \notin m.src
        BY <1>1, <3>2 DEF KnowsMoves
      <4>4. x \in Sources(c, m) <=> x[2] \in assigned[x[1]]
        BY <3>2, <4>2, <4>3 DEF Sources
      <4> QED BY <3>2, <4>4 DEF Destinations
    <3>3. ASSUME NEW x \in Pairs, x[1] \notin c.parts, x[2] \in Adding(x[1])
          PROVE  x \in x2
      BY <1>1, <3>3 DEF KnowsMoves, Destinations
    <3>4. \A x \in x1 \union x2 : x[1] \in m.active \union c.parts
      BY <1>1, <3>1 DEF Sources, Destinations, KnowsMoves
    <3>5. \A x \in x1 \union x2 : TopicOf[x[1]] \in ts
      BY <2>5, <3>4 DEF TopicsToThrottle
    <3>6. \A x \in x1 \union x2 : x[2] \in bs
      BY <2>5 DEF BrokersToThrottle
    <3> HIDE DEF x1, x2, ts, bs
    <3> QED BY <1>1, <2>2, <2>3, <3>2, <3>3, <3>5, <3>6 DEF CoversMoves
  <2> HIDE DEF ts
  <2> QED BY <1>1, <2>1, <2>2, <2>3, <2>4, <2>5 DEF ThrottleFacts
<1> QED BY <1>2, <1>3

LEMMA ThrottleWrite ==
  ASSUME TypeOK, NEW s \in Sessions, ThrottleFacts(s),
         \/ \E t \in Topics : ThrottleTopic(s, t)
         \/ \E b \in Brokers : ThrottleBroker(s, b) \/ ThrottleDirs(s, b)
  PROVE  ThrottleFacts(s)'
<1>1. pc[s] = "apply" /\ UNCHANGED <<assigned, ongoing, cmd>>
  BY DEF ThrottleTopic, ThrottleBroker, ThrottleDirs, cluster
<1>2. pc'[s] = "done" \/ (pc'[s] = "apply" /\ out'[s] = out[s])
  BY AnswerEffect DEF ThrottleTopic, ThrottleBroker, ThrottleDirs
<1>3. Moving' = Moving /\ \A p : Adding(p)' = Adding(p)
  BY <1>1 DEF Moving, Adding
<1>4. ASSUME NEW t \in Topics, ThrottleTopic(s, t)
      PROVE  /\ mem'[s].active = mem[s].active /\ mem'[s].src = mem[s].src
             /\ mem'[s].dst = mem[s].dst /\ mem'[s].topics = mem[s].topics \ {t}
             /\ mem'[s].brokers = mem[s].brokers /\ rate' = rate
  <2>1. mem' = [mem EXCEPT ![s].topics = @ \ {t}]
    BY <1>4 DEF ThrottleTopic
  <2> QED BY <1>4, <2>1 DEF TypeOK, Memory, ThrottleTopic
<1>5. ASSUME NEW b \in Brokers, ThrottleBroker(s, b)
      PROVE  /\ mem'[s].active = mem[s].active /\ mem'[s].src = mem[s].src
             /\ mem'[s].dst = mem[s].dst /\ mem'[s].topics = mem[s].topics
             /\ mem'[s].brokers = mem[s].brokers \ {b} /\ rate' = rate \union {b}
             /\ leaderThr' = leaderThr /\ followerThr' = followerThr
  <2>1. mem' = [mem EXCEPT ![s].brokers = @ \ {b}]
    BY <1>5 DEF ThrottleBroker
  <2> QED BY <1>5, <2>1 DEF TypeOK, Memory, ThrottleBroker
<1>6. ASSUME NEW b \in Brokers, ThrottleDirs(s, b)
      PROVE  /\ mem'[s].active = mem[s].active /\ mem'[s].src = mem[s].src
             /\ mem'[s].dst = mem[s].dst /\ mem'[s].topics = mem[s].topics
             /\ mem'[s].brokers = mem[s].brokers /\ rate' = rate
             /\ leaderThr' = leaderThr /\ followerThr' = followerThr
  <2>1. mem' = [mem EXCEPT ![s].dirs = @ \ {b}]
    BY <1>6 DEF ThrottleDirs
  <2> QED BY <1>6, <2>1 DEF TypeOK, Memory, ThrottleDirs
<1>7. mem'[s].active = mem[s].active /\ mem'[s].topics \subseteq mem[s].topics
  BY <1>4, <1>5, <1>6
<1>8. ASSUME cmd[s].throttle PROVE CoversMoves(s)'
  <2>1. CoversMoves(s)
    BY <1>1, <1>8 DEF ThrottleFacts
  <2>2. ASSUME NEW t \in Topics, ThrottleTopic(s, t) PROVE CoversMoves(s)'
    <3>1. ASSUME NEW x \in mem[s].src PROVE TopicOf[x[1]] \in mem[s].topics \ {t} \/ x \in leaderThr'
      BY <2>1, <2>2, <3>1 DEF CoversMoves, ThrottleTopic, OfTopic, NotOfTopic
    <3>2. ASSUME NEW x \in mem[s].dst PROVE TopicOf[x[1]] \in mem[s].topics \ {t} \/ x \in followerThr'
      BY <2>1, <2>2, <3>2 DEF CoversMoves, ThrottleTopic, OfTopic, NotOfTopic
    <3> QED BY <1>1, <1>3, <1>4, <2>1, <2>2, <3>1, <3>2 DEF CoversMoves
  <2>3. ASSUME NEW b \in Brokers, ThrottleBroker(s, b) PROVE CoversMoves(s)'
    BY <1>1, <1>3, <1>5, <2>1, <2>3 DEF CoversMoves
  <2>4. ASSUME NEW b \in Brokers, ThrottleDirs(s, b) PROVE CoversMoves(s)'
    BY <1>1, <1>3, <1>6, <2>1, <2>4 DEF CoversMoves
  <2> QED BY <2>2, <2>3, <2>4
<1> QED BY <1>1, <1>2, <1>3, <1>7, <1>8 DEF ThrottleFacts

LEMMA ThrottleStep ==
  ASSUME TypeOK, KindInv, NEW s \in Sessions, ThrottleFacts(s), Step(s)
  PROVE  ThrottleFacts(s)'
<1>1. CASE pc'[s] \notin {"list", "factors", "moves", "apply"}
  BY <1>1 DEF ThrottleFacts
<1>2. CASE pc'[s] \in {"list", "factors", "moves", "apply"}
  <2>1. ~ (AlterUnanswered(s) \/ FinishExecute(s) \/ CancelUnanswered(s) \/ FinishClear(s)
           \/ CallFails(s))
    BY <1>2, ExitEffect DEF AlterUnanswered, FinishExecute, CancelUnanswered, FinishClear, CallFails
  <2>2. ~ (Cancel(s) \/ DescribeForCancel(s) \/ DescribeLogDirs(s) \/ DescribeForVerify(s)
           \/ ReadCurrent(s) \/ Alter(s))
    <3>1. ~ (Cancel(s) \/ DescribeLogDirs(s) \/ DescribeForVerify(s) \/ ReadCurrent(s))
      BY <1>2, GotoEffect DEF Cancel, DescribeLogDirs, DescribeForVerify, ReadCurrent
    <3>2. ~ DescribeForCancel(s)
      BY <1>2, ExitEffect, GotoEffect DEF DescribeForCancel
    <3>3. ASSUME Alter(s) PROVE FALSE
      <4>1. PICK r : Exit(s, r) \/ Goto(s, "logDirs")
        BY <3>3 DEF Alter
      <4> QED BY <1>2, <4>1, ExitEffect, GotoEffect
    <3> QED BY <3>1, <3>2, <3>3
  <2>3. \A t \in Topics : ~ ClearTopic(s, t)
    BY <1>2, AnswerEffect DEF ClearTopic
  <2>4. \A b \in Brokers : ~ (ClearBroker(s, b) \/ AlterLogDirs(s, b))
    BY <1>2, AnswerEffect, ExitEffect DEF ClearBroker, AlterLogDirs
  <2>5. CASE CheckFactors(s)
    <3>1. /\ pc[s] = "factors" /\ out'[s] = out[s]
          /\ pc'[s] = AfterFactors(cmd[s])
          /\ UNCHANGED <<assigned, ongoing, cmd, mem, leaderThr, followerThr, rate>>
      BY <1>2, <2>5, ExitEffect, GotoEffect DEF CheckFactors, cluster, configs
    <3>2. \/ pc'[s] = "moves"
          \/ pc'[s] = "apply" /\ ~ cmd[s].throttle
      BY <3>1 DEF AfterFactors
    <3>3. Moving' = Moving /\ \A p : Adding(p)' = Adding(p)
      BY <3>1 DEF Moving, Adding
    <3>4. KnowsMoves(s)'
      BY <3>1, <3>3 DEF KnowsMoves, ThrottleFacts
    <3> QED BY <3>1, <3>2, <3>3, <3>4 DEF ThrottleFacts
  <2> QED
    BY <2>1, <2>2, <2>3, <2>4, <2>5, ThrottleList, ThrottlePlan, ThrottleWrite
       DEF Step, Execute, Clear
<1> QED BY <1>1, <1>2

LEMMA ThrottleInvariant == Serial /\ Spec => []ThrottleInv
<1> SUFFICES ASSUME Serial PROVE Spec => []ThrottleInv
  OBVIOUS
<1>1. Init => ThrottleInv
  BY DEF Init, ThrottleInv, ThrottleFacts
<1>2. TypeOK /\ KindInv /\ SerialInv /\ ThrottleInv /\ [Next]_vars => ThrottleInv'
  <2> SUFFICES ASSUME TypeOK, KindInv, SerialInv, ThrottleInv, [Next]_vars,
                      NEW q \in Sessions
               PROVE  ThrottleFacts(q)'
    BY DEF ThrottleInv
  <2>1. ASSUME pc'[q] \in {"idle", "done", "cancel"} PROVE ThrottleFacts(q)'
    BY <2>1 DEF ThrottleFacts
  <2>2. ASSUME NEW s \in Sessions, Step(s) PROVE ThrottleFacts(q)'
    <3>1. CASE q = s
      BY <2>2, <3>1, ThrottleStep DEF ThrottleInv
    <3>2. CASE q # s
      BY <2>1, <2>2, <3>2, StepFrame DEF SerialInv, Running
    <3> QED BY <3>1, <3>2
  <2>3. ASSUME NEW s \in Sessions, NEW c \in Commands, Start(s, c) PROVE ThrottleFacts(q)'
    <3>1. ~ Running(q)
      BY <2>3 DEF Start
    <3>2. CASE q # s
      BY <2>1, <2>3, <3>1, <3>2, StartFrame DEF Running
    <3>3. CASE q = s
      <4>1. pc'[s] \in {"done", "list", "cancel"}
        BY <2>3, StartFrame DEF FirstCall
      <4>2. out'[s].accepted = {} /\ mem'[s].topics = {}
        BY <2>3, StartFrame DEF NoReport, NoMemory
      <4> QED BY <3>3, <4>1, <4>2 DEF ThrottleFacts
    <3> QED BY <3>2, <3>3
  <2>4. ASSUME NEW p \in Partitions, CompleteMove(p) PROVE ThrottleFacts(q)'
    <3>1. UNCHANGED <<pc, cmd, mem, out, leaderThr, followerThr, rate>>
      BY <2>4 DEF CompleteMove, configs
    <3>2. Moving' \subseteq Moving
      BY <2>4 DEF CompleteMove, Moving, TypeOK
    <3>3. p \in Moving /\ \A x \in Partitions \ Moving : assigned'[x] = assigned[x]
      BY <2>4 DEF CompleteMove, Moving, TypeOK
    <3>4. \A x \in Partitions : Adding(x)' \subseteq Adding(x)
      BY <2>4 DEF CompleteMove, Adding, TypeOK
    <3>5. ThrottleFacts(q)
      BY DEF ThrottleInv
    <3>6. KnowsMoves(q) => KnowsMoves(q)'
      BY <3>1, <3>4 DEF KnowsMoves, Pairs
    <3>7. Moving \subseteq mem[q].active /\ CoversMoves(q) => CoversMoves(q)'
      BY <3>1, <3>3, <3>4 DEF CoversMoves, Pairs
    <3> QED BY <3>1, <3>2, <3>5, <3>6, <3>7 DEF ThrottleFacts
  <2>5. CASE UNCHANGED <<pc, cmd, mem, out, assigned, ongoing, leaderThr, followerThr, rate>>
    <3>1. Moving' = Moving /\ \A p : Adding(p)' = Adding(p)
      BY <2>5 DEF Moving, Adding
    <3>2. (KnowsMoves(q) => KnowsMoves(q)') /\ (CoversMoves(q) => CoversMoves(q)')
      BY <2>5, <3>1 DEF KnowsMoves, CoversMoves
    <3> QED BY <2>5, <3>1, <3>2 DEF ThrottleFacts, ThrottleInv
  <2> QED
    BY <2>2, <2>3, <2>4, <2>5 DEF Next, vars, CompleteDirMove, cluster, configs
<1> QED BY <1>1, <1>2, TypeCorrect, KindInvariant, SerialInvariant, PTL DEF Spec

\* Used serially, a throttled execute holds back the moves it starts from their first
\* byte, and the topic lists it replaces keep those of the moves beside its plan.
THEOREM MovesThrottled == Serial /\ Spec => MovesStayThrottled
<1> SUFFICES ASSUME Serial PROVE Spec => MovesStayThrottled
  OBVIOUS
<1> DEFINE Inv == TypeOK /\ KindInv /\ SerialInv /\ ThrottleInv
<1>1. Inv /\ [Next]_vars => ThrottledFromStart /\ OthersStayThrottled
  <2> SUFFICES ASSUME TypeOK, KindInv, SerialInv, ThrottleInv, [Next]_vars
               PROVE  ThrottledFromStart /\ OthersStayThrottled
    OBVIOUS
  <2>1. ASSUME out' = out \/ \A s \in Sessions : pc[s] # "apply" \/ out'[s].accepted = out[s].accepted
        PROVE  ThrottledFromStart
    BY <2>1 DEF ThrottledFromStart, Starts, ThrottleInv, ThrottleFacts
  <2>2. ASSUME followerThr' = followerThr PROVE OthersStayThrottled
    BY <2>2 DEF OthersStayThrottled
  <2>3. ASSUME NEW s \in Sessions, Step(s) PROVE ThrottledFromStart /\ OthersStayThrottled
    <3>1. \A q \in Sessions \ {s} : pc[q] # "apply"
      BY <2>3, StepFrame DEF SerialInv, Running
    <3>2. CASE pc[s] # "apply"
      BY <3>1, <3>2 DEF ThrottledFromStart, OthersStayThrottled, Starts
    <3>3. CASE Alter(s) \/ AlterUnanswered(s)
      <4>1. /\ pc[s] = "apply" /\ Throttled(mem[s])
            /\ UNCHANGED <<assigned, leaderThr, followerThr, rate>>
            /\ \E parts : StartMoves(parts, cmd[s].target)
        BY <3>3 DEF Alter, AlterUnanswered, configs
      <4>2. ThrottleFacts(s)
        BY DEF ThrottleInv
      <4>3. \A p \in out'[s].accepted : p \in cmd[s].parts
        <5> DEFINE R(x, y) == [out[s] EXCEPT !.accepted = x, !.failed = y]
        <5>1. PICK x, y, z :
                /\ x \in SUBSET cmd[s].parts
                /\ \/ out' = [out EXCEPT ![s] = R(x, y)]
                   \/ out' = [out EXCEPT ![s] = [R(x, y) EXCEPT !.exit = z]]
                   \/ out' = [out EXCEPT ![s] = [Failed(s) EXCEPT !.accepted = x]]
          <6>1. CASE Alter(s)
            <7>1. PICK refused \in SUBSET cmd[s].parts, failed \in 0..Cardinality(cmd[s].parts) :
                    \/ Exit(s, [R(cmd[s].parts \ refused, failed) EXCEPT !.exit = "partial"])
                    \/ Exit(s, [R(cmd[s].parts \ refused, failed) EXCEPT !.exit = "ok"])
                    \/ out' = [out EXCEPT ![s] = R(cmd[s].parts \ refused, failed)]
              BY <6>1 DEF Alter
            <7>2. cmd[s].parts \ refused \in SUBSET cmd[s].parts
              OBVIOUS
            <7> HIDE DEF R
            <7> QED BY <7>1, <7>2 DEF Exit
          <6>2. CASE AlterUnanswered(s)
            <7>1. {p \in cmd[s].parts : assigned[p] # {}} \in SUBSET cmd[s].parts
              OBVIOUS
            <7> HIDE DEF R
            <7> QED BY <6>2, <7>1 DEF AlterUnanswered, Exit
          <6> QED BY <3>3, <6>1, <6>2
        <5>2. out \in [Sessions -> Report] /\ out[s] \in Report /\ Failed(s) \in Report
          BY ReportType DEF TypeOK
        <5>3. out'[s].accepted = x
          BY <5>1, <5>2 DEF Report
        <5> QED BY <5>1, <5>3
      <4>4. ASSUME NEW p \in Partitions, p \in cmd[s].parts \ mem[s].active, cmd[s].throttle
            PROVE  /\ \A b \in Adding(p)' : <<p, b>> \in followerThr /\ b \in rate
                   /\ \A b \in assigned[p] : <<p, b>> \in leaderThr /\ b \in rate
        <5>1. CoversMoves(s) /\ Moving \subseteq mem[s].active
          BY <4>1, <4>2, <4>4 DEF ThrottleFacts
        <5>2. mem[s].topics = {} /\ mem[s].brokers = {}
          BY <4>1 DEF Throttled
        <5>3. ongoing[p] = {} /\ cmd[s].target[p] \subseteq Brokers /\ assigned[p] \subseteq Brokers
          BY <4>4, <5>1, ReportType DEF Moving, ValidCommand, TypeOK
        <5>4. Adding(p)' \subseteq cmd[s].target[p] \ assigned[p]
          BY <4>1, <5>3 DEF Adding, StartMoves
        <5>5. ASSUME NEW b \in Brokers
              PROVE  <<p, b>> \in Pairs /\ <<p, b>>[1] = p /\ <<p, b>>[2] = b
          BY DEF Pairs
        <5>6. ASSUME NEW b \in assigned[p] PROVE <<p, b>> \in leaderThr /\ b \in rate
          <6>1. <<p, b>> \in mem[s].src
            BY <4>4, <5>1, <5>3, <5>5 DEF CoversMoves
          <6> QED BY <5>1, <5>2, <5>3, <5>5, <6>1 DEF CoversMoves
        <5>7. ASSUME NEW b \in cmd[s].target[p] \ assigned[p] PROVE <<p, b>> \in followerThr /\ b \in rate
          <6>1. <<p, b>> \in mem[s].dst
            BY <4>4, <5>1, <5>3, <5>5 DEF CoversMoves
          <6> QED BY <5>1, <5>2, <5>3, <5>5, <6>1 DEF CoversMoves
        <5> QED BY <5>4, <5>6, <5>7
      <4>5. ThrottledFromStart
        BY <3>1, <4>3, <4>4 DEF ThrottledFromStart, Starts
      <4> QED BY <2>2, <4>1, <4>5
    <3>4. ASSUME pc[s] = "apply", ~ (Alter(s) \/ AlterUnanswered(s))
          PROVE  ThrottledFromStart /\ OthersStayThrottled
      <4>1. ASSUME out'[s] = out[s] \/ out'[s] = Failed(s) PROVE ThrottledFromStart
        <5>1. out'[s].accepted = out[s].accepted
          BY <4>1, ReportType DEF Failed, Report
        <5> QED BY <2>1, <3>1, <5>1
      <4>2. ASSUME NEW t \in Topics, ThrottleTopic(s, t)
            PROVE  ThrottledFromStart /\ OthersStayThrottled
        <5>1. ThrottledFromStart
          BY <4>1, <4>2, AnswerEffect DEF ThrottleTopic
        <5>2. CoversMoves(s)
          BY <3>4, <4>2 DEF ThrottleTopic, ThrottleInv, ThrottleFacts
        <5>3. ASSUME NEW x \in Pairs, x \in followerThr, x[1] \notin cmd[s].parts,
                     x[2] \in Adding(x[1])
              PROVE  x \in followerThr'
          BY <4>2, <5>2, <5>3 DEF CoversMoves, ThrottleTopic, OfTopic, NotOfTopic
        <5> QED BY <3>1, <5>1, <5>3 DEF OthersStayThrottled
      <4>3. ASSUME NEW b \in Brokers, ThrottleBroker(s, b) \/ ThrottleDirs(s, b)
            PROVE  ThrottledFromStart /\ OthersStayThrottled
        BY <2>2, <4>1, <4>3, AnswerEffect DEF ThrottleBroker, ThrottleDirs
      <4>4. CASE CallFails(s)
        BY <2>2, <4>1, <4>4, ExitEffect DEF CallFails, configs
      <4>5. ~ (ListRunning(s) \/ CheckFactors(s) \/ PlanMoves(s) \/ FinishExecute(s) \/ Cancel(s)
               \/ CancelUnanswered(s) \/ DescribeForCancel(s) \/ DescribeLogDirs(s)
               \/ DescribeForVerify(s) \/ ReadCurrent(s) \/ Clear(s))
        BY <3>4 DEF ListRunning, CheckFactors, PlanMoves, FinishExecute, Cancel, CancelUnanswered,
           DescribeForCancel, DescribeLogDirs, DescribeForVerify, ReadCurrent, Clear,
           ClearTopic, ClearBroker, FinishClear
      <4>6. \A b \in Brokers : ~ AlterLogDirs(s, b)
        BY <3>4 DEF AlterLogDirs
      <4> QED BY <2>3, <3>4, <4>2, <4>3, <4>4, <4>5, <4>6 DEF Step, Execute
    <3> QED BY <3>2, <3>3, <3>4
  <2>4. ASSUME NEW s \in Sessions, NEW c \in Commands, Start(s, c)
        PROVE  ThrottledFromStart /\ OthersStayThrottled
    <3>1. \A q \in Sessions : pc[q] # "apply"
      BY <2>4 DEF Start, Running
    <3> QED BY <3>1 DEF ThrottledFromStart, OthersStayThrottled, Starts
  <2>5. CASE UNCHANGED <<out, followerThr>>
    BY <2>1, <2>2, <2>5
  <2> QED
    BY <2>3, <2>4, <2>5 DEF Next, vars, CompleteMove, CompleteDirMove, configs
<1>2. Spec => []Inv
  BY TypeCorrect, KindInvariant, SerialInvariant, ThrottleInvariant, PTL
<1> HIDE DEF Inv
<1> QED BY <1>1, <1>2, PTL DEF Spec, MovesStayThrottled
=============================================================================

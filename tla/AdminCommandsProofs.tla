------------------------- MODULE AdminCommandsProofs -------------------------
(***************************************************************************)
(* The administrative commands implement AdminContract, keep their types,  *)
(* describe what there is, can be repeated once they were done and leave   *)
(* nothing of what they undo, for every set of scripts, every cluster, and *)
(* any number of faults and of changes by other clients.                   *)
(*                                                                         *)
(* Each step of a command is one of a few moves of AdminTool (Moves), and  *)
(* each of these is a step of the contract or leaves its state alone.      *)
(* All else is proved family by family, and then put together.             *)
(***************************************************************************)
EXTENDS AdminCommands, FiniteSetTheorems, TLAPS

\* A command that has not ended has asked for nothing yet and printed nothing: the
\* request, the report and the end are one move.
Fresh ==
  /\ (exit = "none") = (pc # "done")
  /\ exit = "none" => asked = {} /\ applied = {} /\ rows = {}

\* A report that claims nothing about what was done.
Idle(report) == \A row \in report : row[2] \in {"shown", "preview"}

\* Only delete-records makes its status without looking at its rows.
Strict(manner) == manner = "lenient" => cmd.tool = "delete-records"
Manners == {"rows", "lenient", "firstError"}

\* The moves of a command that runs.
Moves ==
  \/ \E next, value : next # "done" /\ Read(next, value)
  \/ \E report : Idle(report) /\ Report(report)
  \/ Usage
  \/ Failed
  \/ \E items, can : DryRun(items, can)
  \/ \E items, can, noops : \E manner \in Manners :
       can \subseteq items /\ Strict(manner) /\ Request(items, can, noops, manner)
Step == (pc # "done" /\ Moves) \/ Foreign

-----------------------------------------------------------------------------
(* Reports *)

LEMMA IdleRows == \A items : Idle(Rows(items, "shown")) /\ Idle(Rows(items, "preview"))
  BY DEF Idle, Rows

\* What a report of three kinds of rows says.
Tells(report, done, noop, failed) ==
  /\ {row[1] : row \in {r \in report : r[2] = "done"}} = done
  /\ {row[1] : row \in {r \in report : r[2] = "noop"}} = noop
  /\ {row[1] : row \in {r \in report : r[2] = "failed"}} = failed
  /\ {row[1] : row \in report} = done \cup noop \cup failed

LEMMA ThreeRows ==
  ASSUME NEW done, NEW noop, NEW failed, NEW report,
         report = Rows(done, "done") \cup Rows(noop, "noop") \cup Rows(failed, "failed")
  PROVE  Tells(report, done, noop, failed)
<1>1. \A x : /\ x \in done => <<x, "done">> \in report
             /\ x \in noop => <<x, "noop">> \in report
             /\ x \in failed => <<x, "failed">> \in report
  BY DEF Rows
<1>2. \A r \in report : \/ r[2] = "done" /\ r[1] \in done
                        \/ r[2] = "noop" /\ r[1] \in noop
                        \/ r[2] = "failed" /\ r[1] \in failed
  BY DEF Rows
<1>3. /\ {row[1] : row \in {r \in report : r[2] = "done"}} = done
      /\ {row[1] : row \in {r \in report : r[2] = "noop"}} = noop
      /\ {row[1] : row \in {r \in report : r[2] = "failed"}} = failed
      /\ {row[1] : row \in report} = done \cup noop \cup failed
  <2>1. {row[1] : row \in {r \in report : r[2] = "done"}} = done
    <3>1. ASSUME NEW x \in done PROVE x \in {row[1] : row \in {r \in report : r[2] = "done"}}
      <4>1. /\ <<x, "done">> \in report
            /\ <<x, "done">>[1] = x /\ <<x, "done">>[2] = "done"
        BY <1>1
      <4> QED
        BY <4>1
    <3>2. ASSUME NEW x \in {row[1] : row \in {r \in report : r[2] = "done"}} PROVE x \in done
      BY <1>2
    <3> QED
      BY <3>1, <3>2
  <2>2. {row[1] : row \in {r \in report : r[2] = "noop"}} = noop
    <3>1. ASSUME NEW x \in noop PROVE x \in {row[1] : row \in {r \in report : r[2] = "noop"}}
      <4>1. /\ <<x, "noop">> \in report
            /\ <<x, "noop">>[1] = x /\ <<x, "noop">>[2] = "noop"
        BY <1>1
      <4> QED
        BY <4>1
    <3>2. ASSUME NEW x \in {row[1] : row \in {r \in report : r[2] = "noop"}} PROVE x \in noop
      BY <1>2
    <3> QED
      BY <3>1, <3>2
  <2>3. {row[1] : row \in {r \in report : r[2] = "failed"}} = failed
    <3>1. ASSUME NEW x \in failed PROVE x \in {row[1] : row \in {r \in report : r[2] = "failed"}}
      <4>1. /\ <<x, "failed">> \in report
            /\ <<x, "failed">>[1] = x /\ <<x, "failed">>[2] = "failed"
        BY <1>1
      <4> QED
        BY <4>1
    <3>2. ASSUME NEW x \in {row[1] : row \in {r \in report : r[2] = "failed"}} PROVE x \in failed
      BY <1>2
    <3> QED
      BY <3>1, <3>2
  <2>4. {row[1] : row \in report} = done \cup noop \cup failed
    <3>1. ASSUME NEW x \in done \cup noop \cup failed PROVE x \in {row[1] : row \in report}
      <4>1. PICK r \in report : r[1] = x
        <5>1. \A o : <<x, o>>[1] = x
          OBVIOUS
        <5> QED
          BY <1>1, <5>1
      <4> QED
        BY <4>1
    <3>2. ASSUME NEW x \in {row[1] : row \in report} PROVE x \in done \cup noop \cup failed
      BY <1>2
    <3> QED
      BY <3>1, <3>2
  <2> QED
    BY <2>1, <2>2, <2>3, <2>4
<1> QED
  BY <1>3 DEF Tells

LEMMA IdleNothing == Idle({})
  BY DEF Idle

-----------------------------------------------------------------------------
(* The commands make these moves and no other *)

LEMMA TopicMoves == TopicsNext => Step
<1> USE DEF Is, Step, Moves
<1>1. ListTopics => Step
  BY IdleRows DEF ListTopics
<1>2. DescribeTopics => Step
  BY DEF DescribeTopics
<1>3. IdentifyTopics => Step
  BY DEF IdentifyTopics
<1>4. ReadTopicConfigs => Step
  BY IdleRows DEF ReadTopicConfigs, Goto
<1>5. DescribePartitions => Step
  BY IdleRows DEF DescribePartitions
<1>6. CreateTopic => Step
  BY DEF CreateTopic, Manners, Strict
<1>7. SelectTopics => Step
  BY IdleNothing DEF SelectTopics, NoMatch
<1>8. AlterTopics => Step
  BY DEF AlterTopics, Manners, Strict
<1>9. DeleteTopics => Step
  BY DEF DeleteTopics, Manners, Strict
<1>10. TopicsForeign => Step
  BY DEF TopicsForeign
<1> QED
  BY <1>1, <1>2, <1>3, <1>4, <1>5, <1>6, <1>7, <1>8, <1>9, <1>10 DEF TopicsNext

LEMMA AclMoves == AclsNext => Step
<1> USE DEF Is, Step, Moves
<1>1. ListAcls => Step
  BY IdleRows DEF ListAcls
<1>2. AddAcls => Step
  BY IdleRows DEF AddAcls
<1>3. CreateAcls => Step
  BY IdleNothing DEF CreateAcls, Manners, Strict
<1>4. RemoveAcls => Step
  BY IdleRows DEF RemoveAcls, Manners, Strict
<1>5. AclsForeign => Step
  BY DEF AclsForeign
<1> QED
  BY <1>1, <1>2, <1>3, <1>4, <1>5 DEF AclsNext

LEMMA ConfigMoves == ConfigsNext => Step
<1> USE DEF Is, Step, Moves
<1>1. AlterConfig => Step
  BY IdleRows DEF AlterConfig, Goto, Preview
<1>2. ReadQuota => Step
  BY DEF ReadQuota, Goto
<1>3. AlterQuota => Step
  BY DEF AlterQuota, AlterEntity, Manners, Strict
<1>4. AlterScram => Step
  BY DEF AlterScram, AlterEntity, Manners, Strict
<1>5. AlterResource => Step
  BY DEF AlterResource, AlterEntity, Manners, Strict
<1>6. FindConfigBroker => Step
  BY DEF FindConfigBroker, Goto
<1>7. AlterProtocol => Step
  BY DEF AlterProtocol, AlterEntity, Manners, Strict
<1>8. DescribeQuota => Step
  BY IdleRows DEF DescribeQuota
<1>9. DescribeScram => Step
  BY IdleRows DEF DescribeScram
<1>10. DescribeConfig => Step
  BY IdleRows DEF DescribeConfig, Described
<1>11. MetricsList => Step
  BY IdleRows DEF MetricsList, Described
<1>12. MetricsAlter => Step
  BY IdleRows DEF MetricsAlter, Preview, AlterEntity, Manners, Strict
<1>13. MetricsKeysRead => Step
  BY IdleRows DEF MetricsKeysRead
<1>14. MetricsDelete => Step
  BY DEF MetricsDelete, Manners, Strict
<1>15. ConfigsForeign => Step
  BY DEF ConfigsForeign
<1> QED
  BY <1>1, <1>2, <1>3, <1>4, <1>5, <1>6, <1>7, <1>8, <1>9, <1>10, <1>11, <1>12, <1>13, <1>14, <1>15 DEF ConfigsNext

LEMMA FeatureMoves == FeaturesNext => Step
<1> USE DEF Is, Step, Moves
<1>1. DescribeFeatures => Step
  BY IdleRows DEF DescribeFeatures
<1>2. UpdateFeatures => Step
  BY DEF UpdateFeatures, Manners, Strict
<1>3. VersionMapping => Step
  BY IdleRows DEF VersionMapping
<1>4. FeatureDependencies => Step
  BY IdleRows DEF FeatureDependencies
<1>5. FeaturesForeign => Step
  BY DEF FeaturesForeign
<1> QED
  BY <1>1, <1>2, <1>3, <1>4, <1>5 DEF FeaturesNext

LEMMA ClusterMoves == ClusterNext => Step
<1> USE DEF Is, Step, Moves
<1>1. DescribeQuorum => Step
  BY IdleRows DEF DescribeQuorum
<1>2. DescribeQuorumStatus => Step
  BY IdleRows DEF DescribeQuorumStatus
<1>3. AddController => Step
  BY DEF AddController, NotAController, Goto
<1>4. RemoveController => Step
  BY DEF RemoveController, Goto
<1>5. AlterVoters => Step
  BY IdleRows DEF AlterVoters, Manners, Strict
<1>6. CreateToken => Step
  BY DEF CreateToken, TokenTool, Manners, Strict
<1>7. DescribeTokens => Step
  BY IdleRows DEF DescribeTokens, TokenTool
<1>8. {t.id : t \in Known} \subseteq {cmd.hmac}
  BY DEF Known
<1>9. RenewToken => Step
  BY <1>8 DEF RenewToken, TokenTool, Manners, Strict
<1>10. ExpireToken => Step
  BY <1>8 DEF ExpireToken, TokenTool, Manners, Strict
<1>11. ListEndpoints => Step
  BY IdleRows DEF ListEndpoints
<1>12. ListFencedEndpoints => Step
  BY IdleRows DEF ListFencedEndpoints
<1>13. ApiVersions => Step
  BY IdleRows DEF ApiVersions
<1>14. Unregister => Step
  BY IdleRows DEF Unregister, Manners, Strict
<1>15. QuorumForeign => Step
  BY DEF QuorumForeign
<1>16. ServersForeign => Step
  BY DEF ServersForeign
<1> QED
  BY <1>1, <1>2, <1>3, <1>4, <1>5, <1>6, <1>7, <1>9, <1>10, <1>11, <1>12, <1>13, <1>14, <1>15, <1>16 DEF ClusterNext

LEMMA PartitionMoves == PartsNext => Step
<1> USE DEF Is, Step, Moves
<1>1. OffsetsStart => Step
  BY DEF OffsetsStart
<1>2. ListOffsets => Step
  BY IdleRows DEF ListOffsets
<1>3. DeleteRecords => Step
  BY IdleRows DEF DeleteRecords, Manners, Strict
<1>4. ElectLeaders => Step
  <2> DEFINE named == IF cmd.all THEN ElectionTargets(cmd) \ NotNeeded(cmd) ELSE ElectionTargets(cmd)
  <2>1. Electable(cmd) \subseteq named
    BY DEF Electable, NotNeeded
  <2>2. "rows" \in Manners /\ Strict("rows")
    BY DEF Manners, Strict
  <2>3. ElectLeaders =>
          /\ pc = "start"
          /\ \/ Usage
             \/ \E shown : Report(Rows(shown, "preview"))
             \/ Request(named, Electable(cmd), named \cap NotNeeded(cmd), "rows")
    BY DEF ElectLeaders
  <2> HIDE DEF named
  <2> QED
    BY <2>1, <2>2, <2>3, IdleRows
<1>5. LogDirsStart => Step
  BY DEF LogDirsStart
<1>6. DescribeLogDirs => Step
  BY IdleRows DEF DescribeLogDirs
<1>7. PartsForeign => Step
  BY DEF PartsForeign
<1> QED
  BY <1>1, <1>2, <1>3, <1>4, <1>5, <1>6, <1>7 DEF PartsNext

-----------------------------------------------------------------------------
(* Each move keeps Fresh and is a step of the contract *)

Kept == [Contract!Next]_(Contract!contractVars)

LEMMA ReadKept ==
  ASSUME NEW next, NEW value, next # "done", pc # "done", Read(next, value), Fresh
  PROVE  Fresh' /\ Kept
  BY DEF Read, Fresh, Kept, Contract!contractVars, scriptVars, cmd

LEMMA ForeignKept ==
  ASSUME Foreign, Fresh
  PROVE  Fresh' /\ Kept
  BY DEF Foreign, Fresh, Kept, Contract!contractVars, commandVars, scriptVars, cmd

LEMMA ReportKept ==
  ASSUME NEW report, Idle(report), pc # "done", Report(report), Fresh
  PROVE  Fresh' /\ Kept
  BY DEF Report, Tell, Idle, Fresh, Kept, scriptVars, cmd, Contract!contractVars, Contract!Next,
         Contract!Finish, Contract!Honest, Contract!Said, Contract!Settled

LEMMA StopKept ==
  ASSUME Usage \/ Failed, pc # "done", Fresh
  PROVE  Fresh' /\ Kept
  BY DEF Usage, Failed, Stop, Fresh, Kept, scriptVars, cmd, Contract!contractVars, Contract!Next,
         Contract!Finish, Contract!Honest, Contract!Said, Contract!Settled

LEMMA DryRunKept ==
  ASSUME NEW items, NEW can, pc # "done", DryRun(items, can), Fresh
  PROVE  Fresh' /\ Kept
<1> DEFINE report == Rows(can, "preview") \cup Rows(items \ can, "failed")
<1>1. /\ pc' = "done" /\ rows' = report /\ exit' = Verdict(report, "rows")
      /\ asked' = {} /\ applied' = {} /\ UNCHANGED scriptVars
  BY DEF DryRun, Tell, Fresh
<1>2. \/ exit' = "ok"
      \/ exit' = "partial" /\ \E row \in report : row[2] = "failed"
  BY <1>1 DEF Verdict
<1>3. \A row \in report : row[2] \in {"preview", "failed"}
  BY DEF Rows
<1> HIDE DEF report
<1>4. Contract!Honest'
  BY <1>1, <1>2, <1>3 DEF Contract!Honest, Contract!Said, Contract!Settled
<1> QED
  BY <1>1, <1>2, <1>4 DEF Fresh, Kept, scriptVars, cmd, Contract!contractVars, Contract!Next,
       Contract!Finish

LEMMA RequestKept ==
  ASSUME NEW items, NEW can, NEW noops, NEW manner \in Manners, Strict(manner),
         pc # "done", Request(items, can, noops, manner), Fresh
  PROVE  Fresh' /\ Kept
<1>1. PICK refused \in {{}} \cup {{i} : i \in items}, lost \in BOOLEAN :
        LET done == can \ refused
            noop == noops \ refused
            failed == items \ (done \cup noop)
            report == Rows(done, "done") \cup Rows(noop, "noop") \cup Rows(failed, "failed")
        IN /\ asked' = items /\ applied' = done /\ pc' = "done" /\ UNCHANGED scriptVars
           /\ IF lost \/ (manner = "firstError" /\ failed # {})
              THEN exit' = "error" /\ rows' = {}
              ELSE exit' = Verdict(report, manner) /\ rows' = report
  BY DEF Request
<1> DEFINE done == can \ refused
           noop == noops \ refused
           failed == items \ (done \cup noop)
           report == Rows(done, "done") \cup Rows(noop, "noop") \cup Rows(failed, "failed")
<1>2. /\ asked' = items /\ applied' = done /\ pc' = "done" /\ UNCHANGED scriptVars
      /\ \/ exit' = "error" /\ rows' = {}
         \/ /\ ~ (manner = "firstError" /\ failed # {})
            /\ exit' = Verdict(report, manner) /\ rows' = report
  BY <1>1
<1>3. Tells(report, done, noop, failed)
  <2>1. report = Rows(done, "done") \cup Rows(noop, "noop") \cup Rows(failed, "failed")
    OBVIOUS
  <2> HIDE DEF done, noop, failed, report
  <2> QED
    BY <2>1, ThreeRows
<1>4. (\E row \in report : row[2] = "failed") <=> failed # {}
  <2>1. (\E row \in report : row[2] = "failed")
          <=> {row[1] : row \in {r \in report : r[2] = "failed"}} # {}
    <3> HIDE DEF report
    <3> QED
      OBVIOUS
  <2> QED
    BY <1>3, <2>1 DEF Tells
<1>5. /\ failed \cap done = {} /\ items \subseteq done \cup noop \cup failed
  OBVIOUS
<1> HIDE DEF done, noop, failed, report
<1>6. Contract!Honest'
  <2>1. CASE exit' = "error" /\ rows' = {}
    BY <2>1 DEF Contract!Honest, Contract!Said
  <2>2. CASE /\ ~ (manner = "firstError" /\ failed # {})
             /\ exit' = Verdict(report, manner) /\ rows' = report
    <3>1. CASE manner = "rows" /\ failed # {}
      <4>1. exit' = "partial"
        BY <2>2, <3>1, <1>4 DEF Verdict
      <4> QED
        BY <1>2, <1>3, <1>5, <2>2, <3>1, <4>1 DEF Tells, Contract!Honest, Contract!Said
    <3>2. CASE failed = {}
      <4>1. exit' = "ok"
        BY <2>2, <3>2, <1>4 DEF Verdict
      <4> QED
        BY <1>2, <1>3, <1>5, <2>2, <3>2, <4>1 DEF Tells, Contract!Honest, Contract!Said, Contract!Settled
    <3>3. CASE manner = "lenient"
      <4>1. exit' = "ok"
        BY <2>2, <3>3 DEF Verdict
      <4>2. (cmd.tool = "delete-records")'
        BY <1>2, <3>3 DEF Strict, scriptVars, cmd
      <4> QED
        BY <1>2, <1>3, <1>5, <2>2, <4>1, <4>2 DEF Tells, Contract!Honest, Contract!Said, Contract!Settled
    <3> QED
      BY <2>2, <3>1, <3>2, <3>3 DEF Manners
  <2> QED
    BY <1>2, <2>1, <2>2
<1>7. exit' \in {"error", "ok", "partial"}
  BY <1>2 DEF Verdict
<1> QED
  BY <1>2, <1>6, <1>7 DEF Fresh, Kept, scriptVars, cmd, Contract!contractVars, Contract!Next,
       Contract!Finish

LEMMA StepKept ==
  ASSUME Step, Fresh
  PROVE  Fresh' /\ Kept
<1>1. CASE Foreign
  BY <1>1, ForeignKept
<1>2. CASE pc # "done" /\ Moves
  BY <1>2, ReadKept, ReportKept, StopKept, DryRunKept, RequestKept DEF Moves
<1> QED
  BY <1>1, <1>2 DEF Step

LEMMA CallFailsKept ==
  ASSUME CallFails, Fresh
  PROVE  Fresh' /\ Kept
  BY DEF CallFails, Reads, Fresh, Kept, scriptVars, cmd, Contract!contractVars, Contract!Next,
         Contract!Finish, Contract!Honest, Contract!Said, Contract!Settled

LEMMA NextCommandKept ==
  ASSUME NextCommand, Fresh
  PROVE  Fresh' /\ Kept
  BY DEF NextCommand, Fresh, Kept, Contract!contractVars, Contract!Next, Contract!Again

LEMMA StutterKept ==
  ASSUME UNCHANGED vars, Fresh
  PROVE  Fresh' /\ Kept
  BY DEF vars, adminVars, commandVars, scriptVars, cmd, Fresh, Kept, Contract!contractVars

LEMMA NextKept ==
  ASSUME [Next]_vars, Fresh
  PROVE  Fresh' /\ Kept
  BY TopicMoves, AclMoves, ConfigMoves, FeatureMoves, ClusterMoves, PartitionMoves,
     StepKept, CallFailsKept, NextCommandKept, StutterKept DEF Next

LEMMA InitFresh == Init => Fresh /\ Contract!Init
  BY DEF Init, AdminInit, Fresh, Contract!Init

-----------------------------------------------------------------------------
(* The contract *)

\* The administrative commands implement the contract: whatever they are asked, whatever
\* is refused, lost or changed under way, what the exit status and the rows of each say
\* is what the cluster has done for it.
THEOREM ContractKept == Spec => KeepsContract
<1>1. Fresh /\ [Next]_vars => Fresh' /\ Kept
  BY NextKept
<1> QED
  BY <1>1, InitFresh, PTL DEF Spec, KeepsContract, Contract!Spec, Kept

-----------------------------------------------------------------------------
(* What the commands that go on have checked *)

AclsPrepared == Is("acls", "add") /\ pc = "decide" => seen \subseteq Binding

\* Every value that the command is about to set is one that its entity can have.
ConfigsPrepared ==
  Is("configs", "alter") =>
    /\ pc \in {"decide", "quota"} => \A key \in cmd.add : ConfigEntry(<<QuotaEntity(cmd), key>>)
    /\ pc \in {"scram", "identify", "protocol", "resource"} =>
         \A key \in cmd.add : ConfigEntry(<<Entity(cmd), key>>)

QuorumPrepared ==
  Is("metadata-quorum", "add-controller") /\ pc = "identify" => cmd.hasConfig /\ cmd.complete

Prepared == AclsPrepared /\ ConfigsPrepared /\ QuorumPrepared

\* The inductive invariant of the types.
AdminInv == TypeOK /\ Fresh /\ Prepared

-----------------------------------------------------------------------------
(* The types of what the commands share *)

RowsOk(report) == \A row \in report : row[2] \in {"done", "noop", "failed", "shown", "preview"}

\* What a request can have done, and where it leaves the command.
LEMMA RequestDoes ==
  ASSUME NEW items, NEW can, NEW noops, NEW manner, Request(items, can, noops, manner)
  PROVE  /\ pc' = "done" /\ asked' = items /\ applied' \subseteq can
         /\ UNCHANGED <<seen, scriptVars, foreign>>
         /\ exit' \in {"ok", "partial", "error"} /\ RowsOk(rows')
         /\ (calm \in BOOLEAN => calm' \in BOOLEAN) /\ (calm' => calm)
<1>1. PICK refused, lost :
        LET done == can \ refused
            failed == items \ (done \cup (noops \ refused))
            report == Rows(done, "done") \cup Rows(noops \ refused, "noop") \cup Rows(failed, "failed")
        IN /\ calm' = (calm /\ faults' = faults)
           /\ asked' = items /\ applied' = done /\ pc' = "done"
           /\ IF lost \/ (manner = "firstError" /\ failed # {})
              THEN exit' = "error" /\ rows' = {}
              ELSE exit' = Verdict(report, manner) /\ rows' = report
           /\ UNCHANGED <<seen, scriptVars, foreign>>
  BY DEF Request
<1> DEFINE done == can \ refused
           failed == items \ (done \cup (noops \ refused))
           report == Rows(done, "done") \cup Rows(noops \ refused, "noop") \cup Rows(failed, "failed")
<1>2. RowsOk(report) /\ RowsOk({})
  BY DEF RowsOk, Rows
<1>3. Verdict(report, manner) \in {"ok", "partial"}
  BY DEF Verdict
<1>4. \/ exit' = "error" /\ rows' = {}
      \/ exit' = Verdict(report, manner) /\ rows' = report
  BY <1>1
<1>5. exit' \in {"ok", "partial", "error"} /\ RowsOk(rows')
  <2> HIDE DEF report
  <2> QED
    BY <1>2, <1>3, <1>4
<1>6. /\ pc' = "done" /\ asked' = items /\ applied' \subseteq can
      /\ UNCHANGED <<seen, scriptVars, foreign>>
      /\ (calm \in BOOLEAN => calm' \in BOOLEAN) /\ (calm' => calm)
  BY <1>1
<1> QED
  BY <1>5, <1>6

\* A command that asks for nothing has nothing done.
Quiet ==
  \/ Usage \/ Failed
  \/ \E report : Report(report)
  \/ \E items, can : DryRun(items, can)
  \/ \E next, value : Read(next, value)

LEMMA QuietDoesNothing == ASSUME Fresh, pc # "done", Quiet PROVE applied' = {}
  BY DEF Quiet, Fresh, Usage, Failed, Stop, Report, DryRun, Tell, Read

\* The script goes on only when a command is over.
LEMMA SameScript == ASSUME Step PROVE UNCHANGED scriptVars
<1>1. CASE Foreign
  BY <1>1 DEF Foreign, scriptVars
<1>2. CASE Moves
  <2>1. ASSUME NEW next, NEW value, Read(next, value) PROVE UNCHANGED scriptVars
    BY <2>1 DEF Read, scriptVars
  <2>2. ASSUME NEW report, Report(report) PROVE UNCHANGED scriptVars
    BY <2>2 DEF Report, Tell, scriptVars
  <2>3. CASE Usage \/ Failed
    BY <2>3 DEF Usage, Failed, Stop, scriptVars
  <2>4. ASSUME NEW items, NEW can, DryRun(items, can) PROVE UNCHANGED scriptVars
    BY <2>4 DEF DryRun, Tell, scriptVars
  <2>5. ASSUME NEW items, NEW can, NEW noops, NEW manner, Request(items, can, noops, manner)
        PROVE  UNCHANGED scriptVars
    BY <2>5, RequestDoes DEF scriptVars
  <2> QED
    BY <1>2, <2>1, <2>2, <2>3, <2>4, <2>5 DEF Moves
<1> QED
  BY <1>1, <1>2 DEF Step

LEMMA StepTyped ==
  ASSUME AdminTypeOK, Fresh, Step
  PROVE  AdminTypeOK'
<1> USE DEF AdminTypeOK
<1>1. UNCHANGED <<script, turn, past>>
  BY SameScript DEF scriptVars
<1>2. Fresh'
  BY StepKept
<1>3. RowsOk(rows) /\ (pc # "done" => exit = "none" /\ asked = {} /\ applied = {} /\ rows = {})
  BY DEF RowsOk, Fresh
<1> DEFINE Typed ==
      /\ applied' \subseteq asked' /\ RowsOk(rows') /\ calm' \in BOOLEAN
      /\ exit' \in {"none", "ok", "partial", "usage", "error"}
<1>4. Typed
  <2>1. CASE Foreign
    BY <2>1, <1>3 DEF Foreign, commandVars
  <2>2. ASSUME NEW next, NEW value, Read(next, value) PROVE Typed
    BY <2>2, <1>3 DEF Read
  <2>3. ASSUME NEW report, Idle(report), Report(report), pc # "done" PROVE Typed
    BY <2>3, <1>3 DEF Report, Tell, Idle, RowsOk
  <2>4. ASSUME Usage \/ Failed, pc # "done" PROVE Typed
    BY <2>4, <1>3 DEF Usage, Failed, Stop
  <2>5. ASSUME NEW items, NEW can, DryRun(items, can), pc # "done" PROVE Typed
    <3> DEFINE report == Rows(can, "preview") \cup Rows(items \ can, "failed")
    <3>1. Verdict(report, "rows") \in {"ok", "partial"} /\ RowsOk(report)
      BY DEF Verdict, Rows, RowsOk
    <3>2. /\ rows' = report /\ exit' = Verdict(report, "rows")
          /\ UNCHANGED <<asked, applied, calm>>
      BY <2>5 DEF DryRun, Tell
    <3> HIDE DEF report
    <3> QED
      BY <1>3, <3>1, <3>2
  <2>6. ASSUME NEW items, NEW can, NEW noops, NEW manner, can \subseteq items,
               Request(items, can, noops, manner)
        PROVE  Typed
    BY <2>6, RequestDoes
  <2> HIDE DEF Typed
  <2> QED
    BY <2>1, <2>2, <2>3, <2>4, <2>5, <2>6 DEF Step, Moves
<1> QED
  BY <1>1, <1>2, <1>4 DEF RowsOk, Fresh

LEMMA CallFailsTyped ==
  ASSUME AdminTypeOK, CallFails
  PROVE  AdminTypeOK'
  BY DEF AdminTypeOK, CallFails, scriptVars

LEMMA NextCommandTyped ==
  ASSUME AdminTypeOK, NextCommand
  PROVE  AdminTypeOK'
<1> DEFINE ended == [exit |-> exit, calm |-> calm, done |-> asked # {} /\ applied = asked]
           Ended == [exit : {"ok", "partial", "usage", "error"}, calm : BOOLEAN, done : BOOLEAN]
<1>1. ended \in Ended
  BY DEF AdminTypeOK, NextCommand
<1>2. /\ past \in Seq(Ended) /\ Len(past) = turn - 1
      /\ past' = Append(past, ended)
      /\ script' = script /\ turn' = turn + 1 /\ turn < Len(script) /\ script \in Scripts
  BY DEF AdminTypeOK, NextCommand
<1>3. turn \in 1..Len(script) /\ Len(script) \in Nat
  BY <1>2, ScriptsAssumption DEF AdminTypeOK
<1>4. past' \in Seq(Ended) /\ Len(past') = turn' - 1
  <2> HIDE DEF ended, Ended
  <2>1. past' \in Seq(Ended) /\ Len(past') = Len(past) + 1
    BY <1>1, <1>2
  <2> QED
    BY <1>2, <1>3, <2>1
<1>5. turn' \in 1..Len(script')
  BY <1>2, <1>3
<1> QED
  BY <1>2, <1>4, <1>5 DEF AdminTypeOK, NextCommand

\* The command that runs is one that the command line can be.
LEMMA CommandOk == AdminTypeOK => Command(cmd)
<1> SUFFICES ASSUME AdminTypeOK PROVE Command(cmd)
  OBVIOUS
<1>1. turn \in DOMAIN script
  BY ScriptsAssumption DEF AdminTypeOK
<1> QED
  BY <1>1, ScriptsAssumption DEF AdminTypeOK, cmd

-----------------------------------------------------------------------------
(* The topics *)

LEMMA NewTopicTyped ==
  ASSUME TopicsTypeOK, NEW n \in Names, NEW k \in 1..MaxPartitions, lastId < MaxId
  PROVE  NewTopic(n, k) \in [Names -> TopicRecords] /\ lastId + 1 \in 0..MaxId
<1>1. /\ lastId \in 0..MaxId /\ MaxId \in Nat /\ MaxPartitions \in Nat
      /\ topics \in [Names -> TopicRecords]
  BY BoundsAssumption DEF TopicsTypeOK
<1>2. lastId + 1 \in 0..MaxId /\ lastId + 1 # 0
  BY <1>1
<1>3. [id |-> lastId + 1, partitions |-> k, overrides |-> FALSE] \in TopicRecords
  BY <1>1, <1>2 DEF TopicRecords
<1> QED
  BY <1>1, <1>2, <1>3 DEF NewTopic

LEMMA GrownTyped ==
  ASSUME NEW t \in TopicRecords, t.id # 0, NEW k \in 1..MaxPartitions
  PROVE  [t EXCEPT !.partitions = k] \in TopicRecords
  BY BoundsAssumption DEF TopicRecords

LEMMA AbsentTyped == Absent \in TopicRecords
  BY BoundsAssumption DEF Absent, TopicRecords

LEMMA TopicsTyped ==
  ASSUME TopicsTypeOK, Fresh, Command(cmd), TopicsNext
  PROVE  TopicsTypeOK'
<1>0. /\ lastId \in 0..MaxId /\ MaxId \in Nat /\ MaxPartitions \in Nat /\ MaxPartitions # 0
      /\ topics \in [Names -> TopicRecords]
  BY BoundsAssumption DEF TopicsTypeOK
<1>1. CASE UNCHANGED topicVars
  BY <1>1 DEF topicVars, TopicsTypeOK, TopicRecords
<1>2. CASE CreateTopic
  <2> DEFINE free == {cmd.name} \ TopicNames
  <2>1. /\ cmd.name \in Names /\ cmd.assignment \subseteq 0..MaxPartitions
        /\ \A p \in cmd.partitions : p \in Int /\ p <= MaxPartitions
    <3>1. TopicCommand(cmd) /\ cmd.action = "create"
      BY <1>2 DEF Command, CreateTopic, Is
    <3> QED
      BY <3>1 DEF TopicCommand
  <2>2. CASE ~ UNCHANGED topicVars
    <3>1. /\ AssignmentOk(cmd) /\ CreationCountsOk(cmd) /\ lastId < MaxId
          /\ topics' = NewTopic(cmd.name, Partitions(cmd)) /\ lastId' = lastId + 1
      BY <1>2, <2>2 DEF CreateTopic, topicVars
    <3>2. Partitions(cmd) \in 1..MaxPartitions
      <4>1. CASE cmd.assignment # {}
        <5>1. The(cmd.assignment) \in cmd.assignment
          BY <4>1 DEF The
        <5>2. The(cmd.assignment) \in 0..MaxPartitions /\ The(cmd.assignment) > 0
          BY <5>1, <3>1, <2>1 DEF AssignmentOk, Given
        <5> QED
          BY <4>1, <5>2, <1>0 DEF Partitions
      <4>2. CASE cmd.assignment = {} /\ cmd.partitions # {}
        <5>1. The(cmd.partitions) \in cmd.partitions
          BY <4>2 DEF The
        <5>2. /\ The(cmd.partitions) \in Int /\ The(cmd.partitions) >= 1
              /\ The(cmd.partitions) <= MaxPartitions
          <6>1. \A p \in cmd.partitions : p >= 1
            BY <3>1 DEF CreationCountsOk, Given
          <6> QED
            BY <5>1, <2>1, <6>1
        <5> QED
          BY <4>2, <5>2, <1>0 DEF Partitions
      <4>3. CASE cmd.assignment = {} /\ cmd.partitions = {}
        BY <4>3, <1>0 DEF Partitions
      <4> QED
        BY <4>1, <4>2, <4>3
    <3>3. topics' \in [Names -> TopicRecords] /\ lastId' \in 0..MaxId
      BY <3>1, <3>2, <2>1, NewTopicTyped
    <3> QED
      BY <3>3 DEF TopicsTypeOK, TopicRecords
  <2> QED
    BY <2>2, <1>1
<1>3. CASE AlterTopics
  <2>1. CASE AlterRefused
    BY <1>1, <1>3, <2>1 DEF AlterTopics
  <2>2. CASE ~ AlterRefused
    <3> DEFINE can == {t \in seen : MayGrow(t)}
    <3>1. /\ Request(seen, can, {}, "rows") /\ lastId' = lastId
          /\ topics' = [n \in Names |->
               IF \E t \in applied' : t[1] = n THEN [topics[n] EXCEPT !.partitions = cmd.target] ELSE topics[n]]
      BY <1>3, <2>2 DEF AlterTopics
    <3>2. cmd.target \in 1..MaxPartitions
      <4>1. TopicCommand(cmd) /\ cmd.action = "alter"
        BY <1>3 DEF Command, AlterTopics, Is
      <4> QED
        BY <4>1, <2>2, <1>0 DEF TopicCommand, AlterRefused
    <3>3. applied' \subseteq can
      BY <3>1, RequestDoes
    <3>4. ASSUME NEW n \in Names, NEW t \in applied', t[1] = n
          PROVE  [topics[n] EXCEPT !.partitions = cmd.target] \in TopicRecords
      <4>1. topics[n].id # 0
        BY <3>3, <3>4 DEF MayGrow, TopicNames, Exists
      <4> QED
        BY <4>1, <3>2, <1>0, GrownTyped
    <3>5. topics' \in [Names -> TopicRecords]
      <4>1. \A n \in Names : topics[n] \in TopicRecords
        BY <1>0
      <4> QED
        BY <3>1, <3>4, <4>1
    <3> QED
      BY <3>1, <3>5, <1>0 DEF TopicsTypeOK, TopicRecords
  <2> QED
    BY <2>1, <2>2
<1>4. CASE DeleteTopics
  <2>1. topics' \in [Names -> TopicRecords] /\ lastId' = lastId
    BY <1>4, <1>0, AbsentTyped DEF DeleteTopics
  <2> QED
    BY <2>1, <1>0 DEF TopicsTypeOK, TopicRecords
<1>5. CASE TopicsForeign
  <2>1. PICK n \in Names :
          IF Exists(n) THEN topics' = [topics EXCEPT ![n] = Absent] /\ UNCHANGED lastId
          ELSE lastId < MaxId /\ topics' = NewTopic(n, 1) /\ lastId' = lastId + 1
    BY <1>5 DEF TopicsForeign
  <2>2. CASE Exists(n)
    BY <2>1, <2>2, <1>0, AbsentTyped DEF TopicsTypeOK, TopicRecords
  <2>3. CASE ~ Exists(n)
    <3>1. 1 \in 1..MaxPartitions
      BY <1>0
    <3>2. topics' \in [Names -> TopicRecords] /\ lastId' \in 0..MaxId
      BY <2>1, <2>3, <3>1, NewTopicTyped
    <3> QED
      BY <3>2 DEF TopicsTypeOK, TopicRecords
  <2> QED
    BY <2>2, <2>3
<1> QED
  BY <1>1, <1>2, <1>3, <1>4, <1>5
  DEF TopicsNext, ListTopics, DescribeTopics, IdentifyTopics, ReadTopicConfigs, DescribePartitions,
      SelectTopics

-----------------------------------------------------------------------------
(* The access control lists *)

\* What a grant is about.
LEMMA GrantsTyped ==
  ASSUME NEW c, AclCommand(c), ~ AddRefused(c), NEW g \in Grants(c, AddOperations(c))
  PROVE  g[1] \in AclResources /\ g[2] \subseteq Operations
<1>1. c.resources \subseteq AclResources /\ c.operations \subseteq Operations
  BY DEF AclCommand, AddRefused, OperationsOk
<1>2. \A type : OfType(c, type) \subseteq AclResources
  BY <1>1 DEF OfType
<1>3. CASE Role(c)
  <2>1. g \in RoleGrants(c)
    BY <1>3 DEF Grants
  <2>2. CASE g \in {<<r, TopicOperations(c)>> : r \in OfType(c, "topic")}
    BY <2>2, <1>2 DEF TopicOperations, Operations
  <2>3. CASE g \in {<<r, {"Read"}>> : r \in OfType(c, "group")}
    BY <2>3, <1>2 DEF Operations
  <2>4. CASE g \in {<<r, {"Write", "Describe"}>> : r \in OfType(c, "transactional-id")}
    BY <2>4, <1>2 DEF Operations
  <2>5. CASE g \in {<<r, {"IdempotentWrite"}>> : r \in AclResources \cap {<<"cluster", "kafka-cluster">>}}
    <3>1. PICK r \in AclResources : g = <<r, {"IdempotentWrite"}>>
      BY <2>5
    <3> QED
      BY <3>1 DEF Operations
  <2>6. \/ g \in {<<r, TopicOperations(c)>> : r \in OfType(c, "topic")}
        \/ g \in {<<r, {"Read"}>> : r \in OfType(c, "group")}
        \/ g \in {<<r, {"Write", "Describe"}>> : r \in OfType(c, "transactional-id")}
        \/ g \in {<<r, {"IdempotentWrite"}>> : r \in AclResources \cap {<<"cluster", "kafka-cluster">>}}
    BY <2>1 DEF RoleGrants
  <2> QED
    BY <2>2, <2>3, <2>4, <2>5, <2>6
<1>4. CASE ~ Role(c)
  <2>1. g \in {<<r, AddOperations(c)>> : r \in c.resources}
    BY <1>4 DEF Grants
  <2>2. AddOperations(c) \subseteq Operations
    BY <1>1 DEF AddOperations, Operations
  <2> QED
    BY <2>1, <2>2, <1>1
<1> QED
  BY <1>3, <1>4

\* Who it is for.
LEMMA GranteesTyped ==
  ASSUME NEW c, AclCommand(c), ~ AddRefused(c), NEW e \in Grantees(c)
  PROVE  /\ e[1] \in AclPrincipals /\ e[2] \in {"Allow", "Deny"}
         /\ HostsFor(c, e[2]) \subseteq AclHosts
<1>1. c.principals \cup c.allow \cup c.deny \subseteq AclPrincipals \cup {""}
  BY DEF AclCommand
<1>2. "" \notin c.allow \cup c.deny /\ ("" \in c.principals => Entries(c) # {})
  BY DEF AddRefused, EntriesOk
<1>3. e[1] \in AclPrincipals /\ e[2] \in {"Allow", "Deny"}
  <2>1. CASE Entries(c) # {}
    <3>1. e \in {<<p, "Allow">> : p \in c.allow} \/ e \in {<<p, "Deny">> : p \in c.deny}
      BY <2>1 DEF Grantees, Entries
    <3>2. ASSUME NEW p \in c.allow \cup c.deny, NEW permission \in {"Allow", "Deny"}, e = <<p, permission>>
          PROVE  e[1] \in AclPrincipals /\ e[2] \in {"Allow", "Deny"}
      BY <3>2, <1>1, <1>2
    <3> QED
      BY <3>1, <3>2
  <2>2. CASE Entries(c) = {}
    <3>1. PICK p \in c.principals : e = <<p, "Allow">>
      BY <2>2 DEF Grantees
    <3>2. p \in AclPrincipals
      BY <2>2, <1>1, <1>2
    <3> QED
      BY <3>1, <3>2
  <2> QED
    BY <2>1, <2>2
<1>4. HostsFor(c, e[2]) \subseteq AclHosts
  <2>1. /\ c.allowHosts \cup c.denyHosts \cup c.host \subseteq AclHosts \cup {""}
        /\ "" \notin c.allowHosts \cup c.denyHosts \cup c.host
    BY DEF AclCommand, AddRefused, EntriesOk
  <2>2. DefaultHost(c) \subseteq AclHosts
    BY <2>1, ClusterAssumption DEF DefaultHost
  <2> QED
    BY <2>1, <2>2 DEF HostsFor
<1> QED
  BY <1>3, <1>4

LEMMA BindingsTyped ==
  ASSUME NEW c, AclCommand(c), ~ AddRefused(c)
  PROVE  Bindings(c) \subseteq Binding
<1>1. c.pattern \in {"literal", "prefixed"}
  BY DEF AclCommand, AddRefused
<1>2. ASSUME NEW b \in Bindings(c) PROVE b \in Binding
  <2> DEFINE Granted(g, e) ==
        [resource : {g[1]}, pattern : {c.pattern}, principal : {e[1]}, host : HostsFor(c, e[2]),
         operation : g[2], permission : {e[2]}]
  <2>1. PICK g \in Grants(c, AddOperations(c)), e \in Grantees(c) : b \in Granted(g, e)
    <3>1. b \in UNION {Granted(g, e) : g \in Grants(c, AddOperations(c)), e \in Grantees(c)}
      BY <1>2 DEF Bindings
    <3> HIDE DEF Granted
    <3>2. PICK S \in {Granted(g, e) : g \in Grants(c, AddOperations(c)), e \in Grantees(c)} : b \in S
      BY <3>1
    <3> QED
      BY <3>2
  <2>2. g[1] \in AclResources /\ g[2] \subseteq Operations
    BY GrantsTyped
  <2>3. e[1] \in AclPrincipals /\ e[2] \in {"Allow", "Deny"} /\ HostsFor(c, e[2]) \subseteq AclHosts
    BY GranteesTyped
  <2> QED
    BY <1>1, <2>1, <2>2, <2>3 DEF Binding
<1> QED
  BY <1>2

LEMMA AclsTyped ==
  ASSUME AclsTypeOK, AclsPrepared, Fresh, Command(cmd), AclsNext
  PROVE  AclsTypeOK' /\ AclsPrepared'
<1>1. UNCHANGED cmd
  BY AclMoves, SameScript DEF scriptVars, cmd
<1>2. CASE ListAcls
  <2>1. ~ Is("acls", "add")'
    BY <1>1, <1>2 DEF ListAcls, Is
  <2> QED
    BY <2>1, <1>2 DEF ListAcls, AclsTypeOK, AclsPrepared
<1>3. CASE AddAcls
  <2>1. AclCommand(cmd)
    BY <1>3 DEF Command, AddAcls, Is
  <2>2. acls' = acls
    BY <1>3 DEF AddAcls
  <2>3. pc' = "decide" => seen' \subseteq Binding
    <3>1. CASE AddRefused(cmd)
      BY <1>3, <3>1 DEF AddAcls, Usage, Stop
    <3>2. CASE ~ AddRefused(cmd)
      <4>1. pc' = "decide" => seen' = Bindings(cmd) \ acls
        BY <1>3, <3>2 DEF AddAcls, Report, Tell, Read
      <4> QED
        BY <4>1, <2>1, <3>2, BindingsTyped
    <3> QED
      BY <3>1, <3>2
  <2> QED
    BY <2>2, <2>3 DEF AclsTypeOK, AclsPrepared, Binding, Operations
<1>4. CASE CreateAcls
  <2>1. seen \subseteq Binding
    BY <1>4 DEF CreateAcls, AclsPrepared
  <2>2. applied' \subseteq seen /\ pc' = "done"
    <3>1. CASE seen = {}
      BY <1>4, <3>1 DEF CreateAcls, Report, Tell, Fresh
    <3>2. CASE seen # {}
      <4>1. Request(seen, seen, {}, "rows")
        BY <1>4, <3>2 DEF CreateAcls
      <4> QED
        BY <4>1, RequestDoes
    <3> QED
      BY <3>1, <3>2
  <2>3. acls' = acls \cup applied'
    BY <1>4 DEF CreateAcls
  <2> QED
    BY <2>1, <2>2, <2>3 DEF AclsTypeOK, AclsPrepared, Binding, Operations
<1>5. CASE RemoveAcls
  <2>1. acls' \subseteq acls
    BY <1>5 DEF RemoveAcls
  <2>2. ~ Is("acls", "add")'
    BY <1>1, <1>5 DEF RemoveAcls, Is
  <2> QED
    BY <2>1, <2>2 DEF AclsTypeOK, AclsPrepared, Binding, Operations
<1>6. CASE AclsForeign
  <2>1. UNCHANGED <<pc, seen>>
    BY <1>6 DEF AclsForeign, Foreign, commandVars
  <2>2. AclsPrepared'
    BY <1>1, <2>1 DEF AclsPrepared, Is, Binding, Operations
  <2>3. acls' \subseteq Binding
    <3>1. ASSUME NEW p \in AclPrincipals, NEW r \in AclResources
          PROVE  [resource |-> r, pattern |-> "literal", principal |-> p,
                  host |-> "*", operation |-> "Describe", permission |-> "Allow"] \in Binding
      BY ClusterAssumption DEF Binding, Operations
    <3>2. CASE \E b \in acls : acls' = acls \ {b}
      BY <3>2 DEF AclsTypeOK
    <3>3. CASE \E p \in AclPrincipals, r \in AclResources :
                 acls' = acls \cup {[resource |-> r, pattern |-> "literal", principal |-> p,
                                     host |-> "*", operation |-> "Describe", permission |-> "Allow"]}
      BY <3>1, <3>3 DEF AclsTypeOK
    <3> QED
      BY <1>6, <3>2, <3>3 DEF AclsForeign
  <2> QED
    BY <2>2, <2>3 DEF AclsTypeOK, Binding, Operations
<1> QED
  BY <1>2, <1>3, <1>4, <1>5, <1>6 DEF AclsNext

-----------------------------------------------------------------------------
(* The configurations *)

LEMMA PairParts == \A first, second : <<first, second>>[1] = first /\ <<first, second>>[2] = second
  OBVIOUS

LEMMA OneKindEntry ==
  ASSUME NEW kind, NEW name, NEW key,
         key \in ScramKeys /\ kind \in QuotaKinds => kind = "user" /\ name # ""
  PROVE  ConfigEntry(<<{<<kind, name>>}, key>>)
<1> DEFINE pair == <<kind, name>>
           x == <<{pair}, key>>
<1>1. /\ x[1] = {pair} /\ x[2] = key /\ x = <<x[1], x[2]>>
      /\ pair[1] = kind /\ pair[2] = name
  BY PairParts
<1> HIDE DEF pair, x
<1>2. {y[1] : y \in x[1]} = {kind}
  BY <1>1
<1>3. pair = <<pair[1], pair[2]>>
  BY <1>1 DEF pair
<1>4. kind \in QuotaKinds /\ key \in ScramKeys => kind = "user" /\ name # ""
  OBVIOUS
<1>5. /\ \E k \in {kind} : {kind} = {k}
      /\ \A y \in x[1] : y = <<y[1], y[2]>>
      /\ \A y, z \in x[1] : y[1] = z[1] => y = z
      /\ x[2] \in ScramKeys /\ {kind} \subseteq QuotaKinds => {kind} = {"user"} /\ \A u \in x[1] : u[2] # ""
  BY <1>1, <1>3, <1>4
<1>6. ConfigEntry(x)
  BY <1>1, <1>2, <1>5 DEF ConfigEntry
<1> QED
  BY <1>6 DEF x, pair

\* The kinds and the names of a command are sequences, whichever way they were given.
LEMMA KindsTyped ==
  ASSUME NEW c, ConfigCommand(c)
  PROVE  Kinds(c) \in Seq(STRING) /\ EntityNames(c) \in Seq(STRING)
<1>1. /\ c.kinds \in Seq(STRING) /\ c.names \in Seq(STRING) /\ c.flags \in Seq(STRING \X STRING)
  BY DEF ConfigCommand
<1>2. ASSUME NEW i \in DOMAIN c.flags PROVE c.flags[i][1] \in STRING /\ c.flags[i][2] \in STRING
  <2>1. c.flags[i] \in STRING \X STRING
    BY <1>1
  <2> QED
    BY <2>1
<1>3. /\ [i \in DOMAIN c.flags |-> c.flags[i][1]] \in Seq(STRING)
      /\ [i \in DOMAIN c.flags |-> c.flags[i][2]] \in Seq(STRING)
  <2>1. DOMAIN c.flags = 1..Len(c.flags) /\ Len(c.flags) \in Nat
    BY <1>1
  <2>2. /\ [i \in DOMAIN c.flags |-> c.flags[i][1]] \in [1..Len(c.flags) -> STRING]
        /\ [i \in DOMAIN c.flags |-> c.flags[i][2]] \in [1..Len(c.flags) -> STRING]
    BY <1>2, <2>1
  <2>3. \A f, n : n \in Nat /\ f \in [1..n -> STRING] => f \in Seq(STRING)
    OBVIOUS
  <2> QED
    BY <2>1, <2>2, <2>3
<1> DEFINE firsts == [i \in DOMAIN c.flags |-> c.flags[i][1]]
           seconds == [i \in DOMAIN c.flags |-> c.flags[i][2]]
<1>4. Kinds(c) \in {c.kinds, firsts} /\ EntityNames(c) \in {c.names, seconds, <<>>}
  BY DEF Kinds, EntityNames
<1>5. <<>> \in Seq(STRING)
  OBVIOUS
<1> HIDE DEF firsts, seconds
<1>6. firsts \in Seq(STRING) /\ seconds \in Seq(STRING)
  BY <1>3 DEF firsts, seconds
<1> QED
  BY <1>1, <1>4, <1>5, <1>6

\* The name of a user whose credentials are altered is not empty.
LEMMA NamedUser ==
  ASSUME NEW c, ConfigCommand(c), AlterArgsOk(c), SingleResourceOk(c, TRUE), ~ EntityDefault(c)
  PROVE  EntityNames(c)[1] # ""
<1>1. /\ Len(Kinds(c)) = 1 /\ EntityNames(c) # <<>> /\ Kinds(c) \in Seq(STRING)
      /\ EntityNames(c) \in Seq(STRING)
  BY KindsTyped DEF SingleResourceOk
<1>2. CASE Generic(c)
  <2>1. "" \notin Elements(EntityNames(c))
    BY <1>2 DEF AlterArgsOk, EntityNamesOk
  <2>2. 1 \in DOMAIN EntityNames(c)
    BY <1>1
  <2> QED
    BY <2>1, <2>2 DEF Elements
<1>3. CASE ~ Generic(c)
  <2>1. ~ OnlyDefault(c)
    BY <1>3 DEF EntityDefault
  <2>2. /\ Kinds(c) = [i \in DOMAIN c.flags |-> c.flags[i][1]]
        /\ EntityNames(c) = [i \in DOMAIN c.flags |-> c.flags[i][2]]
    BY <1>3, <2>1 DEF Kinds, EntityNames
  <2>3. Len(c.flags) = 1 /\ 1 \in DOMAIN c.flags
    <3>1. c.flags \in Seq(STRING \X STRING)
      BY DEF ConfigCommand
    <3>2. DOMAIN Kinds(c) = DOMAIN c.flags
      BY <2>2
    <3>3. DOMAIN c.flags = 1..Len(c.flags) /\ Len(c.flags) \in Nat
      BY <3>1
    <3>4. 1 \in DOMAIN Kinds(c) /\ 2 \notin DOMAIN Kinds(c)
      BY <1>1
    <3>5. Len(c.flags) >= 1 /\ ~ Len(c.flags) >= 2
      BY <3>2, <3>3, <3>4
    <3>6. \A n \in Nat : n >= 1 /\ ~ n >= 2 => n = 1
      OBVIOUS
    <3>7. Len(c.flags) = 1
      BY <3>3, <3>5, <3>6
    <3> QED
      BY <3>2, <3>4, <3>7
  <2> QED
    BY <2>1, <2>2, <2>3 DEF OnlyDefault
<1> QED
  BY <1>2, <1>3

LEMMA EntityTyped ==
  ASSUME NEW c, ConfigCommand(c), AlterArgsOk(c), SingleResourceOk(c, TRUE),
         Only(c, "user") \/ ~ IsQuota(c) \/ OnlyScram(c), NEW key \in c.add
  PROVE  ConfigEntry(<<Entity(c), key>>)
<1>1. /\ Len(Kinds(c)) = 1 /\ Kinds(c) \in Seq(STRING) /\ Kinds(c) # <<>> /\ 1 \in DOMAIN Kinds(c)
      /\ \A i \in DOMAIN Kinds(c) : i = 1
  <2>1. Len(Kinds(c)) = 1 /\ Kinds(c) \in Seq(STRING)
    BY KindsTyped DEF SingleResourceOk
  <2>2. DOMAIN Kinds(c) = 1..Len(Kinds(c))
    BY <2>1
  <2>3. 1 \in DOMAIN Kinds(c) /\ \A i \in DOMAIN Kinds(c) : i = 1
    BY <2>1, <2>2
  <2>4. Kinds(c) # <<>>
    <3>1. Len(<<>>) = 0 /\ 0 # 1
      OBVIOUS
    <3>2. ASSUME NEW s, Len(s) = 1 PROVE s # <<>>
      BY <3>1, <3>2, Zenon
    <3> QED
      BY <2>1, <3>2, Zenon
  <2> QED
    BY <2>1, <2>3, <2>4
<1>2. CASE EntityDefault(c)
  <2>1. Entity(c) = {<<"brokerDefault", "">>}
    BY <1>2 DEF Entity, KindOf
  <2> QED
    BY <2>1, OneKindEntry DEF QuotaKinds
<1>3. CASE ~ EntityDefault(c)
  <2>1. Entity(c) = {<<Kinds(c)[1], EntityNames(c)[1]>>} /\ EntityNames(c)[1] # ""
    BY <1>3, NamedUser DEF Entity
  <2>2. ASSUME Kinds(c)[1] \in QuotaKinds PROVE Kinds(c)[1] = "user"
    <3>1. CASE Only(c, "user")
      BY <3>1 DEF Only
    <3>2. CASE ~ Only(c, "user")
      <4>1. IsQuota(c)
        BY <2>2, <1>1 DEF IsQuota, Elements
      <4>2. OnlyScram(c) /\ QuotaKeysOk(c) /\ Changes(c) # {}
        BY <3>2, <4>1 DEF AlterArgsOk
      <4>3. Changes(c) \cap ScramKeys # {}
        BY <4>2 DEF OnlyScram
      <4> QED
        BY <3>2, <4>2, <4>3 DEF QuotaKeysOk
    <3> QED
      BY <3>1, <3>2
  <2> QED
    BY <2>1, <2>2, OneKindEntry
<1> QED
  BY <1>2, <1>3

LEMMA QuotaEntityTyped ==
  ASSUME NEW c, ConfigCommand(c), AlterArgsOk(c), IsQuota(c), ~ OnlyScram(c), NEW key \in c.add
  PROVE  ConfigEntry(<<QuotaEntity(c), key>>)
<1> DEFINE name(i) == IF EntityDefault(c) THEN "" ELSE EntityNames(c)[i]
           x == <<QuotaEntity(c), key>>
           kinds == {y[1] : y \in QuotaEntity(c)}
<1>1. x[1] = QuotaEntity(c) /\ x[2] = key /\ x = <<x[1], x[2]>>
  BY PairParts
<1>2. QuotaEntity(c) = {<<Kinds(c)[i], name(i)>> : i \in DOMAIN Kinds(c)}
  BY DEF QuotaEntity
<1>3. kinds = Elements(Kinds(c))
  <2>1. \A i \in DOMAIN Kinds(c) : <<Kinds(c)[i], name(i)>>[1] = Kinds(c)[i]
    BY PairParts
  <2> HIDE DEF name
  <2>2. ASSUME NEW k \in kinds PROVE k \in Elements(Kinds(c))
    BY <1>2, <2>1 DEF Elements
  <2>3. ASSUME NEW i \in DOMAIN Kinds(c) PROVE Kinds(c)[i] \in kinds
    BY <1>2, <2>1
  <2> QED
    BY <2>2, <2>3 DEF Elements
<1>4. \A y, z \in QuotaEntity(c) : y[1] = z[1] => y = z
  <2>1. ASSUME NEW y \in QuotaEntity(c), NEW z \in QuotaEntity(c), y[1] = z[1] PROVE y = z
    <3> HIDE DEF name
    <3>1. PICK i \in DOMAIN Kinds(c) : y = <<Kinds(c)[i], name(i)>>
      BY <1>2
    <3>2. PICK j \in DOMAIN Kinds(c) : z = <<Kinds(c)[j], name(j)>>
      BY <1>2
    <3>3. i = j
      BY <2>1, <3>1, <3>2 DEF AlterArgsOk, EntityKindsOk
    <3> QED
      BY <3>1, <3>2, <3>3
  <2> QED
    BY <2>1
<1>5. (\E k \in kinds : kinds = {k}) \/ kinds = {"user", "client"}
  <2>1. Kinds(c) \in Seq(STRING) /\ Kinds(c) # <<>>
    BY KindsTyped DEF IsQuota
  <2>2. CASE Len(Kinds(c)) > 1
    BY <1>3, <2>2 DEF AlterArgsOk, EntityKindsOk
  <2>3. CASE ~ Len(Kinds(c)) > 1
    <3>1. 1 \in DOMAIN Kinds(c) /\ \A i \in DOMAIN Kinds(c) : i = 1
      BY <2>1, <2>3
    <3>2. Elements(Kinds(c)) = {Kinds(c)[1]}
      BY <3>1 DEF Elements
    <3> QED
      BY <1>3, <3>2
  <2> QED
    BY <2>2, <2>3
<1>6. key \notin ScramKeys
  <2>1. SUFFICES ASSUME key \in ScramKeys PROVE FALSE
    OBVIOUS
  <2>2. Changes(c) \cap ScramKeys # {}
    BY <2>1 DEF Changes
  <2>3. Changes(c) \ ScramKeys = {}
    BY <2>2 DEF AlterArgsOk, QuotaKeysOk
  <2> QED
    BY <2>3 DEF OnlyScram
<1>7. {y[1] : y \in x[1]} = kinds
  BY <1>1
<1>8. \A y \in QuotaEntity(c) : y = <<y[1], y[2]>>
  <2> HIDE DEF name
  <2> QED
    BY <1>2
<1> HIDE DEF x, kinds
<1>9. ConfigEntry(x)
  <2>1. \A y, z \in x[1] : y[1] = z[1] => y = z
    BY <1>1, <1>4
  <2>2. x[2] \notin ScramKeys
    BY <1>1, <1>6
  <2>3. (\E k \in {y[1] : y \in x[1]} : {y[1] : y \in x[1]} = {k}) \/ {y[1] : y \in x[1]} = {"user", "client"}
    BY <1>5, <1>7, Zenon
  <2>4. \A y \in x[1] : y = <<y[1], y[2]>>
    BY <1>1, <1>8
  <2> QED
    BY <1>1, <2>1, <2>2, <2>3, <2>4, Zenon DEF ConfigEntry
<1> QED
  BY <1>9 DEF x

LEMMA AlterEntityTyped ==
  ASSUME ConfigsTypeOK, NEW entity, NEW can, NEW manner, AlterEntity(entity, can, manner),
         \A key \in cmd.add : ConfigEntry(<<entity, key>>)
  PROVE  ConfigsTypeOK' /\ pc' = "done"
<1>1. pc' = "done"
  BY RequestDoes DEF AlterEntity
<1>2. configs' \subseteq configs \cup ({entity} \X cmd.add)
  BY DEF AlterEntity, Altered
<1>3. ASSUME NEW x \in {entity} \X cmd.add PROVE ConfigEntry(x)
  <2>1. PICK key \in cmd.add : x = <<entity, key>>
    OBVIOUS
  <2> QED
    BY <2>1
<1>4. \A x \in configs' : ConfigEntry(x)
  BY <1>2, <1>3 DEF ConfigsTypeOK
<1> QED
  BY <1>1, <1>4 DEF ConfigsTypeOK, ConfigEntry

\* The entity of a command that stays is the entity it was.
LEMMA EntityStays ==
  ASSUME UNCHANGED cmd
  PROVE  Entity(cmd)' = Entity(cmd) /\ QuotaEntity(cmd)' = QuotaEntity(cmd)
<1>1. Kinds(cmd)' = Kinds(cmd) /\ EntityNames(cmd)' = EntityNames(cmd)
  BY DEF Kinds, EntityNames, Generic, OnlyDefault
<1>2. EntityDefault(cmd)' = EntityDefault(cmd)
  BY DEF EntityDefault, Generic, OnlyDefault
<1>3. Entity(cmd)' = Entity(cmd)
  BY <1>1, <1>2 DEF Entity, KindOf
<1> QED
  BY <1>1, <1>2, <1>3 DEF QuotaEntity

LEMMA AlterConfigPrepares ==
  ASSUME ConfigCommand(cmd), AlterConfig, UNCHANGED cmd
  PROVE  ConfigsPrepared'
<1> DEFINE QuotaOk == \A key \in cmd.add : ConfigEntry(<<QuotaEntity(cmd), key>>)
           EntityOk == \A key \in cmd.add : ConfigEntry(<<Entity(cmd), key>>)
<1>1. /\ pc' \in {"decide", "quota"} => QuotaOk
      /\ pc' \in {"scram", "identify", "protocol", "resource"} => EntityOk
  <2>1. CASE ~ AlterArgsOk(cmd)
    BY <2>1 DEF AlterConfig, Usage, Stop
  <2>2. CASE AlterArgsOk(cmd) /\ IsQuota(cmd) /\ ~ OnlyScram(cmd)
    <3>1. QuotaOk
      BY <2>2, QuotaEntityTyped
    <3>2. pc' \in {"done", "decide"}
      BY <2>2 DEF AlterConfig, Usage, Stop, Goto, Read, Preview, Report, Tell
    <3> QED
      BY <3>1, <3>2
  <2>3. CASE AlterArgsOk(cmd) /\ ~ (IsQuota(cmd) /\ ~ OnlyScram(cmd))
    <3>1. CASE ~ SingleResourceOk(cmd, TRUE)
      BY <2>3, <3>1 DEF AlterConfig, Usage, Stop
    <3>2. CASE SingleResourceOk(cmd, TRUE)
      <4>1. EntityOk
        BY <2>3, <3>2, EntityTyped
      <4>2. pc' \in {"done", "scram", "identify", "resource"}
        <5>1. \/ pc' = "done"
              \/ Goto("scram") \/ Goto("identify") \/ Goto("resource")
          <6> HIDE DEF QuotaOk, EntityOk
          <6> QED
            BY <2>3, <3>2 DEF AlterConfig, Usage, Stop, Preview, Report, Tell
        <5> QED
          BY <5>1 DEF Goto, Read
      <4> QED
        BY <4>1, <4>2
    <3> QED
      BY <3>1, <3>2
  <2> QED
    BY <2>1, <2>2, <2>3
<1>2. /\ (\A key \in cmd.add : ConfigEntry(<<QuotaEntity(cmd), key>>))' = QuotaOk
      /\ (\A key \in cmd.add : ConfigEntry(<<Entity(cmd), key>>))' = EntityOk
  BY EntityStays
<1> QED
  BY <1>1, <1>2 DEF ConfigsPrepared

\* What has been checked does not depend on where the command is.
LEMMA PreparedStays ==
  ASSUME ConfigsPrepared, UNCHANGED cmd,
         \/ UNCHANGED pc
         \/ pc' = "done"
         \/ pc = "decide" /\ pc' = "quota"
         \/ pc = "identify" /\ pc' = "protocol"
         \/ ~ Is("configs", "alter")
  PROVE  ConfigsPrepared'
<1> DEFINE QuotaOk == \A key \in cmd.add : ConfigEntry(<<QuotaEntity(cmd), key>>)
           EntityOk == \A key \in cmd.add : ConfigEntry(<<Entity(cmd), key>>)
<1>1. QuotaOk' = QuotaOk /\ EntityOk' = EntityOk /\ Is("configs", "alter")' = Is("configs", "alter")
  <2>1. QuotaOk' = QuotaOk /\ EntityOk' = EntityOk
    BY EntityStays
  <2>2. Is("configs", "alter")' = Is("configs", "alter")
    BY DEF Is
  <2> QED
    BY <2>1, <2>2
<1>2. ConfigsPrepared =
        (Is("configs", "alter") =>
           /\ pc \in {"decide", "quota"} => QuotaOk
           /\ pc \in {"scram", "identify", "protocol", "resource"} => EntityOk)
  BY DEF ConfigsPrepared
<1>3. ConfigsPrepared' =
        (Is("configs", "alter")' =>
           /\ pc' \in {"decide", "quota"} => QuotaOk'
           /\ pc' \in {"scram", "identify", "protocol", "resource"} => EntityOk')
  BY DEF ConfigsPrepared
<1> HIDE DEF QuotaOk, EntityOk
<1> QED
  BY <1>1, <1>2, <1>3

\* The parameters of a new entry of client metrics.
LEMMA MetricsEntry == ASSUME NEW name, NEW key PROVE ConfigEntry(<<{<<"clientMetrics", name>>}, key>>)
  BY OneKindEntry DEF QuotaKinds

LEMMA ConfigsTyped ==
  ASSUME ConfigsTypeOK, ConfigsPrepared, Fresh, Command(cmd), ConfigsNext
  PROVE  ConfigsTypeOK' /\ ConfigsPrepared'
<1>1. UNCHANGED cmd
  BY ConfigMoves, SameScript DEF scriptVars, cmd
<1>2. ASSUME configs' \subseteq configs PROVE ConfigsTypeOK'
  BY <1>2 DEF ConfigsTypeOK, ConfigEntry
<1>3. CASE AlterConfig
  <2>1. ConfigCommand(cmd)
    BY <1>3 DEF Command, AlterConfig, Is
  <2>2. configs' \subseteq configs
    BY <1>3 DEF AlterConfig
  <2> QED
    BY <1>1, <1>2, <1>3, <2>1, <2>2, AlterConfigPrepares
<1>4. CASE ReadQuota
  <2>1. configs' \subseteq configs /\ pc = "decide" /\ pc' \in {"quota", "done"}
    BY <1>4 DEF ReadQuota, Goto, Read, Failed, Stop
  <2> QED
    BY <1>1, <1>2, <2>1, PreparedStays
<1>5. CASE AlterQuota
  <2>1. \A key \in cmd.add : ConfigEntry(<<QuotaEntity(cmd), key>>)
    BY <1>5 DEF AlterQuota, ConfigsPrepared
  <2>2. ConfigsTypeOK' /\ pc' = "done"
    BY <1>5, <2>1, AlterEntityTyped DEF AlterQuota
  <2> QED
    BY <1>1, <2>2, PreparedStays
<1>6. CASE AlterScram \/ AlterResource \/ AlterProtocol
  <2>1. \A key \in cmd.add : ConfigEntry(<<Entity(cmd), key>>)
    BY <1>6 DEF AlterScram, AlterResource, AlterProtocol, ConfigsPrepared
  <2>2. ConfigsTypeOK' /\ pc' = "done"
    BY <1>6, <2>1, AlterEntityTyped DEF AlterScram, AlterResource, AlterProtocol
  <2> QED
    BY <1>1, <2>2, PreparedStays
<1>7. CASE FindConfigBroker
  <2>1. configs' \subseteq configs /\ pc = "identify" /\ pc' \in {"protocol", "done"}
    BY <1>7 DEF FindConfigBroker, Goto, Read, Usage, Stop
  <2> QED
    BY <1>1, <1>2, <2>1, PreparedStays
<1>8. CASE DescribeQuota \/ DescribeScram \/ DescribeConfig \/ MetricsList \/ MetricsKeysRead \/ MetricsDelete
  <2>1. configs' \subseteq configs
    BY <1>8 DEF DescribeQuota, DescribeScram, DescribeConfig, MetricsList, MetricsKeysRead, MetricsDelete
  <2>2. ~ Is("configs", "alter")
    BY <1>8 DEF DescribeQuota, DescribeScram, DescribeConfig, MetricsList, MetricsKeysRead, MetricsDelete, Is
  <2> QED
    BY <1>1, <1>2, <2>1, <2>2, PreparedStays
<1>9. CASE MetricsAlter
  <2>1. ~ Is("configs", "alter")
    BY <1>9 DEF MetricsAlter, Is
  <2>2. CASE UNCHANGED configs
    BY <1>1, <1>2, <2>1, <2>2, PreparedStays
  <2>3. CASE AlterEntity(Metrics(cmd), TRUE, "rows")
    <3>1. \A key \in cmd.add : ConfigEntry(<<Metrics(cmd), key>>)
      BY MetricsEntry DEF Metrics
    <3>2. ConfigsTypeOK'
      BY <2>3, <3>1, AlterEntityTyped
    <3> QED
      BY <1>1, <2>1, <3>2, PreparedStays
  <2> QED
    BY <1>9, <2>2, <2>3 DEF MetricsAlter
<1>10. CASE ConfigsForeign
  <2>1. UNCHANGED pc
    BY <1>10 DEF ConfigsForeign, Foreign, commandVars
  <2>2. ConfigsTypeOK'
    <3>1. CASE \E x \in configs : configs' = configs \ {x}
      BY <1>2, <3>1
    <3>2. CASE \E k \in {"interval.ms", "match"} :
                 configs' = configs \cup {<<{<<"clientMetrics", "m">>}, k>>}
      <4>1. PICK k : configs' = configs \cup {<<{<<"clientMetrics", "m">>}, k>>}
        BY <3>2
      <4>2. ConfigEntry(<<{<<"clientMetrics", "m">>}, k>>)
        BY MetricsEntry
      <4> DEFINE x == <<{<<"clientMetrics", "m">>}, k>>
      <4> HIDE DEF x
      <4>3. \A y \in configs' : ConfigEntry(y)
        BY <4>1, <4>2 DEF ConfigsTypeOK, x
      <4> QED
        BY <4>3 DEF ConfigsTypeOK, ConfigEntry, QuotaKinds, ScramKeys
    <3> QED
      BY <1>10, <3>1, <3>2 DEF ConfigsForeign
  <2> QED
    BY <1>1, <2>1, <2>2, PreparedStays
<1> QED
  BY <1>3, <1>4, <1>5, <1>6, <1>7, <1>8, <1>9, <1>10 DEF ConfigsNext

-----------------------------------------------------------------------------
(* The features *)

LEMMA FeaturesTyped ==
  ASSUME FeaturesTypeOK, Fresh, FeaturesNext
  PROVE  FeaturesTypeOK'
<1>1. levels \in [Features -> 0..32] /\ \A f \in Features : levels[f] \in 0..MaximumLevel(f)
  BY DEF FeaturesTypeOK, FeatureLevelsOk
<1>2. \A f : MaximumLevel(f) \in 0..32
  BY DEF MaximumLevel
<1>3. ASSUME UNCHANGED levels PROVE FeaturesTypeOK'
  BY <1>3 DEF FeaturesTypeOK, FeatureLevelsOk, Features, ProductionFeatures, Metadata, MaximumLevel
<1>4. CASE UpdateFeatures
  <2> DEFINE chosen(f) == CHOOSE u \in applied' : u[1] = f
  <2>1. levels' = [f \in Features |-> IF \E u \in applied' : u[1] = f THEN chosen(f)[2] ELSE levels[f]]
    BY <1>4 DEF UpdateFeatures
  <2>2. \A u \in applied' : u[2] \in 0..MaximumLevel(u[1])
    <3>1. CASE UpdatesRefused(cmd)
      BY <1>4, <3>1 DEF UpdateFeatures, Usage, Stop, Fresh
    <3>2. CASE ~ UpdatesRefused(cmd) /\ cmd.dryRun
      BY <1>4, <3>2 DEF UpdateFeatures, DryRun, Tell, Fresh
    <3>3. CASE ~ UpdatesRefused(cmd) /\ ~ cmd.dryRun
      <4> DEFINE can == {u \in FeatureUpdates(cmd) : MayUpdate(cmd, u)}
      <4>1. Request(FeatureUpdates(cmd), can, {}, "rows")
        BY <1>4, <3>3 DEF UpdateFeatures
      <4>2. applied' \subseteq can
        BY <4>1, RequestDoes
      <4> QED
        BY <4>2 DEF MayUpdate
    <3> QED
      BY <3>1, <3>2, <3>3
  <2>3. ASSUME NEW f \in Features PROVE levels'[f] \in 0..MaximumLevel(f)
    <3>1. CASE \E u \in applied' : u[1] = f
      <4>1. chosen(f) \in applied' /\ chosen(f)[1] = f
        BY <3>1
      <4>2. levels'[f] = chosen(f)[2]
        BY <2>1, <3>1
      <4> QED
        BY <2>2, <4>1, <4>2
    <3>2. CASE ~ \E u \in applied' : u[1] = f
      BY <1>1, <2>1, <3>2
    <3> QED
      BY <3>1, <3>2
  <2>4. levels' \in [Features -> 0..32]
    <3>1. DOMAIN levels' = Features /\ levels' = [f \in Features |-> levels'[f]]
      BY <2>1
    <3>2. \A f \in Features : levels'[f] \in 0..32
      BY <1>2, <2>3
    <3> QED
      BY <3>1, <3>2
  <2> QED
    BY <2>3, <2>4 DEF FeaturesTypeOK, FeatureLevelsOk, Features, ProductionFeatures, Metadata, MaximumLevel
<1>5. CASE FeaturesForeign
  <2>1. PICK f \in {"group.version", "share.version"} :
          levels' = [levels EXCEPT ![f] = IF @ = 0 THEN 1 ELSE 0]
    BY <1>5 DEF FeaturesForeign
  <2>2. f \in Features /\ {0, 1} \subseteq 0..MaximumLevel(f) /\ {0, 1} \subseteq 0..32
    BY DEF Features, ProductionFeatures, MaximumLevel, Metadata
  <2>3. levels' \in [Features -> 0..32] /\ \A g \in Features : levels'[g] \in 0..MaximumLevel(g)
    BY <1>1, <2>1, <2>2
  <2> QED
    BY <2>3 DEF FeaturesTypeOK, FeatureLevelsOk, Features, ProductionFeatures, Metadata, MaximumLevel
<1> QED
  BY <1>3, <1>4, <1>5 DEF FeaturesNext, DescribeFeatures, VersionMapping, FeatureDependencies

-----------------------------------------------------------------------------
(* The cluster: quorum, tokens and servers *)

QuorumTypeOK == quorum \in Quorums
ServersTypeOK == servers \in [Servers -> {"alive", "fenced", "gone"}]
TokensTypeOK ==
  /\ tokens \subseteq [id : 1..MaxTokens, owner : Owners \cup {"self"}, expiry : {"max", "renewed", "set"}]
  /\ \A t, u \in tokens : t.id = u.id => t = u
  /\ lastToken \in 0..MaxTokens /\ \A t \in tokens : t.id <= lastToken

LEMMA ClusterParts == ClusterTypeOK <=> QuorumTypeOK /\ ServersTypeOK /\ TokensTypeOK
  BY DEF ClusterTypeOK, QuorumTypeOK, ServersTypeOK, TokensTypeOK
LEMMA ClusterPartsNext == ClusterTypeOK' <=> QuorumTypeOK' /\ ServersTypeOK' /\ TokensTypeOK'
  BY DEF ClusterTypeOK, QuorumTypeOK, ServersTypeOK, TokensTypeOK

LEMMA ClusterStays ==
  ASSUME ClusterTypeOK
  PROVE  /\ UNCHANGED quorum => QuorumTypeOK'
         /\ UNCHANGED servers => ServersTypeOK'
         /\ UNCHANGED <<tokens, lastToken>> => TokensTypeOK'
  BY ClusterParts DEF QuorumTypeOK, ServersTypeOK, TokensTypeOK, Quorums

LEMMA VotersTyped ==
  ASSUME ClusterTypeOK, QuorumPrepared, Fresh, Command(cmd), AlterVoters
  PROVE  QuorumTypeOK' /\ pc' = "done"
<1> DEFINE adds == cmd.action = "add-controller"
           can == IF adds THEN {cmd.node} \ quorum.voters ELSE {cmd.node} \cap quorum.voters
<1>1. quorum \in [leader : Controllers, voters : SUBSET Controllers, observers : SUBSET Controllers]
      /\ quorum.voters \cap quorum.observers = {}
  BY DEF ClusterTypeOK, Quorums
<1>2. can \subseteq Controllers
  <2>1. CASE adds
    <3>1. QuorumCommand(cmd) /\ cmd.hasConfig /\ cmd.complete
      BY <2>1 DEF AlterVoters, Is, Command, QuorumPrepared
    <3> QED
      BY <2>1, <3>1 DEF QuorumCommand
  <2>2. CASE ~ adds
    BY <2>2, <1>1
  <2> QED
    BY <2>1, <2>2
<1>3. applied' \subseteq can /\ pc' = "done"
  <2>1. CASE cmd.dryRun
    BY <2>1 DEF AlterVoters, Report, Tell, Fresh
  <2>2. CASE ~ cmd.dryRun
    <3>1. Request({cmd.node}, can, {}, "firstError")
      BY <2>2 DEF AlterVoters
    <3> HIDE DEF can
    <3> QED
      BY <3>1, RequestDoes
  <2> QED
    BY <2>1, <2>2
<1>4. quorum' = IF applied' = {} THEN quorum
                ELSE IF cmd.action = "add-controller"
                THEN [quorum EXCEPT !.voters = @ \cup applied', !.observers = @ \ applied']
                ELSE [quorum EXCEPT !.voters = @ \ applied', !.observers = @ \cup applied']
  BY DEF AlterVoters
<1>5. applied' \subseteq Controllers
  BY <1>2, <1>3
<1> HIDE DEF can
<1>6. quorum' \in Quorums
  <2>1. CASE applied' = {}
    BY <2>1, <1>1, <1>4 DEF Quorums
  <2>2. CASE applied' # {} /\ adds
    BY <2>2, <1>1, <1>4, <1>5 DEF Quorums
  <2>3. CASE applied' # {} /\ ~ adds
    BY <2>3, <1>1, <1>4, <1>5 DEF Quorums
  <2> QED
    BY <2>1, <2>2, <2>3
<1> QED
  BY <1>3, <1>6 DEF QuorumTypeOK, Quorums

LEMMA ServersTyped ==
  ASSUME ClusterTypeOK, Unregister \/ ServersForeign
  PROVE  ServersTypeOK'
<1>1. servers \in [Servers -> {"alive", "fenced", "gone"}]
  BY DEF ClusterTypeOK
<1>2. CASE Unregister
  BY <1>1, <1>2 DEF Unregister, ServersTypeOK
<1>3. CASE ServersForeign
  <2>1. PICK s \in Servers : servers' = [servers EXCEPT ![s] = IF @ = "alive" THEN "fenced" ELSE "alive"]
    BY <1>3 DEF ServersForeign
  <2> QED
    BY <1>1, <2>1 DEF ServersTypeOK
<1> QED
  BY <1>2, <1>3

\* A token is created with an identifier of its own and for one owner.
LEMMA CreationTyped ==
  ASSUME TokensTypeOK, Fresh, Command(cmd), CreateToken
  PROVE  TokensTypeOK'
<1> DEFINE owner == IF cmd.owners = {} THEN {"self"} ELSE cmd.owners
           Tokens == [id : 1..MaxTokens, owner : Owners \cup {"self"}, expiry : {"max", "renewed", "set"}]
           new == [id : applied', expiry : {"max"}, owner : owner]
<1>0. MaxTokens \in Nat /\ lastToken \in 0..MaxTokens
  BY BoundsAssumption DEF TokensTypeOK
<1>1. CASE UNCHANGED clusterVars
  BY <1>1 DEF clusterVars, TokensTypeOK
<1>2. CASE ~ UNCHANGED clusterVars
  <2>1. /\ lastToken < MaxTokens /\ PrincipalsOk(cmd.owners) /\ ~ Cardinality(cmd.owners) > 1
        /\ Request({lastToken + 1}, {lastToken + 1}, {}, "firstError")
        /\ lastToken' = lastToken + Cardinality(applied')
        /\ tokens' = tokens \cup new
    BY <1>2 DEF CreateToken
  <2>2. TokenCommand(cmd) /\ cmd.action = "create"
    BY DEF CreateToken, TokenTool, Is, Command
  <2>3. applied' \subseteq {lastToken + 1}
    BY <2>1, RequestDoes
  <2>4. owner \subseteq Owners \cup {"self"} /\ \A v, w \in owner : v = w
    <3>1. IsFiniteSet(cmd.owners) /\ cmd.owners \subseteq Owners \cup {"self", ""} /\ "" \notin cmd.owners
      BY <2>1, <2>2 DEF TokenCommand, PrincipalsOk
    <3>2. \A v, w \in cmd.owners : v = w
      <4>1. ASSUME NEW v \in cmd.owners, NEW w \in cmd.owners, v # w PROVE FALSE
        <5>1. Cardinality({v} \cup {w}) = 2 /\ {v} \cup {w} \subseteq cmd.owners
          <6>1. IsFiniteSet({v}) /\ Cardinality({v}) = 1 /\ w \notin {v}
            BY <4>1, FS_Singleton
          <6>2. Cardinality({v} \cup {w}) = 1 + 1
            BY <6>1, FS_AddElement
          <6> QED
            BY <6>2
        <5>2. Cardinality({v} \cup {w}) <= Cardinality(cmd.owners)
          BY <3>1, FS_Subset
        <5>3. Cardinality(cmd.owners) \in Nat
          BY <3>1, FS_CardinalityType
        <5>4. \A m, n \in Nat : m = 2 /\ m <= n => n > 1
          OBVIOUS
        <5>5. Cardinality({v} \cup {w}) \in Nat
          BY <5>1
        <5>6. Cardinality(cmd.owners) > 1
          BY <5>1, <5>2, <5>3, <5>4, <5>5, Zenon
        <5> QED
          BY <2>1, <5>6, Zenon
      <4> QED
        BY <4>1
    <3> QED
      BY <3>1, <3>2
  <2> HIDE DEF owner
  <2>5. CASE applied' = {}
    <3>1. Cardinality(applied') = 0
      BY <2>5, FS_EmptySet
    <3>2. new = {}
      BY <2>5
    <3>3. UNCHANGED <<tokens, lastToken>>
      <4>1. tokens' = tokens \cup new /\ lastToken' = lastToken + 0 /\ lastToken \in Int
        BY <1>0, <2>1, <3>1
      <4> HIDE DEF new
      <4> QED
        BY <3>2, <4>1
    <3> QED
      BY <3>3 DEF TokensTypeOK
  <2>6. CASE applied' = {lastToken + 1}
    <3>1. Cardinality(applied') = 1
      BY <2>6, FS_Singleton
    <3>2. lastToken' = lastToken + 1 /\ lastToken' \in 0..MaxTokens /\ lastToken + 1 \in 1..MaxTokens
      BY <1>0, <2>1, <3>1
    <3>3. \A t \in new : /\ t \in Tokens /\ t.id = lastToken + 1 /\ t.expiry = "max" /\ t.owner \in owner
                         /\ t = [id |-> t.id, expiry |-> t.expiry, owner |-> t.owner]
      BY <2>4, <2>6, <3>2
    <3>4. tokens' \subseteq Tokens
      BY <2>1, <3>3 DEF TokensTypeOK
    <3>5. ASSUME NEW t \in tokens', NEW u \in tokens', t.id = u.id PROVE t = u
      <4>1. \A k \in tokens : k.id \in Int /\ k.id <= lastToken
        BY <1>0 DEF TokensTypeOK
      <4>2. CASE t \in tokens /\ u \in tokens
        BY <3>5, <4>2 DEF TokensTypeOK
      <4>3. CASE t \in new /\ u \in new
        <5>1. t.owner = u.owner /\ t.expiry = u.expiry
          BY <2>4, <3>3, <4>3
        <5>2. /\ t = [id |-> t.id, expiry |-> t.expiry, owner |-> t.owner]
              /\ u = [id |-> u.id, expiry |-> u.expiry, owner |-> u.owner]
          BY <3>3, <4>3
        <5> QED
          BY <3>5, <5>1, <5>2
      <4>4. CASE (t \in tokens /\ u \in new) \/ (t \in new /\ u \in tokens)
        BY <1>0, <3>3, <3>5, <4>1, <4>4
      <4> QED
        BY <2>1, <4>2, <4>3, <4>4
    <3>6. \A t \in tokens' : t.id <= lastToken'
      <4>1. \A k \in tokens : k.id \in Int /\ k.id <= lastToken
        BY <1>0 DEF TokensTypeOK
      <4> QED
        BY <1>0, <2>1, <3>2, <3>3, <4>1
    <3> QED
      BY <3>2, <3>4, <3>5, <3>6 DEF TokensTypeOK
  <2> QED
    BY <2>3, <2>5, <2>6
<1> QED
  BY <1>1, <1>2

\* To renew or expire a token changes when it expires, or takes it away.
LEMMA ExpiryTyped ==
  ASSUME TokensTypeOK, NEW expiry \in {"renewed", "set"}, UNCHANGED lastToken,
         \/ tokens' = tokens
         \/ tokens' = (tokens \ Known) \cup {[t EXCEPT !.expiry = expiry] : t \in Known}
         \/ tokens' = tokens \ Known
  PROVE  TokensTypeOK'
<1> DEFINE Tokens == [id : 1..MaxTokens, owner : Owners \cup {"self"}, expiry : {"max", "renewed", "set"}]
           again == {[t EXCEPT !.expiry = expiry] : t \in Known}
<1>1. CASE tokens' \subseteq tokens
  BY <1>1 DEF TokensTypeOK
<1>2. CASE tokens' = (tokens \ Known) \cup again
  <2>1. \A t \in tokens : t \in Tokens
    BY DEF TokensTypeOK
  <2>2. ASSUME NEW u \in again
        PROVE  \E t \in Known : u = [t EXCEPT !.expiry = expiry] /\ u \in Tokens /\ u.id = t.id
    <3>1. PICK t \in Known : u = [t EXCEPT !.expiry = expiry]
      BY <2>2
    <3>2. t \in Tokens
      BY <2>1, <3>1 DEF Known
    <3> QED
      BY <3>1, <3>2
  <2> HIDE DEF Tokens, again
  <2>3. tokens' \subseteq Tokens /\ \A t \in tokens' : t.id <= lastToken'
    BY <1>2, <2>1, <2>2 DEF TokensTypeOK, Known
  <2>4. ASSUME NEW t \in tokens', NEW u \in tokens', t.id = u.id PROVE t = u
    <3>1. \A x, y \in tokens : x.id = y.id => x = y
      BY DEF TokensTypeOK
    <3>2. CASE t \in tokens \ Known /\ u \in tokens \ Known
      BY <2>4, <3>1, <3>2
    <3>3. CASE t \in again /\ u \in again
      <4>1. PICK x \in Known : t = [x EXCEPT !.expiry = expiry] /\ t.id = x.id
        BY <2>2, <3>3
      <4>2. PICK y \in Known : u = [y EXCEPT !.expiry = expiry] /\ u.id = y.id
        BY <2>2, <3>3
      <4>3. x = y
        BY <2>4, <3>1, <4>1, <4>2 DEF Known
      <4> QED
        BY <4>1, <4>2, <4>3
    <3>4. ASSUME NEW v \in tokens \ Known, NEW w \in again PROVE v.id # w.id
      <4>1. PICK y \in Known : w.id = y.id
        BY <2>2
      <4> QED
        BY <4>1 DEF Known
    <3> QED
      BY <1>2, <2>4, <3>2, <3>3, <3>4
  <2> QED
    BY <2>3, <2>4 DEF TokensTypeOK, Tokens
<1> QED
  BY <1>1, <1>2

LEMMA ClusterTyped ==
  ASSUME ClusterTypeOK, QuorumPrepared, Fresh, Command(cmd), ClusterNext
  PROVE  ClusterTypeOK' /\ QuorumPrepared'
<1>1. UNCHANGED cmd
  BY ClusterMoves, SameScript DEF scriptVars, cmd
<1>2. QuorumTypeOK /\ ServersTypeOK /\ TokensTypeOK
  BY ClusterParts
<1>3. ASSUME ~ Is("metadata-quorum", "add-controller") \/ pc' # "identify" \/ UNCHANGED pc
      PROVE  QuorumPrepared'
  BY <1>1, <1>3 DEF QuorumPrepared, Is
<1>4. CASE UNCHANGED clusterVars
  <2>1. ClusterTypeOK'
    BY <1>4, ClusterStays, ClusterPartsNext DEF clusterVars
  <2>2. CASE AddController
    <3>1. pc' = "identify" => cmd.hasConfig /\ cmd.complete
      BY <2>2 DEF AddController, Usage, Stop, NotAController, Failed
    <3> QED
      BY <1>1, <2>1, <3>1 DEF QuorumPrepared
  <2>3. CASE ~ AddController
    <3>1. ~ Is("metadata-quorum", "add-controller") \/ pc' # "identify" \/ UNCHANGED pc
      BY <2>3 DEF ClusterNext, DescribeQuorum, DescribeQuorumStatus, RemoveController, AlterVoters, CreateToken,
          DescribeTokens, RenewToken, ExpireToken, TokenTool, ListEndpoints, ListFencedEndpoints, ApiVersions,
          Unregister, QuorumForeign, ServersForeign, Foreign, commandVars, Is
    <3> QED
      BY <1>3, <2>1, <3>1
  <2> QED
    BY <2>2, <2>3
<1>5. CASE AlterVoters
  <2>1. QuorumTypeOK' /\ pc' = "done"
    BY <1>5, VotersTyped
  <2>2. UNCHANGED <<servers, tokens, lastToken>>
    BY <1>5 DEF AlterVoters
  <2> QED
    BY <1>3, <2>1, <2>2, ClusterStays, ClusterPartsNext
<1>6. CASE CreateToken
  <2>1. UNCHANGED <<quorum, servers>> /\ ~ Is("metadata-quorum", "add-controller")
    BY <1>6 DEF CreateToken, clusterVars, TokenTool, Is
  <2>2. TokensTypeOK'
    BY <1>2, <1>6, CreationTyped
  <2> QED
    BY <1>3, <2>1, <2>2, ClusterStays, ClusterPartsNext
<1>7. CASE RenewToken \/ ExpireToken
  <2>1. UNCHANGED <<quorum, servers, lastToken>> /\ ~ Is("metadata-quorum", "add-controller")
    BY <1>7 DEF RenewToken, ExpireToken, TokenTool, Is
  <2>2. CASE RenewToken
    <3>1. \/ tokens' = tokens
          \/ tokens' = (tokens \ Known) \cup {[t EXCEPT !.expiry = "renewed"] : t \in Known}
      BY <2>2 DEF RenewToken
    <3> QED
      BY <1>2, <1>3, <2>1, <3>1, ExpiryTyped, ClusterStays, ClusterPartsNext
  <2>3. CASE ExpireToken
    <3>1. \/ tokens' = tokens
          \/ tokens' = (tokens \ Known) \cup {[t EXCEPT !.expiry = "set"] : t \in Known}
          \/ tokens' = tokens \ Known
      BY <2>3 DEF ExpireToken
    <3> QED
      BY <1>2, <1>3, <2>1, <3>1, ExpiryTyped, ClusterStays, ClusterPartsNext
  <2> QED
    BY <1>7, <2>2, <2>3
<1>8. CASE Unregister \/ ServersForeign
  <2>1. UNCHANGED <<quorum, tokens, lastToken>> /\ ~ Is("metadata-quorum", "add-controller")
    BY <1>8 DEF Unregister, ServersForeign, Is
  <2> QED
    BY <1>3, <1>8, <2>1, ServersTyped, ClusterStays, ClusterPartsNext
<1>9. CASE QuorumForeign
  <2>1. UNCHANGED <<pc, servers, tokens, lastToken>>
    BY <1>9 DEF QuorumForeign, Foreign, commandVars
  <2>2. PICK n \in quorum.voters : quorum' = [quorum EXCEPT !.leader = n]
    BY <1>9 DEF QuorumForeign
  <2>3. quorum' \in Quorums
    BY <1>2, <2>2 DEF QuorumTypeOK, Quorums
  <2>4. QuorumTypeOK'
    BY <2>3 DEF QuorumTypeOK, Quorums
  <2> QED
    BY <1>3, <2>1, <2>4, ClusterStays, ClusterPartsNext
<1> QED
  BY <1>4, <1>5, <1>6, <1>7, <1>8, <1>9
  DEF ClusterNext, DescribeQuorum, DescribeQuorumStatus, AddController, RemoveController, DescribeTokens,
      ListEndpoints, ListFencedEndpoints, ApiVersions

-----------------------------------------------------------------------------
(* The partitions *)

LEMMA DeletedTyped ==
  ASSUME PartsTypeOK, Fresh, Command(cmd), DeleteRecords
  PROVE  logStart' \in [Parts -> 0..LogEnd]
<1> DEFINE offset(p) == (CHOOSE r \in applied' : r.part = p).offset
<1>1. /\ logStart \in [Parts -> 0..LogEnd] /\ LogEnd \in Nat
      /\ logStart' = [p \in Parts |->
           IF \E r \in applied' : r.part = p /\ r.offset > logStart[p] THEN offset(p) ELSE logStart[p]]
  BY ClusterAssumption DEF PartsTypeOK, DeleteRecords
<1>2. \A r \in applied' : r.offset \in 0..LogEnd
  <2>1. CASE ~ RecordsFileOk(cmd)
    BY <2>1 DEF DeleteRecords, Usage, Stop, Fresh
  <2>2. CASE RecordsFileOk(cmd) /\ ~ cmd.execute
    BY <2>2 DEF DeleteRecords, Report, Tell, Fresh
  <2>3. CASE RecordsFileOk(cmd) /\ cmd.execute
    <3> DEFINE can == {r \in Records(cmd) : MayDelete(r)}
    <3>1. Request(Records(cmd), can, {}, "lenient")
      BY <2>3 DEF DeleteRecords
    <3>2. applied' \subseteq can
      BY <3>1, RequestDoes
    <3>3. \A r \in Records(cmd) : r.offset \in Int /\ r.offset >= 0
      <4>1. RecordsCommand(cmd)
        BY DEF DeleteRecords, Is, Command
      <4> QED
        BY <2>3, <4>1 DEF RecordsCommand, Records, RecordsFileOk
    <3> QED
      BY <1>1, <3>2, <3>3 DEF MayDelete
  <2> QED
    BY <2>1, <2>2, <2>3
<1>3. ASSUME NEW p \in Parts, \E r \in applied' : r.part = p PROVE offset(p) \in 0..LogEnd
  <2>1. (CHOOSE r \in applied' : r.part = p) \in applied'
    BY <1>3
  <2> QED
    BY <1>2, <2>1
<1> HIDE DEF offset
<1> QED
  BY <1>1, <1>3

LEMMA PartsTyped ==
  ASSUME PartsTypeOK, Fresh, Command(cmd), PartsNext
  PROVE  PartsTypeOK'
<1>1. /\ logStart \in [Parts -> 0..LogEnd] /\ tiered \subseteq Parts
      /\ leader \in [Parts -> {"preferred", "other", "none"}]
  BY DEF PartsTypeOK
<1>2. CASE UNCHANGED partVars
  BY <1>1, <1>2 DEF partVars, PartsTypeOK
<1>3. CASE DeleteRecords
  <2>1. UNCHANGED <<tiered, leader>>
    BY <1>3 DEF DeleteRecords
  <2> QED
    BY <1>1, <1>3, <2>1, DeletedTyped DEF PartsTypeOK
<1>4. CASE ElectLeaders
  <2>1. UNCHANGED <<logStart, tiered>> /\ leader' \in [Parts -> {"preferred", "other", "none"}]
    BY <1>1, <1>4 DEF ElectLeaders
  <2> QED
    BY <1>1, <2>1 DEF PartsTypeOK
<1>5. CASE PartsForeign
  <2>1. PICK p \in Parts :
          \/ logStart[p] < LogEnd /\ logStart' = [logStart EXCEPT ![p] = @ + 1] /\ UNCHANGED <<tiered, leader>>
          \/ tiered' = tiered \cup {p} /\ UNCHANGED <<logStart, leader>>
          \/ \E who \in {"preferred", "other", "none"} :
               leader' = [leader EXCEPT ![p] = who] /\ UNCHANGED <<logStart, tiered>>
    BY <1>5 DEF PartsForeign
  <2>2. CASE logStart[p] < LogEnd /\ logStart' = [logStart EXCEPT ![p] = @ + 1] /\ UNCHANGED <<tiered, leader>>
    <3>1. logStart[p] + 1 \in 0..LogEnd
      BY <1>1, <2>2, ClusterAssumption
    <3> QED
      BY <1>1, <2>2, <3>1 DEF PartsTypeOK
  <2>3. CASE tiered' = tiered \cup {p} /\ UNCHANGED <<logStart, leader>>
    BY <1>1, <2>3 DEF PartsTypeOK
  <2>4. CASE \E who \in {"preferred", "other", "none"} :
               leader' = [leader EXCEPT ![p] = who] /\ UNCHANGED <<logStart, tiered>>
    BY <1>1, <2>4 DEF PartsTypeOK
  <2> QED
    BY <2>1, <2>2, <2>3, <2>4
<1> QED
  BY <1>2, <1>3, <1>4, <1>5 DEF PartsNext, OffsetsStart, ListOffsets, LogDirsStart, DescribeLogDirs

-----------------------------------------------------------------------------
(* All of them *)

\* What a step leaves alone keeps its type.
LEMMA ClusterFrame ==
  ASSUME TypeOK
  PROVE  /\ UNCHANGED topicVars => TopicsTypeOK'
         /\ UNCHANGED acls => AclsTypeOK'
         /\ UNCHANGED configs => ConfigsTypeOK'
         /\ UNCHANGED levels => FeaturesTypeOK'
         /\ UNCHANGED clusterVars => ClusterTypeOK'
         /\ UNCHANGED partVars => PartsTypeOK'
<1>1. UNCHANGED topicVars => TopicsTypeOK'
  BY DEF TypeOK, topicVars, TopicsTypeOK, TopicRecords
<1>2. UNCHANGED acls => AclsTypeOK'
  BY DEF TypeOK, AclsTypeOK, Binding, Operations
<1>3. UNCHANGED configs => ConfigsTypeOK'
  BY DEF TypeOK, ConfigsTypeOK, ConfigEntry, QuotaKinds, ScramKeys
<1>4. UNCHANGED levels => FeaturesTypeOK'
  BY DEF TypeOK, FeaturesTypeOK, FeatureLevelsOk, Features, ProductionFeatures, Metadata, MaximumLevel
<1>5. UNCHANGED clusterVars => ClusterTypeOK'
  BY ClusterStays, ClusterPartsNext DEF TypeOK, clusterVars
<1>6. UNCHANGED partVars => PartsTypeOK'
  BY DEF TypeOK, partVars, PartsTypeOK
<1> QED
  BY <1>1, <1>2, <1>3, <1>4, <1>5, <1>6

\* A command of one tool has nothing to do with what another has checked.
LEMMA OtherPrepared ==
  ASSUME Prepared, UNCHANGED cmd
  PROVE  /\ cmd.tool # "acls" => AclsPrepared'
         /\ cmd.tool # "configs" => ConfigsPrepared'
         /\ cmd.tool # "metadata-quorum" => QuorumPrepared'
<1>1. cmd.tool # "configs" => ConfigsPrepared'
  BY PreparedStays DEF Prepared, Is
<1> QED
  BY <1>1 DEF AclsPrepared, QuorumPrepared, Is

LEMMA Tools ==
  /\ TopicsNext => cmd.tool = "topics"
  /\ AclsNext => cmd.tool = "acls"
  /\ ConfigsNext => cmd.tool \in {"configs", "client-metrics"}
  /\ FeaturesNext => cmd.tool = "features"
  /\ ClusterNext => cmd.tool \in {"metadata-quorum", "delegation-tokens", "cluster"}
  /\ PartsNext => cmd.tool \in {"offsets", "delete-records", "leader-election", "log-dirs"}
<1> USE DEF Is
<1>1. TopicsNext => cmd.tool = "topics"
  BY DEF TopicsNext, ListTopics, DescribeTopics, IdentifyTopics, ReadTopicConfigs, DescribePartitions, CreateTopic,
         SelectTopics, AlterTopics, DeleteTopics, TopicsForeign
<1>2. AclsNext => cmd.tool = "acls"
  BY DEF AclsNext, ListAcls, AddAcls, CreateAcls, RemoveAcls, AclsForeign
<1>3. ConfigsNext => cmd.tool \in {"configs", "client-metrics"}
  BY DEF ConfigsNext, AlterConfig, ReadQuota, AlterQuota, AlterScram, AlterResource, FindConfigBroker, AlterProtocol,
         DescribeQuota, DescribeScram, DescribeConfig, MetricsList, MetricsAlter, MetricsKeysRead, MetricsDelete,
         ConfigsForeign
<1>4. FeaturesNext => cmd.tool = "features"
  BY DEF FeaturesNext, DescribeFeatures, UpdateFeatures, VersionMapping, FeatureDependencies, FeaturesForeign
<1>5. ClusterNext => cmd.tool \in {"metadata-quorum", "delegation-tokens", "cluster"}
  BY DEF ClusterNext, DescribeQuorum, DescribeQuorumStatus, AddController, RemoveController, AlterVoters, CreateToken,
         DescribeTokens, RenewToken, ExpireToken, TokenTool, ListEndpoints, ListFencedEndpoints, ApiVersions,
         Unregister, QuorumForeign, ServersForeign
<1>6. PartsNext => cmd.tool \in {"offsets", "delete-records", "leader-election", "log-dirs"}
  BY DEF PartsNext, OffsetsStart, ListOffsets, DeleteRecords, ElectLeaders, LogDirsStart, DescribeLogDirs, PartsForeign
<1> QED
  BY <1>1, <1>2, <1>3, <1>4, <1>5, <1>6

\* A step of a command keeps the invariant.
LEMMA ToolTyped ==
  ASSUME AdminInv, Step
  PROVE  /\ AdminTypeOK' /\ Fresh' /\ UNCHANGED cmd /\ Command(cmd)
         /\ cmd.tool # "acls" => AclsPrepared'
         /\ cmd.tool # "configs" => ConfigsPrepared'
         /\ cmd.tool # "metadata-quorum" => QuorumPrepared'
<1>1. UNCHANGED cmd
  BY SameScript DEF scriptVars, cmd
<1> QED
  BY <1>1, StepTyped, StepKept, CommandOk, OtherPrepared DEF AdminInv, TypeOK

LEMMA AdminInvNext ==
  ASSUME AdminInv, [Next]_vars
  PROVE  AdminInv'
<1> USE DEF AdminInv, TypeOK, Prepared
<1>1. CASE TopicsNext /\ UNCHANGED <<acls, configs, levels, clusterVars, partVars>>
  BY <1>1, Tools, TopicMoves, ToolTyped, TopicsTyped, ClusterFrame
<1>2. CASE AclsNext /\ UNCHANGED <<topicVars, configs, levels, clusterVars, partVars>>
  BY <1>2, Tools, AclMoves, ToolTyped, AclsTyped, ClusterFrame
<1>3. CASE ConfigsNext /\ UNCHANGED <<topicVars, acls, levels, clusterVars, partVars>>
  BY <1>3, Tools, ConfigMoves, ToolTyped, ConfigsTyped, ClusterFrame
<1>4. CASE FeaturesNext /\ UNCHANGED <<topicVars, acls, configs, clusterVars, partVars>>
  BY <1>4, Tools, FeatureMoves, ToolTyped, FeaturesTyped, ClusterFrame
<1>5. CASE ClusterNext /\ UNCHANGED <<topicVars, acls, configs, levels, partVars>>
  BY <1>5, Tools, ClusterMoves, ToolTyped, ClusterTyped, ClusterFrame
<1>6. CASE PartsNext /\ UNCHANGED <<topicVars, acls, configs, levels, clusterVars>>
  BY <1>6, Tools, PartitionMoves, ToolTyped, PartsTyped, ClusterFrame
<1>7. CASE (CallFails \/ NextCommand) /\ UNCHANGED clusterState
  <2>1. AdminTypeOK' /\ Fresh'
    BY <1>7, CallFailsTyped, NextCommandTyped, CallFailsKept, NextCommandKept
  <2>2. pc' \in {"done", "start"}
    BY <1>7 DEF CallFails, NextCommand
  <2>3. Prepared'
    BY <2>2 DEF AclsPrepared, ConfigsPrepared, QuorumPrepared
  <2> QED
    BY <1>7, <2>1, <2>3, ClusterFrame DEF clusterState
<1>8. CASE UNCHANGED vars
  <2>1. UNCHANGED cmd /\ UNCHANGED <<pc, seen>>
    BY <1>8 DEF vars, adminVars, commandVars, scriptVars, cmd
  <2>2. Prepared'
    BY <2>1, PreparedStays DEF AclsPrepared, QuorumPrepared, Is, Binding, Operations
  <2>3. AdminTypeOK'
    BY <1>8 DEF vars, adminVars, commandVars, scriptVars, AdminTypeOK
  <2> QED
    BY <1>8, <2>2, <2>3, StutterKept, ClusterFrame DEF vars, clusterState
<1> QED
  BY <1>1, <1>2, <1>3, <1>4, <1>5, <1>6, <1>7, <1>8 DEF Next

LEMMA InitTyped == Init => AdminInv
<1> SUFFICES ASSUME Init PROVE AdminInv
  OBVIOUS
<1>1. AdminTypeOK
  <2>1. script \in Scripts /\ turn = 1 /\ past = <<>> /\ exit = "none" /\ pc = "start" /\ calm = TRUE
        /\ applied = {} /\ asked = {} /\ rows = {}
    BY DEF Init, AdminInit
  <2>2. script \in Seq(Elements(script)) /\ script # <<>>
    BY <2>1, ScriptsAssumption
  <2>3. turn \in 1..Len(script)
    BY <2>1, <2>2
  <2>4. \A S : <<>> \in Seq(S)
    OBVIOUS
  <2>5. Len(<<>>) = 0
    OBVIOUS
  <2> QED
    BY <2>1, <2>3, <2>4, <2>5 DEF AdminTypeOK
<1>2. TopicsTypeOK
  <2>1. topics = InitialTopics /\ lastId = Cardinality({n \in Names : InitialTopics[n].id # 0})
    BY DEF Init, TopicNames, Exists
  <2>2. Cardinality({n \in Names : InitialTopics[n].id # 0}) \in Nat
    BY ClusterAssumption, FS_Subset, FS_CardinalityType
  <2> QED
    BY <2>1, <2>2, ClusterAssumption, BoundsAssumption DEF TopicsTypeOK
<1>3. AclsTypeOK /\ ConfigsTypeOK /\ FeaturesTypeOK
  BY ClusterAssumption DEF Init, AclsTypeOK, ConfigsTypeOK, FeaturesTypeOK
<1>4. ClusterTypeOK
  BY ClusterAssumption, BoundsAssumption DEF Init, ClusterTypeOK
<1>5. PartsTypeOK
  BY ClusterAssumption DEF Init, PartsTypeOK
<1>6. Prepared
  BY DEF Init, AdminInit, Prepared, AclsPrepared, ConfigsPrepared, QuorumPrepared
<1> QED
  BY <1>1, <1>2, <1>3, <1>4, <1>5, <1>6, InitFresh DEF AdminInv, TypeOK

\* In every state of the administrative commands the variables have their types: a topic
\* has partitions exactly if it exists, bindings and configurations are such as the
\* cluster can hold, a feature has a level it knows, voters and observers are
\* apart, no two tokens have one identifier, and what was done was asked for.
THEOREM AdminTypes == Spec => []TypeOK
<1>1. AdminInv /\ [Next]_vars => AdminInv'
  BY AdminInvNext
<1>2. AdminInv => TypeOK
  BY DEF AdminInv
<1> QED
  BY <1>1, <1>2, InitTyped, PTL DEF Spec

-----------------------------------------------------------------------------
(* What describe and list show *)

\* The topics that describe is about, with their identifiers.
TopicsFound ==
  {i \in {<<n, topics[n].id>> : n \in Selected(cmd.selector)} :
     Given(NonzeroId(cmd.selector), LAMBDA t : SameId(t, i[2]))}
TopicsRead ==
  Is("topics", "describe") =>
    /\ pc # "start" => TopicIdOk(cmd.selector)
    /\ pc = "identify" => seen = Selected(cmd.selector)
    /\ pc \in {"configs", "again"} => seen = TopicsFound
    /\ pc = "again" => ~ cmd.selector.overrides

\* Of a user the credentials are still to be read.
QuotasFound == {x \in configs : IsQuotaEntity(cmd, x[1]) /\ ~ Scram(x)}
ConfigsRead ==
  Is("configs", "describe") /\ pc = "scram" =>
    /\ Only(cmd, "user") /\ ~ EntityDefault(cmd) /\ EntityKindsOk(cmd) /\ QuotaEntityOk(cmd, FALSE)
    /\ seen = QuotasFound

LogDirsRead == Is("log-dirs", "describe") /\ pc = "decide" /\ cmd.topics = {} => seen = Parts

\* The inductive invariant of the reports: what has been read is what there is.
ReadIsThere == calm /\ exit = "none" => TopicsRead /\ ConfigsRead /\ LogDirsRead
ShownInv == ReadIsThere /\ DescribeTellsTheTruth

LEMMA ShownRows == ASSUME NEW items, Report(Rows(items, "shown")) PROVE Shown' = items
<1>1. rows' = Rows(items, "shown")
  BY DEF Report, Tell
<1>2. \A row \in Rows(items, "shown") : row[1] \in items /\ row[2] = "shown"
  BY DEF Rows
<1>3. \A i \in items : <<i, "shown">> \in Rows(items, "shown")
  BY DEF Rows
<1>4. \A i : <<i, "shown">>[1] = i /\ <<i, "shown">>[2] = "shown"
  OBVIOUS
<1>5. {row[1] : row \in {r \in Rows(items, "shown") : r[2] = "shown"}} = items
  BY <1>2, <1>3, <1>4
<1> QED
  BY <1>1, <1>5 DEF Shown, Items

\* Nothing makes a disturbed command undisturbed.
LEMMA CalmBefore == ASSUME Step, calm' PROVE calm
<1>1. CASE Foreign
  BY <1>1 DEF Foreign
<1>2. CASE Moves
  <2>1. ASSUME NEW next, NEW value, Read(next, value) PROVE calm
    BY <2>1 DEF Read
  <2>2. ASSUME NEW report, Report(report) PROVE calm
    BY <2>2 DEF Report, Tell
  <2>3. CASE Usage \/ Failed
    BY <2>3 DEF Usage, Failed, Stop
  <2>4. ASSUME NEW items, NEW can, DryRun(items, can) PROVE calm
    BY <2>4 DEF DryRun, Tell
  <2>5. ASSUME NEW items, NEW can, NEW noops, NEW manner, Request(items, can, noops, manner) PROVE calm
    BY <2>5, RequestDoes
  <2> QED
    BY <1>2, <2>1, <2>2, <2>3, <2>4, <2>5 DEF Moves
<1> QED
  BY <1>1, <1>2 DEF Step

LEMMA Elsewhere ==
  ASSUME UNCHANGED cmd
  PROVE  /\ cmd.tool # "topics" => TopicsRead' /\ TopicsShown'
         /\ cmd.tool \notin {"configs", "client-metrics"} => ConfigsRead' /\ ConfigsShown'
         /\ cmd.tool # "log-dirs" => LogDirsRead' /\ LogDirsShown'
  BY DEF TopicsRead, TopicsShown, ConfigsRead, ConfigsShown, LogDirsRead, LogDirsShown, Is

-----------------------------------------------------------------------------
(* Topics *)

\* The topics that the command line is about, whatever it asks of them.
Here(n) ==
  \/ NonzeroId(cmd.selector) # {} /\ \E t \in NonzeroId(cmd.selector) : t[1] = topics[n].id
  \/ NonzeroId(cmd.selector) = {} /\ Given(cmd.selector.topic, LAMBDA e : n \in e)
HereNames == {n \in TopicNames : Here(n) /\ (cmd.selector.excludeInternal => n \notin Internal)}

LEMMA SelectedIs ==
  ASSUME NEW n
  PROVE  n \in Selected(cmd.selector) <=>
           /\ n \in TopicNames /\ (cmd.selector.excludeInternal => n \notin Internal)
           /\ NonzeroId(cmd.selector) = {} => Given(cmd.selector.topic, LAMBDA e : n \in e)
  BY DEF Selected, Expression, Given

\* An identifier that both alphabets spell alike is known by its value.
LEMMA FoundIsHere ==
  ASSUME Is("topics", "describe"), Command(cmd), TopicIdOk(cmd.selector), ~ OtherAlphabet
  PROVE  TopicsFound = {<<n, topics[n].id>> : n \in HereNames}
<1> DEFINE ids == NonzeroId(cmd.selector)
<1>1. /\ IsOption(cmd.selector.topicId)
      /\ cmd.selector.topicId \subseteq Nat \X {"url", "standard", "bad"}
  <2>1. TopicCommand(cmd) /\ cmd.action = "describe"
    BY DEF Is, Command
  <2> QED
    BY <2>1 DEF TopicCommand
<1>2. ids \subseteq cmd.selector.topicId
  BY DEF NonzeroId
<1>3. ASSUME NEW t \in ids, NEW id PROVE SameId(t, id) <=> t[1] = id
  <2>1. t \in cmd.selector.topicId /\ t[2] \in {"url", "standard", "bad"}
    BY <1>1, <1>2
  <2>2. t[2] # "bad"
    BY <2>1 DEF TopicIdOk, Given
  <2>3. t[2] = "url" => t[1] \notin TwoSpellings
    BY <2>1 DEF OtherAlphabet
  <2> QED
    BY <2>1, <2>2, <2>3 DEF SameId
<1>4. ASSUME NEW n
      PROVE  (n \in Selected(cmd.selector) /\ \A t \in ids : SameId(t, topics[n].id)) <=> n \in HereNames
  <2> HIDE DEF ids
  <2>1. CASE ids = {}
    <3>1. n \in Selected(cmd.selector) <=>
            /\ n \in TopicNames /\ (cmd.selector.excludeInternal => n \notin Internal)
            /\ \A e \in cmd.selector.topic : n \in e
      BY <2>1, SelectedIs DEF ids, Given
    <3>2. n \in HereNames <=>
            /\ n \in TopicNames /\ (cmd.selector.excludeInternal => n \notin Internal)
            /\ \A e \in cmd.selector.topic : n \in e
      BY <2>1 DEF HereNames, Here, ids, Given
    <3> QED
      BY <2>1, <3>1, <3>2
  <2>2. CASE ids # {}
    <3>1. PICK t \in ids : TRUE
      BY <2>2
    <3>2. \A u \in ids : u = t
      BY <1>1, <1>2, <3>1 DEF IsOption
    <3>3. (\A u \in ids : SameId(u, topics[n].id)) <=> t[1] = topics[n].id
      BY <1>3, <3>1, <3>2
    <3>4. (\E u \in ids : u[1] = topics[n].id) <=> t[1] = topics[n].id
      BY <3>1, <3>2
    <3>5. n \in Selected(cmd.selector) <=>
            n \in TopicNames /\ (cmd.selector.excludeInternal => n \notin Internal)
      BY <2>2, SelectedIs DEF ids
    <3>6. n \in HereNames <=>
            /\ n \in TopicNames /\ (cmd.selector.excludeInternal => n \notin Internal)
            /\ \E u \in ids : u[1] = topics[n].id
      BY <2>2 DEF HereNames, Here, ids
    <3> QED
      BY <3>3, <3>4, <3>5, <3>6
  <2> QED
    BY <2>1, <2>2
<1>5. TopicsFound = {i \in {<<n, topics[n].id>> : n \in Selected(cmd.selector)} : \A t \in ids : SameId(t, i[2])}
  BY DEF TopicsFound, Given
<1> HIDE DEF ids
<1>6. ASSUME NEW i \in TopicsFound PROVE i \in {<<n, topics[n].id>> : n \in HereNames}
  <2>1. PICK n \in Selected(cmd.selector) : i = <<n, topics[n].id>> /\ \A t \in ids : SameId(t, i[2])
    BY <1>5, <1>6
  <2>2. \A t \in ids : SameId(t, topics[n].id)
    BY <2>1
  <2> QED
    BY <1>4, <2>1, <2>2
<1>7. ASSUME NEW n \in HereNames PROVE <<n, topics[n].id>> \in TopicsFound
  <2>1. n \in Selected(cmd.selector) /\ \A t \in ids : SameId(t, topics[n].id)
    BY <1>4
  <2> QED
    BY <1>5, <2>1
<1> QED
  BY <1>6, <1>7

LEMMA ToShowIs ==
  /\ cmd.action = "list" => TopicsToShow = {<<n, topics[n].id>> : n \in HereNames}
  /\ cmd.action # "list" =>
       TopicsToShow = {<<n, topics[n].id>> :
          n \in {n \in HereNames : IF cmd.selector.overrides THEN topics[n].overrides
                                   ELSE PartitionMatches(cmd.selector, n)}}
<1> DEFINE Fits(n) == IF cmd.action = "list" THEN TRUE
                      ELSE IF cmd.selector.overrides THEN topics[n].overrides ELSE PartitionMatches(cmd.selector, n)
<1>1. TopicsToShow = {<<n, topics[n].id>> : n \in {n \in HereNames : Fits(n)}}
  BY DEF TopicsToShow, HereNames, Here
<1>2. cmd.action = "list" => {n \in HereNames : Fits(n)} = HereNames
  OBVIOUS
<1>3. cmd.action # "list" =>
        {n \in HereNames : Fits(n)} =
        {n \in HereNames : IF cmd.selector.overrides THEN topics[n].overrides ELSE PartitionMatches(cmd.selector, n)}
  OBVIOUS
<1> HIDE DEF Fits
<1> QED
  BY <1>1, <1>2, <1>3

LEMMA TopicsSame ==
  ASSUME UNCHANGED <<cmd, topics>>
  PROVE  /\ Selected(cmd.selector)' = Selected(cmd.selector) /\ TopicsFound' = TopicsFound
         /\ TopicsToShow' = TopicsToShow /\ OtherAlphabet' = OtherAlphabet
         /\ Is("topics", "describe")' = Is("topics", "describe")
  BY DEF Selected, Expression, TopicNames, Exists, TopicsFound, TopicsToShow, PartitionMatches, OtherAlphabet,
         NonzeroId, SameId, Given, Is

LEMMA TopicsTold ==
  ASSUME AdminInv, ShownInv, TopicsNext, calm'
  PROVE  /\ exit' = "none" => TopicsRead'
         /\ exit' # "none" => TopicsShown'
<1>1. Step /\ cmd.tool = "topics"
  BY TopicMoves, Tools
<1>2. UNCHANGED cmd /\ calm /\ Command(cmd) /\ Fresh /\ Fresh'
  BY <1>1, ToolTyped, CalmBefore DEF AdminInv
<1>3. CASE ListTopics
  <2>1. /\ Is("topics", "list") /\ UNCHANGED topics /\ pc' = "done" /\ exit' = "ok"
        /\ Report(Rows({<<n, topics[n].id>> : n \in Selected(cmd.selector)}, "shown"))
    BY <1>3 DEF ListTopics, topicVars, Report, Tell
  <2>2. NonzeroId(cmd.selector) = {}
    BY <1>2, <2>1 DEF Is, Command, TopicCommand, NonzeroId
  <2>3. Selected(cmd.selector) = HereNames
    <3>1. ASSUME NEW n PROVE n \in Selected(cmd.selector) <=> n \in HereNames
      BY <2>2, SelectedIs DEF HereNames, Here, Given
    <3>2. Selected(cmd.selector) \subseteq HereNames /\ HereNames \subseteq Selected(cmd.selector)
      BY <3>1
    <3> QED
      BY <3>2
  <2>4. Shown' = TopicsToShow
    BY <2>1, <2>3, ShownRows, ToShowIs DEF Is
  <2>5. Shown' = TopicsToShow'
    BY <1>2, <2>1, <2>4, TopicsSame
  <2> QED
    BY <2>1, <2>5 DEF TopicsShown
<1>4. CASE DescribeTopics
  <2>1. Is("topics", "describe") /\ UNCHANGED topics /\ pc = "start"
    BY <1>4 DEF DescribeTopics, topicVars
  <2>2. CASE TopicIdOk(cmd.selector)
    <3>1. pc' = "identify" /\ seen' = Selected(cmd.selector) /\ exit' = exit
      BY <1>4, <2>2 DEF DescribeTopics, Read
    <3>2. exit' = "none"
      BY <1>2, <2>1, <3>1 DEF Fresh
    <3>3. TopicIdOk(cmd.selector)'
      BY <1>2, <2>2 DEF TopicIdOk, Given
    <3> QED
      BY <1>2, <2>1, <3>1, <3>2, <3>3, TopicsSame DEF TopicsRead
  <2>3. CASE ~ TopicIdOk(cmd.selector)
    <3>1. exit' = "usage"
      BY <1>4, <2>3 DEF DescribeTopics, Usage, Stop
    <3>2. ~ TopicIdOk(cmd.selector)'
      BY <1>2, <2>3 DEF TopicIdOk, Given
    <3> QED
      BY <3>1, <3>2 DEF TopicsShown
  <2> QED
    BY <2>2, <2>3
<1>5. ASSUME Is("topics", "describe"), pc \notin {"start", "done"}
      PROVE  /\ TopicIdOk(cmd.selector) /\ TopicIdOk(cmd.selector)' /\ cmd.action = "describe"
             /\ pc = "identify" => seen = Selected(cmd.selector)
             /\ pc \in {"configs", "again"} => seen = TopicsFound
             /\ pc = "again" => ~ cmd.selector.overrides
  <2>1. TopicsRead
    BY <1>2, <1>5 DEF Fresh, ShownInv, ReadIsThere
  <2>2. TopicIdOk(cmd.selector)
    BY <1>5, <2>1 DEF TopicsRead
  <2>3. TopicIdOk(cmd.selector)'
    BY <1>2, <2>2 DEF TopicIdOk, Given
  <2> QED
    BY <1>5, <2>1, <2>2, <2>3 DEF TopicsRead, Is
<1>6. CASE IdentifyTopics
  <2>1. Is("topics", "describe") /\ UNCHANGED topics /\ pc = "identify"
    BY <1>6 DEF IdentifyTopics, topicVars
  <2>2. Chosen = TopicsFound
    BY <1>5, <2>1 DEF Chosen, Identified, TopicsFound
  <2>3. CASE Failed
    BY <1>2, <2>3 DEF Failed, Stop, TopicsShown
  <2>4. CASE Chosen = {} /\ Usage
    <3>1. ASSUME ~ OtherAlphabet PROVE TopicsToShow = {}
      <4>1. HereNames = {}
        <5>1. {<<n, topics[n].id>> : n \in HereNames} = {}
          BY <1>2, <1>5, <2>1, <2>2, <2>4, <3>1, FoundIsHere
        <5> QED
          BY <5>1
      <4> QED
        BY <2>1, <4>1, ToShowIs DEF Is
    <3>2. ~ OtherAlphabet' => TopicsToShow' = {}
      BY <1>2, <2>1, <3>1, TopicsSame
    <3> QED
      BY <2>4, <3>2 DEF TopicsShown, Usage, Stop
  <2>5. CASE Read("configs", Chosen)
    <3>1. pc' = "configs" /\ seen' = TopicsFound /\ exit' = "none"
      BY <1>2, <2>1, <2>2, <2>5 DEF Read, Fresh
    <3>2. seen' = TopicsFound'
      BY <1>2, <2>1, <3>1, TopicsSame
    <3> QED
      BY <1>5, <2>1, <3>1, <3>2 DEF TopicsRead
  <2> QED
    BY <1>6, <2>3, <2>4, <2>5 DEF IdentifyTopics
<1>7. CASE ReadTopicConfigs
  <2>1. Is("topics", "describe") /\ UNCHANGED topics /\ pc = "configs"
    BY <1>7 DEF ReadTopicConfigs, topicVars
  <2>2. CASE Failed
    BY <1>2, <2>2 DEF Failed, Stop, TopicsShown
  <2>3. CASE cmd.selector.overrides /\ Report(Rows({i \in seen : topics[i[1]].overrides}, "shown"))
    <3>1. exit' = "ok" /\ Shown' = {i \in TopicsFound : topics[i[1]].overrides}
      BY <1>5, <2>1, <2>3, ShownRows DEF Report, Tell
    <3>2. ASSUME ~ OtherAlphabet PROVE Shown' = TopicsToShow
      <4>1. TopicsFound = {<<n, topics[n].id>> : n \in HereNames}
        BY <1>2, <1>5, <2>1, <3>2, FoundIsHere
      <4>2. TopicsToShow = {<<n, topics[n].id>> : n \in {n \in HereNames : topics[n].overrides}}
        BY <1>5, <2>1, <2>3, ToShowIs
      <4>3. {i \in {<<n, topics[n].id>> : n \in HereNames} : topics[i[1]].overrides} =
              {<<n, topics[n].id>> : n \in {n \in HereNames : topics[n].overrides}}
        OBVIOUS
      <4> QED
        BY <3>1, <4>1, <4>2, <4>3
    <3>3. ~ OtherAlphabet' => Shown' = TopicsToShow'
      BY <1>2, <2>1, <3>2, TopicsSame
    <3> QED
      BY <3>1, <3>3 DEF TopicsShown
  <2>4. CASE ~ cmd.selector.overrides /\ Goto("again")
    <3>1. pc' = "again" /\ seen' = TopicsFound /\ exit' = "none" /\ ~ cmd'.selector.overrides
      BY <1>2, <1>5, <2>1, <2>4 DEF Goto, Read, Fresh
    <3>2. seen' = TopicsFound'
      BY <1>2, <2>1, <3>1, TopicsSame
    <3> QED
      BY <1>5, <2>1, <3>1, <3>2 DEF TopicsRead
  <2> QED
    BY <1>7, <2>2, <2>3, <2>4 DEF ReadTopicConfigs
<1>8. CASE DescribePartitions
  <2> DEFINE told == {i \in seen : i[1] \in Selected(cmd.selector) /\ PartitionMatches(cmd.selector, i[1])}
  <2>1. /\ Is("topics", "describe") /\ UNCHANGED topics /\ pc = "again" /\ exit' = "ok"
        /\ Report(Rows(told, "shown"))
    BY <1>8 DEF DescribePartitions, topicVars, Report, Tell
  <2>2. ASSUME ~ OtherAlphabet PROVE told = TopicsToShow
    <3>1. seen = {<<n, topics[n].id>> : n \in HereNames}
      BY <1>2, <1>5, <2>1, <2>2, FoundIsHere
    <3>2. TopicsToShow =
            {<<n, topics[n].id>> : n \in {n \in HereNames : PartitionMatches(cmd.selector, n)}}
      BY <1>5, <2>1, ToShowIs
    <3>3. \A n \in HereNames : n \in Selected(cmd.selector)
      BY SelectedIs DEF HereNames, Here
    <3>4. {i \in {<<n, topics[n].id>> : n \in HereNames} :
             i[1] \in Selected(cmd.selector) /\ PartitionMatches(cmd.selector, i[1])} =
            {<<n, topics[n].id>> : n \in {n \in HereNames : PartitionMatches(cmd.selector, n)}}
      BY <3>3
    <3> QED
      BY <3>1, <3>2, <3>4
  <2>3. Shown' = told
    <3> HIDE DEF told
    <3> QED
      BY <2>1, ShownRows
  <2> HIDE DEF told
  <2>4. ~ OtherAlphabet' => Shown' = TopicsToShow'
    BY <1>2, <2>1, <2>2, <2>3, TopicsSame
  <2> QED
    BY <2>1, <2>4 DEF TopicsShown
<1>9. CASE CreateTopic \/ SelectTopics \/ AlterTopics \/ DeleteTopics
  <2>1. cmd'.action \notin {"list", "describe"}
    BY <1>2, <1>9 DEF CreateTopic, SelectTopics, AlterTopics, DeleteTopics, Is
  <2> QED
    BY <2>1 DEF TopicsRead, TopicsShown, Is
<1>10. CASE TopicsForeign
  BY <1>10 DEF TopicsForeign, Foreign
<1> QED
  BY <1>3, <1>4, <1>6, <1>7, <1>8, <1>9, <1>10 DEF TopicsNext

-----------------------------------------------------------------------------
(* Directories *)

LEMMA LogDirsTold ==
  ASSUME AdminInv, ShownInv, PartsNext, calm'
  PROVE  /\ exit' = "none" => LogDirsRead'
         /\ exit' # "none" => LogDirsShown'
<1>1. Step
  BY PartitionMoves
<1>2. UNCHANGED cmd /\ calm /\ Fresh /\ Fresh'
  BY <1>1, ToolTyped, CalmBefore DEF AdminInv
<1>3. CASE LogDirsStart
  <2>1. CASE cmd.topics # {}
    BY <1>2, <2>1 DEF LogDirsRead, LogDirsShown
  <2>2. CASE cmd.topics = {}
    <3>1. Read("decide", {p \in Parts : Given(cmd.topics, LAMBDA names : p[1] \in names)})
      BY <1>3, <2>2 DEF LogDirsStart, Given
    <3>2. seen' = Parts
      BY <2>2, <3>1 DEF Read, Given
    <3>3. exit' = "none"
      BY <1>2, <1>3, <3>1 DEF Read, LogDirsStart, Fresh
    <3> QED
      BY <3>2, <3>3 DEF LogDirsRead
  <2> QED
    BY <2>1, <2>2
<1>4. CASE DescribeLogDirs
  <2> DEFINE told == UNION {{dir} \X (dir.replicas \cap seen) : dir \in {d \in LogDirs : OnBroker(cmd, d)}}
  <2>1. Is("log-dirs", "describe") /\ pc = "decide" /\ exit' = "ok" /\ Report(Rows(told, "shown"))
    BY <1>4 DEF DescribeLogDirs, Report, Tell
  <2>2. Shown' = told
    <3> HIDE DEF told
    <3> QED
      BY <2>1, ShownRows
  <2>3. ASSUME cmd.topics = {}, NEW dir \in LogDirs, OnBroker(cmd, dir), dir.replicas # {}
        PROVE  dir \in {row[1] : row \in told}
    <3>1. seen = Parts
      BY <1>2, <2>1, <2>3 DEF ShownInv, ReadIsThere, LogDirsRead, Fresh
    <3>2. PICK p \in dir.replicas : p \in Parts
      BY <2>3, ClusterAssumption
    <3>3. <<dir, p>> \in told
      <4>1. <<dir, p>> \in {dir} \X (dir.replicas \cap seen)
        BY <3>1, <3>2
      <4> QED
        BY <2>3, <4>1
    <3>4. <<dir, p>>[1] = dir
      OBVIOUS
    <3> HIDE DEF told
    <3> QED
      BY <3>3, <3>4
  <2> HIDE DEF told
  <2>4. \A dir \in LogDirs : OnBroker(cmd, dir)' = OnBroker(cmd, dir)
    BY <1>2 DEF OnBroker, Given
  <2> QED
    BY <1>2, <2>1, <2>2, <2>3, <2>4 DEF LogDirsShown
<1>5. CASE OffsetsStart \/ ListOffsets \/ DeleteRecords \/ ElectLeaders \/ PartsForeign
  <2>1. cmd'.tool # "log-dirs"
    BY <1>2, <1>5 DEF OffsetsStart, ListOffsets, DeleteRecords, ElectLeaders, PartsForeign, Is
  <2> QED
    BY <2>1 DEF LogDirsRead, LogDirsShown, Is
<1> QED
  BY <1>3, <1>4, <1>5 DEF PartsNext

-----------------------------------------------------------------------------
(* Configurations *)

\* The entries that a describe is about.
Wanted(x) ==
  /\ {e[1] : e \in x[1]} = IF EntityDefault(cmd) /\ Only(cmd, "broker") THEN {"brokerDefault"}
                           ELSE Elements(Kinds(cmd))
  /\ EntityDefault(cmd) => \A e \in x[1] : e[2] = ""
  /\ EntityNames(cmd) # <<>> => \A i \in DOMAIN Kinds(cmd) : <<Kinds(cmd)[i], EntityNames(cmd)[i]>> \in x[1]
  /\ Only(cmd, "group") => cmd.all

\* The shape of an entity: pairs, one name for each kind.
Entities(e) == (\A y \in e : y = <<y[1], y[2]>>) /\ \A y, z \in e : y[1] = z[1] => y = z
LEMMA EntryEntity == ASSUME NEW x, ConfigEntry(x) PROVE Entities(x[1])
  BY DEF ConfigEntry, Entities

\* An entity is known by its kinds and the name for each of them.
LEMMA NamedIs ==
  ASSUME NEW e, Entities(e), NEW kinds, NEW names
  PROVE  e = {<<kinds[i], names[i]>> : i \in DOMAIN kinds} <=>
           /\ {y[1] : y \in e} = Elements(kinds)
           /\ \A i \in DOMAIN kinds : <<kinds[i], names[i]>> \in e
<1> DEFINE entity == {<<kinds[i], names[i]>> : i \in DOMAIN kinds}
           first == {y[1] : y \in e}
<1>1. \A i : <<kinds[i], names[i]>>[1] = kinds[i]
  BY PairParts
<1>2. ASSUME e = entity
      PROVE  first = Elements(kinds) /\ \A i \in DOMAIN kinds : <<kinds[i], names[i]>> \in e
  <2>1. \A i \in DOMAIN kinds : <<kinds[i], names[i]>> \in e
    BY <1>2
  <2>2. ASSUME NEW k \in first PROVE k \in Elements(kinds)
    BY <1>1, <1>2, <2>2 DEF Elements
  <2>3. ASSUME NEW i \in DOMAIN kinds PROVE kinds[i] \in first
    BY <1>1, <2>1
  <2> QED
    BY <2>1, <2>2, <2>3 DEF Elements
<1>3. ASSUME first = Elements(kinds), \A i \in DOMAIN kinds : <<kinds[i], names[i]>> \in e
      PROVE  e = entity
  <2>1. ASSUME NEW y \in e PROVE y \in entity
    <3>1. PICK i \in DOMAIN kinds : y[1] = kinds[i]
      BY <1>3 DEF Elements
    <3>2. y = <<kinds[i], names[i]>>
      BY <1>1, <1>3, <3>1 DEF Entities
    <3> QED
      BY <3>2
  <2> QED
    BY <1>3, <2>1
<1> QED
  BY <1>2, <1>3

LEMMA DefaultIs ==
  ASSUME NEW e, Entities(e), NEW kind
  PROVE  e = {<<kind, "">>} <=> {y[1] : y \in e} = {kind} /\ \A y \in e : y[2] = ""
<1>1. <<kind, "">>[1] = kind /\ <<kind, "">>[2] = ""
  OBVIOUS
<1>2. ASSUME e = {<<kind, "">>} PROVE {y[1] : y \in e} = {kind} /\ \A y \in e : y[2] = ""
  BY <1>1, <1>2
<1>3. ASSUME {y[1] : y \in e} = {kind}, \A y \in e : y[2] = "" PROVE e = {<<kind, "">>}
  <2>1. ASSUME NEW y \in e PROVE y = <<kind, "">>
    <3>1. y[1] \in {z[1] : z \in e}
      OBVIOUS
    <3>2. y[1] = kind /\ y[2] = "" /\ y = <<y[1], y[2]>>
      BY <1>3, <3>1 DEF Entities
    <3> QED
      BY <3>2
  <2>2. PICK y \in e : TRUE
    BY <1>3
  <2> QED
    BY <2>1, <2>2
<1> QED
  BY <1>2, <1>3

\* With a default goes no name.
LEMMA DefaultNameless == ASSUME NEW c, ConfigCommand(c), EntityDefault(c) PROVE EntityNames(c) = <<>>
  BY DEF ConfigCommand, EntityDefault, EntityNames, Generic

\* A sequence of one kind.
LEMMA SingleKind ==
  ASSUME NEW s \in Seq(STRING), Len(s) = 1
  PROVE  /\ DOMAIN s = {1} /\ Elements(s) = {s[1]} /\ s = <<s[1]>>
<1>1. DOMAIN s = 1..Len(s)
  OBVIOUS
<1>2. DOMAIN s = {1}
  BY <1>1
<1>3. Elements(s) = {s[1]}
  BY <1>2 DEF Elements
<1>4. s = <<s[1]>>
  OBVIOUS
<1> QED
  BY <1>2, <1>3, <1>4

\* The only kind of a command that names one kind.
LEMMA OneKind ==
  ASSUME ConfigCommand(cmd), Kinds(cmd) # <<>>, ~ Len(Kinds(cmd)) > 1
  PROVE  /\ DOMAIN Kinds(cmd) = {1} /\ Elements(Kinds(cmd)) = {Kinds(cmd)[1]} /\ Kinds(cmd) = <<Kinds(cmd)[1]>>
         /\ \A kind : Only(cmd, kind) <=> Kinds(cmd)[1] = kind
<1>1. Kinds(cmd) \in Seq(STRING)
  BY KindsTyped
<1>2. Len(Kinds(cmd)) = 1
  <2>1. \A s \in Seq(STRING) : s # <<>> /\ ~ Len(s) > 1 => Len(s) = 1
    OBVIOUS
  <2> QED
    BY <1>1, <2>1
<1>3. DOMAIN Kinds(cmd) = {1} /\ Elements(Kinds(cmd)) = {Kinds(cmd)[1]} /\ Kinds(cmd) = <<Kinds(cmd)[1]>>
  BY <1>1, <1>2, SingleKind
<1>4. ASSUME NEW kind PROVE Only(cmd, kind) <=> Kinds(cmd)[1] = kind
  <2>1. <<kind>>[1] = kind
    OBVIOUS
  <2>2. Kinds(cmd) = <<kind>> => Kinds(cmd)[1] = kind
    BY <2>1
  <2>3. Kinds(cmd)[1] = kind => Kinds(cmd) = <<kind>>
    BY <1>3, Zenon
  <2> QED
    BY <2>2, <2>3 DEF Only
<1> QED
  BY <1>3, <1>4

LEMMA QuotaKindsOnly ==
  ASSUME IsQuota(cmd), NEW kind, kind \notin QuotaKinds
  PROVE  ~ Only(cmd, kind)
<1>1. SUFFICES ASSUME Kinds(cmd) = <<kind>> PROVE FALSE
  BY DEF Only
<1>2. DOMAIN <<kind>> = {1} /\ <<kind>>[1] = kind
  OBVIOUS
<1>3. kind \in Elements(Kinds(cmd))
  BY <1>1, <1>2 DEF Elements
<1> QED
  BY <1>3 DEF IsQuota

\* What describe asks of the quotas is what it is about.
LEMMA QuotaWanted ==
  ASSUME ConfigCommand(cmd), IsQuota(cmd), EntityKindsOk(cmd), QuotaEntityOk(cmd, FALSE), NEW x, ConfigEntry(x)
  PROVE  IsQuotaEntity(cmd, x[1]) <=> Wanted(x)
<1> DEFINE e == x[1]
           first == {y[1] : y \in e}
           ByNames == \A i \in DOMAIN Kinds(cmd) : <<Kinds(cmd)[i], EntityNames(cmd)[i]>> \in e
           Nameless == \A y \in e : y[2] = ""
<1>1. Entities(e)
  BY EntryEntity
<1>2. ~ Only(cmd, "broker") /\ ~ Only(cmd, "group")
  BY QuotaKindsOnly DEF QuotaKinds
<1>3. Wanted(x) <=>
        /\ first = Elements(Kinds(cmd))
        /\ EntityDefault(cmd) => Nameless
        /\ EntityNames(cmd) # <<>> => ByNames
  BY <1>2 DEF Wanted
<1>4. CASE EntityDefault(cmd)
  <2>1. Len(Kinds(cmd)) = 1 /\ EntityNames(cmd) = <<>> /\ Kinds(cmd) # <<>>
    BY <1>4 DEF QuotaEntityOk, IsQuota
  <2>2. DOMAIN Kinds(cmd) = {1} /\ Elements(Kinds(cmd)) = {Kinds(cmd)[1]}
    BY <2>1, OneKind
  <2>3. QuotaEntity(cmd) = {<<Kinds(cmd)[1], "">>}
    BY <1>4, <2>2 DEF QuotaEntity
  <2>4. IsQuotaEntity(cmd, e) <=> e = {<<Kinds(cmd)[1], "">>}
    BY <1>4, <2>3 DEF IsQuotaEntity
  <2>5. e = {<<Kinds(cmd)[1], "">>} <=> first = {Kinds(cmd)[1]} /\ Nameless
    BY <1>1, DefaultIs
  <2> HIDE DEF e, first, ByNames, Nameless
  <2>6. IsQuotaEntity(cmd, e) <=> Wanted(x)
    BY <1>3, <1>4, <2>1, <2>2, <2>4, <2>5
  <2> QED
    BY <2>6 DEF e
<1>5. CASE ~ EntityDefault(cmd) /\ EntityNames(cmd) # <<>>
  <2>1. IsQuotaEntity(cmd, e) <=> e = {<<Kinds(cmd)[i], EntityNames(cmd)[i]>> : i \in DOMAIN Kinds(cmd)}
    BY <1>5 DEF IsQuotaEntity, QuotaEntity
  <2>2. e = {<<Kinds(cmd)[i], EntityNames(cmd)[i]>> : i \in DOMAIN Kinds(cmd)} <=>
          first = Elements(Kinds(cmd)) /\ ByNames
    BY <1>1, NamedIs
  <2> HIDE DEF e, first, ByNames, Nameless
  <2>3. IsQuotaEntity(cmd, e) <=> Wanted(x)
    BY <1>3, <1>5, <2>1, <2>2
  <2> QED
    BY <2>3 DEF e
<1>6. CASE ~ EntityDefault(cmd) /\ EntityNames(cmd) = <<>>
  <2>1. IsQuotaEntity(cmd, e) <=> first = Elements(Kinds(cmd))
    BY <1>6 DEF IsQuotaEntity
  <2> HIDE DEF e, first, ByNames, Nameless
  <2>2. IsQuotaEntity(cmd, e) <=> Wanted(x)
    BY <1>3, <1>6, <2>1
  <2> QED
    BY <2>2 DEF e
<1> QED
  BY <1>4, <1>5, <1>6

\* Only a user, by name or all of them, has credentials: nobody else's are left out.
LEMMA NoCredentials ==
  ASSUME ConfigCommand(cmd), IsQuota(cmd), EntityKindsOk(cmd), NEW x, ConfigEntry(x), Scram(x), Wanted(x)
  PROVE  /\ Only(cmd, "user") /\ ~ EntityDefault(cmd)
         /\ EntityNames(cmd) = <<>> \/ EntityNames(cmd)[1] # ""
<1> DEFINE kinds == {y[1] : y \in x[1]}
<1>1. kinds = Elements(Kinds(cmd))
  BY QuotaKindsOnly DEF Wanted, QuotaKinds
<1>2. kinds = {"user"} /\ \A u \in x[1] : u[2] # ""
  BY <1>1 DEF ConfigEntry, IsQuota, Scram
<1>3. Only(cmd, "user") /\ DOMAIN Kinds(cmd) = {1} /\ Kinds(cmd)[1] = "user"
  <2>1. Kinds(cmd) # <<>> /\ ~ Len(Kinds(cmd)) > 1
    <3>1. "client" \notin kinds
      BY <1>2
    <3> HIDE DEF kinds
    <3>2. Elements(Kinds(cmd)) # {"user", "client"}
      BY <1>1, <3>1
    <3> QED
      BY <3>2, Zenon DEF IsQuota, EntityKindsOk
  <2>2. DOMAIN Kinds(cmd) = {1} /\ Elements(Kinds(cmd)) = {Kinds(cmd)[1]}
        /\ (Only(cmd, "user") <=> Kinds(cmd)[1] = "user")
    BY <2>1, OneKind
  <2> HIDE DEF kinds
  <2> QED
    BY <1>1, <1>2, <2>2
<1>4. ~ EntityDefault(cmd)
  <2>1. PICK u \in x[1] : u[2] # ""
    BY <1>2
  <2> QED
    BY <2>1 DEF Wanted
<1>5. ASSUME EntityNames(cmd) # <<>> PROVE EntityNames(cmd)[1] # ""
  <2> DEFINE name == EntityNames(cmd)[1]
  <2>1. <<"user", name>> \in x[1]
    BY <1>3, <1>5 DEF Wanted
  <2>2. <<"user", name>>[2] = name
    OBVIOUS
  <2> HIDE DEF name
  <2>3. name # ""
    BY <1>2, <2>1, <2>2
  <2> QED
    BY <2>3 DEF name
<1> QED
  BY <1>3, <1>4, <1>5

\* What describe asks of the other resources is what it is about.
LEMMA ConfigWanted ==
  ASSUME ConfigCommand(cmd), ~ IsQuota(cmd), SingleResourceOk(cmd, FALSE), NEW x, ConfigEntry(x)
  PROVE  WithName(cmd, x[1]) /\ (cmd.all \/ DynamicSource(KindOf(cmd))) <=> Wanted(x)
<1> DEFINE e == x[1]
           first == {y[1] : y \in e}
           ByNames == \A i \in DOMAIN Kinds(cmd) : <<Kinds(cmd)[i], EntityNames(cmd)[i]>> \in e
           Nameless == \A y \in e : y[2] = ""
<1>1. Entities(e)
  BY EntryEntity
<1>2. /\ DOMAIN Kinds(cmd) = {1} /\ Elements(Kinds(cmd)) = {Kinds(cmd)[1]}
      /\ \A kind : Only(cmd, kind) <=> Kinds(cmd)[1] = kind
  <2>1. Len(Kinds(cmd)) = 1 /\ Kinds(cmd) \in Seq(STRING)
    BY KindsTyped DEF SingleResourceOk
  <2>2. \A s \in Seq(STRING) : Len(s) = 1 => s # <<>> /\ ~ Len(s) > 1
    OBVIOUS
  <2>3. Kinds(cmd) # <<>> /\ ~ Len(Kinds(cmd)) > 1
    BY <2>1, <2>2, Zenon
  <2> QED
    BY <2>3, OneKind
<1>3. Wanted(x) <=>
        /\ first = IF EntityDefault(cmd) /\ Only(cmd, "broker") THEN {"brokerDefault"} ELSE Elements(Kinds(cmd))
        /\ EntityDefault(cmd) => Nameless
        /\ EntityNames(cmd) # <<>> => ByNames
        /\ Only(cmd, "group") => cmd.all
  BY DEF Wanted
<1>4. CASE EntityDefault(cmd)
  <2>1. Only(cmd, "broker") /\ EntityNames(cmd) = <<>>
    BY <1>4, DefaultNameless DEF SingleResourceOk
  <2>2. ~ Only(cmd, "group")
    BY <1>2, <2>1
  <2>3. KindOf(cmd) = "brokerDefault" /\ Entity(cmd) = {<<"brokerDefault", "">>} /\ DynamicSource(KindOf(cmd))
    BY <1>4 DEF KindOf, Entity, DynamicSource
  <2>4. WithName(cmd, e) <=> e = {<<"brokerDefault", "">>}
    BY <1>4, <2>3 DEF WithName
  <2>5. e = {<<"brokerDefault", "">>} <=> first = {"brokerDefault"} /\ Nameless
    BY <1>1, DefaultIs
  <2> HIDE DEF e, first, ByNames, Nameless
  <2>6. WithName(cmd, e) /\ (cmd.all \/ DynamicSource(KindOf(cmd))) <=> Wanted(x)
    BY <1>3, <1>4, <2>1, <2>2, <2>3, <2>4, <2>5
  <2> QED
    BY <2>6 DEF e
<1>5. CASE ~ EntityDefault(cmd)
  <2>1. cmd.all \/ DynamicSource(KindOf(cmd)) <=> (Only(cmd, "group") => cmd.all)
    <3>1. KindOf(cmd) = Kinds(cmd)[1]
      BY <1>5 DEF KindOf
    <3> QED
      BY <1>2, <3>1 DEF DynamicSource
  <2>2. WithName(cmd, e) <=> first = Elements(Kinds(cmd)) /\ (EntityNames(cmd) # <<>> => ByNames)
    <3>1. CASE EntityNames(cmd) # <<>>
      <4>1. Entity(cmd) = {<<Kinds(cmd)[i], EntityNames(cmd)[i]>> : i \in DOMAIN Kinds(cmd)}
        BY <1>2, <1>5 DEF Entity
      <4>2. WithName(cmd, e) <=> e = {<<Kinds(cmd)[i], EntityNames(cmd)[i]>> : i \in DOMAIN Kinds(cmd)}
        BY <3>1, <4>1 DEF WithName
      <4>3. e = {<<Kinds(cmd)[i], EntityNames(cmd)[i]>> : i \in DOMAIN Kinds(cmd)} <=>
              first = Elements(Kinds(cmd)) /\ ByNames
        BY <1>1, NamedIs
      <4> HIDE DEF e, first, ByNames, Nameless
      <4> QED
        BY <3>1, <4>2, <4>3
    <3>2. CASE EntityNames(cmd) = <<>>
      BY <1>5, <3>2 DEF WithName
    <3> QED
      BY <3>1, <3>2
  <2> HIDE DEF e, first, ByNames, Nameless
  <2>3. WithName(cmd, e) /\ (cmd.all \/ DynamicSource(KindOf(cmd))) <=> Wanted(x)
    BY <1>3, <1>5, <2>1, <2>2
  <2> QED
    BY <2>3 DEF e
<1> QED
  BY <1>4, <1>5

\* A user alone is of a kind that has quotas.
LEMMA UserIsQuota == ASSUME Only(cmd, "user") PROVE IsQuota(cmd)
<1>1. DOMAIN <<"user">> = {1} /\ <<"user">>[1] = "user" /\ Len(<<"user">>) = 1 /\ Len(<<>>) = 0
  OBVIOUS
<1>2. <<"user">> # <<>>
  BY <1>1
<1>3. Elements(<<"user">>) \subseteq QuotaKinds
  BY <1>1 DEF Elements, QuotaKinds
<1> QED
  BY <1>2, <1>3 DEF Only, IsQuota

LEMMA WantedSame == ASSUME UNCHANGED cmd, NEW x PROVE Wanted(x)' <=> Wanted(x)
  BY DEF Wanted, EntityDefault, EntityNames, Kinds, Only, Generic, OnlyDefault

\* What has been read stays what there is while nothing changes.
LEMMA QuotasSame ==
  ASSUME UNCHANGED <<cmd, configs>>
  PROVE  /\ QuotasFound' = QuotasFound /\ Is("configs", "describe")' = Is("configs", "describe")
         /\ Only(cmd, "user")' = Only(cmd, "user") /\ EntityDefault(cmd)' = EntityDefault(cmd)
         /\ IsQuota(cmd)' = IsQuota(cmd) /\ EntityKindsOk(cmd)' = EntityKindsOk(cmd)
         /\ QuotaEntityOk(cmd, FALSE)' = QuotaEntityOk(cmd, FALSE)
  BY DEF QuotasFound, Is, Only, EntityDefault, IsQuota, EntityKindsOk, QuotaEntityOk, IsQuotaEntity, QuotaEntity,
         EntityNames, Kinds, Generic, OnlyDefault

\* A report is true that shows the entries it is about.
LEMMA TrueReport ==
  ASSUME Is("configs", "describe"), UNCHANGED <<cmd, configs>>, \A x \in configs : x \in Shown' <=> Wanted(x)
  PROVE  ConfigsShown'
<1>1. \A x \in configs' : x \in Shown' <=> Wanted(x)'
  BY WantedSame
<1>2. cmd'.tool # "client-metrics"
  BY DEF Is
<1> HIDE DEF cmd
<1> QED
  BY <1>1, <1>2 DEF ConfigsShown, Wanted

\* A command that fails shows nothing, and has nothing to be true.
LEMMA FailedReport == ASSUME exit' # "ok" PROVE ConfigsShown'
  BY DEF ConfigsShown

LEMMA QuotaTold ==
  ASSUME AdminInv, DescribeQuota, UNCHANGED cmd, Fresh', ConfigCommand(cmd)
  PROVE  /\ exit' = "none" => ConfigsRead'
         /\ exit' # "none" => ConfigsShown'
<1>1. /\ Is("configs", "describe") /\ UNCHANGED configs
      /\ IsQuota(cmd) /\ EntityKindsOk(cmd)
  BY DEF DescribeQuota
<1>2. \A x \in configs : ConfigEntry(x)
  BY DEF AdminInv, TypeOK, ConfigsTypeOK
<1>3. \/ Usage
      \/ QuotaEntityOk(cmd, FALSE) /\ Only(cmd, "user") /\ ~ EntityDefault(cmd) /\ Read("scram", QuotasFound)
      \/ /\ QuotaEntityOk(cmd, FALSE) /\ Report(Rows(QuotasFound, "shown"))
         /\ ~ (Only(cmd, "user") /\ ~ EntityDefault(cmd) /\ (EntityNames(cmd) = <<>> \/ EntityNames(cmd)[1] # ""))
  BY DEF DescribeQuota, QuotasFound
<1>4. CASE Usage
  <2>1. exit' = "usage"
    BY <1>4 DEF Usage, Stop
  <2> QED
    BY <2>1, FailedReport
<1>5. CASE QuotaEntityOk(cmd, FALSE) /\ Only(cmd, "user") /\ ~ EntityDefault(cmd) /\ Read("scram", QuotasFound)
  <2>1. pc' = "scram" /\ seen' = QuotasFound
    BY <1>5 DEF Read
  <2>2. exit' = "none"
    BY <2>1 DEF Fresh
  <2>3. ConfigsRead'
    BY <1>1, <1>5, <2>1, QuotasSame DEF ConfigsRead
  <2> QED
    BY <2>2, <2>3
<1>6. CASE /\ QuotaEntityOk(cmd, FALSE) /\ Report(Rows(QuotasFound, "shown"))
           /\ ~ (Only(cmd, "user") /\ ~ EntityDefault(cmd) /\ (EntityNames(cmd) = <<>> \/ EntityNames(cmd)[1] # ""))
  <2>1. Shown' = QuotasFound
    BY <1>6, ShownRows
  <2>2. ASSUME NEW x \in configs PROVE x \in QuotasFound <=> Wanted(x)
    <3>1. IsQuotaEntity(cmd, x[1]) <=> Wanted(x)
      BY <1>1, <1>2, <1>6, QuotaWanted
    <3>2. Wanted(x) => ~ Scram(x)
      BY <1>1, <1>2, <1>6, NoCredentials
    <3> QED
      BY <3>1, <3>2 DEF QuotasFound
  <2>3. ConfigsShown'
    BY <1>1, <2>1, <2>2, TrueReport
  <2>4. exit' # "none"
    BY <1>6 DEF Report, Tell
  <2> QED
    BY <2>3, <2>4
<1> QED
  BY <1>3, <1>4, <1>5, <1>6

LEMMA ScramTold ==
  ASSUME AdminInv, ShownInv, calm, DescribeScram, UNCHANGED cmd, ConfigCommand(cmd)
  PROVE  exit' # "none" /\ ConfigsShown'
<1> DEFINE credentials == {x \in configs : IsQuotaEntity(cmd, x[1]) /\ Scram(x)}
<1>1. Is("configs", "describe") /\ UNCHANGED configs /\ pc = "scram"
  BY DEF DescribeScram
<1>2. Failed \/ Report(Rows(seen \cup credentials, "shown"))
  BY DEF DescribeScram
<1>3. CASE Failed
  <2>1. exit' = "error"
    BY <1>3 DEF Failed, Stop
  <2> QED
    BY <2>1, FailedReport
<1>4. CASE Report(Rows(seen \cup credentials, "shown"))
  <2>1. Shown' = seen \cup credentials
    <3> DEFINE items == seen \cup credentials
    <3>1. Report(Rows(items, "shown"))
      BY <1>4
    <3> HIDE DEF items
    <3>2. Shown' = items
      BY <3>1, ShownRows
    <3> QED
      BY <3>2 DEF items
  <2>2. exit = "none"
    BY <1>1 DEF AdminInv, Fresh
  <2>3. /\ Only(cmd, "user") /\ EntityKindsOk(cmd) /\ QuotaEntityOk(cmd, FALSE)
        /\ seen = QuotasFound
    BY <1>1, <2>2 DEF ShownInv, ReadIsThere, ConfigsRead
  <2>4. IsQuota(cmd)
    BY <2>3, UserIsQuota
  <2>5. ASSUME NEW x \in configs PROVE x \in seen \cup credentials <=> Wanted(x)
    <3>1. ConfigEntry(x)
      BY DEF AdminInv, TypeOK, ConfigsTypeOK
    <3>2. IsQuotaEntity(cmd, x[1]) <=> Wanted(x)
      BY <2>3, <2>4, <3>1, QuotaWanted
    <3> QED
      BY <2>3, <3>2 DEF QuotasFound
  <2> HIDE DEF credentials
  <2>6. ConfigsShown'
    BY <1>1, <2>1, <2>5, TrueReport
  <2>7. exit' # "none"
    BY <1>4 DEF Report, Tell
  <2> QED
    BY <2>6, <2>7
<1> QED
  BY <1>2, <1>3, <1>4

LEMMA ResourceTold ==
  ASSUME AdminInv, DescribeConfig, UNCHANGED cmd, ConfigCommand(cmd)
  PROVE  exit' # "none" /\ ConfigsShown'
<1> DEFINE wanted == {e \in Configured : WithName(cmd, e) /\ (cmd.all \/ DynamicSource(KindOf(cmd)))}
           items == {x \in configs : x[1] \in wanted}
<1>1. Is("configs", "describe") /\ UNCHANGED configs
  BY DEF DescribeConfig
<1>2. \/ Usage \/ Failed
      \/ DescribeConfigArgsOk(cmd) /\ ~ IsQuota(cmd) /\ Report(Rows(items, "shown"))
  BY DEF DescribeConfig, Described
<1>3. CASE Usage \/ Failed
  <2>1. exit' \in {"usage", "error"}
    BY <1>3 DEF Usage, Failed, Stop
  <2> QED
    BY <2>1, FailedReport
<1>4. CASE DescribeConfigArgsOk(cmd) /\ ~ IsQuota(cmd) /\ Report(Rows(items, "shown"))
  <2>1. SingleResourceOk(cmd, FALSE)
    BY <1>4 DEF DescribeConfigArgsOk
  <2>2. ASSUME NEW x \in configs PROVE x \in items <=> Wanted(x)
    <3>1. ConfigEntry(x)
      BY DEF AdminInv, TypeOK, ConfigsTypeOK
    <3>2. x[1] \in Configured
      BY DEF Configured
    <3>3. WithName(cmd, x[1]) /\ (cmd.all \/ DynamicSource(KindOf(cmd))) <=> Wanted(x)
      BY <1>4, <2>1, <3>1, ConfigWanted
    <3> QED
      BY <3>2, <3>3
  <2>3. exit' # "none"
    BY <1>4 DEF Report, Tell
  <2> HIDE DEF items
  <2>4. Shown' = items
    BY <1>4, ShownRows
  <2>5. ConfigsShown'
    BY <1>1, <2>2, <2>4, TrueReport
  <2> QED
    BY <2>3, <2>5
<1> QED
  BY <1>2, <1>3, <1>4

LEMMA MetricsTold ==
  ASSUME MetricsList, UNCHANGED cmd
  PROVE  exit' # "none" /\ ConfigsShown'
<1> DEFINE wanted == {e \in Configured : IF cmd.action = "describe" /\ cmd.name # "" THEN e = Metrics(cmd)
                                         ELSE \E x \in e : x[1] = "clientMetrics"}
           items == {x \in configs : x[1] \in wanted}
<1>1. cmd.tool = "client-metrics" /\ UNCHANGED configs /\ Report(Rows(items, "shown"))
  BY DEF MetricsList, Is, Described
<1>2. exit' # "none"
  BY <1>1 DEF Report, Tell
<1>3. Shown' = items
  <2> HIDE DEF items
  <2> QED
    BY <1>1, ShownRows
<1>4. ASSUME cmd.action = "describe", cmd.name # "" PROVE {x[2] : x \in Shown'} = KeysOf(Metrics(cmd))
  <2>1. items = {y \in configs : y[1] = Metrics(cmd)}
    BY <1>4 DEF Configured
  <2> HIDE DEF items
  <2> QED
    BY <1>3, <2>1 DEF KeysOf
<1>5. KeysOf(Metrics(cmd))' = KeysOf(Metrics(cmd))
  BY <1>1 DEF KeysOf, Metrics
<1> HIDE DEF items
<1>6. cmd'.tool # "configs"
  BY <1>1
<1>7. cmd'.action = "describe" /\ cmd'.name # "" => {x[2] : x \in Shown'} = KeysOf(Metrics(cmd))'
  BY <1>4, <1>5
<1> QED
  BY <1>2, <1>6, <1>7 DEF ConfigsShown

LEMMA ConfigsTold ==
  ASSUME AdminInv, ShownInv, ConfigsNext, calm'
  PROVE  /\ exit' = "none" => ConfigsRead'
         /\ exit' # "none" => ConfigsShown'
<1>1. Step
  BY ConfigMoves
<1>2. UNCHANGED cmd /\ calm /\ Fresh' /\ Command(cmd)
  BY <1>1, ToolTyped, CalmBefore
<1>3. CASE DescribeQuota \/ DescribeScram \/ DescribeConfig
  <2>1. ConfigCommand(cmd)
    BY <1>2, <1>3 DEF DescribeQuota, DescribeScram, DescribeConfig, Is, Command
  <2> QED
    BY <1>2, <1>3, <2>1, QuotaTold, ScramTold, ResourceTold
<1>4. CASE MetricsList
  BY <1>2, <1>4, MetricsTold
<1>5. CASE \/ AlterConfig \/ ReadQuota \/ AlterQuota \/ AlterScram \/ AlterResource
           \/ FindConfigBroker \/ AlterProtocol \/ MetricsAlter \/ MetricsKeysRead \/ MetricsDelete
  <2>1. cmd.action # "describe"
    BY <1>5 DEF AlterConfig, ReadQuota, AlterQuota, AlterScram, AlterResource, FindConfigBroker, AlterProtocol,
                MetricsAlter, MetricsKeysRead, MetricsDelete, Is
  <2>2. cmd'.action # "describe"
    BY <1>2, <2>1
  <2> QED
    BY <2>2 DEF ConfigsRead, ConfigsShown, Is
<1>6. CASE ConfigsForeign
  BY <1>6 DEF ConfigsForeign, Foreign
<1> QED
  BY <1>3, <1>4, <1>5, <1>6 DEF ConfigsNext

-----------------------------------------------------------------------------
(* All of the reports *)

\* Commands of one group leave the reports of the others alone.
LEMMA ReportsByGroup ==
  ASSUME /\ exit' = "none" /\ calm' => TopicsRead' /\ ConfigsRead' /\ LogDirsRead'
         /\ exit' # "none" /\ calm' => TopicsShown' /\ ConfigsShown' /\ LogDirsShown'
  PROVE  ShownInv'
  BY DEF ShownInv, ReadIsThere, DescribeTellsTheTruth

\* Nothing of this changes while nothing happens.
LEMMA ShownStays ==
  ASSUME ShownInv, UNCHANGED <<script, turn, pc, seen, rows, exit, calm>>, UNCHANGED <<topics, configs>>
  PROVE  ShownInv'
<1>1. UNCHANGED cmd /\ Shown' = Shown
  BY DEF cmd, Shown, Items
<1> HIDE DEF cmd
<1>2. TopicsRead' = TopicsRead /\ TopicsShown' = TopicsShown
  BY <1>1, TopicsSame DEF TopicsRead, TopicsShown, Is
<1>3. ConfigsRead' = ConfigsRead
  BY <1>1, QuotasSame DEF ConfigsRead
<1>4. ConfigsShown' = ConfigsShown
  BY <1>1 DEF ConfigsShown, EntityDefault, EntityNames, Kinds, Only, Generic, OnlyDefault, KeysOf, Metrics
<1>5. LogDirsRead' = LogDirsRead
  BY <1>1 DEF LogDirsRead, Is
<1>6. LogDirsShown' = LogDirsShown
  BY <1>1 DEF LogDirsShown, OnBroker, Given
<1>7. ReadIsThere' = ReadIsThere
  BY <1>2, <1>3, <1>5 DEF ReadIsThere
<1>8. DescribeTellsTheTruth' = DescribeTellsTheTruth
  BY <1>2, <1>4, <1>6 DEF DescribeTellsTheTruth
<1> QED
  BY <1>7, <1>8 DEF ShownInv

LEMMA ShownInvNext ==
  ASSUME AdminInv, ShownInv, [Next]_vars
  PROVE  ShownInv'
<1>1. CASE TopicsNext
  <2>1. UNCHANGED cmd /\ cmd.tool = "topics"
    BY <1>1, TopicMoves, Tools, ToolTyped
  <2> QED
    BY <1>1, <2>1, TopicsTold, Elsewhere, ReportsByGroup
<1>2. CASE ConfigsNext
  <2>1. UNCHANGED cmd /\ cmd.tool \in {"configs", "client-metrics"}
    BY <1>2, ConfigMoves, Tools, ToolTyped
  <2>2. cmd.tool \notin {"topics", "log-dirs"}
    BY <2>1
  <2> QED
    BY <1>2, <2>1, <2>2, ConfigsTold, Elsewhere, ReportsByGroup
<1>3. CASE PartsNext
  <2>1. UNCHANGED cmd /\ cmd.tool \in {"offsets", "delete-records", "leader-election", "log-dirs"}
    BY <1>3, PartitionMoves, Tools, ToolTyped
  <2>2. cmd.tool \notin {"topics", "configs", "client-metrics"}
    BY <2>1
  <2> QED
    BY <1>3, <2>1, <2>2, LogDirsTold, Elsewhere, ReportsByGroup
<1>4. CASE AclsNext \/ FeaturesNext \/ ClusterNext
  <2>1. UNCHANGED cmd /\ cmd.tool \in {"acls", "features", "metadata-quorum", "delegation-tokens", "cluster"}
    BY <1>4, AclMoves, FeatureMoves, ClusterMoves, Tools, ToolTyped
  <2>2. cmd.tool \notin {"topics", "configs", "client-metrics", "log-dirs"}
    BY <2>1
  <2> QED
    BY <2>1, <2>2, Elsewhere, ReportsByGroup
<1>5. CASE CallFails
  BY <1>5, ReportsByGroup DEF CallFails
<1>6. CASE NextCommand
  <2>1. pc' = "start" /\ exit' = "none"
    BY <1>6 DEF NextCommand
  <2>2. TopicsRead' /\ ConfigsRead' /\ LogDirsRead'
    BY <2>1 DEF TopicsRead, ConfigsRead, LogDirsRead
  <2> QED
    BY <2>1, <2>2, ReportsByGroup
<1>7. CASE UNCHANGED vars
  <2>1. /\ UNCHANGED <<script, turn, pc, seen, rows, exit, calm>>
        /\ UNCHANGED <<topics, configs>>
    BY <1>7 DEF vars, adminVars, commandVars, scriptVars, clusterState, topicVars
  <2> QED
    BY <2>1, ShownStays
<1> QED
  BY <1>1, <1>2, <1>3, <1>4, <1>5, <1>6, <1>7 DEF Next

LEMMA InitShown == Init => ShownInv
<1> SUFFICES ASSUME Init PROVE ShownInv
  OBVIOUS
<1>1. pc = "start" /\ exit = "none"
  BY DEF Init, AdminInit
<1> QED
  BY <1>1 DEF ShownInv, ReadIsThere, DescribeTellsTheTruth, TopicsRead, ConfigsRead, LogDirsRead

\* Whatever the script, the cluster, the faults and the other clients: a report that nobody
\* disturbs shows what there is.  Topics are shown that the command line selects and no
\* other, in two or four calls; the values that were set of the entity that is
\* asked for, in one or two; and the directories that have an error and replicas.
THEOREM ReportsAreTrue == Spec => []DescribeTellsTheTruth
<1>1. AdminInv /\ ShownInv /\ [Next]_vars => AdminInv' /\ ShownInv'
  BY AdminInvNext, ShownInvNext
<1>2. ShownInv => DescribeTellsTheTruth
  BY DEF ShownInv
<1> QED
  BY <1>1, <1>2, InitTyped, InitShown, PTL DEF Spec

-----------------------------------------------------------------------------
(* Two commands, one after the other: what a command that nobody disturbs does *)

\* A request without a fault does what the cluster can do, and its answer is a success
\* exactly if that, with what the command takes for a success, is all of it.
LEMMA CalmRequest ==
  ASSUME faults \in Nat, NEW items, NEW can, NEW noops, NEW manner, can \subseteq items,
         Request(items, can, noops, manner), calm'
  PROVE  /\ applied' = can /\ asked' = items /\ exit' # "none"
         /\ items \subseteq can \cup noops => exit' = "ok"
         /\ exit' = "ok" /\ manner \in {"rows", "firstError"} => items \subseteq can \cup noops
         /\ manner = "lenient" => exit' = "ok"
<1>1. PICK refused \in {{}} \cup {{i} : i \in items}, lost \in BOOLEAN :
        LET done == can \ refused
            failed == items \ (done \cup (noops \ refused))
            report == Rows(done, "done") \cup Rows(noops \ refused, "noop") \cup Rows(failed, "failed")
        IN /\ faults' = faults + Cardinality(refused) + (IF lost THEN 1 ELSE 0)
           /\ calm' = (calm /\ faults' = faults)
           /\ asked' = items /\ applied' = done /\ pc' = "done"
           /\ IF lost \/ (manner = "firstError" /\ failed # {})
              THEN exit' = "error" /\ rows' = {}
              ELSE exit' = Verdict(report, manner) /\ rows' = report
  BY DEF Request
<1>2. refused = {} /\ ~ lost
  <2>1. faults' = faults + Cardinality(refused) + (IF lost THEN 1 ELSE 0) /\ faults' = faults
    BY <1>1
  <2>2. CASE refused = {}
    <3>1. Cardinality(refused) = 0
      BY <2>2, FS_EmptySet
    <3> QED
      BY <2>1, <2>2, <3>1
  <2>3. CASE refused # {}
    <3>1. PICK i : refused = {i}
      BY <1>1, <2>3
    <3>2. Cardinality(refused) = 1
      BY <3>1, FS_Singleton
    <3> QED
      BY <2>1, <3>2
  <2> QED
    BY <2>2, <2>3
<1> DEFINE failed == items \ (can \cup noops)
           report == Rows(can, "done") \cup Rows(noops, "noop") \cup Rows(failed, "failed")
<1>3. /\ asked' = items /\ applied' = can
      /\ IF manner = "firstError" /\ failed # {} THEN exit' = "error" ELSE exit' = Verdict(report, manner)
  BY <1>1, <1>2
<1>4. (\E row \in report : row[2] = "failed") <=> failed # {}
  <2>1. ASSUME NEW row \in report, row[2] = "failed" PROVE failed # {}
    BY <2>1 DEF Rows
  <2>2. ASSUME NEW i \in failed PROVE \E row \in report : row[2] = "failed"
    <3>1. <<i, "failed">> \in report /\ <<i, "failed">>[2] = "failed"
      BY DEF Rows
    <3> QED
      BY <3>1
  <2> QED
    BY <2>1, <2>2
<1>5. Verdict(report, manner) = IF manner = "rows" /\ failed # {} THEN "partial" ELSE "ok"
  BY <1>4 DEF Verdict
<1>6. failed = {} <=> items \subseteq can \cup noops
  OBVIOUS
<1> HIDE DEF failed, report
<1> QED
  BY <1>3, <1>5, <1>6

\* A command that asks for nothing has asked for nothing when it is over.
LEMMA QuietAsksNothing == ASSUME Fresh, pc # "done", Quiet PROVE asked' = {}
  BY DEF Quiet, Fresh, Usage, Failed, Stop, Report, DryRun, Tell, Read

\* Another client ends nothing, and disturbs.
LEMMA ForeignDisturbs == ASSUME Fresh, Foreign PROVE exit' = "none" /\ ~ calm' /\ UNCHANGED <<pc, seen>>
  BY DEF Foreign, Fresh, commandVars

-----------------------------------------------------------------------------
(* To repeat a command that was done *)

\* Everything that the command asked for was done, whatever it was told of that.
Done == exit # "none" /\ asked # {} /\ applied = asked

\* Topics: what has been read is what there is, and what makes a repeated command succeed.
TopicsChosen ==
  Is("topics", "delete") /\ pc = "decide" /\ calm => {t[1] : t \in seen} = Selected(Named(cmd.expression))
TopicsRepeatable ==
  /\ Is("topics", "create") => AssignmentOk(cmd) /\ CreationCountsOk(cmd) /\ Exists(cmd.name)
  /\ cmd.action \in {"create", "delete"}

LEMMA TopicReports ==
  ASSUME Fresh, pc # "done", ListTopics \/ DescribeTopics \/ IdentifyTopics \/ ReadTopicConfigs \/ DescribePartitions
  PROVE  asked' = {} /\ cmd.action \in {"list", "describe"}
<1> USE DEF Quiet, Is
<1>1. CASE ListTopics
  BY <1>1, QuietAsksNothing DEF ListTopics
<1>2. CASE DescribeTopics
  BY <1>2, QuietAsksNothing DEF DescribeTopics
<1>3. CASE IdentifyTopics
  BY <1>3, QuietAsksNothing DEF IdentifyTopics
<1>4. CASE ReadTopicConfigs
  BY <1>4, QuietAsksNothing DEF ReadTopicConfigs, Goto
<1>5. CASE DescribePartitions
  BY <1>5, QuietAsksNothing DEF DescribePartitions
<1> QED
  BY <1>1, <1>2, <1>3, <1>4, <1>5

LEMMA CreateRetried ==
  ASSUME TopicsTypeOK, Fresh, faults \in Nat, Command(cmd), CreateTopic, UNCHANGED cmd, cmd.lenient
  PROVE  /\ Done' => TopicsRepeatable'
         /\ calm' /\ TopicsRepeatable => exit' = "ok"
<1>0. Is("topics", "create") /\ pc # "done" /\ cmd.name \in Names /\ lastId \in Nat
      /\ topics \in [Names -> TopicRecords]
  BY DEF CreateTopic, Command, TopicCommand, TopicsTypeOK, Is
<1>1. CASE ~ (AssignmentOk(cmd) /\ CreationCountsOk(cmd))
  <2>1. Usage
    BY <1>1 DEF CreateTopic
  <2>2. asked' = {}
    BY <2>1, <1>0, QuietAsksNothing DEF Quiet
  <2> QED
    BY <1>0, <1>1, <2>2 DEF Done, TopicsRepeatable
<1>2. CASE AssignmentOk(cmd) /\ CreationCountsOk(cmd)
  <2> DEFINE free == {cmd.name} \ TopicNames
  <2>1. /\ Request({cmd.name}, free, {cmd.name} \ free, "rows")
        /\ IF applied' = {} THEN UNCHANGED topicVars
           ELSE topics' = NewTopic(cmd.name, Partitions(cmd)) /\ lastId' = lastId + 1
    BY <1>2 DEF CreateTopic
  <2>2. asked' = {cmd.name}
    BY <2>1, RequestDoes
  <2>3. ASSUME Done' PROVE TopicsRepeatable'
    <3>1. applied' # {}
      BY <2>2, <2>3 DEF Done
    <3>2. topics'[cmd.name].id = lastId + 1
      BY <1>0, <2>1, <3>1 DEF NewTopic
    <3>3. Exists(cmd.name)'
      BY <1>0, <3>2 DEF Exists
    <3>4. AssignmentOk(cmd)' /\ CreationCountsOk(cmd)'
      BY <1>2
    <3> QED
      BY <1>0, <3>3, <3>4 DEF TopicsRepeatable, Is
  <2>4. calm' => exit' = "ok"
    <3>1. {cmd.name} \subseteq free \cup ({cmd.name} \ free)
      OBVIOUS
    <3> QED
      BY <2>1, <3>1, CalmRequest
  <2> QED
    BY <2>3, <2>4
<1> QED
  BY <1>1, <1>2

\* What deletes a topic: the names are read, and then those that are still there deleted.
LEMMA SelectTopicsDoes ==
  ASSUME Fresh, SelectTopics, UNCHANGED cmd
  PROVE  /\ asked' = {} /\ exit' \in {"none", "ok", "usage"} /\ (exit' = "usage" => ~ cmd.lenient)
         /\ UNCHANGED topicVars
         /\ exit' = "none" => {t[1] : t \in seen'} = Selected(Named(cmd.expression))
         /\ exit' = "ok" => Selected(Named(cmd.expression)) = {}
<1> DEFINE found == Selected(Named(cmd.expression))
<1>1. pc # "done" /\ exit = "none" /\ UNCHANGED topicVars
  BY DEF SelectTopics, Fresh
<1>2. CASE found = {}
  <2>1. IF cmd.lenient THEN Report({}) ELSE Usage
    BY <1>2 DEF SelectTopics, NoMatch
  <2>2. asked' = {}
    BY <1>1, <2>1, QuietAsksNothing DEF Quiet
  <2> QED
    BY <1>1, <1>2, <2>1, <2>2 DEF Report, Tell, Usage, Stop
<1>3. CASE found # {}
  <2>1. Read("decide", {<<n, topics[n].partitions>> : n \in found})
    BY <1>3 DEF SelectTopics
  <2>2. asked' = {}
    BY <1>1, <2>1, QuietAsksNothing DEF Quiet
  <2>3. seen' = {<<n, topics[n].partitions>> : n \in found} /\ exit' = "none"
    BY <1>1, <2>1 DEF Read
  <2>4. \A n : <<n, topics[n].partitions>>[1] = n
    OBVIOUS
  <2> HIDE DEF found
  <2>5. {t[1] : t \in seen'} = found
    BY <2>3, <2>4
  <2> QED
    BY <1>1, <2>2, <2>3, <2>5 DEF found
<1> QED
  BY <1>2, <1>3

LEMMA DeleteTopicsDoes ==
  ASSUME Fresh, faults \in Nat, DeleteTopics, TopicsChosen, UNCHANGED cmd, calm', calm
  PROVE  /\ exit' = "ok"
         /\ \A n \in Names : n \in Selected(Named(cmd.expression)) => topics'[n] = Absent
<1> DEFINE can == {t \in seen : t[1] \in TopicNames}
<1>1. /\ Request(seen, can, {}, "rows") /\ Is("topics", "delete") /\ pc = "decide"
      /\ topics' = [n \in Names |-> IF \E t \in applied' : t[1] = n THEN Absent ELSE topics[n]]
  BY DEF DeleteTopics
<1>2. {t[1] : t \in seen} = Selected(Named(cmd.expression))
  BY <1>1 DEF TopicsChosen
<1>3. Selected(Named(cmd.expression)) \subseteq TopicNames
  BY DEF Selected
<1>4. can = seen
  BY <1>2, <1>3
<1>5. applied' = seen /\ exit' = "ok"
  BY <1>1, <1>4, CalmRequest
<1>6. ASSUME NEW n \in Names, n \in Selected(Named(cmd.expression)) PROVE topics'[n] = Absent
  <2>1. \E t \in applied' : t[1] = n
    BY <1>2, <1>5, <1>6
  <2> QED
    BY <1>1, <2>1
<1> QED
  BY <1>5, <1>6

\* Two reasons for a topic's command to have been refused are not there any more.
LEMMA TopicsRetried ==
  ASSUME AdminInv, faults \in Nat, TopicsChosen, TopicsNext, pc # "done", UNCHANGED cmd
  PROVE  /\ TopicsChosen'
         /\ Done' /\ ~ RefusedTwice => TopicsRepeatable'
         /\ calm' /\ TopicsRepeatable /\ ~ RefusedTwice =>
              \/ exit' = "none" /\ TopicsRepeatable'
              \/ exit' = "ok"
<1> USE DEF AdminInv, TypeOK
<1>0. exit = "none" /\ Command(cmd) /\ (calm' => calm)
  BY CommandOk, TopicMoves, CalmBefore DEF Fresh
<1>1. CASE ListTopics \/ DescribeTopics \/ IdentifyTopics \/ ReadTopicConfigs \/ DescribePartitions
  <2>1. asked' = {} /\ cmd.action \in {"list", "describe"}
    BY <1>1, TopicReports
  <2> QED
    BY <2>1 DEF Done, TopicsRepeatable, TopicsChosen, Is
<1>2. CASE CreateTopic
  <2>1. Is("topics", "create")
    BY <1>2 DEF CreateTopic
  <2>2. ~ RefusedTwice => cmd.lenient
    BY <2>1 DEF RefusedTwice, Is
  <2>3. TopicsChosen'
    BY <2>1 DEF TopicsChosen, Is
  <2> QED
    BY <1>0, <1>2, <2>2, <2>3, CreateRetried
<1>3. CASE SelectTopics
  <2>1. Is("topics", "alter") \/ Is("topics", "delete")
    BY <1>3 DEF SelectTopics
  <2>2. ~ RefusedTwice => Is("topics", "delete") /\ cmd.lenient
    BY <2>1 DEF RefusedTwice, Is
  <2>3. Selected(Named(cmd.expression))' = Selected(Named(cmd.expression))
    BY <1>3, SelectTopicsDoes DEF Selected, Named, Selector, TopicNames, Exists, topicVars, Expression, NonzeroId, Given
  <2>4. TopicsChosen'
    <3>1. pc' = "decide" => exit' = "none"
      BY <1>3, TopicMoves, StepKept DEF Fresh
    <3> QED
      BY <1>3, <2>3, <3>1, SelectTopicsDoes DEF TopicsChosen
  <2> QED
    BY <1>3, <2>2, <2>4, SelectTopicsDoes DEF Done, TopicsRepeatable, Is
<1>4. CASE AlterTopics
  BY <1>4 DEF AlterTopics, RefusedTwice, Is, TopicsChosen
<1>5. CASE DeleteTopics
  <2>1. Is("topics", "delete") /\ pc' = "done"
    BY <1>5, RequestDoes DEF DeleteTopics
  <2> QED
    BY <1>0, <1>5, <2>1, DeleteTopicsDoes DEF TopicsRepeatable, TopicsChosen, Is
<1>6. CASE TopicsForeign
  BY <1>6, ForeignDisturbs DEF TopicsForeign, Done, TopicsChosen
<1> QED
  BY <1>1, <1>2, <1>3, <1>4, <1>5, <1>6 DEF TopicsNext

LEMMA TopicsAreUndone ==
  ASSUME AdminInv, faults \in Nat, TopicsChosen, TopicsNext, pc # "done", UNCHANGED <<cmd, script>>,
         Command(Earlier), calm', exit' = "ok"
  PROVE  TopicsUndone'
<1> USE DEF AdminInv, TypeOK
<1>0. exit = "none" /\ calm
  BY TopicMoves, CalmBefore DEF Fresh
<1>1. SUFFICES ASSUME Pair("topics", "create", "delete"), Earlier.name \in cmd.expression
               PROVE  ~ Exists(Earlier.name)'
  BY DEF TopicsUndone, Pair, Earlier
<1>2. Earlier.name \in Names
  BY <1>1 DEF Pair, Command, TopicCommand
<1>3. ~ Exists(Earlier.name) \/ Earlier.name \in Selected(Named(cmd.expression))
  BY <1>1, <1>2 DEF Selected, Named, Selector, TopicNames, Expression, NonzeroId, Given
<1>4. CASE DeleteTopics
  <2>1. topics' = [n \in Names |-> IF \E t \in applied' : t[1] = n THEN Absent ELSE topics[n]]
    BY <1>4 DEF DeleteTopics
  <2>2. topics'[Earlier.name] \in {Absent, topics[Earlier.name]}
    BY <1>2, <2>1
  <2>3. topics'[Earlier.name] = Absent \/ ~ Exists(Earlier.name)
    BY <1>0, <1>2, <1>3, <1>4, DeleteTopicsDoes
  <2> QED
    BY <2>2, <2>3 DEF Exists, Absent, Earlier
<1>5. CASE SelectTopics
  <2>1. UNCHANGED topics /\ Selected(Named(cmd.expression)) = {}
    BY <1>5, SelectTopicsDoes DEF topicVars
  <2> QED
    BY <1>3, <2>1 DEF Exists, Earlier
<1>6. CASE \/ ListTopics \/ DescribeTopics \/ IdentifyTopics \/ ReadTopicConfigs \/ DescribePartitions
           \/ CreateTopic \/ AlterTopics
  BY <1>1, <1>6 DEF ListTopics, DescribeTopics, IdentifyTopics, ReadTopicConfigs, DescribePartitions, CreateTopic,
                    AlterTopics, Pair, Is
<1>7. CASE TopicsForeign
  BY <1>7, ForeignDisturbs DEF TopicsForeign
<1> QED
  BY <1>4, <1>5, <1>6, <1>7 DEF TopicsNext

-----------------------------------------------------------------------------
(* Access control lists *)

AclsChosen == Is("acls", "add") /\ pc = "decide" => ~ AddRefused(cmd) /\ cmd.execute
AclsRepeatable ==
  /\ cmd.execute
  /\ \/ cmd.action = "add" /\ ~ AddRefused(cmd)
     \/ cmd.action = "remove" /\ ~ RemoveRefused(cmd)

LEMMA AddAclsDoes ==
  ASSUME Fresh, AddAcls
  PROVE  /\ asked' = {} /\ UNCHANGED acls /\ exit' \in {"none", "ok", "usage"}
         /\ exit' = "none" => cmd.execute
         /\ exit' # "usage" => ~ AddRefused(cmd)
         /\ exit' = "ok" => ~ cmd.execute
         /\ exit' = "usage" => AddRefused(cmd)
<1>1. pc # "done" /\ exit = "none" /\ UNCHANGED acls
  BY DEF AddAcls, Fresh
<1>2. CASE AddRefused(cmd)
  <2>1. Usage
    BY <1>2 DEF AddAcls
  <2> QED
    BY <1>1, <1>2, <2>1, QuietAsksNothing DEF Quiet, Usage, Stop
<1>3. CASE ~ AddRefused(cmd) /\ ~ cmd.execute
  <2>1. PICK report : Report(report)
    BY <1>3 DEF AddAcls
  <2> QED
    BY <1>1, <1>3, <2>1, QuietAsksNothing DEF Quiet, Report, Tell
<1>4. CASE ~ AddRefused(cmd) /\ cmd.execute
  <2>1. PICK value : Read("decide", value)
    BY <1>4 DEF AddAcls
  <2> QED
    BY <1>1, <1>4, <2>1, QuietAsksNothing DEF Quiet, Read
<1> QED
  BY <1>2, <1>3, <1>4

LEMMA CreateAclsDoes ==
  ASSUME Fresh, faults \in Nat, CreateAcls, calm'
  PROVE  exit' = "ok"
<1>1. CASE seen = {}
  BY <1>1 DEF CreateAcls, Report, Tell
<1>2. CASE seen # {}
  <2>1. Request(seen, seen, {}, "rows")
    BY <1>2 DEF CreateAcls
  <2> QED
    BY <2>1, CalmRequest
<1> QED
  BY <1>1, <1>2

LEMMA RemoveAclsDoes ==
  ASSUME Fresh, RemoveAcls
  PROVE  /\ exit' # "none"
         /\ exit' = "usage" <=> RemoveRefused(cmd)
         /\ asked' # {} => ~ RemoveRefused(cmd) /\ cmd.execute
         /\ faults \in Nat /\ calm' /\ ~ RemoveRefused(cmd) =>
              exit' = "ok" /\ (cmd.execute => acls' = acls \ Matching(RemovalFilters(cmd)))
<1>1. pc # "done" /\ acls' = acls \ applied'
  BY DEF RemoveAcls
<1>2. CASE RemoveRefused(cmd)
  <2>1. Usage
    BY <1>2 DEF RemoveAcls
  <2> QED
    BY <1>1, <1>2, <2>1, QuietAsksNothing DEF Quiet, Usage, Stop
<1>3. CASE ~ RemoveRefused(cmd) /\ ~ cmd.execute
  <2>1. PICK report : Report(report)
    BY <1>3 DEF RemoveAcls
  <2> QED
    BY <1>1, <1>3, <2>1, QuietAsksNothing DEF Quiet, Report, Tell
<1>4. CASE ~ RemoveRefused(cmd) /\ cmd.execute
  <2> DEFINE found == Matching(RemovalFilters(cmd))
  <2>1. Request(found, found, {}, "rows")
    BY <1>4 DEF RemoveAcls
  <2> HIDE DEF found
  <2>2. exit' \in {"ok", "partial", "error"}
    BY <2>1, RequestDoes
  <2>3. faults \in Nat /\ calm' => exit' = "ok" /\ applied' = found
    BY <2>1, CalmRequest
  <2> QED
    BY <1>1, <1>4, <2>2, <2>3 DEF found
<1> QED
  BY <1>2, <1>3, <1>4

LEMMA AclsRetried ==
  ASSUME AdminInv, faults \in Nat, AclsChosen, AclsNext, pc # "done", UNCHANGED cmd
  PROVE  /\ AclsChosen'
         /\ Done' => AclsRepeatable'
         /\ calm' /\ AclsRepeatable =>
              \/ exit' = "none" /\ AclsRepeatable'
              \/ exit' = "ok"
<1> USE DEF AdminInv, TypeOK
<1>0. exit = "none" /\ Fresh'
  BY AclMoves, StepKept DEF Fresh
<1>1. CASE ListAcls
  <2>1. Quiet /\ Is("acls", "list")
    BY <1>1 DEF ListAcls, Quiet
  <2> QED
    BY <2>1, QuietAsksNothing DEF Done, AclsChosen, AclsRepeatable, Is
<1>2. CASE AddAcls
  <2>1. Is("acls", "add")
    BY <1>2 DEF AddAcls
  <2>2. AclsChosen'
    BY <1>0, <1>2, AddAclsDoes DEF AclsChosen, Fresh
  <2> QED
    BY <1>2, <2>1, <2>2, AddAclsDoes DEF Done, AclsRepeatable, Is
<1>3. CASE CreateAcls
  <2>1. Is("acls", "add") /\ pc = "decide"
    BY <1>3 DEF CreateAcls
  <2>2. AclsChosen'
    BY <2>1 DEF AclsChosen, Is
  <2>3. AclsRepeatable'
    BY <2>1 DEF AclsChosen, AclsRepeatable, Is
  <2> QED
    BY <1>3, <2>2, <2>3, CreateAclsDoes
<1>4. CASE RemoveAcls
  <2>1. Is("acls", "remove")
    BY <1>4 DEF RemoveAcls
  <2> QED
    BY <1>4, <2>1, RemoveAclsDoes DEF Done, AclsRepeatable, AclsChosen, Is
<1>5. CASE AclsForeign
  BY <1>5, ForeignDisturbs DEF AclsForeign, Done, AclsChosen, Is
<1> QED
  BY <1>1, <1>2, <1>3, <1>4, <1>5 DEF AclsNext

\* What an addition binds, the removal with the same arguments looks for.
LEMMA RemovalMatches ==
  ASSUME NEW c, AclCommand(c), NEW d, AclCommand(d),
         \A f \in {"resources", "roles", "operations", "pattern", "principals", "allow", "deny", "allowHosts",
                   "denyHosts", "host", "execute"} : d[f] = c[f],
         ~ AddRefused(c), ~ HostsDiffer(c), NEW b \in Bindings(c), b \in Binding
  PROVE  \E f \in RemovalFilters(d) : Matches(f, b)
<1>1. /\ d.resources = c.resources /\ d.roles = c.roles /\ d.operations = c.operations
      /\ d.pattern = c.pattern /\ d.principals = c.principals /\ d.allow = c.allow /\ d.deny = c.deny
      /\ d.allowHosts = c.allowHosts /\ d.denyHosts = c.denyHosts /\ d.host = c.host
  OBVIOUS
<1> DEFINE Granted(g, e) ==
      [resource : {g[1]}, pattern : {c.pattern}, principal : {e[1]}, host : HostsFor(c, e[2]),
       operation : g[2], permission : {e[2]}]
<1>2. PICK g \in Grants(c, AddOperations(c)), e \in Grantees(c) : b \in Granted(g, e)
  <2>1. b \in UNION {Granted(g, e) : g \in Grants(c, AddOperations(c)), e \in Grantees(c)}
    BY DEF Bindings
  <2> HIDE DEF Granted
  <2>2. PICK S \in {Granted(g, e) : g \in Grants(c, AddOperations(c)), e \in Grantees(c)} : b \in S
    BY <2>1
  <2>3. PICK g \in Grants(c, AddOperations(c)), e \in Grantees(c) : S = Granted(g, e)
    BY <2>2
  <2> QED
    BY <2>2, <2>3
<1>3. /\ b.resource = g[1] /\ b.pattern = c.pattern /\ b.principal = e[1] /\ b.host \in HostsFor(c, e[2])
      /\ b.operation \in g[2] /\ b.permission = e[2]
  BY <1>2
<1>4. /\ Entries(d) = Entries(c) /\ DefaultHost(d) = DefaultHost(c) /\ Role(d) = Role(c)
      /\ \A p : HostsFor(d, p) = HostsFor(c, p)
      /\ Patterns(d) = Patterns(c)
  BY <1>1 DEF Entries, DefaultHost, Role, HostsFor, Patterns
<1>5. RoleGrants(d) = RoleGrants(c)
  BY <1>1 DEF RoleGrants, TopicOperations, OfType
<1>6. PICK h \in RemovalGrants(d) : h[1] = g[1] /\ b.operation \in (IF h[2] = {} THEN {"All"} ELSE h[2])
  <2>1. CASE Role(c)
    <3>1. g \in RoleGrants(c)
      BY <2>1 DEF Grants
    <3>2. g \in RemovalGrants(d)
      BY <1>4, <1>5, <2>1, <3>1 DEF RemovalGrants
    <3> QED
      BY <1>3, <3>2
  <2>2. CASE ~ Role(c)
    <3>1. PICK r \in c.resources : g = <<r, AddOperations(c)>>
      BY <2>2 DEF Grants
    <3>2. <<r, c.operations>> \in RemovalGrants(d)
      <4>1. RemovalGrants(d) = {<<x, c.operations>> : x \in IF c.resources = {} THEN {AnyResource} ELSE c.resources}
        BY <1>1, <1>4, <2>2 DEF RemovalGrants
      <4> QED
        BY <3>1, <4>1
    <3>3. b.operation \in (IF c.operations = {} THEN {"All"} ELSE c.operations)
      BY <1>3, <2>2, <3>1, PairParts DEF AddOperations
    <3> QED
      BY <3>1, <3>2, <3>3, PairParts
  <2> QED
    BY <2>1, <2>2
<1>7. PICK i \in RemovalEntries(d) : e[1] \in i[1] /\ HostsFor(c, e[2]) \subseteq i[2] /\ e[2] \in i[3]
  <2>1. CASE Entries(c) # {}
    <3>1. e \in Entries(c)
      BY <2>1 DEF Grantees
    <3>2. RemovalEntries(d) = {<<{x[1]}, HostsFor(d, x[2]), {x[2]}>> : x \in Entries(c)}
      BY <1>4, <2>1 DEF RemovalEntries
    <3>3. <<{e[1]}, HostsFor(d, e[2]), {e[2]}>> \in RemovalEntries(d)
      BY <3>1, <3>2
    <3> QED
      BY <1>4, <3>3
  <2>2. CASE Entries(c) = {}
    <3>1. PICK p \in c.principals : e = <<p, "Allow">>
      BY <2>2 DEF Grantees
    <3>2. e[1] = p /\ e[2] = "Allow"
      BY <3>1
    <3>3. HostsFor(c, "Allow") = DefaultHost(c)
      BY <2>2 DEF HostsDiffer, HostsFor
    <3>4. <<{p}, DefaultHost(d), {"Allow", "Deny"}>> \in RemovalEntries(d)
      BY <1>1, <1>4, <2>2 DEF RemovalEntries
    <3> QED
      BY <1>4, <3>2, <3>3, <3>4
  <2> QED
    BY <2>1, <2>2
<1> DEFINE f == Filter(d, h[1], i[1], i[2], IF h[2] = {} THEN {"All"} ELSE h[2], i[3])
<1>8. f \in RemovalFilters(d)
  <2>1. RemovalEntries(d) # {}
    BY <1>7
  <2> QED
    BY <2>1 DEF RemovalFilters
<1>9. Matches(f, b)
  <2>1. f = [resource |-> IF h[1] = AnyResource THEN AclResources ELSE {h[1]}, pattern |-> Patterns(d),
             principal |-> i[1], host |-> i[2], operation |-> IF h[2] = {} THEN {"All"} ELSE h[2],
             permission |-> i[3]]
    BY DEF Filter
  <2>2. b.resource \in (IF h[1] = AnyResource THEN AclResources ELSE {h[1]})
    BY <1>3, <1>6 DEF Binding
  <2>3. b.pattern \in Patterns(d)
    BY <1>3, <1>4 DEF Patterns, AddRefused
  <2>4. b.principal \in i[1] /\ b.host \in i[2] /\ b.permission \in i[3]
    BY <1>3, <1>7
  <2>5. b.operation \in (IF h[2] = {} THEN {"All"} ELSE h[2])
    BY <1>6
  <2> HIDE DEF f
  <2>6. \A field \in DOMAIN f : field \in {"resource", "pattern", "principal", "host", "operation", "permission"}
    BY <2>1
  <2>7. /\ b["resource"] \in f["resource"] /\ b["pattern"] \in f["pattern"]
        /\ b["principal"] \in f["principal"] /\ b["host"] \in f["host"]
        /\ b["operation"] \in f["operation"] /\ b["permission"] \in f["permission"]
    BY <2>1, <2>2, <2>3, <2>4, <2>5
  <2> QED
    BY <2>6, <2>7 DEF Matches
<1> HIDE DEF f
<1> QED
  BY <1>8, <1>9

LEMMA AclsAreUndone ==
  ASSUME AdminInv, faults \in Nat, AclsNext, pc # "done", UNCHANGED <<cmd, script>>, Command(Earlier),
         Earlier.tool = "acls" /\ Earlier.action = "add" => ~ AddRefused(Earlier),
         calm', exit' = "ok"
  PROVE  AclsUndone'
<1> USE DEF AdminInv, TypeOK
<1>1. SUFFICES ASSUME Pair("acls", "add", "remove"), cmd = [Earlier EXCEPT !.action = "remove"],
                      cmd.execute, ~ HostsDiffer(cmd)
               PROVE  Bindings(Earlier) \cap acls' = {}
  <2>1. Pair("acls", "add", "remove")' <=> Pair("acls", "add", "remove")
    BY DEF Pair, Earlier
  <2>2. Earlier' = Earlier
    BY DEF Earlier
  <2> QED
    BY <2>1, <2>2 DEF AclsUndone
<1>2. RemoveAcls
  BY <1>1, ForeignDisturbs DEF AclsNext, ListAcls, AddAcls, CreateAcls, AclsForeign, Pair, Is
<1>3. acls' = acls \ Matching(RemovalFilters(cmd))
  BY <1>1, <1>2, RemoveAclsDoes
<1>4. AclCommand(Earlier) /\ AclCommand(cmd) /\ ~ AddRefused(Earlier)
  BY <1>1, CommandOk DEF Pair, Command
<1>5. \A f \in {"resources", "roles", "operations", "pattern", "principals", "allow", "deny", "allowHosts",
                "denyHosts", "host", "execute"} : cmd[f] = Earlier[f]
  BY <1>1, <1>4 DEF AclCommand
<1>6. ~ HostsDiffer(Earlier)
  BY <1>1, <1>5 DEF HostsDiffer, Entries
<1>7. ASSUME NEW b \in Bindings(Earlier), b \in acls PROVE b \in Matching(RemovalFilters(cmd))
  <2>1. b \in Binding
    BY <1>7 DEF AclsTypeOK
  <2>2. \E f \in RemovalFilters(cmd) : Matches(f, b)
    BY <1>4, <1>5, <1>6, <1>7, <2>1, RemovalMatches
  <2> QED
    BY <1>7, <2>2 DEF Matching
<1> QED
  BY <1>3, <1>7

-----------------------------------------------------------------------------
(* Configurations *)

\* An alteration of quotas, or else of one resource, and what it alters.
QuotaChange(c) == IsQuota(c) /\ ~ OnlyScram(c)
Changed(c) == IF QuotaChange(c) THEN QuotaEntity(c) ELSE Entity(c)

\* The arguments of an alteration that is carried out, and where it sends its request.
AlterationOk(c) ==
  /\ AlterArgsOk(c) /\ c.execute
  /\ IF QuotaChange(c) THEN QuotaEntityOk(c, TRUE) /\ ~ c.badValue
     ELSE /\ SingleResourceOk(c, TRUE)
          /\ Only(c, "user") => ~ c.badValue /\ c.add \cap c.delete = {} /\ Changes(c) \subseteq Mechanisms
ViaProtocol(c) == ~ QuotaChange(c) /\ ~ Only(c, "user") /\ KindOf(c) \in ProtocolKinds
ViaResource(c) == ~ QuotaChange(c) /\ ~ Only(c, "user") /\ KindOf(c) \notin ProtocolKinds

AlterationChosen ==
  Is("configs", "alter") =>
    /\ pc \notin {"start", "done"} => AlterationOk(cmd)
    /\ pc \in {"decide", "quota"} => QuotaChange(cmd)
    /\ pc = "scram" => ~ QuotaChange(cmd) /\ Only(cmd, "user")
    /\ pc \in {"identify", "protocol"} => ViaProtocol(cmd)
    /\ pc = "protocol" => ConfigBrokerOk(Entity(cmd))
    /\ pc = "resource" => ViaResource(cmd)
ConfigsRepeatable ==
  /\ cmd.action = "alter" /\ AlterationOk(cmd)
  /\ ViaProtocol(cmd) => ConfigBrokerOk(Entity(cmd))
  /\ ViaResource(cmd) => ResourceOk(Entity(cmd))

\* Where an alteration goes after its arguments.
LEMMA AlterConfigDoes ==
  ASSUME Fresh, AlterConfig
  PROVE  /\ asked' = {} /\ UNCHANGED configs /\ exit' \in {"none", "ok", "usage"}
         /\ exit' = "none" <=> AlterationOk(cmd)
         /\ exit' = "ok" => ~ cmd.execute
         /\ exit' = "none" =>
              \/ pc' = "decide" /\ QuotaChange(cmd)
              \/ pc' = "scram" /\ ~ QuotaChange(cmd) /\ Only(cmd, "user")
              \/ pc' = "identify" /\ ViaProtocol(cmd)
              \/ pc' = "resource" /\ ViaResource(cmd)
<1>1. pc # "done" /\ exit = "none" /\ UNCHANGED configs
  BY DEF AlterConfig, Fresh
<1>2. ASSUME Usage PROVE asked' = {} /\ exit' = "usage"
  BY <1>1, <1>2, QuietAsksNothing DEF Quiet, Usage, Stop
<1>3. ASSUME Preview PROVE asked' = {} /\ exit' = "ok"
  <2>1. PICK report : Report(report)
    BY <1>3 DEF Preview
  <2> QED
    BY <1>1, <2>1, QuietAsksNothing DEF Quiet, Report, Tell
<1>4. ASSUME NEW next, Goto(next) PROVE asked' = {} /\ exit' = "none" /\ pc' = next
  BY <1>1, <1>4, QuietAsksNothing DEF Quiet, Goto, Read
<1>5. CASE ~ AlterArgsOk(cmd)
  BY <1>1, <1>2, <1>5 DEF AlterConfig, AlterationOk
<1>6. CASE AlterArgsOk(cmd) /\ QuotaChange(cmd)
  <2>1. IF ~ QuotaEntityOk(cmd, TRUE) \/ cmd.badValue THEN Usage
        ELSE IF cmd.execute THEN Goto("decide") ELSE Preview
    BY <1>6 DEF AlterConfig, QuotaChange
  <2> QED
    BY <1>1, <1>2, <1>3, <1>4, <1>6, <2>1 DEF AlterationOk
<1>7. CASE AlterArgsOk(cmd) /\ ~ QuotaChange(cmd) /\ ~ SingleResourceOk(cmd, TRUE)
  <2>1. Usage
    BY <1>7 DEF AlterConfig, QuotaChange
  <2> QED
    BY <1>1, <1>2, <1>7, <2>1 DEF AlterationOk
<1>8. CASE AlterArgsOk(cmd) /\ ~ QuotaChange(cmd) /\ SingleResourceOk(cmd, TRUE) /\ Only(cmd, "user")
  <2>1. IF cmd.badValue \/ cmd.add \cap cmd.delete # {} \/ ~ Changes(cmd) \subseteq Mechanisms THEN Usage
        ELSE IF cmd.execute THEN Goto("scram") ELSE Preview
    BY <1>8 DEF AlterConfig, QuotaChange
  <2> QED
    BY <1>1, <1>2, <1>3, <1>4, <1>8, <2>1 DEF AlterationOk
<1>9. CASE AlterArgsOk(cmd) /\ ~ QuotaChange(cmd) /\ SingleResourceOk(cmd, TRUE) /\ ~ Only(cmd, "user")
  <2>1. IF ~ cmd.execute THEN Preview
        ELSE IF KindOf(cmd) \in ProtocolKinds THEN Goto("identify")
        ELSE Goto("resource")
    BY <1>9 DEF AlterConfig, QuotaChange
  <2> QED
    BY <1>1, <1>3, <1>4, <1>9, <2>1 DEF AlterationOk, ViaProtocol, ViaResource
<1> QED
  BY <1>5, <1>6, <1>7, <1>8, <1>9

LEMMA AlterEntityDoes ==
  ASSUME faults \in Nat, NEW entity, NEW can \in BOOLEAN, NEW manner \in {"rows", "firstError"},
         AlterEntity(entity, can, manner)
  PROVE  /\ pc' = "done" /\ exit' # "none" /\ asked' = {entity}
         /\ applied' = asked' => can
         /\ calm' => (exit' = "ok" <=> can) /\ (can => configs' = Altered(entity))
         /\ configs' \in {configs, Altered(entity)}
<1> DEFINE able == IF can THEN {entity} ELSE {}
<1>1. /\ Request({entity}, able, {}, manner)
      /\ configs' = IF applied' = {} THEN configs ELSE Altered(entity)
  BY DEF AlterEntity
<1>2. pc' = "done" /\ exit' # "none" /\ asked' = {entity} /\ applied' \subseteq able
  BY <1>1, RequestDoes
<1>3. able \subseteq {entity}
  OBVIOUS
<1> HIDE DEF able
<1>4. calm' => /\ applied' = able
               /\ {entity} \subseteq able => exit' = "ok"
               /\ exit' = "ok" => {entity} \subseteq able
  BY <1>1, <1>3, CalmRequest
<1> QED
  BY <1>1, <1>2, <1>4 DEF able

\* The four requests of an alteration.
LEMMA AlterRequests ==
  ASSUME faults \in Nat, AlterationChosen, AlterQuota \/ AlterScram \/ AlterResource \/ AlterProtocol
  PROVE  /\ Is("configs", "alter") /\ AlterationOk(cmd)
         /\ pc' = "done" /\ exit' # "none"
         /\ configs' \in {configs, Altered(Changed(cmd))}
         /\ calm' /\ exit' = "ok" => configs' = Altered(Changed(cmd))
         /\ applied' = asked' \/ (calm' /\ exit' = "ok") => ConfigsRepeatable
         /\ calm' /\ ConfigsRepeatable /\ ~ RefusedTwice => exit' = "ok"
<1> USE DEF Is
<1>1. CASE AlterQuota
  <2>1. cmd.tool = "configs" /\ cmd.action = "alter" /\ AlterationOk(cmd) /\ QuotaChange(cmd)
    BY <1>1 DEF AlterQuota, AlterationChosen
  <2>2. AlterEntity(QuotaEntity(cmd), TRUE, "rows")
    BY <1>1 DEF AlterQuota
  <2>3. ConfigsRepeatable
    BY <2>1 DEF ConfigsRepeatable, ViaProtocol, ViaResource
  <2> QED
    BY <2>1, <2>2, <2>3, AlterEntityDoes DEF Changed
<1>2. CASE AlterScram
  <2>1. cmd.tool = "configs" /\ cmd.action = "alter" /\ AlterationOk(cmd) /\ ~ QuotaChange(cmd) /\ Only(cmd, "user")
    BY <1>2 DEF AlterScram, AlterationChosen
  <2>2. AlterEntity(Entity(cmd), cmd.delete \subseteq KeysOf(Entity(cmd)), "firstError")
    BY <1>2 DEF AlterScram
  <2>3. ConfigsRepeatable
    BY <2>1 DEF ConfigsRepeatable, ViaProtocol, ViaResource
  <2>4. ~ RefusedTwice => cmd.delete \subseteq KeysOf(Entity(cmd))
    BY <2>1, UserIsQuota DEF RefusedTwice
  <2> QED
    BY <2>1, <2>2, <2>3, <2>4, AlterEntityDoes DEF Changed
<1>3. CASE AlterResource
  <2>1. cmd.tool = "configs" /\ cmd.action = "alter" /\ AlterationOk(cmd) /\ ViaResource(cmd)
    BY <1>3 DEF AlterResource, AlterationChosen
  <2>2. AlterEntity(Entity(cmd), ResourceOk(Entity(cmd)), "firstError") /\ ResourceOk(Entity(cmd)) \in BOOLEAN
    BY <1>3 DEF AlterResource, ResourceOk
  <2>3. ~ ViaProtocol(cmd) /\ ~ QuotaChange(cmd)
    BY <2>1 DEF ViaProtocol, ViaResource
  <2>4. ConfigsRepeatable <=> ResourceOk(Entity(cmd))
    BY <2>1, <2>3 DEF ConfigsRepeatable
  <2> QED
    BY <2>1, <2>2, <2>3, <2>4, AlterEntityDoes DEF Changed
<1>4. CASE AlterProtocol
  <2>1. /\ cmd.tool = "configs" /\ cmd.action = "alter" /\ AlterationOk(cmd) /\ ViaProtocol(cmd)
        /\ ConfigBrokerOk(Entity(cmd))
    BY <1>4 DEF AlterProtocol, AlterationChosen
  <2>2. AlterEntity(Entity(cmd), TRUE, "rows")
    BY <1>4 DEF AlterProtocol
  <2>3. ~ ViaResource(cmd) /\ ~ QuotaChange(cmd)
    BY <2>1 DEF ViaProtocol, ViaResource
  <2>4. ConfigsRepeatable
    BY <2>1, <2>3 DEF ConfigsRepeatable
  <2> QED
    BY <2>1, <2>2, <2>3, <2>4, AlterEntityDoes DEF Changed
<1> QED
  BY <1>1, <1>2, <1>3, <1>4

LEMMA AlterReads ==
  ASSUME Fresh, AlterationChosen, UNCHANGED cmd, ReadQuota \/ FindConfigBroker
  PROVE  /\ Is("configs", "alter") /\ AlterArgsOk(cmd) /\ AlterationChosen' /\ asked' = {} /\ exit' # "ok"
         /\ UNCHANGED configs
         /\ ConfigsRepeatable /\ ~ RefusedTwice => exit' = "none"
<1> USE DEF Is
<1>1. CASE ReadQuota
  <2>1. cmd.tool = "configs" /\ cmd.action = "alter" /\ AlterationOk(cmd) /\ QuotaChange(cmd) /\ pc = "decide"
    BY <1>1 DEF ReadQuota, AlterationChosen
  <2>2. pc # "done" /\ exit = "none" /\ UNCHANGED configs
    BY <1>1 DEF ReadQuota, Fresh
  <2>3. ASSUME Goto("quota") PROVE asked' = {} /\ exit' = "none" /\ pc' = "quota"
    BY <2>2, <2>3, QuietAsksNothing DEF Quiet, Goto, Read
  <2>4. ASSUME Failed PROVE asked' = {} /\ exit' = "error" /\ pc' = "done"
    BY <2>2, <2>4, QuietAsksNothing DEF Quiet, Failed, Stop
  <2>5. IF cmd.delete \subseteq KeysOf(QuotaEntity(cmd)) THEN Goto("quota") ELSE Failed
    BY <1>1 DEF ReadQuota
  <2>6. ~ RefusedTwice => cmd.delete \subseteq KeysOf(QuotaEntity(cmd))
    BY <2>1 DEF RefusedTwice, QuotaChange
  <2>7. AlterationOk(cmd)' /\ QuotaChange(cmd)' /\ pc' \in {"quota", "done"}
    BY <2>1, <2>3, <2>4, <2>5
  <2>8. AlterationChosen'
    BY <2>7 DEF AlterationChosen
  <2> QED
    BY <2>1, <2>2, <2>3, <2>4, <2>5, <2>6, <2>8 DEF AlterationOk
<1>2. CASE FindConfigBroker
  <2>1. cmd.tool = "configs" /\ cmd.action = "alter" /\ AlterationOk(cmd) /\ ViaProtocol(cmd) /\ pc = "identify"
    BY <1>2 DEF FindConfigBroker, AlterationChosen
  <2>2. pc # "done" /\ exit = "none" /\ UNCHANGED configs
    BY <1>2 DEF FindConfigBroker, Fresh
  <2>3. ASSUME Goto("protocol") PROVE asked' = {} /\ exit' = "none" /\ pc' = "protocol"
    BY <2>2, <2>3, QuietAsksNothing DEF Quiet, Goto, Read
  <2>4. ASSUME Usage PROVE asked' = {} /\ exit' = "usage" /\ pc' = "done"
    BY <2>2, <2>4, QuietAsksNothing DEF Quiet, Usage, Stop
  <2>5. IF ConfigBrokerOk(Entity(cmd)) THEN Goto("protocol") ELSE Usage
    BY <1>2 DEF FindConfigBroker
  <2>6. ConfigsRepeatable => ConfigBrokerOk(Entity(cmd))
    BY <2>1 DEF ConfigsRepeatable
  <2>7. /\ AlterationOk(cmd)' /\ ViaProtocol(cmd)' /\ pc' \in {"protocol", "done"}
        /\ pc' = "protocol" => ConfigBrokerOk(Entity(cmd))'
    BY <2>1, <2>3, <2>4, <2>5
  <2>8. AlterationChosen'
    BY <2>7 DEF AlterationChosen
  <2> QED
    BY <2>1, <2>2, <2>3, <2>4, <2>5, <2>6, <2>8 DEF AlterationOk
<1> QED
  BY <1>1, <1>2

LEMMA ConfigReports ==
  ASSUME Fresh, DescribeQuota \/ DescribeScram \/ DescribeConfig
  PROVE  asked' = {} /\ Is("configs", "describe")
<1> USE DEF Quiet
<1>1. CASE DescribeQuota
  BY <1>1, QuietAsksNothing DEF DescribeQuota
<1>2. CASE DescribeScram
  BY <1>2, QuietAsksNothing DEF DescribeScram
<1>3. CASE DescribeConfig
  BY <1>3, QuietAsksNothing DEF DescribeConfig, Described
<1> QED
  BY <1>1, <1>2, <1>3

LEMMA ConfigsRetried ==
  ASSUME AdminInv, faults \in Nat, AlterationChosen, ConfigsNext, cmd.tool = "configs", pc # "done", UNCHANGED cmd
  PROVE  /\ AlterationChosen'
         /\ Done' /\ ~ RefusedTwice => ConfigsRepeatable'
         /\ calm' /\ ConfigsRepeatable /\ ~ RefusedTwice =>
              \/ exit' = "none" /\ ConfigsRepeatable'
              \/ exit' = "ok"
<1> USE DEF AdminInv
<1>0. exit = "none" /\ (exit' = "none" <=> pc' # "done")
  BY ConfigMoves, StepKept DEF Fresh
<1>1. ConfigsRepeatable => ConfigsRepeatable'
  <2>1. AlterationOk(cmd)' = AlterationOk(cmd) /\ ViaProtocol(cmd)' = ViaProtocol(cmd)
        /\ ConfigBrokerOk(Entity(cmd))' = ConfigBrokerOk(Entity(cmd))
        /\ ViaResource(cmd)' = ViaResource(cmd) /\ ResourceOk(Entity(cmd))' = ResourceOk(Entity(cmd))
    OBVIOUS
  <2> QED
    BY <2>1 DEF ConfigsRepeatable
<1>2. CASE AlterConfig
  <2>1. AlterationChosen'
    <3>1. exit' = "none" => AlterationOk(cmd)' /\ pc' \in {"decide", "scram", "identify", "resource"}
      BY <1>2, AlterConfigDoes
    <3>2. /\ pc' = "decide" => QuotaChange(cmd)'
          /\ pc' = "scram" => ~ QuotaChange(cmd)' /\ Only(cmd, "user")'
          /\ pc' = "identify" => ViaProtocol(cmd)'
          /\ pc' = "resource" => ViaResource(cmd)'
      BY <1>0, <1>2, AlterConfigDoes
    <3> QED
      BY <1>0, <3>1, <3>2 DEF AlterationChosen
  <2>2. asked' = {} /\ (ConfigsRepeatable => exit' = "none")
    BY <1>2, AlterConfigDoes DEF ConfigsRepeatable
  <2> QED
    BY <1>1, <2>1, <2>2 DEF Done
<1>3. CASE ReadQuota \/ FindConfigBroker
  BY <1>1, <1>3, AlterReads DEF Done
<1>4. CASE AlterQuota \/ AlterScram \/ AlterResource \/ AlterProtocol
  <2>1. AlterationOk(cmd)' /\ pc' = "done"
    BY <1>4, AlterRequests
  <2>2. AlterationChosen'
    BY <2>1 DEF AlterationChosen
  <2> QED
    BY <1>1, <1>4, <2>2, AlterRequests DEF Done
<1>5. CASE DescribeQuota \/ DescribeScram \/ DescribeConfig
  BY <1>5, ConfigReports DEF Done, AlterationChosen, ConfigsRepeatable, Is
<1>6. CASE ConfigsForeign
  <2>1. UNCHANGED pc /\ exit' = "none" /\ ~ calm'
    BY <1>6, ForeignDisturbs DEF ConfigsForeign
  <2>2. AlterationChosen'
    <3>1. AlterationOk(cmd)' = AlterationOk(cmd) /\ ViaProtocol(cmd)' = ViaProtocol(cmd)
          /\ ConfigBrokerOk(Entity(cmd))' = ConfigBrokerOk(Entity(cmd)) /\ QuotaChange(cmd)' = QuotaChange(cmd)
          /\ ViaResource(cmd)' = ViaResource(cmd) /\ Only(cmd, "user")' = Only(cmd, "user")
          /\ Is("configs", "alter")' = Is("configs", "alter")
      BY DEF Is
    <3> QED
      BY <2>1, <3>1 DEF AlterationChosen
  <2> QED
    BY <2>1, <2>2 DEF Done
<1>7. ~ (MetricsList \/ MetricsAlter \/ MetricsKeysRead \/ MetricsDelete)
  BY DEF MetricsList, MetricsAlter, MetricsKeysRead, MetricsDelete, Is
<1> QED
  BY <1>2, <1>3, <1>4, <1>5, <1>6, <1>7 DEF ConfigsNext

\* Client metrics: the keys that were read are those there are.
MetricsChosen ==
  Is("client-metrics", "delete") /\ pc = "decide" => cmd.execute /\ (calm => seen = KeysOf(Metrics(cmd)))
MetricsRepeatable ==
  /\ cmd.execute
  /\ cmd.action \in {"alter", "delete"}
  /\ cmd.action = "alter" => ~ cmd.badValue /\ cmd.name # ""

LEMMA MetricsAlterDoes ==
  ASSUME Fresh, faults \in Nat, MetricsAlter
  PROVE  /\ exit' # "none" /\ pc' = "done"
         /\ asked' # {} => cmd.execute /\ ~ cmd.badValue /\ cmd.name # ""
         /\ calm' /\ cmd.execute /\ ~ cmd.badValue /\ cmd.name # "" => exit' = "ok"
<1>1. pc # "done"
  BY DEF MetricsAlter
<1>2. CASE cmd.badValue \/ cmd.name = ""
  <2>1. Usage
    BY <1>2 DEF MetricsAlter
  <2> QED
    BY <1>1, <1>2, <2>1, QuietAsksNothing DEF Quiet, Usage, Stop
<1>3. CASE ~ (cmd.badValue \/ cmd.name = "") /\ ~ cmd.execute
  <2>1. PICK report : Report(report)
    BY <1>3 DEF MetricsAlter, Preview
  <2> QED
    BY <1>1, <1>3, <2>1, QuietAsksNothing DEF Quiet, Report, Tell
<1>4. CASE ~ (cmd.badValue \/ cmd.name = "") /\ cmd.execute
  <2>1. AlterEntity(Metrics(cmd), TRUE, "rows")
    BY <1>4 DEF MetricsAlter
  <2> QED
    BY <1>4, <2>1, AlterEntityDoes
<1> QED
  BY <1>2, <1>3, <1>4

LEMMA MetricsKeysReadDoes ==
  ASSUME Fresh, MetricsKeysRead, UNCHANGED cmd
  PROVE  /\ asked' = {} /\ MetricsChosen' /\ UNCHANGED configs
         /\ exit' = "none" <=> cmd.execute
<1>1. pc # "done" /\ exit = "none" /\ UNCHANGED configs /\ Is("client-metrics", "delete")
  BY DEF MetricsKeysRead, Fresh
<1>2. CASE cmd.execute
  <2>1. Read("decide", KeysOf(Metrics(cmd)))
    BY <1>2 DEF MetricsKeysRead
  <2>2. asked' = {} /\ exit' = "none" /\ seen' = KeysOf(Metrics(cmd))
    BY <1>1, <2>1, QuietAsksNothing DEF Quiet, Read
  <2>3. KeysOf(Metrics(cmd))' = KeysOf(Metrics(cmd))
    BY <1>1 DEF KeysOf, Metrics
  <2> QED
    BY <1>1, <1>2, <2>2, <2>3 DEF MetricsChosen
<1>3. CASE ~ cmd.execute
  <2>1. PICK report : Report(report)
    BY <1>3 DEF MetricsKeysRead
  <2>2. asked' = {} /\ exit' = "ok" /\ pc' = "done"
    BY <1>1, <2>1, QuietAsksNothing DEF Quiet, Report, Tell
  <2> QED
    BY <1>1, <1>3, <2>2 DEF MetricsChosen
<1> QED
  BY <1>2, <1>3

LEMMA MetricsDeleteDoes ==
  ASSUME Fresh, faults \in Nat, MetricsDelete, MetricsChosen
  PROVE  /\ exit' # "none" /\ pc' = "done" /\ cmd.execute /\ Is("client-metrics", "delete")
         /\ calm' => exit' = "ok" /\ configs' = configs \ ({Metrics(cmd)} \X KeysOf(Metrics(cmd)))
<1>1. /\ Request({Metrics(cmd)}, {Metrics(cmd)}, {}, "rows")
      /\ configs' = IF applied' = {} THEN configs ELSE configs \ ({Metrics(cmd)} \X seen)
      /\ Is("client-metrics", "delete") /\ pc = "decide"
  BY DEF MetricsDelete
<1>2. exit' # "none" /\ pc' = "done" /\ (calm' => calm)
  <2>1. Step
    BY ConfigMoves DEF ConfigsNext
  <2> QED
    BY <1>1, <2>1, RequestDoes, CalmBefore
<1>3. calm' => applied' = {Metrics(cmd)} /\ exit' = "ok"
  BY <1>1, CalmRequest
<1>4. calm' => configs' = configs \ ({Metrics(cmd)} \X KeysOf(Metrics(cmd)))
  BY <1>1, <1>2, <1>3 DEF MetricsChosen
<1> QED
  BY <1>1, <1>2, <1>3, <1>4 DEF MetricsChosen

LEMMA MetricsRetried ==
  ASSUME AdminInv, faults \in Nat, MetricsChosen, ConfigsNext, cmd.tool = "client-metrics", pc # "done", UNCHANGED cmd
  PROVE  /\ MetricsChosen'
         /\ Done' => MetricsRepeatable'
         /\ calm' /\ MetricsRepeatable =>
              \/ exit' = "none" /\ MetricsRepeatable'
              \/ exit' = "ok"
<1> USE DEF AdminInv
<1>1. MetricsRepeatable => MetricsRepeatable'
  BY DEF MetricsRepeatable
<1>2. CASE MetricsList
  <2>1. asked' = {} /\ cmd.action \in {"list", "describe"}
    BY <1>2, QuietAsksNothing DEF MetricsList, Described, Quiet, Is
  <2> QED
    BY <2>1 DEF Done, MetricsChosen, MetricsRepeatable, Is
<1>3. CASE MetricsAlter
  <2>1. Is("client-metrics", "alter")
    BY <1>3 DEF MetricsAlter
  <2> QED
    BY <1>1, <1>3, <2>1, MetricsAlterDoes DEF Done, MetricsChosen, MetricsRepeatable, Is
<1>4. CASE MetricsKeysRead
  BY <1>1, <1>4, MetricsKeysReadDoes DEF Done, MetricsRepeatable
<1>5. CASE MetricsDelete
  <2>1. MetricsRepeatable
    BY <1>5, MetricsDeleteDoes DEF MetricsRepeatable, Is
  <2> QED
    BY <1>1, <1>5, <2>1, MetricsDeleteDoes DEF MetricsChosen
<1>6. CASE ConfigsForeign
  BY <1>6, ForeignDisturbs DEF ConfigsForeign, Done, MetricsChosen, Is
<1>7. ~ (AlterConfig \/ ReadQuota \/ AlterQuota \/ AlterScram \/ AlterResource \/ FindConfigBroker \/ AlterProtocol
         \/ DescribeQuota \/ DescribeScram \/ DescribeConfig)
  BY DEF AlterConfig, ReadQuota, AlterQuota, AlterScram, AlterResource, FindConfigBroker, AlterProtocol,
         DescribeQuota, DescribeScram, DescribeConfig, Is
<1> QED
  BY <1>2, <1>3, <1>4, <1>5, <1>6, <1>7 DEF ConfigsNext

\* What an alteration of configurations has added, of what there was not at the start.
Alteration(c) == c.tool = "configs" /\ c.action = "alter"
Added(c) == IF AlterationOk(c) THEN {Changed(c)} \X c.add ELSE {}
AddedOnly ==
  /\ turn = 1 /\ calm /\ Alteration(cmd) => configs \subseteq InitialConfigs \cup Added(cmd)
  /\ turn = 2 /\ exit = "none" /\ calm /\ past[1].calm /\ Alteration(Earlier) =>
       configs \subseteq InitialConfigs \cup Added(Earlier)

\* Until it ends, a command changes no configuration.
LEMMA ConfigsWait ==
  ASSUME AdminInv, faults \in Nat, AlterationChosen, MetricsChosen, ConfigsNext, pc # "done", UNCHANGED cmd,
         exit' = "none", calm'
  PROVE  UNCHANGED configs
<1> USE DEF AdminInv
<1>1. CASE AlterConfig \/ ReadQuota \/ FindConfigBroker \/ DescribeQuota \/ DescribeScram \/ DescribeConfig
           \/ MetricsList \/ MetricsKeysRead
  BY <1>1 DEF AlterConfig, ReadQuota, FindConfigBroker, DescribeQuota, DescribeScram, DescribeConfig, MetricsList,
              MetricsKeysRead
<1>2. CASE AlterQuota \/ AlterScram \/ AlterResource \/ AlterProtocol
  BY <1>2, AlterRequests
<1>3. CASE MetricsAlter \/ MetricsDelete
  BY <1>3, MetricsAlterDoes, MetricsDeleteDoes
<1>4. CASE ConfigsForeign
  BY <1>4, ForeignDisturbs DEF ConfigsForeign
<1> QED
  BY <1>1, <1>2, <1>3, <1>4 DEF ConfigsNext

LEMMA AddedOnlyNext ==
  ASSUME AdminInv, faults \in Nat, AlterationChosen, MetricsChosen, ConfigsNext, pc # "done",
         UNCHANGED <<cmd, script, turn, past>>, AddedOnly
  PROVE  AddedOnly'
<1>1. exit = "none" /\ (calm' => calm)
  BY ConfigMoves, CalmBefore DEF AdminInv, Fresh
<1>2. ASSUME turn = 1, calm', Alteration(cmd) PROVE configs' \subseteq InitialConfigs \cup Added(cmd)
  <2>1. configs \subseteq InitialConfigs \cup Added(cmd)
    BY <1>1, <1>2 DEF AddedOnly
  <2>2. CASE UNCHANGED configs
    BY <2>1, <2>2
  <2>3. CASE AlterQuota \/ AlterScram \/ AlterResource \/ AlterProtocol
    <3>1. AlterationOk(cmd) /\ configs' \in {configs, Altered(Changed(cmd))}
      BY <2>3, AlterRequests
    <3>2. Altered(Changed(cmd)) \subseteq configs \cup Added(cmd)
      BY <3>1 DEF Altered, Added
    <3> QED
      BY <2>1, <3>1, <3>2
  <2>4. CASE ConfigsForeign
    BY <1>2, <2>4, ForeignDisturbs DEF ConfigsForeign, AdminInv
  <2>5. ~ (MetricsAlter \/ MetricsDelete)
    BY <1>2 DEF MetricsAlter, MetricsDelete, Alteration, Is
  <2> QED
    BY <2>2, <2>3, <2>4, <2>5
    DEF ConfigsNext, AlterConfig, ReadQuota, FindConfigBroker, DescribeQuota, DescribeScram, DescribeConfig,
        MetricsList, MetricsKeysRead
<1>3. Added(cmd)' = Added(cmd) /\ Alteration(cmd)' = Alteration(cmd) /\ Earlier' = Earlier
  BY DEF Earlier
<1>4. Added(Earlier)' = Added(Earlier) /\ Alteration(Earlier)' = Alteration(Earlier)
  BY <1>3
<1>5. ASSUME turn = 2, exit' = "none", calm', past[1].calm, Alteration(Earlier)
      PROVE  configs' \subseteq InitialConfigs \cup Added(Earlier)
  <2>1. configs \subseteq InitialConfigs \cup Added(Earlier)
    BY <1>1, <1>5 DEF AddedOnly
  <2> QED
    BY <1>5, <2>1, ConfigsWait
<1> QED
  BY <1>2, <1>3, <1>4, <1>5 DEF AddedOnly

\* The arguments that delete what was added name the entity that was altered.
LEMMA SameChanged ==
  ASSUME NEW c, ConfigCommand(c), NEW d, ConfigCommand(d), AlterArgsOk(c), AlterArgsOk(d),
         d = [c EXCEPT !.add = {}, !.delete = c.add]
  PROVE  Changed(d) = Changed(c)
<1>1. /\ d.kinds = c.kinds /\ d.names = c.names /\ d.default = c.default /\ d.flags = c.flags
      /\ d.add = {} /\ d.delete = c.add
  BY DEF ConfigCommand
<1>2. Kinds(d) = Kinds(c) /\ EntityNames(d) = EntityNames(c) /\ EntityDefault(d) = EntityDefault(c)
  BY <1>1 DEF Kinds, EntityNames, EntityDefault, Generic, OnlyDefault
<1>3. Entity(d) = Entity(c) /\ QuotaEntity(d) = QuotaEntity(c)
  BY <1>2 DEF Entity, QuotaEntity, KindOf
<1>4. IsQuota(d) = IsQuota(c)
  BY <1>2 DEF IsQuota
<1>5. Changes(d) = c.add /\ Changes(c) = c.add \cup c.delete /\ Changes(d) # {}
  BY <1>1 DEF Changes, AlterArgsOk
<1>6. IsQuota(c) => (OnlyScram(d) <=> OnlyScram(c))
  <2>1. SUFFICES ASSUME IsQuota(c), ~ OnlyScram(c) PROVE ~ OnlyScram(d)
    BY <1>5 DEF OnlyScram
  <2>2. Changes(c) \cap ScramKeys # {} => Changes(c) \ ScramKeys = {}
    BY <2>1 DEF AlterArgsOk, QuotaKeysOk
  <2> QED
    BY <1>5, <2>1, <2>2 DEF OnlyScram
<1> QED
  BY <1>3, <1>4, <1>6 DEF Changed, QuotaChange

LEMMA ConfigsAreUndone ==
  ASSUME AdminInv, faults \in Nat, AlterationChosen, ConfigsNext, pc # "done",
         UNCHANGED <<cmd, script>>, Command(Earlier), AddedOnly, turn = 2, past[1].calm, calm', exit' = "ok"
  PROVE  ConfigsUndone'
<1> USE DEF AdminInv, TypeOK
<1>1. SUFFICES ASSUME Pair("configs", "alter", "alter"), cmd = [Earlier EXCEPT !.add = {}, !.delete = Earlier.add],
                      cmd.execute, NEW x \in configs', x[2] \in cmd.delete, x \notin InitialConfigs
               PROVE  FALSE
  <2>1. Pair("configs", "alter", "alter")' <=> Pair("configs", "alter", "alter")
    BY DEF Pair, Earlier
  <2>2. Earlier' = Earlier
    BY DEF Earlier
  <2> QED
    BY <2>1, <2>2 DEF ConfigsUndone
<1>2. Alteration(Earlier) /\ Is("configs", "alter") /\ ConfigCommand(Earlier) /\ ConfigCommand(cmd)
  BY <1>1, CommandOk DEF Pair, Alteration, Is, Command
<1>3. exit = "none" /\ calm
  BY ConfigMoves, CalmBefore DEF Fresh
<1>4. configs \subseteq InitialConfigs \cup Added(Earlier)
  BY <1>2, <1>3 DEF AddedOnly
<1>5. AlterQuota \/ AlterScram \/ AlterResource \/ AlterProtocol
  <2>1. ~ AlterConfig
    BY <1>1, AlterConfigDoes
  <2>2. ~ (ReadQuota \/ FindConfigBroker)
    BY AlterReads
  <2>3. ~ (DescribeQuota \/ DescribeScram \/ DescribeConfig \/ MetricsList \/ MetricsAlter \/ MetricsKeysRead
           \/ MetricsDelete)
    BY <1>2 DEF DescribeQuota, DescribeScram, DescribeConfig, MetricsList, MetricsAlter, MetricsKeysRead,
                MetricsDelete, Is
  <2>4. ~ ConfigsForeign
    BY ForeignDisturbs DEF ConfigsForeign
  <2> QED
    BY <2>1, <2>2, <2>3, <2>4 DEF ConfigsNext
<1>6. AlterationOk(cmd) /\ configs' = Altered(Changed(cmd))
  BY <1>5, AlterRequests
<1>7. cmd.add = {} /\ cmd.delete = Earlier.add
  BY <1>1, <1>2 DEF ConfigCommand
<1>8. x \in configs /\ x \notin {Changed(cmd)} \X cmd.delete
  BY <1>1, <1>6, <1>7 DEF Altered
<1>9. x \in Added(Earlier)
  BY <1>1, <1>4, <1>8
<1>10. AlterationOk(Earlier) /\ x \in {Changed(Earlier)} \X Earlier.add
  BY <1>9 DEF Added
<1>11. Changed(cmd) = Changed(Earlier)
  <2>1. AlterArgsOk(cmd) /\ AlterArgsOk(Earlier)
    BY <1>6, <1>10 DEF AlterationOk
  <2> QED
    BY <1>1, <1>2, <2>1, SameChanged
<1> QED
  BY <1>7, <1>8, <1>10, <1>11

LEMMA MetricsAreUndone ==
  ASSUME AdminInv, faults \in Nat, MetricsChosen, ConfigsNext, pc # "done", UNCHANGED <<cmd, script>>, calm',
         exit' = "ok"
  PROVE  MetricsUndone'
<1> USE DEF AdminInv, TypeOK
<1>1. SUFFICES ASSUME Pair("client-metrics", "alter", "delete"), cmd.execute, NEW y \in configs', y[1] = Metrics(cmd)
               PROVE  FALSE
  <2>1. Pair("client-metrics", "alter", "delete")' <=> Pair("client-metrics", "alter", "delete")
    BY DEF Pair, Earlier
  <2>2. Metrics(cmd)' = Metrics(cmd)
    OBVIOUS
  <2> QED
    BY <2>1, <2>2 DEF MetricsUndone, KeysOf
<1>2. Is("client-metrics", "delete")
  BY <1>1 DEF Pair, Is
<1>3. MetricsDelete
  <2>1. ~ MetricsKeysRead
    BY <1>1, MetricsKeysReadDoes
  <2>2. ~ ConfigsForeign
    BY ForeignDisturbs DEF ConfigsForeign
  <2> QED
    BY <1>2, <2>1, <2>2
    DEF ConfigsNext, AlterConfig, ReadQuota, AlterQuota, AlterScram, AlterResource, FindConfigBroker, AlterProtocol,
        DescribeQuota, DescribeScram, DescribeConfig, MetricsList, MetricsAlter, Is
<1>4. configs' = configs \ ({Metrics(cmd)} \X KeysOf(Metrics(cmd)))
  BY <1>3, MetricsDeleteDoes
<1>5. y \in configs /\ y = <<y[1], y[2]>>
  BY <1>4 DEF ConfigsTypeOK, ConfigEntry
<1>6. y[2] \in KeysOf(Metrics(cmd))
  BY <1>1, <1>5 DEF KeysOf
<1>7. y \in {Metrics(cmd)} \X KeysOf(Metrics(cmd))
  BY <1>1, <1>5, <1>6
<1> QED
  BY <1>4, <1>7

-----------------------------------------------------------------------------
(* Features *)

\* The levels are those that were asked for, so that it asks for nothing the controller
\* would not do again.
FeaturesRepeatable ==
  /\ cmd.action \in {"upgrade", "downgrade", "disable"} /\ ~ UpdatesRefused(cmd) /\ ~ cmd.dryRun
  /\ \A u \in FeatureUpdates(cmd) : MayUpdate(cmd, u)

\* A feature that is listed is listed once.
LEMMA ListedOnce ==
  ASSUME NEW c, FeatureCommand(c), NamedOnce(c), NEW u \in ListedLevels(c), NEW v \in ListedLevels(c), u[1] = v[1]
  PROVE  u = v
<1> DEFINE D == 1..Len(c.features)
           names == {f[1] : f \in ListedLevels(c)}
           name == [i \in D |-> c.features[i][1]]
<1>1. Len(c.features) \in Nat /\ DOMAIN c.features = D
  BY DEF FeatureCommand
<1>2. IsFiniteSet(D) /\ Cardinality(D) = Len(c.features)
  BY <1>1, FS_Interval
<1>3. Cardinality(names) = Cardinality(D)
  BY <1>2 DEF NamedOnce
<1>4. \A x \in names : \E i \in D : name[i] = x
  BY <1>1 DEF ListedLevels
<1>5. name \in [D -> names]
  BY <1>1 DEF ListedLevels
<1>6. name \in Surjection(D, names)
  BY <1>4, <1>5 DEF Surjection
<1> HIDE DEF names, name, D
<1>7. name \in Injection(D, names)
  BY <1>2, <1>3, <1>6, FS_SurjSameCardinalityImpliesInj
<1>8. PICK i \in D, j \in D : u = c.features[i] /\ v = c.features[j]
  BY <1>1 DEF ListedLevels
<1>9. name[i] = name[j]
  BY <1>8 DEF name
<1>10. i = j
  BY <1>7, <1>9 DEF Injection, IsInjective
<1> QED
  BY <1>8, <1>10

LEMMA ReleasedOnce ==
  ASSUME NEW c, NEW u \in ReleaseLevels(c), NEW v \in ReleaseLevels(c), u[1] = v[1]
  PROVE  u = v
<1> DEFINE level == The(MetadataVersion(The(c.release)))
           chosen == {f \in ProductionFeatures : c.action # "upgrade" \/ DefaultLevel(f, level) > 0}
           default(f) == DefaultLevel(f, level)
<1>1. ReleaseLevels(c) = {<<Metadata, level>>} \cup {<<f, default(f)>> : f \in chosen}
  BY DEF ReleaseLevels
<1>2. Metadata \notin chosen
  BY DEF Metadata, ProductionFeatures
<1> HIDE DEF chosen, default, level
<1>3. ASSUME NEW x \in ReleaseLevels(c)
      PROVE  x = IF x[1] = Metadata THEN <<Metadata, level>> ELSE <<x[1], default(x[1])>>
  BY <1>1, <1>2
<1> QED
  BY <1>3

\* No two updates of a command that is carried out are about one feature.
LEMMA FeaturesOnce ==
  ASSUME NEW c, FeatureCommand(c), ~ UpdatesRefused(c), NEW u \in FeatureUpdates(c), NEW v \in FeatureUpdates(c),
         u[1] = v[1]
  PROVE  u = v
<1>1. CASE c.action = "disable"
  <2>1. \A x \in FeatureUpdates(c) : x = <<x[1], 0>>
    BY <1>1 DEF FeatureUpdates
  <2> QED
    BY <2>1
<1>2. CASE c.action # "disable"
  <2> DEFINE version(x) == The(MetadataVersion(x))
             given == {<<Metadata, version(x)>> : x \in c.metadata}
  <2>1. FeatureUpdates(c) = FeatureLevels(c) \cup given
    BY <1>2 DEF FeatureUpdates
  <2>2. \A x, y \in FeatureLevels(c) : x[1] = y[1] => x = y
    <3>1. CASE c.release # {}
      BY <3>1, ReleasedOnce DEF FeatureLevels
    <3>2. CASE c.release = {}
      <4>1. NamedOnce(c)
        BY <1>2, <3>2 DEF UpdatesRefused, FeaturesOk
      <4> QED
        BY <3>2, <4>1, ListedOnce DEF FeatureLevels
    <3> QED
      BY <3>1, <3>2
  <2>3. c.metadata # {} => \A x \in FeatureLevels(c) : x[1] # Metadata
    BY DEF UpdatesRefused
  <2>4. \A x, y \in c.metadata : x = y
    BY DEF FeatureCommand, IsOption
  <2> HIDE DEF version
  <2>5. \A x, y \in given : x = y
    BY <2>4
  <2>6. \A x \in given : x[1] = Metadata /\ c.metadata # {}
    OBVIOUS
  <2> HIDE DEF given
  <2> QED
    BY <2>1, <2>2, <2>3, <2>5, <2>6
<1> QED
  BY <1>1, <1>2

\* What an update does that is carried out.
LEMMA UpdateFeaturesDoes ==
  ASSUME AdminInv, faults \in Nat, UpdateFeatures
  PROVE  /\ exit' # "none" /\ cmd.action \in {"upgrade", "downgrade", "disable"} /\ pc # "done"
         /\ asked' # {} \/ (exit' = "ok" /\ ~ cmd.dryRun) =>
              ~ UpdatesRefused(cmd) /\ ~ cmd.dryRun /\ asked' = FeatureUpdates(cmd)
         /\ exit' = "ok" /\ calm' /\ ~ cmd.dryRun => applied' = asked'
         /\ calm' /\ FeaturesRepeatable => exit' = "ok"
         /\ \A u \in applied' : MayUpdate(cmd, u) /\ levels'[u[1]] = u[2]
<1> USE DEF AdminInv, TypeOK
<1>0. cmd.action \in {"upgrade", "downgrade", "disable"} /\ pc # "done" /\ FeatureCommand(cmd)
  BY CommandOk DEF UpdateFeatures, Is, Command
<1> DEFINE can == {u \in FeatureUpdates(cmd) : MayUpdate(cmd, u)}
<1>1. CASE UpdatesRefused(cmd)
  <2>1. Usage
    BY <1>1 DEF UpdateFeatures
  <2>2. asked' = {} /\ applied' = {} /\ exit' = "usage"
    BY <1>0, <2>1, QuietAsksNothing, QuietDoesNothing DEF Quiet, Usage, Stop
  <2> QED
    BY <1>0, <1>1, <2>2 DEF FeaturesRepeatable
<1>2. CASE ~ UpdatesRefused(cmd) /\ cmd.dryRun
  <2>1. DryRun(FeatureUpdates(cmd), can)
    BY <1>2 DEF UpdateFeatures
  <2>2. asked' = {} /\ applied' = {}
    BY <1>0, <2>1, QuietAsksNothing, QuietDoesNothing DEF Quiet
  <2>3. exit' # "none"
    BY <2>1 DEF DryRun, Tell, Verdict
  <2> QED
    BY <1>0, <1>2, <2>2, <2>3 DEF FeaturesRepeatable
<1>3. CASE ~ UpdatesRefused(cmd) /\ ~ cmd.dryRun
  <2>1. Request(FeatureUpdates(cmd), can, {}, "rows")
    BY <1>3 DEF UpdateFeatures
  <2>2. exit' # "none" /\ asked' = FeatureUpdates(cmd) /\ applied' \subseteq can
    BY <2>1, RequestDoes
  <2>3. can \subseteq FeatureUpdates(cmd)
    OBVIOUS
  <2>4. calm' => /\ applied' = can
                 /\ FeatureUpdates(cmd) \subseteq can => exit' = "ok"
                 /\ exit' = "ok" => FeatureUpdates(cmd) \subseteq can
    <3> HIDE DEF can
    <3> QED
      BY <2>1, <2>3, CalmRequest
  <2>5. FeaturesRepeatable => FeatureUpdates(cmd) \subseteq can
    BY DEF FeaturesRepeatable
  <2>6. ASSUME NEW u \in applied' PROVE MayUpdate(cmd, u) /\ levels'[u[1]] = u[2]
    <3>1. u \in FeatureUpdates(cmd) /\ MayUpdate(cmd, u) /\ u[1] \in Features
      BY <2>2 DEF MayUpdate
    <3>2. \A v \in applied' : v[1] = u[1] => v = u
      BY <1>0, <1>3, <2>2, <2>3, FeaturesOnce
    <3> DEFINE chosen(f) == CHOOSE v \in applied' : v[1] = f
    <3>3. levels' = [f \in Features |-> IF \E v \in applied' : v[1] = f THEN chosen(f)[2] ELSE levels[f]]
      BY DEF UpdateFeatures
    <3>4. chosen(u[1]) \in applied' /\ chosen(u[1])[1] = u[1]
      OBVIOUS
    <3> HIDE DEF chosen
    <3>5. levels'[u[1]] = chosen(u[1])[2]
      BY <3>1, <3>3
    <3> QED
      BY <3>1, <3>2, <3>4, <3>5
  <2> HIDE DEF can
  <2> QED
    BY <1>0, <1>3, <2>2, <2>3, <2>4, <2>5, <2>6
<1> QED
  BY <1>1, <1>2, <1>3

LEMMA FeaturesRetried ==
  ASSUME AdminInv, faults \in Nat, FeaturesNext, pc # "done", UNCHANGED cmd
  PROVE  /\ Done' => FeaturesRepeatable'
         /\ calm' /\ FeaturesRepeatable => exit' = "ok"
<1> USE DEF AdminInv
<1>1. CASE DescribeFeatures \/ VersionMapping \/ FeatureDependencies
  <2>1. asked' = {} /\ cmd.action \notin {"upgrade", "downgrade", "disable"}
    <3>1. CASE DescribeFeatures
      BY <3>1, QuietAsksNothing DEF DescribeFeatures, Quiet, Is
    <3>2. CASE VersionMapping
      BY <3>2, QuietAsksNothing DEF VersionMapping, Quiet, Is
    <3>3. CASE FeatureDependencies
      BY <3>3, QuietAsksNothing DEF FeatureDependencies, Quiet, Is
    <3> QED
      BY <1>1, <3>1, <3>2, <3>3
  <2> QED
    BY <2>1 DEF Done, FeaturesRepeatable
<1>2. CASE UpdateFeatures
  <2>1. ASSUME Done' PROVE FeaturesRepeatable'
    <3>1. ~ UpdatesRefused(cmd) /\ ~ cmd.dryRun /\ applied' = FeatureUpdates(cmd)
      BY <1>2, <2>1, UpdateFeaturesDoes DEF Done
    <3>2. cmd.action \in {"upgrade", "downgrade", "disable"}
      BY <1>2, UpdateFeaturesDoes
    <3>3. ASSUME NEW u \in FeatureUpdates(cmd) PROVE MayUpdate(cmd, u)'
      <4>1. MayUpdate(cmd, u) /\ levels'[u[1]] = u[2] /\ u[2] \in 0..MaximumLevel(u[1])
        BY <1>2, <3>1, <3>3, UpdateFeaturesDoes DEF MayUpdate
      <4>2. u[2] <= u[2]
        <5>1. MaximumLevel(u[1]) \in Int
          BY DEF MaximumLevel
        <5> QED
          BY <4>1, <5>1
      <4> QED
        BY <4>1, <4>2 DEF MayUpdate
    <3>4. ~ UpdatesRefused(cmd)' /\ FeatureUpdates(cmd)' = FeatureUpdates(cmd)
      BY <3>1
    <3> QED
      BY <3>1, <3>2, <3>3, <3>4 DEF FeaturesRepeatable
  <2> QED
    BY <1>2, <2>1, UpdateFeaturesDoes
<1>3. CASE FeaturesForeign
  BY <1>3, ForeignDisturbs DEF FeaturesForeign, Done
<1> QED
  BY <1>1, <1>2, <1>3 DEF FeaturesNext

LEMMA FeaturesAreUndone ==
  ASSUME AdminInv, faults \in Nat, FeaturesNext, pc # "done", UNCHANGED <<cmd, script>>, calm', exit' = "ok"
  PROVE  FeaturesUndone'
<1> USE DEF AdminInv
<1> DEFINE level == The(MetadataVersion(The(cmd.release)))
           default(f) == DefaultLevel(f, level)
<1>1. SUFFICES ASSUME Pair("features", "upgrade", "downgrade"), cmd.release # {}, ~ cmd.dryRun, NEW f \in Features
               PROVE  levels'[f] = IF f = Metadata THEN level ELSE default(f)
  <2>1. Pair("features", "upgrade", "downgrade")' <=> Pair("features", "upgrade", "downgrade")
    BY DEF Pair, Earlier
  <2> QED
    BY <2>1 DEF FeaturesUndone
<1>2. cmd.action = "downgrade"
  BY <1>1 DEF Pair
<1>3. UpdateFeatures
  <2>1. ~ FeaturesForeign
    BY ForeignDisturbs DEF FeaturesForeign
  <2> QED
    BY <1>2, <2>1 DEF FeaturesNext, DescribeFeatures, VersionMapping, FeatureDependencies, Is
<1>4. applied' = FeatureUpdates(cmd) /\ ~ UpdatesRefused(cmd)
  BY <1>1, <1>3, UpdateFeaturesDoes
<1>5. ReleaseLevels(cmd) = {<<Metadata, level>>} \cup {<<g, default(g)>> : g \in ProductionFeatures}
  BY <1>2 DEF ReleaseLevels
<1>6. ReleaseLevels(cmd) \subseteq applied'
  BY <1>1, <1>2, <1>4 DEF FeatureUpdates, FeatureLevels
<1> HIDE DEF level, default
<1>7. CASE f = Metadata
  <2>1. <<Metadata, level>> \in applied'
    BY <1>5, <1>6
  <2>2. levels'[<<Metadata, level>>[1]] = <<Metadata, level>>[2]
    BY <1>3, <2>1, UpdateFeaturesDoes
  <2> QED
    BY <1>7, <2>2, PairParts
<1>8. CASE f # Metadata
  <2>1. f \in ProductionFeatures
    BY <1>8 DEF Features
  <2>2. <<f, default(f)>> \in applied'
    BY <1>5, <1>6, <2>1
  <2>3. levels'[<<f, default(f)>>[1]] = <<f, default(f)>>[2]
    BY <1>3, <2>2, UpdateFeaturesDoes
  <2> QED
    BY <1>8, <2>3, PairParts
<1> QED
  BY <1>7, <1>8

-----------------------------------------------------------------------------
(* The cluster and the partitions *)

TokensRepeatable ==
  \/ /\ cmd.action = "create"
     /\ ~ (~ cmd.hasConfig \/ cmd.period < -1 \/ ~ PrincipalsOk(cmd.owners) \/ Cardinality(cmd.owners) > 1)
  \/ cmd.action = "renew" /\ TokenArgsOk /\ Known # {}

LEMMA CreateTokenRetried ==
  ASSUME faults \in Nat, Fresh, CreateToken, UNCHANGED cmd
  PROVE  /\ Done' => TokensRepeatable'
         /\ calm' /\ TokensRepeatable => exit' = "ok"
<1> DEFINE Wrong == ~ cmd.hasConfig \/ cmd.period < -1 \/ ~ PrincipalsOk(cmd.owners) \/ Cardinality(cmd.owners) > 1
<1>1. Is("delegation-tokens", "create") /\ pc # "done"
  BY DEF CreateToken, TokenTool
<1>2. TokensRepeatable <=> ~ Wrong
  BY <1>1 DEF TokensRepeatable, Is
<1>3. ~ Wrong => TokensRepeatable'
  BY <1>1 DEF TokensRepeatable, Is
<1>4. IF Wrong THEN Usage ELSE Request({lastToken + 1}, {lastToken + 1}, {}, "firstError")
  BY DEF CreateToken
<1> HIDE DEF Wrong
<1>5. CASE Wrong
  <2>1. asked' = {}
    BY <1>1, <1>4, <1>5, QuietAsksNothing DEF Quiet
  <2> QED
    BY <1>2, <1>5, <2>1 DEF Done
<1>6. CASE ~ Wrong
  BY <1>3, <1>4, <1>6, CalmRequest
<1> QED
  BY <1>5, <1>6

LEMMA RenewTokenRetried ==
  ASSUME faults \in Nat, Fresh, TokensTypeOK, RenewToken, UNCHANGED cmd
  PROVE  /\ Done' => TokensRepeatable'
         /\ calm' /\ TokensRepeatable => exit' = "ok"
<1>1. Is("delegation-tokens", "renew") /\ pc # "done"
  BY DEF RenewToken, TokenTool
<1>2. TokensRepeatable <=> TokenArgsOk /\ Known # {}
  BY <1>1 DEF TokensRepeatable, Is
<1>3. TokenArgsOk' = TokenArgsOk
  BY DEF TokenArgsOk
<1>4. CASE ~ TokenArgsOk
  <2>1. Usage
    BY <1>4 DEF RenewToken
  <2>2. asked' = {}
    BY <1>1, <2>1, QuietAsksNothing DEF Quiet
  <2> QED
    BY <1>2, <1>4, <2>2 DEF Done
<1>5. CASE TokenArgsOk
  <2> DEFINE known == {t.id : t \in Known}
  <2>1. Request({cmd.hmac}, known, {}, "firstError")
    BY <1>5 DEF RenewToken
  <2>2. known \subseteq {cmd.hmac} /\ (known # {} <=> Known # {})
    BY DEF Known
  <2> HIDE DEF known
  <2>3. Known # {} => known = {cmd.hmac}
    BY <2>2
  <2>4. calm' /\ Known # {} => exit' = "ok"
    BY <2>1, <2>2, <2>3, CalmRequest
  <2>5. asked' = {cmd.hmac} /\ applied' \subseteq known
    BY <2>1, RequestDoes
  <2>6. ASSUME Done' PROVE Known' # {}
    <3>1. applied' # {} /\ Known # {}
      BY <2>2, <2>5, <2>6 DEF Done
    <3>2. tokens' = (tokens \ Known) \cup {[t EXCEPT !.expiry = "renewed"] : t \in Known}
      BY <3>1 DEF RenewToken
    <3>3. PICK t \in tokens : t.id = cmd.hmac
      BY <3>1 DEF Known
    <3>4. [t EXCEPT !.expiry = "renewed"].id = cmd.hmac
      BY <3>3 DEF TokensTypeOK
    <3>5. [t EXCEPT !.expiry = "renewed"] \in tokens'
      BY <3>2, <3>3 DEF Known
    <3> QED
      BY <3>4, <3>5 DEF Known
  <2>7. Done' => TokensRepeatable'
    BY <1>1, <1>3, <1>5, <2>6 DEF TokensRepeatable, Is
  <2> QED
    BY <1>2, <2>4, <2>7
<1> QED
  BY <1>4, <1>5

LEMMA ClusterRetried ==
  ASSUME AdminInv, faults \in Nat, ClusterNext, pc # "done", UNCHANGED cmd
  PROVE  /\ Done' /\ ~ RefusedTwice => cmd.tool = "delegation-tokens" /\ TokensRepeatable'
         /\ calm' /\ cmd.tool = "delegation-tokens" /\ TokensRepeatable /\ ~ RefusedTwice => exit' = "ok"
<1> USE DEF AdminInv, TypeOK
<1>1. CASE DescribeQuorum \/ DescribeQuorumStatus \/ AddController \/ RemoveController \/ AlterVoters
  BY <1>1 DEF DescribeQuorum, DescribeQuorumStatus, AddController, RemoveController, AlterVoters, RefusedTwice, Is
<1>2. CASE ExpireToken \/ Unregister
  BY <1>2 DEF ExpireToken, Unregister, TokenTool, RefusedTwice, Is
<1>3. CASE CreateToken
  <2>1. cmd.tool = "delegation-tokens"
    BY <1>3 DEF CreateToken, TokenTool, Is
  <2> QED
    BY <1>3, <2>1, CreateTokenRetried
<1>4. CASE RenewToken
  <2>1. cmd.tool = "delegation-tokens"
    BY <1>4 DEF RenewToken, TokenTool, Is
  <2> QED
    BY <1>4, <2>1, RenewTokenRetried, ClusterParts
<1>5. CASE DescribeTokens
  <2>1. asked' = {} /\ cmd.action = "describe"
    BY <1>5, QuietAsksNothing DEF DescribeTokens, TokenTool, Is, Quiet
  <2> QED
    BY <2>1 DEF Done, TokensRepeatable
<1>6. CASE ListEndpoints \/ ListFencedEndpoints \/ ApiVersions
  <2>1. cmd.tool = "cluster"
    BY <1>6 DEF ListEndpoints, ListFencedEndpoints, ApiVersions, Is
  <2>2. asked' = {}
    <3>1. CASE ListEndpoints
      BY <3>1, QuietAsksNothing DEF ListEndpoints, Quiet
    <3>2. CASE ListFencedEndpoints
      BY <3>2, QuietAsksNothing DEF ListFencedEndpoints, Quiet
    <3>3. CASE ApiVersions
      BY <3>3, QuietAsksNothing DEF ApiVersions, Quiet
    <3> QED
      BY <1>6, <3>1, <3>2, <3>3
  <2> QED
    BY <2>1, <2>2 DEF Done
<1>7. CASE QuorumForeign \/ ServersForeign
  BY <1>7, ForeignDisturbs DEF QuorumForeign, ServersForeign, Done
<1> QED
  BY <1>1, <1>2, <1>3, <1>4, <1>5, <1>6, <1>7 DEF ClusterNext

LEMMA QuorumIsUndone ==
  ASSUME AdminInv, faults \in Nat, ClusterNext, pc # "done", UNCHANGED <<cmd, script>>, calm', exit' = "ok"
  PROVE  QuorumUndone'
<1> USE DEF AdminInv, TypeOK
<1>1. SUFFICES ASSUME Pair("metadata-quorum", "add-controller", "remove-controller"), ~ cmd.dryRun
               PROVE  cmd.node \notin quorum'.voters
  <2>1. Pair("metadata-quorum", "add-controller", "remove-controller")'
          <=> Pair("metadata-quorum", "add-controller", "remove-controller")
    BY DEF Pair, Earlier
  <2> QED
    BY <2>1 DEF QuorumUndone
<1>2. cmd.tool = "metadata-quorum" /\ cmd.action = "remove-controller"
  BY <1>1 DEF Pair
<1>3. AlterVoters
  <2>1. ~ RemoveController
    BY DEF RemoveController, Usage, Stop, Goto, Read, Fresh
  <2>2. ~ QuorumForeign
    BY ForeignDisturbs DEF QuorumForeign
  <2> QED
    BY <1>2, <2>1, <2>2
    DEF ClusterNext, DescribeQuorum, DescribeQuorumStatus, AddController, CreateToken, DescribeTokens, RenewToken,
        ExpireToken, TokenTool, ListEndpoints, ListFencedEndpoints, ApiVersions, Unregister, ServersForeign, Is
<1> DEFINE can == {cmd.node} \cap quorum.voters
<1>4. Request({cmd.node}, can, {}, "firstError")
  BY <1>1, <1>2, <1>3 DEF AlterVoters
<1>5. can \subseteq {cmd.node}
  OBVIOUS
<1> HIDE DEF can
<1>6. applied' = can /\ {cmd.node} \subseteq can
  BY <1>4, <1>5, CalmRequest
<1>7. applied' = {cmd.node}
  BY <1>5, <1>6
<1>8. quorum' = [quorum EXCEPT !.voters = @ \ applied', !.observers = @ \cup applied']
  BY <1>2, <1>3, <1>7 DEF AlterVoters
<1>9. quorum'.voters = quorum.voters \ applied'
  BY <1>8 DEF ClusterTypeOK, Quorums
<1> QED
  BY <1>7, <1>9

RecordsRepeatable == RecordsFileOk(cmd) /\ cmd.execute
ElectionRepeatable == ElectionArgsOk(cmd) /\ cmd.execute /\ ElectionTargets(cmd) \subseteq NotNeeded(cmd)

LEMMA RecordsRetried ==
  ASSUME Fresh, faults \in Nat, DeleteRecords, UNCHANGED cmd
  PROVE  /\ Done' => RecordsRepeatable'
         /\ calm' /\ RecordsRepeatable => exit' = "ok"
<1>1. pc # "done"
  BY DEF DeleteRecords
<1>2. RecordsFileOk(cmd)' = RecordsFileOk(cmd)
  OBVIOUS
<1>3. CASE ~ RecordsFileOk(cmd)
  <2>1. Usage
    BY <1>3 DEF DeleteRecords
  <2> QED
    BY <1>1, <1>3, <2>1, QuietAsksNothing DEF Quiet, Done, RecordsRepeatable
<1>4. CASE RecordsFileOk(cmd) /\ ~ cmd.execute
  <2>1. PICK report : Report(report)
    BY <1>4 DEF DeleteRecords
  <2> QED
    BY <1>1, <1>4, <2>1, QuietAsksNothing DEF Quiet, Done, RecordsRepeatable
<1>5. CASE RecordsFileOk(cmd) /\ cmd.execute
  <2> DEFINE can == {r \in Records(cmd) : MayDelete(r)}
  <2>1. Request(Records(cmd), can, {}, "lenient")
    BY <1>5 DEF DeleteRecords
  <2>2. can \subseteq Records(cmd)
    OBVIOUS
  <2> HIDE DEF can
  <2>3. calm' => exit' = "ok"
    BY <2>1, <2>2, CalmRequest
  <2> QED
    BY <1>2, <1>5, <2>3 DEF RecordsRepeatable
<1> QED
  BY <1>3, <1>4, <1>5

LEMMA ElectionRetried ==
  ASSUME Fresh, faults \in Nat, PartsTypeOK, ElectLeaders, UNCHANGED cmd
  PROVE  /\ Done' => ElectionRepeatable'
         /\ calm' /\ ElectionRepeatable => exit' = "ok"
<1>1. pc # "done"
  BY DEF ElectLeaders
<1>2. ElectionArgsOk(cmd)' = ElectionArgsOk(cmd) /\ ElectionTargets(cmd)' = ElectionTargets(cmd)
  OBVIOUS
<1>3. CASE ~ ElectionArgsOk(cmd)
  <2>1. Usage
    BY <1>3 DEF ElectLeaders
  <2> QED
    BY <1>1, <1>3, <2>1, QuietAsksNothing DEF Quiet, Done, ElectionRepeatable
<1>4. CASE ElectionArgsOk(cmd) /\ ~ cmd.execute
  <2>1. PICK report : Report(report)
    BY <1>4 DEF ElectLeaders
  <2> QED
    BY <1>1, <1>4, <2>1, QuietAsksNothing DEF Quiet, Done, ElectionRepeatable
<1>5. CASE ElectionArgsOk(cmd) /\ cmd.execute
  <2> DEFINE named == IF cmd.all THEN ElectionTargets(cmd) \ NotNeeded(cmd) ELSE ElectionTargets(cmd)
  <2>1. Request(named, Electable(cmd), named \cap NotNeeded(cmd), "rows")
    BY <1>5 DEF ElectLeaders
  <2>2. Electable(cmd) \subseteq named
    BY DEF Electable, NotNeeded
  <2>3. calm' /\ ElectionRepeatable => exit' = "ok"
    <3>1. ElectionRepeatable => named \subseteq named \cap NotNeeded(cmd)
      BY DEF ElectionRepeatable
    <3> HIDE DEF named
    <3> QED
      BY <2>1, <2>2, <3>1, CalmRequest
  <2>4. asked' = named /\ applied' \subseteq Electable(cmd)
    <3> HIDE DEF named
    <3> QED
      BY <2>1, RequestDoes
  <2>5. ASSUME Done', NEW p \in ElectionTargets(cmd) PROVE p \in NotNeeded(cmd)'
    <3>1. leader' = [q \in Parts |-> IF q \notin applied' THEN leader[q]
                                     ELSE IF cmd.unclean THEN "other" ELSE "preferred"]
      BY DEF ElectLeaders
    <3>2. applied' = named
      BY <2>4, <2>5 DEF Done
    <3>3. CASE p \in named
      <4>1. p \in Parts
        BY <2>4, <3>2, <3>3 DEF Electable
      <4>2. leader'[p] = IF cmd.unclean THEN "other" ELSE "preferred"
        BY <3>1, <3>2, <3>3, <4>1
      <4> QED
        BY <2>5, <4>1, <4>2 DEF NotNeeded
    <3>4. CASE p \notin named
      <4>1. p \in NotNeeded(cmd)
        BY <2>5, <3>4
      <4>2. p \in Parts /\ leader'[p] = leader[p]
        BY <3>1, <3>2, <3>4, <4>1 DEF NotNeeded
      <4> QED
        BY <2>5, <4>1, <4>2 DEF NotNeeded
    <3> QED
      BY <3>3, <3>4
  <2>6. Done' => ElectionRepeatable'
    BY <1>2, <1>5, <2>5 DEF ElectionRepeatable
  <2> QED
    BY <2>3, <2>6
<1> QED
  BY <1>3, <1>4, <1>5

LEMMA PartsRetried ==
  ASSUME AdminInv, faults \in Nat, PartsNext, pc # "done", UNCHANGED cmd
  PROVE  /\ Done' => \/ cmd.tool = "delete-records" /\ RecordsRepeatable'
                     \/ cmd.tool = "leader-election" /\ ElectionRepeatable'
         /\ calm' /\ cmd.tool = "delete-records" /\ RecordsRepeatable => exit' = "ok"
         /\ calm' /\ cmd.tool = "leader-election" /\ ElectionRepeatable => exit' = "ok"
<1> USE DEF AdminInv, TypeOK
<1>1. CASE DeleteRecords
  <2>1. cmd.tool = "delete-records"
    BY <1>1 DEF DeleteRecords, Is
  <2> QED
    BY <1>1, <2>1, RecordsRetried
<1>2. CASE ElectLeaders
  <2>1. cmd.tool = "leader-election"
    BY <1>2 DEF ElectLeaders, Is
  <2> QED
    BY <1>2, <2>1, ElectionRetried
<1>3. CASE OffsetsStart \/ ListOffsets \/ LogDirsStart \/ DescribeLogDirs
  <2>1. cmd.tool \in {"offsets", "log-dirs"}
    BY <1>3 DEF OffsetsStart, ListOffsets, LogDirsStart, DescribeLogDirs, Is
  <2>2. asked' = {}
    <3>1. CASE OffsetsStart
      BY <3>1, QuietAsksNothing DEF OffsetsStart, Quiet
    <3>2. CASE ListOffsets
      BY <3>2, QuietAsksNothing DEF ListOffsets, Quiet
    <3>3. CASE LogDirsStart
      BY <3>3, QuietAsksNothing DEF LogDirsStart, Quiet
    <3>4. CASE DescribeLogDirs
      BY <3>4, QuietAsksNothing DEF DescribeLogDirs, Quiet
    <3> QED
      BY <1>3, <3>1, <3>2, <3>3, <3>4
  <2> QED
    BY <2>1, <2>2 DEF Done
<1>4. CASE PartsForeign
  BY <1>4, ForeignDisturbs DEF PartsForeign, Done
<1> QED
  BY <1>1, <1>2, <1>3, <1>4 DEF PartsNext

-----------------------------------------------------------------------------
(* To repeat what was done is to succeed *)

AllChosen == TopicsChosen /\ AclsChosen /\ AlterationChosen /\ MetricsChosen

\* The cluster and the arguments are such that the command succeeds when it is repeated.
Repeatable ==
  /\ cmd.tool = "topics" => TopicsRepeatable
  /\ cmd.tool = "acls" => AclsRepeatable
  /\ cmd.tool = "configs" => ConfigsRepeatable
  /\ cmd.tool = "client-metrics" => MetricsRepeatable
  /\ cmd.tool = "features" => FeaturesRepeatable
  /\ cmd.tool = "delegation-tokens" => TokensRepeatable
  /\ cmd.tool = "delete-records" => RecordsRepeatable
  /\ cmd.tool = "leader-election" => ElectionRepeatable
  /\ cmd.tool \in {"topics", "acls", "configs", "client-metrics", "features", "delegation-tokens", "delete-records",
                   "leader-election"}

\* The second command of the script repeats the first, which was done.
Repeating == turn = 2 /\ exit = "none" /\ calm /\ cmd = Earlier /\ past[1].done

\* The inductive invariant of RetrySucceeds.
RetryInv ==
  /\ faults \in Nat
  /\ AllChosen
  /\ (Done \/ Repeating) /\ ~ RefusedTwice => Repeatable
  /\ RetrySucceeds

LEMMA FaultsCounted == ASSUME Step, faults \in Nat PROVE faults' \in Nat
<1>1. CASE Foreign
  BY <1>1 DEF Foreign
<1>2. CASE Moves
  <2>1. ASSUME NEW next, NEW value, Read(next, value) PROVE faults' \in Nat
    BY <2>1 DEF Read
  <2>2. ASSUME NEW report, Report(report) PROVE faults' \in Nat
    BY <2>2 DEF Report, Tell
  <2>3. CASE Usage \/ Failed
    BY <2>3 DEF Usage, Failed, Stop
  <2>4. ASSUME NEW items, NEW can, DryRun(items, can) PROVE faults' \in Nat
    BY <2>4 DEF DryRun, Tell
  <2>5. ASSUME NEW items, NEW can, NEW noops, NEW manner, Request(items, can, noops, manner) PROVE faults' \in Nat
    <3>1. PICK refused \in {{}} \cup {{i} : i \in items}, lost \in BOOLEAN :
            faults' = faults + Cardinality(refused) + (IF lost THEN 1 ELSE 0)
      BY <2>5 DEF Request
    <3>2. Cardinality(refused) \in Nat
      BY FS_EmptySet, FS_Singleton, FS_CardinalityType
    <3> QED
      BY <3>1, <3>2
  <2> QED
    BY <1>2, <2>1, <2>2, <2>3, <2>4, <2>5 DEF Moves
<1> QED
  BY <1>1, <1>2 DEF Step

\* What one tool has found out is nothing to another.
LEMMA OtherChosen ==
  ASSUME UNCHANGED cmd
  PROVE  /\ cmd.tool # "topics" => TopicsChosen'
         /\ cmd.tool # "acls" => AclsChosen'
         /\ cmd.tool # "configs" => AlterationChosen'
         /\ cmd.tool # "client-metrics" => MetricsChosen'
<1>1. \A tool, action : Is(tool, action)' = Is(tool, action)
  BY DEF Is
<1> QED
  BY <1>1 DEF TopicsChosen, AclsChosen, AlterationChosen, MetricsChosen, Is

\* A step of a command, whatever its tool.
Turns ==
  \/ TopicsNext /\ UNCHANGED <<acls, configs, levels, clusterVars, partVars>>
  \/ AclsNext /\ UNCHANGED <<topicVars, configs, levels, clusterVars, partVars>>
  \/ ConfigsNext /\ UNCHANGED <<topicVars, acls, levels, clusterVars, partVars>>
  \/ FeaturesNext /\ UNCHANGED <<topicVars, acls, configs, clusterVars, partVars>>
  \/ ClusterNext /\ UNCHANGED <<topicVars, acls, configs, levels, partVars>>
  \/ PartsNext /\ UNCHANGED <<topicVars, acls, configs, levels, clusterVars>>

LEMMA TurnMoves ==
  ASSUME AdminInv, Turns
  PROVE  /\ Step /\ pc # "done" /\ exit = "none" /\ Fresh' /\ (calm' => calm)
         /\ UNCHANGED <<cmd, script, turn, past, Earlier>>
<1>1. Step
  BY TopicMoves, AclMoves, ConfigMoves, FeatureMoves, ClusterMoves, PartitionMoves DEF Turns
<1>2. UNCHANGED <<script, turn, past>>
  BY <1>1, SameScript DEF scriptVars
<1>3. exit = "none" /\ pc # "done"
  BY <1>1 DEF Step, Foreign, AdminInv, Fresh
<1> QED
  BY <1>1, <1>2, <1>3, StepKept, CalmBefore DEF cmd, Earlier, AdminInv

LEMMA TurnRetried ==
  ASSUME AdminInv, faults \in Nat, AllChosen, Turns
  PROVE  /\ AllChosen'
         /\ Done' /\ ~ RefusedTwice => Repeatable'
         /\ calm' /\ Repeatable /\ ~ RefusedTwice =>
              \/ exit' = "none" /\ Repeatable'
              \/ exit' = "ok"
<1> USE DEF AllChosen, Repeatable
<1>0. pc # "done" /\ UNCHANGED cmd
  BY TurnMoves
<1>1. CASE TopicsNext
  BY <1>0, <1>1, Tools, OtherChosen, TopicsRetried
<1>2. CASE AclsNext
  BY <1>0, <1>2, Tools, OtherChosen, AclsRetried
<1>3. CASE ConfigsNext
  <2>1. CASE cmd.tool = "configs"
    BY <1>0, <1>3, <2>1, OtherChosen, ConfigsRetried
  <2>2. CASE cmd.tool = "client-metrics"
    BY <1>0, <1>3, <2>2, OtherChosen, MetricsRetried
  <2> QED
    BY <1>3, <2>1, <2>2, Tools
<1>4. CASE FeaturesNext
  BY <1>0, <1>4, Tools, OtherChosen, FeaturesRetried
<1>5. CASE ClusterNext
  BY <1>0, <1>5, Tools, OtherChosen, ClusterRetried
<1>6. CASE PartsNext
  BY <1>0, <1>6, Tools, OtherChosen, PartsRetried
<1> QED
  BY <1>1, <1>2, <1>3, <1>4, <1>5, <1>6 DEF Turns

LEMMA RepeatableStays ==
  ASSUME UNCHANGED cmd, UNCHANGED clusterState, Repeatable
  PROVE  Repeatable'
<1>1. UNCHANGED <<topics, levels, tokens, leader>>
  BY DEF clusterState, topicVars, clusterVars, partVars
<1>2. cmd.tool = "topics" => TopicsRepeatable'
  <2>1. AssignmentOk(cmd)' = AssignmentOk(cmd) /\ CreationCountsOk(cmd)' = CreationCountsOk(cmd)
        /\ Exists(cmd.name)' = Exists(cmd.name) /\ Is("topics", "create")' = Is("topics", "create")
    BY <1>1 DEF Exists, Is
  <2> QED
    BY <2>1 DEF Repeatable, TopicsRepeatable
<1>3. cmd.tool = "acls" => AclsRepeatable'
  BY DEF Repeatable, AclsRepeatable
<1>4. cmd.tool = "configs" => ConfigsRepeatable'
  <2>1. AlterationOk(cmd)' = AlterationOk(cmd) /\ ViaProtocol(cmd)' = ViaProtocol(cmd)
        /\ ConfigBrokerOk(Entity(cmd))' = ConfigBrokerOk(Entity(cmd))
        /\ ViaResource(cmd)' = ViaResource(cmd) /\ ResourceOk(Entity(cmd))' = ResourceOk(Entity(cmd))
    OBVIOUS
  <2> QED
    BY <2>1 DEF Repeatable, ConfigsRepeatable
<1>5. cmd.tool = "client-metrics" => MetricsRepeatable'
  BY DEF Repeatable, MetricsRepeatable
<1>6. cmd.tool = "features" => FeaturesRepeatable'
  <2>1. UpdatesRefused(cmd)' = UpdatesRefused(cmd) /\ FeatureUpdates(cmd)' = FeatureUpdates(cmd)
    OBVIOUS
  <2>2. \A u : MayUpdate(cmd, u)' = MayUpdate(cmd, u)
    BY <1>1 DEF MayUpdate
  <2> QED
    BY <2>1, <2>2 DEF Repeatable, FeaturesRepeatable
<1>7. cmd.tool = "delegation-tokens" => TokensRepeatable'
  <2>1. TokenArgsOk' = TokenArgsOk /\ Known' = Known /\ PrincipalsOk(cmd.owners)' = PrincipalsOk(cmd.owners)
    BY <1>1 DEF TokenArgsOk, Known
  <2> QED
    BY <2>1 DEF Repeatable, TokensRepeatable
<1>8. cmd.tool = "delete-records" => RecordsRepeatable'
  <2>1. RecordsFileOk(cmd)' = RecordsFileOk(cmd)
    OBVIOUS
  <2> QED
    BY <2>1 DEF Repeatable, RecordsRepeatable
<1>9. cmd.tool = "leader-election" => ElectionRepeatable'
  <2>1. ElectionArgsOk(cmd)' = ElectionArgsOk(cmd) /\ ElectionTargets(cmd)' = ElectionTargets(cmd)
    OBVIOUS
  <2>2. NotNeeded(cmd)' = NotNeeded(cmd)
    BY <1>1, <2>1 DEF NotNeeded
  <2> QED
    BY <2>1, <2>2 DEF Repeatable, ElectionRepeatable
<1> QED
  BY <1>2, <1>3, <1>4, <1>5, <1>6, <1>7, <1>8, <1>9 DEF Repeatable

LEMMA ChosenStays ==
  ASSUME AllChosen, UNCHANGED vars
  PROVE  AllChosen'
<1>1. UNCHANGED <<cmd, pc, seen, calm, topics, configs>> /\ \A tool, action : Is(tool, action)' = Is(tool, action)
  BY DEF vars, adminVars, commandVars, scriptVars, clusterState, topicVars, cmd, Is
<1>2. TopicsChosen'
  <2>1. Selected(Named(cmd.expression))' = Selected(Named(cmd.expression))
    BY <1>1 DEF Selected, Named, Selector, TopicNames, Exists, Expression, NonzeroId, Given
  <2> QED
    BY <1>1, <2>1 DEF AllChosen, TopicsChosen
<1>3. AclsChosen'
  BY <1>1 DEF AllChosen, AclsChosen
<1>4. AlterationChosen'
  <2>1. AlterationOk(cmd)' = AlterationOk(cmd) /\ ViaProtocol(cmd)' = ViaProtocol(cmd)
        /\ ConfigBrokerOk(Entity(cmd))' = ConfigBrokerOk(Entity(cmd)) /\ QuotaChange(cmd)' = QuotaChange(cmd)
        /\ ViaResource(cmd)' = ViaResource(cmd) /\ Only(cmd, "user")' = Only(cmd, "user")
    BY <1>1
  <2> QED
    BY <1>1, <2>1 DEF AllChosen, AlterationChosen
<1>5. MetricsChosen'
  <2>1. KeysOf(Metrics(cmd))' = KeysOf(Metrics(cmd))
    BY <1>1 DEF KeysOf, Metrics
  <2> QED
    BY <1>1, <2>1 DEF AllChosen, MetricsChosen
<1> QED
  BY <1>2, <1>3, <1>4, <1>5 DEF AllChosen

\* What the script is after the first command.
LEMMA NextIsSecond ==
  ASSUME AdminInv, NextCommand, turn' = 2
  PROVE  /\ turn = 1 /\ Earlier' = cmd /\ past'[1].exit = exit /\ past'[1].calm = calm
         /\ past'[1].done <=> asked # {} /\ applied = asked
<1>1. turn = 1 /\ script' = script
  BY DEF NextCommand, AdminInv, TypeOK, AdminTypeOK
<1>2. past = <<>>
  BY <1>1 DEF AdminInv, TypeOK, AdminTypeOK
<1> DEFINE allDone == asked # {} /\ applied = asked
           told == [exit |-> exit, calm |-> calm, done |-> allDone]
<1>3. past' = Append(past, told)
  BY DEF NextCommand
<1>4. told.exit = exit /\ told.calm = calm /\ (told.done <=> allDone)
  BY Zenon
<1> HIDE DEF told, allDone
<1>5. past'[1] = told
  BY <1>2, <1>3
<1> QED
  BY <1>1, <1>4, <1>5 DEF cmd, Earlier, allDone

LEMMA RetryInvNext ==
  ASSUME AdminInv, RetryInv, [Next]_vars
  PROVE  RetryInv'
<1>1. CASE Turns
  <2>1. UNCHANGED <<cmd, turn, past, Earlier>> /\ exit = "none" /\ (calm' => calm) /\ Step
    BY <1>1, TurnMoves
  <2>2. RefusedTwice' = RefusedTwice
    BY <2>1 DEF RefusedTwice
  <2>3. Repeating' \/ (SecondOver' /\ cmd = Earlier /\ past[1].done) => Repeating
    BY <2>1 DEF Repeating, SecondOver
  <2>4. Repeating' => exit' = "none"
    BY DEF Repeating
  <2>5. (Done' \/ Repeating') /\ ~ RefusedTwice => Repeatable'
    BY <1>1, <2>1, <2>3, <2>4, TurnRetried DEF RetryInv, Repeating
  <2>6. RetrySucceeds'
    <3>1. SUFFICES ASSUME SecondOver', cmd = Earlier, past[1].done, ~ RefusedTwice PROVE exit' = "ok"
      BY <2>1, <2>2 DEF RetrySucceeds
    <3>2. calm' /\ exit' # "none" /\ Repeatable
      BY <2>3, <3>1 DEF SecondOver, RetryInv
    <3> QED
      BY <1>1, <3>1, <3>2, TurnRetried DEF RetryInv
  <2> QED
    BY <1>1, <2>1, <2>2, <2>5, <2>6, TurnRetried, FaultsCounted DEF RetryInv
<1>2. CASE CallFails
  <2>1. pc' = "done" /\ ~ calm' /\ asked' = {} /\ faults' \in Nat
    BY <1>2 DEF CallFails, Reads, AdminInv, Fresh, RetryInv
  <2> QED
    BY <2>1 DEF RetryInv, AllChosen, TopicsChosen, AclsChosen, AlterationChosen, MetricsChosen, Done, Repeating,
                RetrySucceeds, SecondOver
<1>3. CASE NextCommand /\ UNCHANGED clusterState
  <2>1. pc' = "start" /\ asked' = {} /\ exit' = "none" /\ faults' \in Nat /\ pc = "done"
    BY <1>3 DEF NextCommand, RetryInv
  <2>2. AllChosen' /\ RetrySucceeds' /\ ~ Done'
    BY <2>1 DEF AllChosen, TopicsChosen, AclsChosen, AlterationChosen, MetricsChosen, Done, RetrySucceeds, SecondOver
  <2>3. ASSUME Repeating', ~ RefusedTwice' PROVE Repeatable'
    <3>1. cmd' = cmd /\ asked # {} /\ applied = asked
      BY <1>3, <2>3, NextIsSecond DEF Repeating
    <3>2. Done /\ ~ RefusedTwice
      BY <2>1, <2>3, <3>1 DEF Done, AdminInv, Fresh, RefusedTwice
    <3> QED
      BY <1>3, <3>1, <3>2, RepeatableStays DEF RetryInv
  <2> QED
    BY <2>1, <2>2, <2>3 DEF RetryInv
<1>4. CASE UNCHANGED vars
  <2>1. UNCHANGED <<cmd, Earlier, clusterState, turn, past, exit, calm, asked, applied, faults>>
    BY <1>4 DEF vars, adminVars, commandVars, scriptVars, cmd, Earlier
  <2>2. RefusedTwice' = RefusedTwice
    BY <2>1 DEF RefusedTwice
  <2>3. (Done' \/ Repeating') /\ ~ RefusedTwice' => Repeatable'
    BY <2>1, <2>2, RepeatableStays DEF RetryInv, Done, Repeating
  <2>4. RetrySucceeds'
    BY <2>1, <2>2 DEF RetryInv, RetrySucceeds, SecondOver
  <2> QED
    BY <1>4, <2>1, <2>3, <2>4, ChosenStays DEF RetryInv
<1> QED
  BY <1>1, <1>2, <1>3, <1>4 DEF Next, Turns

LEMMA InitRetry == Init => RetryInv
<1> SUFFICES ASSUME Init PROVE RetryInv
  OBVIOUS
<1>1. pc = "start" /\ exit = "none" /\ turn = 1 /\ faults = 0
  BY DEF Init, AdminInit
<1> QED
  BY <1>1 DEF RetryInv, AllChosen, TopicsChosen, AclsChosen, AlterationChosen, MetricsChosen, Done, Repeating,
              RetrySucceeds, SecondOver

\* Whatever the command, the cluster and the fault: a command that was done, though its
\* answer was lost, succeeds when it is repeated and nobody interferes.  What the code
\* refuses to do twice is named in RefusedTwice, and there is nothing else.
THEOREM RetriesSucceed == Spec => []RetrySucceeds
<1>1. AdminInv /\ RetryInv /\ [Next]_vars => AdminInv' /\ RetryInv'
  BY AdminInvNext, RetryInvNext
<1>2. RetryInv => RetrySucceeds
  BY DEF RetryInv
<1> QED
  BY <1>1, <1>2, InitTyped, InitRetry, PTL DEF Spec

-----------------------------------------------------------------------------
(* To undo what was done leaves nothing of it *)

\* Bindings that were accepted have arguments that are not refused.
Accepted(c, outcome) == outcome = "ok" /\ c.tool = "acls" /\ c.action = "add" => ~ AddRefused(c)

\* The inductive invariant of UndoneIsGone, beside that of RetrySucceeds.
UndoneInv ==
  /\ Accepted(cmd, exit)
  /\ turn = 2 => Accepted(Earlier, past[1].exit)
  /\ AddedOnly
  /\ UndoneIsGone

LEMMA EarlierOk == ASSUME AdminInv PROVE Command(Earlier)
<1>1. script \in Scripts /\ turn \in 1..Len(script)
  BY DEF AdminInv, TypeOK, AdminTypeOK
<1>2. script \in Seq(Elements(script)) /\ script # <<>> /\ \A i \in DOMAIN script : Command(script[i])
  BY <1>1, ScriptsAssumption
<1>3. 1 \in DOMAIN script
  BY <1>2
<1> QED
  BY <1>2, <1>3 DEF Earlier

LEMMA AcceptedNext ==
  ASSUME AdminInv, AllChosen, Turns
  PROVE  Accepted(cmd, exit')
<1>0. pc # "done" /\ Fresh
  BY TurnMoves DEF AdminInv
<1>1. SUFFICES ASSUME exit' = "ok", cmd.tool = "acls", cmd.action = "add" PROVE ~ AddRefused(cmd)
  BY DEF Accepted
<1>2. AclsNext
  BY <1>1, Tools DEF Turns
<1>3. CASE AddAcls
  BY <1>0, <1>1, <1>3, AddAclsDoes
<1>4. CASE CreateAcls
  BY <1>4 DEF CreateAcls, AllChosen, AclsChosen
<1>5. CASE AclsForeign
  BY <1>0, <1>1, <1>5, ForeignDisturbs DEF AclsForeign
<1> QED
  BY <1>1, <1>2, <1>3, <1>4, <1>5 DEF AclsNext, ListAcls, RemoveAcls, Is

\* What one tool undoes is nothing to another.
LEMMA OtherUndone ==
  ASSUME UNCHANGED cmd
  PROVE  /\ cmd.tool # "topics" => TopicsUndone'
         /\ cmd.tool # "acls" => AclsUndone'
         /\ cmd.tool # "configs" => ConfigsUndone'
         /\ cmd.tool # "client-metrics" => MetricsUndone'
         /\ cmd.tool # "features" => FeaturesUndone'
         /\ cmd.tool # "metadata-quorum" => QuorumUndone'
<1>1. \A tool, first, second : cmd.tool # tool => ~ Pair(tool, first, second)'
  BY DEF Pair
<1> QED
  BY <1>1 DEF TopicsUndone, AclsUndone, ConfigsUndone, MetricsUndone, FeaturesUndone, QuorumUndone

LEMMA TurnUndone ==
  ASSUME AdminInv, RetryInv, UndoneInv, Turns, turn = 2, calm', exit' = "ok", past[1].exit = "ok", past[1].calm
  PROVE  TopicsUndone' /\ AclsUndone' /\ ConfigsUndone' /\ MetricsUndone' /\ FeaturesUndone' /\ QuorumUndone'
<1>1. /\ pc # "done" /\ UNCHANGED <<cmd, script>> /\ UNCHANGED cmd /\ Command(Earlier) /\ faults \in Nat
      /\ TopicsChosen /\ AclsChosen /\ AlterationChosen /\ MetricsChosen /\ AddedOnly
  BY TurnMoves, EarlierOk DEF RetryInv, UndoneInv, AllChosen
<1>2. Earlier.tool = "acls" /\ Earlier.action = "add" => ~ AddRefused(Earlier)
  BY DEF UndoneInv, Accepted
<1>3. CASE TopicsNext
  BY <1>1, <1>3, Tools, OtherUndone, TopicsAreUndone
<1>4. CASE AclsNext
  BY <1>1, <1>2, <1>4, Tools, OtherUndone, AclsAreUndone
<1>5. CASE ConfigsNext
  BY <1>1, <1>5, Tools, OtherUndone, ConfigsAreUndone, MetricsAreUndone
<1>6. CASE FeaturesNext
  BY <1>1, <1>6, Tools, OtherUndone, FeaturesAreUndone
<1>7. CASE ClusterNext
  BY <1>1, <1>7, Tools, OtherUndone, QuorumIsUndone
<1>8. CASE PartsNext
  BY <1>1, <1>8, Tools, OtherUndone
<1> QED
  BY <1>3, <1>4, <1>5, <1>6, <1>7, <1>8 DEF Turns

\* A step that is not one of ConfigsNext adds no configuration.
LEMMA AddedStays ==
  ASSUME AddedOnly, UNCHANGED <<cmd, turn, past, Earlier, configs>>, calm' => calm,
         exit' = "none" => exit = "none"
  PROVE  AddedOnly'
<1>1. Added(cmd)' = Added(cmd) /\ Alteration(cmd)' = Alteration(cmd)
  OBVIOUS
<1>2. Added(Earlier)' = Added(Earlier) /\ Alteration(Earlier)' = Alteration(Earlier)
  OBVIOUS
<1> QED
  BY <1>1, <1>2 DEF AddedOnly

LEMMA UndoneStays ==
  ASSUME UndoneIsGone, UNCHANGED vars
  PROVE  UndoneIsGone'
<1>1. UNCHANGED <<cmd, Earlier, turn, exit, calm, past, topics, acls, configs, levels, quorum>>
  BY DEF vars, adminVars, commandVars, scriptVars, clusterState, topicVars, clusterVars, cmd, Earlier
<1>2. \A tool, first, second : Pair(tool, first, second)' = Pair(tool, first, second)
  BY <1>1 DEF Pair
<1>3. TopicsUndone' = TopicsUndone
  <2>1. Exists(Earlier.name)' = Exists(Earlier.name)
    BY <1>1 DEF Exists
  <2> QED
    BY <1>1, <1>2, <2>1 DEF TopicsUndone
<1>4. AclsUndone' = AclsUndone
  <2>1. HostsDiffer(cmd)' = HostsDiffer(cmd) /\ Bindings(Earlier)' = Bindings(Earlier)
    BY <1>1
  <2> QED
    BY <1>1, <1>2, <2>1 DEF AclsUndone
<1>5. ConfigsUndone' = ConfigsUndone
  BY <1>1, <1>2 DEF ConfigsUndone
<1>6. MetricsUndone' = MetricsUndone
  <2>1. KeysOf(Metrics(cmd))' = KeysOf(Metrics(cmd))
    BY <1>1 DEF KeysOf, Metrics
  <2> QED
    BY <1>1, <1>2, <2>1 DEF MetricsUndone
<1>7. FeaturesUndone' = FeaturesUndone
  BY <1>1, <1>2 DEF FeaturesUndone
<1>8. QuorumUndone' = QuorumUndone
  BY <1>1, <1>2 DEF QuorumUndone
<1> QED
  BY <1>1, <1>3, <1>4, <1>5, <1>6, <1>7, <1>8 DEF UndoneIsGone, SecondOver

LEMMA UndoneInvNext ==
  ASSUME AdminInv, RetryInv, UndoneInv, [Next]_vars
  PROVE  UndoneInv'
<1>1. CASE Turns
  <2>1. UNCHANGED <<cmd, script, turn, past, Earlier>> /\ exit = "none" /\ (calm' => calm) /\ pc # "done"
    BY <1>1, TurnMoves
  <2>2. Accepted(cmd, exit)'
    <3>1. Accepted(cmd, exit')
      BY <1>1, AcceptedNext DEF RetryInv
    <3> QED
      BY <2>1, <3>1 DEF Accepted
  <2>3. turn' = 2 => Accepted(Earlier, past[1].exit)'
    BY <2>1 DEF UndoneInv, Accepted
  <2>4. AddedOnly'
    <3>1. CASE ConfigsNext
      BY <2>1, <3>1, AddedOnlyNext DEF UndoneInv, RetryInv, AllChosen
    <3>2. CASE UNCHANGED configs
      BY <2>1, <3>2, AddedStays DEF UndoneInv
    <3> QED
      BY <1>1, <3>1, <3>2 DEF Turns
  <2>5. UndoneIsGone'
    BY <1>1, <2>1, TurnUndone DEF UndoneIsGone, SecondOver
  <2> QED
    BY <2>2, <2>3, <2>4, <2>5 DEF UndoneInv
<1>2. CASE CallFails /\ UNCHANGED clusterState
  <2>1. exit' = "error" /\ ~ calm' /\ UNCHANGED <<script, turn, past>>
    BY <1>2 DEF CallFails, scriptVars
  <2>2. UNCHANGED <<cmd, Earlier>>
    BY <2>1 DEF cmd, Earlier
  <2>3. turn' = 2 => Accepted(Earlier, past[1].exit)'
    BY <2>1, <2>2 DEF UndoneInv, Accepted
  <2> QED
    BY <2>1, <2>3 DEF UndoneInv, Accepted, AddedOnly, UndoneIsGone, SecondOver
<1>3. CASE NextCommand /\ UNCHANGED clusterState
  <2>1. exit' = "none" /\ calm' = TRUE /\ UNCHANGED configs /\ turn' # 1
    BY <1>3 DEF NextCommand, clusterState, AdminInv, TypeOK, AdminTypeOK
  <2>2. turn' = 2 => Accepted(Earlier, past[1].exit)'
    BY <1>3, NextIsSecond DEF UndoneInv, Accepted
  <2>3. AddedOnly'
    <3>1. SUFFICES ASSUME turn' = 2, past'[1].calm, Alteration(Earlier)'
                   PROVE  configs' \subseteq InitialConfigs \cup Added(Earlier)'
      BY <2>1 DEF AddedOnly
    <3>2. turn = 1 /\ Earlier' = cmd /\ calm
      BY <1>3, <3>1, NextIsSecond
    <3>3. Alteration(Earlier)' = Alteration(cmd) /\ Added(Earlier)' = Added(cmd)
      BY <3>2
    <3> QED
      BY <2>1, <3>1, <3>2, <3>3 DEF UndoneInv, AddedOnly
  <2> QED
    BY <2>1, <2>2, <2>3 DEF UndoneInv, Accepted, UndoneIsGone, SecondOver
<1>4. CASE UNCHANGED vars
  <2>1. UNCHANGED <<cmd, Earlier, turn, past, exit, calm, configs>>
    BY <1>4 DEF vars, adminVars, commandVars, scriptVars, clusterState, cmd, Earlier
  <2>2. Accepted(cmd, exit)' /\ (turn' = 2 => Accepted(Earlier, past[1].exit)')
    BY <2>1 DEF UndoneInv, Accepted
  <2> QED
    BY <1>4, <2>1, <2>2, AddedStays, UndoneStays DEF UndoneInv
<1> QED
  BY <1>1, <1>2, <1>3, <1>4 DEF Next, Turns

LEMMA InitUndone == Init => UndoneInv
<1> SUFFICES ASSUME Init PROVE UndoneInv
  OBVIOUS
<1>1. exit = "none" /\ turn = 1 /\ configs = InitialConfigs
  BY DEF Init, AdminInit
<1> QED
  BY <1>1 DEF UndoneInv, Accepted, AddedOnly, UndoneIsGone, SecondOver

\* Whatever the arguments and the cluster: when a command succeeds undisturbed and the one
\* that undoes it does so after it, nothing is left of what the first did.  The topic is
\* gone; of the bindings there is none; of the keys that were added only those are there
\* that an entity had before; the metrics have no key; every feature has the level of
\* the release; the controller votes no more.
THEOREM UndoneCompletely == Spec => []UndoneIsGone
<1>1. AdminInv /\ RetryInv /\ UndoneInv /\ [Next]_vars => AdminInv' /\ RetryInv' /\ UndoneInv'
  BY AdminInvNext, RetryInvNext, UndoneInvNext
<1>2. UndoneInv => UndoneIsGone
  BY DEF UndoneInv
<1> QED
  BY <1>1, <1>2, InitTyped, InitRetry, InitUndone, PTL DEF Spec

=============================================================================

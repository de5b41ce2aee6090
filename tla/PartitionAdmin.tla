---------------------------- MODULE PartitionAdmin ----------------------------
(***************************************************************************)
(* offsets, delete-records, leader-election and log-dirs: commands about   *)
(* partitions, each a pair of a topic and a number.                        *)
(***************************************************************************)
EXTENDS AdminTool, Integers

CONSTANTS Parts,          \* partitions
          LogDirs,        \* the directories of the brokers and what they hold
          LogEnd          \* the end of every log

VARIABLES logStart,       \* where the log of each partition starts
          tiered,         \* partitions with records in remote storage
          leader          \* of each partition: "preferred", "other" or "none"

partVars == <<logStart, tiered, leader>>

\* What the file of delete-records can be.
RecordsCommand(c) == \A i \in DOMAIN c.records : c.records[i].offset \in Int

InternalPart(p) == p[1] = "__internal"

-----------------------------------------------------------------------------
(* offsets *)

\* A pattern is the set of topics its expression matches and a range of numbers, open at
\* either end, that does not include its last.
RangeOk(r) ==
  /\ Given(r.start, LAMBDA n : n >= 0) /\ Given(r.end, LAMBDA n : n >= 0)
  /\ \A first \in r.start, last \in r.end : first < last
InRange(n, r) == Given(r.start, LAMBDA first : n >= first) /\ Given(r.end, LAMBDA last : n < last)
PatternsOk(c) == Given(c.patterns, LAMBDA ps : \A r \in ps : RangeOk(r))
MatchesPattern(p, ps) == \E r \in ps : p[1] \in r.topics /\ InRange(p[2], r)

\* The patterns, or else the expression and the numbers.
OffsetTargets(c) ==
  {p \in Parts :
     /\ c.excludeInternal => ~ InternalPart(p)
     /\ IF c.patterns # {} THEN MatchesPattern(p, The(c.patterns))
        ELSE Given(c.topic, LAMBDA names : p[1] \in names) /\ Given(c.numbers, LAMBDA ns : p[2] \in ns)}

OffsetsStart ==
  /\ Is("offsets", "list") /\ pc = "start"
  /\ IF ~ PatternsOk(cmd) \/ OffsetTargets(cmd) = {} \/ ~ Given(cmd.timestamp, LAMBDA t : t >= 0) THEN Usage
     ELSE Read("decide", OffsetTargets(cmd))
  /\ UNCHANGED partVars

\* An offset is the start of the log, its end, or the first at a time; none (-1) if there
\* is no such record.  A remote log that has none is left out of the report.
FirstAt(p, timestamp) ==
  IF timestamp > LogEnd THEN -1 ELSE IF timestamp < logStart[p] THEN logStart[p] ELSE timestamp
OffsetAt(p, c) ==
  IF c.timestamp # {} THEN FirstAt(p, The(c.timestamp))
  ELSE CASE c.time = "earliest" -> logStart[p]
         [] c.time = "latest" -> LogEnd
         [] OTHER -> IF p \in tiered THEN logStart[p] ELSE -1
ListOffsets ==
  /\ Is("offsets", "list") /\ pc = "decide"
  /\ LET found == {<<p, OffsetAt(p, cmd)>> : p \in seen}
     IN Report(Rows({f \in found : cmd.timestamp = {} /\ cmd.time = "tiered" => f[2] # -1}, "shown"))
  /\ UNCHANGED partVars

-----------------------------------------------------------------------------
(* delete-records *)

Records(c) == {c.records[i] : i \in DOMAIN c.records}
RecordsFileOk(c) ==
  /\ c.version \subseteq {1} /\ c.records # <<>>
  /\ \A r \in Records(c) : r.part[1] # "" /\ r.part[2] >= 0 /\ r.offset >= 0
  /\ Cardinality({r.part : r \in Records(c)}) = Len(c.records)
MayDelete(r) == r.part \in Parts /\ r.offset <= LogEnd
DeleteRecords ==
  /\ Is("delete-records", "delete") /\ pc = "start"
  /\ IF ~ RecordsFileOk(cmd) THEN Usage
     ELSE IF ~ cmd.execute THEN Report(Rows(Records(cmd), "preview"))
     ELSE Request(Records(cmd), {r \in Records(cmd) : MayDelete(r)}, {}, "lenient")
  /\ logStart' = [p \in Parts |->
       IF \E r \in applied' : r.part = p /\ r.offset > logStart[p]
       THEN (CHOOSE r \in applied' : r.part = p).offset ELSE logStart[p]]
  /\ UNCHANGED <<tiered, leader>>

-----------------------------------------------------------------------------
(* leader-election *)

\* Exactly one way to name the partitions.
ElectionTargets(c) ==
  IF c.all THEN Parts
  ELSE IF c.file # {} THEN {The(c.file)[i] : i \in DOMAIN The(c.file)}
  ELSE c.topic \X c.number
ElectionArgsOk(c) ==
  /\ \/ c.all /\ c.topic = {} /\ c.number = {} /\ c.file = {}
     \/ ~ c.all /\ c.topic # {} /\ c.number # {} /\ c.file = {}
     \/ ~ c.all /\ c.topic = {} /\ c.number = {} /\ c.file # {}
  /\ Given(c.file, LAMBDA ps :
       /\ ps # <<>> /\ Cardinality(ElectionTargets(c)) = Len(ps)
       /\ \A p \in ElectionTargets(c) : p[1] # "" /\ p[2] >= 0)

\* A preferred election replaces another leader, an unclean one a missing leader.
Electable(c) ==
  {p \in Parts \cap ElectionTargets(c) : leader[p] = IF c.unclean THEN "none" ELSE "other"}
NotNeeded(c) ==
  {p \in Parts \cap ElectionTargets(c) :
     leader[p] \in IF c.unclean THEN {"preferred", "other"} ELSE {"preferred"}}
ElectLeaders ==
  /\ Is("leader-election", "elect") /\ pc = "start"
  /\ IF ~ ElectionArgsOk(cmd) THEN Usage
     ELSE IF ~ cmd.execute THEN Report(Rows(IF cmd.all THEN {"*"} ELSE ElectionTargets(cmd), "preview"))
     ELSE \* of all partitions the broker tells only those that needed an election
       LET named == IF cmd.all THEN ElectionTargets(cmd) \ NotNeeded(cmd) ELSE ElectionTargets(cmd)
       IN Request(named, Electable(cmd), named \cap NotNeeded(cmd), "rows")
  /\ leader' = [p \in Parts |->
       IF p \notin applied' THEN leader[p] ELSE IF cmd.unclean THEN "other" ELSE "preferred"]
  /\ UNCHANGED <<logStart, tiered>>

-----------------------------------------------------------------------------
(* log-dirs *)

\* With topics, their partitions are read first, and a topic that is missing ends it.
LogDirsStart ==
  /\ Is("log-dirs", "describe") /\ pc = "start"
  /\ LET wanted == {p \in Parts : Given(cmd.topics, LAMBDA names : p[1] \in names)}
     IN IF Given(cmd.topics, LAMBDA names : names # {} /\ names \subseteq {p[1] : p \in Parts})
        THEN Read("decide", wanted) ELSE Usage
  /\ UNCHANGED partVars

\* One row for each replica, with its directory's error.
OnBroker(c, dir) == Given(c.brokers, LAMBDA ids : ids = {} \/ dir.broker \in ids)
DescribeLogDirs ==
  /\ Is("log-dirs", "describe") /\ pc = "decide"
  /\ Report(Rows(UNION {{dir} \X (dir.replicas \cap seen) : dir \in {d \in LogDirs : OnBroker(cmd, d)}}, "shown"))
  /\ UNCHANGED partVars

-----------------------------------------------------------------------------
\* Retention, an upload to remote storage, a broker that goes away or comes back.
PartsForeign ==
  /\ cmd.tool \in {"offsets", "delete-records", "leader-election"} /\ Foreign
  /\ \E p \in Parts :
       \/ logStart[p] < LogEnd /\ logStart' = [logStart EXCEPT ![p] = @ + 1]
          /\ UNCHANGED <<tiered, leader>>
       \/ tiered' = tiered \cup {p} /\ UNCHANGED <<logStart, leader>>
       \/ \E who \in {"preferred", "other", "none"} :
            leader' = [leader EXCEPT ![p] = who] /\ UNCHANGED <<logStart, tiered>>

PartsNext ==
  \/ OffsetsStart \/ ListOffsets \/ DeleteRecords \/ ElectLeaders
  \/ LogDirsStart \/ DescribeLogDirs \/ PartsForeign

PartsTypeOK ==
  /\ logStart \in [Parts -> 0..LogEnd] /\ tiered \subseteq Parts
  /\ leader \in [Parts -> {"preferred", "other", "none"}]
=============================================================================

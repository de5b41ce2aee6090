------------------------- MODULE OffsetResetProofs -------------------------
(***************************************************************************)
(* Theorems about the commands that move committed offsets, for every set of *)
(* groups, partitions and command lines, whatever the other clients and the  *)
(* deletions do.                                                             *)
(*                                                                         *)
(* The inductive invariant has one part per thing a command knows: Ordered    *)
(* (which group is planned when), Chosen (each group asked for is planned or  *)
(* skipped), StoredInv (what is written of what is planned), CoverInv (what   *)
(* is planned of what was asked for), DropInv and EndingInv (what deletions   *)
(* and ends have behind them), and WithinInv (logs' ends).                   *)
(***************************************************************************)
EXTENDS GroupDeleteProofs

Waiting == {"groups", "states", "evict"}
Planners == {"plan", "read"}
ResetSteps == Waiting \union Planners \union {"lines", "store", "clean"} \union Endings

Values == Offsets \union {None}
Plans == [Groups -> [Partitions -> Values]]

Jobs ==
  [cmd : Resets \union {NoCommand}, pc : ResetSteps, todo : SUBSET Groups,
   inactive : SUBSET Groups, known : SUBSET Groups, skipped : SUBSET Groups,
   group : Groups \union {NoGroup}, names : SUBSET Names, parts : SUBSET Partitions,
   lines : SUBSET (Groups \X Partitions), seen : [Partitions -> Values],
   internal : [Groups -> SUBSET Internal], rows : Plans,
   errors : SUBSET (Names \union Internal \union (Groups \X Partitions)),
   written : Plans, dropped : SUBSET Internal]

Filed(j) == j.cmd.to = "file" /\ j.cmd.kind # "application"
Single(j) == ~ j.cmd.all /\ \E g \in Groups : j.cmd.groups = {g}

\* The topics that a command names.
NamedBy(j) == j.cmd.names \union j.cmd.through

\* Which group is planned when, and for whom internal topics are known.
Ordered(j) ==
  /\ j.group = NoGroup => j.names = {} /\ j.parts = {}
  /\ j.group # NoGroup => j.group \in j.todo /\ ~ Filed(j)
  /\ j.pc \in Waiting \union {"lines", "store", "clean"} => j.group = NoGroup
  /\ j.pc = "read" =>
       j.group # NoGroup /\ j.parts = {} /\ (~ j.cmd.every => j.names = NamedBy(j))
  /\ j.pc \in {"lines", "store"} => Filed(j)
  /\ j.pc \in {"plan", "read", "lines", "store"} => j.todo \subseteq j.inactive
  /\ \A g \in Groups : j.internal[g] # {} => j.cmd.kind \in {"streams", "application"}

\* A group that was named is planned or skipped, and no other is.
Chosen(j) ==
  ~ j.cmd.all =>
    /\ j.inactive \subseteq j.cmd.groups
    /\ j.pc \in Waiting => j.todo \subseteq j.cmd.groups
    /\ j.pc \in Waiting /\ j.cmd.kind = "consumer" => j.inactive = {} /\ j.skipped = {}
    /\ j.pc = "evict" => j.cmd.kind = "application"
    /\ j.pc \in {"states", "evict"} /\ j.cmd.kind \notin {"consumer", "streams"} =>
         j.cmd.groups \subseteq j.inactive
    /\ j.pc \in {"states", "evict"} => j.cmd.groups \subseteq j.todo \union j.inactive \union j.skipped
    /\ j.pc \in Planners \union {"lines", "store", "clean", "ok"} => j.cmd.groups \subseteq j.inactive \union j.skipped

\* Stored as planned, but for what a share group was told failed.
AsPlanned(j, g) == j.written[g] = j.rows[g] \/ (j.cmd.kind = "share" /\ j.errors # {})

StoredInv(j) ==
  /\ j.pc \in Waiting => j.rows = NoRows
  /\ j.pc \in Waiting \union {"lines"} => j.written = NoRows
  /\ j.pc = "plan" /\ Filed(j) => j.rows = NoRows /\ j.written = NoRows
  /\ ~ j.cmd.execute => j.written = NoRows
  /\ \A g \in Groups : j.rows[g] # NoOffsets \/ j.written[g] # NoOffsets => g \in j.inactive
  /\ j.pc \in Planners \union {"store"} =>
       \A g \in Groups :
         /\ g \in j.todo => j.written[g] = NoOffsets
         /\ g \notin j.todo /\ j.cmd.execute => AsPlanned(j, g)
  /\ j.pc \in Planners => \A g \in j.todo : g # j.group => j.rows[g] = NoOffsets
  /\ j.pc \in {"clean", "ok"} /\ j.cmd.execute => j.written = j.rows

\* A missing topic is passed over for a consumer group; an application reset reports it.
\* (ts: the topics that exist.)
PassedOver(j, ts, p) ==
  /\ TopicOf[p] \notin ts
  /\ j.cmd.kind = "consumer" \/ (j.cmd.kind = "application" /\ j.errors # {})

Covered(j, ts, g, p) == j.rows[g][p] # None \/ PassedOver(j, ts, p)

\* g has a row for everything that was asked for.
Complete(j, ts, g) ==
  /\ ~ j.cmd.every => \A p \in PartitionsOf(NamedBy(j)) : Covered(j, ts, g, p)
  /\ j.cmd.kind = "streams" /\ j.cmd.execute => j.rows[g] # NoOffsets

CoverInv(j, ts) ==
  ~ Filed(j) =>
    /\ j.pc \in Planners => \A g \in j.inactive \ j.todo : Complete(j, ts, g)
    /\ j.pc \in Planners /\ j.group # NoGroup /\ ~ j.cmd.every =>
         \A p \in PartitionsOf(NamedBy(j)) :
           Covered(j, ts, j.group, p) \/ TopicOf[p] \in j.names \/ p \in j.parts
    /\ j.pc \in {"clean", "ok"} \/ j.dropped # {} => \A g \in j.inactive : Complete(j, ts, g)

\* Topics are deleted when all is stored.
DropInv(j) ==
  /\ j.dropped # {} => j.pc \in {"clean", "ok", "partial", "failed"}
  /\ j.dropped # {} \/ j.pc = "clean" =>
       /\ j.cmd.execute /\ ~ Filed(j) /\ j.cmd.kind \in {"streams", "application"}
       /\ j.written = j.rows

\* What the end of an invocation that is wrong, and of one that is well, has behind it.
EndingInv(j) ==
  /\ j.pc = "usage" /\ (Filed(j) \/ Single(j)) => j.written = NoRows
  /\ j.pc = "ok" /\ j.cmd.kind = "application" => j.errors = {}

\* Nothing that was read, planned or stored lies past the end of its log (l: the logs).
WithinInv(j, l) ==
  /\ \A p \in Partitions : j.seen[p] <= l[p].high
  /\ \A g \in Groups, p \in Partitions :
       j.rows[g][p] <= l[p].high /\ j.written[g][p] <= l[p].high

JobInv(j, l, ts) ==
  /\ j \in Jobs
  /\ Ordered(j) /\ Chosen(j) /\ StoredInv(j) /\ CoverInv(j, ts) /\ DropInv(j) /\ EndingInv(j)
  /\ WithinInv(j, l)

ClusterInv ==
  /\ ClusterTypeOK
  /\ \A p \in Partitions : log[p].low <= log[p].high
  /\ \A g \in Groups, p \in Partitions : committed[g][p] <= log[p].high

\* What a deletion has listed, found idle, is to remove and has removed.
ListsInv(w) ==
  /\ w.idle \subseteq w.listed /\ w.removed \subseteq w.parts /\ w.parts \subseteq Partitions
  /\ w.pc = "list" => w.idle = {}
  /\ w.pc = "describe" => w.asked \subseteq w.listed
  /\ w.pc = "committed" => w.asked = {}
  /\ w.pc \in {"committed", "select"} => w.removed = {}
  /\ w.pc = "select" => w.asked \subseteq Partitions

\* The inductive invariant.
ResetInv ==
  /\ ClusterInv /\ JobInv(job, log, topics)
  /\ WorkInv(work) /\ ListsInv(work) /\ runs \in 0 .. MaxRuns

-----------------------------------------------------------------------------
(* Facts about values. *)

Logs == [Partitions -> [low : Offsets, high : Offsets]]

LEMMA ValueFacts ==
  /\ Offsets \subseteq Nat /\ Values \subseteq Int /\ None \in Values /\ None = -1
  /\ None \notin Offsets /\ Refused \notin Values
  /\ NoOffsets \in [Partitions -> Values] /\ NoRows \in Plans
  /\ NoGroup \notin Groups /\ 0 \in Offsets /\ 1 \in Offsets
<1>1. MaxOffset \in Nat \ {0} BY ClusterAssumption
<1>2. Offsets \subseteq Nat /\ 0 \in Offsets /\ 1 \in Offsets BY <1>1 DEF Offsets
<1>3. None \notin Offsets /\ Refused \notin Values /\ Values \subseteq Int /\ None \in Values
  BY <1>2 DEF None, Refused, Values
<1>4. NoOffsets \in [Partitions -> Values] BY <1>3 DEF NoOffsets
<1>5. NoRows \in Plans BY <1>4 DEF NoRows, Plans
<1> QED BY <1>2, <1>3, <1>4, <1>5, ResetsAssumption DEF None, NoGroup

LEMMA ValuesAreInts == \A v \in Values : v \in Int /\ None <= v
<1>1. MaxOffset \in Nat BY ClusterAssumption
<1> QED BY <1>1 DEF Values, Offsets, None

LEMMA LogFacts ==
  ASSUME NEW l \in Logs, NEW p \in Partitions
  PROVE  /\ l[p] \in [low : Offsets, high : Offsets]
         /\ l[p].low \in Offsets /\ l[p].high \in Offsets
         /\ l[p].low \in Nat /\ l[p].high \in Nat /\ None <= l[p].high
<1>1. l[p] \in [low : Offsets, high : Offsets] BY DEF Logs
<1>2. l[p].low \in Offsets /\ l[p].high \in Offsets BY <1>1
<1>3. MaxOffset \in Nat BY ClusterAssumption
<1> QED BY <1>1, <1>2, <1>3 DEF Offsets, None

LEMMA PlanValue ==
  ASSUME NEW r \in Plans, NEW g \in Groups, NEW p \in Partitions
  PROVE  r[g][p] \in Values /\ r[g][p] \in Int
<1>1. r[g] \in [Partitions -> Values] BY DEF Plans
<1>2. r[g][p] \in Values BY <1>1
<1> QED BY <1>2, ValuesAreInts

LEMMA ClampWithin ==
  ASSUME NEW o \in Int, NEW l \in [low : Offsets, high : Offsets], l.low <= l.high
  PROVE  Clamp(o, l) \in Offsets /\ Clamp(o, l) <= l.high
<1>1. l.low \in Offsets /\ l.high \in Offsets OBVIOUS
<1>2. MaxOffset \in Nat BY ClusterAssumption
<1> QED BY <1>1, <1>2 DEF Clamp, Offsets

LEMMA CommandFacts ==
  ASSUME NEW c \in Resets \union {NoCommand}
  PROVE  /\ c.groups \subseteq Groups /\ c.names \subseteq Names /\ c.through \subseteq Names
         /\ c.all \in BOOLEAN /\ c.every \in BOOLEAN /\ c.execute \in BOOLEAN
         /\ c.value \in Int /\ c.file \in [Groups -> [Partitions -> Int]]
         /\ c.to \in {"earliest", "latest", "offset", "shift", "current", "time", "file"}
         /\ c.kind \in {"consumer", "streams", "share", "application", "none"}
         /\ c.kind \in {"share", "application"} => ~ c.all /\ \E g \in Groups : c.groups = {g}
         /\ c.kind = "application" => ~ c.every
<1>1. CASE c \in Resets
  <2>1. c \in Commands BY <1>1, ResetsAssumption
  <2> QED BY <1>1, <2>1, ResetsAssumption DEF Commands
<1>2. CASE c = NoCommand
  BY <1>2, ValueFacts DEF NoCommand, NoRows, NoOffsets, None
<1> QED BY <1>1, <1>2

-----------------------------------------------------------------------------
(* The beginning, the ends that promise nothing, and the other clients. *)

LEMMA NoJobInv ==
  ASSUME NEW l \in Logs, NEW ts PROVE JobInv(NoJob, l, ts)
<1>1. NoJob \in Jobs
  <2>1. [g \in Groups |-> {}] \in [Groups -> SUBSET Internal] OBVIOUS
  <2> QED BY <2>1, ValueFacts DEF NoJob, Jobs, ResetSteps, Endings
<1>2. Ordered(NoJob) /\ Chosen(NoJob)
  BY DEF NoJob, NoCommand, Ordered, Chosen, Waiting, Planners
<1>3. StoredInv(NoJob) /\ CoverInv(NoJob, ts)
  BY DEF NoJob, NoCommand, StoredInv, CoverInv, Waiting, Planners, NoRows
<1>4. DropInv(NoJob) /\ EndingInv(NoJob)
  BY DEF NoJob, NoCommand, DropInv, EndingInv
<1>5. WithinInv(NoJob, l)
  BY LogFacts DEF NoJob, NoRows, NoOffsets, WithinInv
<1> QED BY <1>1, <1>2, <1>3, <1>4, <1>5 DEF JobInv

LEMMA BeginInv ==
  ASSUME NEW c \in Resets, Begin(c), NEW l \in Logs, NEW ts PROVE JobInv(job', l, ts)
<1>1. job' = [NoJob EXCEPT !.cmd = c, !.pc = "groups"] BY DEF Begin
<1>2. /\ job' \in Jobs /\ job'.cmd = c /\ job'.pc = "groups"
      /\ job'.group = NoGroup /\ job'.names = {} /\ job'.parts = {} /\ job'.todo = {}
      /\ job'.inactive = {} /\ job'.skipped = {} /\ job'.dropped = {} /\ job'.rows = NoRows
      /\ job'.written = NoRows /\ job'.internal = [g \in Groups |-> {}]
      /\ job'.seen = NoOffsets
  <2>1. [g \in Groups |-> {}] \in [Groups -> SUBSET Internal] OBVIOUS
  <2> QED BY <1>1, <2>1, ValueFacts, ZenonT(40) DEF NoJob, NoCommand, Jobs, ResetSteps, Waiting
<1>3. Ordered(job') /\ Chosen(job')
  BY <1>2 DEF Ordered, Chosen, Waiting, Planners
<1>4. StoredInv(job') /\ CoverInv(job', ts)
  BY <1>2 DEF StoredInv, CoverInv, Waiting, Planners, NoRows
<1>5. DropInv(job') /\ EndingInv(job')
  BY <1>2 DEF DropInv, EndingInv
<1>6. WithinInv(job', l)
  BY <1>2, LogFacts DEF NoRows, NoOffsets, WithinInv
<1> QED BY <1>2, <1>3, <1>4, <1>5, <1>6 DEF JobInv

LEMMA EndInv ==
  ASSUME NEW l, NEW ts, JobInv(job, l, ts), NEW how \in {"usage", "failed"}, job' = End(how),
         how = "usage" => job.dropped = {} /\ (Filed(job) \/ Single(job) => job.written = NoRows)
  PROVE  JobInv(job', l, ts)
<1>1. job' \in Jobs
  BY DEF JobInv, End, Jobs, ResetSteps, Endings
<1>2. /\ job'.pc = how /\ job'.cmd = job.cmd /\ job'.todo = job.todo
      /\ job'.inactive = job.inactive /\ job'.group = job.group /\ job'.names = job.names
      /\ job'.parts = job.parts /\ job'.internal = job.internal /\ job'.rows = job.rows
      /\ job'.written = job.written /\ job'.errors = job.errors /\ job'.seen = job.seen
      /\ job'.dropped = job.dropped /\ job'.skipped = job.skipped
  BY DEF JobInv, End, Jobs
<1>3. Ordered(job') /\ Chosen(job')
  BY <1>2 DEF JobInv, Ordered, Chosen, Waiting, Planners, Filed
<1>4. StoredInv(job')
  BY <1>2 DEF JobInv, StoredInv, Waiting, Planners, Filed
<1>5. CoverInv(job', ts)
  <2>1. \A g \in Groups : Complete(job, ts, g) => Complete(job', ts, g)
    BY <1>2 DEF Complete, Covered, PassedOver, NamedBy
  <2>2. job.inactive \subseteq Groups
    BY DEF JobInv, Jobs
  <2> QED BY <1>2, <2>1, <2>2 DEF JobInv, CoverInv, Planners, Filed
<1>6. DropInv(job') /\ EndingInv(job')
  BY <1>2 DEF JobInv, DropInv, EndingInv, Filed, Single
<1>7. WithinInv(job', l)
  BY <1>2 DEF JobInv, WithinInv
<1> QED BY <1>1, <1>3, <1>4, <1>5, <1>6, <1>7 DEF JobInv

\* Logs grow at their end and topics are only deleted.
LEMMA ClusterMoves ==
  ASSUME NEW j, NEW l \in Logs, NEW m \in Logs, NEW ts, NEW us, JobInv(j, l, ts),
         \A p \in Partitions : l[p].high <= m[p].high, us \subseteq ts
  PROVE  JobInv(j, m, us)
<1>1. CoverInv(j, us)
  BY DEF JobInv, CoverInv, Complete, Covered, PassedOver
<1>2. WithinInv(j, m)
  <2>1. \A p \in Partitions : l[p].high \in Int /\ m[p].high \in Int
    BY LogFacts
  <2>2. j.seen \in [Partitions -> Values] /\ j.rows \in Plans /\ j.written \in Plans
    BY DEF JobInv, Jobs
  <2>3. \A p \in Partitions : j.seen[p] \in Int
    BY <2>2, ValuesAreInts
  <2>4. \A g \in Groups, p \in Partitions : j.rows[g][p] \in Int /\ j.written[g][p] \in Int
    BY <2>2, PlanValue
  <2>5. WithinInv(j, l) BY DEF JobInv
  <2> QED BY <2>1, <2>3, <2>4, <2>5 DEF WithinInv
<1> QED BY <1>1, <1>2 DEF JobInv

-----------------------------------------------------------------------------
(* The groups are chosen. *)

\* A step that looks at groups and plans nothing.
LEMMA WaitingStep ==
  ASSUME NEW l, NEW ts, JobInv(job, l, ts), job.pc \in Waiting,
         job' \in Jobs, job'.pc \in Waiting \union {"plan"},
         job'.cmd = job.cmd, job'.group = job.group, job'.names = job.names,
         job'.parts = job.parts, job'.seen = job.seen, job'.rows = job.rows,
         job'.written = job.written, job'.dropped = job.dropped,
         job'.pc = "plan" => job'.todo = job'.inactive,
         \A g \in Groups : job'.internal[g] # {} => job.cmd.kind \in {"streams", "application"},
         Chosen(job')
  PROVE  JobInv(job', l, ts)
<1>1. job.group = NoGroup /\ job.rows = NoRows /\ job.written = NoRows /\ job.dropped = {}
  BY DEF JobInv, Ordered, StoredInv, DropInv, Waiting
<1>2. job.names = {} /\ job.parts = {} BY <1>1 DEF JobInv, Ordered
<1>3. Ordered(job')
  BY <1>1, <1>2 DEF Ordered, Waiting, Filed
<1>4. StoredInv(job')
  <2>1. \A g \in Groups : NoRows[g] = NoOffsets BY DEF NoRows
  <2>2. job'.pc = "plan" => job'.todo = job'.inactive OBVIOUS
  <2>3. job'.pc \notin {"clean", "ok", "store", "read", "lines"} BY DEF Waiting
  <2>4. \A g \in Groups : AsPlanned(job', g) BY <1>1 DEF AsPlanned
  <2>5. job'.todo \subseteq Groups BY DEF Jobs
  <2> QED BY <1>1, <2>1, <2>2, <2>3, <2>4, <2>5 DEF StoredInv, Planners
<1>5. CoverInv(job', ts)
  BY <1>1 DEF CoverInv, Planners, Waiting
<1>6. DropInv(job') /\ EndingInv(job')
  BY <1>1 DEF DropInv, EndingInv, Waiting
<1>7. WithinInv(job', l)
  BY DEF JobInv, WithinInv
<1> QED BY <1>3, <1>4, <1>5, <1>6, <1>7 DEF JobInv

\* An end that comes before anything is planned.
LEMMA EarlyEnd ==
  ASSUME NEW l, NEW ts, JobInv(job, l, ts), job.pc \in Waiting,
         NEW how \in {"usage", "failed"}, job' = End(how)
  PROVE  JobInv(job', l, ts)
<1>1. job.written = NoRows /\ job.dropped = {}
  BY DEF JobInv, StoredInv, DropInv, Waiting
<1> QED BY <1>1, EndInv

LEMMA JobCommand ==
  ASSUME NEW l, NEW ts, JobInv(job, l, ts) PROVE job.cmd \in Resets \union {NoCommand}
BY DEF JobInv, Jobs

LEMMA SelectGroupsInv ==
  ASSUME NEW l, NEW ts, JobInv(job, l, ts), SelectGroups PROVE JobInv(job', l, ts)
<1> DEFINE named == IF cmd.all THEN {g \in Groups : Exists(g)} ELSE cmd.groups
           listed == {g \in named : Exists(g)}
<1>0. job.pc = "groups" /\ job.pc \in Waiting BY DEF SelectGroups, At, Waiting
<1>1. named \subseteq Groups /\ listed \subseteq named
  BY JobCommand, CommandFacts DEF cmd
<1>2. ~ job.cmd.all => named = job.cmd.groups BY DEF cmd
<1>3. CASE named = {}
  BY <1>0, <1>3, EarlyEnd DEF SelectGroups
<1>4. CASE named # {} /\ Kind({"consumer", "streams"})
  <2>1. job' = [job EXCEPT !.todo = named, !.pc = "states"] BY <1>4 DEF SelectGroups
  <2> HIDE DEF named, listed
  <2>2. job' \in Jobs
    BY <1>1, <2>1 DEF JobInv, Jobs, ResetSteps, Waiting
  <2>3. /\ job'.pc = "states" /\ job'.todo = named /\ job'.cmd = job.cmd
        /\ job'.group = job.group /\ job'.names = job.names /\ job'.parts = job.parts
        /\ job'.seen = job.seen /\ job'.rows = job.rows /\ job'.written = job.written
        /\ job'.dropped = job.dropped /\ job'.inactive = job.inactive
        /\ job'.internal = job.internal /\ job'.skipped = job.skipped
    BY <2>1 DEF JobInv, Jobs
  <2>4. Chosen(job')
    BY <1>0, <1>2, <1>4, <2>3 DEF JobInv, Chosen, Waiting, Planners, Kind, cmd
  <2>5. \A g \in Groups : job'.internal[g] # {} => job.cmd.kind \in {"streams", "application"}
    BY <2>3 DEF JobInv, Ordered
  <2>6. job'.pc \in Waiting \union {"plan"} /\ job'.pc # "plan" BY <2>3 DEF Waiting
  <2> QED BY <1>0, <2>2, <2>3, <2>4, <2>5, <2>6, WaitingStep
<1>5. CASE named # {} /\ ~ Kind({"consumer", "streams"})
  <2>1. job' = [job EXCEPT !.todo = listed, !.inactive = named, !.pc = "states"]
    BY <1>5 DEF SelectGroups
  <2> HIDE DEF named, listed
  <2>2. job' \in Jobs
    BY <1>1, <2>1 DEF JobInv, Jobs, ResetSteps, Waiting
  <2>3. /\ job'.pc = "states" /\ job'.todo = listed /\ job'.cmd = job.cmd
        /\ job'.group = job.group /\ job'.names = job.names /\ job'.parts = job.parts
        /\ job'.seen = job.seen /\ job'.rows = job.rows /\ job'.written = job.written
        /\ job'.dropped = job.dropped /\ job'.inactive = named
        /\ job'.internal = job.internal
    BY <2>1 DEF JobInv, Jobs
  <2>4. Chosen(job')
    BY <1>1, <1>2, <1>5, <2>3 DEF JobInv, Chosen, Waiting, Planners, Kind, cmd
  <2>5. \A g \in Groups : job'.internal[g] # {} => job.cmd.kind \in {"streams", "application"}
    BY <2>3 DEF JobInv, Ordered
  <2>6. job'.pc \in Waiting \union {"plan"} /\ job'.pc # "plan" BY <2>3 DEF Waiting
  <2> QED BY <1>0, <2>2, <2>3, <2>4, <2>5, <2>6, WaitingStep
<1> QED BY <1>3, <1>4, <1>5

LEMMA ListStatesInv ==
  ASSUME NEW l, NEW ts, JobInv(job, l, ts), ListStates PROVE JobInv(job', l, ts)
<1> DEFINE idle == {g \in job.todo : Inactive(g)}
<1>0. job.pc = "states" /\ job.pc \in Waiting BY DEF ListStates, At, Waiting
<1>1. idle \subseteq job.todo /\ job.todo \subseteq Groups BY DEF JobInv, Jobs
<1>2. job' = [job EXCEPT !.pc = "plan", !.todo = idle, !.inactive = idle,
                         !.skipped = job.todo \ idle]
  BY DEF ListStates
<1>3. job.inactive \subseteq job.cmd.groups \/ job.cmd.all BY DEF JobInv, Chosen
<1> HIDE DEF idle
<1>4. job' \in Jobs
  BY <1>1, <1>2 DEF JobInv, Jobs, ResetSteps, Planners
<1>5. /\ job'.pc = "plan" /\ job'.todo = idle /\ job'.cmd = job.cmd
      /\ job'.group = job.group /\ job'.names = job.names /\ job'.parts = job.parts
      /\ job'.seen = job.seen /\ job'.rows = job.rows /\ job'.written = job.written
      /\ job'.dropped = job.dropped /\ job'.inactive = idle
      /\ job'.internal = job.internal /\ job'.skipped = job.todo \ idle
  BY <1>2 DEF JobInv, Jobs
<1>6. Chosen(job')
  BY <1>0, <1>1, <1>5 DEF JobInv, Chosen, Waiting, Planners, ListStates, Kind, cmd
<1>7. \A g \in Groups : job'.internal[g] # {} => job.cmd.kind \in {"streams", "application"}
  BY <1>5 DEF JobInv, Ordered
<1> QED BY <1>0, <1>4, <1>5, <1>6, <1>7, WaitingStep

LEMMA DescribeStreamsInv ==
  ASSUME NEW l, NEW ts, JobInv(job, l, ts), NEW g \in Groups, DescribeStreams(g)
  PROVE  JobInv(job', l, ts)
<1> DEFINE own == IF cmd.cleanup /\ Exists(g) THEN InternalOf[g] ELSE {}
           seen == {g} \intersect {h \in Groups : Exists(h)}
<1>0. job.pc = "states" /\ job.pc \in Waiting /\ job.cmd.kind = "streams" /\ g \in job.todo
  BY DEF DescribeStreams, At, Waiting, Kind, cmd
<1>1. own \subseteq Internal /\ seen \subseteq Groups BY DEF Internal
<1>2. CASE Inactive(g)
  <2>1. job' = [job EXCEPT !.todo = @ \ {g}, !.inactive = @ \union {g},
                           !.known = @ \union seen, !.internal[g] = own]
    BY <1>2 DEF DescribeStreams
  <2> HIDE DEF own, seen
  <2>2. job' \in Jobs
    BY <1>1, <2>1 DEF JobInv, Jobs
  <2>3. /\ job'.pc = "states" /\ job'.todo = job.todo \ {g} /\ job'.cmd = job.cmd
        /\ job'.group = job.group /\ job'.names = job.names /\ job'.parts = job.parts
        /\ job'.seen = job.seen /\ job'.rows = job.rows /\ job'.written = job.written
        /\ job'.dropped = job.dropped /\ job'.inactive = job.inactive \union {g}
        /\ job'.skipped = job.skipped
    BY <1>0, <2>1 DEF JobInv, Jobs
  <2>4. Chosen(job')
    BY <1>0, <2>3 DEF JobInv, Chosen, Waiting, Planners
  <2>5. \A h \in Groups : job'.internal[h] # {} => job.cmd.kind \in {"streams", "application"}
    BY <1>0
  <2> QED BY <1>0, <2>2, <2>3, <2>4, <2>5, WaitingStep
<1>3. CASE ~ Inactive(g)
  <2>1. job' = [job EXCEPT !.todo = @ \ {g}, !.skipped = @ \union {g}]
    BY <1>3 DEF DescribeStreams
  <2>2. job' \in Jobs
    BY <2>1 DEF JobInv, Jobs
  <2>3. /\ job'.pc = "states" /\ job'.todo = job.todo \ {g} /\ job'.cmd = job.cmd
        /\ job'.group = job.group /\ job'.names = job.names /\ job'.parts = job.parts
        /\ job'.seen = job.seen /\ job'.rows = job.rows /\ job'.written = job.written
        /\ job'.dropped = job.dropped /\ job'.inactive = job.inactive
        /\ job'.skipped = job.skipped \union {g}
    BY <1>0, <2>1 DEF JobInv, Jobs
  <2>4. Chosen(job')
    BY <1>0, <2>3 DEF JobInv, Chosen, Waiting, Planners
  <2>5. \A h \in Groups : job'.internal[h] # {} => job.cmd.kind \in {"streams", "application"}
    BY <1>0
  <2> QED BY <1>0, <2>2, <2>3, <2>4, <2>5, WaitingStep
<1> QED BY <1>2, <1>3

\* The groups that were named are those that are inactive, and no other is looked at.
LEMMA NothingLeftInv ==
  ASSUME NEW l, NEW ts, JobInv(job, l, ts), job.pc \in {"states", "evict"},
         ~ job.cmd.all => job.cmd.kind \in {"share", "application"},
         job' = [job EXCEPT !.todo = {}, !.pc = "states"]
  PROVE  JobInv(job', l, ts)
<1>0. job.pc \in Waiting BY DEF Waiting
<1>1. job' \in Jobs
  BY DEF JobInv, Jobs, ResetSteps, Waiting
<1>2. /\ job'.pc = "states" /\ job'.todo = {} /\ job'.cmd = job.cmd
      /\ job'.group = job.group /\ job'.names = job.names /\ job'.parts = job.parts
      /\ job'.seen = job.seen /\ job'.rows = job.rows /\ job'.written = job.written
      /\ job'.dropped = job.dropped /\ job'.inactive = job.inactive
      /\ job'.skipped = job.skipped /\ job'.internal = job.internal
  BY DEF JobInv, Jobs
<1>3. Chosen(job')
  BY <1>0, <1>2 DEF JobInv, Chosen, Waiting, Planners
<1>4. \A h \in Groups : job'.internal[h] # {} => job.cmd.kind \in {"streams", "application"}
  BY <1>2 DEF JobInv, Ordered
<1>5. job'.pc \in Waiting /\ job'.pc # "plan" BY <1>2 DEF Waiting
<1> QED BY <1>0, <1>1, <1>2, <1>3, <1>4, <1>5, WaitingStep

LEMMA DescribeShareInv ==
  ASSUME NEW l, NEW ts, JobInv(job, l, ts), NEW g \in Groups, DescribeShare(g)
  PROVE  JobInv(job', l, ts)
<1>0. job.pc = "states" /\ job.pc \in Waiting /\ job.cmd.kind = "share"
  BY DEF DescribeShare, At, Waiting, Kind, cmd
<1>1. CASE ~ Exists(g)
  BY <1>0, <1>1, EarlyEnd DEF DescribeShare
<1>2. CASE Exists(g) /\ ~ Inactive(g)
  BY <1>0, <1>2, EarlyEnd DEF DescribeShare
<1>3. CASE Exists(g) /\ Inactive(g)
  <2>1. job' = [job EXCEPT !.todo = {}] BY <1>3 DEF DescribeShare
  <2>2. job' = [job EXCEPT !.todo = {}, !.pc = "states"]
    BY <1>0, <2>1 DEF JobInv, Jobs
  <2> QED BY <1>0, <2>2, NothingLeftInv
<1> QED BY <1>1, <1>2, <1>3

LEMMA DescribeApplicationInv ==
  ASSUME NEW l, NEW ts, JobInv(job, l, ts), NEW g \in Groups, DescribeApplication(g)
  PROVE  JobInv(job', l, ts)
<1>0. job.pc = "states" /\ job.pc \in Waiting /\ job.cmd.kind = "application"
  BY DEF DescribeApplication, At, Waiting, Kind, cmd
<1>1. CASE Inactive(g)
  <2>1. job' = [job EXCEPT !.todo = {}] BY <1>1 DEF DescribeApplication
  <2>2. job' = [job EXCEPT !.todo = {}, !.pc = "states"]
    BY <1>0, <2>1 DEF JobInv, Jobs
  <2> QED BY <1>0, <2>2, NothingLeftInv
<1>2. CASE ~ Inactive(g) /\ ~ cmd.force
  BY <1>0, <1>2, EarlyEnd DEF DescribeApplication
<1>3. CASE ~ Inactive(g) /\ cmd.force
  <2>1. job' = [job EXCEPT !.pc = "evict"] BY <1>3 DEF DescribeApplication, End
  <2>2. job' \in Jobs
    BY <2>1 DEF JobInv, Jobs, ResetSteps, Waiting
  <2>3. /\ job'.pc = "evict" /\ job'.todo = job.todo /\ job'.cmd = job.cmd
        /\ job'.group = job.group /\ job'.names = job.names /\ job'.parts = job.parts
        /\ job'.seen = job.seen /\ job'.rows = job.rows /\ job'.written = job.written
        /\ job'.dropped = job.dropped /\ job'.inactive = job.inactive
        /\ job'.skipped = job.skipped
    BY <2>1 DEF JobInv, Jobs
  <2>4. Chosen(job')
    BY <1>0, <2>3 DEF JobInv, Chosen, Waiting, Planners
  <2>5. \A h \in Groups : job'.internal[h] # {} => job.cmd.kind \in {"streams", "application"}
    BY <1>0
  <2>6. job'.pc \in Waiting \union {"plan"} /\ job'.pc # "plan" BY <2>3 DEF Waiting
  <2> QED BY <1>0, <2>2, <2>3, <2>4, <2>5, <2>6, WaitingStep
<1> QED BY <1>1, <1>2, <1>3

LEMMA EvictInv ==
  ASSUME NEW l, NEW ts, JobInv(job, l, ts), NEW g \in Groups, Evict(g)
  PROVE  JobInv(job', l, ts)
<1>0. job.pc = "evict" /\ job.pc \in Waiting BY DEF Evict, At, Waiting
<1>3. ~ job.cmd.all => job.cmd.kind \in {"share", "application"} BY <1>0 DEF JobInv, Chosen
<1>1. CASE job' = [job EXCEPT !.pc = "states", !.todo = {}]
  <2>1. job' = [job EXCEPT !.todo = {}, !.pc = "states"] BY <1>1 DEF JobInv, Jobs
  <2> QED BY <1>0, <1>3, <2>1, NothingLeftInv
<1>2. CASE job' = End("failed")
  BY <1>0, <1>2, EarlyEnd
<1> QED BY <1>1, <1>2 DEF Evict

LEMMA ClassifiedInv ==
  ASSUME NEW l, NEW ts, JobInv(job, l, ts), Classified PROVE JobInv(job', l, ts)
<1>0. job.pc = "states" /\ job.pc \in Waiting /\ job.todo = {}
  BY DEF Classified, At, Waiting
<1>1. job' = [job EXCEPT !.pc = "plan", !.todo = job.inactive] BY DEF Classified
<1>2. job' \in Jobs
  BY <1>1 DEF JobInv, Jobs, ResetSteps, Planners
<1>3. /\ job'.pc = "plan" /\ job'.todo = job.inactive /\ job'.cmd = job.cmd
      /\ job'.group = job.group /\ job'.names = job.names /\ job'.parts = job.parts
      /\ job'.seen = job.seen /\ job'.rows = job.rows /\ job'.written = job.written
      /\ job'.dropped = job.dropped /\ job'.inactive = job.inactive
      /\ job'.skipped = job.skipped /\ job'.internal = job.internal
  BY <1>1 DEF JobInv, Jobs
<1>4. Chosen(job')
  BY <1>0, <1>3 DEF JobInv, Chosen, Waiting, Planners
<1>5. \A h \in Groups : job'.internal[h] # {} => job.cmd.kind \in {"streams", "application"}
  BY <1>3 DEF JobInv, Ordered
<1> QED BY <1>0, <1>2, <1>3, <1>4, <1>5, WaitingStep

-----------------------------------------------------------------------------
(* A group is planned. *)

\* An end that comes while a group is planned: nothing of this group is stored, nor of
\* any other if no other was asked for.
LEMMA PlanningEnd ==
  ASSUME NEW l, NEW ts, JobInv(job, l, ts), job.pc \in Planners, job.group # NoGroup,
         NEW how \in {"usage", "failed"}, job' = End(how)
  PROVE  JobInv(job', l, ts)
<1>1. ~ Filed(job) /\ job.group \in job.todo /\ job.dropped = {}
  BY DEF JobInv, Ordered, DropInv, Planners
<1>2. job.written \in [Groups -> [Partitions -> Values]] /\ job.todo \subseteq Groups
  BY DEF JobInv, Jobs, Plans
<1>3. \A g \in Groups : g \in job.todo => job.written[g] = NoOffsets
  BY DEF JobInv, StoredInv
<1>4. \A g \in Groups : job.written[g] # NoOffsets => g \in job.inactive
  BY DEF JobInv, StoredInv
<1>5. ASSUME Single(job) PROVE job.written = NoRows
  <2>1. PICK g \in Groups : job.cmd.groups = {g} BY <1>5 DEF Single
  <2>2. job.inactive \subseteq {g} /\ job.todo \subseteq job.inactive
    BY <1>5, <2>1 DEF JobInv, Chosen, Single, Ordered, Planners
  <2>3. \A h \in Groups : job.written[h] = NoOffsets
    BY <1>1, <1>3, <1>4, <2>2
  <2> QED BY <1>2, <2>3 DEF NoRows
<1> QED BY <1>1, <1>5, EndInv

\* A step of the plan of one group.
LEMMA PlanStep ==
  ASSUME NEW l, NEW ts, JobInv(job, l, ts), job.pc \in Planners, ~ Filed(job),
         job' \in Jobs, job'.pc \in Planners,
         job'.cmd = job.cmd, job'.todo = job.todo, job'.inactive = job.inactive,
         job'.skipped = job.skipped, job'.written = job.written, job'.dropped = job.dropped,
         job'.pc = "read" => job'.parts = {} /\ (~ job.cmd.every => job'.names = NamedBy(job)),
         job'.group \in job.todo, job.group \in {NoGroup, job'.group},
         \A g \in Groups : g # job'.group => job'.rows[g] = job.rows[g],
         job'.errors = job.errors \/ job.cmd.kind = "application",
         \A g \in Groups : job'.internal[g] # {} => job.cmd.kind \in {"streams", "application"},
         ~ job.cmd.every => \A p \in PartitionsOf(NamedBy(job)) :
           Covered(job', ts, job'.group, p) \/ TopicOf[p] \in job'.names \/ p \in job'.parts,
         WithinInv(job', l)
  PROVE  JobInv(job', l, ts)
<1>1. /\ job.todo \subseteq job.inactive /\ job.inactive \subseteq Groups
      /\ job'.group \in Groups /\ job'.group # NoGroup
  BY ValueFacts DEF JobInv, Jobs, Ordered, Planners
<1>2. Ordered(job')
  BY <1>1 DEF Ordered, Planners, Waiting, Filed, NamedBy
<1>3. Chosen(job')
  BY DEF JobInv, Chosen, Planners, Waiting
<1>4. job.cmd.kind = "application" => job.inactive \subseteq job.todo
  <2> SUFFICES ASSUME job.cmd.kind = "application" PROVE job.inactive \subseteq job.todo
    OBVIOUS
  <2>1. ~ job.cmd.all /\ \E g \in Groups : job.cmd.groups = {g}
    BY JobCommand, CommandFacts
  <2>2. job.inactive \subseteq job.cmd.groups BY <2>1 DEF JobInv, Chosen
  <2> QED BY <1>1, <2>1, <2>2
<1>5. StoredInv(job')
  <2>1. job.pc \in Planners /\ job.pc # "store" /\ job'.pc \notin Waiting
        /\ job'.pc \notin {"lines", "clean", "ok"}
    BY DEF Planners, Waiting
  <2>2. \A g \in Groups : job'.rows[g] # NoOffsets \/ job'.written[g] # NoOffsets => g \in job.inactive
    BY <1>1 DEF JobInv, StoredInv
  <2>3. \A g \in Groups : g \notin job.todo /\ job.cmd.execute => AsPlanned(job', g)
    <3> TAKE g \in Groups
    <3> HAVE g \notin job.todo /\ job.cmd.execute
    <3>1. AsPlanned(job, g) BY <2>1 DEF JobInv, StoredInv
    <3>2. job'.rows[g] = job.rows[g] OBVIOUS
    <3> QED BY <3>1, <3>2 DEF AsPlanned
  <2>4. \A g \in Groups : g \in job.todo => job.written[g] = NoOffsets
    BY <2>1 DEF JobInv, StoredInv
  <2>5. ~ job.cmd.execute => job.written = NoRows BY DEF JobInv, StoredInv
  <2>6. \A g \in job.todo : g # job'.group => job'.rows[g] = NoOffsets
    <3> TAKE g \in job.todo
    <3> HAVE g # job'.group
    <3>1. g \in Groups /\ g # job.group BY <1>1, ValueFacts
    <3>2. job.rows[g] = NoOffsets BY <3>1 DEF JobInv, StoredInv
    <3> QED BY <3>1, <3>2
  <2> QED BY <2>1, <2>2, <2>3, <2>4, <2>5, <2>6 DEF StoredInv, Filed
<1>6. CoverInv(job', ts)
  <2>1. \A g \in job.inactive \ job.todo : Complete(job', ts, g)
    <3> TAKE g \in job.inactive \ job.todo
    <3>1. Complete(job, ts, g) BY DEF JobInv, CoverInv
    <3>2. job'.rows[g] = job.rows[g] /\ job'.errors = job.errors BY <1>1, <1>4
    <3> QED BY <3>1, <3>2 DEF Complete, Covered, PassedOver, NamedBy
  <2>2. job.dropped = {} BY DEF JobInv, DropInv, Planners
  <2>3. job'.pc \notin {"clean", "ok"} BY DEF Planners
  <2>4. NamedBy(job') = NamedBy(job) BY DEF NamedBy
  <2> QED BY <2>1, <2>2, <2>3, <2>4 DEF CoverInv
<1>7. DropInv(job') /\ EndingInv(job')
  BY DEF JobInv, DropInv, EndingInv, Planners
<1> QED BY <1>2, <1>3, <1>5, <1>6, <1>7 DEF JobInv

\* What is read before the watermarks lies within the logs.
LEMMA ReadingsWithin ==
  ASSUME ClusterInv, NEW g \in Groups, NEW parts, NEW seen \in Readings(g, parts)
  PROVE  seen \in [Partitions -> Values] /\ \A p \in Partitions : seen[p] <= log[p].high
<1>1. log \in Logs /\ committed \in Plans
  BY DEF ClusterInv, ClusterTypeOK, Logs, Plans, Values
<1>2. CASE seen = committed[g]
  BY <1>1, <1>2 DEF Plans, ClusterInv
<1>3. CASE seen = NoOffsets
  BY <1>1, <1>3, LogFacts, ValueFacts DEF NoOffsets
<1>4. CASE seen \in {f \in [Partitions -> Offsets \union {None}] :
            \A p \in Partitions : \/ f[p] = None
                                  \/ p \in parts /\ f[p] \in log[p].low .. log[p].high - 1}
  <2>1. seen \in [Partitions -> Values] BY <1>4 DEF Values
  <2>2. ASSUME NEW p \in Partitions PROVE seen[p] <= log[p].high
    <3>1. /\ log[p].low \in Nat /\ log[p].high \in Nat /\ None <= log[p].high
      BY <1>1, LogFacts
    <3>2. seen[p] = None \/ seen[p] \in log[p].low .. log[p].high - 1 BY <1>4
    <3> QED BY <3>1, <3>2
  <2> QED BY <2>1, <2>2
<1> QED BY <1>2, <1>3, <1>4 DEF Readings

\* A partition is planned at an offset of its log, or the invocation is at fault.
LEMMA TargetWithin ==
  ASSUME ClusterInv, NEW ts, JobInv(job, log, ts), ~ FromFile, job.group \in Groups,
         NEW p \in Partitions, Target(p, log[p]) # Refused
  PROVE  Target(p, log[p]) \in Offsets /\ Target(p, log[p]) <= log[p].high
<1> DEFINE l == log[p]
           start == IF job.seen[p] # None THEN job.seen[p] ELSE l.high
<1>1. log \in Logs /\ l.low <= l.high
  BY DEF ClusterInv, ClusterTypeOK, Logs
<1>2. /\ l \in [low : Offsets, high : Offsets]
      /\ l.low \in Offsets /\ l.high \in Offsets /\ l.low \in Nat /\ l.high \in Nat
  BY <1>1, LogFacts
<1>3. job.seen[p] \in Values /\ job.seen[p] <= l.high
  BY DEF JobInv, Jobs, WithinInv
<1>4. start \in Offsets /\ start <= l.high /\ start \in Int
  <2>1. Offsets \subseteq Nat /\ Values = Offsets \union {None}
    BY ValueFacts DEF Values
  <2>2. (start = job.seen[p] /\ job.seen[p] # None) \/ start = l.high
    OBVIOUS
  <2> HIDE DEF start, l
  <2>3. start \in Offsets
    BY <1>2, <1>3, <2>1, <2>2
  <2>4. start \in Nat
    BY <2>1, <2>3
  <2>5. start <= l.high
    BY <1>2, <1>3, <2>2
  <2> QED
    BY <2>3, <2>4, <2>5
<1>5. /\ cmd.value \in Int /\ cmd.file[job.group][p] \in Int
      /\ cmd.to \in {"earliest", "latest", "offset", "shift", "current", "time", "file"}
  BY JobCommand, CommandFacts DEF cmd
<1>6. /\ Clamp(cmd.value, l) \in Offsets /\ Clamp(cmd.value, l) <= l.high
      /\ Clamp(cmd.file[job.group][p], l) \in Offsets /\ Clamp(cmd.file[job.group][p], l) <= l.high
      /\ Clamp(start + cmd.value, l) \in Offsets /\ Clamp(start + cmd.value, l) <= l.high
  <2>1. start + cmd.value \in Int BY <1>4, <1>5
  <2> HIDE DEF l, start
  <2> QED BY <1>1, <1>2, <1>5, <2>1, ClampWithin
<1>7. Target(p, l) # Refused => Target(p, l) \in {l.low, l.high, start, Clamp(cmd.value, l),
         Clamp(cmd.file[job.group][p], l), Clamp(start + cmd.value, l)}
  BY <1>5 DEF Target
<1> HIDE DEF start
<1> QED BY <1>1, <1>2, <1>4, <1>6, <1>7

LEMMA NextGroupInv ==
  ASSUME ClusterInv, NEW ts, JobInv(job, log, ts), NEW g \in Groups, NextGroup(g)
  PROVE  JobInv(job', log, ts)
<1> DEFINE names == IF ~ cmd.every THEN cmd.names \union cmd.through
                    ELSE IF Kind({"streams"})
                         THEN IF g \in job.known THEN Topics ELSE {}
                         ELSE {TopicOf[p] : p \in {q \in Partitions : HasOffset(g, q)}}
           step == IF Kind({"consumer", "streams"}) THEN "plan" ELSE "read"
<1>0. /\ job.pc = "plan" /\ job.pc \in Planners /\ ~ Filed(job)
      /\ job.group = NoGroup /\ g \in job.todo
  BY DEF NextGroup, Planning, At, Planners, FromFile, Filed, Kind, cmd
<1>1. names \subseteq Names
  BY JobCommand, CommandFacts DEF cmd, Names, Topics
<1>2. ~ job.cmd.every => names = NamedBy(job) BY DEF NamedBy, cmd
<1>3. CASE ~ (cmd.every /\ Kind({"consumer"}) /\ names = {})
  <2>1. job' = [job EXCEPT !.group = g, !.names = names, !.pc = step]
    BY <1>3 DEF NextGroup
  <2>2. step \in Planners BY DEF Planners
  <2> HIDE DEF names, step
  <2>3. job' \in Jobs
    BY <1>1, <2>1, <2>2 DEF JobInv, Jobs, ResetSteps
  <2>4. /\ job'.pc = step /\ job'.cmd = job.cmd /\ job'.todo = job.todo
        /\ job'.inactive = job.inactive /\ job'.skipped = job.skipped
        /\ job'.written = job.written /\ job'.dropped = job.dropped
        /\ job'.group = g /\ job'.names = names /\ job'.rows = job.rows
        /\ job'.errors = job.errors /\ job'.internal = job.internal /\ job'.seen = job.seen
    BY <2>1 DEF JobInv, Jobs
  <2>5. ~ job.cmd.every => \A p \in PartitionsOf(NamedBy(job)) : TopicOf[p] \in job'.names
    BY <1>2, <2>4 DEF PartitionsOf
  <2>8. job'.parts = {} /\ (~ job.cmd.every => job'.names = NamedBy(job))
    BY <1>0, <1>2, <2>1, <2>4 DEF JobInv, Jobs, Ordered
  <2>6. \A h \in Groups : job'.internal[h] # {} => job.cmd.kind \in {"streams", "application"}
    BY <2>4 DEF JobInv, Ordered
  <2>7. WithinInv(job', log) BY <2>4 DEF JobInv, WithinInv
  <2> QED BY <1>0, <2>2, <2>3, <2>4, <2>5, <2>6, <2>7, <2>8, PlanStep
<1>4. CASE cmd.every /\ Kind({"consumer"}) /\ names = {}
  <2>1. job' = [job EXCEPT !.todo = @ \ {g}] BY <1>4 DEF NextGroup
  <2>2. job' \in Jobs BY <2>1 DEF JobInv, Jobs
  <2>3. /\ job'.pc = "plan" /\ job'.cmd = job.cmd /\ job'.todo = job.todo \ {g}
        /\ job'.inactive = job.inactive /\ job'.skipped = job.skipped
        /\ job'.written = job.written /\ job'.dropped = job.dropped
        /\ job'.group = NoGroup /\ job'.names = job.names /\ job'.rows = job.rows
        /\ job'.errors = job.errors /\ job'.internal = job.internal /\ job'.seen = job.seen
        /\ job'.parts = job.parts
    BY <1>0, <2>1 DEF JobInv, Jobs
  <2>4. job.cmd.every /\ job.cmd.kind = "consumer" BY <1>4 DEF Kind, cmd
  <2>5. Ordered(job') /\ Chosen(job')
    BY <1>0, <2>3 DEF JobInv, Ordered, Chosen, Planners, Waiting, Filed
  <2>6. StoredInv(job')
    \* What is neither planned nor stored is stored as planned.
    <3>1. job.rows[g] = NoOffsets /\ job.written[g] = NoOffsets
      BY <1>0, ValueFacts DEF JobInv, StoredInv
    <3> QED BY <1>0, <2>3, <3>1 DEF JobInv, StoredInv, AsPlanned, Planners, Waiting, Filed
  <2>7. CoverInv(job', ts)
    BY <1>0, <2>3, <2>4 DEF JobInv, DropInv, CoverInv, Complete, Planners
  <2>8. DropInv(job') /\ EndingInv(job')
    BY <1>0, <2>3 DEF JobInv, DropInv, EndingInv, Filed
  <2>9. WithinInv(job', log) BY <2>3 DEF JobInv, WithinInv
  <2> QED BY <2>2, <2>5, <2>6, <2>7, <2>8, <2>9 DEF JobInv
<1> QED BY <1>3, <1>4

LEMMA ReadTopicInv ==
  ASSUME ClusterInv, NEW ts, JobInv(job, log, ts), ts = topics, NEW t, ReadTopic(t)
  PROVE  JobInv(job', log, ts)
<1>0. /\ job.pc = "plan" /\ job.pc \in Planners /\ ~ Filed(job)
      /\ job.group # NoGroup /\ job.parts = {} /\ t \in job.names
  BY DEF ReadTopic, Planning, At, Planners, FromFile, Filed, Kind, cmd
<1>1. job.group \in Groups /\ job.group \in job.todo BY <1>0 DEF JobInv, Jobs, Ordered
<1>2. PICK seen \in Readings(job.group, PartitionsOf({t})) :
        job' = IF t \in topics \/ Kind({"consumer"})
               THEN [job EXCEPT !.names = @ \ {t}, !.parts = PartitionsOf({t} \intersect topics),
                                !.seen = seen]
               ELSE End("usage")
  BY DEF ReadTopic
<1>3. CASE ~ (t \in topics \/ Kind({"consumer"}))
  BY <1>0, <1>2, <1>3, PlanningEnd
<1>4. CASE t \in topics \/ Kind({"consumer"})
  <2> DEFINE parts == PartitionsOf({t} \intersect topics)
  <2>1. job' = [job EXCEPT !.names = @ \ {t}, !.parts = parts, !.seen = seen]
    BY <1>2, <1>4
  <2>2. seen \in [Partitions -> Values] /\ \A p \in Partitions : seen[p] <= log[p].high
    BY <1>1, ReadingsWithin
  <2>3. \A p \in PartitionsOf(NamedBy(job)) :
          TopicOf[p] = t => p \in parts \/ (TopicOf[p] \notin ts /\ job.cmd.kind = "consumer")
    BY <1>4 DEF PartitionsOf, Kind, cmd
  <2>4. parts \subseteq Partitions BY DEF PartitionsOf
  <2> HIDE DEF parts
  <2>5. job' \in Jobs BY <2>1, <2>2, <2>4 DEF JobInv, Jobs
  <2>6. /\ job'.pc = "plan" /\ job'.cmd = job.cmd /\ job'.todo = job.todo
        /\ job'.inactive = job.inactive /\ job'.skipped = job.skipped
        /\ job'.written = job.written /\ job'.dropped = job.dropped
        /\ job'.group = job.group /\ job'.names = job.names \ {t} /\ job'.rows = job.rows
        /\ job'.errors = job.errors /\ job'.internal = job.internal /\ job'.seen = seen
        /\ job'.parts = parts
    BY <1>0, <2>1 DEF JobInv, Jobs
  <2>7. ~ job.cmd.every => \A p \in PartitionsOf(NamedBy(job)) :
          Covered(job', ts, job'.group, p) \/ TopicOf[p] \in job'.names \/ p \in job'.parts
    <3> HAVE ~ job.cmd.every
    <3> TAKE p \in PartitionsOf(NamedBy(job))
    <3>1. Covered(job, ts, job.group, p) \/ TopicOf[p] \in job.names
      BY <1>0 DEF JobInv, CoverInv
    <3>2. Covered(job, ts, job.group, p) => Covered(job', ts, job'.group, p)
      BY <2>6 DEF Covered, PassedOver
    <3>3. TopicOf[p] \notin ts /\ job.cmd.kind = "consumer" => Covered(job', ts, job'.group, p)
      BY <2>6 DEF Covered, PassedOver
    <3> QED BY <2>3, <2>6, <3>1, <3>2, <3>3
  <2>8. \A h \in Groups : job'.internal[h] # {} => job.cmd.kind \in {"streams", "application"}
    BY <2>6 DEF JobInv, Ordered
  <2>9. WithinInv(job', log) BY <2>2, <2>6 DEF JobInv, WithinInv
  <2>10. job'.pc \in Planners BY <2>6 DEF Planners
  <2> QED BY <1>0, <1>1, <2>5, <2>6, <2>7, <2>8, <2>9, <2>10, PlanStep
<1> QED BY <1>3, <1>4

LEMMA ReadShareInv ==
  ASSUME ClusterInv, NEW ts, JobInv(job, log, ts), ts = topics, ReadShare
  PROVE  JobInv(job', log, ts)
<1> DEFINE parts == IF cmd.every THEN {p \in Partitions : HasOffset(job.group, p)}
                    ELSE PartitionsOf(job.names)
<1>0. /\ job.pc = "read" /\ job.pc \in Planners /\ job.group # NoGroup
      /\ ~ Filed(job) /\ job.group \in job.todo
  BY DEF ReadShare, At, Planners, JobInv, Ordered
<1>1. job.group \in Groups BY <1>0 DEF JobInv, Jobs
<1>2. PICK seen \in Readings(job.group, parts) :
        job' = IF cmd.every \/ job.names \subseteq topics
               THEN [job EXCEPT !.names = {}, !.parts = parts, !.seen = seen, !.pc = "plan"]
               ELSE End("usage")
  BY DEF ReadShare
<1>3. CASE ~ (cmd.every \/ job.names \subseteq topics)
  BY <1>0, <1>2, <1>3, PlanningEnd
<1>4. CASE cmd.every \/ job.names \subseteq topics
  <2>1. job' = [job EXCEPT !.names = {}, !.parts = parts, !.seen = seen, !.pc = "plan"]
    BY <1>2, <1>4
  <2>2. seen \in [Partitions -> Values] /\ \A p \in Partitions : seen[p] <= log[p].high
    BY <1>1, ReadingsWithin
  <2>3. ~ job.cmd.every => \A p \in PartitionsOf(NamedBy(job)) : TopicOf[p] \in job.names => p \in parts
    BY DEF PartitionsOf, cmd
  <2>4. parts \subseteq Partitions BY DEF PartitionsOf
  <2> HIDE DEF parts
  <2>5. job' \in Jobs BY <2>1, <2>2, <2>4 DEF JobInv, Jobs, ResetSteps, Planners
  <2>6. /\ job'.pc = "plan" /\ job'.cmd = job.cmd /\ job'.todo = job.todo
        /\ job'.inactive = job.inactive /\ job'.skipped = job.skipped
        /\ job'.written = job.written /\ job'.dropped = job.dropped
        /\ job'.group = job.group /\ job'.names = {} /\ job'.rows = job.rows
        /\ job'.errors = job.errors /\ job'.internal = job.internal /\ job'.seen = seen
        /\ job'.parts = parts
    BY <2>1 DEF JobInv, Jobs
  <2>7. ~ job.cmd.every => \A p \in PartitionsOf(NamedBy(job)) :
          Covered(job', ts, job'.group, p) \/ TopicOf[p] \in job'.names \/ p \in job'.parts
    <3> HAVE ~ job.cmd.every
    <3> TAKE p \in PartitionsOf(NamedBy(job))
    <3>1. Covered(job, ts, job.group, p) \/ TopicOf[p] \in job.names \/ p \in job.parts
      BY <1>0 DEF JobInv, CoverInv
    <3>2. Covered(job, ts, job.group, p) => Covered(job', ts, job'.group, p)
      BY <2>6 DEF Covered, PassedOver
    <3>3. job.parts = {} BY <1>0 DEF JobInv, Ordered
    <3> QED BY <2>3, <2>6, <3>1, <3>2, <3>3
  <2>8. \A h \in Groups : job'.internal[h] # {} => job.cmd.kind \in {"streams", "application"}
    BY <2>6 DEF JobInv, Ordered
  <2>9. WithinInv(job', log) BY <2>2, <2>6 DEF JobInv, WithinInv
  <2>10. job'.pc \in Planners BY <2>6 DEF Planners
  <2> QED BY <1>0, <1>1, <2>5, <2>6, <2>7, <2>8, <2>9, <2>10, PlanStep
<1> QED BY <1>3, <1>4

LEMMA ReadApplicationInv ==
  ASSUME ClusterInv, NEW ts, JobInv(job, log, ts), ts = topics, ReadApplication
  PROVE  JobInv(job', log, ts)
<1> DEFINE parts == PartitionsOf(job.names \intersect topics)
           missing == job.names \ topics
           own == InternalOf[job.group] \intersect topics
<1>0. /\ job.pc = "read" /\ job.pc \in Planners /\ job.group # NoGroup
      /\ ~ Filed(job) /\ job.group \in job.todo /\ job.cmd.kind = "application"
  BY DEF ReadApplication, At, Planners, JobInv, Ordered, Kind, cmd
<1>1. job.group \in Groups BY <1>0 DEF JobInv, Jobs
<1>2. PICK seen \in Readings(job.group, parts) :
        job' = [job EXCEPT !.names = {}, !.parts = parts, !.seen = seen, !.pc = "plan",
                           !.errors = missing, !.internal[job.group] = own]
  BY DEF ReadApplication
<1>3. seen \in [Partitions -> Values] /\ \A p \in Partitions : seen[p] <= log[p].high
  BY <1>1, ReadingsWithin
<1>4. \A p \in PartitionsOf(NamedBy(job)) :
        TopicOf[p] \in job.names => p \in parts \/ (TopicOf[p] \notin ts /\ missing # {})
  BY DEF PartitionsOf
<1>5. parts \subseteq Partitions /\ own \subseteq Internal /\ missing \subseteq Names
  BY <1>1 DEF PartitionsOf, Internal, JobInv, Jobs
<1> HIDE DEF parts, missing, own
<1>6. job' \in Jobs
  BY <1>1, <1>2, <1>3, <1>5, ZenonT(40) DEF JobInv, Jobs, ResetSteps, Planners
<1>7. /\ job'.pc = "plan" /\ job'.cmd = job.cmd /\ job'.todo = job.todo
      /\ job'.inactive = job.inactive /\ job'.skipped = job.skipped
      /\ job'.written = job.written /\ job'.dropped = job.dropped
      /\ job'.group = job.group /\ job'.names = {} /\ job'.rows = job.rows
      /\ job'.errors = missing /\ job'.seen = seen /\ job'.parts = parts
  BY <1>2 DEF JobInv, Jobs
<1>8. ~ job.cmd.every => \A p \in PartitionsOf(NamedBy(job)) :
        Covered(job', ts, job'.group, p) \/ TopicOf[p] \in job'.names \/ p \in job'.parts
  <2> HAVE ~ job.cmd.every
  <2> TAKE p \in PartitionsOf(NamedBy(job))
  <2>1. TopicOf[p] \in job.names
    BY <1>0 DEF JobInv, Ordered, PartitionsOf
  <2>2. TopicOf[p] \notin ts /\ missing # {} => Covered(job', ts, job'.group, p)
    BY <1>0, <1>7 DEF Covered, PassedOver
  <2> QED BY <1>4, <1>7, <2>1, <2>2
<1>9. WithinInv(job', log) BY <1>3, <1>7 DEF JobInv, WithinInv
<1>10. job'.pc \in Planners BY <1>7 DEF Planners
<1> QED BY <1>0, <1>1, <1>6, <1>7, <1>8, <1>9, <1>10, PlanStep

LEMMA ReadWatermarksInv ==
  ASSUME ClusterInv, NEW ts, JobInv(job, log, ts), NEW p \in Partitions, ReadWatermarks(p)
  PROVE  JobInv(job', log, ts)
<1> DEFINE target == Target(p, log[p])
           g == job.group
<1>0. /\ job.pc = "plan" /\ job.pc \in Planners /\ ~ Filed(job) /\ ~ FromFile
      /\ g # NoGroup /\ g \in job.todo /\ p \in job.parts
  BY DEF ReadWatermarks, Planning, At, Planners, FromFile, Filed, Kind, cmd, JobInv, Ordered
<1>1. g \in Groups BY <1>0 DEF JobInv, Jobs
<1>2. CASE target = Refused
  BY <1>0, <1>2, PlanningEnd DEF ReadWatermarks
<1>3. CASE target # Refused
  <2>1. target \in Offsets /\ target <= log[p].high
    BY <1>0, <1>1, <1>3, TargetWithin
  <2>2. job' = [job EXCEPT !.parts = @ \ {p}, !.rows[job.group][p] = target]
    BY <1>3 DEF ReadWatermarks
  <2>3. target \in Values /\ target # None BY <2>1, ValueFacts DEF Values
  <2> HIDE DEF target
  <2>4. job' \in Jobs
    BY <1>1, <2>2, <2>3 DEF JobInv, Jobs, Plans
  <2>5. /\ job'.pc = "plan" /\ job'.cmd = job.cmd /\ job'.todo = job.todo
        /\ job'.inactive = job.inactive /\ job'.skipped = job.skipped
        /\ job'.written = job.written /\ job'.dropped = job.dropped
        /\ job'.group = job.group /\ job'.names = job.names
        /\ job'.errors = job.errors /\ job'.internal = job.internal /\ job'.seen = job.seen
        /\ job'.parts = job.parts \ {p}
        /\ job'.rows = [job.rows EXCEPT ![g][p] = target]
    BY <1>0, <2>2 DEF JobInv, Jobs
  <2>6. /\ \A h \in Groups : h # g => job'.rows[h] = job.rows[h]
        /\ job'.rows[g][p] = target
        /\ \A h \in Groups, q \in Partitions :
             job'.rows[h][q] \in {job.rows[h][q], IF h = g /\ q = p THEN target ELSE job.rows[h][q]}
        /\ \A q \in Partitions : q # p => job'.rows[g][q] = job.rows[g][q]
    BY <1>1, <2>5 DEF JobInv, Jobs, Plans
  <2>7. ~ job.cmd.every => \A q \in PartitionsOf(NamedBy(job)) :
          Covered(job', ts, job'.group, q) \/ TopicOf[q] \in job'.names \/ q \in job'.parts
    <3> HAVE ~ job.cmd.every
    <3> TAKE q \in PartitionsOf(NamedBy(job))
    <3>1. Covered(job, ts, g, q) \/ TopicOf[q] \in job.names \/ q \in job.parts
      BY <1>0 DEF JobInv, CoverInv
    <3>2. CASE q = p
      BY <2>3, <2>5, <2>6, <3>2 DEF Covered
    <3>3. CASE q # p
      <4>1. q \in Partitions BY DEF PartitionsOf
      <4>2. Covered(job, ts, g, q) => Covered(job', ts, g, q)
        BY <2>5, <2>6, <3>3, <4>1 DEF Covered, PassedOver
      <4> QED BY <2>5, <3>1, <3>3, <4>2
    <3> QED BY <3>2, <3>3
  <2>8. \A h \in Groups : job'.internal[h] # {} => job.cmd.kind \in {"streams", "application"}
    BY <2>5 DEF JobInv, Ordered
  <2>9. WithinInv(job', log)
    <3>1. WithinInv(job, log) BY DEF JobInv
    <3>2. \A h \in Groups, q \in Partitions : job'.rows[h][q] <= log[q].high
      <4> TAKE h \in Groups, q \in Partitions
      <4>1. CASE h = g /\ q = p BY <2>1, <2>6, <4>1
      <4>2. CASE ~ (h = g /\ q = p) BY <2>6, <3>1, <4>2 DEF WithinInv
      <4> QED BY <4>1, <4>2
    <3> QED BY <2>5, <3>1, <3>2 DEF WithinInv
  <2>10. job'.pc \in Planners /\ job'.pc # "read" BY <2>5 DEF Planners
  <2> QED BY <1>0, <1>1, <2>4, <2>5, <2>6, <2>7, <2>8, <2>9, <2>10, PlanStep
<1> QED BY <1>2, <1>3

-----------------------------------------------------------------------------
(* A plan is read from a file. *)

LEMMA OpenFileInv ==
  ASSUME NEW l, NEW ts, JobInv(job, l, ts), OpenFile PROVE JobInv(job', l, ts)
<1> DEFINE lines == {line \in Groups \X Partitions : cmd.file[line[1]][line[2]] # None}
           step == IF job.todo = {} THEN "ok" ELSE "lines"
<1>0. job.pc = "plan" /\ Filed(job) BY DEF OpenFile, At, FromFile, Filed, Kind, cmd
<1>1. /\ job.rows = NoRows /\ job.written = NoRows /\ job.dropped = {}
      /\ job.group = NoGroup
  BY <1>0 DEF JobInv, Ordered, StoredInv, DropInv
<1>2. /\ job' \in Jobs /\ job'.pc = step /\ job'.cmd = job.cmd /\ job'.todo = job.todo
      /\ job'.inactive = job.inactive /\ job'.skipped = job.skipped
      /\ job'.written = job.written /\ job'.dropped = job.dropped
      /\ job'.group = job.group /\ job'.names = job.names /\ job'.rows = job.rows
      /\ job'.internal = job.internal /\ job'.seen = job.seen /\ job'.parts = job.parts
  <2>1. CASE job.todo = {}
    BY <2>1 DEF OpenFile, End, JobInv, Jobs, ResetSteps, Endings
  <2>2. CASE job.todo # {}
    <3>1. job' = [job EXCEPT !.pc = "lines", !.lines = lines] BY <2>2 DEF OpenFile
    <3>2. lines \subseteq Groups \X Partitions OBVIOUS
    <3> HIDE DEF lines
    <3> QED BY <2>2, <3>1, <3>2 DEF JobInv, Jobs, ResetSteps
  <2> QED BY <2>1, <2>2
<1>3. Ordered(job') /\ Chosen(job')
  BY <1>0, <1>1, <1>2 DEF JobInv, Ordered, Chosen, Waiting, Planners, Filed
<1>4. StoredInv(job')
  BY <1>1, <1>2 DEF JobInv, StoredInv, Planners, Waiting
<1>5. CoverInv(job', ts) /\ DropInv(job') /\ EndingInv(job')
  BY <1>0, <1>1, <1>2 DEF CoverInv, DropInv, EndingInv, Filed
<1>6. WithinInv(job', l) BY <1>2 DEF JobInv, WithinInv
<1> QED BY <1>2, <1>3, <1>4, <1>5, <1>6 DEF JobInv

LEMMA ReadLineInv ==
  ASSUME ClusterInv, NEW ts, JobInv(job, log, ts), NEW g \in Groups, NEW p \in Partitions,
         ReadLine(g, p)
  PROVE  JobInv(job', log, ts)
<1> DEFINE target == Clamp(cmd.file[g][p], log[p])
<1>0. /\ job.pc = "lines" /\ Filed(job) /\ job.written = NoRows /\ job.dropped = {}
      /\ job.todo \subseteq job.inactive /\ job.group = NoGroup
  BY DEF ReadLine, At, JobInv, Ordered, StoredInv, DropInv, Waiting
<1>1. CASE g \notin job.todo
  BY <1>0, <1>1, EndInv DEF ReadLine
<1>2. CASE g \in job.todo
  <2>1. target \in Offsets /\ target <= log[p].high
    <3>1. log \in Logs /\ log[p].low <= log[p].high BY DEF ClusterInv, ClusterTypeOK, Logs
    <3>2. log[p] \in [low : Offsets, high : Offsets] BY <3>1, LogFacts
    <3>3. cmd.file[g][p] \in Int BY JobCommand, CommandFacts DEF cmd
    <3> QED BY <3>1, <3>2, <3>3, ClampWithin
  <2>2. job' = [job EXCEPT !.lines = @ \ {<<g, p>>}, !.rows[g][p] = target]
    BY <1>2 DEF ReadLine
  <2>3. target \in Values BY <2>1 DEF Values
  <2> HIDE DEF target
  <2>4. job' \in Jobs
    BY <2>2, <2>3 DEF JobInv, Jobs, Plans
  <2>5. /\ job'.pc = "lines" /\ job'.cmd = job.cmd /\ job'.todo = job.todo
        /\ job'.inactive = job.inactive /\ job'.skipped = job.skipped
        /\ job'.written = job.written /\ job'.dropped = job.dropped
        /\ job'.group = job.group /\ job'.names = job.names
        /\ job'.internal = job.internal /\ job'.seen = job.seen /\ job'.parts = job.parts
        /\ job'.rows = [job.rows EXCEPT ![g][p] = target]
    BY <1>0, <2>2 DEF JobInv, Jobs
  <2>6. /\ \A h \in Groups : h # g => job'.rows[h] = job.rows[h]
        /\ job'.rows[g][p] = target
        /\ \A q \in Partitions : q # p => job'.rows[g][q] = job.rows[g][q]
    BY <2>5 DEF JobInv, Jobs, Plans
  <2>7. Ordered(job') /\ Chosen(job')
    BY <1>0, <2>5 DEF JobInv, Ordered, Chosen, Waiting, Planners, Filed
  <2>8. StoredInv(job')
    <3>1. \A h \in Groups : job'.rows[h] # NoOffsets \/ job'.written[h] # NoOffsets => h \in job.inactive
      BY <1>0, <1>2, <2>5, <2>6 DEF JobInv, StoredInv
    <3> QED BY <1>0, <2>5, <3>1 DEF JobInv, StoredInv, Planners, Waiting
  <2>9. CoverInv(job', ts) /\ DropInv(job') /\ EndingInv(job')
    BY <1>0, <2>5 DEF CoverInv, DropInv, EndingInv, Filed
  <2>10. WithinInv(job', log)
    <3>1. WithinInv(job, log) BY DEF JobInv
    <3>2. \A h \in Groups, q \in Partitions : job'.rows[h][q] <= log[q].high
      <4> TAKE h \in Groups, q \in Partitions
      <4>1. CASE h = g /\ q = p BY <2>1, <2>6, <4>1
      <4>2. CASE ~ (h = g /\ q = p) BY <2>6, <3>1, <4>2 DEF WithinInv
      <4> QED BY <4>1, <4>2
    <3> QED BY <2>5, <3>1, <3>2 DEF WithinInv
  <2> QED BY <2>4, <2>7, <2>8, <2>9, <2>10 DEF JobInv
<1> QED BY <1>1, <1>2

LEMMA CloseFileInv ==
  ASSUME NEW l, NEW ts, JobInv(job, l, ts), CloseFile PROVE JobInv(job', l, ts)
<1> DEFINE groups == {g \in Groups : job.rows[g] # NoOffsets}
<1>0. job.pc = "lines" /\ Filed(job) /\ job.written = NoRows /\ job.dropped = {} /\ job.group = NoGroup
  BY DEF CloseFile, At, JobInv, Ordered, StoredInv, DropInv, Waiting
<1>1. CASE job.rows = NoRows
  BY <1>0, <1>1, EndInv DEF CloseFile
<1>2. CASE job.rows # NoRows
  <2>1. job' = [job EXCEPT !.pc = "store", !.todo = groups] BY <1>2 DEF CloseFile
  <2>2. groups \subseteq Groups /\ groups \subseteq job.inactive
    BY DEF JobInv, StoredInv
  <2>3. \A g \in Groups : g \notin groups => job.rows[g] = NoOffsets OBVIOUS
  <2> HIDE DEF groups
  <2>4. job' \in Jobs BY <2>1, <2>2 DEF JobInv, Jobs, ResetSteps
  <2>5. /\ job'.pc = "store" /\ job'.cmd = job.cmd /\ job'.todo = groups
        /\ job'.inactive = job.inactive /\ job'.skipped = job.skipped
        /\ job'.written = job.written /\ job'.dropped = job.dropped
        /\ job'.group = job.group /\ job'.names = job.names /\ job'.rows = job.rows
        /\ job'.internal = job.internal /\ job'.seen = job.seen /\ job'.parts = job.parts
    BY <2>1 DEF JobInv, Jobs
  <2>6. Ordered(job') /\ Chosen(job')
    BY <1>0, <2>2, <2>5 DEF JobInv, Ordered, Chosen, Waiting, Planners, Filed
  <2>7. StoredInv(job')
    <3>1. \A g \in Groups : NoRows[g] = NoOffsets BY DEF NoRows
    <3>2. \A g \in Groups : g \notin groups => AsPlanned(job', g)
      BY <1>0, <2>3, <2>5, <3>1 DEF AsPlanned
    <3> QED BY <1>0, <2>5, <3>1, <3>2 DEF JobInv, StoredInv, Planners, Waiting
  <2>8. CoverInv(job', ts) /\ DropInv(job') /\ EndingInv(job')
    BY <1>0, <2>5 DEF CoverInv, DropInv, EndingInv, Filed
  <2>9. WithinInv(job', l) BY <2>5 DEF JobInv, WithinInv
  <2> QED BY <2>4, <2>6, <2>7, <2>8, <2>9 DEF JobInv
<1> QED BY <1>1, <1>2

-----------------------------------------------------------------------------
(* The offsets of a group are stored, or need not be. *)

LEMMA ReadyFacts ==
  ASSUME NEW l, NEW ts, JobInv(job, l, ts), NEW g \in Groups, ReadyToStore(g)
  PROVE  /\ job.pc \in {"plan", "store"} /\ g \in job.todo /\ g \in job.inactive
         /\ job.names = {} /\ job.parts = {} /\ job.dropped = {}
         /\ job.pc = "plan" => ~ Filed(job) /\ job.group = g
         /\ job.pc = "store" => Filed(job) /\ job.group = NoGroup
<1>1. job.group = NoGroup => job.names = {} /\ job.parts = {} BY DEF JobInv, Ordered
<1>2. CASE Planning /\ job.group = g /\ job.names = {} /\ job.parts = {}
  <2>1. job.pc = "plan" /\ ~ Filed(job) /\ job.group # NoGroup
    BY <1>2, ValueFacts DEF Planning, At, FromFile, Filed, Kind, cmd
  <2> QED BY <1>2, <2>1 DEF JobInv, Ordered, DropInv
<1>3. CASE At("store") /\ g \in job.todo
  BY <1>1, <1>3 DEF At, JobInv, Ordered, DropInv
<1> QED BY <1>2, <1>3 DEF ReadyToStore

\* A group is done: it has been stored, or there was nothing to store.
LEMMA GroupDone ==
  ASSUME NEW l, NEW ts, JobInv(job, l, ts), NEW g \in Groups, ReadyToStore(g),
         job' \in Jobs, job'.pc = job.pc, job'.cmd = job.cmd, job'.todo = job.todo \ {g},
         job'.inactive = job.inactive, job'.skipped = job.skipped, job'.group = NoGroup,
         job'.names = job.names, job'.parts = job.parts, job'.seen = job.seen,
         job'.rows = job.rows, job'.internal = job.internal, job'.dropped = job.dropped,
         job'.errors = job.errors \/ (job.cmd.kind = "share" /\ job'.errors # {}),
         \A h \in Groups : h # g => job'.written[h] = job.written[h],
         \A p \in Partitions : job'.written[g][p] \in {None, job.rows[g][p]},
         job.cmd.execute => AsPlanned(job', g),
         ~ job.cmd.execute => job'.written = job.written,
         job.cmd.kind = "streams" /\ job.cmd.execute => job.rows[g] # NoOffsets
  PROVE  JobInv(job', l, ts)
<1>1. /\ job.pc \in {"plan", "store"} /\ g \in job.todo /\ g \in job.inactive
      /\ job.names = {} /\ job.parts = {} /\ job.dropped = {}
      /\ job.pc = "plan" => ~ Filed(job) /\ job.group = g
      /\ job.pc = "store" => Filed(job) /\ job.group = NoGroup
  BY ReadyFacts
<1>2. job.inactive \subseteq Groups /\ job.todo \subseteq job.inactive
  BY <1>1 DEF JobInv, Jobs, Ordered
<1>3. Ordered(job') /\ Chosen(job')
  BY <1>1 DEF JobInv, Ordered, Chosen, Waiting, Planners, Filed
<1>4. StoredInv(job')
  <2>1. \A h \in Groups : job'.rows[h] # NoOffsets \/ job'.written[h] # NoOffsets => h \in job.inactive
    BY <1>1 DEF JobInv, StoredInv
  <2>2. \A h \in Groups : h \in job'.todo => job'.written[h] = NoOffsets
    BY <1>1 DEF JobInv, StoredInv, Planners
  <2>3. \A h \in Groups : h \notin job'.todo /\ job.cmd.execute => AsPlanned(job', h)
    <3> TAKE h \in Groups
    <3> HAVE h \notin job'.todo /\ job.cmd.execute
    <3>1. CASE h # g
      <4>1. AsPlanned(job, h) BY <1>1, <3>1 DEF JobInv, StoredInv, Planners
      <4> QED BY <3>1, <4>1 DEF AsPlanned
    <3> QED BY <3>1
  <2>4. ~ job.cmd.execute => job'.written = NoRows BY DEF JobInv, StoredInv
  <2>5. job.pc \in Planners => \A h \in job'.todo : job'.rows[h] = NoOffsets
    <3>1. job.pc \in Planners => job.group = g BY <1>1 DEF Planners
    <3> QED BY <1>2, <3>1 DEF JobInv, StoredInv
  <2>6. job'.pc \notin Waiting /\ job'.pc \notin {"lines", "clean", "ok"}
    BY <1>1 DEF Waiting
  <2>7. ~ (job'.pc = "plan" /\ Filed(job')) BY <1>1 DEF Filed
  <2> QED BY <2>1, <2>2, <2>3, <2>4, <2>5, <2>6, <2>7 DEF StoredInv
<1>5. CoverInv(job', ts)
  <2>1. \A h \in Groups : Complete(job, ts, h) => Complete(job', ts, h)
    BY DEF Complete, Covered, PassedOver, NamedBy
  <2>2. ASSUME job.pc \in Planners, ~ Filed(job) PROVE Complete(job', ts, g)
    <3>1. job.pc = "plan" /\ job.group = g /\ g # NoGroup BY <1>1, <2>2, ValueFacts DEF Planners
    <3>2. ~ job.cmd.every => \A p \in PartitionsOf(NamedBy(job)) : Covered(job, ts, g, p)
      BY <1>1, <2>2, <3>1 DEF JobInv, CoverInv
    <3>3. \A p : Covered(job, ts, g, p) => Covered(job', ts, g, p)
      BY DEF Covered, PassedOver
    <3> QED BY <3>2, <3>3 DEF Complete, NamedBy
  <2>3. ASSUME job.pc \in Planners, ~ Filed(job), NEW h \in job.inactive \ job'.todo
        PROVE  Complete(job', ts, h)
    <3>1. CASE h = g BY <2>2, <2>3, <3>1
    <3>2. CASE h # g
      <4>1. Complete(job, ts, h) BY <2>3, <3>2 DEF JobInv, CoverInv
      <4> QED BY <1>2, <2>1, <4>1
    <3> QED BY <3>1, <3>2
  <2>4. job'.pc \notin {"clean", "ok"} /\ job'.dropped = {} BY <1>1
  <2>5. Filed(job') = Filed(job) BY DEF Filed
  <2> QED BY <2>3, <2>4, <2>5 DEF CoverInv
<1>6. DropInv(job') /\ EndingInv(job')
  BY <1>1 DEF DropInv, EndingInv
<1>7. WithinInv(job', l)
  <2>1. WithinInv(job, l) /\ job.rows \in Plans BY DEF JobInv, Jobs
  <2>2. \A p \in Partitions : job'.written[g][p] <= l[p].high
    <3> TAKE p \in Partitions
    <3>1. job.written[g] = NoOffsets BY <1>1 DEF JobInv, StoredInv, Planners
    <3>2. job.written[g][p] = None BY <3>1 DEF NoOffsets
    <3> QED BY <2>1, <3>2 DEF WithinInv
  <2>3. \A h \in Groups, p \in Partitions : job'.written[h][p] <= l[p].high
    <3> TAKE h \in Groups, p \in Partitions
    <3>1. CASE h = g BY <2>2, <3>1
    <3>2. CASE h # g BY <2>1, <3>2 DEF WithinInv
    <3> QED BY <3>1, <3>2
  <2> QED BY <2>1, <2>3 DEF WithinInv
<1> QED BY <1>3, <1>4, <1>5, <1>6, <1>7 DEF JobInv

LEMMA PlannedNone ==
  ASSUME NEW l, NEW ts, JobInv(job, l, ts), NEW g \in Groups
  PROVE  (Planned(g) = {}) <=> (job.rows[g] = NoOffsets)
<1>1. job.rows[g] \in [Partitions -> Values] BY DEF JobInv, Jobs, Plans
<1> QED BY <1>1 DEF Planned, NoOffsets

LEMMA SkipStoreInv ==
  ASSUME NEW l, NEW ts, JobInv(job, l, ts), NEW g \in Groups, SkipStore(g)
  PROVE  JobInv(job', l, ts)
<1>1. job' = [job EXCEPT !.todo = @ \ {g}, !.group = NoGroup] /\ ReadyToStore(g)
  BY DEF SkipStore
<1>2. job' \in Jobs BY <1>1 DEF JobInv, Jobs
<1>3. /\ job'.pc = job.pc /\ job'.cmd = job.cmd /\ job'.todo = job.todo \ {g}
      /\ job'.inactive = job.inactive /\ job'.skipped = job.skipped /\ job'.group = NoGroup
      /\ job'.names = job.names /\ job'.parts = job.parts /\ job'.seen = job.seen
      /\ job'.rows = job.rows /\ job'.internal = job.internal /\ job'.dropped = job.dropped
      /\ job'.errors = job.errors /\ job'.written = job.written
  BY <1>1 DEF JobInv, Jobs
<1>4. job.written[g] = NoOffsets
  BY <1>1, ReadyFacts DEF JobInv, StoredInv, Planners
<1>5. \A p \in Partitions : job'.written[g][p] \in {None, job.rows[g][p]}
  BY <1>3, <1>4 DEF NoOffsets
<1>6. job.cmd.execute => job.rows[g] = NoOffsets /\ job.cmd.kind # "streams"
  BY PlannedNone DEF SkipStore, Kind, cmd
<1>7. job.cmd.execute => AsPlanned(job', g)
  BY <1>3, <1>4, <1>6 DEF AsPlanned
<1> QED BY <1>1, <1>2, <1>3, <1>5, <1>6, <1>7, GroupDone

LEMMA EmptyStoreInv ==
  ASSUME NEW l, NEW ts, JobInv(job, l, ts), NEW g \in Groups, EmptyStore(g)
  PROVE  JobInv(job', l, ts)
BY EndInv DEF EmptyStore

\* What Store puts down of what was planned for g, if done is what the coordinator took.
Down(g, done) == [p \in Partitions |-> IF p \in done THEN job.rows[g][p] ELSE None]

LEMMA DownFacts ==
  ASSUME NEW l, NEW ts, JobInv(job, l, ts), NEW g \in Groups, NEW done \in SUBSET Planned(g)
  PROVE  /\ Down(g, done) \in [Partitions -> Values]
         /\ \A p \in Partitions : Down(g, done)[p] \in {None, job.rows[g][p]}
         /\ done = Planned(g) => Down(g, done) = job.rows[g]
<1>1. job.rows[g] \in [Partitions -> Values] BY DEF JobInv, Jobs, Plans
<1>2. Down(g, done) \in [Partitions -> Values] BY <1>1, ValueFacts DEF Down
<1>3. \A p \in Partitions : Down(g, done)[p] \in {None, job.rows[g][p]} BY DEF Down
<1>4. done = Planned(g) => Down(g, done) = job.rows[g] BY <1>1 DEF Down, Planned
<1> QED BY <1>2, <1>3, <1>4

\* What remains of a request that ended the command.
LEMMA StoreFailed ==
  ASSUME NEW l, NEW ts, JobInv(job, l, ts), NEW g \in Groups, ReadyToStore(g), job.cmd.execute,
         NEW down \in [Partitions -> Values],
         \A p \in Partitions : down[p] \in {None, job.rows[g][p]},
         job' = [job EXCEPT !.written[g] = down, !.pc = "failed"]
  PROVE  JobInv(job', l, ts)
<1>1. /\ job.pc \in {"plan", "store"} /\ g \in job.todo /\ g \in job.inactive
      /\ job.dropped = {}
  BY ReadyFacts
<1>2. job' \in Jobs BY DEF JobInv, Jobs, ResetSteps, Endings, Plans
<1>3. /\ job'.pc = "failed" /\ job'.cmd = job.cmd /\ job'.todo = job.todo
      /\ job'.inactive = job.inactive /\ job'.skipped = job.skipped
      /\ job'.group = job.group /\ job'.names = job.names /\ job'.rows = job.rows
      /\ job'.dropped = job.dropped /\ job'.internal = job.internal /\ job'.seen = job.seen
      /\ job'.parts = job.parts /\ job'.written = [job.written EXCEPT ![g] = down]
  BY DEF JobInv, Jobs
<1>4. /\ \A h \in Groups : h # g => job'.written[h] = job.written[h]
      /\ job'.written[g] = down
  BY <1>3 DEF JobInv, Jobs, Plans
<1>5. Ordered(job') /\ Chosen(job')
  BY <1>3 DEF JobInv, Ordered, Chosen, Waiting, Planners, Filed
<1>6. StoredInv(job')
  <2>1. \A h \in Groups : job'.rows[h] # NoOffsets \/ job'.written[h] # NoOffsets => h \in job.inactive
    BY <1>1, <1>3, <1>4 DEF JobInv, StoredInv
  <2> QED BY <1>3, <2>1 DEF StoredInv, Waiting, Planners
<1>7. CoverInv(job', ts) /\ DropInv(job') /\ EndingInv(job')
  BY <1>1, <1>3 DEF CoverInv, DropInv, EndingInv, Planners
<1>8. WithinInv(job', l)
  <2>1. WithinInv(job, l) /\ job.rows \in Plans BY DEF JobInv, Jobs
  <2>2. \A p \in Partitions : job.written[g][p] = None
    BY <1>1 DEF JobInv, StoredInv, Planners, NoOffsets
  <2>3. \A h \in Groups, p \in Partitions : job'.written[h][p] <= l[p].high
    <3> TAKE h \in Groups, p \in Partitions
    <3>1. CASE h = g BY <1>4, <2>1, <2>2, <3>1 DEF WithinInv
    <3>2. CASE h # g BY <1>4, <2>1, <3>2 DEF WithinInv
    <3> QED BY <3>1, <3>2
  <2> QED BY <1>3, <2>1, <2>3 DEF WithinInv
<1> QED BY <1>2, <1>5, <1>6, <1>7, <1>8 DEF JobInv

LEMMA StoreDone ==
  ASSUME NEW l, NEW ts, JobInv(job, l, ts), NEW g \in Groups, ReadyToStore(g), job.cmd.execute,
         Planned(g) # {},
         NEW down \in [Partitions -> Values],
         \A p \in Partitions : down[p] \in {None, job.rows[g][p]},
         NEW errs \in SUBSET (Names \union Internal \union (Groups \X Partitions)),
         job' = [job EXCEPT !.written[g] = down, !.todo = @ \ {g}, !.group = NoGroup,
                            !.errors = errs],
         \/ errs = job.errors /\ down = job.rows[g]
         \/ job.cmd.kind = "share" /\ errs # {}
  PROVE  JobInv(job', l, ts)
<1>1. job' \in Jobs BY DEF JobInv, Jobs, Plans
<1>2. /\ job'.pc = job.pc /\ job'.cmd = job.cmd /\ job'.todo = job.todo \ {g}
      /\ job'.inactive = job.inactive /\ job'.skipped = job.skipped /\ job'.group = NoGroup
      /\ job'.names = job.names /\ job'.parts = job.parts /\ job'.seen = job.seen
      /\ job'.rows = job.rows /\ job'.internal = job.internal /\ job'.dropped = job.dropped
      /\ job'.errors = errs /\ job'.written = [job.written EXCEPT ![g] = down]
  BY DEF JobInv, Jobs
<1>3. /\ \A h \in Groups : h # g => job'.written[h] = job.written[h]
      /\ job'.written[g] = down
  BY <1>2 DEF JobInv, Jobs, Plans
<1>4. AsPlanned(job', g) BY <1>2, <1>3 DEF AsPlanned
<1>5. job.rows[g] # NoOffsets BY PlannedNone
<1> QED BY <1>1, <1>2, <1>3, <1>4, <1>5, GroupDone

LEMMA StoreInv ==
  ASSUME ClusterInv, NEW ts, JobInv(job, log, ts), NEW g \in Groups, Store(g)
  PROVE  JobInv(job', log, ts)
<1>1. PICK done \in Doable(g, Planned(g)) :
        LET stored == [job EXCEPT !.written[g] =
                         [p \in Partitions |-> IF p \in done THEN job.rows[g][p] ELSE None]]
            missing == {<<g, p>> : p \in Planned(g) \ done}
        IN  \/ /\ Content(g, done)
               /\ job' = [stored EXCEPT !.todo = @ \ {g}, !.group = NoGroup]
            \/ job' = [stored EXCEPT !.pc = "failed"]
            \/ /\ Kind({"share"}) /\ missing # {}
               /\ job' = [stored EXCEPT !.todo = @ \ {g}, !.group = NoGroup, !.errors = missing]
  BY DEF Store
<1> DEFINE missing == {<<g, p>> : p \in Planned(g) \ done}
           down == Down(g, done)
<1>2. done \in SUBSET Planned(g) BY DEF Doable
<1>3. /\ down \in [Partitions -> Values]
      /\ \A p \in Partitions : down[p] \in {None, job.rows[g][p]}
      /\ done = Planned(g) => down = job.rows[g]
  BY <1>2, DownFacts
<1>4. ReadyToStore(g) /\ job.cmd.execute /\ Planned(g) # {} BY DEF Store, cmd
<1>5. \/ done = Planned(g) /\ job' = [[job EXCEPT !.written[g] = down] EXCEPT
                                          !.todo = @ \ {g}, !.group = NoGroup]
      \/ job' = [[job EXCEPT !.written[g] = down] EXCEPT !.pc = "failed"]
      \/ /\ Kind({"share"}) /\ missing # {}
         /\ job' = [[job EXCEPT !.written[g] = down] EXCEPT
                       !.todo = @ \ {g}, !.group = NoGroup, !.errors = missing]
  BY <1>1 DEF Content, Down
<1>6. missing \in SUBSET (Names \union Internal \union (Groups \X Partitions))
  BY DEF Planned
<1> HIDE DEF down, missing
<1>7. CASE done = Planned(g) /\ job' = [[job EXCEPT !.written[g] = down] EXCEPT
                                          !.todo = @ \ {g}, !.group = NoGroup]
  <2>1. job' = [job EXCEPT !.written[g] = down, !.todo = @ \ {g}, !.group = NoGroup,
                           !.errors = job.errors]
    BY <1>7 DEF JobInv, Jobs
  <2>2. job.errors \in SUBSET (Names \union Internal \union (Groups \X Partitions))
    BY DEF JobInv, Jobs
  <2> QED BY <1>3, <1>4, <1>7, <2>1, <2>2, StoreDone
<1>8. CASE job' = [[job EXCEPT !.written[g] = down] EXCEPT !.pc = "failed"]
  <2>1. job' = [job EXCEPT !.written[g] = down, !.pc = "failed"] BY <1>8 DEF JobInv, Jobs
  <2> QED BY <1>3, <1>4, <2>1, StoreFailed
<1>9. CASE /\ Kind({"share"}) /\ missing # {}
           /\ job' = [[job EXCEPT !.written[g] = down] EXCEPT
                         !.todo = @ \ {g}, !.group = NoGroup, !.errors = missing]
  <2>1. job' = [job EXCEPT !.written[g] = down, !.todo = @ \ {g}, !.group = NoGroup,
                           !.errors = missing]
    BY <1>9 DEF JobInv, Jobs
  <2>2. job.cmd.kind = "share" BY <1>9 DEF Kind, cmd
  <2> QED BY <1>3, <1>4, <1>6, <1>9, <2>1, <2>2, StoreDone
<1> QED BY <1>5, <1>7, <1>8, <1>9

-----------------------------------------------------------------------------
(* The topics of an application, and the end. *)

\* When all groups are done, all that was planned is stored, but for what a share group
\* was told failed.
LEMMA AllStored ==
  ASSUME NEW l, NEW ts, JobInv(job, l, ts), Stored
  PROVE  /\ job.pc \in {"plan", "store"} /\ job.group = NoGroup /\ job.dropped = {}
         /\ job.todo = {} /\ job.names = {} /\ job.parts = {}
         /\ job.cmd.execute => job.written = job.rows \/ (job.cmd.kind = "share" /\ job.errors # {})
         /\ ~ Filed(job) => \A g \in job.inactive : Complete(job, ts, g)
<1>1. /\ job.pc \in {"plan", "store"} /\ job.todo = {} /\ job.group = NoGroup
      /\ ~ Filed(job) => job.pc = "plan"
  BY DEF Stored, Planning, At, JobInv, Ordered, FromFile, Filed, Kind, cmd
<1>2. job.names = {} /\ job.parts = {} /\ job.dropped = {}
  BY <1>1 DEF JobInv, Ordered, DropInv
<1>3. ASSUME job.cmd.execute, ~ (job.cmd.kind = "share" /\ job.errors # {})
      PROVE  job.written = job.rows
  <2>1. \A g \in Groups : job.written[g] = job.rows[g]
    BY <1>1, <1>3 DEF JobInv, StoredInv, AsPlanned, Planners
  <2>2. job.written \in Plans /\ job.rows \in Plans BY DEF JobInv, Jobs
  <2> QED BY <2>1, <2>2 DEF Plans
<1>4. ~ Filed(job) => \A g \in job.inactive : Complete(job, ts, g)
  BY <1>1 DEF JobInv, CoverInv, Planners
<1> QED BY <1>1, <1>2, <1>3, <1>4

LEMMA StartCleanupInv ==
  ASSUME NEW l, NEW ts, JobInv(job, l, ts), StartCleanup PROVE JobInv(job', l, ts)
<1>1. job' = [job EXCEPT !.pc = "clean", !.todo = ToClean] /\ Stored /\ ToClean # {}
  BY DEF StartCleanup
<1>2. /\ job.pc \in {"plan", "store"} /\ job.group = NoGroup /\ job.dropped = {}
      /\ job.cmd.execute => job.written = job.rows \/ (job.cmd.kind = "share" /\ job.errors # {})
      /\ ~ Filed(job) => \A g \in job.inactive : Complete(job, ts, g)
  BY <1>1, AllStored
<1>3. job.cmd.execute /\ ~ Filed(job) /\ ToClean \subseteq Groups
  BY <1>1 DEF ToClean, cmd, FromFile, Filed, Kind, JobInv, Jobs
<1>4. job.cmd.kind \in {"streams", "application"}
  <2>1. PICK g \in Groups : job.internal[g] # {} BY <1>1, <1>3 DEF ToClean
  <2> QED BY <2>1 DEF JobInv, Ordered
<1>5. job' \in Jobs BY <1>1, <1>3 DEF JobInv, Jobs, ResetSteps
<1>6. /\ job'.pc = "clean" /\ job'.cmd = job.cmd
      /\ job'.inactive = job.inactive /\ job'.skipped = job.skipped
      /\ job'.group = job.group /\ job'.names = job.names /\ job'.rows = job.rows
      /\ job'.dropped = job.dropped /\ job'.internal = job.internal /\ job'.seen = job.seen
      /\ job'.parts = job.parts /\ job'.written = job.written /\ job'.errors = job.errors
  BY <1>1 DEF JobInv, Jobs
<1>7. Ordered(job') /\ Chosen(job')
  BY <1>2, <1>6 DEF JobInv, Ordered, Chosen, Waiting, Planners, Filed
<1>8. StoredInv(job')
  BY <1>2, <1>3, <1>4, <1>6 DEF JobInv, StoredInv, Waiting, Planners
<1>9. CoverInv(job', ts)
  <2>1. \A g : Complete(job, ts, g) => Complete(job', ts, g)
    BY <1>6 DEF Complete, Covered, PassedOver, NamedBy
  <2> QED BY <1>2, <1>3, <1>6, <2>1 DEF CoverInv, Planners
<1>10. DropInv(job') /\ EndingInv(job')
  BY <1>2, <1>3, <1>4, <1>6 DEF DropInv, EndingInv, Filed
<1>11. WithinInv(job', l) BY <1>6 DEF JobInv, WithinInv
<1> QED BY <1>5, <1>7, <1>8, <1>9, <1>10, <1>11 DEF JobInv

\* A step of the deletion of topics: errors are added, groups are done.
LEMMA CleanStep ==
  ASSUME NEW l, NEW ts, JobInv(job, l, ts), job.pc = "clean",
         NEW step \in {"clean", "failed"}, NEW todo \in SUBSET Groups,
         NEW drop \in SUBSET Internal, NEW errs \in SUBSET Internal,
         job' = [job EXCEPT !.pc = step, !.todo = todo, !.dropped = @ \union drop,
                            !.errors = @ \union errs]
  PROVE  JobInv(job', l, ts)
<1>1. job' \in Jobs BY DEF JobInv, Jobs, ResetSteps, Endings
<1>2. /\ job'.pc = step /\ job'.cmd = job.cmd
      /\ job'.inactive = job.inactive /\ job'.skipped = job.skipped
      /\ job'.group = job.group /\ job'.names = job.names /\ job'.rows = job.rows
      /\ job'.internal = job.internal /\ job'.seen = job.seen
      /\ job'.parts = job.parts /\ job'.written = job.written
      /\ job'.errors = job.errors \union errs
  BY DEF JobInv, Jobs
<1>3. /\ job.cmd.execute /\ ~ Filed(job) /\ job.cmd.kind \in {"streams", "application"}
      /\ job.written = job.rows /\ job.group = NoGroup
  BY DEF JobInv, DropInv, Ordered
<1>4. Ordered(job') /\ Chosen(job')
  BY <1>2, <1>3 DEF JobInv, Ordered, Chosen, Waiting, Planners, Filed
<1>5. StoredInv(job')
  BY <1>2, <1>3 DEF JobInv, StoredInv, Waiting, Planners
<1>6. CoverInv(job', ts)
  <2>1. \A g \in job.inactive : Complete(job, ts, g) BY <1>3 DEF JobInv, CoverInv
  <2>2. \A g : Complete(job, ts, g) => Complete(job', ts, g)
    BY <1>2 DEF Complete, Covered, PassedOver, NamedBy
  <2> QED BY <1>2, <2>1, <2>2 DEF CoverInv, Planners
<1>7. DropInv(job') /\ EndingInv(job')
  BY <1>2, <1>3 DEF DropInv, EndingInv, Filed
<1>8. WithinInv(job', l) BY <1>2 DEF JobInv, WithinInv
<1> QED BY <1>1, <1>4, <1>5, <1>6, <1>7, <1>8 DEF JobInv

LEMMA CleanInv ==
  ASSUME NEW l, NEW ts, JobInv(job, l, ts), NEW g \in Groups, Clean(g)
  PROVE  JobInv(job', l, ts)
<1>0. job.pc = "clean" BY DEF Clean, At
<1>1. PICK done \in SUBSET (job.internal[g] \intersect topics) :
        \/ job' = [[job EXCEPT !.dropped = @ \union done] EXCEPT
                      !.todo = @ \ {g}, !.errors = @ \union (job.internal[g] \ done)]
        \/ job' = [[job EXCEPT !.dropped = @ \union done] EXCEPT !.pc = "failed"]
  BY DEF Clean
<1>2. job.internal[g] \subseteq Internal /\ job.todo \subseteq Groups BY DEF JobInv, Jobs
<1> DEFINE left == job.internal[g] \ done
           rest == job.todo \ {g}
<1>3. done \subseteq Internal /\ left \subseteq Internal /\ rest \subseteq Groups BY <1>2
<1>4. CASE job' = [[job EXCEPT !.dropped = @ \union done] EXCEPT
                      !.todo = @ \ {g}, !.errors = @ \union (job.internal[g] \ done)]
  <2>1. job' = [job EXCEPT !.pc = "clean", !.todo = rest, !.dropped = @ \union done,
                           !.errors = @ \union left]
    BY <1>0, <1>4 DEF JobInv, Jobs
  <2> HIDE DEF left, rest
  <2> QED BY <1>0, <1>3, <2>1, CleanStep
<1>5. CASE job' = [[job EXCEPT !.dropped = @ \union done] EXCEPT !.pc = "failed"]
  <2>1. job' = [job EXCEPT !.pc = "failed", !.todo = job.todo, !.dropped = @ \union done,
                           !.errors = @ \union {}]
    BY <1>5 DEF JobInv, Jobs
  <2>2. {} \in SUBSET Internal OBVIOUS
  <2> QED BY <1>0, <1>2, <1>3, <2>1, <2>2, CleanStep
<1> QED BY <1>1, <1>4, <1>5

LEMMA FinishInv ==
  ASSUME NEW l, NEW ts, JobInv(job, l, ts), Finish PROVE JobInv(job', l, ts)
<1> DEFINE step == IF job.errors # {} /\ Kind({"share", "application"}) THEN "partial" ELSE "ok"
<1>1. job' = End(step) BY DEF Finish
<1>2. job.pc \in {"plan", "store", "clean"} /\ job.group = NoGroup
  BY AllStored DEF Finish, At, JobInv, Ordered
<1>3. /\ job.cmd.execute => job.written = job.rows \/ (job.cmd.kind = "share" /\ job.errors # {})
      /\ ~ Filed(job) => \A g \in job.inactive : Complete(job, ts, g)
  <2>1. CASE Stored BY <2>1, AllStored
  <2>2. CASE job.pc = "clean" BY <2>2 DEF JobInv, DropInv, CoverInv
  <2> QED BY <2>1, <2>2 DEF Finish, At
<1>4. step \in {"ok", "partial"} /\ (job.cmd.kind \in {"share", "application"} /\ job.errors # {} => step = "partial")
  BY DEF Kind, cmd
<1> HIDE DEF step
<1>5. job' \in Jobs BY <1>1, <1>4 DEF End, JobInv, Jobs, ResetSteps, Endings
<1>6. /\ job'.pc = step /\ job'.cmd = job.cmd /\ job'.todo = job.todo
      /\ job'.inactive = job.inactive /\ job'.skipped = job.skipped
      /\ job'.group = job.group /\ job'.names = job.names /\ job'.rows = job.rows
      /\ job'.dropped = job.dropped /\ job'.internal = job.internal /\ job'.seen = job.seen
      /\ job'.parts = job.parts /\ job'.written = job.written /\ job'.errors = job.errors
  BY <1>1 DEF End, JobInv, Jobs
<1>7. Ordered(job') /\ Chosen(job')
  BY <1>2, <1>4, <1>6 DEF JobInv, Ordered, Chosen, Waiting, Planners, Filed
<1>8. StoredInv(job')
  BY <1>3, <1>4, <1>6 DEF JobInv, StoredInv, Waiting, Planners
<1>9. CoverInv(job', ts)
  <2>1. \A g : Complete(job, ts, g) => Complete(job', ts, g)
    BY <1>6 DEF Complete, Covered, PassedOver, NamedBy
  <2> QED BY <1>3, <1>4, <1>6, <2>1 DEF CoverInv, Planners, Filed
<1>10. DropInv(job') /\ EndingInv(job')
  BY <1>4, <1>6 DEF JobInv, DropInv, EndingInv, Filed
<1>11. WithinInv(job', l) BY <1>6 DEF JobInv, WithinInv
<1> QED BY <1>5, <1>7, <1>8, <1>9, <1>10, <1>11 DEF JobInv

LEMMA FailInv ==
  ASSUME NEW l, NEW ts, JobInv(job, l, ts), Fail PROVE JobInv(job', l, ts)
BY EndInv DEF Fail

-----------------------------------------------------------------------------
(* The cluster under the steps of the commands and of its other clients. *)

LEMMA FaultCount ==
  ASSUME ClusterInv, Fault \/ faults' = faults PROVE faults' \in 0 .. MaxFaults
<1>1. MaxFaults \in Nat /\ faults \in 0 .. MaxFaults
  BY ClusterAssumption DEF ClusterInv, ClusterTypeOK
<1> QED BY <1>1 DEF Fault

LEMMA SameCluster ==
  ASSUME ClusterInv, UNCHANGED <<committed, log>>, active' \subseteq Groups,
         topics' \subseteq topics, moves' \in 0 .. MaxMoves, faults' \in 0 .. MaxFaults
  PROVE  ClusterInv'
<1>1. ClusterTypeOK' BY DEF ClusterInv, ClusterTypeOK
<1> QED BY <1>1 DEF ClusterInv

\* Offsets are changed to None, or to what lies within the log.
LEMMA CommittedWithin ==
  ASSUME ClusterInv, UNCHANGED <<active, log, topics>>, moves' \in 0 .. MaxMoves,
         faults' \in 0 .. MaxFaults, NEW g \in Groups, NEW offsets \in [Partitions -> Values],
         \A p \in Partitions : offsets[p] <= log[p].high,
         committed' = [committed EXCEPT ![g] = offsets]
  PROVE  ClusterInv'
<1>1. committed \in Plans /\ committed' \in Plans
  BY DEF ClusterInv, ClusterTypeOK, Plans, Values
<1>2. ClusterTypeOK'
  BY <1>1 DEF ClusterInv, ClusterTypeOK, Plans, Values
<1>3. \A h \in Groups, p \in Partitions : committed'[h][p] <= log[p].high
  <2> TAKE h \in Groups, p \in Partitions
  <2>1. CASE h = g BY <1>1, <2>1 DEF Plans
  <2>2. CASE h # g BY <1>1, <2>2 DEF ClusterInv, Plans
  <2> QED BY <2>1, <2>2
<1>4. \A p \in Partitions : log[p].low <= log[p].high BY DEF ClusterInv
<1> QED BY <1>2, <1>3, <1>4 DEF ClusterInv

LEMMA StoreOffsetsCluster ==
  ASSUME ClusterInv, NEW ts, JobInv(job, log, ts), NEW g \in Groups, NEW done,
         StoreOffsets(g, job.rows[g], done), faults' \in 0 .. MaxFaults
  PROVE  ClusterInv'
<1> DEFINE offsets == [p \in Partitions |-> IF p \in done THEN job.rows[g][p] ELSE committed[g][p]]
<1>1. committed \in Plans /\ job.rows \in Plans
  BY DEF ClusterInv, ClusterTypeOK, Plans, Values, JobInv, Jobs
<1>2. offsets \in [Partitions -> Values] BY <1>1 DEF Plans
<1>3. \A p \in Partitions : offsets[p] <= log[p].high
  BY DEF ClusterInv, JobInv, WithinInv
<1>4. committed' = [committed EXCEPT ![g] = offsets] BY <1>1 DEF StoreOffsets, Plans
<1>5. UNCHANGED <<active, log, topics>> /\ moves' \in 0 .. MaxMoves
  BY DEF StoreOffsets, ClusterInv, ClusterTypeOK
<1> HIDE DEF offsets
<1> QED BY <1>2, <1>3, <1>4, <1>5, CommittedWithin

LEMMA RemoveOffsetsCluster ==
  ASSUME ClusterInv, NEW g, NEW done,
         RemoveOffsets(g, done), faults' \in 0 .. MaxFaults
  PROVE  ClusterInv'
<1> DEFINE offsets == [p \in Partitions |-> IF p \in done THEN None ELSE committed[g][p]]
<1>1. committed \in Plans /\ log \in Logs
  BY DEF ClusterInv, ClusterTypeOK, Plans, Values, Logs
<1>2. UNCHANGED <<active, log, topics>> /\ moves' \in 0 .. MaxMoves
  BY DEF RemoveOffsets, ClusterInv, ClusterTypeOK
<1>3. CASE g \in Groups
  <2>1. offsets \in [Partitions -> Values] BY <1>1, <1>3, ValueFacts DEF Plans
  <2>2. \A p \in Partitions : offsets[p] <= log[p].high
    BY <1>1, <1>3, LogFacts DEF ClusterInv
  <2>3. committed' = [committed EXCEPT ![g] = offsets] BY <1>1, <1>3 DEF RemoveOffsets, Plans
  <2> HIDE DEF offsets
  <2> QED BY <1>2, <1>3, <2>1, <2>2, <2>3, CommittedWithin
<1>4. CASE g \notin Groups
  <2>1. committed' = committed BY <1>1, <1>4 DEF RemoveOffsets, Plans
  <2>2. active \subseteq Groups BY DEF ClusterInv, ClusterTypeOK
  <2> QED BY <1>2, <2>1, <2>2, SameCluster
<1> QED BY <1>3, <1>4

\* A step of the cluster: logs grow, topics go.
ClusterStep ==
  /\ ClusterInv' /\ log' \in Logs /\ topics' \subseteq topics
  /\ \A p \in Partitions : log[p].high <= log'[p].high

LEMMA SameLogs ==
  ASSUME ClusterInv, ClusterInv', log' = log, topics' \subseteq topics PROVE ClusterStep
<1>1. log \in Logs BY DEF ClusterInv, ClusterTypeOK, Logs
<1>2. \A p \in Partitions : log[p].high \in Nat BY <1>1, LogFacts
<1> QED BY <1>1, <1>2 DEF ClusterStep

LEMMA StillCluster ==
  ASSUME ClusterInv, UNCHANGED cluster, Fault \/ faults' = faults PROVE ClusterStep
<1>1. faults' \in 0 .. MaxFaults BY FaultCount
<1>2. UNCHANGED <<committed, log>> /\ active' = active /\ topics' = topics /\ moves' = moves
  BY DEF cluster
<1>3. active \subseteq Groups /\ moves \in 0 .. MaxMoves BY DEF ClusterInv, ClusterTypeOK
<1>4. ClusterInv' BY <1>1, <1>2, <1>3, SameCluster
<1> QED BY <1>2, <1>4, SameLogs

LEMMA OthersStep == ASSUME ClusterInv, Others PROVE ClusterStep /\ topics' = topics
<1>0. /\ log \in Logs /\ committed \in Plans /\ active \subseteq Groups
      /\ moves \in 0 .. MaxMoves /\ faults \in 0 .. MaxFaults
      /\ MaxOffset \in Nat /\ MaxMoves \in Nat
      /\ topics \subseteq Topics \union Internal
      /\ \A p \in Partitions : log[p].low <= log[p].high
      /\ \A g \in Groups, p \in Partitions : committed[g][p] <= log[p].high
  BY ClusterAssumption DEF ClusterInv, ClusterTypeOK, Plans, Values, Logs
<1>1. moves' \in 0 .. MaxMoves /\ faults' = faults /\ topics' = topics
  BY <1>0 DEF Others, Produce, Retain, Join, Leave, Commit, Move
<1>2. ASSUME NEW p \in Partitions, Produce(p) \/ Retain(p) PROVE ClusterStep
  <2>1. /\ log[p] \in [low : Offsets, high : Offsets] /\ log[p].low \in Nat /\ log[p].high \in Nat
        /\ log[p].low \in Offsets /\ log[p].high \in Offsets
    BY <1>0, LogFacts
  <2>2. PICK m \in [low : Offsets, high : Offsets] :
          log' = [log EXCEPT ![p] = m] /\ m.low <= m.high /\ log[p].high <= m.high
    <3>1. CASE Produce(p)
      <4>1. log' = [log EXCEPT ![p] = [log[p] EXCEPT !.high = @ + 1]] /\ log[p].high < MaxOffset
        BY <1>0, <3>1 DEF Produce, Logs
      <4>2. log[p].high + 1 \in Offsets BY <1>0, <2>1, <4>1 DEF Offsets
      <4> DEFINE m == [log[p] EXCEPT !.high = @ + 1]
      <4>3. /\ m \in [low : Offsets, high : Offsets] /\ m.low = log[p].low
            /\ m.high = log[p].high + 1
        BY <2>1, <4>2
      <4>4. log[p].low <= log[p].high BY <1>0
      <4> HIDE DEF m
      <4>5. log' = [log EXCEPT ![p] = m] BY <4>1 DEF m
      <4>6. m.low <= m.high /\ log[p].high <= m.high BY <2>1, <4>3, <4>4
      <4>7. m \in [low : Offsets, high : Offsets] BY <4>3
      <4> QED BY <4>5, <4>6, <4>7
    <3>2. CASE Retain(p)
      <4>1. log' = [log EXCEPT ![p] = [log[p] EXCEPT !.low = @ + 1]] /\ log[p].low < log[p].high
        BY <1>0, <3>2 DEF Retain, Logs
      <4>2. log[p].low + 1 \in Offsets BY <1>0, <2>1, <4>1 DEF Offsets
      <4> DEFINE m == [log[p] EXCEPT !.low = @ + 1]
      <4>3. /\ m \in [low : Offsets, high : Offsets] /\ m.low = log[p].low + 1
            /\ m.high = log[p].high
        BY <2>1, <4>2
      <4> HIDE DEF m
      <4>4. log' = [log EXCEPT ![p] = m] BY <4>1 DEF m
      <4>6. m.low <= m.high /\ log[p].high <= m.high BY <2>1, <4>1, <4>3
      <4>7. m \in [low : Offsets, high : Offsets] BY <4>3
      <4> QED BY <4>4, <4>6, <4>7
    <3> QED BY <1>2, <3>1, <3>2
  <2>3. log' \in Logs BY <1>0, <2>2 DEF Logs
  <2>4. \A q \in Partitions : log'[q] = IF q = p THEN m ELSE log[q] BY <1>0, <2>2 DEF Logs
  <2>5. \A q \in Partitions : log'[q].low <= log'[q].high /\ log[q].high <= log'[q].high
    <3> TAKE q \in Partitions
    <3>1. log[q].high \in Nat BY <1>0, LogFacts
    <3> QED BY <1>0, <2>2, <2>4, <3>1
  <2>6. active' = active /\ committed' = committed BY <1>2 DEF Produce, Retain
  <2>7. \A g \in Groups, q \in Partitions : committed'[g][q] <= log'[q].high
    <3> TAKE g \in Groups, q \in Partitions
    <3>1. log[q].high \in Nat /\ log'[q].high \in Nat BY <1>0, <2>3, LogFacts
    <3>2. committed[g][q] \in Int BY <1>0, PlanValue
    <3> QED BY <1>0, <2>5, <2>6, <3>1, <3>2
  <2>8. ClusterTypeOK'
    BY <1>0, <1>1, <2>3, <2>6 DEF ClusterTypeOK, Logs, Plans, Values
  <2> QED BY <1>1, <2>3, <2>5, <2>7, <2>8 DEF ClusterStep, ClusterInv
<1>3. ASSUME NEW g \in Groups, Join(g) \/ Leave(g) PROVE ClusterStep
  <2>1. UNCHANGED <<committed, log>> /\ active' \subseteq Groups
    BY <1>0, <1>3 DEF Join, Leave
  <2>2. ClusterInv' BY <1>0, <1>1, <2>1, SameCluster
  <2> QED BY <1>1, <2>1, <2>2, SameLogs
<1>4. ASSUME NEW g \in Groups, NEW p \in Partitions, Commit(g, p) PROVE ClusterStep
  <2> DEFINE offsets == [committed[g] EXCEPT ![p] = log[p].high]
  <2>1. log[p].high \in Values BY <1>0, LogFacts DEF Values
  <2>2. committed[g] \in [Partitions -> Values] BY <1>0 DEF Plans
  <2>3. offsets \in [Partitions -> Values] BY <2>1, <2>2
  <2>4. \A q \in Partitions : offsets[q] <= log[q].high
    <3> TAKE q \in Partitions
    <3>1. log[q].high \in Nat BY <1>0, LogFacts
    <3> QED BY <1>0, <2>2, <3>1
  <2>5. committed' = [committed EXCEPT ![g] = offsets] BY <1>4 DEF Commit
  <2>6. UNCHANGED <<active, log, topics>> BY <1>1, <1>4 DEF Commit
  <2> HIDE DEF offsets
  <2>7. ClusterInv' BY <1>0, <1>1, <2>3, <2>4, <2>5, <2>6, CommittedWithin
  <2> QED BY <2>6, <2>7, SameLogs
<1> QED BY <1>1, <1>2, <1>3, <1>4 DEF Others

-----------------------------------------------------------------------------
(* The steps of a reset. *)

LEMMA ResetStepCluster ==
  ASSUME ClusterInv, JobInv(job, log, topics), ResetStep PROVE ClusterStep
<1>1. ASSUME NEW g \in Groups, Evict(g) PROVE ClusterStep
  <2>1. /\ UNCHANGED <<committed, log>> /\ active' \subseteq active /\ topics' = topics
        /\ moves' = moves /\ (Fault \/ faults' = faults)
    BY <1>1 DEF Evict
  <2>2. active \subseteq Groups /\ moves \in 0 .. MaxMoves BY DEF ClusterInv, ClusterTypeOK
  <2>3. faults' \in 0 .. MaxFaults BY <2>1, FaultCount
  <2>4. ClusterInv' BY <2>1, <2>2, <2>3, SameCluster
  <2> QED BY <2>1, <2>4, SameLogs
<1>2. ASSUME NEW g \in Groups, Store(g) PROVE ClusterStep
  <2>1. /\ \E done : StoreOffsets(g, job.rows[g], done)
        /\ Fault \/ faults' = faults
    BY <1>2 DEF Store
  <2>2. faults' \in 0 .. MaxFaults BY <2>1, FaultCount
  <2>3. ClusterInv' BY <2>1, <2>2, StoreOffsetsCluster
  <2> QED BY <2>1, <2>3, SameLogs DEF StoreOffsets
<1>3. ASSUME NEW g \in Groups, Clean(g) PROVE ClusterStep
  <2>1. /\ \E done : DropTopics(done)
        /\ Fault \/ faults' = faults
    BY <1>3 DEF Clean
  <2>2. faults' \in 0 .. MaxFaults BY <2>1, FaultCount
  <2>3. /\ UNCHANGED <<committed, log>> /\ active' = active /\ topics' \subseteq topics
        /\ moves' = moves
    BY <2>1 DEF DropTopics
  <2>4. active \subseteq Groups /\ moves \in 0 .. MaxMoves BY DEF ClusterInv, ClusterTypeOK
  <2>5. ClusterInv' BY <2>2, <2>3, <2>4, SameCluster
  <2> QED BY <2>3, <2>5, SameLogs
<1>4. CASE UNCHANGED cluster /\ (Fault \/ faults' = faults)
  BY <1>4, StillCluster
<1>5. CASE \/ Fail \/ SelectGroups \/ ListStates \/ Classified \/ OpenFile \/ CloseFile
           \/ ReadShare \/ ReadApplication \/ StartCleanup \/ Finish
  BY <1>4, <1>5 DEF Fail, SelectGroups, ListStates, Classified, OpenFile, CloseFile,
     ReadShare, ReadApplication, StartCleanup, Finish
<1>6. ASSUME NEW g \in Groups,
             \/ DescribeStreams(g) \/ DescribeShare(g) \/ DescribeApplication(g)
             \/ NextGroup(g) \/ SkipStore(g) \/ EmptyStore(g)
      PROVE  ClusterStep
  BY <1>4, <1>6 DEF DescribeStreams, DescribeShare, DescribeApplication, NextGroup,
     SkipStore, EmptyStore
<1>7. ASSUME NEW t, ReadTopic(t) PROVE ClusterStep
  BY <1>4, <1>7 DEF ReadTopic
<1>8. ASSUME NEW p \in Partitions, ReadWatermarks(p) PROVE ClusterStep
  BY <1>4, <1>8 DEF ReadWatermarks
<1>9. ASSUME NEW g \in Groups, NEW p \in Partitions, ReadLine(g, p) PROVE ClusterStep
  BY <1>4, <1>9 DEF ReadLine
<1> QED BY <1>1, <1>2, <1>3, <1>5, <1>6, <1>7, <1>8, <1>9 DEF ResetStep

LEMMA ResetStepInv ==
  ASSUME ClusterInv, JobInv(job, log, topics), ResetStep PROVE JobInv(job', log, topics)
<1>1. CASE Fail BY <1>1, FailInv
<1>2. CASE SelectGroups BY <1>2, SelectGroupsInv
<1>3. CASE ListStates BY <1>3, ListStatesInv
<1>4. CASE Classified BY <1>4, ClassifiedInv
<1>5. CASE OpenFile BY <1>5, OpenFileInv
<1>6. CASE CloseFile BY <1>6, CloseFileInv
<1>7. CASE ReadShare BY <1>7, ReadShareInv
<1>8. CASE ReadApplication BY <1>8, ReadApplicationInv
<1>9. CASE StartCleanup BY <1>9, StartCleanupInv
<1>10. CASE Finish BY <1>10, FinishInv
<1>11. ASSUME NEW g \in Groups,
              \/ DescribeStreams(g) \/ DescribeShare(g) \/ DescribeApplication(g) \/ Evict(g)
       PROVE  JobInv(job', log, topics)
  BY <1>11, DescribeStreamsInv, DescribeShareInv, DescribeApplicationInv, EvictInv
<1>12. ASSUME NEW g \in Groups, NextGroup(g) \/ SkipStore(g) \/ EmptyStore(g)
       PROVE  JobInv(job', log, topics)
  BY <1>12, NextGroupInv, SkipStoreInv, EmptyStoreInv
<1>13. ASSUME NEW g \in Groups, Store(g) \/ Clean(g) PROVE JobInv(job', log, topics)
  BY <1>13, StoreInv, CleanInv
<1>14. ASSUME NEW t, ReadTopic(t) PROVE JobInv(job', log, topics)
  BY <1>14, ReadTopicInv
<1>15. ASSUME NEW p \in Partitions, ReadWatermarks(p) PROVE JobInv(job', log, topics)
  BY <1>15, ReadWatermarksInv
<1>16. ASSUME NEW g \in Groups, NEW p \in Partitions, ReadLine(g, p)
       PROVE  JobInv(job', log, topics)
  BY <1>16, ReadLineInv
<1> QED BY <1>1, <1>2, <1>3, <1>4, <1>5, <1>6, <1>7, <1>8, <1>9, <1>10, <1>11, <1>12,
           <1>13, <1>14, <1>15, <1>16 DEF ResetStep

-----------------------------------------------------------------------------
(* The steps of a deletion. *)

LEMMA DeleteStepCluster == ASSUME ClusterInv, DeleteStep PROVE ClusterStep
<1>1. CASE UNCHANGED cluster /\ (Fault \/ faults' = faults)
  BY <1>1, StillCluster
<1>2. ASSUME NEW g, NEW done, RemoveOffsets(g, done), Fault \/ faults' = faults PROVE ClusterStep
  <2>1. faults' \in 0 .. MaxFaults BY <1>2, FaultCount
  <2>2. ClusterInv' BY <1>2, <2>1, RemoveOffsetsCluster
  <2> QED BY <1>2, <2>2, SameLogs DEF RemoveOffsets
<1>3. ASSUME NEW done, DropTopics(done), Fault \/ faults' = faults PROVE ClusterStep
  <2>1. faults' \in 0 .. MaxFaults BY <1>3, FaultCount
  <2>2. /\ UNCHANGED <<committed, log>> /\ active' = active /\ topics' \subseteq topics
        /\ moves' = moves
    BY <1>3 DEF DropTopics
  <2>3. active \subseteq Groups /\ moves \in 0 .. MaxMoves BY DEF ClusterInv, ClusterTypeOK
  <2>4. ClusterInv' BY <2>1, <2>2, <2>3, SameCluster
  <2> QED BY <2>2, <2>4, SameLogs
<1>4. CASE DeleteTopics
  <2>1. \E done : DropTopics(done) /\ (Fault \/ faults' = faults) BY <1>4 DEF DeleteTopics
  <2> QED BY <1>3, <2>1
<1>5. CASE DeleteOffsets
  <2>1. \E done : RemoveOffsets(TheGroup, done) /\ (Fault \/ faults' = faults)
    BY <1>5 DEF DeleteOffsets
  <2> QED BY <1>2, <2>1
<1>6. ASSUME NEW g \in Groups, DeleteGroup(g) PROVE ClusterStep
  <2>1. \/ RemoveOffsets(g, Partitions) /\ (Fault \/ faults' = faults)
        \/ UNCHANGED cluster /\ (Fault \/ faults' = faults)
    BY <1>6 DEF DeleteGroup
  <2> QED BY <1>1, <1>2, <2>1
<1>7. CASE Break \/ List \/ Described \/ Conclude \/ ListCommitted \/ SelectPartitions
  BY <1>1, <1>7 DEF Break, List, Described, Conclude, ListCommitted, SelectPartitions
<1>8. ASSUME NEW g \in Groups, Describe(g) \/ Refuse(g) \/ ShowGroup(g) PROVE ClusterStep
  BY <1>1, <1>8 DEF Describe, Refuse, ShowGroup
<1> QED BY <1>4, <1>5, <1>6, <1>7, <1>8 DEF DeleteStep

\* What the steps that only report leave alone.
LEMMA SameLists ==
  ASSUME ListsInv(work), work'.idle = work.idle, work'.listed = work.listed,
         work'.removed = work.removed, work'.parts = work.parts,
         work'.pc \notin {"list", "describe", "committed", "select"}
  PROVE  ListsInv(work')
BY DEF ListsInv

LEMMA StopLists ==
  ASSUME WorkInv(work), ListsInv(work), NEW how, how \notin {"list", "describe", "committed", "select"},
         work' = Stop(how)
  PROVE  ListsInv(work')
<1>1. /\ work'.idle = work.idle /\ work'.listed = work.listed /\ work'.pc = how
      /\ work'.removed = work.removed /\ work'.parts = work.parts
  BY DEF Stop, WorkInv, Works
<1> QED BY <1>1, SameLists

LEMMA DeleteStepLists ==
  ASSUME WorkInv(work), ListsInv(work), DeleteStep PROVE ListsInv(work')
<1>0. work \in Works BY DEF WorkInv
<1>1. CASE Break \/ Described \/ Conclude
  BY <1>1, StopLists DEF Break, Described, Conclude
<1>2. CASE List
  <2> DEFINE existing == {g \in Groups : Exists(g)}
             groups == IF order.all THEN existing ELSE order.groups
             step == IF Of({"consumer"}) THEN "delete" ELSE "describe"
  <2>1. CASE groups = {} BY <1>2, <2>1, StopLists DEF List
  <2>2. CASE groups # {}
    <3>1. work' = [work EXCEPT !.todo = groups, !.asked = groups \intersect existing,
                               !.listed = groups \intersect existing, !.pc = step]
      BY <1>2, <2>2 DEF List
    <3>2. step \in {"delete", "describe"} OBVIOUS
    <3>3. work.idle = {} BY <1>2 DEF List, Doing, ListsInv
    <3> HIDE DEF groups, existing, step
    <3> QED BY <1>0, <3>1, <3>2, <3>3 DEF ListsInv, Works
  <2> QED BY <2>1, <2>2
<1>3. ASSUME NEW g \in Groups, Describe(g) PROVE ListsInv(work')
  <2> DEFINE own == IF order.internal THEN InternalOf[g] ELSE {}
  <2>1. work.pc = "describe" /\ g \in work.asked /\ work.asked \subseteq work.listed
    BY <1>3 DEF Describe, Doing, ListsInv
  <2>2. CASE ~ Exists(g) BY <1>3, <2>2, StopLists DEF Describe
  <2>3. CASE Exists(g) /\ Inactive(g)
    <3>1. work' = [work EXCEPT !.asked = @ \ {g}, !.idle = @ \union {g}, !.topology[g] = own]
      BY <1>3, <2>3 DEF Describe
    <3> HIDE DEF own
    <3> QED BY <1>0, <2>1, <3>1 DEF ListsInv, Works
  <2>4. CASE Exists(g) /\ ~ Inactive(g)
    <3>1. work' = [work EXCEPT !.asked = @ \ {g}] BY <1>3, <2>4 DEF Describe
    <3> QED BY <1>0, <2>1, <3>1 DEF ListsInv, Works
  <2> QED BY <2>2, <2>3, <2>4
<1>4. ASSUME NEW g \in Groups, Refuse(g) \/ ShowGroup(g) PROVE ListsInv(work')
  <2>1. \E todo, rows : work' = [work EXCEPT !.todo = todo, !.rows = rows]
    BY <1>4 DEF Refuse, ShowGroup
  <2>2. work.pc = "delete" BY <1>4 DEF Refuse, ShowGroup, Doing
  <2> QED BY <1>0, <2>1, <2>2, SameLists DEF Works
<1>5. ASSUME NEW g \in Groups, DeleteGroup(g) PROVE ListsInv(work')
  <2> DEFINE rest == [work EXCEPT !.todo = @ \ {g}]
             told(status) == [rest EXCEPT !.rows = @ \union {Row(g, status)},
                                      !.asked = TopicsToDelete(g, status),
                                      !.pc = IF TopicsToDelete(g, status) = {}
                                             THEN "delete" ELSE "topics"]
  <2>1. \/ work' = [told(Deleted) EXCEPT !.gone = @ \union {g}]
        \/ work' = told(Failed)
        \/ work' = [rest EXCEPT !.pc = "failed"]
    BY <1>5 DEF DeleteGroup
  <2>2. /\ work'.idle = work.idle /\ work'.listed = work.listed
        /\ work'.removed = work.removed /\ work'.parts = work.parts
        /\ work'.pc \in {"delete", "topics", "failed"}
    BY <1>0, <2>1 DEF Works
  <2> QED BY <2>2, SameLists
<1>6. CASE DeleteTopics
  <2>1. PICK done :
          LET after == [work EXCEPT !.dropped = @ \union done]
              rows == {Row(t, IF t \in done THEN Deleted ELSE Failed) : t \in work.asked}
          IN  \/ work' = [after EXCEPT !.rows = @ \union rows, !.pc = "delete", !.asked = {}]
              \/ work' = [after EXCEPT !.pc = "failed"]
    BY <1>6 DEF DeleteTopics
  <2>2. /\ work'.idle = work.idle /\ work'.listed = work.listed
        /\ work'.removed = work.removed /\ work'.parts = work.parts
        /\ work'.pc \in {"delete", "failed"}
    BY <1>0, <2>1 DEF Works
  <2> QED BY <2>2, SameLists
<1>7. CASE ListCommitted
  <2> DEFINE some == {p \in Partitions : HasOffset(TheGroup, p)}
  <2>1. CASE Of({"streams"})
    <3>1. work' = [work EXCEPT !.asked = some, !.pc = "select"]
      BY <1>7, <2>1 DEF ListCommitted
    <3>2. some \subseteq Partitions OBVIOUS
    <3>3. work.removed = {} BY <1>7 DEF ListCommitted, Doing, ListsInv
    <3> HIDE DEF some
    <3> QED BY <1>0, <3>1, <3>2, <3>3 DEF ListsInv, Works
  <2>2. CASE ~ Of({"streams"})
    <3>1. work' = [work EXCEPT !.pc = "select"] BY <1>7, <2>2 DEF ListCommitted, Stop
    <3>2. work.asked = {} /\ work.removed = {} BY <1>7 DEF ListCommitted, Doing, ListsInv
    <3> QED BY <1>0, <3>1, <3>2 DEF ListsInv, Works
  <2> QED BY <2>1, <2>2
<1>8. CASE SelectPartitions
  <2> DEFINE parts == IF order.every THEN work.asked ELSE PartitionsOf(order.names)
             rows == {Row(p, Preview) : p \in parts}
  <2>1. parts \subseteq Partitions
    BY <1>8 DEF SelectPartitions, Doing, ListsInv, PartitionsOf
  <2>2. \/ work' = Stop("failed") \/ work' = Stop("usage")
        \/ work' = [work EXCEPT !.parts = parts, !.pc = "remove"]
        \/ work' = [work EXCEPT !.rows = rows, !.pc = "ok"]
    BY <1>8 DEF SelectPartitions
  <2>3. work.removed = {} BY <1>8 DEF SelectPartitions, Doing, ListsInv
  <2> HIDE DEF parts, rows
  <2>4. CASE work' = Stop("failed") \/ work' = Stop("usage") BY <2>4, StopLists
  <2>5. CASE work' = [work EXCEPT !.parts = parts, !.pc = "remove"]
    BY <1>0, <2>1, <2>3, <2>5 DEF ListsInv, Works
  <2>6. CASE work' = [work EXCEPT !.rows = rows, !.pc = "ok"]
    BY <1>0, <2>6 DEF ListsInv, Works
  <2> QED BY <2>2, <2>4, <2>5, <2>6
<1>9. CASE DeleteOffsets
  <2>1. PICK done \in Doable(TheGroup, work.parts) :
          LET after == [work EXCEPT !.removed = done]
              told(ps) == {Row(p, Deleted) : p \in ps}
              missed == {Row(p, Failed) : p \in work.parts \ done}
          IN  \/ work' = [after EXCEPT !.pc = "failed"]
              \/ work' = [after EXCEPT !.pc = "ok",
                                       !.rows = IF Of({"streams"}) THEN told(work.parts) ELSE {}]
              \/ work' = [after EXCEPT !.rows = told(done) \union missed,
                                       !.pc = IF missed = {} THEN "ok" ELSE "partial"]
    BY <1>9 DEF DeleteOffsets
  <2>2. done \subseteq work.parts BY DEF Doable
  <2>3. /\ work'.idle = work.idle /\ work'.listed = work.listed
        /\ work'.removed = done /\ work'.parts = work.parts
        /\ work'.pc \in {"failed", "ok", "partial"}
    BY <1>0, <2>1 DEF Works
  <2> QED BY <2>2, <2>3 DEF ListsInv
<1> QED BY <1>1, <1>2, <1>3, <1>4, <1>5, <1>6, <1>7, <1>8, <1>9 DEF DeleteStep

-----------------------------------------------------------------------------
(* The invariant and what follows from it. *)

LEMMA BeginLists ==
  /\ ListsInv(NoWork)
  /\ \A c \in Deletions : Order(c) => ListsInv(work')
<1>1. ListsInv(NoWork) BY DEF ListsInv, NoWork
<1>2. ASSUME NEW c \in Deletions, Order(c) PROVE ListsInv(work')
  <2> DEFINE step == IF c.offsets THEN "committed" ELSE "list"
  <2>1. work' = [NoWork EXCEPT !.cmd = c, !.pc = step] BY <1>2 DEF Order
  <2>2. step \in {"committed", "list"} OBVIOUS
  <2> HIDE DEF step
  <2> QED BY <2>1, <2>2 DEF ListsInv, NoWork
<1> QED BY <1>1, <1>2

LEMMA ResetInit == Init => ResetInv
<1> SUFFICES ASSUME Init PROVE ResetInv OBVIOUS
<1>1. Starts \subseteq Plans
  <2>1. {-1, 0, 1} \subseteq Values BY ValueFacts DEF Values
  <2>2. [Partitions -> {-1, 0, 1}] \subseteq [Partitions -> Values] BY <2>1
  <2>3. [Groups -> [Partitions -> {-1, 0, 1}]] \subseteq Plans BY <2>2 DEF Plans
  <2> QED BY <2>3, ClusterAssumption
<1>2. \A g \in Groups, p \in Partitions : committed[g][p] <= 1
  BY ClusterAssumption DEF Init, ClusterInit
<1>3. log \in Logs /\ \A p \in Partitions : log[p].low = 0 /\ log[p].high = 1
  BY ValueFacts DEF Init, ClusterInit, Logs
<1>4. committed \in Plans BY <1>1 DEF Init, ClusterInit
<1>5. ClusterTypeOK
  BY <1>3, <1>4, ClusterAssumption DEF Init, ClusterInit, ClusterTypeOK, Logs, Plans, Values
<1>6. ClusterInv BY <1>2, <1>3, <1>5 DEF ClusterInv
<1>7. JobInv(job, log, topics) BY <1>3, NoJobInv DEF Init
<1>8. runs \in 0 .. MaxRuns BY RunsAssumption DEF Init
<1> QED BY <1>6, <1>7, <1>8, NoWorkInv, BeginLists DEF ResetInv, Init

LEMMA ResetNext == ResetInv /\ [Next]_vars => ResetInv'
<1> SUFFICES ASSUME ResetInv, [Next]_vars PROVE ResetInv' OBVIOUS
<1>0. /\ ClusterInv /\ JobInv(job, log, topics) /\ WorkInv(work) /\ ListsInv(work)
      /\ runs \in 0 .. MaxRuns /\ log \in Logs
  BY DEF ResetInv, ClusterInv, ClusterTypeOK, Logs
<1>1. CASE Run
  <2>1. runs' \in 0 .. MaxRuns BY <1>0, <1>1, RunsAssumption DEF Run
  <2>2. ASSUME NEW c \in Resets, Reset(c) PROVE ResetInv'
    <3>1. ClusterStep BY <1>0, <2>2, StillCluster DEF Reset, Begin
    <3>2. JobInv(job', log', topics') BY <2>2, <3>1, BeginInv DEF Reset, ClusterStep
    <3>3. WorkInv(work') /\ ListsInv(work') BY <2>2, NoWorkInv, BeginLists DEF Reset
    <3> QED BY <2>1, <3>1, <3>2, <3>3 DEF ResetInv, ClusterStep
  <2>3. ASSUME NEW c \in Deletions, Delete(c) PROVE ResetInv'
    <3>1. ClusterStep BY <1>0, <2>3, StillCluster DEF Delete, Order
    <3>2. JobInv(job', log', topics') BY <2>3, <3>1, NoJobInv DEF Delete, ClusterStep
    <3>3. WorkInv(work') /\ ListsInv(work') BY <2>3, OrderInv, BeginLists DEF Delete
    <3> QED BY <2>1, <3>1, <3>2, <3>3 DEF ResetInv, ClusterStep
  <2> QED BY <1>1, <2>2, <2>3 DEF Run
<1>2. CASE Others /\ UNCHANGED <<job, work, runs>>
  <2>1. ClusterStep BY <1>0, <1>2, OthersStep
  <2>2. JobInv(job, log', topics') BY <1>0, <2>1, ClusterMoves DEF ClusterStep
  <2> QED BY <1>0, <1>2, <2>1, <2>2 DEF ResetInv, ClusterStep
<1>3. CASE ResetStep /\ UNCHANGED <<work, runs>>
  <2>1. ClusterStep BY <1>0, <1>3, ResetStepCluster
  <2>2. JobInv(job', log, topics) BY <1>0, <1>3, ResetStepInv
  <2>3. JobInv(job', log', topics') BY <1>0, <2>1, <2>2, ClusterMoves DEF ClusterStep
  <2> QED BY <1>0, <1>3, <2>1, <2>3 DEF ResetInv, ClusterStep
<1>4. CASE DeleteStep /\ UNCHANGED <<job, runs>>
  <2>1. ClusterStep BY <1>0, <1>4, DeleteStepCluster
  <2>2. JobInv(job, log', topics') BY <1>0, <2>1, ClusterMoves DEF ClusterStep
  <2>3. WorkInv(work') /\ ListsInv(work') BY <1>0, <1>4, DeleteStepInv, DeleteStepLists
  <2> QED BY <1>4, <2>1, <2>2, <2>3 DEF ResetInv, ClusterStep
<1>5. CASE UNCHANGED vars
  <2>1. UNCHANGED <<active, committed, log, topics, moves, faults, job, work, runs>>
    BY <1>5 DEF vars, cluster
  <2>2. ClusterStep BY <1>0, <2>1, StillCluster DEF cluster
  <2> QED BY <1>0, <2>1, <2>2 DEF ResetInv, ClusterStep
<1> QED BY <1>1, <1>2, <1>3, <1>4, <1>5 DEF Next

LEMMA ResetInvariant == Spec => []ResetInv
BY ResetInit, ResetNext, PTL DEF Spec

\* The types of the cluster's variables and of the two commands' state.
THEOREM ResetTypes == Spec => []TypeOK
<1>1. ResetInv => TypeOK
  <2> SUFFICES ASSUME ResetInv PROVE TypeOK OBVIOUS
  <2>1. ClusterTypeOK /\ runs \in 0 .. MaxRuns BY DEF ResetInv, ClusterInv
  <2>2. job \in Jobs /\ work \in Works BY DEF ResetInv, JobInv, WorkInv
  <2>3. /\ job.cmd \in Resets \union {NoCommand}
        /\ job.pc \in Endings \union {"groups", "states", "evict", "plan", "read", "lines", "store", "clean"}
        /\ job.todo \subseteq Groups /\ job.inactive \subseteq Groups
        /\ job.known \subseteq Groups /\ job.skipped \subseteq Groups
        /\ job.group \in Groups \union {NoGroup}
        /\ job.parts \subseteq Partitions /\ job.lines \subseteq Groups \X Partitions
        /\ job.seen \in [Partitions -> Offsets \union {None}]
        /\ job.rows \in [Groups -> [Partitions -> Offsets \union {None}]]
        /\ job.written \in [Groups -> [Partitions -> Offsets \union {None}]]
        /\ job.internal \in [Groups -> SUBSET Internal] /\ job.dropped \subseteq Internal
    BY <2>2 DEF Jobs, ResetSteps, Waiting, Planners, Values, Plans
  <2>4. /\ work.cmd \in Deletions \union {NoDeletion}
        /\ work.pc \in Endings \union {"list", "describe", "delete", "topics", "committed", "select", "remove"}
        /\ work.todo \subseteq Groups
        /\ work.gone \subseteq Groups /\ work.dropped \subseteq Internal
    BY <2>2 DEF Works, Steps, GroupSteps, OffsetSteps
  <2>5. /\ work.idle \subseteq work.listed
        /\ work.parts \subseteq Partitions /\ work.removed \subseteq work.parts
    BY DEF ResetInv, ListsInv
  <2> QED BY <2>1, <2>3, <2>4, <2>5 DEF TypeOK
<1> QED BY <1>1, ResetInvariant, PTL

\* No offset that a reset stores lies beyond the end of its log: what was clamped to the
\* watermarks that were read is within the log when it is stored, and ever after.
THEOREM StoredIsWithinLog == Spec => []StoredWithinLog
<1>1. ResetInv => StoredWithinLog
  BY DEF ResetInv, JobInv, WithinInv, StoredWithinLog
<1> QED BY <1>1, ResetInvariant, PTL

\* A reset that succeeds has stored all that it reports and reports on all that was asked
\* for; one that ends as a usage error has changed nothing, unless several groups are reset
\* without a file.
THEOREM ResetEndings == Spec => []ResetEndIsTrue
<1>1. ResetInv => ResetEndIsTrue
  <2> SUFFICES ASSUME JobInv(job, log, topics) PROVE ResetEndIsTrue BY DEF ResetInv
  <2>1. job.pc = "ok" /\ cmd.execute => job.written = job.rows
    BY DEF JobInv, StoredInv, cmd
  <2>2. ASSUME job.pc = "ok", cmd.execute, ~ cmd.all, ~ cmd.every, ~ FromFile,
               NEW g \in cmd.groups \ job.skipped,
               NEW p \in PartitionsOf(cmd.names \union cmd.through)
        PROVE  job.rows[g][p] # None \/ (Kind({"consumer"}) /\ TopicOf[p] \notin topics)
    <3>1. ~ Filed(job) BY <2>2 DEF FromFile, Filed, Kind, cmd
    <3>2. g \in job.inactive BY <2>2 DEF JobInv, Chosen, cmd
    <3>3. Complete(job, topics, g) BY <2>2, <3>1, <3>2 DEF JobInv, CoverInv
    <3>4. Covered(job, topics, g, p) BY <2>2, <3>3 DEF Complete, NamedBy, cmd
    <3>5. ~ (job.cmd.kind = "application" /\ job.errors # {})
      BY <2>2 DEF JobInv, EndingInv
    <3> QED BY <3>4, <3>5 DEF Covered, PassedOver, Kind, cmd
  <2>3. job.pc = "usage" /\ (FromFile \/ (~ cmd.all /\ \E g \in Groups : cmd.groups = {g})) =>
          job.written = NoRows /\ job.dropped = {}
    BY DEF JobInv, EndingInv, DropInv, FromFile, Filed, Kind, Single, cmd
  <2> QED BY <2>1, <2>2, <2>3 DEF ResetEndIsTrue
<1> QED BY <1>1, ResetInvariant, PTL

\* Internal topics are deleted when all offsets are stored, and each group has one for
\* every partition asked for of a topic that exists.
THEOREM CleanupLast == Spec => []CleanupAfterReset
<1>1. ResetInv => CleanupAfterReset
  <2> SUFFICES ASSUME JobInv(job, log, topics), job.dropped # {}
               PROVE  /\ job.written = job.rows
                      /\ \A g \in job.inactive :
                           IF cmd.every THEN job.rows[g] # NoOffsets
                           ELSE \A p \in PartitionsOf((cmd.names \union cmd.through) \intersect topics) :
                                  job.rows[g][p] # None
    BY DEF ResetInv, CleanupAfterReset
  <2>1. /\ job.cmd.execute /\ ~ Filed(job) /\ job.cmd.kind \in {"streams", "application"}
        /\ job.written = job.rows
    BY DEF JobInv, DropInv
  <2>2. job.cmd.every => job.cmd.kind = "streams" BY <2>1, JobCommand, CommandFacts
  <2>3. ASSUME NEW g \in job.inactive, ~ cmd.every,
               NEW p \in PartitionsOf((cmd.names \union cmd.through) \intersect topics)
        PROVE  job.rows[g][p] # None
    <3>1. Complete(job, topics, g) BY <2>1 DEF JobInv, CoverInv
    <3>2. Covered(job, topics, g, p)
      BY <2>3, <3>1 DEF Complete, NamedBy, PartitionsOf, cmd
    <3> QED BY <2>3, <3>2 DEF Covered, PassedOver, PartitionsOf
  <2>4. ASSUME NEW g \in job.inactive, cmd.every PROVE job.rows[g] # NoOffsets
    <3>1. Complete(job, topics, g) BY <2>1 DEF JobInv, CoverInv
    <3> QED BY <2>1, <2>2, <2>4, <3>1 DEF Complete, cmd
  <2> QED BY <2>1, <2>3, <2>4
<1> QED BY <1>1, ResetInvariant, PTL
=============================================================================

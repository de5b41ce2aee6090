--------------------------- MODULE StorageFormat ----------------------------
(***************************************************************************)
(* `kafka storage format` and `kafka storage info` on the log directories of *)
(* one server: a sequence of file-system calls, any of which may fail or be   *)
(* the last before a crash, and an operator who runs the command again.       *)
(*                                                                         *)
(* Abstractions.  A directory is its place in the sorted list.  Of a          *)
(* meta.properties file, the cluster id it was created for and the number of  *)
(* its four lines (version, cluster.id, node.id, directory.id) are kept.  The *)
(* configuration is one server's, the same for every run.                     *)
(***************************************************************************)
EXTENDS Integers

CONSTANTS
  NDirs,        \* number of log directories
  MetadataLog,  \* place of metadata.log.dir, 0: not in the configuration
  Controller,   \* TRUE: process.roles has controller
  Clusters,     \* values of --cluster-id
  MaxFaults     \* bound: calls that fail, and crashes

ASSUME StorageAssumption ==
  /\ NDirs \in Nat \ {0} /\ MetadataLog \in 0..NDirs /\ Controller \in BOOLEAN
  /\ Clusters # {} /\ MaxFaults \in Nat

VARIABLES
  disk,    \* the directories
  pc,      \* the format command
  dir,     \* the directory it is at
  ask,     \* its arguments
  info,    \* the verdict of the last `storage info`, if nothing was written since
  faults   \* number of faults so far

vars == <<disk, pc, dir, ask, info, faults>>

Dirs == 1..NDirs
MetadataDir == IF MetadataLog = 0 THEN 1 ELSE MetadataLog

Missing == [exists |-> FALSE, cluster |-> CHOOSE c \in Clusters : TRUE, lines |-> 0]
Meta == [exists : BOOLEAN, cluster : Clusters, lines : 0..4]

Contents == [made : BOOLEAN, meta : Meta, layout : BOOLEAN,
             residual : {"none", "empty", "full"},
             checkpoint : {"none", "text", "binary"}]

Request == [cluster : Clusters, ignore : BOOLEAN]

Ended == {"idle", "ok", "failed"}

-----------------------------------------------------------------------------
(* storage format *)

Start(c, ignore) ==
  /\ pc \in Ended
  /\ ask' = [cluster |-> c, ignore |-> ignore]
  /\ pc' = "open" /\ dir' = 1
  /\ UNCHANGED <<disk, info, faults>>

\* Mutant: one directory too many.
NextDirPast ==
  IF dir > NDirs THEN pc' = "ok" /\ dir' = dir ELSE pc' = "open" /\ dir' = dir + 1

NextDir ==
  IF dir = NDirs THEN pc' = "ok" /\ dir' = dir ELSE pc' = "open" /\ dir' = dir + 1

IsController(d) == Controller /\ d = MetadataDir

\* Mutant: a file without its four lines is not taken for one.
WholeMeta(d) == disk[d].meta.lines = 4

HasMeta(d) == disk[d].meta.exists

Update(d, contents) == disk' = [disk EXCEPT ![d] = contents] /\ info' = "none"

\* Directories are created as they are reached.  A formatted one is skipped or
\* refused; a bootstrap.checkpoint that is not Kafka's is refused.
OpenDir ==
  /\ pc = "open"
  /\ Update(dir, [disk[dir] EXCEPT !.made = TRUE])
  /\ \/ HasMeta(dir) /\ ask.ignore /\ NextDir
     \/ HasMeta(dir) /\ ~ask.ignore /\ pc' = "failed" /\ dir' = dir
     \/ /\ ~HasMeta(dir) /\ IsController(dir) /\ disk[dir].checkpoint = "text"
        /\ pc' = "failed" /\ dir' = dir
     \/ /\ ~HasMeta(dir) /\ ~(IsController(dir) /\ disk[dir].checkpoint = "text")
        /\ pc' = "create" /\ dir' = dir
  /\ UNCHANGED <<ask, faults>>

CreateMeta ==
  /\ pc = "create"
  /\ Update(dir, [disk[dir] EXCEPT
       !.meta = [exists |-> TRUE, cluster |-> ask.cluster, lines |-> 0]])
  /\ pc' = "write" /\ dir' = dir
  /\ UNCHANGED <<ask, faults>>

\* Mutant: the controller's files are left out.
EndDir(d) == NextDir

AfterMeta(d) ==
  IF IsController(d) THEN pc' = "layout" /\ dir' = dir ELSE NextDir

WriteMeta ==
  /\ pc = "write"
  /\ Update(dir, [disk[dir] EXCEPT !.meta.lines = @ + 1])
  /\ IF disk[dir].meta.lines = 3 THEN AfterMeta(dir) ELSE UNCHANGED <<pc, dir>>
  /\ UNCHANGED <<ask, faults>>

MakeLayout ==
  /\ pc = "layout"
  /\ Update(dir, [disk[dir] EXCEPT !.layout = TRUE])
  /\ pc' = "residual"
  /\ UNCHANGED <<dir, ask, faults>>

CreateResidual ==
  /\ pc = "residual"
  /\ Update(dir, [disk[dir] EXCEPT !.residual = "empty"])
  /\ pc' = "fill"
  /\ UNCHANGED <<dir, ask, faults>>

FillResidual ==
  /\ pc = "fill"
  /\ Update(dir, [disk[dir] EXCEPT !.residual = "full"])
  /\ NextDir
  /\ UNCHANGED <<ask, faults>>

\* The next call fails, or never comes.
Stop ==
  /\ pc \notin Ended /\ faults < MaxFaults
  /\ pc' = "failed" /\ faults' = faults + 1
  /\ UNCHANGED <<disk, dir, ask, info>>

-----------------------------------------------------------------------------
(* storage info *)

\* read_meta_properties fails when there is a version and no cluster or node id.
Readable(d) == disk[d].meta.lines \notin {1, 2}

\* Mutant: a file without a cluster id has any.
SameOrNone(d, e) ==
  \/ disk[d].meta.lines < 2 \/ disk[e].meta.lines < 2
  \/ disk[d].meta.cluster = disk[e].meta.cluster

\* The cluster id and the node id of both, or neither of either
Consistent(d, e) ==
  /\ disk[d].meta.lines >= 2 <=> disk[e].meta.lines >= 2
  /\ disk[d].meta.lines >= 2 => disk[d].meta.cluster = disk[e].meta.cluster

Info ==
  /\ pc \in Ended /\ info = "none"
  /\ info' = IF /\ \A d \in Dirs : disk[d].made /\ HasMeta(d) /\ Readable(d)
                /\ \A d \in Dirs \ {1} : Consistent(d - 1, d)
             THEN "ok" ELSE "bad"
  /\ UNCHANGED <<disk, pc, dir, ask, faults>>

-----------------------------------------------------------------------------
Init ==
  /\ disk \in [Dirs -> [made : BOOLEAN, meta : {Missing}, layout : {FALSE},
                        residual : {"none"}, checkpoint : {"none", "text", "binary"}]]
  /\ \A d \in Dirs : disk[d].checkpoint # "none" => disk[d].made
  /\ pc = "idle" /\ dir = 1 /\ info = "none" /\ faults = 0
  /\ ask \in [cluster : {Missing.cluster}, ignore : {FALSE}]

Next ==
  \/ \E c \in Clusters, ignore \in BOOLEAN : Start(c, ignore)
  \/ OpenDir \/ CreateMeta \/ WriteMeta
  \/ MakeLayout \/ CreateResidual \/ FillResidual
  \/ Stop \/ Info

Spec == Init /\ [][Next]_vars

-----------------------------------------------------------------------------
(* Properties *)

TypeOK ==
  /\ disk \in [Dirs -> Contents]
  /\ pc \in Ended \union {"open", "create", "write", "layout", "residual", "fill"}
  /\ dir \in Dirs
  /\ ask \in Request
  /\ info \in {"none", "ok", "bad"}
  /\ faults \in Nat

ControllerReady == disk[MetadataDir].layout /\ disk[MetadataDir].residual = "full"

\* A format that is not told to ignore anything, after whatever earlier runs left
\* behind, has formatted every directory, for its cluster, the controller's layout
\* included.
OkMeansFormatted ==
  (pc = "ok" /\ ~ask.ignore) =>
    /\ \A d \in Dirs : disk[d].meta.lines = 4 /\ disk[d].meta.cluster = ask.cluster
    /\ Controller => ControllerReady

\* --ignore-formatted keeps what there is, and so does a run that is refused: the
\* identity that a directory was once given, however much of it was written, is
\* never replaced or cut.
NeverOverwrites ==
  [][\A d \in Dirs : disk[d].meta.exists =>
       /\ disk'[d].meta.exists /\ disk'[d].meta.cluster = disk[d].meta.cluster
       /\ disk'[d].meta.lines >= disk[d].meta.lines]_vars

\* storage info accepts no two directories of different clusters, nor one that has
\* an identity beside one that has none.
InfoOkMeansOneCluster ==
  info = "ok" =>
    \A d, e \in Dirs :
      /\ disk[d].meta.exists
      /\ disk[d].meta.lines >= 3 => disk[e].meta.lines >= 3
      /\ disk[d].meta.lines >= 3 => disk[d].meta.cluster = disk[e].meta.cluster

\* "controller metadata dirs also get `__cluster_metadata-0/` and
\* `kafka-cli-bootstrap.residual.json`" (README.md): they are there when a format
\* has succeeded.
OkMeansControllerReady == pc = "ok" /\ Controller => ControllerReady
=============================================================================

------------------------- MODULE StorageFormatProofs ------------------------
(***************************************************************************)
(* What `storage format` promises for any number of directories, cluster ids, *)
(* runs and failures.                                                        *)
(***************************************************************************)
EXTENDS StorageFormat, WellFoundedInduction, TLAPS

\* Where the command is, and what the directory it is at looks like by then
StepInv ==
  /\ pc = "create" => ~disk[dir].meta.exists
  /\ pc = "write" => disk[dir].meta.exists /\ disk[dir].meta.lines < 4
  /\ pc = "write" => disk[dir].meta.cluster = ask.cluster
  /\ pc \in {"layout", "residual", "fill"} =>
       /\ IsController(dir)
       /\ disk[dir].meta.exists /\ disk[dir].meta.lines = 4
       /\ disk[dir].meta.cluster = ask.cluster
  /\ pc \in {"residual", "fill"} => disk[dir].layout
  /\ \A d \in Dirs : ~disk[d].meta.exists => disk[d].meta.lines = 0

DirDone(d) ==
  /\ disk[d].meta.exists /\ disk[d].meta.lines = 4 /\ disk[d].meta.cluster = ask.cluster
  /\ IsController(d) => disk[d].layout /\ disk[d].residual = "full"

\* A run that ignores nothing has done the directories before the one it is at.
DoneInv ==
  ~ask.ignore =>
    /\ pc \notin Ended => \A d \in Dirs : d < dir => DirDone(d)
    /\ pc = "ok" => \A d \in Dirs : DirDone(d)

Inv == TypeOK /\ StepInv /\ DoneInv

\* What an update of the directory the command is at does to the others: nothing.
LEMMA UpdateAt ==
  ASSUME TypeOK, NEW c \in Contents, Update(dir, c)
  PROVE  /\ disk' \in [Dirs -> Contents]
         /\ disk'[dir] = c
         /\ \A d \in Dirs : d # dir => disk'[d] = disk[d]
  BY DEF Update, TypeOK

LEMMA DirTypes ==
  ASSUME TypeOK
  PROVE  /\ dir \in Dirs /\ dir \in Nat /\ NDirs \in Nat
         /\ disk[dir] \in Contents /\ disk[dir].meta \in Meta
  BY StorageAssumption DEF TypeOK, Dirs, Contents

LEMMA NextDirType ==
  ASSUME TypeOK, NextDir
  PROVE  /\ dir' \in Dirs /\ pc' \in {"ok", "open"}
         /\ pc' = "ok" => dir' = dir /\ dir = NDirs
         /\ pc' = "open" => dir' = dir + 1
  BY DirTypes DEF NextDir, Dirs

LEMMA AfterMetaType ==
  ASSUME TypeOK, NEW d, AfterMeta(d)
  PROVE  /\ dir' \in Dirs /\ pc' \in {"ok", "open", "layout"}
         /\ IsController(d) => pc' = "layout" /\ dir' = dir
         /\ ~IsController(d) => NextDir
  BY NextDirType, DirTypes DEF AfterMeta

\* The contents that each call of the command leaves behind
LEMMA NewContents ==
  ASSUME TypeOK
  PROVE  /\ [disk[dir] EXCEPT !.made = TRUE] \in Contents
         /\ [disk[dir] EXCEPT !.meta =
               [exists |-> TRUE, cluster |-> ask.cluster, lines |-> 0]] \in Contents
         /\ disk[dir].meta.lines < 4 =>
              [disk[dir] EXCEPT !.meta.lines = @ + 1] \in Contents
         /\ [disk[dir] EXCEPT !.layout = TRUE] \in Contents
         /\ \A r \in {"empty", "full"} : [disk[dir] EXCEPT !.residual = r] \in Contents
<1>1. disk[dir] \in Contents /\ disk[dir].meta \in Meta /\ ask \in Request
  BY DirTypes DEF TypeOK
<1>2. [exists |-> TRUE, cluster |-> ask.cluster, lines |-> 0] \in Meta
  BY <1>1 DEF Meta, Request
<1>3. disk[dir].meta.lines < 4 => [disk[dir].meta EXCEPT !.lines = @ + 1] \in Meta
  BY <1>1 DEF Meta
<1>4. disk[dir].meta.lines < 4 => [disk[dir] EXCEPT !.meta.lines = @ + 1] \in Contents
  BY <1>1, <1>3 DEF Contents, Meta
<1> QED BY <1>1, <1>2, <1>4 DEF Contents

LEMMA InitInv == Init => Inv
<1> SUFFICES ASSUME Init PROVE Inv
  OBVIOUS
<1>0. Missing.cluster \in Clusters
  BY StorageAssumption DEF Missing
<1>1. /\ Missing = [exists |-> FALSE, cluster |-> Missing.cluster, lines |-> 0]
      /\ Missing \in Meta
  BY <1>0 DEF Missing, Meta
<1>2. disk \in [Dirs -> Contents]
  BY <1>1 DEF Init, Contents
<1>3. \A d \in Dirs : disk[d].meta = Missing
  BY DEF Init
<1>4. ask \in Request
  BY <1>0 DEF Init, Request
<1>5. TypeOK
  BY <1>2, <1>4, StorageAssumption DEF Init, TypeOK, Ended, Dirs
<1> QED BY <1>1, <1>3, <1>5 DEF Init, Inv, StepInv, DoneInv, Ended

\* What every step of the command at a directory leaves: the other directories as
\* they were, and the one it is at as the step made it.
LEMMA OpenEffect ==
  ASSUME TypeOK, OpenDir
  PROVE  /\ disk' \in [Dirs -> Contents]
         /\ \A d \in Dirs : d # dir => disk'[d] = disk[d]
         /\ disk'[dir].meta = disk[dir].meta
         /\ disk'[dir].layout = disk[dir].layout
         /\ disk'[dir].residual = disk[dir].residual
<1> DEFINE c == [disk[dir] EXCEPT !.made = TRUE]
<1>1. c \in Contents
  BY NewContents
<1>2. /\ c.meta = disk[dir].meta /\ c.layout = disk[dir].layout
      /\ c.residual = disk[dir].residual
  BY DirTypes DEF Contents
<1>3. Update(dir, c)
  BY DEF OpenDir
<1> HIDE DEF c
<1> QED BY <1>1, <1>2, <1>3, UpdateAt

LEMMA CreateEffect ==
  ASSUME TypeOK, CreateMeta
  PROVE  /\ disk' \in [Dirs -> Contents]
         /\ \A d \in Dirs : d # dir => disk'[d] = disk[d]
         /\ disk'[dir].meta = [exists |-> TRUE, cluster |-> ask.cluster, lines |-> 0]
<1> DEFINE c == [disk[dir] EXCEPT
      !.meta = [exists |-> TRUE, cluster |-> ask.cluster, lines |-> 0]]
<1>1. c \in Contents
  BY NewContents
<1>2. c.meta = [exists |-> TRUE, cluster |-> ask.cluster, lines |-> 0]
  BY DirTypes DEF Contents
<1>3. Update(dir, c)
  BY DEF CreateMeta
<1> HIDE DEF c
<1> QED BY <1>1, <1>2, <1>3, UpdateAt

LEMMA WriteEffect ==
  ASSUME TypeOK, WriteMeta, disk[dir].meta.lines < 4
  PROVE  /\ disk' \in [Dirs -> Contents]
         /\ \A d \in Dirs : d # dir => disk'[d] = disk[d]
         /\ disk'[dir].meta.exists = disk[dir].meta.exists
         /\ disk'[dir].meta.cluster = disk[dir].meta.cluster
         /\ disk'[dir].meta.lines = disk[dir].meta.lines + 1
<1> DEFINE c == [disk[dir] EXCEPT !.meta.lines = @ + 1]
<1>1. c \in Contents
  BY NewContents
<1>2. /\ c.meta.exists = disk[dir].meta.exists
      /\ c.meta.cluster = disk[dir].meta.cluster
      /\ c.meta.lines = disk[dir].meta.lines + 1
  BY DirTypes DEF Contents, Meta
<1>3. Update(dir, c)
  BY DEF WriteMeta
<1> HIDE DEF c
<1> QED BY <1>1, <1>2, <1>3, UpdateAt

LEMMA LayoutEffect ==
  ASSUME TypeOK, MakeLayout
  PROVE  /\ disk' \in [Dirs -> Contents]
         /\ \A d \in Dirs : d # dir => disk'[d] = disk[d]
         /\ disk'[dir].meta = disk[dir].meta /\ disk'[dir].layout
<1> DEFINE c == [disk[dir] EXCEPT !.layout = TRUE]
<1>1. c \in Contents
  BY NewContents
<1>2. c.meta = disk[dir].meta /\ c.layout
  BY DirTypes DEF Contents
<1>3. Update(dir, c)
  BY DEF MakeLayout
<1> HIDE DEF c
<1> QED BY <1>1, <1>2, <1>3, UpdateAt

LEMMA ResidualEffect ==
  ASSUME TypeOK, NEW r \in {"empty", "full"},
         Update(dir, [disk[dir] EXCEPT !.residual = r])
  PROVE  /\ disk' \in [Dirs -> Contents]
         /\ \A d \in Dirs : d # dir => disk'[d] = disk[d]
         /\ disk'[dir].meta = disk[dir].meta
         /\ disk'[dir].layout = disk[dir].layout
         /\ disk'[dir].residual = r
<1> DEFINE c == [disk[dir] EXCEPT !.residual = r]
<1>1. c \in Contents
  BY NewContents
<1>2. c.meta = disk[dir].meta /\ c.layout = disk[dir].layout /\ c.residual = r
  BY DirTypes DEF Contents
<1> HIDE DEF c
<1> QED BY <1>1, <1>2, UpdateAt DEF c

-----------------------------------------------------------------------------
\* Going on to the next directory keeps the invariant once this one is done, or
\* was skipped.
LEMMA NextDirInv ==
  ASSUME Inv, TypeOK', NextDir, UNCHANGED ask, pc \notin Ended,
         \A d \in Dirs : d # dir => disk'[d] = disk[d],
         \A d \in Dirs : ~disk'[d].meta.exists => disk'[d].meta.lines = 0,
         ~ask.ignore => \A d \in Dirs : d = dir => DirDone(d)'
  PROVE  Inv'
<1>1. pc' \in {"ok", "open"} /\ dir \in Nat /\ NDirs \in Nat
  BY NextDirType, DirTypes DEF Inv
<1>2. StepInv'
  BY <1>1 DEF StepInv
<1>3. ASSUME ~ask.ignore PROVE \A d \in Dirs : d <= dir => DirDone(d)'
  <2>1. \A d \in Dirs : d < dir => DirDone(d)
    BY <1>3 DEF Inv, DoneInv
  <2>2. \A d \in Dirs : d < dir => DirDone(d)'
    BY <1>1, <2>1 DEF DirDone
  <2> QED BY <1>1, <1>3, <2>2, DirTypes DEF Dirs, Inv
<1>4. DoneInv'
  <2> SUFFICES ASSUME ~ask'.ignore
               PROVE  /\ pc' \notin Ended => \A d \in Dirs : d < dir' => DirDone(d)'
                      /\ pc' = "ok" => \A d \in Dirs : DirDone(d)'
    BY DEF DoneInv
  <2>1. \A d \in Dirs : d <= dir => DirDone(d)'
    BY <1>3
  <2>2. pc' = "ok" => \A d \in Dirs : DirDone(d)'
    BY <1>1, <2>1, NextDirType DEF Inv, Dirs
  <2>3. pc' = "open" => \A d \in Dirs : d < dir' => DirDone(d)'
    BY <1>1, <2>1, NextDirType DEF Inv, Dirs
  <2> QED BY <1>1, <2>2, <2>3 DEF Ended
<1> QED BY <1>2, <1>4 DEF Inv

\* Staying at a directory keeps what was done before it.
LEMMA SameDirDone ==
  ASSUME Inv, UNCHANGED <<dir, ask>>, pc \notin Ended, pc' # "ok",
         \A d \in Dirs : d # dir => disk'[d] = disk[d]
  PROVE  DoneInv'
<1>1. dir \in Nat
  BY DirTypes DEF Inv
<1>2. ASSUME ~ask.ignore PROVE \A d \in Dirs : d < dir => DirDone(d)'
  BY <1>1, <1>2 DEF Inv, DoneInv, DirDone, Dirs
<1> QED BY <1>2 DEF DoneInv

LEMMA OpenStep ==
  ASSUME Inv, OpenDir
  PROVE  Inv'
<1>1. /\ disk' \in [Dirs -> Contents]
      /\ \A d \in Dirs : d # dir => disk'[d] = disk[d]
      /\ \A d \in Dirs : disk'[d].meta = disk[d].meta
      /\ pc = "open" /\ UNCHANGED <<ask, faults>> /\ info' = "none"
  BY OpenEffect DEF Inv, OpenDir, Update
<1>2. CASE HasMeta(dir) /\ ask.ignore /\ NextDir
  <2>1. TypeOK'
    BY <1>1, <1>2, NextDirType DEF Inv, TypeOK, Ended
  <2> QED BY <1>1, <1>2, <2>1, NextDirInv DEF Inv, StepInv, Ended
<1>3. CASE pc' = "failed" /\ dir' = dir
  <2>1. TypeOK'
    BY <1>1, <1>3 DEF Inv, TypeOK, Ended
  <2>2. DoneInv'
    BY <1>1, <1>3, SameDirDone DEF Ended
  <2> QED BY <1>1, <1>3, <2>1, <2>2 DEF Inv, StepInv
<1>4. CASE ~HasMeta(dir) /\ pc' = "create" /\ dir' = dir
  <2>1. TypeOK'
    BY <1>1, <1>4 DEF Inv, TypeOK, Ended
  <2>2. DoneInv'
    BY <1>1, <1>4, SameDirDone DEF Ended
  <2> QED BY <1>1, <1>4, <2>1, <2>2, DirTypes DEF Inv, StepInv, HasMeta
<1> QED BY <1>2, <1>3, <1>4 DEF OpenDir

LEMMA CreateStep ==
  ASSUME Inv, CreateMeta
  PROVE  Inv'
<1>1. /\ disk' \in [Dirs -> Contents]
      /\ \A d \in Dirs : d # dir => disk'[d] = disk[d]
      /\ disk'[dir].meta = [exists |-> TRUE, cluster |-> ask.cluster, lines |-> 0]
      /\ pc = "create" /\ pc' = "write" /\ UNCHANGED <<dir, ask, faults>> /\ info' = "none"
  BY CreateEffect DEF Inv, CreateMeta, Update
<1>2. TypeOK'
  BY <1>1 DEF Inv, TypeOK, Ended
<1>3. DoneInv'
  BY <1>1, SameDirDone DEF Ended
<1>4. StepInv'
  BY <1>1 DEF Inv, StepInv
<1> QED BY <1>2, <1>3, <1>4 DEF Inv

LEMMA WriteStep ==
  ASSUME Inv, WriteMeta
  PROVE  Inv'
<1>0. /\ pc = "write" /\ disk[dir].meta.exists /\ disk[dir].meta.lines < 4
      /\ disk[dir].meta.cluster = ask.cluster /\ disk[dir].meta.lines \in 0..4
  BY DirTypes DEF WriteMeta, Inv, StepInv, Meta
<1>1. /\ disk' \in [Dirs -> Contents]
      /\ \A d \in Dirs : d # dir => disk'[d] = disk[d]
      /\ disk'[dir].meta.exists /\ disk'[dir].meta.cluster = ask.cluster
      /\ disk'[dir].meta.lines = disk[dir].meta.lines + 1
      /\ UNCHANGED <<ask, faults>> /\ info' = "none"
  BY <1>0, WriteEffect DEF Inv, WriteMeta, Update
<1>2. \A d \in Dirs : ~disk'[d].meta.exists => disk'[d].meta.lines = 0
  BY <1>1 DEF Inv, StepInv
<1>3. CASE disk[dir].meta.lines # 3
  <2>1. UNCHANGED <<pc, dir>>
    BY <1>3 DEF WriteMeta
  <2>2. TypeOK'
    BY <1>1, <2>1 DEF Inv, TypeOK
  <2>3. DoneInv'
    BY <1>0, <1>1, <2>1, SameDirDone DEF Ended
  <2>4. StepInv'
    BY <1>0, <1>1, <1>2, <1>3, <2>1 DEF StepInv
  <2> QED BY <2>2, <2>3, <2>4 DEF Inv
<1>4. CASE disk[dir].meta.lines = 3
  <2>1. AfterMeta(dir)
    BY <1>4 DEF WriteMeta
  <2>2. TypeOK'
    BY <1>1, <2>1, AfterMetaType DEF Inv, TypeOK, Ended
  <2>3. CASE IsController(dir)
    <3>1. pc' = "layout" /\ dir' = dir
      BY <2>1, <2>3, AfterMetaType DEF Inv
    <3>2. DoneInv'
      BY <1>0, <1>1, <3>1, SameDirDone DEF Ended
    <3>3. StepInv'
      BY <1>1, <1>2, <1>4, <2>3, <3>1 DEF StepInv, IsController
    <3> QED BY <2>2, <3>2, <3>3 DEF Inv
  <2>4. CASE ~IsController(dir)
    <3>1. NextDir
      BY <2>1, <2>4, AfterMetaType DEF Inv
    <3>2. \A d \in Dirs : d = dir => DirDone(d)'
      BY <1>1, <1>4, <2>4 DEF DirDone, IsController
    <3> QED BY <1>0, <1>1, <1>2, <2>2, <3>1, <3>2, NextDirInv DEF Ended
  <2> QED BY <2>3, <2>4
<1> QED BY <1>3, <1>4

LEMMA LayoutStep ==
  ASSUME Inv, MakeLayout
  PROVE  Inv'
<1>1. /\ disk' \in [Dirs -> Contents]
      /\ \A d \in Dirs : d # dir => disk'[d] = disk[d]
      /\ disk'[dir].meta = disk[dir].meta /\ disk'[dir].layout
      /\ pc = "layout" /\ pc' = "residual" /\ UNCHANGED <<dir, ask, faults>>
      /\ info' = "none"
  BY LayoutEffect DEF Inv, MakeLayout, Update
<1>2. TypeOK'
  BY <1>1 DEF Inv, TypeOK, Ended
<1>3. DoneInv'
  BY <1>1, SameDirDone DEF Ended
<1>4. StepInv'
  BY <1>1 DEF Inv, StepInv, IsController
<1> QED BY <1>2, <1>3, <1>4 DEF Inv

LEMMA ResidualStep ==
  ASSUME Inv, CreateResidual
  PROVE  Inv'
<1>1. /\ disk' \in [Dirs -> Contents]
      /\ \A d \in Dirs : d # dir => disk'[d] = disk[d]
      /\ disk'[dir].meta = disk[dir].meta /\ disk'[dir].layout = disk[dir].layout
      /\ pc = "residual" /\ pc' = "fill" /\ UNCHANGED <<dir, ask, faults>>
      /\ info' = "none"
  BY ResidualEffect DEF Inv, CreateResidual, Update
<1>2. TypeOK'
  BY <1>1 DEF Inv, TypeOK, Ended
<1>3. DoneInv'
  BY <1>1, SameDirDone DEF Ended
<1>4. StepInv'
  BY <1>1 DEF Inv, StepInv, IsController
<1> QED BY <1>2, <1>3, <1>4 DEF Inv

LEMMA FillStep ==
  ASSUME Inv, FillResidual
  PROVE  Inv'
<1>1. /\ disk' \in [Dirs -> Contents]
      /\ \A d \in Dirs : d # dir => disk'[d] = disk[d]
      /\ disk'[dir].meta = disk[dir].meta /\ disk'[dir].layout = disk[dir].layout
      /\ disk'[dir].residual = "full"
      /\ pc = "fill" /\ NextDir /\ UNCHANGED <<ask, faults>> /\ info' = "none"
  BY ResidualEffect DEF Inv, FillResidual, Update
<1>2. TypeOK'
  BY <1>1, NextDirType DEF Inv, TypeOK, Ended
<1>3. \A d \in Dirs : d = dir => DirDone(d)'
  BY <1>1 DEF Inv, StepInv, DirDone
<1>4. \A d \in Dirs : ~disk'[d].meta.exists => disk'[d].meta.lines = 0
  BY <1>1 DEF Inv, StepInv
<1> QED BY <1>1, <1>2, <1>3, <1>4, NextDirInv DEF Ended

LEMMA StartStep ==
  ASSUME Inv, NEW c \in Clusters, NEW ignore \in BOOLEAN, Start(c, ignore)
  PROVE  Inv'
<1>1. /\ ask' = [cluster |-> c, ignore |-> ignore] /\ pc' = "open" /\ dir' = 1
      /\ UNCHANGED <<disk, info, faults>>
  BY DEF Start
<1>2. TypeOK'
  BY <1>1, StorageAssumption DEF Inv, TypeOK, Request, Dirs
<1>3. DoneInv'
  BY <1>1 DEF DoneInv, Dirs, Ended
<1>4. StepInv'
  BY <1>1 DEF Inv, StepInv
<1> QED BY <1>2, <1>3, <1>4 DEF Inv

LEMMA StopStep ==
  ASSUME Inv, Stop
  PROVE  Inv'
<1>1. /\ pc' = "failed" /\ faults' = faults + 1 /\ pc \notin Ended
      /\ UNCHANGED <<disk, dir, ask, info>>
  BY DEF Stop
<1>2. TypeOK'
  BY <1>1 DEF Inv, TypeOK, Ended
<1>3. DoneInv'
  BY <1>1, SameDirDone
<1>4. StepInv'
  BY <1>1 DEF Inv, StepInv
<1> QED BY <1>2, <1>3, <1>4 DEF Inv

LEMMA InfoStep ==
  ASSUME Inv, Info
  PROVE  Inv'
<1>1. info' \in {"ok", "bad"} /\ UNCHANGED <<disk, pc, dir, ask, faults>>
  BY DEF Info
<1> QED BY <1>1 DEF Inv, TypeOK, StepInv, DoneInv, DirDone

LEMMA Invariance == Spec => []Inv
<1>1. Inv /\ [Next]_vars => Inv'
  <2> SUFFICES ASSUME Inv, [Next]_vars PROVE Inv'
    OBVIOUS
  <2>1. CASE UNCHANGED vars
    BY <2>1 DEF vars, Inv, TypeOK, StepInv, DoneInv, DirDone
  <2>2. CASE Next
    BY <2>2, StartStep, OpenStep, CreateStep, WriteStep, LayoutStep, ResidualStep,
       FillStep, StopStep, InfoStep DEF Next
  <2> QED BY <2>1, <2>2
<1> QED BY <1>1, InitInv, PTL DEF Spec

-----------------------------------------------------------------------------
\* The variables keep their types: whatever is run, fails or is run again, the
\* command stays within its list of directories and writes whole lines of known files.
THEOREM TypeCorrect == Spec => []TypeOK
<1>1. Inv => TypeOK
  BY DEF Inv
<1> QED BY <1>1, Invariance, PTL

\* A format without --ignore-formatted that succeeds has formatted every directory
\* for its cluster, the controller's layout included, after any earlier runs.
THEOREM FormatComplete == Spec => []OkMeansFormatted
<1>1. Inv => OkMeansFormatted
  <2> SUFFICES ASSUME Inv, pc = "ok", ~ask.ignore
               PROVE  /\ \A d \in Dirs : /\ disk[d].meta.lines = 4
                                         /\ disk[d].meta.cluster = ask.cluster
                      /\ Controller => ControllerReady
    BY DEF OkMeansFormatted
  <2>1. \A d \in Dirs : DirDone(d)
    BY DEF Inv, DoneInv
  <2>2. MetadataDir \in Dirs
    BY StorageAssumption DEF MetadataDir, Dirs
  <2> QED BY <2>1, <2>2 DEF DirDone, IsController, ControllerReady
<1> QED BY <1>1, Invariance, PTL

\* No run of format, ignoring or not, first or repeated, replaces or cuts the
\* identity that a directory has been given.
THEOREM IdentityKept == Spec => NeverOverwrites
<1> DEFINE Kept == \A d \in Dirs : disk[d].meta.exists =>
       /\ disk'[d].meta.exists /\ disk'[d].meta.cluster = disk[d].meta.cluster
       /\ disk'[d].meta.lines >= disk[d].meta.lines
<1>1. ASSUME Inv, Next PROVE Kept
  <2>0. \A d \in Dirs : disk[d].meta \in Meta
    BY <1>1 DEF Inv, TypeOK, Contents
  <2>1. CASE UNCHANGED disk
    BY <2>0, <2>1 DEF Meta
  <2>2. CASE OpenDir
    BY <1>1, <2>0, <2>2, OpenEffect DEF Inv, Meta
  <2>3. CASE CreateMeta
    BY <1>1, <2>0, <2>3, CreateEffect DEF Inv, StepInv, CreateMeta, Meta
  <2>4. CASE WriteMeta
    <3>1. disk[dir].meta.lines < 4
      BY <1>1, <2>4 DEF Inv, StepInv, WriteMeta
    <3> QED BY <1>1, <2>0, <2>4, <3>1, WriteEffect DEF Inv, Meta
  <2>5. CASE MakeLayout
    BY <1>1, <2>0, <2>5, LayoutEffect DEF Inv, Meta
  <2>6. CASE CreateResidual \/ FillResidual
    BY <1>1, <2>0, <2>6, ResidualEffect DEF Inv, Meta, CreateResidual, FillResidual
  <2> QED BY <1>1, <2>1, <2>2, <2>3, <2>4, <2>5, <2>6 DEF Next, Start, Stop, Info
<1>2. Inv /\ [Next]_vars => [Kept]_vars
  BY <1>1
<1> QED BY <1>2, Invariance, PTL DEF NeverOverwrites, Spec

-----------------------------------------------------------------------------
(* storage info *)

\* The verdict is that of the disks as they are: whatever writes takes it back.
InfoInv ==
  info = "ok" =>
    /\ \A d \in Dirs : disk[d].meta.exists /\ Readable(d)
    /\ \A d \in Dirs \ {1} : Consistent(d - 1, d)

LEMMA VerdictStep ==
  ASSUME InfoInv, [Next]_vars
  PROVE  InfoInv'
<1>1. CASE UNCHANGED vars
  BY <1>1 DEF vars, InfoInv, Readable, Consistent
<1>2. CASE \E c \in Clusters, ignore \in BOOLEAN : Start(c, ignore)
  BY <1>2 DEF Start, InfoInv, Readable, Consistent
<1>3. CASE \/ OpenDir \/ CreateMeta \/ WriteMeta
           \/ MakeLayout \/ CreateResidual \/ FillResidual
  <2>1. info' = "none"
    BY <1>3 DEF OpenDir, CreateMeta, WriteMeta, MakeLayout, CreateResidual,
      FillResidual, Update
  <2> QED BY <2>1 DEF InfoInv
<1>4. CASE Stop
  BY <1>4 DEF Stop, InfoInv, Readable, Consistent
<1>5. CASE Info
  BY <1>5 DEF Info, InfoInv, Readable, Consistent, HasMeta
<1> QED BY <1>1, <1>2, <1>3, <1>4, <1>5 DEF Next

LEMMA InfoInvariance == Spec => []InfoInv
<1>1. Init => InfoInv
  BY DEF Init, InfoInv
<1> QED BY <1>1, VerdictStep, PTL DEF Spec

\* Every directory agrees with the first, because it agrees with its predecessor and
\* the first that does not would have one that does.
LEMMA AllAgreeWithFirst ==
  ASSUME TypeOK, \A d \in Dirs \ {1} : Consistent(d - 1, d)
  PROVE  \A d \in Dirs : Consistent(1, d)
<1> DEFINE Others == {d \in Dirs : ~ Consistent(1, d)}
<1>1. SUFFICES ASSUME Others # {} PROVE FALSE
  OBVIOUS
<1>2. NDirs \in Nat /\ Others \in SUBSET Nat
  BY StorageAssumption DEF Dirs
<1>2a. \E x \in Others : \A y \in Others : ~ (<<y, x>> \in OpToRel(<, Nat))
  <2> HIDE DEF Others
  <2> QED BY <1>1, <1>2, NatLessThanWellFounded, WFMin, Zenon
<1>3. PICK x \in Others : \A y \in Others : ~ (<<y, x>> \in OpToRel(<, Nat))
  <2> HIDE DEF Others
  <2> QED BY <1>2a
<1>4. x \in Dirs /\ x \in Nat /\ ~ Consistent(1, x)
  BY <1>2
<1>5. x # 1
  BY <1>4 DEF Consistent
<1>6. x - 1 \in Dirs /\ x - 1 \in Nat /\ x - 1 < x
  BY <1>2, <1>4, <1>5 DEF Dirs
<1>7. Consistent(1, x - 1)
  <2>1. SUFFICES ASSUME x - 1 \in Others PROVE FALSE
    BY <1>6
  <2>2. ~ (<<x - 1, x>> \in OpToRel(<, Nat))
    BY <1>3, <2>1
  <2> HIDE DEF Others
  <2> QED BY <1>4, <1>6, <2>2 DEF OpToRel
<1>8. Consistent(x - 1, x)
  BY <1>4, <1>5
<1> QED BY <1>4, <1>7, <1>8 DEF Consistent

LEMMA InfoSoundState ==
  ASSUME TypeOK, InfoInv
  PROVE  InfoOkMeansOneCluster
<1> SUFFICES ASSUME info = "ok", NEW d \in Dirs, NEW e \in Dirs
             PROVE  /\ disk[d].meta.exists
                    /\ disk[d].meta.lines >= 3 => disk[e].meta.lines >= 3
                    /\ disk[d].meta.lines >= 3 =>
                         disk[d].meta.cluster = disk[e].meta.cluster
  BY DEF InfoOkMeansOneCluster
<1>1. /\ disk[d].meta.exists /\ Readable(d) /\ Readable(e)
      /\ \A a \in Dirs \ {1} : Consistent(a - 1, a)
  BY DEF InfoInv
<1>2. Consistent(1, d) /\ Consistent(1, e)
  BY <1>1, AllAgreeWithFirst
<1>3. /\ disk[d].meta.lines \in 0..4 /\ disk[e].meta.lines \in 0..4
  BY DEF TypeOK, Contents, Meta
<1> QED BY <1>1, <1>2, <1>3 DEF Consistent, Readable

\* `storage info` calls directories fine only if every one has an identity or none
\* has, and all those identities are of one cluster: comparing each directory with
\* the one before it is enough, and nothing is written without a new verdict.
THEOREM InfoSound == Spec => []InfoOkMeansOneCluster
<1>1. TypeOK /\ InfoInv => InfoOkMeansOneCluster
  BY InfoSoundState
<1>2. Inv => TypeOK
  BY DEF Inv
<1> QED BY <1>1, <1>2, Invariance, InfoInvariance, PTL
=============================================================================

-------------------------- MODULE MCGroupCommands --------------------------
(***************************************************************************)
(* Small instances of GroupCommands: group g1 has committed to both           *)
(* partitions of t1, g2 to one of them; g1 owns an internal topic.            *)
(***************************************************************************)
EXTENDS GroupCommands, TLC

CONSTANTS g1, g2, p1, p2, t1, i1

MCTopicOf == [p \in Partitions |-> t1]
MCInternalOf == [g \in Groups |-> IF g = g1 THEN {i1} ELSE {}]
MCStarts == {[g \in Groups |-> [p \in Partitions |-> IF g = g1 \/ p = p1 THEN 1 ELSE None]]}

MCBusy == {{}, {g2}}

ResetOf(kind, to, value) ==
  [NoCommand EXCEPT !.kind = kind, !.to = to, !.value = value, !.groups = {g1},
                    !.names = {t1}, !.execute = TRUE]

Plan(rows) == [g \in Groups |-> [p \in Partitions |->
                 IF <<g, p>> \in DOMAIN rows THEN rows[<<g, p>>] ELSE None]]

MCResets ==
  {[ResetOf("consumer", "shift", 2) EXCEPT !.groups = {g1, g2}],
   [ResetOf("consumer", "time", 0) EXCEPT !.every = TRUE, !.all = TRUE],
   [ResetOf("consumer", "file", 0) EXCEPT !.groups = {g1, g2},
      !.file = Plan(<<g1, p1>> :> 2 @@ <<g2, p1>> :> 0)],
   [ResetOf("consumer", "current", 0) EXCEPT !.execute = FALSE],
   [ResetOf("streams", "offset", 2) EXCEPT !.groups = {g1, g2}, !.cleanup = TRUE],
   [ResetOf("streams", "latest", 0) EXCEPT !.every = TRUE, !.cleanup = TRUE],
   ResetOf("share", "current", 0),
   [ResetOf("share", "earliest", 0) EXCEPT !.every = TRUE],
   [ResetOf("application", "shift", -1) EXCEPT !.force = TRUE],
   [ResetOf("application", "file", 0) EXCEPT !.file = Plan(<<g1, p1>> :> 2)],
   [ResetOf("application", "earliest", 0) EXCEPT !.names = {}, !.through = {t1, "absent"}],
   [ResetOf("streams", "earliest", 0) EXCEPT !.names = {t1, "absent"}]}

DeletionOf(kind) ==
  [NoDeletion EXCEPT !.kind = kind, !.groups = {g1}, !.execute = TRUE]

MCDeletions ==
  {[DeletionOf("consumer") EXCEPT !.groups = {g1, g2}],
   [DeletionOf("share") EXCEPT !.all = TRUE],
   [DeletionOf("streams") EXCEPT !.groups = {g1, g2}, !.internal = TRUE],
   [DeletionOf("streams") EXCEPT !.internal = TRUE, !.execute = FALSE],
   [DeletionOf("streams") EXCEPT !.offsets = TRUE, !.every = TRUE],
   [DeletionOf("consumer") EXCEPT !.offsets = TRUE, !.names = {t1}],
   [DeletionOf("share") EXCEPT !.offsets = TRUE, !.names = {t1}],
   [DeletionOf("streams") EXCEPT !.offsets = TRUE, !.names = {t1, "absent"}]}
=============================================================================

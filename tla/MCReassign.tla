----------------------------- MODULE MCReassign -----------------------------
(***************************************************************************)
(* Small instances of Reassign.  Topic t1 has partitions p1 and p2 (so that *)
(* one list covers both), t2 has p3.  b4 is not registered.                 *)
(***************************************************************************)
EXTENDS Reassign, TLC

CONSTANTS b1, b2, b3, b4, p1, p2, p3, t1, t2, s1, s2

\* A plan gives targets to some partitions; the rest of the function is unused.
Plan(targets) == [p \in {p1, p2, p3} \intersect Partitions |->
                    IF p \in DOMAIN targets THEN targets[p] ELSE {}]

Command(kind, targets) ==
  [kind |-> kind, parts |-> DOMAIN targets, target |-> Plan(targets), dirs |-> {},
   execute |-> TRUE, additional |-> FALSE, keepRf |-> FALSE, throttle |-> FALSE,
   dirThrottle |-> FALSE, preserve |-> FALSE]

MCTopicOf == [p \in Partitions |-> IF p = p3 THEN t2 ELSE t1]

\* p1 and p2 start with one replica each, p3 with two; or p2 does not exist.
MCAssignments ==
  {[p \in Partitions |-> CASE p = p1 -> {b1} [] p = p2 -> second [] OTHER -> {b1, b2}] :
     second \in {{}, {b2}}}

MCRegistered == Brokers \ {b4}

-----------------------------------------------------------------------------
Move(p, targets) == [Command("execute", p :> targets) EXCEPT
                       !.throttle = TRUE, !.additional = TRUE]

\* One throttled move, a second one beside it in the same topic, a new target
\* for the first, and what an operator does about them.
SerialCommands ==
  {[Move(p1, {b2}) EXCEPT !.additional = FALSE],
   [Move(p2, {b2, b3}) EXCEPT !.keepRf = TRUE],
   [Move(p2, {b3}) EXCEPT !.keepRf = TRUE],
   Move(p1, {b3}),
   Command("cancel", p1 :> {b2}),
   [Command("cancel", p1 :> {b2}) EXCEPT !.preserve = TRUE],
   Command("verify", p1 :> {b2} @@ p2 :> {b3}),
   Command("verify", p2 :> {b2, b3})}


\* Plans with log directories: two replicas of p1, one of them on a broker that has
\* left; plans for p2, which may not exist and be rejected.
LogDirMove ==
  [Command("execute", p1 :> {b1, b2}) EXCEPT
     !.dirs = {<<p1, b1>>, <<p1, b2>>}, !.dirThrottle = TRUE]
LogDirCommands ==
  {LogDirMove, [LogDirMove EXCEPT !.execute = FALSE],
   [LogDirMove EXCEPT !.kind = "verify"],
   [Command("execute", p1 :> {b2} @@ p3 :> {b1, b4}) EXCEPT
      !.dirs = {<<p3, b4>>}, !.keepRf = TRUE],
   [Command("execute", p2 :> {b1}) EXCEPT !.dirThrottle = TRUE],
   Command("execute", p1 :> {b2} @@ p2 :> {b1}), Command("verify", p1 :> {b2} @@ p3 :> {b1}),
   [Command("list", p1 :> {}) EXCEPT !.parts = {}]}

AllCommands == SerialCommands \union LogDirCommands

\* Two operators: one moves p1 under a throttle, the other verifies p1.
RacingCommands == {[Move(p1, {b2}) EXCEPT !.additional = FALSE], Command("verify", p1 :> {b2})}
=============================================================================

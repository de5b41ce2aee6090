------------------------------ MODULE AdminTool ------------------------------
(***************************************************************************)
(* What the administrative commands have in common.  An operator runs a    *)
(* script, one command after the other, each of which checks its arguments,*)
(* reads what it needs, sends a request and reports.  Any call may be      *)
(* refused or lose its answer, and other clients change the cluster        *)
(* between any two of them.                                                *)
(***************************************************************************)
EXTENDS Naturals, Sequences, FiniteSets

CONSTANTS Scripts,       \* sequences of commands
          MaxFaults,     \* refusals and lost answers in a behaviour
          MaxForeign     \* changes made by other clients in a behaviour

VARIABLES script, turn,  \* the script, and the command that runs
          pc,            \* where that command is
          seen,          \* what it has read
          asked,         \* what it has asked the cluster to do
          applied,       \* what the cluster has done for it
          rows,          \* the rows it has printed
          exit,          \* how it ended: "none" while it runs
          past,          \* how the commands before it ended
          calm,          \* no fault and no other client has disturbed it
          faults, foreign

commandVars == <<pc, seen, asked, applied, rows, exit>>
scriptVars == <<script, turn, past>>
adminVars == <<commandVars, scriptVars, calm, faults, foreign>>

cmd == script[turn]
Is(tool, action) == cmd.tool = tool /\ cmd.action = action

IsOption(option) == \A v, w \in option : v = w
The(option) == CHOOSE v \in option : TRUE
Given(option, Ok(_)) == \A v \in option : Ok(v)
Items(outcome) == {row[1] : row \in {r \in rows : r[2] = outcome}}
Rows(items, outcome) == items \X {outcome}
Shown == Items("shown")

AdminInit ==
  /\ script \in Scripts
  /\ turn = 1 /\ past = <<>>
  /\ pc = "start" /\ seen = {} /\ asked = {} /\ applied = {} /\ rows = {}
  /\ exit = "none"
  /\ calm = TRUE /\ faults = 0 /\ foreign = 0

\* The command ends with a report or with an error, having asked for nothing more.
\* "usage" is a refusal of its arguments, be it that they are wrong or not supported.
Tell(report, outcome) ==
  /\ pc' = "done" /\ exit' = outcome /\ rows' = report
  /\ UNCHANGED <<seen, asked, applied, scriptVars, calm, faults, foreign>>
Report(report) == Tell(report, "ok")
Stop(outcome) ==
  /\ pc' = "done" /\ exit' = outcome
  /\ UNCHANGED <<seen, asked, applied, rows, scriptVars, calm, faults, foreign>>
Usage == Stop("usage")
Failed == Stop("error")

\* It goes on with what it has read.
Read(next, value) ==
  /\ pc' = next /\ seen' = value
  /\ UNCHANGED <<asked, applied, rows, exit, scriptVars, calm, faults, foreign>>
Goto(next) == Read(next, seen)

\* A call of its own fails.
Reads == {"start", "identify", "configs", "again", "decide", "scram"}
CallFails ==
  /\ pc \in Reads
  /\ faults < MaxFaults /\ faults' = faults + 1
  /\ pc' = "done" /\ exit' = "error" /\ calm' = FALSE
  /\ UNCHANGED <<seen, asked, applied, rows, scriptVars, foreign>>

\* Mutant: nobody counts the rows that failed.
VerdictBlind(report, manner) == "ok"

\* How an answer is told.  rows: one row for each thing, "partial" if one failed.
\* lenient: the same rows, and always a success.  firstError: no rows, and the first
\* error ends the command.
Verdict(report, manner) ==
  IF manner = "rows" /\ \E row \in report : row[2] = "failed" THEN "partial" ELSE "ok"

\* The request for `items`, of which the cluster can do `can`; `noops` are answered
\* with an error that the command takes for a success.  A fault refuses one more of
\* the items or loses the answer.
Request(items, can, noops, manner) ==
  \E refused \in {{}} \cup {{i} : i \in items}, lost \in BOOLEAN :
    LET done == can \ refused
        failed == items \ (done \cup (noops \ refused))
        report == Rows(done, "done") \cup Rows(noops \ refused, "noop") \cup Rows(failed, "failed")
    IN /\ faults' = faults + Cardinality(refused) + (IF lost THEN 1 ELSE 0)
       /\ faults' <= MaxFaults
       /\ calm' = (calm /\ faults' = faults)
       /\ asked' = items /\ applied' = done
       /\ pc' = "done"
       /\ IF lost \/ (manner = "firstError" /\ failed # {})
          THEN exit' = "error" /\ rows' = {}
          ELSE exit' = Verdict(report, manner) /\ rows' = report
       /\ UNCHANGED <<seen, scriptVars, foreign>>

\* The same, asked only whether it could be done.
DryRun(items, can) ==
  LET report == Rows(can, "preview") \cup Rows(items \ can, "failed")
  IN Tell(report, Verdict(report, "rows"))

\* The operator goes on with the script, whatever came of this command.
NextCommand ==
  /\ pc = "done" /\ turn < Len(script)
  /\ turn' = turn + 1
  /\ past' = Append(past, [exit |-> exit, calm |-> calm, done |-> asked # {} /\ applied = asked])
  /\ pc' = "start" /\ seen' = {} /\ asked' = {} /\ applied' = {} /\ rows' = {}
  /\ exit' = "none" /\ calm' = TRUE
  /\ UNCHANGED <<script, faults, foreign>>

\* Another client changes the cluster.
Foreign ==
  /\ foreign < MaxForeign /\ foreign' = foreign + 1
  /\ exit = "none" /\ calm' = FALSE
  /\ UNCHANGED <<commandVars, scriptVars, faults>>

\* The second command of a script is over, undisturbed.
SecondOver == turn = 2 /\ exit # "none" /\ calm

AdminTypeOK ==
  /\ script \in Scripts /\ turn \in 1..Len(script)
  /\ past \in Seq([exit : {"ok", "partial", "usage", "error"}, calm : BOOLEAN, done : BOOLEAN])
  /\ Len(past) = turn - 1 /\ calm \in BOOLEAN
  /\ exit \in {"none", "ok", "partial", "usage", "error"}
  /\ (exit = "none") = (pc # "done")
  /\ applied \subseteq asked
  /\ \A row \in rows : row[2] \in {"done", "noop", "failed", "shown", "preview"}
=============================================================================

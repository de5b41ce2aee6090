----------------------------- MODULE ClientTool -----------------------------
(***************************************************************************)
(* What the data-plane commands of the tool have in common: the arguments  *)
(* of the one command that runs, where it is, what it has told the reader  *)
(* of its standard output about its life, how it ended, and the interrupt  *)
(* signal.                                                                 *)
(*                                                                         *)
(* The signal is tokio's.  Until a ctrl_c() future has been polled once,   *)
(* SIGINT has its default action and kills the process.  After that the    *)
(* default action is gone for good and a signal only reaches the futures   *)
(* that are subscribed when it arrives: one that arrives while the command *)
(* holds no such future is lost.                                           *)
(***************************************************************************)
EXTENDS Naturals, Sequences, FiniteSets

CONSTANTS Commands,      \* the commands that may run, as records
          MaxRecords     \* records a command handles, and a partition holds

ASSUME MaxRecordsAssumption == MaxRecords \in Nat \ {0}

VARIABLES cmd,           \* the command
          pc,            \* where it is
          exit,          \* how it ended: "none" while it runs
          signal,        \* SIGINT: its disposition, or that one is waiting
          events         \* the lifecycle events written, in order

toolVars == <<cmd, pc, exit, signal, events>>

Record == 1..MaxRecords

\* default: SIGINT kills.  armed: tokio's handler is installed.  pending: one
\* arrived and a future that heard it has not been polled yet.  missed: one
\* arrived when nobody listened.
Signals == {"default", "armed", "pending", "missed"}
Exits == {"none", "ok", "usage", "error", "killed"}

\* An option that may be absent, a limit that may be -1, is a set of at most one
\* value.
The(option) == CHOOSE v \in option : TRUE
UnderLimit(limit, n) == \A m \in limit : n < m

Running == exit = "none"

Goto(label) == pc' = label /\ UNCHANGED exit
End(outcome) == pc' = "done" /\ exit' = outcome

\* Polling ctrl_c() installs the handler, the first time.
Armed == signal' = IF signal = "default" THEN "armed" ELSE signal
\* A future that heard the signal is dropped, or its branch is not taken.
Drop == signal' = IF signal = "default" THEN "default"
                  ELSE IF signal = "pending" THEN "missed" ELSE signal

\* The operator presses Ctrl-C.
Interrupt(listening) ==
  /\ Running
  /\ signal # "pending"
  /\ IF signal = "default"
     THEN End("killed") /\ UNCHANGED signal
     ELSE /\ signal' = IF listening THEN "pending" ELSE "missed"
          /\ UNCHANGED <<pc, exit>>
  /\ UNCHANGED <<cmd, events>>

Said(event) == \E i \in DOMAIN events : events[i] = event

ToolInit(commands) ==
  /\ cmd \in commands
  /\ pc = "start"
  /\ exit = "none"
  /\ signal = "default"
  /\ events = <<>>

ToolTypeOK ==
  /\ cmd \in Commands
  /\ exit \in Exits
  /\ signal \in Signals
  /\ (exit = "none") = (pc # "done")
  /\ \A i \in DOMAIN events :
       events[i] \in {"startup_complete", "shutdown_requested",
                      "shutdown_complete", "tool_data"}
=============================================================================

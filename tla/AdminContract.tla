---------------------------- MODULE AdminContract ----------------------------
(***************************************************************************)
(* What an administrative command promises to who runs it: the exit status *)
(* and the rows of its report against what the cluster has done for it.    *)
(* It says nothing of how the command gets there.                          *)
(*                                                                         *)
(*   ok       everything it asked for is done, or was so already           *)
(*   partial  there is a row for everything it asked for, one says FAILED  *)
(*   usage    nothing was asked of the cluster                             *)
(*   error    no report: anything it asked for may have been done          *)
(*                                                                         *)
(* A row says of one thing that it is done, was so already or has failed.  *)
(***************************************************************************)
EXTENDS FiniteSets

VARIABLES phase,          \* "working" or "over"
          asked,          \* what the command has asked the cluster to do
          applied,        \* what of it the cluster has done for the command
          rows,           \* the report: pairs of a thing and what is said of it
          exit,           \* the status it ended with, "none" before that
          lenient         \* the command has no "partial"

contractVars == <<phase, asked, applied, rows, exit, lenient>>

Said(outcome) == {row[1] : row \in {r \in rows : r[2] = outcome}}
Settled == applied \cup Said("noop")

Honest ==
  /\ Said("done") \subseteq applied
  /\ Said("failed") \cap applied = {}
  /\ exit = "ok" => asked \subseteq Settled \cup (IF lenient THEN Said("failed") ELSE {})
  /\ exit = "partial" => /\ Said("failed") # {}
                         /\ asked \subseteq {row[1] : row \in rows}
  /\ exit = "usage" => asked = {} /\ rows = {}
  /\ exit = "error" => rows = {}

Init ==
  /\ phase = "working" /\ asked = {} /\ applied = {} /\ rows = {} /\ exit = "none"
  /\ lenient \in BOOLEAN

\* The command asks the cluster for something, which does some of it: at once, or
\* in a request of its own for each part.
Ask ==
  /\ phase = "working" /\ phase' = "working"
  /\ asked \subseteq asked' /\ applied \subseteq applied'
  /\ UNCHANGED <<rows, exit, lenient>>

Finish ==
  /\ phase = "working" /\ phase' = "over"
  /\ asked \subseteq asked' /\ applied \subseteq applied'
  /\ exit' # "none"
  /\ Honest'
  /\ UNCHANGED lenient

\* Another command begins.
Again ==
  /\ phase = "over" /\ phase' = "working"
  /\ asked' = {} /\ applied' = {} /\ rows' = {} /\ exit' = "none"
  /\ lenient' \in BOOLEAN

Next == Ask \/ Finish \/ Again

Spec == Init /\ [][Next]_contractVars
=============================================================================

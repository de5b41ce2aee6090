----------------------------- MODULE HangingTxn -----------------------------
(***************************************************************************)
(* `kafka transactions find-hanging`, `abort` and                           *)
(* `forceTerminateTransaction` against partition leaders and transaction    *)
(* coordinators that go on working between the calls of a command.          *)
(*                                                                         *)
(* Each partition keeps, for each producer id, the transaction open there:  *)
(* its start offset (-1: none), the time of its last record, the producer's *)
(* epoch.  The coordinator of a producer keeps the partitions of its        *)
(* current transaction until each has its end marker.  A transaction is     *)
(* hanging when it is open on a partition that no coordinator will end.     *)
(*                                                                         *)
(* Abstractions.  A producer id has one transactional id, so descriptions   *)
(* are looked up by producer.  Only the log end of a partition is kept.      *)
(* The order in which partitions are read is arbitrary.  Coordinator epochs  *)
(* are left out: a marker they refuse is one of the refusals below.         *)
(***************************************************************************)
EXTENDS Integers, FiniteSets

CONSTANTS
  Partitions,             \* the partitions find-hanging looks at
  Producers,              \* producer ids
  MaxTransactionTimeout,  \* the threshold of find-hanging
  Commands,               \* what the operator runs
  MaxOffset,              \* bound: length of a partition
  MaxTime,                \* bound: the clock
  MaxEpoch,               \* bound: producer epochs
  MaxLate,                \* bound: produce requests that arrive too late
  MaxFaults               \* bound: failed calls, refused markers, lost replies

ASSUME ParametersAssumption ==
  /\ MaxTransactionTimeout \in Nat /\ MaxOffset \in Nat /\ MaxTime \in Nat
  /\ MaxEpoch \in Nat /\ MaxLate \in Nat /\ MaxFaults \in Nat
  /\ Commands \subseteq {"find", "abortAt", "abortOf"}

VARIABLES
  now,      \* the clock
  end,      \* partitions: log end offset
  txn,      \* partitions: the open transaction of a producer
  owned,    \* coordinators: the partitions of a producer's transaction
  ending,   \* coordinators: producers whose transaction is being ended
  epoch,    \* coordinators: current epoch of a producer
  known,    \* coordinators: producers whose transactional id is kept
  late,     \* number of late produce requests so far
  find,     \* the find-hanging command
  abort,    \* the abort command
  faults    \* number of faults so far

logs == <<end, txn>>
coordinators == <<owned, ending, epoch, known>>
world == <<now, logs, coordinators, late>>
vars == <<world, find, abort, faults>>

Transaction == [start : Int, last : Nat, epoch : Nat]

\* A candidate or a row: the transaction of a producer that starts at an offset.
Entry == [part : Partitions, producer : Producers, start : Int]

Finder == [pc : {"idle", "read", "list", "describe", "done", "failed"},
           clock      : Nat,                \* time the command took at its start
           left       : SUBSET Partitions,  \* partitions still to read
           candidates : SUBSET Entry,
           listed     : SUBSET Producers,   \* producers ListTransactions returned
           rows       : SUBSET Entry,
           hung       : SUBSET Entry]       \* history: hanging at the start

Aborter == [pc : {"idle", "read", "write", "ok", "usage", "failed", "partial"},
            part     : Partitions,
            asked    : Int,          \* --start-offset, -1 with --producer-id
            producer : Producers,
            epoch    : Nat,
            seen     : Nat]          \* history: log end when the state was read

Fault == faults < MaxFaults /\ faults' = faults + 1

Open(p, q) == txn[p][q].start >= 0

\* Open, and neither in its producer's transaction nor about to be.
Hanging(p, q) == Open(p, q) /\ p \notin owned[q]

-----------------------------------------------------------------------------
(* Producers, partition leaders and coordinators *)

Tick ==
  /\ now < MaxTime
  /\ now' = now + 1
  /\ UNCHANGED <<logs, coordinators, late, find, abort, faults>>

\* Bound: the last record leaves time for its transaction to grow old.
CanWrite(p) == end[p] < MaxOffset /\ now + MaxTransactionTimeout < MaxTime

\* A partition joins the producer's transaction before the first record.
AddPartition(q, p) ==
  /\ q \in known /\ q \notin ending
  /\ owned' = [owned EXCEPT ![q] = @ \union {p}]
  /\ UNCHANGED <<now, logs, ending, epoch, known, late, find, abort, faults>>

\* A record of epoch e opens a transaction unless one is open already.
Write(q, p, e) ==
  /\ CanWrite(p)
  /\ e >= txn[p][q].epoch
  /\ txn' = [txn EXCEPT ![p][q] =
               [start |-> IF Open(p, q) THEN @.start ELSE end[p],
                last |-> now, epoch |-> e]]
  /\ end' = [end EXCEPT ![p] = @ + 1]

Produce(q, p) ==
  /\ p \in owned[q] /\ q \notin ending
  /\ Write(q, p, epoch[q])
  /\ UNCHANGED <<now, coordinators, late, find, abort, faults>>

\* A delayed request is appended after its transaction has ended.
LateProduce(q, p, e) ==
  /\ late < MaxLate /\ late' = late + 1
  /\ p \notin owned[q] /\ e <= epoch[q]
  /\ Write(q, p, e)
  /\ UNCHANGED <<now, coordinators, find, abort, faults>>

EndTransaction(q) ==
  /\ owned[q] # {} /\ q \notin ending
  /\ ending' = ending \union {q}
  /\ UNCHANGED <<now, logs, owned, epoch, known, late, find, abort, faults>>

Closed(p, q, e) ==
  [txn EXCEPT ![p][q] = [start |-> -1, last |-> txn[p][q].last, epoch |-> e]]

\* The coordinator forgets a partition once its marker is written.
EndMarker(q, p) ==
  /\ q \in ending /\ p \in owned[q]
  /\ txn' = Closed(p, q, epoch[q])
  /\ owned' = [owned EXCEPT ![q] = @ \ {p}]
  /\ ending' = IF owned[q] = {p} THEN ending \ {q} ELSE ending
  /\ UNCHANGED <<now, end, epoch, known, late, find, abort, faults>>

\* An idle transactional id expires; its producer id is not used again.
Expire(q) ==
  /\ q \in known /\ owned[q] = {}
  /\ known' = known \ {q}
  /\ UNCHANGED <<now, logs, owned, ending, epoch, late, find, abort, faults>>

\* forceTerminateTransaction: init_transactions takes the next epoch and has the
\* coordinator end what the old one left open.
ForceTerminate(q) ==
  /\ q \in known /\ q \notin ending /\ epoch[q] < MaxEpoch
  /\ epoch' = [epoch EXCEPT ![q] = @ + 1]
  /\ ending' = IF owned[q] = {} THEN ending ELSE ending \union {q}
  /\ UNCHANGED <<now, logs, owned, known, late, find, abort, faults>>

-----------------------------------------------------------------------------
(* find-hanging *)

\* Mutant: the operands are swapped.
IdleBackwards(p, q, clock) == txn[p][q].last - clock > MaxTransactionTimeout

\* Longer than the timeout without a record, by the clock the command took once.
Idle(p, q, clock) == clock - txn[p][q].last > MaxTransactionTimeout

EntryOf(p, q) == [part |-> p, producer |-> q, start |-> txn[p][q].start]

StartFind ==
  /\ "find" \in Commands
  /\ find.pc \in {"idle", "done", "failed"}
  /\ find' = [pc |-> "read", clock |-> now, left |-> Partitions,
              candidates |-> {}, listed |-> {}, rows |-> {},
              hung |-> {e \in {EntryOf(p, q) : p \in Partitions, q \in Producers} :
                          /\ Hanging(e.part, e.producer)
                          /\ Idle(e.part, e.producer, now)}]
  /\ UNCHANGED <<world, abort, faults>>

Found(p) == {q \in Producers : Open(p, q) /\ Idle(p, q, find.clock)}

\* transaction_producer_states of one partition
ReadPartition(p) ==
  /\ find.pc = "read" /\ p \in find.left
  /\ find' = [find EXCEPT
       !.left = @ \ {p},
       !.candidates = @ \union {EntryOf(p, q) : q \in Found(p)},
       !.pc = IF find.left = {p} THEN "list" ELSE "read"]
  /\ UNCHANGED <<world, abort, faults>>

\* The transactional ids of the candidates' producers
ListTransactions ==
  /\ find.pc = "list"
  /\ find' = [find EXCEPT
       !.listed = {c.producer : c \in find.candidates} \intersect known,
       !.pc = "describe"]
  /\ UNCHANGED <<world, abort, faults>>

\* Mutants: a transaction being ended does not count; any partition of the
\* producer's transaction counts.
OwnedWhileOngoing(c, described) ==
  c.producer \in described \ ending /\ c.part \in owned[c.producer]
OwnsAnything(c, described) == c.producer \in described /\ owned[c.producer] # {}

\* A description without an error names the partitions of the transaction.
StillOwned(c, described) == c.producer \in described /\ c.part \in owned[c.producer]

\* The rows are the candidates that no description owns.  A description with an
\* error has no partitions, and nothing looks at the error.
DescribeTransactions ==
  /\ find.pc = "describe"
  /\ \E errors \in SUBSET find.listed :
       /\ errors # {} => Fault
       /\ errors = {} => UNCHANGED faults
       /\ find' = [find EXCEPT
            !.rows = {c \in find.candidates : ~StillOwned(c, find.listed \ errors)},
            !.pc = "done"]
  /\ UNCHANGED <<world, abort>>

FindFails ==
  /\ find.pc \in {"read", "list", "describe"}
  /\ find' = [find EXCEPT !.pc = "failed"]
  /\ Fault
  /\ UNCHANGED <<world, abort>>

-----------------------------------------------------------------------------
(* abort *)

\* --start-offset
StartAbort(p, offset) ==
  /\ "abortAt" \in Commands
  /\ abort.pc \notin {"read", "write"}
  /\ abort' = [abort EXCEPT !.pc = "read", !.part = p, !.asked = offset]
  /\ UNCHANGED <<world, find, faults>>

\* --producer-id, --producer-epoch and --coordinator-epoch: nothing is read.
StartAbortOf(p, q, e) ==
  /\ "abortOf" \in Commands
  /\ abort.pc \notin {"read", "write"}
  /\ abort' = [pc |-> "write", part |-> p, asked |-> -1, producer |-> q,
               epoch |-> e, seen |-> end[p]]
  /\ UNCHANGED <<world, find, faults>>

\* Mutant: any open transaction of the partition will do.
AnyOpen(p, q, offset) == Open(p, q)

StartsAt(p, q, offset) == Open(p, q) /\ txn[p][q].start = offset

\* Mutant: the epoch before the one in the producer state.
EpochBefore(p, q) == txn[p][q].epoch - 1

EpochOf(p, q) == txn[p][q].epoch

ReadForAbort ==
  LET p == abort.part
      found == {q \in Producers : StartsAt(p, q, abort.asked)}
  IN  /\ abort.pc = "read"
      /\ \/ /\ found = {}
            /\ abort' = [abort EXCEPT !.pc = "usage"]
         \/ \E q \in found :
              abort' = [abort EXCEPT !.pc = "write", !.producer = q,
                                     !.epoch = EpochOf(p, q), !.seen = end[p]]
      /\ UNCHANGED <<world, find, faults>>

\* A leader refuses the marker of an epoch it has seen a later one of.
Fenced == abort.epoch < txn[abort.part][abort.producer].epoch

\* Mutant: the errors of the marker's partitions are not looked at.
ExitWithoutErrors(refused) == "ok"

\* Any error row of the marker makes the command fail as Partial.
ExitOf(refused) == IF refused THEN "partial" ELSE "ok"

\* WriteTxnMarkers: the transaction the producer has open by now is closed, or the
\* leader refuses for its epoch or for a reason of its own.
WriteAbortMarker ==
  /\ abort.pc = "write"
  /\ \/ /\ ~Fenced
        /\ txn' = Closed(abort.part, abort.producer, abort.epoch)
        /\ abort' = [abort EXCEPT !.pc = ExitOf(FALSE)]
        /\ UNCHANGED faults
     \/ /\ Fenced
        /\ abort' = [abort EXCEPT !.pc = ExitOf(TRUE)]
        /\ UNCHANGED <<txn, faults>>
     \/ /\ abort' = [abort EXCEPT !.pc = ExitOf(TRUE)]
        /\ Fault
        /\ UNCHANGED txn
  /\ UNCHANGED <<now, end, coordinators, late, find>>

\* A call fails, the marker's perhaps after it was written.
AbortFails ==
  /\ abort.pc \in {"read", "write"}
  /\ abort' = [abort EXCEPT !.pc = "failed"]
  /\ \/ UNCHANGED txn
     \/ /\ abort.pc = "write" /\ ~Fenced
        /\ txn' = Closed(abort.part, abort.producer, abort.epoch)
  /\ Fault
  /\ UNCHANGED <<now, end, coordinators, late, find>>

-----------------------------------------------------------------------------
Init ==
  /\ now = 0
  /\ end = [p \in Partitions |-> 0]
  /\ txn = [p \in Partitions |-> [q \in Producers |->
              [start |-> -1, last |-> 0, epoch |-> 0]]]
  /\ owned = [q \in Producers |-> {}]
  /\ ending = {}
  /\ epoch = [q \in Producers |-> 0]
  /\ known = Producers
  /\ late = 0
  /\ find = [pc |-> "idle", clock |-> 0, left |-> {}, candidates |-> {},
             listed |-> {}, rows |-> {}, hung |-> {}]
  /\ abort \in [pc : {"idle"}, part : Partitions, asked : {-1},
                producer : Producers, epoch : {0}, seen : {0}]
  /\ faults = 0

Producing ==
  \E q \in Producers :
    \/ EndTransaction(q) \/ Expire(q) \/ ForceTerminate(q)
    \/ \E p \in Partitions :
         \/ AddPartition(q, p) \/ Produce(q, p) \/ EndMarker(q, p)
         \/ \E e \in 0..MaxEpoch : LateProduce(q, p, e)

Finding ==
  \/ StartFind \/ ListTransactions \/ DescribeTransactions \/ FindFails
  \/ \E p \in Partitions : ReadPartition(p)

Aborting ==
  \/ ReadForAbort \/ WriteAbortMarker \/ AbortFails
  \/ \E p \in Partitions :
       \/ \E offset \in 0..MaxOffset : StartAbort(p, offset)
       \/ \E q \in Producers, e \in 0..MaxEpoch : StartAbortOf(p, q, e)

Next == Tick \/ Producing \/ Finding \/ Aborting

Spec == Init /\ [][Next]_vars

-----------------------------------------------------------------------------
(* Properties *)

TypeOK ==
  /\ now \in Nat /\ late \in Nat /\ faults \in Nat
  /\ end \in [Partitions -> Nat]
  /\ txn \in [Partitions -> [Producers -> Transaction]]
  /\ owned \in [Producers -> SUBSET Partitions]
  /\ ending \subseteq Producers /\ known \subseteq Producers
  /\ epoch \in [Producers -> Nat]
  /\ find \in Finder
  /\ abort \in Aborter

Reports == find.pc = "describe" /\ find'.pc = "done"

\* "Locate open transactions no longer owned by a coordinator" (src/cli.rs): no
\* row names a transaction that its coordinator still owns when the rows are
\* written, though the partitions, the list and the descriptions were read at
\* different times and a transaction may be ending meanwhile.  Except when a
\* coordinator answers its description with an error (a fault of this step): nothing
\* looks at that error, and the transaction becomes a row.
RowsAreOrphans ==
  [][Reports /\ faults' = faults => \A r \in find'.rows :
       txn[r.part][r.producer].start = r.start => r.part \notin owned[r.producer]]_vars

\* What hung and was idle when the command started and still does when it reports
\* is in the report, whatever the producer does on other partitions.
HangingIsFound ==
  [][Reports => \A h \in find.hung :
       (/\ txn[h.part][h.producer].start = h.start
        /\ Hanging(h.part, h.producer) /\ Idle(h.part, h.producer, find.clock))
         => h \in find'.rows]_vars

\* abort --start-offset closes the transaction it was asked for or, if that one
\* ended after its state was read, a younger one of the same producer; never a
\* transaction that was already open beside it.
AbortIsAimed ==
  [][\A p \in Partitions, q \in Producers :
       (/\ abort.pc = "write" /\ abort'.pc # "write" /\ abort.asked >= 0
        /\ Open(p, q) /\ txn'[p][q].start = -1)
         => \/ txn[p][q].start = abort.asked
            \/ q = abort.producer /\ txn[p][q].start >= abort.seen]_vars

\* When abort --start-offset succeeds the transaction is closed for good.
AbortedIsClosed ==
  (abort.pc = "ok" /\ abort.asked >= 0) =>
    \A q \in Producers : txn[abort.part][q].start # abort.asked

(* Liveness *)

\* The rows of the last report that the operator passes to abort
Reported(p, offset) ==
  find.pc = "done" /\ \E r \in find.rows : r.part = p /\ r.start = offset

\* The operator runs one command at a time, aborts nothing but reported rows,
\* and does not give up: neither looking nor aborting what was found.
Discipline ==
  /\ (abort.pc # "read" /\ abort'.pc = "read") => Reported(abort'.part, abort'.asked)
  /\ (find.pc # "read" /\ find'.pc = "read") => abort.pc \notin {"read", "write"}

Operator ==
  /\ SF_vars(StartFind /\ Discipline)
  /\ \A p \in Partitions, offset \in 0..MaxOffset :
       SF_vars(Reported(p, offset) /\ StartAbort(p, offset))

Fairness ==
  /\ WF_vars(Tick)
  /\ \A q \in Producers, p \in Partitions : WF_vars(EndMarker(q, p))
  /\ \A p \in Partitions : WF_vars(ReadPartition(p))
  /\ WF_vars(ListTransactions) /\ WF_vars(DescribeTransactions)
  /\ WF_vars(ReadForAbort) /\ WF_vars(WriteAbortMarker)
  /\ Operator

FairSpec == Init /\ [][Next /\ Discipline]_vars /\ Fairness

\* An operator who aborts what find-hanging reports gets rid of every hanging
\* transaction: each is sooner or later closed or taken into a transaction.
HangingCleared ==
  \A p \in Partitions, q \in Producers : Hanging(p, q) ~> ~Hanging(p, q)
=============================================================================

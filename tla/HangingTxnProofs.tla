-------------------------- MODULE HangingTxnProofs --------------------------
(***************************************************************************)
(* Proofs about HangingTxn for every set of partitions and producers, every *)
(* threshold and every bound: the types, that a successful abort has closed *)
(* the transaction it was asked for, that find-hanging reports what hung all *)
(* along, and that it reports nothing a coordinator owns provided that no     *)
(* description carries an error.                                            *)
(***************************************************************************)
EXTENDS HangingTxn, TLAPS

-----------------------------------------------------------------------------
(* Types *)

LEMMA EntryType ==
  ASSUME TypeOK, NEW p \in Partitions, NEW q \in Producers
  PROVE  /\ txn[p][q] \in Transaction
         /\ EntryOf(p, q) \in Entry
BY DEF TypeOK, EntryOf, Entry, Transaction

\* What writing into one producer's transaction leaves.
LEMMA TxnUpdate ==
  ASSUME TypeOK, NEW p \in Partitions, NEW q \in Producers, NEW t \in Transaction,
         txn' = [txn EXCEPT ![p][q] = t]
  PROVE  /\ txn' \in [Partitions -> [Producers -> Transaction]]
         /\ txn'[p][q] = t
         /\ \A p2 \in Partitions, q2 \in Producers :
              (p2 # p \/ q2 # q) => txn'[p2][q2] = txn[p2][q2]
BY DEF TypeOK

LEMMA WriteUpdate ==
  ASSUME TypeOK, NEW p \in Partitions, NEW q \in Producers, NEW e \in Nat,
         Write(q, p, e)
  PROVE  /\ end' \in [Partitions -> Nat]
         /\ txn' \in [Partitions -> [Producers -> Transaction]]
         /\ txn'[p][q] = [start |-> IF Open(p, q) THEN txn[p][q].start ELSE end[p],
                          last |-> now, epoch |-> e]
         /\ \A p2 \in Partitions, q2 \in Producers :
              (p2 # p \/ q2 # q) => txn'[p2][q2] = txn[p2][q2]
         /\ end'[p] = end[p] + 1
         /\ \A p2 \in Partitions : p2 # p => end'[p2] = end[p2]
<1> DEFINE t == [start |-> IF Open(p, q) THEN txn[p][q].start ELSE end[p],
                 last |-> now, epoch |-> e]
<1>1. t \in Transaction
  BY EntryType DEF TypeOK, Transaction
<1>2. txn' = [txn EXCEPT ![p][q] = t]
  BY DEF Write
<1>3. end' = [end EXCEPT ![p] = end[p] + 1]
  BY DEF Write
<1>4. end' \in [Partitions -> Nat] /\ end'[p] = end[p] + 1
      /\ \A p2 \in Partitions : p2 # p => end'[p2] = end[p2]
  BY <1>3 DEF TypeOK
<1> HIDE DEF t
<1>5. /\ txn' \in [Partitions -> [Producers -> Transaction]]
      /\ txn'[p][q] = t
      /\ \A p2 \in Partitions, q2 \in Producers :
           (p2 # p \/ q2 # q) => txn'[p2][q2] = txn[p2][q2]
  BY <1>1, <1>2, TxnUpdate, ZenonT(40)
<1> QED BY <1>4, <1>5 DEF t

LEMMA ClosedUpdate ==
  ASSUME TypeOK, NEW p \in Partitions, NEW q \in Producers, NEW e \in Nat,
         txn' = Closed(p, q, e)
  PROVE  /\ txn' \in [Partitions -> [Producers -> Transaction]]
         /\ txn'[p][q] = [start |-> -1, last |-> txn[p][q].last, epoch |-> e]
         /\ txn'[p][q].start = -1 /\ txn'[p][q].last = txn[p][q].last
         /\ \A p2 \in Partitions, q2 \in Producers :
              (p2 # p \/ q2 # q) => txn'[p2][q2] = txn[p2][q2]
<1> DEFINE t == [start |-> -1, last |-> txn[p][q].last, epoch |-> e]
<1>1. t \in Transaction
  BY EntryType DEF Transaction
<1>2. txn' = [txn EXCEPT ![p][q] = t]
  BY DEF Closed
<1>4. t.start = -1 /\ t.last = txn[p][q].last
  OBVIOUS
<1> HIDE DEF t
<1>3. /\ txn' \in [Partitions -> [Producers -> Transaction]]
      /\ txn'[p][q] = t
      /\ \A p2 \in Partitions, q2 \in Producers :
           (p2 # p \/ q2 # q) => txn'[p2][q2] = txn[p2][q2]
  BY <1>1, <1>2 DEF TypeOK
<1> QED BY <1>3, <1>4 DEF t

LEMMA FaultType == ASSUME TypeOK, Fault PROVE faults' \in Nat
BY DEF TypeOK, Fault

\* The steps of the world outside the two commands.
World == Tick \/ Producing

LEMMA WorldType ==
  ASSUME TypeOK, World
  PROVE  TypeOK'
<1>1. CASE Tick
  BY <1>1 DEF Tick, TypeOK, logs, coordinators
<1>2. ASSUME NEW q \in Producers, EndTransaction(q) PROVE TypeOK'
  BY <1>2 DEF EndTransaction, TypeOK, logs
<1>3. ASSUME NEW q \in Producers, Expire(q) PROVE TypeOK'
  BY <1>3 DEF Expire, TypeOK, logs
<1>4. ASSUME NEW q \in Producers, ForceTerminate(q) PROVE TypeOK'
  BY <1>4 DEF ForceTerminate, TypeOK, logs
<1>5. ASSUME NEW q \in Producers, NEW p \in Partitions, AddPartition(q, p) PROVE TypeOK'
  BY <1>5 DEF AddPartition, TypeOK, logs
<1>6. ASSUME NEW q \in Producers, NEW p \in Partitions, Produce(q, p) PROVE TypeOK'
  <2>1. epoch[q] \in Nat
    BY DEF TypeOK
  <2> QED BY <1>6, <2>1, WriteUpdate DEF Produce, TypeOK, coordinators
<1>7. ASSUME NEW q \in Producers, NEW p \in Partitions, EndMarker(q, p) PROVE TypeOK'
  <2>1. epoch[q] \in Nat
    BY DEF TypeOK
  <2> QED BY <1>7, <2>1, ClosedUpdate DEF EndMarker, TypeOK
<1>8. ASSUME NEW q \in Producers, NEW p \in Partitions, NEW e \in 0..MaxEpoch,
             LateProduce(q, p, e)
      PROVE  TypeOK'
  <2>1. e \in Nat
    BY ParametersAssumption
  <2>2. end' \in [Partitions -> Nat] /\ txn' \in [Partitions -> [Producers -> Transaction]]
    BY <1>8, <2>1, WriteUpdate DEF LateProduce
  <2>3. late' \in Nat
    BY <1>8 DEF LateProduce, TypeOK
  <2> QED BY <1>8, <2>2, <2>3 DEF LateProduce, TypeOK, coordinators
<1> QED BY <1>1, <1>2, <1>3, <1>4, <1>5, <1>6, <1>7, <1>8 DEF World, Producing

LEMMA FindType ==
  ASSUME TypeOK, Finding
  PROVE  TypeOK'
<1> USE DEF Finder
<1>1. CASE StartFind
  <2>1. {e \in {EntryOf(p, q) : p \in Partitions, q \in Producers} :
           /\ Hanging(e.part, e.producer)
           /\ Idle(e.part, e.producer, now)} \in SUBSET Entry
    BY EntryType
  <2> QED BY <1>1, <2>1 DEF StartFind, TypeOK, world, logs, coordinators
<1>2. ASSUME NEW p \in Partitions, ReadPartition(p) PROVE TypeOK'
  <2> DEFINE cs == find.candidates \union {EntryOf(p, q) : q \in Found(p)}
  <2>1. cs \in SUBSET Entry
    BY EntryType DEF TypeOK, Found
  <2>2. find' = [find EXCEPT !.left = find.left \ {p}, !.candidates = cs,
                             !.pc = IF find.left = {p} THEN "list" ELSE "read"]
    BY <1>2 DEF ReadPartition
  <2> HIDE DEF cs
  <2>3. find' \in Finder
    BY <2>1, <2>2 DEF TypeOK
  <2> QED BY <1>2, <2>3 DEF ReadPartition, TypeOK, world, logs, coordinators
<1>3. CASE ListTransactions
  <2> DEFINE ls == {c.producer : c \in find.candidates} \intersect known
  <2>1. ls \in SUBSET Producers
    BY DEF TypeOK
  <2>2. find' = [find EXCEPT !.listed = ls, !.pc = "describe"]
    BY <1>3 DEF ListTransactions
  <2> HIDE DEF ls
  <2>3. find' \in Finder
    BY <2>1, <2>2 DEF TypeOK
  <2> QED BY <1>3, <2>3 DEF ListTransactions, TypeOK, world, logs, coordinators
<1>4. CASE DescribeTransactions
  <2>1. PICK errors \in SUBSET find.listed :
          /\ errors # {} => Fault
          /\ errors = {} => UNCHANGED faults
          /\ find' = [find EXCEPT
               !.rows = {c \in find.candidates : ~StillOwned(c, find.listed \ errors)},
               !.pc = "done"]
    BY <1>4 DEF DescribeTransactions
  <2> DEFINE rs == {c \in find.candidates : ~StillOwned(c, find.listed \ errors)}
  <2>2. rs \in SUBSET Entry
    BY DEF TypeOK
  <2>3. find' = [find EXCEPT !.rows = rs, !.pc = "done"]
    BY <2>1
  <2> HIDE DEF rs
  <2>4. find' \in Finder
    BY <2>2, <2>3 DEF TypeOK
  <2>5. faults' \in Nat
    BY <2>1, FaultType DEF TypeOK
  <2> QED BY <1>4, <2>4, <2>5 DEF DescribeTransactions, TypeOK, world, logs, coordinators
<1>5. CASE FindFails
  BY <1>5, FaultType DEF FindFails, TypeOK, world, logs, coordinators
<1> QED BY <1>1, <1>2, <1>3, <1>4, <1>5 DEF Finding

LEMMA AbortType ==
  ASSUME TypeOK, Aborting
  PROVE  TypeOK'
<1> USE DEF Aborter
<1>1. ASSUME NEW p \in Partitions, NEW offset \in 0..MaxOffset, StartAbort(p, offset)
      PROVE  TypeOK'
  <2>1. offset \in Int
    BY ParametersAssumption
  <2>2. abort' \in Aborter
    BY <1>1, <2>1 DEF StartAbort, TypeOK
  <2> QED BY <1>1, <2>2 DEF StartAbort, TypeOK, world, logs, coordinators
<1>2. ASSUME NEW p \in Partitions, NEW q \in Producers, NEW e \in 0..MaxEpoch,
             StartAbortOf(p, q, e)
      PROVE  TypeOK'
  BY <1>2, ParametersAssumption DEF StartAbortOf, TypeOK, world, logs, coordinators
<1>3. CASE ReadForAbort
  <2>1. CASE abort' = [abort EXCEPT !.pc = "usage"]
    BY <1>3, <2>1 DEF ReadForAbort, TypeOK, world, logs, coordinators
  <2>2. ASSUME NEW q \in Producers,
               abort' = [abort EXCEPT !.pc = "write", !.producer = q,
                           !.epoch = EpochOf(abort.part, q), !.seen = end[abort.part]]
        PROVE  TypeOK'
    <3>1. EpochOf(abort.part, q) \in Nat /\ end[abort.part] \in Nat
      BY EntryType DEF TypeOK, EpochOf, Transaction
    <3>2. abort' \in Aborter
      BY <2>2, <3>1 DEF TypeOK
    <3> QED BY <1>3, <3>2 DEF ReadForAbort, TypeOK, world, logs, coordinators
  <2> QED BY <1>3, <2>1, <2>2 DEF ReadForAbort
<1>4. abort.part \in Partitions /\ abort.producer \in Producers /\ abort.epoch \in Nat
  BY DEF TypeOK
<1>5. UNCHANGED txn \/ txn' = Closed(abort.part, abort.producer, abort.epoch)
        => txn' \in [Partitions -> [Producers -> Transaction]]
  BY <1>4, ClosedUpdate DEF TypeOK
<1>6. CASE WriteAbortMarker
  <2>1. abort' \in Aborter
    BY <1>6 DEF WriteAbortMarker, ExitOf, TypeOK
  <2>2. faults' \in Nat
    BY <1>6, FaultType DEF WriteAbortMarker, TypeOK
  <2> QED BY <1>5, <1>6, <2>1, <2>2 DEF WriteAbortMarker, TypeOK, coordinators
<1>7. CASE AbortFails
  <2>1. abort' \in Aborter /\ faults' \in Nat
    BY <1>7, FaultType DEF AbortFails, TypeOK
  <2> QED BY <1>5, <1>7, <2>1 DEF AbortFails, TypeOK, coordinators
<1> QED BY <1>1, <1>2, <1>3, <1>6, <1>7 DEF Aborting

LEMMA InitType == Init => TypeOK
BY DEF Init, TypeOK, Transaction, Finder, Aborter, Entry

LEMMA StepType == TypeOK /\ [Next]_vars => TypeOK'
<1> SUFFICES ASSUME TypeOK, [Next]_vars PROVE TypeOK'
  OBVIOUS
<1>1. CASE UNCHANGED vars
  BY <1>1 DEF TypeOK, vars, world, logs, coordinators
<1> QED BY <1>1, WorldType, FindType, AbortType DEF Next, World

\* Every variable keeps its type, in particular the epoch and the offset that an
\* abort copies from a producer state.
THEOREM TypeCorrect == Spec => []TypeOK
<1> QED BY InitType, StepType, PTL DEF Spec

-----------------------------------------------------------------------------
(* abort --start-offset *)

\* A partition's transactions start below its end, each at an offset of its own.
StartsInv ==
  /\ \A p \in Partitions, q \in Producers : txn[p][q].start < end[p]
  /\ \A p \in Partitions : \A q, r \in Producers :
       (Open(p, q) /\ txn[p][q].start = txn[p][r].start) => q = r

\* The command aims at the only producer that can have the transaction open.
AimInv ==
  abort.asked >= 0 =>
    /\ abort.pc = "write" =>
         /\ abort.asked < end[abort.part]
         /\ abort.asked < abort.seen /\ abort.seen <= end[abort.part]
         /\ \A q \in Producers : txn[abort.part][q].start = abort.asked => q = abort.producer
         /\ \/ txn[abort.part][abort.producer].start \in {-1, abort.asked}
            \/ txn[abort.part][abort.producer].start >= abort.seen
    /\ abort.pc = "ok" =>
         /\ abort.asked < end[abort.part]
         /\ \A q \in Producers : txn[abort.part][q].start # abort.asked

AbortInv == TypeOK /\ StartsInv /\ AimInv

\* What any step may do to a partition's transactions: leave them, close one or
\* open one at the end.
Touches(p, q) ==
  \/ end'[p] = end[p] /\ txn'[p][q].start \in {txn[p][q].start, -1}
  \/ end'[p] = end[p] + 1 /\ txn'[p][q].start = txn[p][q].start
  \/ end'[p] = end[p] + 1 /\ txn'[p][q].start = end[p]

WritesOnce(p) ==
  \A q, r \in Producers :
    (/\ txn'[p][q].start # txn[p][q].start /\ txn'[p][q].start >= 0
     /\ txn'[p][r].start # txn[p][r].start /\ txn'[p][r].start >= 0) => q = r

LEMMA WriteTouches ==
  ASSUME TypeOK, NEW p \in Partitions, NEW q \in Producers, NEW e \in Nat,
         Write(q, p, e), NEW p2 \in Partitions
  PROVE  WritesOnce(p2) /\ \A q2 \in Producers : Touches(p2, q2)
<1>1. \A p3 \in Partitions, q3 \in Producers :
        (p3 # p \/ q3 # q) => txn'[p3][q3] = txn[p3][q3]
  BY WriteUpdate, ZenonT(40)
<1>2. txn'[p][q].start = txn[p][q].start \/ txn'[p][q].start = end[p]
  <2>1. txn'[p][q] = [start |-> IF Open(p, q) THEN txn[p][q].start ELSE end[p],
                      last |-> now, epoch |-> e]
    BY WriteUpdate
  <2> QED BY <2>1
<1>3. end'[p] = end[p] + 1 /\ \A p3 \in Partitions : p3 # p => end'[p3] = end[p3]
  BY WriteUpdate
<1> QED BY <1>1, <1>2, <1>3 DEF WritesOnce, Touches

LEMMA ClosedTouches ==
  ASSUME TypeOK, NEW p \in Partitions, NEW q \in Producers, NEW e \in Nat,
         txn' = Closed(p, q, e), UNCHANGED end, NEW p2 \in Partitions
  PROVE  WritesOnce(p2) /\ \A q2 \in Producers : Touches(p2, q2)
<1>1. \A p3 \in Partitions, q3 \in Producers :
        (p3 # p \/ q3 # q) => txn'[p3][q3] = txn[p3][q3]
  BY ClosedUpdate
<1>2. txn'[p][q].start = -1
  BY ClosedUpdate
<1> QED BY <1>1, <1>2 DEF WritesOnce, Touches

LEMMA SameTouches ==
  ASSUME UNCHANGED logs, NEW p2 \in Partitions
  PROVE  WritesOnce(p2) /\ \A q2 \in Producers : Touches(p2, q2)
BY DEF logs, WritesOnce, Touches

LEMMA StepTouches ==
  ASSUME TypeOK, Next, NEW p2 \in Partitions
  PROVE  WritesOnce(p2) /\ \A q2 \in Producers : Touches(p2, q2)
<1>1. CASE Tick \/ Finding
  <2>1. Finding => UNCHANGED world
    <3>1. DescribeTransactions => UNCHANGED world
      BY DEF DescribeTransactions
    <3>2. \A p \in Partitions : ReadPartition(p) => UNCHANGED world
      BY DEF ReadPartition
    <3>3. StartFind \/ ListTransactions \/ FindFails => UNCHANGED world
      BY DEF StartFind, ListTransactions, FindFails
    <3> QED BY <3>1, <3>2, <3>3 DEF Finding
  <2>2. UNCHANGED logs
    BY <1>1, <2>1 DEF Tick, world
  <2> QED BY <2>2, SameTouches
<1>2. ASSUME NEW q \in Producers, EndTransaction(q) \/ Expire(q) \/ ForceTerminate(q)
      PROVE  WritesOnce(p2) /\ \A q2 \in Producers : Touches(p2, q2)
  BY <1>2, SameTouches DEF EndTransaction, Expire, ForceTerminate
<1>3. ASSUME NEW q \in Producers, NEW p \in Partitions, AddPartition(q, p)
      PROVE  WritesOnce(p2) /\ \A q2 \in Producers : Touches(p2, q2)
  BY <1>3, SameTouches DEF AddPartition
<1>4. ASSUME NEW q \in Producers, NEW p \in Partitions, NEW e \in Nat, Write(q, p, e)
      PROVE  WritesOnce(p2) /\ \A q2 \in Producers : Touches(p2, q2)
  BY <1>4, WriteTouches
<1>5. ASSUME NEW q \in Producers, NEW p \in Partitions, EndMarker(q, p)
      PROVE  WritesOnce(p2) /\ \A q2 \in Producers : Touches(p2, q2)
  <2>1. epoch[q] \in Nat
    BY DEF TypeOK
  <2> QED BY <1>5, <2>1, ClosedTouches DEF EndMarker
<1>6. CASE Aborting
  <2>1. UNCHANGED logs \/ (/\ txn' = Closed(abort.part, abort.producer, abort.epoch)
                           /\ UNCHANGED end)
    BY <1>6 DEF Aborting, StartAbort, StartAbortOf, ReadForAbort, WriteAbortMarker,
                AbortFails, world, logs
  <2>2. abort.part \in Partitions /\ abort.producer \in Producers /\ abort.epoch \in Nat
    BY DEF TypeOK, Aborter
  <2> QED BY <2>1, <2>2, SameTouches, ClosedTouches
<1>7. ASSUME NEW q \in Producers, NEW p \in Partitions, Produce(q, p)
      PROVE  WritesOnce(p2) /\ \A q2 \in Producers : Touches(p2, q2)
  <2>1. epoch[q] \in Nat
    BY DEF TypeOK
  <2> QED BY <1>4, <1>7, <2>1 DEF Produce
<1>8. ASSUME NEW q \in Producers, NEW p \in Partitions, NEW e \in 0..MaxEpoch,
             LateProduce(q, p, e)
      PROVE  WritesOnce(p2) /\ \A q2 \in Producers : Touches(p2, q2)
  <2>1. e \in Nat
    BY ParametersAssumption
  <2> QED BY <1>4, <1>8, <2>1 DEF LateProduce
<1> QED BY <1>1, <1>2, <1>3, <1>5, <1>6, <1>7, <1>8 DEF Next, Producing

LEMMA StartsStep ==
  ASSUME TypeOK, StartsInv, Next
  PROVE  StartsInv'
<1> SUFFICES ASSUME NEW p \in Partitions
    PROVE /\ \A q \in Producers : txn'[p][q].start < end'[p]
          /\ \A q, r \in Producers :
               (txn'[p][q].start >= 0 /\ txn'[p][q].start = txn'[p][r].start) => q = r
  BY DEF StartsInv, Open
<1>1. WritesOnce(p) /\ \A q \in Producers : Touches(p, q)
  BY StepTouches
<1>2. /\ end[p] \in Nat
      /\ \A q \in Producers : txn[p][q].start \in Int /\ txn[p][q].start < end[p]
  BY EntryType DEF TypeOK, StartsInv, Transaction
<1>3. \A q \in Producers : txn'[p][q].start < end'[p]
  BY <1>1, <1>2 DEF Touches
<1>4. ASSUME NEW q \in Producers, NEW r \in Producers,
             txn'[p][q].start >= 0, txn'[p][q].start = txn'[p][r].start
      PROVE  q = r
  <2>1. CASE txn'[p][q].start = txn[p][q].start /\ txn'[p][r].start = txn[p][r].start
    BY <1>4, <2>1 DEF StartsInv, Open
  <2>2. CASE txn'[p][q].start # txn[p][q].start /\ txn'[p][r].start # txn[p][r].start
    BY <1>1, <1>4, <2>2 DEF WritesOnce
  <2>3. CASE txn'[p][q].start # txn[p][q].start /\ txn'[p][r].start = txn[p][r].start
    BY <1>1, <1>2, <1>4, <2>3 DEF Touches
  <2>4. CASE txn'[p][q].start = txn[p][q].start /\ txn'[p][r].start # txn[p][r].start
    <3>1. txn'[p][r].start >= 0
      BY <1>4
    <3>2. Touches(p, r) /\ txn'[p][r].start \notin {txn[p][r].start, -1}
      BY <1>1, <2>4, <3>1
    <3>3. txn'[p][r].start = end[p]
      BY <3>2 DEF Touches
    <3>4. txn[p][q].start = end[p]
      BY <1>4, <2>4, <3>3
    <3> QED BY <1>2, <3>4
  <2> QED BY <2>1, <2>2, <2>3, <2>4
<1> QED BY <1>3, <1>4

\* Steps that are not the abort command's own can only close what it aims at.
LEMMA AimKept ==
  ASSUME AbortInv, Next, UNCHANGED abort
  PROVE  AimInv'
<1>1. abort.part \in Partitions /\ abort.asked \in Int /\ abort.seen \in Nat
  BY DEF AbortInv, TypeOK, Aborter
<1> DEFINE p == abort.part
<1>2. \A q \in Producers : Touches(p, q)
  BY <1>1, StepTouches DEF AbortInv
<1>3. end[p] \in Nat /\ \A q \in Producers : txn[p][q].start \in Int
  BY <1>1, EntryType DEF AbortInv, TypeOK, Transaction
<1>4. ASSUME NEW q \in Producers, abort.asked >= 0, abort.asked < end[p],
             txn'[p][q].start = abort.asked
      PROVE  txn[p][q].start = abort.asked
  BY <1>1, <1>2, <1>3, <1>4 DEF Touches
<1>5. abort.asked >= 0 /\ abort.pc \in {"write", "ok"} => abort.asked < end[p]
  BY DEF AbortInv, AimInv
<1>6. ASSUME NEW q \in Producers, abort.asked >= 0 PROVE end'[p] >= end[p]
  BY <1>2, <1>3 DEF Touches
<1>7. CASE abort.asked >= 0 /\ abort.pc = "write"
  <2>1. /\ abort.asked < abort.seen /\ abort.seen <= end[p]
        /\ \A q \in Producers : txn[p][q].start = abort.asked => q = abort.producer
    BY <1>7 DEF AbortInv, AimInv
  <2>2. abort.producer \in Producers
    BY DEF AbortInv, TypeOK, Aborter
  <2>3. end'[p] >= end[p] /\ end'[p] \in Nat
    BY <1>1, <1>6, <1>7, <2>2, StepType DEF AbortInv, TypeOK
  <2>4. abort.asked < end'[p] /\ abort.seen <= end'[p]
    BY <1>1, <1>3, <1>5, <1>7, <2>1, <2>3
  <2>5. \A q \in Producers : txn'[p][q].start = abort.asked => q = abort.producer
    BY <1>4, <1>5, <1>7, <2>1
  <2>6. \/ txn[p][abort.producer].start \in {-1, abort.asked}
        \/ txn[p][abort.producer].start >= abort.seen
    BY <1>7 DEF AbortInv, AimInv
  <2>7. \/ txn'[p][abort.producer].start \in {-1, abort.asked}
        \/ txn'[p][abort.producer].start >= abort.seen
    BY <1>2, <2>1, <2>2, <2>6 DEF Touches
  <2> QED BY <1>7, <2>1, <2>4, <2>5, <2>7 DEF AimInv
<1>8. CASE abort.asked >= 0 /\ abort.pc = "ok"
  <2>1. \A q \in Producers : txn[p][q].start # abort.asked
    BY <1>8 DEF AbortInv, AimInv
  <2>2. abort.producer \in Producers
    BY DEF AbortInv, TypeOK, Aborter
  <2>3. end'[p] >= end[p] /\ end'[p] \in Nat
    BY <1>1, <1>6, <1>8, <2>2, StepType DEF AbortInv, TypeOK
  <2>4. abort.asked < end'[p]
    BY <1>1, <1>3, <1>5, <1>8, <2>3
  <2>5. \A q \in Producers : txn'[p][q].start # abort.asked
    BY <1>4, <1>5, <1>8, <2>1
  <2> QED BY <1>8, <2>4, <2>5 DEF AimInv
<1> QED BY <1>7, <1>8 DEF AimInv

LEMMA AimRead ==
  ASSUME AbortInv, ReadForAbort
  PROVE  AimInv'
<1>1. abort.part \in Partitions /\ abort.asked \in Int
  BY DEF AbortInv, TypeOK, Aborter
<1>2. UNCHANGED logs
  BY DEF ReadForAbort, world
<1>3. CASE abort' = [abort EXCEPT !.pc = "usage"]
  BY <1>3 DEF AimInv, AbortInv, TypeOK, Aborter
<1>4. ASSUME NEW q \in Producers, StartsAt(abort.part, q, abort.asked),
             abort' = [abort EXCEPT !.pc = "write", !.producer = q,
                         !.epoch = EpochOf(abort.part, q), !.seen = end[abort.part]]
      PROVE  AimInv'
  <2>1. /\ abort'.pc = "write" /\ abort'.producer = q /\ abort'.seen = end[abort.part]
        /\ abort'.asked = abort.asked /\ abort'.part = abort.part
    BY <1>4 DEF AbortInv, TypeOK, Aborter
  <2>2. abort.asked < end[abort.part] /\ end[abort.part] \in Nat
    BY <1>1, <1>4 DEF StartsAt, AbortInv, StartsInv, TypeOK
  <2>3. \A r \in Producers : txn[abort.part][r].start = abort.asked => r = q
    BY <1>1, <1>4 DEF StartsAt, AbortInv, StartsInv
  <2>4. txn[abort.part][q].start = abort.asked
    BY <1>4 DEF StartsAt
  <2> QED BY <1>2, <2>1, <2>2, <2>3, <2>4 DEF AimInv, logs
<1> QED BY <1>3, <1>4 DEF ReadForAbort

LEMMA AimWritten ==
  ASSUME AbortInv, WriteAbortMarker
  PROVE  AimInv'
<1>1. /\ abort.part \in Partitions /\ abort.producer \in Producers
      /\ abort.epoch \in Nat /\ abort.asked \in Int /\ abort \in Aborter
  BY DEF AbortInv, TypeOK, Aborter
<1>2. abort'.asked = abort.asked /\ abort'.part = abort.part /\ UNCHANGED end
  BY <1>1 DEF WriteAbortMarker, Aborter
<1>3. CASE abort'.pc = "partial"
  BY <1>3 DEF AimInv
<1>4. CASE txn' = Closed(abort.part, abort.producer, abort.epoch)
             /\ abort' = [abort EXCEPT !.pc = "ok"] /\ abort.asked >= 0
  <2>0. abort.pc = "write"
    BY DEF WriteAbortMarker
  <2>1. /\ abort.asked < end[abort.part]
        /\ \A q \in Producers :
             txn[abort.part][q].start = abort.asked => q = abort.producer
    BY <1>4, <2>0 DEF AbortInv, AimInv
  <2>2. \A q \in Producers : q # abort.producer => txn'[abort.part][q] = txn[abort.part][q]
    <3>1. \A p2 \in Partitions, q2 \in Producers :
            (p2 # abort.part \/ q2 # abort.producer) => txn'[p2][q2] = txn[p2][q2]
      BY <1>1, <1>4, ClosedUpdate DEF AbortInv
    <3> QED BY <1>1, <3>1
  <2>3. txn'[abort.part][abort.producer].start = -1
    BY <1>1, <1>4, ClosedUpdate DEF AbortInv
  <2>4. \A q \in Producers : txn'[abort.part][q].start # abort.asked
    BY <1>1, <1>4, <2>1, <2>2, <2>3
  <2>5. abort'.pc = "ok"
    BY <1>1, <1>4 DEF Aborter
  <2> QED BY <1>2, <2>1, <2>4, <2>5 DEF AimInv
<1>5. CASE abort.asked < 0
  BY <1>1, <1>2, <1>5 DEF AimInv
<1>6. abort'.pc = "partial"
        \/ (txn' = Closed(abort.part, abort.producer, abort.epoch)
              /\ abort' = [abort EXCEPT !.pc = "ok"])
  BY <1>1 DEF WriteAbortMarker, ExitOf, Aborter
<1> QED BY <1>1, <1>3, <1>4, <1>5, <1>6

\* Only its own steps change the abort command.
LEMMA NotAborting ==
  ASSUME Tick \/ Producing \/ Finding
  PROVE  UNCHANGED abort
<1>1. DescribeTransactions => UNCHANGED abort
  BY DEF DescribeTransactions
<1>2. \A p \in Partitions : ReadPartition(p) => UNCHANGED abort
  BY DEF ReadPartition
<1>3. Finding => UNCHANGED abort
  BY <1>1, <1>2 DEF Finding, StartFind, ListTransactions, FindFails
<1> QED BY <1>3 DEF Tick, Producing, EndTransaction, Expire, ForceTerminate,
                    AddPartition, Produce, EndMarker, LateProduce

LEMMA AbortInvariant == Spec => []AbortInv
<1>1. Init => AbortInv
  <2> SUFFICES ASSUME Init PROVE AbortInv
    OBVIOUS
  <2>1. \A p \in Partitions, q \in Producers : txn[p][q].start = -1 /\ end[p] = 0
    BY DEF Init
  <2>2. StartsInv
    BY <2>1 DEF StartsInv, Open
  <2>3. AimInv
    BY DEF Init, AimInv
  <2> QED BY <2>2, <2>3, InitType DEF AbortInv
<1>2. AbortInv /\ [Next]_vars => AbortInv'
  <2> SUFFICES ASSUME AbortInv, [Next]_vars PROVE AbortInv'
    OBVIOUS
  <2>1. TypeOK'
    BY StepType DEF AbortInv
  <2>2. CASE UNCHANGED vars
    BY <2>1, <2>2 DEF AbortInv, StartsInv, AimInv, Open, vars, world, logs
  <2>3. CASE Next
    <3>1. StartsInv'
      BY <2>3, StartsStep DEF AbortInv
    <3>2. ASSUME UNCHANGED abort PROVE AimInv'
      BY <2>3, <3>2, AimKept
    <3>3. ASSUME ReadForAbort PROVE AimInv'
      BY <3>3, AimRead
    <3>4. ASSUME WriteAbortMarker PROVE AimInv'
      BY <3>4, AimWritten
    <3>5. ASSUME AbortFails PROVE AimInv'
      BY <3>5 DEF AbortFails, AimInv, AbortInv, TypeOK, Aborter
    <3>6. ASSUME NEW p \in Partitions, NEW offset \in 0..MaxOffset, StartAbort(p, offset)
          PROVE  AimInv'
      BY <3>6 DEF StartAbort, AimInv, AbortInv, TypeOK, Aborter
    <3>7. ASSUME NEW p \in Partitions, NEW q \in Producers, NEW e \in 0..MaxEpoch,
                 StartAbortOf(p, q, e)
          PROVE  AimInv'
      BY <3>7 DEF StartAbortOf, AimInv
    <3>9. AimInv'
      BY <2>3, <3>2, <3>3, <3>4, <3>5, <3>6, <3>7, NotAborting DEF Next, Aborting
    <3> QED BY <2>1, <3>1, <3>9 DEF AbortInv
  <2> QED BY <2>2, <2>3
<1> QED BY <1>1, <1>2, PTL DEF Spec

\* A successful abort --start-offset has closed the transaction it was asked for,
\* whoever wrote to the partition between its two calls and afterwards.
THEOREM AbortCloses == Spec => []AbortedIsClosed
<1>1. AbortInv => AbortedIsClosed
  BY DEF AbortInv, AimInv, AbortedIsClosed
<1> QED BY <1>1, AbortInvariant, PTL

\* abort --start-offset closes what it was asked for or a younger transaction of
\* the same producer, and nothing that was already open beside it.
THEOREM AbortAims == Spec => AbortIsAimed
<1> DEFINE Aimed(p, q) ==
       (/\ abort.pc = "write" /\ abort'.pc # "write" /\ abort.asked >= 0
        /\ Open(p, q) /\ txn'[p][q].start = -1)
         => \/ txn[p][q].start = abort.asked
            \/ q = abort.producer /\ txn[p][q].start >= abort.seen
<1>1. ASSUME AbortInv, Next, NEW p \in Partitions, NEW q \in Producers
      PROVE  Aimed(p, q)
  <2> SUFFICES ASSUME abort.pc = "write", abort'.pc # "write", abort.asked >= 0,
                      Open(p, q), txn'[p][q].start = -1
               PROVE  \/ txn[p][q].start = abort.asked
                      \/ q = abort.producer /\ txn[p][q].start >= abort.seen
    OBVIOUS
  <2>1. WriteAbortMarker \/ AbortFails
    BY <1>1, NotAborting DEF Next, World, Aborting, StartAbort, StartAbortOf, ReadForAbort
  <2>2. UNCHANGED txn \/ txn' = Closed(abort.part, abort.producer, abort.epoch)
    BY <2>1 DEF WriteAbortMarker, AbortFails
  <2>3. txn[p][q].start # txn'[p][q].start
    BY DEF Open
  <2>4. /\ abort.part \in Partitions /\ abort.producer \in Producers /\ abort.epoch \in Nat
    BY <1>1 DEF AbortInv, TypeOK, Aborter
  <2>5. p = abort.part /\ q = abort.producer
    <3>1. TypeOK
      BY <1>1 DEF AbortInv
    <3>2. txn' = Closed(abort.part, abort.producer, abort.epoch)
      BY <2>2, <2>3
    <3>3. \A p2 \in Partitions, q2 \in Producers :
            (p2 # abort.part \/ q2 # abort.producer) => txn'[p2][q2] = txn[p2][q2]
      BY <2>4, <3>1, <3>2, ClosedUpdate
    <3> QED BY <2>3, <3>3
  <2>6. \/ txn[abort.part][abort.producer].start \in {-1, abort.asked}
        \/ txn[abort.part][abort.producer].start >= abort.seen
    BY <1>1 DEF AbortInv, AimInv
  <2> QED BY <2>5, <2>6 DEF Open
<1>2. AbortInv /\ [Next]_vars => [\A p \in Partitions, q \in Producers : Aimed(p, q)]_vars
  BY <1>1
<1> QED BY <1>2, AbortInvariant, PTL DEF AbortIsAimed, Spec

-----------------------------------------------------------------------------
(* find-hanging *)

\* Still the transaction that hung at the start, without a record since.
StillHangs(h) ==
  txn[h.part][h.producer].start = h.start /\ Idle(h.part, h.producer, find.clock)

\* What hung at the start and has not changed is still to be read or was found.
HungInv ==
  /\ find.clock <= now
  /\ \A h \in find.hung : h.start >= 0 /\ h.start < end[h.part]
  /\ find.pc = "read" =>
       \A h \in find.hung : StillHangs(h) => h.part \in find.left \/ h \in find.candidates
  /\ find.pc \in {"list", "describe"} =>
       \A h \in find.hung : StillHangs(h) => h \in find.candidates

\* A producer with a transaction is known to its coordinator, and a candidate's
\* producer that was not listed has none and never will.
ListedInv ==
  /\ \A q \in Producers : owned[q] # {} => q \in known
  /\ find.pc = "describe" =>
       \A c \in find.candidates : c.producer \in known => c.producer \in find.listed

FindInv == TypeOK /\ StartsInv /\ HungInv /\ ListedInv

\* What no step of the world can do: bring a closed transaction or an old time back.
Ages(p, q) ==
  \/ txn'[p][q].start = txn[p][q].start /\ txn'[p][q].last \in {txn[p][q].last, now}
  \/ txn'[p][q].start \in {-1, end[p]}

LEMMA WriteAges ==
  ASSUME TypeOK, NEW p \in Partitions, NEW q \in Producers, NEW e \in Nat,
         Write(q, p, e), NEW p2 \in Partitions, NEW q2 \in Producers
  PROVE  Ages(p2, q2)
<1>1. \A p3 \in Partitions, q3 \in Producers :
        (p3 # p \/ q3 # q) => txn'[p3][q3] = txn[p3][q3]
  BY WriteUpdate, ZenonT(40)
<1>2. txn'[p][q] = [start |-> IF Open(p, q) THEN txn[p][q].start ELSE end[p],
                    last |-> now, epoch |-> e]
  BY WriteUpdate
<1> QED BY <1>1, <1>2 DEF Ages

LEMMA ClosedAges ==
  ASSUME TypeOK, NEW p \in Partitions, NEW q \in Producers, NEW e \in Nat,
         txn' = Closed(p, q, e), NEW p2 \in Partitions, NEW q2 \in Producers
  PROVE  Ages(p2, q2)
<1>1. \A p3 \in Partitions, q3 \in Producers :
        (p3 # p \/ q3 # q) => txn'[p3][q3] = txn[p3][q3]
  BY ClosedUpdate
<1>2. txn'[p][q].start = -1
  BY ClosedUpdate
<1> QED BY <1>1, <1>2 DEF Ages

\* The steps that leave the command alone: what it looks for only ages.
LEMMA WorldAges ==
  ASSUME TypeOK, World \/ Aborting, NEW p2 \in Partitions, NEW q2 \in Producers
  PROVE  Ages(p2, q2)
<1>0. \A q \in Producers : epoch[q] \in Nat
  BY DEF TypeOK
<1>1. CASE UNCHANGED txn
  BY <1>1 DEF Ages
<1>2. ASSUME NEW q \in Producers, NEW p \in Partitions, EndMarker(q, p)
      PROVE  Ages(p2, q2)
  BY <1>0, <1>2, ClosedAges DEF EndMarker
<1>3. ASSUME NEW q \in Producers, NEW p \in Partitions, Produce(q, p)
      PROVE  Ages(p2, q2)
  BY <1>0, <1>3, WriteAges DEF Produce
<1>4. ASSUME NEW q \in Producers, NEW p \in Partitions, NEW e \in 0..MaxEpoch,
             LateProduce(q, p, e)
      PROVE  Ages(p2, q2)
  <2>1. e \in Nat
    BY ParametersAssumption
  <2> QED BY <1>4, <2>1, WriteAges DEF LateProduce
<1>5. CASE Aborting
  <2>1. UNCHANGED txn \/ txn' = Closed(abort.part, abort.producer, abort.epoch)
    BY <1>5 DEF Aborting, StartAbort, StartAbortOf, ReadForAbort, WriteAbortMarker,
                AbortFails, world, logs
  <2>2. abort.part \in Partitions /\ abort.producer \in Producers /\ abort.epoch \in Nat
    BY DEF TypeOK, Aborter
  <2> QED BY <1>1, <2>1, <2>2, ClosedAges
<1>6. ASSUME NEW q \in Producers, NEW p \in Partitions,
             \/ EndTransaction(q) \/ Expire(q) \/ ForceTerminate(q)
             \/ AddPartition(q, p)
      PROVE  Ages(p2, q2)
  BY <1>1, <1>6 DEF EndTransaction, Expire, ForceTerminate, AddPartition, logs
<1>7. CASE Tick
  BY <1>1, <1>7 DEF Tick, logs
<1> QED BY <1>2, <1>3, <1>4, <1>5, <1>6, <1>7 DEF World, Producing

LEMMA WorldKeeps ==
  ASSUME TypeOK, World \/ Aborting
  PROVE  UNCHANGED find /\ now' >= now
<1>1. Aborting => UNCHANGED <<find, now>>
  BY DEF Aborting, StartAbort, StartAbortOf, ReadForAbort, WriteAbortMarker,
         AbortFails, world
<1>2. Producing => UNCHANGED <<find, now>>
  BY DEF Producing, EndTransaction, Expire, ForceTerminate,
         AddPartition, Produce, EndMarker, LateProduce
<1>3. Tick => UNCHANGED find /\ now' = now + 1
  BY DEF Tick
<1> QED BY <1>1, <1>2, <1>3 DEF World, TypeOK

LEMMA HungKept ==
  ASSUME FindInv, World \/ Aborting
  PROVE  HungInv'
<1>1. TypeOK /\ TypeOK'
  BY WorldType, AbortType DEF FindInv
<1>2. UNCHANGED find /\ now' >= now /\ now \in Nat /\ now' \in Nat /\ find.clock \in Nat
  BY <1>1, WorldKeeps DEF TypeOK, Finder
<1>3. ASSUME NEW h \in find.hung, StillHangs(h)' PROVE StillHangs(h)
  <2>1. /\ h.part \in Partitions /\ h.producer \in Producers /\ h.start \in Int
        /\ h.start >= 0 /\ h.start < end[h.part]
    BY <1>1 DEF TypeOK, Finder, Entry, FindInv, HungInv
  <2>2. Ages(h.part, h.producer)
    BY <1>1, <2>1, WorldAges
  <2>3. /\ txn[h.part][h.producer].last \in Nat /\ end[h.part] \in Nat
        /\ txn'[h.part][h.producer].last \in Nat
    BY <1>1, <2>1, EntryType DEF TypeOK, Transaction
  <2>4. /\ txn'[h.part][h.producer].start = h.start
        /\ find.clock - txn'[h.part][h.producer].last > MaxTransactionTimeout
    BY <1>2, <1>3 DEF StillHangs, Idle
  <2>5. txn'[h.part][h.producer].start = txn[h.part][h.producer].start
    BY <2>1, <2>2, <2>4 DEF Ages
  <2>6. txn'[h.part][h.producer].last # now
    BY <1>2, <2>3, <2>4, ParametersAssumption DEF FindInv, HungInv
  <2>7. txn'[h.part][h.producer].last = txn[h.part][h.producer].last
    BY <2>1, <2>2, <2>3, <2>4, <2>6 DEF Ages
  <2> QED BY <2>4, <2>5, <2>7 DEF StillHangs, Idle
<1>4. \A h \in find.hung : h.start >= 0 /\ h.start < end'[h.part]
  <2> SUFFICES ASSUME NEW h \in find.hung PROVE h.start >= 0 /\ h.start < end'[h.part]
    OBVIOUS
  <2>1. /\ h.part \in Partitions /\ h.producer \in Producers /\ h.start \in Int
        /\ h.start >= 0 /\ h.start < end[h.part]
    BY <1>1 DEF TypeOK, Finder, Entry, FindInv, HungInv
  <2>2. Touches(h.part, h.producer)
    BY <1>1, <2>1, StepTouches DEF Next, World
  <2> QED BY <1>1, <2>1, <2>2 DEF Touches, TypeOK
<1> QED BY <1>2, <1>3, <1>4 DEF FindInv, HungInv

LEMMA HungFind ==
  ASSUME FindInv, Finding
  PROVE  HungInv'
<1>1. TypeOK /\ TypeOK' /\ find \in Finder
  BY FindType DEF FindInv, TypeOK
<1>2. UNCHANGED world
  <2>1. DescribeTransactions => UNCHANGED world
    BY DEF DescribeTransactions
  <2>2. \A p \in Partitions : ReadPartition(p) => UNCHANGED world
    BY DEF ReadPartition
  <2>3. StartFind \/ ListTransactions \/ FindFails => UNCHANGED world
    BY DEF StartFind, ListTransactions, FindFails
  <2> QED BY <2>1, <2>2, <2>3 DEF Finding
<1>3. UNCHANGED <<txn, end, now>>
  BY <1>2 DEF world, logs
<1>4. CASE StartFind
  <2>1. /\ find'.pc = "read" /\ find'.clock = now /\ find'.left = Partitions
        /\ \A h \in find'.hung :
             /\ h \in {EntryOf(p, q) : p \in Partitions, q \in Producers}
             /\ Hanging(h.part, h.producer)
    BY <1>4 DEF StartFind
  <2>2. ASSUME NEW h \in find'.hung
        PROVE  h.part \in Partitions /\ h.start >= 0 /\ h.start < end[h.part]
    <3>1. PICK p \in Partitions, q \in Producers : h = EntryOf(p, q)
      BY <2>1
    <3>2. h.part = p /\ h.producer = q /\ h.start = txn[p][q].start
      BY <3>1 DEF EntryOf
    <3> QED BY <2>1, <3>2 DEF Hanging, Open, FindInv, StartsInv
  <2> QED BY <1>1, <1>3, <2>1, <2>2 DEF HungInv, TypeOK
<1>5. ASSUME NEW p \in Partitions, ReadPartition(p) PROVE HungInv'
  <2>1. /\ find.pc = "read" /\ find'.clock = find.clock /\ find'.hung = find.hung
        /\ find'.left = find.left \ {p}
        /\ find'.candidates = find.candidates \union {EntryOf(p, q) : q \in Found(p)}
        /\ find'.pc = IF find.left = {p} THEN "list" ELSE "read"
    BY <1>1, <1>5 DEF ReadPartition, Finder
  <2>2. ASSUME NEW h \in find.hung, StillHangs(h)', h.part = p
        PROVE  h \in find'.candidates
    <3>1. h \in Entry /\ h.start >= 0
      BY <1>1 DEF Finder, FindInv, HungInv
    <3>2. txn[p][h.producer].start = h.start /\ Idle(p, h.producer, find.clock)
      BY <1>3, <2>1, <2>2 DEF StillHangs, Idle
    <3>3. h.producer \in Found(p)
      BY <3>1, <3>2 DEF Found, Open, Entry
    <3>4. h = EntryOf(p, h.producer)
      BY <2>2, <3>1, <3>2 DEF EntryOf, Entry
    <3> QED BY <2>1, <3>3, <3>4
  <2>3. ASSUME NEW h \in find.hung, StillHangs(h)'
        PROVE  h.part \in find'.left \/ h \in find'.candidates
    <3>1. StillHangs(h)
      BY <1>3, <2>1, <2>3 DEF StillHangs, Idle
    <3>2. h.part \in find.left \/ h \in find.candidates
      BY <2>1, <3>1 DEF FindInv, HungInv
    <3> QED BY <2>1, <2>2, <2>3, <3>2
  <2> QED BY <1>3, <2>1, <2>3 DEF FindInv, HungInv
<1>6. CASE ListTransactions
  <2>1. /\ find.pc = "list" /\ find'.pc = "describe" /\ find'.clock = find.clock
        /\ find'.hung = find.hung /\ find'.candidates = find.candidates
    BY <1>1, <1>6 DEF ListTransactions, Finder
  <2> QED BY <1>3, <2>1 DEF FindInv, HungInv, StillHangs, Idle
<1>7. CASE DescribeTransactions \/ FindFails
  <2>1. /\ find'.pc \in {"done", "failed"} /\ find'.clock = find.clock
        /\ find'.hung = find.hung
    BY <1>1, <1>7 DEF DescribeTransactions, FindFails, Finder
  <2> QED BY <1>3, <2>1 DEF FindInv, HungInv
<1> QED BY <1>4, <1>5, <1>6, <1>7 DEF Finding

\* Nothing but a transaction's first partition makes an owner, and only a known
\* one; an owner does not expire.
LEMMA OwnersKnown ==
  ASSUME TypeOK, Next, \A q \in Producers : owned[q] # {} => q \in known
  PROVE  \A q \in Producers : owned'[q] # {} => q \in known'
<1> SUFFICES ASSUME NEW q2 \in Producers PROVE owned'[q2] # {} => q2 \in known'
  OBVIOUS
<1>1. CASE UNCHANGED <<owned, known>>
  BY <1>1
<1>2. ASSUME NEW q \in Producers, NEW p \in Partitions, AddPartition(q, p)
      PROVE  owned'[q2] # {} => q2 \in known'
  BY <1>2 DEF AddPartition, TypeOK
<1>3. ASSUME NEW q \in Producers, NEW p \in Partitions, EndMarker(q, p)
      PROVE  owned'[q2] # {} => q2 \in known'
  BY <1>3 DEF EndMarker, TypeOK
<1>4. ASSUME NEW q \in Producers, Expire(q)
      PROVE  owned'[q2] # {} => q2 \in known'
  BY <1>4 DEF Expire, TypeOK
<1>5. Aborting => UNCHANGED <<owned, known>>
  BY DEF Aborting, StartAbort, StartAbortOf, ReadForAbort, WriteAbortMarker,
         AbortFails, world, coordinators
<1>6. Finding => UNCHANGED <<owned, known>>
  <2>1. DescribeTransactions => UNCHANGED <<owned, known>>
    BY DEF DescribeTransactions, world, coordinators
  <2>2. \A p \in Partitions : ReadPartition(p) => UNCHANGED <<owned, known>>
    BY DEF ReadPartition, world, coordinators
  <2>3. StartFind \/ ListTransactions \/ FindFails => UNCHANGED <<owned, known>>
    BY DEF StartFind, ListTransactions, FindFails, world, coordinators
  <2> QED BY <2>1, <2>2, <2>3 DEF Finding
<1>7. \A q \in Producers, p \in Partitions :
        /\ Produce(q, p) => UNCHANGED <<owned, known>>
        /\ \A e \in 0..MaxEpoch : LateProduce(q, p, e) => UNCHANGED <<owned, known>>
  BY DEF Produce, LateProduce, coordinators
<1>8. ASSUME NEW q \in Producers, EndTransaction(q) \/ ForceTerminate(q)
      PROVE  UNCHANGED <<owned, known>>
  BY <1>8 DEF EndTransaction, ForceTerminate
<1>9. Tick => UNCHANGED <<owned, known>>
  BY DEF Tick, coordinators
<1>10. CASE Producing
  BY <1>1, <1>2, <1>3, <1>4, <1>7, <1>8, <1>10 DEF Producing
<1> QED BY <1>1, <1>5, <1>6, <1>9, <1>10 DEF Next

\* No coordinator learns of a new transactional id.
LEMMA KnownShrinks ==
  ASSUME World \/ Aborting
  PROVE  known' \subseteq known
<1>1. Aborting => UNCHANGED known
  BY DEF Aborting, StartAbort, StartAbortOf, ReadForAbort, WriteAbortMarker,
         AbortFails, world, coordinators
<1>2. Producing => known' \subseteq known
  BY DEF Producing, EndTransaction, Expire, ForceTerminate,
         AddPartition, Produce, EndMarker, LateProduce, coordinators
<1>3. Tick => UNCHANGED known
  BY DEF Tick, coordinators
<1> QED BY <1>1, <1>2, <1>3 DEF World

LEMMA ListedStep ==
  ASSUME FindInv, Next
  PROVE  ListedInv'
<1>1. \A q \in Producers : owned'[q] # {} => q \in known'
  BY OwnersKnown DEF FindInv, ListedInv
<1>2. CASE World \/ Aborting
  <2>1. UNCHANGED find /\ known' \subseteq known
    BY <1>2, WorldKeeps, KnownShrinks DEF FindInv
  <2> QED BY <1>1, <2>1 DEF FindInv, ListedInv
<1>3. CASE Finding
  <2>0. find \in Finder
    BY DEF FindInv, TypeOK
  <2>1. CASE ListTransactions
    <3>1. /\ find'.listed = {c.producer : c \in find.candidates} \intersect known
          /\ find'.candidates = find.candidates
      BY <2>0, <2>1 DEF ListTransactions, Finder
    <3>2. UNCHANGED known
      BY <2>1 DEF ListTransactions, world, coordinators
    <3> QED BY <1>1, <3>1, <3>2 DEF ListedInv
  <2>2. StartFind \/ FindFails => find'.pc # "describe"
    BY <2>0 DEF StartFind, FindFails, Finder
  <2>3. DescribeTransactions => find'.pc # "describe"
    BY <2>0 DEF DescribeTransactions, Finder
  <2>4. \A p \in Partitions : ReadPartition(p) => find'.pc # "describe"
    BY <2>0 DEF ReadPartition, Finder
  <2>5. find'.pc # "describe" => ListedInv'
    BY <1>1 DEF ListedInv
  <2> QED BY <1>3, <2>1, <2>2, <2>3, <2>4, <2>5 DEF Finding
<1> QED BY <1>2, <1>3 DEF Next, World

LEMMA FindInvariant == Spec => []FindInv
<1>1. Init => FindInv
  <2> SUFFICES ASSUME Init PROVE FindInv
    OBVIOUS
  <2>1. StartsInv
    BY DEF Init, StartsInv, Open
  <2>2. HungInv
    BY DEF Init, HungInv
  <2>3. ListedInv
    BY DEF Init, ListedInv
  <2> QED BY <2>1, <2>2, <2>3, InitType DEF FindInv
<1>2. FindInv /\ [Next]_vars => FindInv'
  <2> SUFFICES ASSUME FindInv, [Next]_vars PROVE FindInv'
    OBVIOUS
  <2>1. TypeOK'
    BY StepType DEF FindInv
  <2>2. CASE UNCHANGED vars
    BY <2>1, <2>2 DEF FindInv, StartsInv, HungInv, ListedInv, StillHangs, Idle, Open,
                      vars, world, logs, coordinators
  <2>3. CASE Next
    <3>1. StartsInv'
      BY <2>3, StartsStep DEF FindInv
    <3>2. HungInv'
      BY <2>3, HungKept, HungFind DEF Next, World
    <3>3. ListedInv'
      BY <2>3, ListedStep
    <3> QED BY <2>1, <3>1, <3>2, <3>3 DEF FindInv
  <2> QED BY <2>2, <2>3
<1> QED BY <1>1, <1>2, PTL DEF Spec

\* A report is the work of DescribeTransactions.
LEMMA ReportStep ==
  ASSUME TypeOK, Next, Reports
  PROVE  DescribeTransactions
<1>1. find.pc = "describe" /\ find'.pc = "done" /\ find \in Finder
  BY DEF Reports, TypeOK
<1>2. World \/ Aborting => UNCHANGED find
  BY WorldKeeps
<1>3. StartFind => find'.pc = "read"
  BY DEF StartFind
<1>4. ListTransactions => find.pc = "list"
  BY DEF ListTransactions
<1>5. FindFails => find'.pc = "failed"
  BY <1>1 DEF FindFails, Finder
<1>6. \A p \in Partitions : ReadPartition(p) => find.pc = "read"
  BY DEF ReadPartition
<1> QED BY <1>1, <1>2, <1>3, <1>4, <1>5, <1>6 DEF Next, World, Finding

\* find-hanging misses nothing that hung, idle, from its start to its report.
THEOREM HangingFound == Spec => HangingIsFound
<1> DEFINE Missed ==
       Reports => \A h \in find.hung :
         (/\ txn[h.part][h.producer].start = h.start
          /\ Hanging(h.part, h.producer) /\ Idle(h.part, h.producer, find.clock))
           => h \in find'.rows
<1>1. ASSUME FindInv, Next PROVE Missed
  <2> SUFFICES ASSUME Reports, NEW h \in find.hung, StillHangs(h),
                      Hanging(h.part, h.producer)
               PROVE  h \in find'.rows
    BY DEF StillHangs
  <2>1. DescribeTransactions
    BY <1>1, ReportStep DEF FindInv
  <2>2. h \in find.candidates
    BY <1>1 DEF FindInv, HungInv, Reports
  <2>3. \A described : ~StillOwned(h, described)
    BY DEF StillOwned, Hanging
  <2>4. find \in Finder
    BY <1>1 DEF FindInv, TypeOK
  <2> QED BY <2>1, <2>2, <2>3, <2>4 DEF DescribeTransactions, Finder
<1>2. FindInv /\ [Next]_vars => [Missed]_vars
  BY <1>1
<1> QED BY <1>2, FindInvariant, PTL DEF HangingIsFound, Spec

\* When every description is answered without an error, no row of find-hanging
\* names a transaction that its coordinator owns.
THEOREM RowsSound == Spec => RowsAreOrphans
<1> DEFINE Orphans ==
       Reports /\ faults' = faults => \A r \in find'.rows :
         txn[r.part][r.producer].start = r.start => r.part \notin owned[r.producer]
<1>1. ASSUME FindInv, Next PROVE Orphans
  <2> SUFFICES ASSUME Reports, faults' = faults, NEW r \in find'.rows
               PROVE  r.part \notin owned[r.producer]
    OBVIOUS
  <2>1. DescribeTransactions
    BY <1>1, ReportStep DEF FindInv
  <2>2. find \in Finder /\ faults \in Nat
    BY <1>1 DEF FindInv, TypeOK
  <2>3. PICK errors \in SUBSET find.listed :
          /\ errors # {} => Fault
          /\ find' = [find EXCEPT
               !.rows = {c \in find.candidates : ~StillOwned(c, find.listed \ errors)},
               !.pc = "done"]
    BY <2>1 DEF DescribeTransactions
  <2>4. errors = {}
    BY <2>2, <2>3 DEF Fault
  <2>5. r \in find.candidates /\ ~StillOwned(r, find.listed)
    BY <2>2, <2>3, <2>4 DEF Finder
  <2>6. r.producer \in Producers
    BY <2>2, <2>5 DEF Finder, Entry
  <2>7. r.producer \in known => r.producer \in find.listed
    BY <1>1, <2>5 DEF FindInv, ListedInv, Reports
  <2>8. owned[r.producer] # {} => r.producer \in known
    BY <1>1, <2>6 DEF FindInv, ListedInv
  <2> QED BY <2>5, <2>7, <2>8 DEF StillOwned
<1>2. FindInv /\ [Next]_vars => [Orphans]_vars
  BY <1>1
<1> QED BY <1>2, FindInvariant, PTL DEF RowsAreOrphans, Spec
=============================================================================

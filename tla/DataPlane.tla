------------------------------ MODULE DataPlane ------------------------------
(***************************************************************************)
(* The data-plane commands together: one of them runs, chosen with its     *)
(* arguments, against the topic, the partition or the share group its part *)
(* of the state describes.                                                 *)
(***************************************************************************)
EXTENDS Producers, Consumers, ShareConsumers

dataPlaneVars == <<toolVars, producerVars, consumerVars, shareVars>>

Init ==
  /\ ToolInit(Commands)
  /\ ProducersIdle /\ ConsumersIdle /\ SharesIdle

Next ==
  \/ ProducersNext /\ UNCHANGED <<consumerVars, shareVars>>
  \/ ConsumersNext /\ UNCHANGED <<producerVars, shareVars>>
  \/ SharesNext /\ UNCHANGED <<producerVars, consumerVars>>

Spec ==
  /\ Init /\ [][Next]_dataPlaneVars
  /\ ProducersFairness /\ ConsumersFairness /\ SharesFairness

-----------------------------------------------------------------------------
TypeOK == ToolTypeOK /\ ProducersTypeOK /\ ConsumersTypeOK /\ SharesTypeOK

\* A command that succeeds has done its work, whatever was in flight: the
\* records it wrote are acknowledged, and those it read through a share group
\* are settled (see Producers and ShareConsumers).
OkMeansDone == OkMeansDelivered /\ OkMeansSent

\* No offset and no acknowledgement covers a record the reader of standard
\* output has not been shown (see Consumers and ShareConsumers).
SettledWasShown == CommittedWasShown /\ AcceptedWasTold

\* The numbers are true: each delivery is counted once, whoever saw it, and no reader
\* counts more than its limit and the last poll allow (see Producers and ShareConsumers).
CountsAreTrue == EveryDeliveryCounted /\ ReadsWithinLimit

\* What the reader of the standard output of a verifiable tool relies on: it is
\* told of the start first and of everything once; a command that succeeds has
\* told that it is complete; a signal that was heard is told before that, and
\* only then (verifiable-consumer tells "shutdown_requested" last when nobody
\* asked: its record limit or an error ended the loop).
Verifiable ==
  cmd.tool \in {"verifiable-producer", "verifiable-consumer", "verifiable-share-consumer"}
LifecycleTold ==
  Verifiable =>
    LET first(event) == CHOOSE i \in DOMAIN events : events[i] = event
    IN /\ events # <<>> => events[1] = "startup_complete"
       /\ \A i, j \in DOMAIN events : events[i] = events[j] => i = j
       /\ exit = "ok" => Said("shutdown_complete")
       /\ Said("shutdown_complete") /\ cmd.tool # "verifiable-producer" =>
            (signal = "pending") =
            (Said("shutdown_requested") /\ first("shutdown_requested") < first("shutdown_complete"))

\* A command that was asked to stop, or has only so much to do, stops: a signal
\* it heard ends it unless the record that was on its way was taken instead
\* (such a signal, like one that arrives while an offset is committed or a
\* consumer is closed, is lost, and the operator has to repeat it); and it is
\* not kept from its end by a full queue, a delivery that fails, an idle topic
\* or a rebalance.  --throughput 0 and skipped errors have no such end.
Finite ==
  CASE cmd.tool \in {"produce", "e2e-latency"} -> TRUE
    [] cmd.tool = "producer-perf" -> cmd.throughput # "zero"
    [] cmd.tool = "verifiable-producer" -> cmd.max # {} /\ cmd.throughput # "zero"
    [] cmd.tool = "verifiable-share-consumer" -> FALSE
    [] cmd.tool = "share-consumer-perf" -> cmd.timeout
    [] OTHER -> cmd.timeout /\ cmd.max # {} /\ (cmd.tool = "consume" => ~cmd.skipErrors)
EndsEventually ==
  (Finite \/ signal = "pending") ~> (exit # "none" \/ signal = "missed")
=============================================================================

----------------------------- MODULE TopicAdmin -----------------------------
(***************************************************************************)
(* topics list, describe, create, alter and delete.                        *)
(*                                                                         *)
(* A command names the topics it is about by a regular expression, here    *)
(* the set of names it matches.  A topic has the identifier it got when it *)
(* was created, so one that was deleted and created again is another one.  *)
(***************************************************************************)
EXTENDS AdminTool, Integers

CONSTANTS Names,          \* names of topics
          Internal,       \* those that start with two underscores
          MaxId,          \* topics created in a behaviour
          MaxPartitions,  \* partitions of a topic
          Conditions,     \* for each name what its partitions are: "under-replicated"...
          TwoSpellings    \* identifiers that the two Base64 alphabets spell differently

VARIABLES topics,         \* by name: [id, partitions, overrides], id 0 if there is none
          lastId

topicVars == <<topics, lastId>>

Absent == [id |-> 0, partitions |-> 0, overrides |-> FALSE]
Exists(n) == topics[n].id # 0
TopicNames == {n \in Names : Exists(n)}

Selector == [topic |-> {}, topicId |-> {}, excludeInternal |-> FALSE, flags |-> {}, overrides |-> FALSE]

\* What the command line can be, within the bounds.
TopicCommand(c) ==
  /\ c.action = "list" => c.selector.topicId = {}
  /\ c.action = "describe" =>
       /\ IsOption(c.selector.topicId)
       /\ c.selector.topicId \subseteq Nat \X {"url", "standard", "bad"}
  /\ c.action = "create" =>
       /\ c.name \in Names /\ c.assignment \subseteq 0..MaxPartitions
       /\ c.partitions \subseteq Int /\ \A p \in c.partitions : p <= MaxPartitions
  /\ c.action = "alter" => c.target \in Int /\ c.target <= MaxPartitions

-----------------------------------------------------------------------------
(* The arguments *)

\* A topic identifier is an identifier and how it is spelled: with - and _
\* ("url"), with + and / ("standard"), or badly.
TopicIdOk(s) == Given(s.topicId, LAMBDA t : t[2] # "bad")
NonzeroId(s) == {t \in s.topicId : t[1] # 0}
\* The identifier read from the cluster is spelled with + and /.
SameId(t, id) == t[1] = id /\ (t[2] = "standard" \/ id \notin TwoSpellings)

\* Mutant: the expression counts as well.
ExpressionAlways(s) == s.topic

\* A nonzero identifier overrides the expression.
Expression(s) == IF NonzeroId(s) = {} THEN s.topic ELSE {}
Selected(s) ==
  {n \in TopicNames : (s.excludeInternal => n \notin Internal) /\ Given(Expression(s), LAMBDA e : n \in e)}

PartitionMatches(s, n) == s.flags \subseteq Conditions[n]

\* An assignment is the number of partitions it is for, 0 if it cannot be parsed.
AssignmentOk(c) == Given(c.assignment, LAMBDA a : a > 0)
FactorsOk(c) == c.factor \subseteq 1..32767

\* Mutant: a topic may have no partition.
CountsFromZeroOk(c) == Given(c.partitions, LAMBDA p : p >= 0) /\ FactorsOk(c)

CreationCountsOk(c) == Given(c.partitions, LAMBDA p : p >= 1) /\ FactorsOk(c)
Partitions(c) ==
  IF c.assignment # {} THEN The(c.assignment) ELSE IF c.partitions # {} THEN The(c.partitions) ELSE 1

Named(expression) == [Selector EXCEPT !.topic = {expression}]

\* Mutant: --if-exists is for describe only.
NoMatchRefused(c) == Usage

NoMatch(c) == IF c.lenient THEN Report({}) ELSE Usage

-----------------------------------------------------------------------------
(* list and describe *)

ListTopics ==
  /\ Is("topics", "list") /\ pc = "start"
  /\ Report(Rows({<<n, topics[n].id>> : n \in Selected(cmd.selector)}, "shown"))
  /\ UNCHANGED topicVars

DescribeTopics ==
  /\ Is("topics", "describe") /\ pc = "start"
  /\ IF TopicIdOk(cmd.selector) THEN Read("identify", Selected(cmd.selector)) ELSE Usage
  /\ UNCHANGED topicVars

\* The identifiers of the candidates: one that is gone fails the whole call.
Identified == {<<n, topics[n].id>> : n \in seen}
Chosen == {i \in Identified : Given(NonzeroId(cmd.selector), LAMBDA t : SameId(t, i[2]))}
IdentifyTopics ==
  /\ Is("topics", "describe") /\ pc = "identify"
  /\ IF ~ seen \subseteq TopicNames THEN Failed
     ELSE IF /\ Chosen = {} /\ ~ cmd.lenient
             /\ NonzeroId(cmd.selector) # {} \/ cmd.selector.topic # {}
     THEN Usage
     ELSE Read("configs", Chosen)
  /\ UNCHANGED topicVars

ReadTopicConfigs ==
  /\ Is("topics", "describe") /\ pc = "configs"
  /\ IF ~ {i[1] : i \in seen} \subseteq TopicNames THEN Failed
     ELSE IF cmd.selector.overrides
     THEN Report(Rows({i \in seen : topics[i[1]].overrides}, "shown"))
     ELSE Goto("again")
  /\ UNCHANGED topicVars

\* A second look at the partitions, for those identified by the first.
DescribePartitions ==
  /\ Is("topics", "describe") /\ pc = "again"
  /\ Report(Rows({i \in seen : i[1] \in Selected(cmd.selector) /\ PartitionMatches(cmd.selector, i[1])}, "shown"))
  /\ UNCHANGED topicVars

-----------------------------------------------------------------------------
(* create, alter and delete *)

NewTopic(n, partitions) ==
  [topics EXCEPT ![n] = [id |-> lastId + 1, partitions |-> partitions, overrides |-> FALSE]]

CreateTopic ==
  /\ Is("topics", "create") /\ pc = "start"
  /\ IF ~ (AssignmentOk(cmd) /\ CreationCountsOk(cmd)) THEN Usage /\ UNCHANGED topicVars
     ELSE /\ lastId < MaxId
          /\ LET free == {cmd.name} \ TopicNames
             IN Request({cmd.name}, free, IF cmd.lenient THEN {cmd.name} \ free ELSE {}, "rows")
          /\ IF applied' = {} THEN UNCHANGED topicVars
             ELSE /\ topics' = NewTopic(cmd.name, Partitions(cmd))
                  /\ lastId' = lastId + 1

\* The names, each with the number of partitions it has.
SelectTopics ==
  /\ Is("topics", "alter") \/ Is("topics", "delete")
  /\ pc = "start"
  /\ LET found == Selected(Named(cmd.expression))
     IN IF found = {} THEN NoMatch(cmd)
        ELSE Read("decide", {<<n, topics[n].partitions>> : n \in found})
  /\ UNCHANGED topicVars

Grows(t) == t[2] < cmd.target
AlterRefused ==
  \/ cmd.target < 1
  \/ ~ Given(cmd.assignment, LAMBDA a : a = cmd.target)
  \/ \E t \in seen : ~ Grows(t)
\* The controller looks at what there is now, with an assignment for exactly the
\* partitions that were missing.
MayGrow(t) ==
  /\ t[1] \in TopicNames /\ topics[t[1]].partitions < cmd.target
  /\ cmd.assignment = {} \/ topics[t[1]].partitions = t[2]
AlterTopics ==
  /\ Is("topics", "alter") /\ pc = "decide"
  /\ IF AlterRefused THEN Usage /\ UNCHANGED topicVars
     ELSE /\ Request(seen, {t \in seen : MayGrow(t)}, {}, "rows")
          /\ topics' = [n \in Names |->
               IF \E t \in applied' : t[1] = n THEN [topics[n] EXCEPT !.partitions = cmd.target] ELSE topics[n]]
          /\ UNCHANGED lastId

DeleteTopics ==
  /\ Is("topics", "delete") /\ pc = "decide"
  /\ Request(seen, {t \in seen : t[1] \in TopicNames}, {}, "rows")
  /\ topics' = [n \in Names |-> IF \E t \in applied' : t[1] = n THEN Absent ELSE topics[n]]
  /\ UNCHANGED lastId

-----------------------------------------------------------------------------
TopicsForeign ==
  /\ cmd.tool = "topics" /\ Foreign
  /\ \E n \in Names :
       IF Exists(n) THEN topics' = [topics EXCEPT ![n] = Absent] /\ UNCHANGED lastId
       ELSE lastId < MaxId /\ topics' = NewTopic(n, 1) /\ lastId' = lastId + 1

TopicsNext ==
  \/ ListTopics \/ DescribeTopics \/ IdentifyTopics \/ ReadTopicConfigs \/ DescribePartitions
  \/ CreateTopic \/ SelectTopics \/ AlterTopics \/ DeleteTopics
  \/ TopicsForeign

TopicRecords ==
  {t \in [id : 0..MaxId, partitions : 0..MaxPartitions, overrides : BOOLEAN] :
     (t.id = 0) = (t.partitions = 0)}
TopicsTypeOK == lastId \in 0..MaxId /\ topics \in [Names -> TopicRecords]

\* What a describe should show, of the topics there are now.
TopicsToShow ==
  LET s == cmd.selector
      here(n) == \/ NonzeroId(s) # {} /\ \E t \in NonzeroId(s) : t[1] = topics[n].id
                 \/ NonzeroId(s) = {} /\ Given(s.topic, LAMBDA e : n \in e)
  IN {<<n, topics[n].id>> : n \in {n \in TopicNames :
        /\ here(n) /\ (s.excludeInternal => n \notin Internal)
        /\ IF cmd.action = "list" THEN TRUE
           ELSE IF s.overrides THEN topics[n].overrides ELSE PartitionMatches(s, n)}}

\* An identifier that the other alphabet spells differently is accepted and then
\* found nowhere: the only topic it can be is taken for missing.
OtherAlphabet == \E t \in cmd.selector.topicId : t[2] = "url" /\ t[1] \in TwoSpellings
=============================================================================

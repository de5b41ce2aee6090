----------------------------- MODULE ClusterAdmin -----------------------------
(***************************************************************************)
(* metadata-quorum, delegation-tokens and cluster: who belongs to the      *)
(* cluster, and who may speak for whom.                                    *)
(***************************************************************************)
EXTENDS AdminTool, Integers

CONSTANTS Controllers,    \* node identifiers of controllers, positive
          Servers,        \* node identifiers of brokers
          Owners,         \* principals
          MaxTokens       \* tokens created in a behaviour

VARIABLES quorum,         \* [leader, voters, observers]
          servers,        \* for each broker "alive", "fenced" or "gone"
          tokens,         \* [id, owner, expiry], expiry "max" or "renewed" or "set"
          lastToken

clusterVars == <<quorum, servers, tokens, lastToken>>

\* What the command line and the properties file can be.
QuorumCommand(c) == c.action = "add-controller" /\ c.hasConfig /\ c.complete => c.node \in Controllers
TokenCommand(c) ==
  c.action \in {"create", "describe"} =>
    IsFiniteSet(c.owners) /\ c.owners \subseteq Owners \cup {"self", ""}

Members == quorum.voters \cup quorum.observers
Alive == {s \in Servers : servers[s] = "alive"}

-----------------------------------------------------------------------------
(* metadata-quorum *)

\* Status and replication are told relative to the leader, who may have been removed.
QuorumRole(n) ==
  IF n \notin quorum.voters THEN "observer" ELSE IF n = quorum.leader THEN "leader" ELSE "follower"
DescribeQuorum ==
  /\ Is("metadata-quorum", "describe") /\ pc = "start"
  /\ IF cmd.status THEN Read("identify", {<<n, QuorumRole(n)>> : n \in Members})
     ELSE IF ~ cmd.replication THEN Usage
     ELSE \* a timestamp that is missing or in the future cannot be told relative to now
       \/ cmd.humanReadable /\ Failed
       \/ IF quorum.leader \in quorum.voters
          THEN Report(Rows({<<n, QuorumRole(n)>> : n \in Members}, "shown")) ELSE Failed
  /\ UNCHANGED clusterVars
DescribeQuorumStatus ==
  /\ Is("metadata-quorum", "describe") /\ pc = "identify"
  /\ IF \E m \in seen : m[2] = "leader" THEN Report(Rows(seen, "shown")) ELSE Failed
  /\ UNCHANGED clusterVars

\* The controller to add is the one of the properties file, which must be complete; only
\* a directory identifier that is not one counts as an error of usage.  The one to remove
\* is named with its directory.
NotAController == Failed \/ Usage
AddController ==
  /\ Is("metadata-quorum", "add-controller") /\ pc = "start"
  /\ IF ~ cmd.hasConfig THEN Usage ELSE IF ~ cmd.complete THEN NotAController ELSE Goto("identify")
  /\ UNCHANGED clusterVars
RemoveController ==
  /\ Is("metadata-quorum", "remove-controller") /\ pc = "start"
  /\ IF cmd.node < 0 \/ ~ cmd.complete THEN Usage ELSE Goto("identify")
  /\ UNCHANGED clusterVars
\* The cluster is identified before the request, which is not sent by a dry run.
AlterVoters ==
  /\ Is("metadata-quorum", "add-controller") \/ Is("metadata-quorum", "remove-controller")
  /\ pc = "identify"
  /\ IF cmd.dryRun THEN Report(Rows({cmd.node}, "preview"))
     ELSE LET adds == cmd.action = "add-controller"
              can == IF adds THEN {cmd.node} \ quorum.voters ELSE {cmd.node} \cap quorum.voters
          IN Request({cmd.node}, can, {}, "firstError")
  /\ quorum' =
       IF applied' = {} THEN quorum
       ELSE IF cmd.action = "add-controller"
       THEN [quorum EXCEPT !.voters = @ \cup applied', !.observers = @ \ applied']
       ELSE [quorum EXCEPT !.voters = @ \ applied', !.observers = @ \cup applied']
  /\ UNCHANGED <<servers, tokens, lastToken>>

\* An election, after which the leader is a voter again.
QuorumForeign ==
  /\ cmd.tool = "metadata-quorum" /\ Foreign
  /\ \E n \in quorum.voters : n # quorum.leader /\ quorum' = [quorum EXCEPT !.leader = n]
  /\ UNCHANGED <<servers, tokens, lastToken>>

-----------------------------------------------------------------------------
(* delegation-tokens *)

TokenTool(action) == Is("delegation-tokens", action) /\ pc = "start"
PrincipalsOk(names) == "" \notin names
CreateToken ==
  /\ TokenTool("create")
  /\ IF ~ cmd.hasConfig \/ cmd.period < -1 \/ ~ PrincipalsOk(cmd.owners) \/ Cardinality(cmd.owners) > 1
     THEN Usage /\ UNCHANGED clusterVars
     ELSE /\ lastToken < MaxTokens
          /\ Request({lastToken + 1}, {lastToken + 1}, {}, "firstError")
          /\ lastToken' = lastToken + Cardinality(applied')
          /\ tokens' = tokens \cup [id : applied', expiry : {"max"},
                         owner : IF cmd.owners = {} THEN {"self"} ELSE cmd.owners]
          /\ UNCHANGED <<quorum, servers>>
DescribeTokens ==
  /\ TokenTool("describe")
  /\ IF cmd.hasConfig /\ PrincipalsOk(cmd.owners)
     THEN Report(Rows({t \in tokens : cmd.owners = {} \/ t.owner \in cmd.owners}, "shown"))
     ELSE Usage
  /\ UNCHANGED clusterVars

\* A token is known by its HMAC.  A negative period expires it at once.
TokenArgsOk == cmd.hasConfig /\ cmd.period >= -1 /\ ~ cmd.badHmac
Known == {t \in tokens : t.id = cmd.hmac}
RenewToken ==
  /\ TokenTool("renew")
  /\ IF ~ TokenArgsOk THEN Usage
     ELSE Request({cmd.hmac}, {t.id : t \in Known}, {}, "firstError")
  /\ tokens' = IF applied' = {} THEN tokens
               ELSE (tokens \ Known) \cup {[t EXCEPT !.expiry = "renewed"] : t \in Known}
  /\ UNCHANGED <<quorum, servers, lastToken>>
ExpireToken ==
  /\ TokenTool("expire")
  /\ IF ~ TokenArgsOk THEN Usage
     ELSE Request({cmd.hmac}, {t.id : t \in Known}, {}, "firstError")
  /\ tokens' = IF applied' = {} THEN tokens
               ELSE (tokens \ Known)
                    \cup IF cmd.period = -1 THEN {} ELSE {[t EXCEPT !.expiry = "set"] : t \in Known}
  /\ UNCHANGED <<quorum, servers, lastToken>>

-----------------------------------------------------------------------------
(* cluster, api-versions *)

ListEndpoints ==
  /\ Is("cluster", "list-endpoints") /\ pc = "start"
  /\ IF cmd.fenced THEN Read("identify", Alive)
     ELSE Report(Rows({<<s, "alive">> : s \in Alive}, "shown"))
  /\ UNCHANGED clusterVars
\* The fenced ones are asked of the first broker there is.
ListFencedEndpoints ==
  /\ Is("cluster", "list-endpoints") /\ pc = "identify"
  /\ IF seen = {} THEN Failed
     ELSE Report(Rows({<<s, servers[s]>> : s \in {s \in Servers : servers[s] # "gone"}}, "shown"))
  /\ UNCHANGED clusterVars

\* Every broker is asked in turn: one that is gone by then fails the command.
ApiVersions ==
  /\ Is("cluster", "api-versions")
  /\ \/ pc = "start" /\ Read("again", Alive)
     \/ /\ pc = "again"
        /\ IF seen \subseteq Alive THEN Report(Rows(seen, "shown")) ELSE Failed
  /\ UNCHANGED clusterVars

Unregister ==
  /\ Is("cluster", "unregister") /\ pc = "start"
  /\ IF ~ cmd.execute THEN Report(Rows({cmd.node}, "preview"))
     ELSE Request({cmd.node}, {s \in Servers : s = cmd.node /\ servers[s] # "gone"}, {}, "firstError")
  /\ servers' = [s \in Servers |-> IF s \in applied' THEN "gone" ELSE servers[s]]
  /\ UNCHANGED <<quorum, tokens, lastToken>>

\* A broker is fenced, or comes back.
ServersForeign ==
  /\ cmd.tool = "cluster" /\ Foreign
  /\ \E s \in Servers :
       servers' = [servers EXCEPT ![s] = IF @ = "alive" THEN "fenced" ELSE "alive"]
  /\ UNCHANGED <<quorum, tokens, lastToken>>

ClusterNext ==
  \/ DescribeQuorum \/ DescribeQuorumStatus \/ AddController \/ RemoveController \/ AlterVoters
  \/ CreateToken \/ DescribeTokens \/ RenewToken \/ ExpireToken
  \/ ListEndpoints \/ ListFencedEndpoints \/ ApiVersions \/ Unregister
  \/ QuorumForeign \/ ServersForeign

Quorums ==
  {q \in [leader : Controllers, voters : SUBSET Controllers, observers : SUBSET Controllers] :
     q.voters \cap q.observers = {}}
ClusterTypeOK ==
  /\ quorum \in Quorums
  /\ servers \in [Servers -> {"alive", "fenced", "gone"}]
  /\ tokens \subseteq [id : 1..MaxTokens, owner : Owners \cup {"self"}, expiry : {"max", "renewed", "set"}]
  /\ \A t, u \in tokens : t.id = u.id => t = u
  /\ lastToken \in 0..MaxTokens /\ \A t \in tokens : t.id <= lastToken
=============================================================================

------------------------------ MODULE AclAdmin ------------------------------
(***************************************************************************)
(* acls list, add and remove.                                              *)
(*                                                                         *)
(* A binding allows or denies one principal, from one host, one operation  *)
(* on one resource.  A filter is a set of values for each of these.        *)
(***************************************************************************)
EXTENDS AdminTool

CONSTANTS AclResources,   \* pairs of a type and a name; "" is an empty name
          AclPrincipals, AclHosts

VARIABLE acls

Operations ==
  {"All", "Read", "Write", "Create", "Delete", "Alter", "Describe", "ClusterAction",
   "DescribeConfigs", "AlterConfigs", "IdempotentWrite"}
Binding ==
  [resource : AclResources, pattern : {"literal", "prefixed"}, principal : AclPrincipals,
   host : AclHosts, operation : Operations, permission : {"Allow", "Deny"}]

\* What the command line can be.
AclCommand(c) ==
  LET principals == SUBSET (AclPrincipals \cup {""})
      hosts == SUBSET (AclHosts \cup {""})
  IN c \in [tool : {"acls"}, action : {"list", "add", "remove"}, resources : SUBSET AclResources,
            roles : SUBSET {"producer", "consumer", "idempotent"}, operations : SUBSET STRING,
            pattern : {"any", "match", "literal", "prefixed"},
            principals : principals, allow : principals, deny : principals,
            allowHosts : hosts, denyHosts : hosts, host : hosts, execute : BOOLEAN]

Matches(filter, binding) == \A field \in DOMAIN filter : binding[field] \in filter[field]
Matching(filters) == {b \in acls : \E f \in filters : Matches(f, b)}

-----------------------------------------------------------------------------
(* The arguments *)

Role(c) == c.roles \cap {"producer", "consumer"} # {}
OfType(c, type) == {r \in c.resources : r[1] = type}
Patterns(c) ==
  IF c.pattern \in {"any", "match"} THEN {"literal", "prefixed"} ELSE {c.pattern}

\* No empty value; no delegation token; no operation that is not one.
ResourcesOk(c) == OfType(c, "token") = {} /\ \A r \in c.resources : r[2] # ""
EntriesOk(c) ==
  "" \notin c.allow \cup c.deny \cup c.allowHosts \cup c.denyHosts \cup c.host
OperationsOk(c) == c.operations \subseteq Operations

Supported(type) ==
  CASE type = "any" -> Operations
    [] type = "topic" -> {"All", "Read", "Write", "Create", "Delete", "Alter", "Describe",
                          "DescribeConfigs", "AlterConfigs"}
    [] type = "group" -> {"All", "Read", "Delete", "Describe", "DescribeConfigs", "AlterConfigs"}
    [] type = "cluster" -> {"All", "Create", "Alter", "Describe", "ClusterAction",
                            "DescribeConfigs", "AlterConfigs", "IdempotentWrite"}
    [] OTHER -> {"All", "Write", "Describe"}
ResourceOperationsOk(grants) == \A g \in grants : g[2] \subseteq Supported(g[1][1])

\* The resources of a change with the operations on each: those of the arguments, or
\* those that a role needs.
TopicOperations(c) ==
  (IF "producer" \in c.roles THEN {"Write", "Describe", "Create"} ELSE {})
  \cup (IF "consumer" \in c.roles THEN {"Read", "Describe"} ELSE {})
RoleGrants(c) ==
  {<<r, TopicOperations(c)>> : r \in OfType(c, "topic")}
  \cup (IF "consumer" \in c.roles THEN {<<r, {"Read"}>> : r \in OfType(c, "group")} ELSE {})
  \cup (IF "producer" \in c.roles
        THEN {<<r, {"Write", "Describe"}>> : r \in OfType(c, "transactional-id")} ELSE {})
  \cup (IF "idempotent" \in c.roles
        THEN {<<r, {"IdempotentWrite"}>> : r \in AclResources \cap {<<"cluster", "kafka-cluster">>}} ELSE {})
RoleResources(c) ==
  OfType(c, "topic") \cup (IF "consumer" \in c.roles THEN OfType(c, "group") ELSE {})
  \cup (IF "producer" \in c.roles THEN OfType(c, "transactional-id") ELSE {})
RoleRefused(c) ==
  \/ c.deny # {} \/ c.denyHosts # {}
  \/ \E r \in RoleResources(c) : r[2] = ""
  \/ "producer" \notin c.roles /\ OfType(c, "cluster") \cup OfType(c, "transactional-id") # {}
  \/ OfType(c, "topic") = {}
  \/ "consumer" \in c.roles /\ OfType(c, "group") = {}
Grants(c, operations) ==
  IF Role(c) THEN RoleGrants(c) ELSE {<<r, operations>> : r \in c.resources}
GrantsOk(c) ==
  IF Role(c) THEN ~ RoleRefused(c) ELSE ResourcesOk(c) /\ c.resources # {}

DefaultHost(c) == IF c.host = {} THEN {"*"} ELSE c.host
HostsFor(c, permission) ==
  LET given == IF permission = "Allow" THEN c.allowHosts ELSE c.denyHosts
  IN IF given = {} THEN DefaultHost(c) ELSE given
Entries(c) ==
  {<<p, "Allow">> : p \in c.allow} \cup {<<p, "Deny">> : p \in c.deny}

\* The bindings that an addition stands for.
AddOperations(c) == IF c.operations = {} /\ ~ Role(c) THEN {"All"} ELSE c.operations
Grantees(c) == IF Entries(c) # {} THEN Entries(c) ELSE {<<p, "Allow">> : p \in c.principals}
Bindings(c) ==
  UNION {[resource : {g[1]}, pattern : {c.pattern}, principal : {e[1]}, host : HostsFor(c, e[2]),
          operation : g[2], permission : {e[2]}] :
         g \in Grants(c, AddOperations(c)), e \in Grantees(c)}
AddRefused(c) ==
  \/ ~ OperationsOk(c) \/ ~ EntriesOk(c) \/ ~ GrantsOk(c)
  \/ c.pattern \in {"any", "match"}
  \/ ~ ResourceOperationsOk(Grants(c, AddOperations(c)))
  \/ Grantees(c) = {} \/ ("" \in c.principals /\ Entries(c) = {})

\* The filters that a removal stands for.  Without a principal it removes whatever is
\* bound to its resources, or to any resource, whichever operations it names.
AnyResource == <<"any", "">>
RemovalGrants(c) ==
  IF Role(c) THEN RoleGrants(c)
  ELSE {<<r, c.operations>> : r \in IF c.resources = {} THEN {AnyResource} ELSE c.resources}
RemovalEntries(c) ==
  IF Entries(c) # {} THEN {<<{e[1]}, HostsFor(c, e[2]), {e[2]}>> : e \in Entries(c)}
  ELSE {<<{p}, DefaultHost(c), {"Allow", "Deny"}>> : p \in c.principals}
Filter(c, resource, principals, hosts, operations, permissions) ==
  [resource |-> IF resource = AnyResource THEN AclResources ELSE {resource},
   pattern |-> Patterns(c), principal |-> principals, host |-> hosts,
   operation |-> operations, permission |-> permissions]
RemovalFilters(c) ==
  IF RemovalEntries(c) = {}
  THEN {Filter(c, g[1], AclPrincipals, AclHosts, Operations, {"Allow", "Deny"}) : g \in RemovalGrants(c)}
  ELSE {Filter(c, g[1], e[1], e[2], IF g[2] = {} THEN {"All"} ELSE g[2], e[3]) :
          g \in RemovalGrants(c), e \in RemovalEntries(c)}
RemoveRefused(c) ==
  \/ ~ OperationsOk(c) \/ ~ EntriesOk(c)
  \/ IF Role(c) THEN RoleRefused(c) ELSE ~ ResourcesOk(c)
  \/ RemovalEntries(c) # {} /\ ~ ResourceOperationsOk(RemovalGrants(c))
  \/ "" \in c.principals /\ Entries(c) = {}

ListFilters(c) ==
  {Filter(c, r, AclPrincipals, AclHosts, Operations, {"Allow", "Deny"}) :
     r \in IF c.resources = {} THEN {AnyResource} ELSE c.resources}
Listed(c) == {b \in Matching(ListFilters(c)) : c.principals = {} \/ b.principal \in c.principals}

-----------------------------------------------------------------------------
ListAcls ==
  /\ Is("acls", "list") /\ pc = "start"
  /\ IF ResourcesOk(cmd) /\ "" \notin cmd.principals
     THEN Report(Rows(Listed(cmd), "shown")) ELSE Usage
  /\ UNCHANGED acls

\* The bindings of each resource are read, and those that are missing are created.
AddAcls ==
  /\ Is("acls", "add") /\ pc = "start"
  /\ IF AddRefused(cmd) THEN Usage
     ELSE IF ~ cmd.execute THEN Report(Rows(Bindings(cmd), "preview"))
     ELSE Read("decide", Bindings(cmd) \ acls)
  /\ UNCHANGED acls

CreateAcls ==
  /\ Is("acls", "add") /\ pc = "decide"
  /\ IF seen = {} THEN Report({}) ELSE Request(seen, seen, {}, "rows")
  /\ acls' = acls \cup applied'

RemoveAcls ==
  /\ Is("acls", "remove") /\ pc = "start"
  /\ IF RemoveRefused(cmd) THEN Usage
     ELSE IF ~ cmd.execute THEN Report(Rows(Matching(RemovalFilters(cmd)), "preview"))
     ELSE LET found == Matching(RemovalFilters(cmd)) IN Request(found, found, {}, "rows")
  /\ acls' = acls \ applied'

AclsForeign ==
  /\ cmd.tool = "acls" /\ Foreign
  /\ \/ \E b \in acls : acls' = acls \ {b}
     \/ \E p \in AclPrincipals, r \in AclResources :
          acls' = acls \cup {[resource |-> r, pattern |-> "literal", principal |-> p,
                              host |-> "*", operation |-> "Describe", permission |-> "Allow"]}

AclsNext == ListAcls \/ AddAcls \/ CreateAcls \/ RemoveAcls \/ AclsForeign

AclsTypeOK == acls \subseteq Binding

\* The one pair of an addition and the removal with the same arguments that do not
\* speak of the same bindings: a principal given with --principal is added with the
\* hosts of --allow-host and removed with --host.
HostsDiffer(c) == Entries(c) = {} /\ c.allowHosts # {}
=============================================================================

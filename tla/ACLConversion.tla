--------------------------- MODULE ACLConversion ----------------------------
(***************************************************************************)
(* How the spec of an ACL resource becomes an entry of the broker's access *)
(* list: toACLConfig (internal/controller/acl_controller.go) maps the      *)
(* strings of the spec to the codes of internal/bufstream/acl.go, buildACL *)
(* maps those to what the broker library calls them.  The codes of the     *)
(* operations are the package's own, not Kafka's.                          *)
(***************************************************************************)
EXTENDS Integers

CONSTANTS Principals, Hosts, ResourceNames, NoHost

ASSUME ConversionAssumption == NoHost \notin Hosts /\ "*" \in Hosts

ResourceTypes == {"Topic", "Group", "Cluster", "TransactionalId"}
PatternTypes == {"Literal", "Prefixed"}
Permissions == {"Allow", "Deny"}
Operations == {"All", "Read", "Write", "Create", "Delete", "Alter", "Describe",
               "ClusterAction", "DescribeConfigs", "AlterConfigs", "IdempotentWrite"}

\* The specs the CRD's validation lets through.
ACLSpecs == [principal : Principals, host : Hosts \cup {NoHost},
             type : ResourceTypes, name : ResourceNames, pattern : PatternTypes,
             operation : Operations, permission : Permissions]

\* The entries of the access list; that of the cluster has a fixed name.
Entries == [principal : Principals, host : Hosts,
            type : ResourceTypes, name : ResourceNames \cup {"kafka-cluster"},
            pattern : PatternTypes, operation : Operations, permission : Permissions]

(***************************************************************************)
(* toACLConfig.                                                            *)
(***************************************************************************)
ResourceTypeCode(t) ==
    CASE t = "Group" -> 3 [] t = "Cluster" -> 4 [] t = "TransactionalId" -> 5 [] OTHER -> 2

PatternCode(p) == IF p = "Prefixed" THEN 4 ELSE 3

PermissionCode(p) == IF p = "Deny" THEN 2 ELSE 3

OperationCode(o) ==
    CASE o = "All" -> 1 [] o = "Read" -> 2 [] o = "Write" -> 3 [] o = "Create" -> 4
      [] o = "Delete" -> 5 [] o = "Alter" -> 6 [] o = "Describe" -> 7
      [] o = "ClusterAction" -> 8 [] o = "DescribeConfigs" -> 9
      [] o = "AlterConfigs" -> 10 [] o = "IdempotentWrite" -> 11 [] OTHER -> 0

toACLConfig(s) ==
    [principal |-> s.principal, host |-> s.host, name |-> s.name,
     type |-> ResourceTypeCode(s.type), pattern |-> PatternCode(s.pattern),
     operation |-> OperationCode(s.operation), permission |-> PermissionCode(s.permission)]

(***************************************************************************)
(* CreateACL and DeleteACL up to the request: the host, then buildACL.     *)
(***************************************************************************)
HostOrAny(h) == IF h = NoHost THEN "*" ELSE h

KadmOperation(code) ==
    CASE code = 2 -> "Read" [] code = 3 -> "Write" [] code = 4 -> "Create"
      [] code = 5 -> "Delete" [] code = 6 -> "Alter" [] code = 7 -> "Describe"
      [] code = 8 -> "ClusterAction" [] code = 9 -> "DescribeConfigs"
      [] code = 10 -> "AlterConfigs" [] code = 11 -> "IdempotentWrite"
      [] code = 1 -> "All" [] OTHER -> "Unknown"

KadmResource(code, n) ==
    CASE code = 3 -> <<"Group", n>> [] code = 4 -> <<"Cluster", "kafka-cluster">>
      [] code = 5 -> <<"TransactionalId", n>> [] OTHER -> <<"Topic", n>>

buildACL(c, host) ==
    LET res == KadmResource(c.type, c.name)
    IN  [principal |-> c.principal, host |-> host,
         type |-> res[1], name |-> res[2],
         pattern |-> IF c.pattern = 4 THEN "Prefixed" ELSE "Literal",
         operation |-> KadmOperation(c.operation),
         permission |-> IF c.permission = 2 THEN "Deny" ELSE "Allow"]

Entry(s) == buildACL(toACLConfig(s), HostOrAny(s.host))

(***************************************************************************)
(* What the API says the spec means (api/v1alpha1/acl_types.go).           *)
(***************************************************************************)
Granted(s) ==
    [principal |-> s.principal, host |-> IF s.host = NoHost THEN "*" ELSE s.host,
     type |-> s.type, name |-> IF s.type = "Cluster" THEN "kafka-cluster" ELSE s.name,
     pattern |-> s.pattern, operation |-> s.operation, permission |-> s.permission]

\* The two conversions together lose and swap nothing: the entry on the broker
\* grants or denies exactly what a valid spec says.
ConversionFaithful == \A s \in ACLSpecs : Entry(s) = Granted(s)
=============================================================================

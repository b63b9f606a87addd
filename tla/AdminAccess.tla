---------------------------- MODULE AdminAccess -----------------------------
(***************************************************************************)
(* How the spec of a Cluster becomes a login at its brokers:               *)
(* GetAdminCredentials (internal/controller/cluster_helpers.go) reads the  *)
(* Secret the spec refers to, NewClient (internal/bufstream/client.go)     *)
(* logs in with what it found, or without a login.                         *)
(***************************************************************************)
CONSTANTS Addresses,         \* bootstrap servers
          Secured,           \* those that ask for a login; the others take none
          Namespaces, ClusterNamespace, NoNamespace,
          SecretNames, NoRef,
          Texts, NoKey,      \* what a key of a Secret holds; the key is missing
          NoSecret,
          Admin              \* the user and password the secured brokers know

ASSUME AccessAssumption ==
    /\ Secured \subseteq Addresses
    /\ ClusterNamespace \in Namespaces /\ NoNamespace \notin Namespaces
    /\ NoRef \notin SecretNames /\ NoKey \notin Texts
    /\ Admin \in [user : Texts, pass : Texts]

ClusterSpecs == [bootstrapServers : Addresses, ref : SecretNames \cup {NoRef},
                 namespace : Namespaces \cup {NoNamespace}]

Places == Namespaces \X SecretNames
Secrets == LET keys == Texts \cup {NoKey}
           IN  [username : keys, password : keys, plaintext : keys]

(***************************************************************************)
(* GetAdminCredentials: the set of the login, empty if there is an error.  *)
(***************************************************************************)
NoLogin == [user |-> NoKey, pass |-> NoKey]

\* Mutants: the namespace of the reference is not heeded; the key of bufstream's
\* own Secrets comes first.
OwnNamespace(s) == <<ClusterNamespace, s.ref>>

PlaintextFirst(secret) ==
    IF secret.plaintext # NoKey THEN secret.plaintext ELSE secret.password

Place(s) == <<IF s.namespace = NoNamespace THEN ClusterNamespace ELSE s.namespace, s.ref>>

Password(secret) == IF secret.password # NoKey THEN secret.password ELSE secret.plaintext

GetAdminCredentials(s, secrets) ==
    IF s.ref = NoRef THEN {NoLogin}
    ELSE {[user |-> secret.username, pass |-> Password(secret)] :
            secret \in {x \in {secrets[Place(s)]} :
                x # NoSecret /\ x.username # NoKey /\ Password(x) # NoKey}}

\* What the broker makes of NewClient and CheckHealth while it is up.
LetsIn(servers, login) == login = IF servers \in Secured THEN Admin ELSE NoLogin

(***************************************************************************)
(* What the API says (api/v1alpha1/cluster_types.go): a Secret, by default *)
(* of the Cluster's namespace, with a username and a password, or with a   *)
(* username and a plaintext; without a reference no authentication.        *)
(***************************************************************************)
Authorised(s, secrets) ==
    IF s.ref = NoRef THEN s.bootstrapServers \notin Secured
    ELSE LET ns == IF s.namespace \in Namespaces THEN s.namespace ELSE ClusterNamespace
         IN  \E secret \in {secrets[<<ns, s.ref>>]} \ {NoSecret} :
                 /\ s.bootstrapServers \in Secured
                 /\ secret.username = Admin.user
                 /\ \/ secret.password = Admin.pass
                    \/ secret.password = NoKey /\ secret.plaintext = Admin.pass
=============================================================================

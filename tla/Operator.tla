------------------------------ MODULE Operator ------------------------------
(***************************************************************************)
(* The process cmd/main.go starts: the Cluster controller beside one that  *)
(* depends on it, in one manager with one informer cache.  The dependent   *)
(* is the ACL controller with a single entry, so that all that counts of a *)
(* broker is whether it has the entry; the Topic and User controllers look *)
(* the Cluster up in the same way.  The Cluster controller is present by   *)
(* what it promises, ClusterHealth: here users edit and delete the Cluster *)
(* and its servers come and go, while the dependent controller sees the    *)
(* Cluster through the cache and connects to the servers of the copy it    *)
(* read.                                                                   *)
(*                                                                         *)
(* What is checked elsewhere is left out here: both resources live once,   *)
(* nobody else puts a finalizer on them, and the informer of the ACLs is   *)
(* prompt (that of the Clusters is not).                                   *)
(***************************************************************************)
EXTENDS ReconcileLoop

CONSTANTS Servers,  \* bootstrap servers, with the credentials for them
          Moves,    \* the edits of a Cluster's servers, as <<old, new>> pairs
          NoServer

ASSUME OperatorAssumption == Servers # {} /\ NoServer \notin Servers

VARIABLES stored, shown, verdict, serving, reached,  \* of ClusterHealth
          server,   \* cluster.Spec.BootstrapServers of the copy GetCluster returned
          entries,  \* the servers whose list has the entry
          gone,     \* the ACL was deleted (ends its life)
          named     \* the servers the Cluster has named so far (history)

healthVars == <<stored, shown, verdict, serving, reached>>
workerVars == <<pc, local, server>>
historyVars == <<gone, named>>
vars == <<kubeVars, workerVars, cluster, calm, healthVars, entries, historyVars>>

H == INSTANCE ClusterHealth

\* What GetCluster and IsClusterReady make of the cached Cluster: neither looks
\* at a deletion under way nor at the generation Ready was written for.
Seen(c) ==
    IF c.phase = "absent" THEN "absent" ELSE IF c.ready THEN "ready" ELSE "notReady"

Init ==
    /\ LoopInit /\ H!Init
    /\ cluster = Seen(shown)
    /\ server = NoServer /\ entries = {}
    /\ gone = FALSE /\ named = {}

(***************************************************************************)
(* The dependent controller, on the servers of the Cluster it read.        *)
(***************************************************************************)
Answered(next) == Goto(next) \/ (~calm /\ Abort)

\* The servers are those of the copy read once, until Reconcile is through.
KeepServer == server' = IF pc' \in {"connect", "create", "delete"} THEN server ELSE NoServer

\* Mutant: a Cluster that is there need not be Ready.
FindAnyCluster ==
    /\ pc = "cluster"
    /\ IF cluster = "absent" THEN Abort ELSE Goto("connect")
    /\ server' = IF cluster = "absent" THEN NoServer ELSE shown.servers
    /\ UNCHANGED entries

FindCluster ==
    /\ LookUpCluster
    /\ server' = IF cluster = "ready" THEN shown.servers ELSE NoServer
    /\ UNCHANGED entries

ConnectToServer ==
    /\ \/ server \in serving /\ Connect("create")
       \/ pc = "connect" /\ server \notin serving /\ Abort
    /\ KeepServer /\ UNCHANGED entries

\* Mutant: the servers' answer is not waited for.
CreateUnanswered ==
    /\ pc = "create"
    /\ entries' = IF server \in serving THEN entries \cup {server} ELSE entries
    /\ Goto("report")
    /\ KeepServer

CreateEntry ==
    /\ pc = "create"
    /\ \/ server \in serving /\ entries' = entries \cup {server} /\ Answered("report")
       \/ (server \notin serving \/ ~calm) /\ Abort /\ UNCHANGED entries
    /\ KeepServer

\* Mutant: servers that do not answer any more are taken to have no entry.
DeleteIfServing ==
    /\ pc = "delete"
    /\ \/ server \in serving /\ entries' = entries \ {server} /\ Answered("unfinalize")
       \/ server \notin serving /\ Goto("unfinalize") /\ UNCHANGED entries
    /\ KeepServer

DeleteEntry ==
    /\ pc = "delete"
    /\ \/ server \in serving /\ entries' = entries \ {server} /\ Answered("unfinalize")
       \/ (server \notin serving \/ ~calm) /\ GiveUp /\ UNCHANGED entries
    /\ KeepServer

LoopOnly ==
    \/ IgnoreGone \/ SkipSettled \/ BeginFinalize \/ BeginReconcile \/ BeginDelete
    \/ AddFinalizer \/ ReportFailure \/ ReportReady \/ RemoveFinalizer

Dependent ==
    /\ \/ LoopOnly /\ UNCHANGED <<server, entries>>
       \/ FindCluster \/ ConnectToServer \/ CreateEntry \/ DeleteEntry
    /\ UNCHANGED <<healthVars, historyVars>>

(***************************************************************************)
(* The Cluster controller.  The dependent sees what it wrote when the      *)
(* informer shows it.                                                      *)
(***************************************************************************)
ShowCluster == cluster' = Seen(shown')

HealthCheck ==
    /\ H!Check \/ H!Report \/ H!Forget \/ H!Show
    /\ ShowCluster
    /\ UNCHANGED <<kubeVars, workerVars, entries, historyVars>>

(***************************************************************************)
(* The process and its surroundings.                                       *)
(***************************************************************************)
\* The process dies and both controllers with it; the new one lists all.
Restart ==
    /\ H!Restart /\ ShowCluster
    /\ pc' = "idle" /\ local' = Absent /\ server' = NoServer
    /\ Relist
    /\ UNCHANGED <<entries, historyVars>>

Surroundings ==
    /\ H!ServersChange \/ H!Settle
    /\ UNCHANGED <<kubeVars, workerVars, cluster, entries, historyVars>>

UsersOfCluster ==
    /\ \/ named = {} /\ \E s \in Servers : H!Create(s)
       \/ \E s \in Servers : H!Move(s)
       \/ H!Delete /\ stored' = H!NoCluster
    /\ named' = named \cup IF stored'.phase = "absent" THEN {} ELSE {stored'.servers}
    /\ UNCHANGED <<kubeVars, workerVars, cluster, entries, gone>>

UsersOfDependent ==
    /\ \/ ~gone /\ \E s \in Specs : UserCreate(s)
       \/ UserDelete /\ (Present(obj') <=> obj.fin)
    /\ gone' = (gone \/ ~Live(obj'))
    /\ UNCHANGED <<workerVars, cluster, calm, healthVars, entries, named>>

Inform ==
    /\ Deliver \/ TimerFires
    /\ UNCHANGED <<workerVars, cluster, calm, healthVars, entries, historyVars>>

Next ==
    \/ Inform
    \/ /\ "cache" \in seen
       /\ \/ Dependent \/ HealthCheck \/ Restart
          \/ UsersOfCluster \/ UsersOfDependent \/ Surroundings

Spec == Init /\ [][Next]_vars

(***************************************************************************)
(* Each controller has a goroutine of its own, the informers catch up, the *)
(* delays of the queue elapse, outages end.                                *)
(***************************************************************************)
Fairness ==
    /\ WF_vars(Dependent)
    /\ WF_vars(Deliver /\ Inform) /\ WF_vars(TimerFires /\ Inform)
    /\ WF_vars(H!Check /\ HealthCheck) /\ WF_vars(H!Report /\ HealthCheck)
    /\ WF_vars(H!Show /\ HealthCheck)
    /\ WF_vars(H!Settle /\ Surroundings)

LiveSpec == Spec /\ Fairness

(***************************************************************************)
(* Properties.                                                             *)
(***************************************************************************)
\* Every variable keeps to its type, and the Cluster is seen as it is cached.
TypeOK ==
    /\ LoopTypeOK /\ H!TypeOK
    /\ cluster = Seen(shown)
    /\ server \in Servers \cup {NoServer} /\ entries \subseteq Servers
    /\ gone \in BOOLEAN /\ named \subseteq Servers

\* A Cluster that always named the same servers.
Steady == \A s, t \in named : s = t

\* No controller writes to a broker that the Cluster controller has not reached
\* with the credentials of the Cluster, as long as the Cluster keeps its
\* servers: what is Ready in the cache, however old, was once checked.
WrittenAfterCheck == Steady => entries \subseteq reached

\* When an ACL is released its entry is gone from every broker the Cluster has
\* named, through absences, re-creations and outages of the Cluster, as long as
\* the Cluster keeps its servers (README "Finalizers").
NothingLeft == Steady /\ Stage(obj) = "free" => entries = {}

\* A Ready ACL is in force on servers that its Cluster has named, whatever
\* became of the Cluster after the servers were looked up.
ReadyOnNamed == Live(obj) /\ Settled(obj) => entries \cap named # {}

\* With a Cluster that is there and servers that answer, an ACL becomes Ready,
\* or goes if it is deleted, although no event tells its controller that the
\* Cluster controller has found the servers: polling the Cluster is enough.
Owed == Live(obj) \/ Stage(obj) = "releasing"
Done == IF Live(obj) THEN Settled(obj) ELSE Stage(obj) # "releasing"
Available == calm /\ stored.phase = "live" /\ stored.servers \in serving
ServedThroughCluster == Owed /\ Available ~> Done \/ ~Available

(***************************************************************************)
(* What the documentation says and the code does not do.                   *)
(***************************************************************************)
\* The finalizer of a resource cleans up: while the broker that has the entry
\* answers, the entry of a resource that is being deleted goes.
FinalizersCleanUp ==
    calm /\ Deleting(obj) /\ entries # {} /\ entries \subseteq serving ~> entries = {}
=============================================================================

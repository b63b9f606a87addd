--------------------------- MODULE OperatorProofs ---------------------------
(***************************************************************************)
(* The Cluster controller and one that depends on it, for every set of     *)
(* servers, edits of the Cluster and specs of the dependent.               *)
(***************************************************************************)
EXTENDS Operator, LoopProofs

\* Servers that the Cluster controller vouches for: the Cluster has named them,
\* and they answered if the Cluster never named others.
Vouched(s) == s \in named /\ (Steady => s \in reached)

(***************************************************************************)
(* The inductive invariant.                                                *)
(***************************************************************************)
HealthKnowledge ==
    /\ stored.phase # "absent" => stored.servers \in named
    /\ shown.phase # "absent" => shown.servers \in named
    /\ verdict = "answers" => stored.phase = "live" /\ stored.servers \in reached
    /\ stored.ready => stored.phase # "absent" /\ Vouched(stored.servers)
    /\ shown.ready => shown.phase # "absent" /\ Vouched(shown.servers)

WorkerKnowledge ==
    /\ pc \in {"connect", "create", "delete"} => Vouched(server)
    /\ \A s \in entries : Vouched(s)
    /\ pc = "report" => entries # {}
    /\ pc = "unfinalize" /\ Steady => entries = {}

HeldWhileNeeded ==
    /\ Live(obj) /\ Settled(obj) => entries # {}
    /\ Steady /\ Stage(obj) = "free" => entries = {}

OperatorInv ==
    /\ TypeOK /\ LoopInv
    /\ pc \in LoopPcs \cup {"create", "delete"}
    /\ HealthKnowledge /\ WorkerKnowledge /\ HeldWhileNeeded

\* The Cluster never names fewer servers, nor do fewer come to be reached.
Grown == named \subseteq named' /\ reached \subseteq reached'

LEMMA VouchedKept ==
  ASSUME NEW s, Vouched(s), Grown
  PROVE  s \in named' /\ (Steady' => s \in reached')
  BY DEF Vouched, Grown, Steady

LEMMA SeenType == \A c : Seen(c) \in ClusterStates
  BY DEF Seen, ClusterStates

\* What the worker knows lasts while it does nothing.
LEMMA WorkerRests ==
  ASSUME WorkerKnowledge, Grown, UNCHANGED <<server, entries>>,
         pc' = pc \/ pc' \notin {"connect", "create", "delete", "report", "unfinalize"}
  PROVE  WorkerKnowledge'
  <1>1. Steady' => Steady BY DEF Grown, Steady
  <1>2. pc' \in {"connect", "create", "delete"} => Vouched(server)'
    BY VouchedKept DEF WorkerKnowledge, Vouched
  <1>3. \A s \in entries' : Vouched(s)'
    BY VouchedKept DEF WorkerKnowledge, Vouched
  <1> QED BY <1>1, <1>2, <1>3 DEF WorkerKnowledge

\* No step of the loop, of users or of the informers takes an entry from a
\* resource that needs it, or leaves one behind.
LEMMA StillHeld ==
  ASSUME OperatorInv, LoopMove, Grown, UNCHANGED entries
  PROVE  HeldWhileNeeded'
  <1>1. Steady' => Steady BY DEF Grown, Steady
  <1>2. Served(obj') => Served(obj) \/ pc = "report"
    BY DEF LoopMove, MoveNone, MoveUnheld, MoveHold, MoveEdit, MoveDelete, MoveReport,
           MoveRelease
  <1>3. Stage(obj') = "free" => Stage(obj) = "free" \/ pc = "unfinalize"
    BY DEF LoopMove, MoveNone, MoveUnheld, MoveHold, MoveEdit, MoveDelete, MoveReport,
           MoveRelease, StageAndSpec
  <1>4. Served(obj') => entries # {}
    BY <1>2 DEF OperatorInv, HeldWhileNeeded, WorkerKnowledge, Served
  <1>5. Steady' /\ Stage(obj') = "free" => entries = {}
    BY <1>1, <1>3 DEF OperatorInv, HeldWhileNeeded, WorkerKnowledge
  <1>6. (Stage(obj))' = Stage(obj') BY DEF Stage, Present, Live
  <1>7. (Live(obj) /\ Settled(obj))' = Served(obj') BY DEF Served, Live, Settled
  <1> QED BY <1>4, <1>5, <1>6, <1>7 DEF HeldWhileNeeded

(***************************************************************************)
(* The Cluster and its controller.                                         *)
(***************************************************************************)
LEMMA NoClusterType ==
  H!NoCluster \in H!Clusters /\ H!NoCluster.phase = "absent" /\ ~H!NoCluster.ready
  BY OperatorAssumption DEF H!NoCluster, H!Clusters

\* What a check found is true of the Cluster that is stored, and a Ready
\* Cluster, stored or shown, was checked unless its servers changed.
LEMMA CheckPart ==
  ASSUME OperatorInv, UNCHANGED named,
         H!Check \/ H!Report \/ H!Forget \/ H!Show \/ H!Restart \/ H!ServersChange \/ H!Settle
  PROVE  H!TypeOK' /\ HealthKnowledge' /\ Grown
  <1> USE DEF OperatorInv, TypeOK, H!TypeOK, H!Clusters, H!Verdicts
  <1>1. Grown
    BY DEF Grown, H!Check, H!Report, H!Forget, H!Show, H!Restart, H!ServersChange, H!Settle
  <1>2. CASE H!Check
    <2>1. H!TypeOK' BY <1>2 DEF H!Check
    <2>2. HealthKnowledge'
      BY <1>1, <1>2, VouchedKept DEF H!Check, HealthKnowledge, Vouched
    <2> QED BY <1>1, <2>1, <2>2
  <1>3. CASE H!Report
    <2>1. /\ stored'.phase = stored.phase /\ stored'.servers = stored.servers
          /\ stored'.ready = (verdict = "answers") /\ stored' \in H!Clusters
          /\ verdict' = "none" /\ UNCHANGED <<shown, serving, reached, calm>>
      BY <1>3 DEF H!Report
    <2>2. H!TypeOK' BY <2>1
    <2>3. verdict = "answers" => stored.phase = "live" /\ Vouched(stored.servers)
      BY DEF HealthKnowledge, Vouched
    <2>4. HealthKnowledge' BY <2>1, <2>3 DEF HealthKnowledge, Vouched, Steady
    <2> QED BY <1>1, <2>2, <2>4
  <1>4. CASE H!Forget
    BY <1>1, <1>4 DEF H!Forget, HealthKnowledge, Vouched, Steady
  <1>5. CASE H!Show
    BY <1>1, <1>5 DEF H!Show, HealthKnowledge, Vouched, Steady
  <1>6. CASE H!Restart
    BY <1>1, <1>6 DEF H!Restart, HealthKnowledge, Vouched, Steady
  <1>7. CASE H!ServersChange
    BY <1>1, <1>7 DEF H!ServersChange, HealthKnowledge, Vouched, Steady
  <1>8. CASE H!Settle
    BY <1>1, <1>8 DEF H!Settle, HealthKnowledge, Vouched, Steady
  <1> QED BY <1>2, <1>3, <1>4, <1>5, <1>6, <1>7, <1>8

\* A Ready condition that outlives an edit of the servers is not vouched for,
\* but then the Cluster is no longer one that always named the same.
LEMMA ClusterPart ==
  ASSUME OperatorInv, UsersOfCluster
  PROVE  H!TypeOK' /\ HealthKnowledge' /\ Grown /\ named' \subseteq Servers
  <1> USE DEF OperatorInv, TypeOK, H!TypeOK, H!Verdicts
  <1>1. /\ verdict' = "none" /\ UNCHANGED <<shown, serving, reached, calm>>
        /\ \/ \E s \in Servers : stored' = [phase |-> "live", servers |-> s, ready |-> FALSE]
           \/ \E s \in Servers : stored' = [stored EXCEPT !.servers = s] /\ stored.phase # "absent"
           \/ stored' = H!NoCluster
    BY DEF UsersOfCluster, H!Create, H!Move, H!Delete, H!Write
  <1>2. /\ named \subseteq named'
        /\ stored'.phase # "absent" => named' = named \cup {stored'.servers}
        /\ stored'.phase = "absent" => named' = named
    BY DEF UsersOfCluster
  <1>3. Grown BY <1>1, <1>2 DEF Grown
  <1>4. /\ stored' \in H!Clusters
        /\ stored'.ready => /\ stored'.phase # "absent" /\ stored.phase # "absent"
                            /\ stored.ready
    <2>1. ASSUME NEW s \in Servers, stored' = [phase |-> "live", servers |-> s, ready |-> FALSE]
          PROVE  stored' \in H!Clusters /\ ~stored'.ready
      BY <2>1 DEF H!Clusters
    <2>2. ASSUME NEW s \in Servers, stored' = [stored EXCEPT !.servers = s]
          PROVE  /\ stored' \in H!Clusters
                 /\ stored'.ready = stored.ready /\ stored'.phase = stored.phase
      <3>1. stored \in H!Clusters OBVIOUS
      <3> QED BY <2>2, <3>1 DEF H!Clusters
    <2> QED BY <1>1, <2>1, <2>2, NoClusterType
  <1>5. H!TypeOK' BY <1>1, <1>4
  <1>6. named' \subseteq Servers BY <1>2, <1>4 DEF H!Clusters
  <1>7. ASSUME stored'.ready PROVE stored'.servers \in named' /\ (Steady' => stored'.servers \in reached')
    <2>1. stored'.servers \in named' BY <1>2, <1>4, <1>7
    <2>2. stored.servers \in named' /\ (Steady' => stored.servers \in reached')
      BY <1>3, <1>4, <1>7, VouchedKept DEF HealthKnowledge
    <2>3. Steady' => stored'.servers = stored.servers BY <2>1, <2>2 DEF Steady
    <2> QED BY <2>1, <2>2, <2>3
  <1>8. shown.ready => shown.servers \in named' /\ (Steady' => shown.servers \in reached')
    BY <1>3, VouchedKept DEF HealthKnowledge
  <1>9. HealthKnowledge'
    BY <1>1, <1>2, <1>4, <1>7, <1>8 DEF HealthKnowledge, Vouched
  <1> QED BY <1>3, <1>5, <1>6, <1>9

(***************************************************************************)
(* The steps of the dependent controller.                                  *)
(***************************************************************************)
\* Those that leave the servers alone.
LEMMA LoopPart ==
  ASSUME OperatorInv, LoopOnly, UNCHANGED <<server, entries, healthVars, historyVars>>
  PROVE  OperatorInv'
  <1>0. LoopStep BY DEF LoopOnly, LoopStep
  <1>1. LoopTypeOK' /\ LoopInv' BY <1>0, LoopStepInv DEF OperatorInv, TypeOK
  <1>2. pc' \in {"idle", "finalize", "cluster", "fail"}
    BY QuietSteps
    DEF LoopOnly, IgnoreGone, SkipSettled, BeginFinalize, BeginReconcile, BeginDelete,
        Begin, Leave, Dequeue, loopVars, AddFinalizer, ReportFailure, ReportReady,
        RemoveFinalizer, Return
  <1>3. UNCHANGED <<cluster, calm>>
    BY DEF LoopOnly, IgnoreGone, SkipSettled, BeginFinalize, BeginReconcile, BeginDelete,
        Begin, Leave, loopVars, AddFinalizer, ReportFailure, ReportReady, RemoveFinalizer,
        GiveUp, Return
  <1>4. Grown BY DEF Grown, healthVars, historyVars
  <1>5. WorkerKnowledge' BY <1>2, <1>4, WorkerRests DEF OperatorInv
  <1>6. HeldWhileNeeded' BY <1>0, <1>4, LoopMoves, StillHeld DEF OperatorInv, TypeOK
  <1>7. TypeOK'
    BY <1>1, <1>3 DEF OperatorInv, TypeOK, H!TypeOK, H!Clusters, H!Verdicts, Seen,
                      healthVars, historyVars
  <1>8. HealthKnowledge'
    BY DEF OperatorInv, HealthKnowledge, Vouched, Steady, healthVars, historyVars
  <1> QED BY <1>1, <1>2, <1>5, <1>6, <1>7, <1>8 DEF OperatorInv, LoopPcs

\* Those that find or use them.
WorkerStep(next) ==
    /\ obj' = obj /\ UNCHANGED <<cluster, calm, healthVars, historyVars>>
    /\ LoopTypeOK' /\ LoopInv'
    /\ pc' \in next \cup {"idle", "fail"}

LEMMA WorkerPart ==
  ASSUME OperatorInv, NEW next \in SUBSET (LoopPcs \cup {"create", "delete"}),
         WorkerStep(next), server' \in Servers \cup {NoServer}, entries' \subseteq Servers,
         WorkerKnowledge', HeldWhileNeeded'
  PROVE  OperatorInv'
  <1>1. TypeOK'
    BY DEF WorkerStep, OperatorInv, TypeOK, H!TypeOK, H!Clusters, H!Verdicts, Seen,
           healthVars, historyVars
  <1>2. HealthKnowledge'
    BY DEF WorkerStep, OperatorInv, HealthKnowledge, Vouched, Steady, healthVars, historyVars
  <1> QED BY <1>1, <1>2 DEF WorkerStep, OperatorInv, LoopPcs

LEMMA SameResource ==
  ASSUME obj' = obj
  PROVE  /\ Stage(obj)' = Stage(obj)
         /\ Live(obj)' = Live(obj) /\ Settled(obj)' = Settled(obj)
  BY DEF Stage, Present, Live, Settled

LEMMA FindClusterPart ==
  ASSUME OperatorInv, FindCluster, UNCHANGED <<healthVars, historyVars>>
  PROVE  OperatorInv'
  <1>1. LoopTypeOK' /\ LoopInv' BY LookUpClusterInv DEF OperatorInv, TypeOK, FindCluster
  <1>2. /\ obj' = obj /\ UNCHANGED <<cluster, calm>>
        /\ (pc' = "connect" /\ cluster = "ready") \/ pc' \in {"idle", "fail"}
    BY QuietSteps DEF FindCluster, LookUpCluster, Goto, Abort, GiveUp, Return
  <1>3. WorkerStep({"connect"}) BY <1>1, <1>2 DEF WorkerStep
  <1>4. cluster = "ready" => Vouched(shown.servers)
    BY DEF OperatorInv, TypeOK, Seen, HealthKnowledge
  <1>5. /\ server' = IF cluster = "ready" THEN shown.servers ELSE NoServer
        /\ entries' = entries /\ UNCHANGED <<reached, named>>
    BY DEF FindCluster, healthVars, historyVars
  <1>6. server' \in Servers \cup {NoServer}
    BY <1>5 DEF OperatorInv, TypeOK, H!TypeOK, H!Clusters
  <1>7. WorkerKnowledge'
    BY <1>2, <1>4, <1>5 DEF OperatorInv, WorkerKnowledge, Vouched, Steady
  <1>8. HeldWhileNeeded'
    BY <1>2, <1>5, SameResource DEF OperatorInv, HeldWhileNeeded, Steady
  <1> QED BY <1>3, <1>5, <1>6, <1>7, <1>8, WorkerPart DEF OperatorInv, TypeOK, LoopPcs

LEMMA ConnectPart ==
  ASSUME OperatorInv, ConnectToServer, UNCHANGED <<healthVars, historyVars>>
  PROVE  OperatorInv'
  <1>0. pc = "connect" BY DEF ConnectToServer, Connect
  <1>1. LoopTypeOK' /\ LoopInv'
    BY <1>0, ConnectInv, AbortInv DEF OperatorInv, TypeOK, ConnectToServer
  <1>2. /\ obj' = obj /\ UNCHANGED <<cluster, calm>>
        /\ pc' \in {"create", "delete", "idle", "fail"}
    BY QuietSteps DEF ConnectToServer, Connect, Goto, Abort, GiveUp, Return
  <1>3. WorkerStep({"create", "delete"}) BY <1>1, <1>2 DEF WorkerStep
  <1>4. /\ server' \in {server, NoServer} /\ entries' = entries
        /\ pc' \in {"create", "delete"} => server' = server
        /\ UNCHANGED <<reached, named>>
    BY DEF ConnectToServer, KeepServer, healthVars, historyVars
  <1>5. WorkerKnowledge'
    BY <1>0, <1>2, <1>4 DEF OperatorInv, WorkerKnowledge, Vouched, Steady
  <1>6. HeldWhileNeeded'
    BY <1>2, <1>4, SameResource DEF OperatorInv, HeldWhileNeeded, Steady
  <1>7. server' \in Servers \cup {NoServer} /\ entries' \subseteq Servers
    BY <1>4 DEF OperatorInv, TypeOK
  <1> QED BY <1>3, <1>5, <1>6, <1>7, WorkerPart DEF LoopPcs

\* An entry goes to servers that are vouched for, for a resource that is held.
LEMMA CreatePart ==
  ASSUME OperatorInv, CreateEntry, UNCHANGED <<healthVars, historyVars>>
  PROVE  OperatorInv'
  <1>0. pc = "create" BY DEF CreateEntry
  <1>1. Live(local) /\ local.fin BY <1>0 DEF OperatorInv, LoopInv, PcMatchesCopy
  <1>2. \/ server \in serving /\ entries' = entries \cup {server} /\ (Goto("report") \/ Abort)
        \/ entries' = entries /\ Abort
    BY DEF CreateEntry, Answered
  <1>3. LoopTypeOK' /\ LoopInv'
    BY <1>0, <1>1, <1>2, GotoInv, AbortInv DEF OperatorInv, TypeOK
  <1>4. /\ obj' = obj /\ UNCHANGED <<cluster, calm>>
        /\ pc' \in {"idle", "fail"} \/ (pc' = "report" /\ entries' = entries \cup {server})
    BY <1>2, QuietSteps DEF Goto, Abort, GiveUp, Return
  <1>5. WorkerStep({"report"}) BY <1>3, <1>4 DEF WorkerStep
  <1>6. /\ server' \in {server, NoServer} /\ UNCHANGED <<reached, named>>
    BY DEF CreateEntry, KeepServer, healthVars, historyVars
  <1>7. entries \subseteq entries' /\ entries' \subseteq entries \cup {server} BY <1>2
  <1>8. WorkerKnowledge'
    BY <1>0, <1>4, <1>6, <1>7 DEF OperatorInv, WorkerKnowledge, Vouched, Steady
  <1>9. Stage(obj) # "free"
    BY <1>1 DEF OperatorInv, LoopInv, CopyBounds, Stage
  <1>10. HeldWhileNeeded'
    BY <1>4, <1>7, <1>9, SameResource DEF OperatorInv, HeldWhileNeeded
  <1>11. server' \in Servers \cup {NoServer} /\ entries' \subseteq Servers
    BY <1>2, <1>6 DEF OperatorInv, TypeOK, H!TypeOK
  <1> QED BY <1>5, <1>8, <1>10, <1>11, WorkerPart DEF LoopPcs

\* When the servers never changed, the entry goes from the only ones that
\* could have it; a settled resource has no copy that would take it away.
LEMMA DeletePart ==
  ASSUME OperatorInv, DeleteEntry, UNCHANGED <<healthVars, historyVars>>
  PROVE  OperatorInv'
  <1>0. pc = "delete" BY DEF DeleteEntry
  <1>1. Deleting(local) /\ local.fin /\ ~Live(local)
    BY <1>0 DEF OperatorInv, LoopInv, PcMatchesCopy, Live, Deleting
  <1>2. \/ entries' = entries \ {server} /\ (Goto("unfinalize") \/ GiveUp)
        \/ entries' = entries /\ GiveUp
    BY <1>1 DEF DeleteEntry, Answered, Abort
  <1>3. LoopTypeOK' /\ LoopInv'
    BY <1>0, <1>1, <1>2, GotoInv, GiveUpInv DEF OperatorInv, TypeOK
  <1>4. /\ obj' = obj /\ UNCHANGED <<cluster, calm>>
        /\ pc' = "idle" \/ (pc' = "unfinalize" /\ entries' = entries \ {server})
    BY <1>2, QuietSteps DEF Goto, GiveUp, Return
  <1>5. WorkerStep({"unfinalize"}) BY <1>3, <1>4 DEF WorkerStep
  <1>6. /\ server' \in {server, NoServer} /\ UNCHANGED <<reached, named>>
    BY DEF DeleteEntry, KeepServer, healthVars, historyVars
  <1>7. entries' \subseteq entries BY <1>2
  <1>8. Steady => entries \subseteq {server}
    BY <1>0 DEF OperatorInv, WorkerKnowledge, Vouched, Steady
  <1>9. WorkerKnowledge'
    BY <1>4, <1>6, <1>7, <1>8 DEF OperatorInv, WorkerKnowledge, Vouched, Steady
  <1>10. ~(Live(obj) /\ Settled(obj))
    BY <1>1 DEF OperatorInv, LoopInv, SettledKnown, SettledSpread, CopyBounds
  <1>11. HeldWhileNeeded'
    BY <1>4, <1>6, <1>7, <1>10, SameResource DEF OperatorInv, HeldWhileNeeded, Steady
  <1>12. server' \in Servers \cup {NoServer} /\ entries' \subseteq Servers
    BY <1>6, <1>7 DEF OperatorInv, TypeOK
  <1> QED BY <1>5, <1>9, <1>11, <1>12, WorkerPart DEF LoopPcs

(***************************************************************************)
(* The steps of the others.                                                *)
(***************************************************************************)
\* The Cluster changes, as it is stored or as it is shown.
LEMMA RestInv ==
  ASSUME LoopTypeOK, LoopInv, UNCHANGED <<kubeVars, pc, local>>,
         cluster' \in ClusterStates, calm' \in BOOLEAN
  PROVE  LoopTypeOK' /\ LoopInv'
  BY DEF kubeVars, LoopTypeOK, KubeTypeOK, LoopInv, CopiesCurrent, PcMatchesCopy,
         CopyBounds, SettledKnown, SettledSpread, Settled, NoLostWakeup, Present, Live,
         Deleting

LEMMA ClusterStepPart ==
  ASSUME OperatorInv, HealthCheck \/ UsersOfCluster \/ Surroundings
  PROVE  OperatorInv'
  <1>1. UNCHANGED <<kubeVars, pc, local, server, entries, gone>>
    BY DEF HealthCheck, UsersOfCluster, Surroundings, workerVars, historyVars
  <1>2. H!TypeOK' /\ HealthKnowledge' /\ Grown /\ named' \subseteq Servers
    <2>1. CASE UsersOfCluster BY <2>1, ClusterPart
    <2>2. CASE HealthCheck \/ Surroundings
      BY <2>2, CheckPart
      DEF HealthCheck, Surroundings, historyVars, OperatorInv, TypeOK
    <2> QED BY <2>1, <2>2
  <1>3. cluster' = Seen(shown')
    BY DEF HealthCheck, ShowCluster, UsersOfCluster, Surroundings, H!Create, H!Move, H!Delete,
           H!Write, H!ServersChange, H!Settle, OperatorInv, TypeOK
  <1>4. LoopTypeOK' /\ LoopInv'
    BY <1>1, <1>2, <1>3, SeenType, RestInv DEF OperatorInv, TypeOK, H!TypeOK
  <1>5. LoopMove
    BY <1>1 DEF kubeVars, LoopMove, MoveNone, StageAndSpec
  <1>6. WorkerKnowledge' BY <1>1, <1>2, WorkerRests DEF OperatorInv
  <1>7. HeldWhileNeeded' BY <1>1, <1>2, <1>5, StillHeld
  <1>8. TypeOK' BY <1>1, <1>2, <1>3, <1>4 DEF OperatorInv, TypeOK, Seen
  <1> QED BY <1>1, <1>2, <1>4, <1>6, <1>7, <1>8 DEF OperatorInv

LEMMA RestartPart ==
  ASSUME OperatorInv, Restart
  PROVE  OperatorInv'
  <1>1. /\ pc' = "idle" /\ local' = Absent /\ Relist /\ server' = NoServer
        /\ UNCHANGED <<entries, gone, named>> /\ obj' = obj
    BY DEF Restart, historyVars, Relist
  <1>2. H!TypeOK' /\ HealthKnowledge' /\ Grown
    BY <1>1, CheckPart DEF Restart
  <1>3. cluster' = Seen(shown') BY DEF Restart, ShowCluster
  <1>4. LoopTypeOK' /\ LoopInv'
    <2>1. cluster' \in ClusterStates /\ calm' \in BOOLEAN
      BY <1>2, <1>3, SeenType DEF H!TypeOK
    <2> QED BY <1>1, <2>1, AbsentType
        DEF Relist, OperatorInv, TypeOK, LoopTypeOK, KubeTypeOK, LoopInv, CopiesCurrent,
            PcMatchesCopy, CopyBounds, SettledKnown, SettledSpread, Settled, NoLostWakeup,
            Present, Live, Deleting
  <1>5. LoopMove BY <1>1 DEF LoopMove, MoveNone, StageAndSpec
  <1>6. WorkerKnowledge'
    BY <1>1, <1>2, VouchedKept DEF OperatorInv, WorkerKnowledge, Vouched
  <1>7. HeldWhileNeeded' BY <1>1, <1>2, <1>5, StillHeld
  <1>8. TypeOK' BY <1>1, <1>2, <1>3, <1>4 DEF OperatorInv, TypeOK, Seen
  <1> QED BY <1>1, <1>2, <1>4, <1>6, <1>7, <1>8 DEF OperatorInv, LoopPcs

LEMMA ResourcePart ==
  ASSUME OperatorInv, UsersOfDependent \/ Inform
  PROVE  OperatorInv'
  <1>1. /\ UNCHANGED <<workerVars, cluster, calm, healthVars, entries, named>>
        /\ Users \/ Deliver \/ TimerFires
        /\ gone' \in BOOLEAN
    BY DEF UsersOfDependent, Inform, Users, historyVars, OperatorInv, TypeOK, Live
  <1>2. Environment BY <1>1 DEF Environment, loopVars, workerVars
  <1>3. LoopTypeOK' /\ LoopInv' BY <1>2, EnvironmentInv DEF OperatorInv, TypeOK
  <1>4. Grown BY <1>1 DEF Grown, healthVars
  <1>5. WorkerKnowledge' BY <1>1, <1>4, WorkerRests DEF OperatorInv, workerVars
  <1>6. HeldWhileNeeded' BY <1>1, <1>2, <1>4, LoopMoves, StillHeld DEF OperatorInv, TypeOK
  <1>7. TypeOK'
    BY <1>1, <1>3 DEF OperatorInv, TypeOK, H!TypeOK, H!Clusters, H!Verdicts, Seen,
                      healthVars, workerVars
  <1>8. HealthKnowledge'
    BY <1>1 DEF OperatorInv, HealthKnowledge, Vouched, Steady, healthVars
  <1> QED BY <1>1, <1>3, <1>5, <1>6, <1>7, <1>8 DEF OperatorInv, workerVars

LEMMA InitInv == Init => OperatorInv
  <1> SUFFICES ASSUME Init PROVE OperatorInv
    OBVIOUS
  <1>1. LoopTypeOK /\ LoopInv BY LoopInitInv DEF Init
  <1>2. /\ pc = "idle" /\ obj = Absent /\ calm = FALSE /\ cluster = Seen(shown)
        /\ server = NoServer /\ entries = {} /\ gone = FALSE /\ named = {}
        /\ stored = H!NoCluster /\ shown = H!NoCluster /\ verdict = "none"
        /\ serving \subseteq Servers /\ reached = {}
    BY DEF Init, LoopInit, KubeInit, H!Init
  <1>3. ~Live(Absent) BY DEF Live, Absent
  <1>4. TypeOK BY <1>1, <1>2, NoClusterType DEF TypeOK, H!TypeOK, H!Verdicts
  <1>5. HealthKnowledge BY <1>2, NoClusterType DEF HealthKnowledge
  <1>6. WorkerKnowledge /\ HeldWhileNeeded
    BY <1>2, <1>3 DEF WorkerKnowledge, HeldWhileNeeded
  <1> QED BY <1>1, <1>2, <1>4, <1>5, <1>6 DEF OperatorInv, LoopPcs

LEMMA StutterInv ==
  ASSUME OperatorInv, UNCHANGED vars
  PROVE  OperatorInv'
  <1>1. /\ UNCHANGED <<kubeVars, workerVars, cluster, calm, entries, gone, named>>
        /\ UNCHANGED <<stored, shown, verdict, serving, reached>>
    BY DEF vars, healthVars, historyVars
  <1>2. LoopTypeOK' /\ LoopInv'
    BY <1>1, RestInv DEF OperatorInv, TypeOK, LoopTypeOK, workerVars
  <1>3. TypeOK'
    BY <1>1, <1>2 DEF OperatorInv, TypeOK, H!TypeOK, H!Clusters, H!Verdicts, Seen, workerVars
  <1>4. HealthKnowledge' BY <1>1 DEF OperatorInv, HealthKnowledge, Vouched, Steady
  <1>5. Grown BY <1>1 DEF Grown
  <1>6. WorkerKnowledge' BY <1>1, <1>5, WorkerRests DEF OperatorInv, workerVars
  <1>7. obj' = obj BY <1>1 DEF kubeVars
  <1>8. HeldWhileNeeded' BY <1>1, <1>7, SameResource DEF OperatorInv, HeldWhileNeeded, Steady
  <1> QED BY <1>1, <1>2, <1>3, <1>4, <1>6, <1>8 DEF OperatorInv, workerVars

LEMMA OperatorInvariant == Spec => []OperatorInv
  <1>1. ASSUME OperatorInv, Next PROVE OperatorInv'
    <2>1. CASE Dependent
      BY <1>1, <2>1, LoopPart, FindClusterPart, ConnectPart, CreatePart, DeletePart
      DEF Dependent
    <2>2. CASE HealthCheck \/ UsersOfCluster \/ Surroundings
      BY <1>1, <2>2, ClusterStepPart
    <2>3. CASE Restart BY <1>1, <2>3, RestartPart
    <2>4. CASE UsersOfDependent \/ Inform BY <1>1, <2>4, ResourcePart
    <2> QED BY <1>1, <2>1, <2>2, <2>3, <2>4 DEF Next
  <1>2. OperatorInv /\ [Next]_vars => OperatorInv' BY <1>1, StutterInv
  <1> QED BY InitInv, <1>2, PTL DEF Spec

(***************************************************************************)
(* The theorems.                                                           *)
(***************************************************************************)
\* Every variable of the composition keeps to its type, and the dependent
\* controller sees the Cluster as it is cached.
THEOREM TypeCorrect == Spec => []TypeOK
  <1>1. OperatorInv => TypeOK BY DEF OperatorInv
  <1> QED BY <1>1, OperatorInvariant, PTL

\* As long as the Cluster keeps its servers, whatever a controller writes goes
\* to servers the Cluster controller has reached, however old the Ready
\* condition is that it goes by (IsClusterReady, cluster_helpers.go 51-55).
THEOREM CheckedBeforeWritten == Spec => []WrittenAfterCheck
  <1>1. OperatorInv => WrittenAfterCheck
    BY DEF OperatorInv, WorkerKnowledge, Vouched, WrittenAfterCheck
  <1> QED BY <1>1, OperatorInvariant, PTL

\* As long as the Cluster keeps its servers, a resource is only released when
\* its entry is gone from them, whatever became of the Cluster meanwhile.
THEOREM NothingIsLeft == Spec => []NothingLeft
  <1>1. OperatorInv => NothingLeft
    BY DEF OperatorInv, HeldWhileNeeded, NothingLeft
  <1> QED BY <1>1, OperatorInvariant, PTL

\* A resource that is Ready is in force on servers its Cluster has named,
\* whatever edits, deletions and outages of the Cluster there were.
THEOREM ReadyIsOnNamed == Spec => []ReadyOnNamed
  <1>1. ASSUME OperatorInv PROVE ReadyOnNamed
    <2>1. \A s \in entries : s \in named BY <1>1 DEF OperatorInv, WorkerKnowledge, Vouched
    <2>2. Live(obj) /\ Settled(obj) => entries # {} BY <1>1 DEF OperatorInv, HeldWhileNeeded
    <2> QED BY <2>1, <2>2 DEF ReadyOnNamed
  <1> QED BY <1>1, OperatorInvariant, PTL

(***************************************************************************)
(* The refinement of ManagedResource.  All that counts of the broker is    *)
(* whether it has the entry; with a Cluster that keeps its servers there   *)
(* is one broker.                                                          *)
(***************************************************************************)
Managed == INSTANCE ManagedResource WITH
    Wants <- Specs,
    Thing <- [s \in Specs |-> "entry"],
    stage <- Stage(obj),
    want <- obj.spec,
    ready <- Live(obj) /\ Settled(obj),
    made <- IF entries = {} THEN {} ELSE {"entry"},
    met <- IF entries = {} THEN {} ELSE Specs

\* A resource that is looked after through the Cluster is looked after as
\* ManagedResource says.
ImplementsManaged == Managed!Spec

LEMMA StepView ==
  /\ (Live(obj) /\ Settled(obj))' = Served(obj') /\ (Live(obj) /\ Settled(obj)) = Served(obj)
  /\ (Stage(obj))' = Stage(obj')
  BY DEF Served, Live, Settled, Stage, Present

LEMMA ThingIsOne == \A s \in Specs : [x \in Specs |-> "entry"][s] = "entry"
  OBVIOUS

LEMMA RefineInit == Init => Managed!Init
  <1> SUFFICES ASSUME Init PROVE Managed!Init
    OBVIOUS
  <1>1. obj = Absent /\ entries = {} BY DEF Init, LoopInit, KubeInit
  <1>2. Absent.phase = "absent" BY DEF Absent
  <1>3. Absent.spec \in Specs BY AbsentType DEF Resources
  <1> QED BY <1>1, <1>2, <1>3 DEF Managed!Init, Stage, Present, Live

\* What the loop, the informers and the users do to the resource.
LEMMA MoveRefines ==
  ASSUME OperatorInv, OperatorInv', Steady, LoopMove, UNCHANGED entries
  PROVE  Managed!Next \/ UNCHANGED Managed!vars
  <1>1. obj.spec \in Specs /\ obj'.spec \in Specs
    BY DEF OperatorInv, TypeOK, LoopTypeOK, KubeTypeOK, Resources
  <1> USE StepView
  <1>2. CASE MoveNone BY <1>2 DEF MoveNone, StageAndSpec, Managed!vars
  <1>3. CASE MoveUnheld BY <1>1, <1>3 DEF MoveUnheld, Managed!Unheld, Managed!Next
  <1>4. CASE MoveHold BY <1>4 DEF MoveHold, StageAndSpec, Managed!Hold, Managed!Next
  <1>5. CASE MoveEdit
    BY <1>1, <1>5, ThingIsOne DEF MoveEdit, Managed!Edit, Managed!Next
  <1>6. CASE MoveDelete BY <1>6 DEF MoveDelete, StageAndSpec, Managed!Delete, Managed!Next
  <1>7. CASE MoveReport
    <2>1. entries # {} BY <1>7 DEF MoveReport, OperatorInv, WorkerKnowledge
    <2> QED BY <1>1, <1>7, <2>1 DEF MoveReport, StageAndSpec, Managed!Report, Managed!Next
  <1>8. CASE MoveRelease
    <2>1. entries = {} BY <1>8 DEF MoveRelease, OperatorInv, WorkerKnowledge
    <2> QED BY <1>1, <1>8, <2>1 DEF MoveRelease, Managed!Release, Managed!Next
  <1> QED BY <1>2, <1>3, <1>4, <1>5, <1>6, <1>7, <1>8 DEF LoopMove

LEMMA CreateRefines ==
  ASSUME OperatorInv, CreateEntry
  PROVE  Managed!Next \/ UNCHANGED Managed!vars
  <1>1. Stage(obj) # "free" /\ obj.spec \in Specs
    BY DEF CreateEntry, OperatorInv, TypeOK, LoopTypeOK, KubeTypeOK, Resources, LoopInv,
           PcMatchesCopy, CopyBounds, Stage
  <1>2. obj' = obj /\ entries \subseteq entries'
    BY QuietSteps DEF CreateEntry, Answered, Goto, Abort, GiveUp, Return
  <1>3. Served(obj) => entries # {}
    BY DEF OperatorInv, HeldWhileNeeded, Served
  <1>4. CASE entries' = entries BY <1>2, <1>4, StepView DEF Managed!vars
  <1>5. CASE entries' # entries
    BY <1>1, <1>2, <1>3, <1>5, ThingIsOne, StepView DEF Managed!Work, Managed!Next
  <1> QED BY <1>4, <1>5

LEMMA DeleteRefines ==
  ASSUME OperatorInv, DeleteEntry
  PROVE  Managed!Next \/ UNCHANGED Managed!vars
  <1>1. Stage(obj) # "held"
    BY DEF DeleteEntry, OperatorInv, LoopInv, PcMatchesCopy, CopyBounds, Stage
  <1>2. obj' = obj /\ entries' \subseteq entries
    BY QuietSteps DEF DeleteEntry, Answered, Goto, Abort, GiveUp, Return
  <1>3. CASE entries' = entries BY <1>2, <1>3, StepView DEF Managed!vars
  <1>4. CASE entries' # entries
    BY <1>1, <1>2, <1>4, StepView DEF Managed!Clean, Managed!Next
  <1> QED BY <1>3, <1>4

LEMMA NextRefines ==
  ASSUME OperatorInv, OperatorInv', Steady, Next
  PROVE  Managed!Next \/ UNCHANGED Managed!vars
  <1>1. CASE (LoopOnly \/ UsersOfDependent \/ Inform) /\ UNCHANGED entries
    <2>1. LoopStep \/ Environment
      BY <1>1 DEF LoopOnly, LoopStep, UsersOfDependent, Inform, Users, Environment, loopVars,
                  workerVars
    <2> QED BY <1>1, <2>1, LoopMoves, MoveRefines DEF OperatorInv, TypeOK
  <1>2. CASE obj' = obj /\ UNCHANGED entries
    BY <1>2, StepView DEF Managed!vars
  <1>3. CASE CreateEntry \/ DeleteEntry BY <1>3, CreateRefines, DeleteRefines
  <1>4. FindCluster \/ ConnectToServer => obj' = obj /\ UNCHANGED entries
    BY QuietSteps DEF FindCluster, LookUpCluster, ConnectToServer, Connect, Goto, Abort,
                      GiveUp, Return
  <1>5. HealthCheck \/ Restart \/ UsersOfCluster \/ Surroundings
          => obj' = obj /\ UNCHANGED entries
    BY DEF HealthCheck, Restart, Relist, UsersOfCluster, Surroundings, kubeVars
  <1> QED BY <1>1, <1>2, <1>3, <1>4, <1>5
      DEF Next, Dependent, UsersOfDependent, Inform

\* As long as the Cluster keeps its servers, a controller that finds them through
\* the cached Cluster, polls for it and meets its absences and outages does
\* what ManagedResource promises.
THEOREM ServedAsManaged == Spec /\ []Steady => ImplementsManaged
  <1>1. OperatorInv /\ OperatorInv' /\ Steady /\ [Next]_vars => [Managed!Next]_Managed!vars
    <2>1. CASE Next BY <2>1, NextRefines
    <2>2. CASE UNCHANGED vars
      <3>1. obj' = obj /\ entries' = entries BY <2>2 DEF vars, kubeVars
      <3> QED BY <3>1, StepView DEF Managed!vars
    <2> QED BY <2>1, <2>2
  <1> QED BY <1>1, RefineInit, OperatorInvariant, PTL DEF Spec, ImplementsManaged, Managed!Spec
=============================================================================

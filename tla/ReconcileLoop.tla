--------------------------- MODULE ReconcileLoop ----------------------------
(***************************************************************************)
(* The part the Topic, User and ACL reconcilers share: Reconcile's         *)
(* dispatch, the finalizer, the lookup of the Cluster, the connection to   *)
(* the broker, the status writes and what each return leaves in the queue. *)
(* The symbols and lines are those of topic_controller.go;                 *)
(* user_controller.go and acl_controller.go repeat them.                   *)
(*                                                                         *)
(* A call of Reconcile runs through the values of "pc" and may stop at     *)
(* each of them, because the process crashes there.  Each controller has   *)
(* one worker (SetupWithManager leaves MaxConcurrentReconciles at 1).      *)
(***************************************************************************)
EXTENDS KubeResource

VARIABLES pc,       \* where the worker is in Reconcile; "idle": not in it
          local,    \* the copy it works on, read from the cache
          cluster,  \* the Cluster the spec names, as the cache shows it
          calm      \* the outages are over: what can succeed does

loopVars == <<pc, local, cluster, calm>>

ClusterStates == {"absent", "notReady", "ready"}
LoopPcs == {"idle", "finalize", "cluster", "connect", "report", "fail",
            "refuse", "unfinalize"}

LoopTypeOK ==
    /\ KubeTypeOK
    /\ local \in Resources
    /\ cluster \in ClusterStates
    /\ calm \in BOOLEAN

LoopInit ==
    /\ KubeInit
    /\ pc = "idle" /\ local = Absent
    /\ cluster \in ClusterStates /\ calm = FALSE

\* The status already says Ready for this generation.
Settled(r) == r.obs = r.gen /\ r.cond = "Ready"

Goto(next) ==
    /\ pc' = next
    /\ UNCHANGED <<local, cluster, calm, kubeVars>>

\* Reconcile returns.  "again" when it returned an error, Requeue or
\* RequeueAfter: the key comes back without any event.
Return(again) ==
    /\ pc' = "idle" /\ local' = Absent
    /\ timer' = (timer \/ again)
    /\ UNCHANGED <<cluster, calm>>

GiveUp ==
    /\ Return(TRUE)
    /\ seen' = seen \ {"local"}
    /\ UNCHANGED <<obj, cache, queued>>

\* An error on the way: for a live resource it goes to the status first.
Abort == IF Live(local) THEN Goto("fail") ELSE GiveUp

(***************************************************************************)
(* Reconcile takes the key from the queue and reads the resource.          *)
(***************************************************************************)
Dequeue == pc = "idle" /\ queued /\ queued' = FALSE

Begin(next) ==
    /\ Dequeue
    /\ pc' = next /\ local' = cache
    /\ seen' = IF "cache" \in seen THEN {"cache", "local"} ELSE {}
    /\ UNCHANGED <<obj, cache, timer, cluster, calm>>

Leave(again) ==
    /\ Dequeue
    /\ timer' = (timer \/ again)
    /\ UNCHANGED <<obj, cache, seen, loopVars>>

IgnoreGone ==
    /\ ~Present(cache) \/ (Deleting(cache) /\ ~cache.fin)
    /\ Leave(FALSE)

\* Mutant: the generation is not compared.
SkipReady == Live(cache) /\ cache.fin /\ cache.cond = "Ready" /\ Leave(TRUE)

SkipSettled == Live(cache) /\ cache.fin /\ Settled(cache) /\ Leave(TRUE)

BeginFinalize == Live(cache) /\ ~cache.fin /\ Begin("finalize")

\* Mutant: the finalizer is not waited for.
BeginUnprotected == Live(cache) /\ ~Settled(cache) /\ Begin("cluster")

BeginReconcile == Live(cache) /\ cache.fin /\ ~Settled(cache) /\ Begin("cluster")

BeginDelete == Deleting(cache) /\ cache.fin /\ Begin("cluster")

(***************************************************************************)
(* The writes to the API server.  A conflict refuses one from a stale      *)
(* copy; during an outage any may fail.  A write whose answer is lost      *)
(* returns an error, which asks for another call as Requeue does.          *)
(***************************************************************************)
WriteFails == "local" \notin seen \/ ~calm

AddFinalizer ==
    /\ pc = "finalize"
    /\ \/ Accepted([local EXCEPT !.fin = TRUE]) /\ Return(TRUE)
       \/ WriteFails /\ GiveUp

\* The error paths write Ready=False and return the error whether or not
\* the write succeeds.
ReportFailure ==
    /\ pc \in {"fail", "refuse"}
    /\ LET cond == IF pc = "fail" THEN "Failed" ELSE "Refused"
       IN \/ Accepted([local EXCEPT !.cond = cond]) /\ Return(TRUE)
          \/ WriteFails /\ GiveUp

\* Mutants: a conflict is overcome by reading the object again; the generation
\* reported is off by one.
ReportRetrying ==
    /\ pc = "report"
    /\ obj' = IF Live(obj) THEN [obj EXCEPT !.obs = obj.gen, !.cond = "Ready"] ELSE obj
    /\ seen' = {}
    /\ UNCHANGED <<cache, queued>>
    /\ Return(TRUE)

ReportNext ==
    /\ pc = "report"
    /\ \/ /\ Accepted([local EXCEPT !.obs = local.gen + 1, !.cond = "Ready"])
          /\ Return(TRUE)
       \/ WriteFails /\ GiveUp

ReportReady ==
    /\ pc = "report"
    /\ \/ /\ Accepted([local EXCEPT !.obs = local.gen, !.cond = "Ready"])
          /\ Return(TRUE)
       \/ WriteFails /\ GiveUp

\* Without another finalizer the object goes with this one.
RemoveFinalizer ==
    /\ pc = "unfinalize"
    /\ \/ /\ \/ Accepted(Absent)
             \/ Accepted([local EXCEPT !.fin = FALSE])
          /\ Return(FALSE) \/ (~calm /\ Return(TRUE))
       \/ WriteFails /\ GiveUp

(***************************************************************************)
(* GetCluster and IsClusterReady; then GetAdminCredentials, NewClient and, *)
(* for a live topic, CheckHealth, which change nothing.                    *)
(***************************************************************************)
\* Mutant: a Cluster that is not ready is not looked up again.
LookUpClusterOnce ==
    /\ pc = "cluster"
    /\ \/ cluster = "ready" /\ Goto("connect")
       \/ /\ cluster = "notReady" /\ Return(FALSE)
          /\ seen' = seen \ {"local"} /\ UNCHANGED <<obj, cache, queued>>
       \/ cluster = "absent" /\ Abort

LookUpCluster ==
    /\ pc = "cluster"
    /\ \/ cluster = "ready" /\ Goto("connect")
       \/ cluster = "notReady" /\ GiveUp
       \/ cluster = "absent" /\ Abort

Connect(first) ==
    /\ pc = "connect"
    /\ \/ Live(local) /\ Goto(first)
       \/ Deleting(local) /\ Goto("delete")
       \/ ~calm /\ Abort

LoopStep ==
    \/ IgnoreGone \/ SkipSettled
    \/ BeginFinalize \/ BeginReconcile \/ BeginDelete
    \/ AddFinalizer \/ LookUpCluster
    \/ ReportFailure \/ ReportReady \/ RemoveFinalizer

(***************************************************************************)
(* The environment of the worker.                                          *)
(***************************************************************************)
\* The process dies wherever it is and a new one takes over.
Crash ==
    /\ ~calm
    /\ pc' = "idle" /\ local' = Absent
    /\ Relist
    /\ UNCHANGED <<cluster, calm>>

ClusterChanges ==
    /\ ~calm
    /\ cluster' \in ClusterStates \ {cluster}
    /\ UNCHANGED <<pc, local, calm, kubeVars>>

\* The outages end and the Cluster is Ready.
Recover ==
    /\ ~calm
    /\ calm' = TRUE /\ cluster' = "ready"
    /\ UNCHANGED <<pc, local, kubeVars>>

Environment ==
    \/ (Users \/ Deliver \/ TimerFires) /\ UNCHANGED loopVars
    \/ ClusterChanges
    \/ Recover

(***************************************************************************)
(* Why the loop is safe.  The parts of the inductive invariant that do not *)
(* depend on what the resource stands for.                                 *)
(***************************************************************************)
\* A copy with the stored version is the stored object, and a Reconcile only
\* holds one if the cache it read it from still has it.
CopiesCurrent ==
    /\ "cache" \in seen => cache = obj
    /\ "local" \in seen => local = obj /\ "cache" \in seen /\ pc # "idle"

\* Where the worker is tells what the copy it works on looked like.
PcMatchesCopy ==
    /\ pc = "idle" => ~Present(local)
    /\ pc = "finalize" => Live(local) /\ ~local.fin
    /\ pc \in {"delete", "unfinalize"} => Deleting(local) /\ local.fin
    /\ pc \in {"cluster", "connect"} => Present(local) /\ local.fin
    /\ pc \notin {"idle", "finalize", "delete", "unfinalize", "cluster", "connect"}
            => Live(local) /\ local.fin

\* However old a copy is: only the operator gives the finalizer up, and only
\* after it has seen the deletion; so an object of which a live copy with the
\* finalizer is about still has it, and one of which a deleted copy is about
\* is not, in this or a later life, live with the finalizer.
CopyBounds(r) ==
    /\ Live(r) /\ r.fin => Present(obj) /\ obj.fin
    /\ Deleting(r) => ~(Live(obj) /\ obj.fin)

\* A Ready status for the current generation means that every copy about, old
\* or not, has the current spec.
SettledSpread(r) == Live(r) /\ r.fin /\ r.spec = obj.spec

SettledKnown ==
    /\ Present(obj) => obj.gen >= 1
    /\ obj.obs <= obj.gen
    /\ Live(obj) /\ Settled(obj) =>
        /\ obj.fin
        /\ SettledSpread(cache)
        /\ pc # "idle" => SettledSpread(local)

\* Where the resource stands in ManagedResource: the finalizer holds it.
Stage(r) ==
    IF ~(Present(r) /\ r.fin) THEN "free" ELSE IF Live(r) THEN "held" ELSE "releasing"

\* A resource the operator still has to do with is never forgotten: its key
\* is queued, due, being worked on, or an event that queues it is on its way.
NoLostWakeup ==
    Live(obj) \/ (Deleting(obj) /\ obj.fin) =>
        queued \/ timer \/ pc # "idle" \/ "cache" \notin seen

LoopInv ==
    /\ CopiesCurrent /\ PcMatchesCopy
    /\ CopyBounds(cache) /\ CopyBounds(local)
    /\ SettledKnown
    /\ NoLostWakeup
=============================================================================

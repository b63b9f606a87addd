-------------------------- MODULE ClusterReconciler -------------------------
(***************************************************************************)
(* The Cluster controller (internal/controller/cluster_controller.go): it  *)
(* tries the bootstrap servers of a Cluster every ten seconds and writes   *)
(* what it finds to the Ready condition the other controllers wait for.    *)
(* It has no finalizer and, unlike the others, never skips a call.         *)
(***************************************************************************)
EXTENDS KubeResource, AdminAccess

CONSTANT SecretStates  \* what the admin Secrets may hold, place by place

ASSUME ClusterAssumption ==
    /\ Specs \subseteq ClusterSpecs
    /\ SecretStates # {} /\ SecretStates \subseteq [Places -> Secrets \cup {NoSecret}]

VARIABLES pc,       \* where the worker is in Reconcile
          local,    \* the copy it works on
          up,       \* the servers that can be reached
          secrets,  \* the admin Secrets
          calm,     \* outages, crashes and changes of servers and Secrets are over
          reached   \* the specs whose servers once answered (history)

outerVars == <<up, secrets>>
clusterVars == <<pc, local, outerVars, calm, reached>>
vars == <<kubeVars, clusterVars>>

Return(again) ==
    /\ pc' = "idle" /\ local' = Absent
    /\ timer' = (timer \/ again)
    /\ UNCHANGED <<outerVars, calm, reached>>

GiveUp ==
    /\ Return(TRUE)
    /\ seen' = seen \ {"local"}
    /\ UNCHANGED <<obj, cache, queued>>

WriteFails == "local" \notin seen \/ ~calm

(***************************************************************************)
(* Reconcile.                                                              *)
(***************************************************************************)
Dequeue == pc = "idle" /\ queued /\ queued' = FALSE

IgnoreGone ==
    /\ Dequeue /\ ~Live(cache)
    /\ UNCHANGED <<obj, cache, seen, timer, clusterVars>>

\* Mutant: a Cluster that is already Ready is not tried again.
BeginUnsettled ==
    /\ Dequeue /\ Live(cache) /\ cache.cond # "Ready"
    /\ pc' = "check" /\ local' = cache
    /\ seen' = IF "cache" \in seen THEN {"cache", "local"} ELSE {}
    /\ UNCHANGED <<obj, cache, timer, outerVars, calm, reached>>

Begin ==
    /\ Dequeue /\ Live(cache)
    /\ pc' = "check" /\ local' = cache
    /\ seen' = IF "cache" \in seen THEN {"cache", "local"} ELSE {}
    /\ UNCHANGED <<obj, cache, timer, outerVars, calm, reached>>

\* GetAdminCredentials, NewClient and CheckHealth.
Answers(s) ==
    /\ s.bootstrapServers \in up
    /\ \E login \in GetAdminCredentials(s, secrets) : LetsIn(s.bootstrapServers, login)

CheckHealth ==
    /\ pc = "check"
    /\ pc' = IF Answers(local.spec) THEN "report" ELSE "fail"
    /\ reached' = reached \cup {s \in {local.spec} : Answers(s)}
    /\ UNCHANGED <<kubeVars, local, outerVars, calm>>

\* Mutants: the object is read again before it is written; the generation is
\* off by one; an unhealthy Cluster is not tried again.
ReportRetrying ==
    /\ pc = "report"
    /\ obj' = IF Live(obj) THEN [obj EXCEPT !.obs = obj.gen, !.cond = "Ready"] ELSE obj
    /\ seen' = {} /\ UNCHANGED <<cache, queued>>
    /\ Return(TRUE)

ReportNext ==
    /\ pc = "report"
    /\ \/ /\ Accepted([local EXCEPT !.obs = local.gen + 1, !.cond = "Ready"])
          /\ Return(TRUE)
       \/ WriteFails /\ GiveUp

ReportFailureOnce ==
    /\ pc = "fail"
    /\ \/ Accepted([local EXCEPT !.cond = "Failed"]) /\ Return(FALSE)
       \/ WriteFails /\ GiveUp

ReportConnected ==
    /\ pc = "report"
    /\ \/ /\ Accepted([local EXCEPT !.obs = local.gen, !.cond = "Ready"])
          /\ Return(TRUE)
       \/ WriteFails /\ GiveUp

ReportFailure ==
    /\ pc = "fail"
    /\ \/ Accepted([local EXCEPT !.cond = "Failed"]) /\ Return(TRUE)
       \/ WriteFails /\ GiveUp

(***************************************************************************)
(* The environment of the worker.                                          *)
(***************************************************************************)
Crash ==
    /\ ~calm
    /\ pc' = "idle" /\ local' = Absent
    /\ Relist
    /\ UNCHANGED <<outerVars, calm, reached>>

ServersChange ==
    /\ ~calm
    /\ \/ up' \in (SUBSET Addresses) \ {up} /\ UNCHANGED secrets
       \/ secrets' \in SecretStates \ {secrets} /\ UNCHANGED up
    /\ UNCHANGED <<kubeVars, pc, local, calm, reached>>

Settle ==
    /\ ~calm /\ calm' = TRUE
    /\ UNCHANGED <<kubeVars, pc, local, outerVars, reached>>

(***************************************************************************)
(* The specification.                                                      *)
(***************************************************************************)
Init ==
    /\ KubeInit
    /\ pc = "idle" /\ local = Absent
    /\ up \in SUBSET Addresses /\ secrets \in SecretStates
    /\ calm = FALSE /\ reached = {}

Reconcile == IgnoreGone \/ Begin \/ CheckHealth \/ ReportConnected \/ ReportFailure

Others ==
    \/ (Users \/ Deliver \/ TimerFires) /\ UNCHANGED clusterVars
    \/ ServersChange
    \/ Settle

Next == Reconcile \/ Crash \/ Others

Spec == Init /\ [][Next]_vars

Fairness ==
    /\ WF_vars(Reconcile)
    /\ WF_vars(Deliver /\ UNCHANGED clusterVars)
    /\ WF_vars(TimerFires /\ UNCHANGED clusterVars)
    /\ WF_vars(Settle)

LiveSpec == Spec /\ Fairness

(***************************************************************************)
(* Properties.                                                             *)
(***************************************************************************)
\* Every variable keeps to its type.
TypeOK ==
    /\ KubeTypeOK
    /\ pc \in {"idle", "check", "report", "fail"} /\ local \in Resources
    /\ up \subseteq Addresses /\ secrets \in SecretStates
    /\ calm \in BOOLEAN /\ reached \subseteq Specs

\* Ready for the current generation means that the servers the spec names now,
\* not those of an earlier generation, have answered (110-114).
ReadyWasReached ==
    Live(obj) /\ obj.cond = "Ready" /\ obj.obs = obj.gen => obj.spec \in reached

\* The health check never stops: the key of a Cluster is queued, due, being
\* worked on, or an event that queues it is on its way (55-121).
CheckNeverStops ==
    Live(obj) => queued \/ timer \/ pc # "idle" \/ "cache" \notin seen

\* The specs whose servers are up and let their admin in, as the API describes
\* the Secret.
serving == {s \in Specs : s.bootstrapServers \in up /\ Authorised(s, secrets)}

\* Servers that stopped answering, or an admin Secret that was rotated away from
\* them, are noticed though no event tells: the periodic check takes Ready away.
FailureNoticed ==
    Live(obj) /\ calm /\ obj.spec \notin serving ~>
        ~Live(obj) \/ obj.cond = "Failed" \/ obj.spec \in serving

\* Servers that answer, with a Secret that need not be there from the start, are
\* reported for the generation that names them.
RecoveryNoticed ==
    Live(obj) /\ calm /\ obj.spec \in serving ~>
        ~Live(obj) \/ (obj.cond = "Ready" /\ obj.obs = obj.gen) \/ obj.spec \notin serving

(***************************************************************************)
(* The refinement of ClusterHealth.                                        *)
(***************************************************************************)
AsHealth(r) == [phase |-> r.phase, servers |-> r.spec, ready |-> r.cond = "Ready"]

Health == INSTANCE ClusterHealth WITH
    Servers <- Specs,
    Moves <- Edits,
    stored <- AsHealth(obj),
    shown <- AsHealth(cache),
    verdict <- IF "local" \notin seen THEN "none"
               ELSE IF pc = "report" THEN "answers"
               ELSE IF pc = "fail" THEN "silent" ELSE "none"

\* The Cluster controller does what ClusterHealth promises: Ready is written
\* only of the Cluster that is stored, with the servers that answered.
ImplementsHealth == Health!Spec
=============================================================================

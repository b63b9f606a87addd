---------------------------- MODULE ClusterHealth ---------------------------
(***************************************************************************)
(* What the Cluster controller promises of a Cluster, without its queue,   *)
(* its stale copies, conflicts and crashes.  ClusterReconciler implements  *)
(* it; Operator composes it with a controller that depends on the Cluster. *)
(***************************************************************************)
CONSTANTS Servers,  \* bootstrap servers, with the credentials for them
          Moves     \* the edits of a Cluster's servers, as <<old, new>> pairs

VARIABLES stored,   \* the Cluster in the API server
          shown,    \* the Cluster as the informer cache shows it
          verdict,  \* what a check of the stored Cluster found, to be reported
          serving,  \* the servers that answer
          reached,  \* the servers that once answered a check (history)
          calm      \* outages, crashes and changes of "serving" are over

vars == <<stored, shown, verdict, serving, reached, calm>>

Clusters == [phase : {"absent", "live", "deleting"}, servers : Servers, ready : BOOLEAN]
Verdicts == {"none", "answers", "silent"}

NoCluster == [phase |-> "absent", servers |-> CHOOSE s \in Servers : TRUE, ready |-> FALSE]

TypeOK ==
    /\ stored \in Clusters /\ shown \in Clusters /\ verdict \in Verdicts
    /\ serving \subseteq Servers /\ reached \subseteq Servers /\ calm \in BOOLEAN

Init ==
    /\ stored = NoCluster /\ shown = NoCluster /\ verdict = "none"
    /\ serving \in SUBSET Servers /\ reached = {} /\ calm = FALSE

\* What users do.  A verdict on the Cluster as it was is never reported.
Write(c) ==
    /\ stored' = c /\ verdict' = "none"
    /\ UNCHANGED <<shown, serving, reached, calm>>

Create(s) ==
    /\ stored.phase = "absent"
    /\ Write([phase |-> "live", servers |-> s, ready |-> FALSE])

\* The Ready condition stays when the servers change.
Move(s) ==
    /\ stored.phase # "absent" /\ <<stored.servers, s>> \in Moves
    /\ Write([stored EXCEPT !.servers = s])

Delete ==
    /\ stored.phase # "absent"
    /\ Write(NoCluster) \/ Write([stored EXCEPT !.phase = "deleting"])

\* The controller tries the servers of the Cluster that is stored.
Check ==
    /\ stored.phase = "live" /\ verdict = "none"
    /\ verdict' = IF stored.servers \in serving THEN "answers" ELSE "silent"
    /\ reached' = reached \cup ({stored.servers} \cap serving)
    /\ UNCHANGED <<stored, shown, serving, calm>>

\* It may also try servers of a copy that is out of date, to no effect.
CheckOld ==
    /\ \E s \in serving : reached' = reached \cup {s}
    /\ UNCHANGED <<stored, shown, verdict, serving, calm>>

Report ==
    /\ verdict # "none" /\ verdict' = "none"
    /\ stored' = [stored EXCEPT !.ready = (verdict = "answers")]
    /\ UNCHANGED <<shown, serving, reached, calm>>

\* The write is lost.
Forget ==
    /\ ~calm /\ verdict' = "none"
    /\ UNCHANGED <<stored, shown, serving, reached, calm>>

\* The informer catches up.
Show ==
    /\ shown' = stored
    /\ UNCHANGED <<stored, verdict, serving, reached, calm>>

\* The process dies and a new one lists what is stored.
Restart ==
    /\ ~calm
    /\ shown' = stored /\ verdict' = "none"
    /\ UNCHANGED <<stored, serving, reached, calm>>

ServersChange ==
    /\ ~calm /\ serving' \in SUBSET Servers
    /\ UNCHANGED <<stored, shown, verdict, reached, calm>>

Settle ==
    /\ ~calm /\ calm' = TRUE
    /\ UNCHANGED <<stored, shown, verdict, serving, reached>>

Users == Delete \/ \E s \in Servers : Create(s) \/ Move(s)

Next ==
    \/ Users
    \/ Check \/ CheckOld \/ Report \/ Forget
    \/ Show \/ Restart \/ ServersChange \/ Settle

Spec == Init /\ [][Next]_vars
=============================================================================

----------------------------- MODULE MCCluster ------------------------------
(* An instance of ClusterReconciler for TLC. *)
EXTENDS ClusterReconciler

\* The Secret of the Cluster's own namespace, or that of another one.
Cluster(ns) == [bootstrapServers |-> "kafka:9092", ref |-> "admin", namespace |-> ns]
MCSpecs == {Cluster(""), Cluster("ops")}
MCEdits == {<<Cluster(""), Cluster("ops")>>}

MCAdmin == [user |-> "admin", pass |-> "right"]

Secret(u, p, t) == [username |-> u, password |-> p, plaintext |-> t]
At(own, other) == [p \in Places |-> IF p[1] = "apps" THEN own ELSE other]

\* One of bufstream's own, one with both keys, one that was rotated.
Plain == Secret("admin", "none", "right")
Both == Secret("admin", "right", "wrong")
Rotated == Secret("admin", "wrong", "right")
MCSecretStates == {At(NoSecret, Both), At(Plain, Rotated)}
=============================================================================

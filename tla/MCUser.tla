------------------------------- MODULE MCUser -------------------------------
(* An instance of UserReconciler for TLC. *)
EXTENDS UserReconciler

User(m, i) == [username |-> "", mechanism |-> m, iterations |-> i]

\* The default mechanism with the default iterations, then named, with more.
Default == User("", 4096)
Stronger == User("SCRAM-SHA-512", 8192)
MCSpecs == {Default, Stronger}
MCEdits == {<<Default, Stronger>>}

\* Others make the credential the resource is about.
TheSlot == {Slot(Default)}
=============================================================================

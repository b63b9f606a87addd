------------------------------- MODULE MCACL --------------------------------
(* Instances of ACLReconciler for TLC. *)
EXTENDS ACLReconciler

ACL(h, op) ==
    [principal |-> "User:app", host |-> h, type |-> "Group", name |-> "orders",
     pattern |-> "Prefixed", operation |-> op, permission |-> "Deny"]

\* Two ways to write the same entry.
ReadSpecs == {ACL("", "Read"), ACL("*", "Read")}
\* Two entries.
OtherSpecs == {ACL("*", "Read"), ACL("*", "Write")}
AllEdits == OtherSpecs \X OtherSpecs
SameEntry == {e \in ReadSpecs \X ReadSpecs : Entry(e[1]) = Entry(e[2])}
MCForeign == {Entry(ACL("*", "Read"))}
=============================================================================

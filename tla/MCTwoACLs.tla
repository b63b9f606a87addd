------------------------------ MODULE MCTwoACLs -----------------------------
(* An instance of TwoACLs for TLC: two ways to write one entry. *)
EXTENDS TwoACLs

ReadAs(h) ==
    [principal |-> "User:app", host |-> h, type |-> "Topic", name |-> "orders",
     pattern |-> "Literal", operation |-> "Read", permission |-> "Allow"]

AnyHost == {ReadAs("")}
StarHost == {ReadAs("*")}
=============================================================================

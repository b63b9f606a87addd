----------------------------- MODULE MCOperator -----------------------------
(* Instances of Operator for TLC. *)
EXTENDS Operator

OneServer == {"one:9092"}
TwoServers == {"one:9092", "two:9092"}
OneMove == {<<"one:9092", "two:9092">>}
NoEdits == {}
=============================================================================

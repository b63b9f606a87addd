------------------------------ MODULE MCTopic -------------------------------
(* Instances of TopicReconciler for TLC. *)
EXTENDS TopicReconciler

MCNames == {"orders", "events"}
MCKeys == {"retention", "segment"}
MCValues == {"1h", "2h"}

Setting(key, v) == [k \in MCKeys |-> IF k = key THEN v ELSE "unset"]
Topic(n, p, r, v, a) ==
    [topicName |-> n, parts |-> p, rf |-> r, cfg |-> Setting("retention", v), assume |-> a]

\* Grown, reconfigured and shrunk; owned only if the operator creates it.
Refusing == {Topic("", 1, 1, "unset", FALSE), Topic("orders", 2, 1, "1h", FALSE)}
\* The same, taking over what exists.
Small == Topic("", 1, 1, "unset", TRUE)
Large == Topic("orders", 2, 1, "1h", TRUE)
Shrunk == Topic("", 1, 1, "2h", TRUE)
\* Another topic, with a factor that is 2 in 16 bits.
Elsewhere == Topic("events", 1, 65538, "unset", TRUE)

MixedSpecs == {Topic("", 2, 1, "1h", FALSE), Large, Shrunk, Elsewhere}
OwningSpecs == {Small, Large}

SameName(specs) ==
    {e \in specs \X specs : TopicName(e[1]) = TopicName(e[2])}
Adopting(specs) == {e \in specs \X specs : e[1].assume => e[2].assume}
MixedEdits == SameName(MixedSpecs) \cap Adopting(MixedSpecs)
RefusingEdits == SameName(Refusing)
OwningEdits == SameName(OwningSpecs)

\* Others set a key that no spec sets.
Nobody == {}
Foreign(p) == [parts |-> p, rf |-> 1, cfg |-> Setting("segment", "1h")]
ForeignSmall == {Foreign(1)}
ForeignLarge == {Foreign(2)}
=============================================================================

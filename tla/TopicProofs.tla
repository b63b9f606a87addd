---------------------------- MODULE TopicProofs -----------------------------
(***************************************************************************)
(* The Topic reconciler's safety properties, for every set of names,       *)
(* specs, edits and topics of others, and every bound on the generations.  *)
(***************************************************************************)
EXTENDS TopicReconciler, LoopProofs

LEMMA SpecFields ==
  ASSUME NEW s \in Specs
  PROVE  /\ TopicName(s) \in Names /\ Partitions(s) \in Nat /\ Partitions(s) >= 1
         /\ Replicas(s) \in Int /\ s.cfg \in Configs
  <1>1. /\ s.topicName \in Names \cup {NoName} /\ s.parts \in Nat /\ s.rf \in Nat
        /\ s.cfg \in Configs
    BY TopicAssumption DEF TopicSpecs
  <1>2. Int16(s.rf) \in Int BY <1>1 DEF Int16
  <1> QED BY <1>1, <1>2, TopicAssumption DEF TopicSpecs, TopicName, Partitions, Replicas, AtLeastOne

\* The replication factor a spec asks for is the one the broker is asked for
\* exactly as long as it fits in 16 bits: reconcileTopic converts it unchecked.
THEOREM FactorFits ==
  ASSUME NEW s \in Specs
  PROVE  Replicas(s) = AtLeastOne(s.rf) <=> s.rf < 32768
  <1>1. s.rf \in Nat BY TopicAssumption DEF TopicSpecs
  <1>2. CASE s.rf < 32768
    <2>1. (s.rf + 32768) % 65536 = s.rf + 32768 BY <1>1, <1>2
    <2> QED BY <1>1, <1>2, <2>1 DEF Replicas, AtLeastOne, Int16
  <1>3. CASE s.rf >= 32768
    <2>1. \A x \in Nat : x % 65536 < 65536 OBVIOUS
    <2>2. s.rf + 32768 \in Nat BY <1>1
    <2>3. Int16(s.rf) \in Int /\ Int16(s.rf) < 32768 BY <2>1, <2>2 DEF Int16
    <2> QED BY <1>1, <1>3, <2>3 DEF Replicas, AtLeastOne
  <1> QED BY <1>1, <1>2, <1>3

LEMMA NoTopicType == NoTopic \in Topics /\ NoTopic.parts = 0
  BY DEF NoTopic, Topics, NoConfig, Configs

\* Setting what a configuration sets gives it, whatever was there.
LEMMA OverlaySets ==
  ASSUME NEW old \in Configs, NEW new \in Configs
  PROVE  /\ Overlay(old, new) \in Configs
         /\ \A k \in Keys : new[k] # Unset => Overlay(old, new)[k] = new[k]
  BY DEF Overlay, Configs

LEMMA NameType ==
  ASSUME TypeOK
  PROVE  name \in Names /\ local.spec \in Specs /\ obj.spec \in Specs
  BY SpecFields DEF TypeOK, LoopTypeOK, KubeTypeOK, Resources, name

\* A held copy of a settled object asks for what the object asks for.
LEMMA SettledLocal ==
  ASSUME TopicInv, Live(obj), Settled(obj), pc # "idle"
  PROVE  local.spec = obj.spec /\ Live(local)
  BY DEF TopicInv, LoopInv, SettledKnown, SettledSpread

\* The loop and its environment report nothing that is not on the broker.
LEMMA ReadyKept ==
  ASSUME TopicInv, LoopStep \/ Environment \/ Crash, UNCHANGED topics
  PROVE  ReadyMeansApplied'
  <1> SUFFICES ASSUME (Live(obj) /\ Settled(obj))'
               PROVE  Provides(TopicName(obj.spec), obj.spec)'
    BY DEF ReadyMeansApplied
  <1>1. Live(obj') /\ Settled(obj') BY DEF Live, Settled
  <1>2. \/ Live(obj) /\ Settled(obj) /\ obj'.spec = obj.spec
        \/ pc = "report" /\ obj'.spec = local.spec
    BY <1>1, SettledBefore DEF TopicInv, TypeOK
  <1>3. CASE Live(obj) /\ Settled(obj) /\ obj'.spec = obj.spec
    <2>1. Provides(TopicName(obj.spec), obj.spec) BY <1>3 DEF TopicInv, ReadyMeansApplied
    <2> QED BY <1>3, <2>1 DEF Provides
  <1>4. CASE pc = "report" /\ obj'.spec = local.spec
    <2>1. Provides(TopicName(local.spec), local.spec)
      BY <1>4 DEF TopicInv, StepKnowledge, name
    <2> QED BY <1>4, <2>1 DEF Provides
  <1> QED BY <1>2, <1>3, <1>4

(***************************************************************************)
(* The steps that leave the broker alone.                                  *)
(***************************************************************************)
LEMMA LoopPart ==
  ASSUME TopicInv, (LoopStep \/ Connect("inspect")) /\ UNCHANGED <<topics, origin, info>>
  PROVE  TopicInv'
  <1>1. LoopTypeOK' /\ LoopInv'
    BY LoopStepInv, ConnectInv DEF TopicInv, TypeOK
  <1>2. pc' \in {"idle", "finalize", "cluster", "connect", "fail", "inspect", "delete"}
    BY LoopStepPc, QuietSteps DEF Connect
  <1>3. TypeOK' BY <1>1, <1>2 DEF TopicInv, TypeOK, Pcs, LoopPcs
  <1>4. StepKnowledge' BY <1>2 DEF StepKnowledge
  <1>5. ReadyMeansApplied'
    <2>1. CASE LoopStep BY <2>1, ReadyKept
    <2>2. CASE Connect("inspect")
      <3>1. obj' = obj BY <2>2, QuietSteps DEF Connect
      <3> QED BY <3>1 DEF TopicInv, ReadyMeansApplied, Provides
    <2> QED BY <2>1, <2>2
  <1>6. \A n \in Names : origin'[n] = "operator" => Exists(n)'
    BY DEF TopicInv, Exists
  <1> QED BY <1>1, <1>3, <1>4, <1>5, <1>6 DEF TopicInv

LEMMA EnvironmentPart ==
  ASSUME TopicInv, Environment /\ UNCHANGED <<topics, origin, info>>
  PROVE  TopicInv'
  <1>1. LoopTypeOK' /\ LoopInv' BY EnvironmentInv DEF TopicInv, TypeOK
  <1>2. pc' = pc /\ local' = local
    BY DEF Environment, loopVars, ClusterChanges, Recover
  <1>3. TypeOK' BY <1>1, <1>2 DEF TopicInv, TypeOK
  <1>4. StepKnowledge' BY <1>2 DEF TopicInv, StepKnowledge, name, Exists, Provides
  <1>5. ReadyMeansApplied' BY ReadyKept
  <1>6. \A n \in Names : origin'[n] = "operator" => Exists(n)'
    BY DEF TopicInv, Exists
  <1> QED BY <1>1, <1>3, <1>4, <1>5, <1>6 DEF TopicInv

LEMMA RestartPart ==
  ASSUME TopicInv, Restart
  PROVE  TopicInv'
  <1>1. LoopTypeOK' /\ LoopInv' BY CrashInv DEF TopicInv, TypeOK, Restart
  <1>2. pc' = "idle" /\ obj' = obj /\ UNCHANGED <<topics, origin>>
    BY DEF Restart, Crash, Relist, brokerVars
  <1>3. TypeOK' BY <1>1, <1>2, NoTopicType DEF TopicInv, TypeOK, Restart, Pcs, LoopPcs
  <1> QED BY <1>1, <1>2, <1>3
      DEF TopicInv, StepKnowledge, ReadyMeansApplied, Provides, Exists

(***************************************************************************)
(* The steps of reconcileTopic and reconcileDelete on the broker.          *)
(***************************************************************************)
LivePcs == {"inspect", "create", "resize", "configure", "report", "refuse"}

\* As far as the loop is concerned such a step is a Goto or an Abort.
LEMMA LiveStep ==
  ASSUME TopicInv, pc \in {"inspect", "create", "resize", "configure"},
         (\E next \in LivePcs : Goto(next)) \/ Abort
  PROVE  /\ LoopTypeOK' /\ LoopInv' /\ obj' = obj
         /\ pc' \in {"idle", "fail"} \/ (pc' \in LivePcs /\ local' = local)
  <1>1. Live(local) /\ local.fin BY DEF TopicInv, LoopInv, PcMatchesCopy
  <1>2. CASE Abort
    BY <1>2, AbortInv, QuietSteps DEF TopicInv, TypeOK
  <1>3. ASSUME NEW next \in LivePcs, Goto(next)
        PROVE  /\ LoopTypeOK' /\ LoopInv' /\ obj' = obj
               /\ pc' \in LivePcs /\ local' = local
    BY <1>1, <1>3, GotoInv, QuietSteps DEF TopicInv, TypeOK, LivePcs
  <1> QED BY <1>2, <1>3

LEMMA SetTopicType ==
  ASSUME TypeOK, NEW n \in Names, NEW t \in Topics, NEW who \in Origins, SetTopic(n, t, who)
  PROVE  /\ topics' \in [Names -> Topics] /\ origin' \in [Names -> Origins]
         /\ topics'[n] = t /\ origin'[n] = who
         /\ \A m \in Names \ {n} : topics'[m] = topics[m] /\ origin'[m] = origin[m]
  BY DEF TypeOK, SetTopic

\* What there is of each topic is there still, with at least its partitions.
Larger ==
    \A m \in Names :
        /\ topics'[m].parts >= topics[m].parts
        /\ topics'[m].rf = topics[m].rf /\ topics'[m].cfg = topics[m].cfg
        /\ Exists(m) => topics'[m].parts # 0

LEMMA ForeignGrows ==
  ASSUME TypeOK, NEW n \in Names, NEW p \in ForeignSizes, ForeignGrow(n, p)
  PROVE  topics' \in [Names -> Topics] /\ Larger
  <1>1. /\ topics \in [Names -> Topics] /\ p \in Nat
        /\ topics' = [topics EXCEPT ![n].parts = p] /\ p > topics[n].parts
    BY TopicAssumption DEF TypeOK, ForeignGrow
  <1>2. \A m \in Names : topics[m].parts \in Nat BY <1>1 DEF Topics
  <1>3. /\ topics' \in [Names -> Topics]
        /\ topics'[n].parts = p
        /\ topics'[n].rf = topics[n].rf /\ topics'[n].cfg = topics[n].cfg
        /\ \A m \in Names \ {n} : topics'[m] = topics[m]
    BY <1>1 DEF Topics
  <1>4. p >= topics[n].parts /\ p # 0 BY <1>1, <1>2
  <1> QED BY <1>2, <1>3, <1>4 DEF Larger, Exists

LEMMA LargerProvides ==
  ASSUME TypeOK, topics' \in [Names -> Topics], Larger,
         NEW s \in Specs, Provides(TopicName(s), s)
  PROVE  Provides(TopicName(s), s)'
  <1>1. TopicName(s) \in Names /\ Partitions(s) \in Nat BY SpecFields
  <1>2. topics[TopicName(s)].parts \in Nat /\ topics'[TopicName(s)].parts \in Nat
    BY <1>1 DEF TypeOK, Topics
  <1>3. topics'[TopicName(s)].parts >= Partitions(s)
    BY <1>1, <1>2 DEF Larger, Provides
  <1> QED BY <1>1, <1>3 DEF Larger, Provides

LEMMA TopicExistsPart ==
  ASSUME TopicInv, TopicExists
  PROVE  TopicInv'
  <1>1. name \in Names BY NameType DEF TopicInv
  <1>2. /\ pc = "inspect" /\ UNCHANGED <<topics, origin>>
        /\ \/ Goto("create") /\ info' = info
           \/ Goto("refuse") /\ info' = info
           \/ Goto("resize") /\ Exists(name) /\ info' = topics[name]
           \/ Abort /\ info' = info
    BY DEF TopicExists, brokerVars
  <1>3. /\ LoopTypeOK' /\ LoopInv' /\ obj' = obj
        /\ pc' \in {"idle", "fail"} \/ (pc' \in LivePcs /\ local' = local)
    BY <1>2, LiveStep DEF LivePcs
  <1>4. pc' \in {"idle", "fail", "create", "refuse", "resize"}
    BY <1>2, QuietSteps
  <1>5. TypeOK' BY <1>1, <1>2, <1>3, <1>4 DEF TopicInv, TypeOK, Pcs, LoopPcs
  <1>6. StepKnowledge'
    <2>1. pc' = "resize" => Exists(name) /\ info' = topics[name] /\ local' = local
      BY <1>2, QuietSteps
    <2>2. topics[name].parts <= topics[name].parts BY <1>1 DEF TopicInv, TypeOK, Topics
    <2> QED BY <1>2, <1>4, <2>1, <2>2 DEF StepKnowledge, name, Exists
  <1>7. ReadyMeansApplied'
    BY <1>2, <1>3 DEF TopicInv, ReadyMeansApplied, Provides
  <1> QED BY <1>2, <1>3, <1>5, <1>6, <1>7 DEF TopicInv, Exists

\* A created topic matches; a settled object's topic is there already.
LEMMA CreateTopicPart ==
  ASSUME TopicInv, CreateTopic
  PROVE  TopicInv'
  <1> DEFINE created == [parts |-> Partitions(local.spec), rf |-> Replicas(local.spec),
                         cfg |-> local.spec.cfg]
  <1>1. name \in Names /\ local.spec \in Specs BY NameType DEF TopicInv
  <1>2. created \in Topics /\ created.parts >= 1 BY <1>1, SpecFields DEF Topics
  <1>3. pc = "create" /\ info' = info BY DEF CreateTopic
  <1>4. Goto("report") \/ Abort BY DEF CreateTopic, Answered
  <1>5. /\ LoopTypeOK' /\ LoopInv' /\ obj' = obj
        /\ pc' \in {"idle", "fail"} \/ (pc' = "report" /\ local' = local)
    BY <1>3, <1>4, LiveStep, QuietSteps DEF LivePcs
  <1>6. CASE UNCHANGED brokerVars /\ Abort
    <2>1. UNCHANGED <<topics, origin>> /\ pc' \in {"idle", "fail"}
      BY <1>6, QuietSteps DEF brokerVars
    <2> QED BY <1>3, <1>5, <2>1
        DEF TopicInv, TypeOK, Pcs, LoopPcs, StepKnowledge, ReadyMeansApplied, Provides, Exists
  <1>7. CASE ~Exists(name) /\ SetTopic(name, created, "operator")
    <2>1. /\ topics' \in [Names -> Topics] /\ origin' \in [Names -> Origins]
          /\ topics'[name] = created /\ origin'[name] = "operator"
          /\ \A m \in Names \ {name} : topics'[m] = topics[m] /\ origin'[m] = origin[m]
      BY <1>1, <1>2, <1>7, SetTopicType DEF TopicInv, Origins
    <2>2. TypeOK' BY <1>3, <1>5, <2>1 DEF TopicInv, TypeOK, Pcs, LoopPcs
    <2>3. StepKnowledge'
      <3>1. Partitions(local.spec) >= Partitions(local.spec) BY <1>1, SpecFields
      <3>2. pc' = "report" => Provides(name, local.spec)'
        BY <1>5, <2>1, <3>1 DEF Provides, name
      <3> QED BY <1>5, <3>2 DEF StepKnowledge
    <2>4. ReadyMeansApplied'
      <3> SUFFICES ASSUME Live(obj), Settled(obj)
                   PROVE  Provides(TopicName(obj.spec), obj.spec)'
        BY <1>5 DEF ReadyMeansApplied, Live, Settled
      <3>1. Provides(TopicName(obj.spec), obj.spec) BY DEF TopicInv, ReadyMeansApplied
      <3>2. local.spec = obj.spec BY <1>3, SettledLocal
      <3>3. topics[name].parts >= Partitions(local.spec) BY <3>1, <3>2 DEF Provides, name
      <3> QED BY <1>1, <1>7, <3>3, SpecFields DEF Exists
    <2>5. \A n \in Names : origin'[n] = "operator" => Exists(n)'
      BY <1>2, <2>1 DEF TopicInv, Exists
    <2> QED BY <1>5, <2>2, <2>3, <2>4, <2>5 DEF TopicInv
  <1> QED BY <1>6, <1>7 DEF CreateTopic

\* The topic has at least the partitions that were read, so it has enough if
\* those were, and as many more as are wanted if they were not.
LEMMA ResizeTopicPart ==
  ASSUME TopicInv, ResizeTopic
  PROVE  TopicInv'
  <1> DEFINE wanted == Partitions(local.spec)
  <1>1. name \in Names /\ local.spec \in Specs /\ obj.spec \in Specs
    BY NameType DEF TopicInv
  <1>2. pc = "resize" /\ info' = NoTopic /\ origin' = origin BY DEF ResizeTopic
  <1>3. /\ Exists(name)
        /\ info.parts <= topics[name].parts /\ info.rf = topics[name].rf
    BY <1>2 DEF TopicInv, StepKnowledge
  <1>4. Goto("configure") \/ Abort BY DEF ResizeTopic, Answered
  <1>5. /\ LoopTypeOK' /\ LoopInv' /\ obj' = obj
        /\ pc' \in {"idle", "fail"} \/ (pc' = "configure" /\ local' = local)
    BY <1>2, <1>4, LiveStep, QuietSteps DEF LivePcs
  <1>6. CASE UNCHANGED topics /\ Abort
    <2>1. pc' \in {"idle", "fail"} BY <1>6, QuietSteps
    <2> QED BY <1>2, <1>5, <1>6, <2>1, NoTopicType
        DEF TopicInv, TypeOK, Pcs, LoopPcs, StepKnowledge, ReadyMeansApplied, Provides, Exists
  <1>7. CASE UNCHANGED topics /\ info.rf = Replicas(local.spec) /\ wanted = info.parts
    <2>1. pc' = "configure" => /\ topics'[name'].parts >= Partitions(local'.spec)
                               /\ topics'[name'].rf = Replicas(local'.spec)
      <3>1. topics[name].parts \in Nat /\ wanted \in Nat
        BY <1>1, SpecFields DEF TopicInv, TypeOK, Topics
      <3>2. topics[name].parts >= wanted BY <1>3, <1>7, <3>1
      <3> QED BY <1>3, <1>5, <1>7, <3>2 DEF name
    <2> QED BY <1>2, <1>5, <1>7, <2>1, NoTopicType
        DEF TopicInv, TypeOK, Pcs, LoopPcs, StepKnowledge, ReadyMeansApplied, Provides, Exists
  <1>8. CASE /\ info.rf = Replicas(local.spec)
             /\ topics' = [topics EXCEPT ![name].parts = @ + wanted]
    <2>1. /\ topics \in [Names -> Topics] /\ wanted \in Nat /\ wanted >= 1
          /\ topics[name].parts \in Nat
      BY <1>1, SpecFields DEF TopicInv, TypeOK, Topics
    <2>2. /\ topics' \in [Names -> Topics]
          /\ topics'[name].parts = topics[name].parts + wanted
          /\ topics'[name].rf = topics[name].rf /\ topics'[name].cfg = topics[name].cfg
          /\ \A m \in Names \ {name} : topics'[m] = topics[m]
      BY <1>1, <1>8, <2>1 DEF Topics
    <2>3. TypeOK' BY <1>2, <1>5, <2>2, NoTopicType DEF TopicInv, TypeOK, Pcs, LoopPcs
    <2>4. topics'[name].parts >= wanted /\ topics'[name].parts > topics[name].parts
      BY <2>1, <2>2
    <2>5. pc' = "configure" => /\ topics'[name'].parts >= Partitions(local'.spec)
                               /\ topics'[name'].rf = Replicas(local'.spec)
      BY <1>3, <1>5, <1>8, <2>2, <2>4 DEF name
    <2>6. StepKnowledge' BY <1>5, <2>5 DEF StepKnowledge
    <2>7. ReadyMeansApplied'
      <3> SUFFICES ASSUME Live(obj), Settled(obj)
                   PROVE  Provides(TopicName(obj.spec), obj.spec)'
        BY <1>5 DEF ReadyMeansApplied, Live, Settled
      <3>1. Provides(TopicName(obj.spec), obj.spec) BY DEF TopicInv, ReadyMeansApplied
      <3>2. local.spec = obj.spec BY <1>2, SettledLocal
      <3> QED BY <1>5, <2>2, <2>4, <3>1, <3>2 DEF Provides, name
    <2>8. \A n \in Names : origin'[n] = "operator" => Exists(n)'
      BY <1>2, <2>1, <2>2 DEF TopicInv, Exists
    <2> QED BY <1>5, <2>3, <2>6, <2>7, <2>8 DEF TopicInv
  <1>9. \/ UNCHANGED topics /\ Abort
        \/ UNCHANGED topics /\ info.rf = Replicas(local.spec) /\ wanted = info.parts
        \/ /\ info.rf = Replicas(local.spec)
           /\ topics' = [topics EXCEPT ![name].parts = @ + wanted]
    BY DEF ResizeTopic
  <1> QED BY <1>6, <1>7, <1>8, <1>9

\* The overlay gives what the held copy sets, and a settled object's topic,
\* for which it sets the same, keeps what it has.
LEMMA ConfigureTopicPart ==
  ASSUME TopicInv, ConfigureTopic
  PROVE  TopicInv'
  <1>1. name \in Names /\ local.spec \in Specs BY NameType DEF TopicInv
  <1>2. pc = "configure" /\ UNCHANGED <<origin, info>> BY DEF ConfigureTopic
  <1>3. /\ topics[name].parts >= Partitions(local.spec)
        /\ topics[name].rf = Replicas(local.spec)
    BY <1>2 DEF TopicInv, StepKnowledge
  <1>4. Goto("report") \/ Abort BY DEF ConfigureTopic, Answered
  <1>5. /\ LoopTypeOK' /\ LoopInv' /\ obj' = obj
        /\ pc' \in {"idle", "fail"} \/ (pc' = "report" /\ local' = local)
    BY <1>2, <1>4, LiveStep, QuietSteps DEF LivePcs
  <1>6. CASE UNCHANGED topics /\ Abort
    <2>1. pc' \in {"idle", "fail"} BY <1>6, QuietSteps
    <2> QED BY <1>2, <1>5, <1>6, <2>1
        DEF TopicInv, TypeOK, Pcs, LoopPcs, StepKnowledge, ReadyMeansApplied, Provides, Exists
  <1>7. CASE UNCHANGED topics /\ local.spec.cfg = NoConfig
    <2>1. pc' = "report" => Provides(name, local.spec)'
      BY <1>3, <1>5, <1>7 DEF Provides, NoConfig, name
    <2> QED BY <1>2, <1>5, <1>7, <2>1
        DEF TopicInv, TypeOK, Pcs, LoopPcs, StepKnowledge, ReadyMeansApplied, Provides, Exists
  <1>8. CASE topics' = [topics EXCEPT ![name].cfg = Overlay(@, local.spec.cfg)]
    <2>1. topics \in [Names -> Topics] /\ topics[name].cfg \in Configs
          /\ local.spec.cfg \in Configs
      BY <1>1, SpecFields DEF TopicInv, TypeOK, Topics
    <2>2. Overlay(topics[name].cfg, local.spec.cfg) \in Configs BY <2>1, OverlaySets
    <2>3. /\ topics' \in [Names -> Topics]
          /\ topics'[name].cfg = Overlay(topics[name].cfg, local.spec.cfg)
          /\ topics'[name].parts = topics[name].parts /\ topics'[name].rf = topics[name].rf
          /\ \A m \in Names \ {name} : topics'[m] = topics[m]
      BY <1>1, <1>8, <2>1, <2>2 DEF Topics
    <2>4. TypeOK' BY <1>2, <1>5, <2>3 DEF TopicInv, TypeOK, Pcs, LoopPcs
    <2>5. /\ topics'[name].parts >= Partitions(local.spec)
          /\ topics'[name].rf = Replicas(local.spec)
          /\ \A k \in Keys : local.spec.cfg[k] # Unset =>
                topics'[name].cfg[k] = local.spec.cfg[k]
      BY <1>3, <2>1, <2>3, OverlaySets
    <2>6. StepKnowledge'
      <3>1. pc' = "report" => Provides(name, local.spec)' BY <1>5, <2>5 DEF Provides, name
      <3> QED BY <1>5, <3>1 DEF StepKnowledge
    <2>7. ReadyMeansApplied'
      <3> SUFFICES ASSUME Live(obj), Settled(obj)
                   PROVE  Provides(TopicName(obj.spec), obj.spec)'
        BY <1>5 DEF ReadyMeansApplied, Live, Settled
      <3>1. local.spec = obj.spec BY <1>2, SettledLocal
      <3> QED BY <1>5, <2>5, <3>1 DEF Provides, name
    <2>8. \A n \in Names : origin'[n] = "operator" => Exists(n)'
      BY <1>1, <1>2, <2>3 DEF TopicInv, Exists
    <2> QED BY <1>5, <2>4, <2>6, <2>7, <2>8 DEF TopicInv
  <1> QED BY <1>6, <1>7, <1>8 DEF ConfigureTopic

\* Only a copy of a deleted object deletes, and a settled object has none.
LEMMA DeleteTopicPart ==
  ASSUME TopicInv, DeleteTopic
  PROVE  TopicInv'
  <1>1. name \in Names BY NameType DEF TopicInv
  <1>2. pc = "delete" /\ info' = info BY DEF DeleteTopic
  <1>3. Deleting(local) /\ local.fin /\ ~Live(local)
    BY <1>2 DEF TopicInv, LoopInv, PcMatchesCopy, Live, Deleting
  <1>4. Goto("unfinalize") \/ GiveUp BY <1>3 DEF DeleteTopic, Answered, Abort
  <1>5. /\ LoopTypeOK' /\ LoopInv' /\ obj' = obj
        /\ pc' = "idle" \/ (pc' = "unfinalize" /\ local' = local)
    BY <1>2, <1>3, <1>4, GotoInv, GiveUpInv, QuietSteps DEF TopicInv, TypeOK
  <1>6. ~(Live(obj) /\ Settled(obj)) BY <1>2, <1>3, SettledLocal
  <1>7. ReadyMeansApplied' BY <1>5, <1>6 DEF ReadyMeansApplied, Live, Settled
  <1>8. CASE UNCHANGED brokerVars
    <2>1. pc' = "unfinalize" => ~Exists(name)
      <3>1. CASE SetTopic(name, NoTopic, "none")
        BY <1>1, <1>8, <3>1, SetTopicType, NoTopicType DEF TopicInv, brokerVars, Origins, Exists
      <3>2. CASE ~SetTopic(name, NoTopic, "none")
        BY <3>2, QuietSteps DEF DeleteTopic
      <3> QED BY <3>1, <3>2
    <2>2. pc' = "unfinalize" => origin[name] # "operator"
      BY <1>1, <2>1 DEF TopicInv
    <2> QED BY <1>2, <1>5, <1>7, <1>8, <2>2
        DEF TopicInv, TypeOK, Pcs, LoopPcs, StepKnowledge, brokerVars, name, Exists
  <1>9. CASE SetTopic(name, NoTopic, "none")
    <2>1. /\ topics' \in [Names -> Topics] /\ origin' \in [Names -> Origins]
          /\ topics'[name] = NoTopic /\ origin'[name] = "none"
          /\ \A m \in Names \ {name} : topics'[m] = topics[m] /\ origin'[m] = origin[m]
      BY <1>1, <1>9, SetTopicType, NoTopicType DEF TopicInv, Origins
    <2> QED BY <1>2, <1>5, <1>7, <2>1
        DEF TopicInv, TypeOK, Pcs, LoopPcs, StepKnowledge, name, Exists
  <1> QED BY <1>8, <1>9 DEF DeleteTopic

\* Others create only what is not there, so nothing the worker knows changes.
LEMMA ForeignCreatePart ==
  ASSUME TopicInv, NEW n \in Names, NEW t \in ForeignTopics, ForeignCreate(n, t)
  PROVE  TopicInv'
  <1>1. t \in Topics /\ t.parts # 0 BY TopicAssumption
  <1>2. ~Exists(n) /\ UNCHANGED <<kubeVars, loopVars, info>> BY DEF ForeignCreate
  <1>3. UNCHANGED <<obj, cache, seen, queued, timer, pc, local, cluster, calm, info>>
    BY <1>2 DEF kubeVars, loopVars
  <1>4. /\ topics' \in [Names -> Topics] /\ origin' \in [Names -> Origins]
        /\ topics'[n] = t /\ origin'[n] = "foreign"
        /\ \A m \in Names \ {n} : topics'[m] = topics[m] /\ origin'[m] = origin[m]
    BY <1>1, SetTopicType DEF ForeignCreate, TopicInv, Origins
  <1>5. LoopTypeOK' /\ LoopInv'
    BY <1>3 DEF TopicInv, TypeOK, LoopTypeOK, KubeTypeOK, LoopInv, CopiesCurrent,
      PcMatchesCopy, CopyBounds, SettledKnown, SettledSpread, Settled, NoLostWakeup,
      Present, Live, Deleting
  <1>6. TypeOK' BY <1>3, <1>4, <1>5 DEF TopicInv, TypeOK
  <1>7. name \in Names /\ local.spec \in Specs /\ obj.spec \in Specs /\ name' = name
    BY <1>3, NameType DEF TopicInv, name
  <1>8. ASSUME NEW s \in Specs, topics[TopicName(s)].parts >= Partitions(s)
        PROVE  TopicName(s) # n
    BY <1>2, <1>8, SpecFields DEF Exists
  <1>9. StepKnowledge'
    <2>1. pc \in {"resize", "configure", "report"} => name # n
      BY <1>2, <1>7, <1>8 DEF TopicInv, StepKnowledge, Provides, name
    <2>2. pc \in {"resize", "configure", "report"} => topics'[name] = topics[name]
      BY <1>4, <1>7, <2>1
    <2>3. pc = "unfinalize" => origin'[name] # "operator"
      BY <1>4, <1>7 DEF TopicInv, StepKnowledge
    <2> QED BY <1>3, <1>7, <2>2, <2>3 DEF TopicInv, StepKnowledge, Provides, Exists
  <1>10. ReadyMeansApplied'
    <2> SUFFICES ASSUME Live(obj), Settled(obj)
                 PROVE  Provides(TopicName(obj.spec), obj.spec)'
      BY <1>3 DEF ReadyMeansApplied, Live, Settled
    <2>1. Provides(TopicName(obj.spec), obj.spec) BY DEF TopicInv, ReadyMeansApplied
    <2>2. TopicName(obj.spec) # n BY <1>7, <1>8, <2>1 DEF Provides
    <2>3. topics'[TopicName(obj.spec)] = topics[TopicName(obj.spec)]
      BY <1>4, <1>7, <2>2, SpecFields
    <2> QED BY <1>3, <2>1, <2>3 DEF Provides
  <1>11. \A m \in Names : origin'[m] = "operator" => Exists(m)'
    BY <1>4 DEF TopicInv, Exists
  <1> QED BY <1>5, <1>6, <1>9, <1>10, <1>11 DEF TopicInv

\* A topic that others grow still has what it was known to have.
LEMMA ForeignGrowPart ==
  ASSUME TopicInv, NEW n \in Names, NEW p \in ForeignSizes, ForeignGrow(n, p)
  PROVE  TopicInv'
  <1>1. UNCHANGED <<obj, cache, seen, queued, timer, pc, local, cluster, calm, origin, info>>
    BY DEF ForeignGrow, kubeVars, loopVars
  <1>2. topics' \in [Names -> Topics] /\ Larger
    BY ForeignGrows DEF TopicInv, TypeOK
  <1>3. LoopTypeOK' /\ LoopInv'
    BY <1>1 DEF TopicInv, TypeOK, LoopTypeOK, KubeTypeOK, LoopInv, CopiesCurrent,
      PcMatchesCopy, CopyBounds, SettledKnown, SettledSpread, Settled, NoLostWakeup,
      Present, Live, Deleting
  <1>4. TypeOK' BY <1>1, <1>2, <1>3 DEF TopicInv, TypeOK
  <1>5. name \in Names /\ local.spec \in Specs /\ obj.spec \in Specs /\ name' = name
    BY <1>1, NameType DEF TopicInv, name
  <1>6. info.parts \in Nat BY DEF TopicInv, TypeOK, Topics
  <1>7. ASSUME NEW m \in Names, NEW q \in Nat, q <= topics[m].parts
        PROVE  q <= topics'[m].parts
    <2>1. topics[m].parts \in Nat /\ topics'[m].parts \in Nat
      BY <1>2 DEF TopicInv, TypeOK, Topics
    <2>2. topics'[m].parts >= topics[m].parts BY <1>2 DEF Larger
    <2> QED BY <1>7, <2>1, <2>2
  <1>8. ASSUME NEW s \in Specs, Provides(TopicName(s), s) PROVE Provides(TopicName(s), s)'
    BY <1>2, <1>8, LargerProvides DEF TopicInv
  <1>9. StepKnowledge'
    <2>1. pc = "resize" => /\ Exists(name)'
                           /\ info.parts <= topics'[name].parts /\ info.rf = topics'[name].rf
      BY <1>2, <1>5, <1>6, <1>7 DEF TopicInv, StepKnowledge, Larger, Exists
    <2>2. pc = "configure" => /\ topics'[name].parts >= Partitions(local.spec)
                              /\ topics'[name].rf = Replicas(local.spec)
      <3>1. Partitions(local.spec) \in Nat BY <1>5, SpecFields
      <3>2. topics[name].parts \in Nat /\ topics'[name].parts \in Nat
        BY <1>2, <1>5 DEF TopicInv, TypeOK, Topics
      <3>3. pc = "configure" => /\ Partitions(local.spec) <= topics[name].parts
                                /\ topics[name].rf = Replicas(local.spec)
        BY <3>1, <3>2 DEF TopicInv, StepKnowledge
      <3>4. pc = "configure" => Partitions(local.spec) <= topics'[name].parts
        BY <1>5, <1>7, <3>1, <3>3
      <3> QED BY <1>2, <1>5, <3>1, <3>2, <3>3, <3>4 DEF Larger
    <2>3. pc = "report" => Provides(name, local.spec)'
      BY <1>1, <1>5, <1>8 DEF TopicInv, StepKnowledge, name
    <2> QED BY <1>1, <1>5, <2>1, <2>2, <2>3 DEF TopicInv, StepKnowledge
  <1>10. ReadyMeansApplied'
    BY <1>1, <1>5, <1>8 DEF TopicInv, ReadyMeansApplied, Live, Settled, Provides
  <1>11. \A m \in Names : origin'[m] = "operator" => Exists(m)'
    BY <1>1, <1>2 DEF TopicInv, Exists, Larger
  <1> QED BY <1>3, <1>4, <1>9, <1>10, <1>11 DEF TopicInv

(***************************************************************************)
(* The theorems that need no more than the invariant.                      *)
(***************************************************************************)
LEMMA InitInv == Init => TopicInv
  <1> SUFFICES ASSUME Init PROVE TopicInv
    OBVIOUS
  <1>1. LoopTypeOK /\ LoopInv BY LoopInitInv DEF Init
  <1>2. pc = "idle" /\ obj = Absent BY DEF Init, LoopInit, KubeInit
  <1>3. ~Live(Absent) BY DEF Live, Absent
  <1> QED BY <1>1, <1>2, <1>3, NoTopicType
      DEF Init, TopicInv, TypeOK, Pcs, LoopPcs, Origins, StepKnowledge, ReadyMeansApplied

LEMMA StepInv ==
  ASSUME TopicInv, Next
  PROVE  TopicInv'
  <1>1. CASE Reconcile
    BY <1>1, LoopPart, TopicExistsPart, CreateTopicPart, ResizeTopicPart,
       ConfigureTopicPart, DeleteTopicPart
    DEF Reconcile
  <1>2. CASE Restart BY <1>2, RestartPart
  <1>3. CASE Others BY <1>3, EnvironmentPart, ForeignCreatePart, ForeignGrowPart DEF Others
  <1> QED BY <1>1, <1>2, <1>3 DEF Next

LEMMA StutterInv ==
  ASSUME TopicInv, UNCHANGED vars
  PROVE  TopicInv'
  BY DEF vars, kubeVars, loopVars, TopicInv, TypeOK, LoopTypeOK, KubeTypeOK, LoopInv,
    CopiesCurrent, PcMatchesCopy, CopyBounds, SettledKnown, SettledSpread, Settled,
    NoLostWakeup, Present, Live, Deleting, StepKnowledge, ReadyMeansApplied, Provides,
    Exists, name

\* The invariant holds in every state of every behaviour.
THEOREM TopicInvariant == Spec => []TopicInv
  <1>1. TopicInv /\ [Next]_vars => TopicInv' BY StepInv, StutterInv
  <1> QED BY InitInv, <1>1, PTL DEF Spec

\* Every variable keeps to its type.
THEOREM TypeCorrect == Spec => []TypeOK
  <1>1. TopicInv => TypeOK BY DEF TopicInv
  <1> QED BY <1>1, TopicInvariant, PTL

\* A Topic that reports Ready for its generation has on the broker the factor,
\* the keys and at least the partitions its spec asks for, however stale the
\* operator's copies, whatever got lost and whatever others add.
THEOREM ReadyTopicsApplied == Spec => []ReadyMeansApplied
  <1>1. TopicInv => ReadyMeansApplied BY DEF TopicInv
  <1> QED BY <1>1, TopicInvariant, PTL

\* A resource the operator still has to do with is never forgotten.
THEOREM NoTopicForgotten == Spec => []NoLostWakeup
  <1>1. TopicInv => NoLostWakeup BY DEF TopicInv, LoopInv
  <1> QED BY <1>1, TopicInvariant, PTL

(***************************************************************************)
(* No orphans, as long as no edit renames the topic.                       *)
(***************************************************************************)
KeepsName == \A e \in Edits : TopicName(e[1]) = TopicName(e[2])

\* A live copy with the finalizer names the same topic as the object does:
\* it is of the object's present life.
NameAgrees(r) == Live(r) /\ r.fin => TopicName(r.spec) = TopicName(obj.spec)

OrphanInv == NoOrphan /\ NameAgrees(cache) /\ NameAgrees(local)

LEMMA NamesKept ==
  ASSUME KeepsName, TopicInv, OrphanInv, LoopStep \/ Environment \/ Crash
  PROVE  NameAgrees(cache)' /\ NameAgrees(local)'
  <1>1. ObjSame \/ ObjMade \/ ObjEdited \/ ObjReleased \/ ObjGone
    BY ObjSteps DEF TopicInv, TypeOK
  <1>2. CopiesFrom BY CopySteps
  <1>3. ASSUME NEW r \in {cache, local}, Live(r), r.fin
        PROVE  TopicName(r.spec) = TopicName(obj'.spec)
    <2>1. Present(obj) /\ obj.fin /\ TopicName(r.spec) = TopicName(obj.spec)
      BY <1>3 DEF OrphanInv, NameAgrees, TopicInv, LoopInv, CopyBounds
    <2>2. ~ObjReleased BY <1>3 DEF ObjReleased, Live, Deleting
    <2>3. CASE ObjSame BY <2>1, <2>3 DEF ObjSame
    <2>4. CASE ObjEdited BY <2>1, <2>4 DEF ObjEdited, KeepsName
    <2> QED BY <1>1, <2>1, <2>2, <2>3, <2>4 DEF ObjMade, ObjGone
  <1>4. ~Live(Absent) BY DEF Absent, Live
  <1>5. NameAgrees(cache)' BY <1>2, <1>3 DEF CopiesFrom, NameAgrees, Live
  <1>6. NameAgrees(local)' BY <1>2, <1>3, <1>4 DEF CopiesFrom, NameAgrees, Live
  <1> QED BY <1>5, <1>6

LEMMA OrphansKept ==
  ASSUME KeepsName, TopicInv, OrphanInv, LoopStep \/ Environment \/ Crash,
         UNCHANGED origin
  PROVE  NoOrphan'
  <1> SUFFICES ASSUME NEW n \in Names, origin[n] = "operator"
               PROVE  Present(obj') /\ obj'.fin /\ TopicName(obj'.spec) = n
    BY DEF NoOrphan, Present
  <1>1. Present(obj) /\ obj.fin /\ TopicName(obj.spec) = n BY DEF OrphanInv, NoOrphan
  <1>2. ObjSame \/ ObjMade \/ ObjEdited \/ ObjReleased \/ ObjGone
    BY ObjSteps DEF TopicInv, TypeOK
  <1>3. ~ObjReleased BY <1>1 DEF ObjReleased, TopicInv, StepKnowledge, name
  <1>4. CASE ObjSame BY <1>1, <1>4 DEF ObjSame
  <1>5. CASE ObjEdited BY <1>1, <1>5 DEF ObjEdited, KeepsName
  <1> QED BY <1>1, <1>2, <1>3, <1>4, <1>5 DEF ObjMade, ObjGone

\* The steps on the broker change no object and no copy but the held one.
LEMMA BrokerStepCopies ==
  ASSUME Connect("inspect") \/ TopicExists \/ CreateTopic \/ ResizeTopic
           \/ ConfigureTopic \/ DeleteTopic
  PROVE  obj' = obj /\ cache' = cache /\ local' \in {local, Absent}
  <1>1. \A next : Goto(next) => obj' = obj /\ cache' = cache /\ local' = local
    BY DEF Goto, kubeVars
  <1>2. GiveUp => obj' = obj /\ cache' = cache /\ local' = Absent BY DEF GiveUp, Return
  <1>3. Abort => obj' = obj /\ cache' = cache /\ local' \in {local, Absent}
    BY <1>1, <1>2 DEF Abort
  <1> QED BY <1>1, <1>2, <1>3 DEF Connect, TopicExists, CreateTopic, ResizeTopic,
            ConfigureTopic, DeleteTopic, Answered

LEMMA OrphanStep ==
  ASSUME KeepsName, TopicInv, OrphanInv, Next
  PROVE  OrphanInv'
  <1>1. CASE (LoopStep \/ Environment) /\ UNCHANGED <<topics, origin, info>>
    BY <1>1, NamesKept, OrphansKept DEF OrphanInv
  <1>2. CASE Restart
    BY <1>2, NamesKept, OrphansKept DEF OrphanInv, Restart, brokerVars
  <1>3. CASE \/ Connect("inspect") /\ UNCHANGED <<topics, origin, info>>
             \/ TopicExists \/ CreateTopic \/ ResizeTopic \/ ConfigureTopic
             \/ DeleteTopic
    <2>1. obj' = obj /\ cache' = cache /\ local' \in {local, Absent}
      BY <1>3, BrokerStepCopies
    <2>2. ~Live(Absent) BY DEF Absent, Live
    <2>3. NameAgrees(cache)' /\ NameAgrees(local)'
      BY <2>1, <2>2 DEF OrphanInv, NameAgrees, Live
    <2>4. \A n \in Names : origin'[n] = "operator" =>
             origin[n] = "operator" \/ (CreateTopic /\ n = name)
      <3>1. CASE UNCHANGED origin BY <3>1
      <3>2. ASSUME NEW t, SetTopic(name, t, "operator"), CreateTopic
            PROVE  \A n \in Names : origin'[n] = "operator" => origin[n] = "operator" \/ n = name
        BY <3>2 DEF SetTopic, TopicInv, TypeOK
      <3>3. CASE SetTopic(name, NoTopic, "none")
        BY <3>3 DEF SetTopic, TopicInv, TypeOK
      <3>4. UNCHANGED origin \/ SetTopic(name, NoTopic, "none")
              \/ (CreateTopic /\ \E t : SetTopic(name, t, "operator"))
        BY <1>3 DEF TopicExists, CreateTopic, ResizeTopic, ConfigureTopic, DeleteTopic,
           brokerVars
      <3> QED BY <3>1, <3>2, <3>3, <3>4
    <2>5. CreateTopic => Present(obj) /\ obj.fin /\ TopicName(obj.spec) = name
      BY DEF CreateTopic, TopicInv, LoopInv, PcMatchesCopy, CopyBounds, OrphanInv,
             NameAgrees, name
    <2>6. NoOrphan'
      BY <2>1, <2>4, <2>5 DEF OrphanInv, NoOrphan, Present
    <2> QED BY <2>3, <2>6 DEF OrphanInv
  <1>4. ASSUME NEW n \in Names, NEW t \in ForeignTopics, ForeignCreate(n, t)
        PROVE  OrphanInv'
    <2>1. obj' = obj /\ cache' = cache /\ local' = local
      BY <1>4 DEF ForeignCreate, kubeVars, loopVars
    <2>2. \A m \in Names : origin'[m] = "operator" => origin[m] = "operator"
      BY <1>4 DEF ForeignCreate, SetTopic, TopicInv, TypeOK
    <2> QED BY <2>1, <2>2 DEF OrphanInv, NoOrphan, NameAgrees, Present, Live
  <1>5. ASSUME NEW n \in Names, NEW p \in ForeignSizes, ForeignGrow(n, p)
        PROVE  OrphanInv'
    BY <1>5 DEF ForeignGrow, kubeVars, loopVars, OrphanInv, NoOrphan, NameAgrees, Present, Live
  <1> QED BY <1>1, <1>2, <1>3, <1>4, <1>5 DEF Next, Reconcile, Others

LEMMA OrphanInvariant ==
  ASSUME KeepsName PROVE Spec => []OrphanInv
  <1>1. Init => OrphanInv
    <2>1. ~Live(Absent) BY DEF Absent, Live
    <2> QED BY <2>1 DEF Init, LoopInit, KubeInit, OrphanInv, NoOrphan, NameAgrees
  <1>2. TopicInv /\ OrphanInv /\ [Next]_vars => OrphanInv'
    <2>1. CASE Next BY <2>1, OrphanStep
    <2>2. CASE UNCHANGED vars
      BY <2>2 DEF vars, kubeVars, loopVars, OrphanInv, NoOrphan, NameAgrees, Present, Live
    <2> QED BY <2>1, <2>2
  <1> QED BY <1>1, <1>2, TopicInvariant, PTL DEF Spec

\* A topic the operator created has its resource, finalizer on, as long as no
\* edit renames it: the finalizer does what the README says it is for.
THEOREM NoTopicOrphaned ==
  ASSUME KeepsName PROVE Spec => []NoOrphan
  <1>1. OrphanInv => NoOrphan BY DEF OrphanInv
  <1> QED BY <1>1, OrphanInvariant, PTL

\* Every step but a deletion leaves a topic as large as it was.
LEMMA TopicGrows ==
  ASSUME TopicInv, Next, ~DeleteTopic, NEW n \in Names, Exists(n)
  PROVE  /\ topics'[n].parts >= topics[n].parts /\ topics'[n].rf = topics[n].rf
         /\ topics[n].parts \in Nat \ {0} /\ topics'[n].parts # 0
  <1>1. topics \in [Names -> Topics] BY DEF TopicInv, TypeOK
  <1>2. topics[n].parts \in Nat \ {0} BY <1>1 DEF Exists, Topics
  <1>3. CASE UNCHANGED topics BY <1>2, <1>3
  <1>4. CASE CreateTopic
    BY <1>1, <1>2, <1>4 DEF CreateTopic, SetTopic, brokerVars, Exists
  <1>5. CASE ResizeTopic
    <2>1. name \in Names /\ local.spec \in Specs BY NameType DEF TopicInv
    <2>2. Partitions(local.spec) \in Nat BY <2>1, SpecFields
    <2>3. \/ UNCHANGED topics
          \/ topics' = [topics EXCEPT ![name].parts = @ + Partitions(local.spec)]
      BY <1>5 DEF ResizeTopic
    <2> QED BY <1>1, <1>2, <2>1, <2>2, <2>3 DEF Topics
  <1>6. CASE ConfigureTopic BY <1>1, <1>2, <1>6 DEF ConfigureTopic, Topics
  <1>7. CASE \E m \in Names, t \in ForeignTopics : ForeignCreate(m, t)
    BY <1>1, <1>2, <1>7 DEF ForeignCreate, SetTopic, Exists
  <1>8. CASE \E m \in Names, p \in ForeignSizes : ForeignGrow(m, p)
    BY <1>2, <1>8, ForeignGrows DEF Larger, TopicInv
  <1> QED BY <1>3, <1>4, <1>5, <1>6, <1>7, <1>8
      DEF Next, Reconcile, Restart, Others, TopicExists, brokerVars

\* A topic the operator created is only deleted while its resource is being
\* deleted, as long as no edit renames it.
THEOREM OnlyDeletionDeletesTopics ==
  ASSUME KeepsName PROVE Spec => OnlyDeletionDeletes
  <1> DEFINE Kept == \A n \in Names :
                       origin[n] = "operator" /\ topics'[n].parts = 0 => Deleting(obj)
  <1>1. TopicInv /\ OrphanInv /\ Next => Kept
    <2> SUFFICES ASSUME TopicInv, OrphanInv, Next, NEW n \in Names,
                        origin[n] = "operator", topics'[n].parts = 0
                 PROVE  Deleting(obj)
      OBVIOUS
    <2>1. Exists(n) /\ Present(obj) /\ obj.fin /\ TopicName(obj.spec) = n
      BY DEF TopicInv, OrphanInv, NoOrphan
    <2>2. DeleteTopic BY <2>1, TopicGrows
    <2> QED
      BY <2>1, <2>2 DEF DeleteTopic, TopicInv, LoopInv, PcMatchesCopy, CopyBounds, TypeOK,
        LoopTypeOK, KubeTypeOK, Resources, Phases, Live, Deleting, Present
  <1>2. TopicInv /\ OrphanInv /\ [Next]_vars => [Kept]_vars BY <1>1
  <1>3. Spec => [][Kept]_vars BY <1>2, TopicInvariant, OrphanInvariant, PTL DEF Spec
  <1> QED BY <1>3 DEF OnlyDeletionDeletes

(***************************************************************************)
(* With renames.                                                           *)
(***************************************************************************)
\* A topic only grows, and is only deleted while no resource is live, whatever
\* edits there are and whatever others add between reading it and changing it.
THEOREM LiveTopicsGrow == Spec => TopicsOnlyGrow
  <1> DEFINE Kept == \A n \in Names : Exists(n) =>
            \/ topics'[n].parts >= topics[n].parts /\ topics'[n].rf = topics[n].rf
            \/ topics'[n].parts = 0 /\ ~(Live(obj) /\ obj.fin)
  <1>1. TopicInv /\ Next => Kept
    <2> SUFFICES ASSUME TopicInv, Next, NEW n \in Names, Exists(n)
                 PROVE  \/ topics'[n].parts >= topics[n].parts /\ topics'[n].rf = topics[n].rf
                        \/ topics'[n].parts = 0 /\ ~(Live(obj) /\ obj.fin)
      OBVIOUS
    <2>1. CASE DeleteTopic
      <3>1. ~(Live(obj) /\ obj.fin)
        BY <2>1 DEF DeleteTopic, TopicInv, LoopInv, PcMatchesCopy, CopyBounds
      <3>2. topics' = topics \/ topics' = [topics EXCEPT ![name] = NoTopic]
        BY <2>1 DEF DeleteTopic, SetTopic, brokerVars
      <3>3. topics \in [Names -> Topics] BY DEF TopicInv, TypeOK
      <3>4. CASE topics'[n] = topics[n] BY <3>3, <3>4 DEF Topics
      <3>5. CASE topics'[n] = NoTopic BY <3>1, <3>5 DEF NoTopic
      <3> QED BY <3>2, <3>3, <3>4, <3>5
    <2>2. CASE ~DeleteTopic BY <2>2, TopicGrows
    <2> QED BY <2>1, <2>2
  <1>2. TopicInv /\ [Next]_vars => [Kept]_vars BY <1>1
  <1>3. Spec => [][Kept]_vars BY <1>2, TopicInvariant, PTL DEF Spec
  <1> QED BY <1>3 DEF TopicsOnlyGrow

\* The resource r holds the topic n back until it is deleted.
Holds(r, n) == Present(r) /\ r.fin /\ TopicName(r.spec) = n

\* A topic the operator made is left without its resource only while there is
\* a resource that is held: by an edit that renames, or by work that was begun
\* before that edit.  It never is because the resource is released, or was
\* released and made again, whatever copies are still worked on.
OrphanedByEditOnly ==
    [][\A n \in Names : origin'[n] = "operator" /\ ~Holds(obj', n)
            => \/ origin[n] = "operator" /\ ~Holds(obj, n)
               \/ Stage(obj) # "free" /\ Stage(obj') # "free"]_vars

THEOREM ReleaseOrphansNothing == Spec => OrphanedByEditOnly
  <1> DEFINE Kept == \A n \in Names : origin'[n] = "operator" /\ ~Holds(obj', n)
                       => \/ origin[n] = "operator" /\ ~Holds(obj, n)
                          \/ Stage(obj) # "free" /\ Stage(obj') # "free"
  <1>1. TopicInv /\ Next => Kept
    <2> SUFFICES ASSUME TopicInv, Next, NEW n \in Names,
                        origin'[n] = "operator", ~Holds(obj', n),
                        origin[n] = "operator" => Holds(obj, n)
                 PROVE  Stage(obj) # "free" /\ Stage(obj') # "free"
      OBVIOUS
    <2>1. CASE CreateTopic
      <3>1. Present(obj) /\ obj.fin
        BY <2>1 DEF CreateTopic, TopicInv, LoopInv, PcMatchesCopy, CopyBounds
      <3> QED BY <2>1, <3>1, BrokerStepCopies DEF Stage, Live
    <2>2. CASE ~CreateTopic
      <3>1. origin[n] = "operator"
        BY <2>2 DEF Next, Reconcile, Restart, Others, TopicExists, ResizeTopic, ConfigureTopic,
                    DeleteTopic, ForeignCreate, ForeignGrow, SetTopic, brokerVars, TopicInv,
                    TypeOK
      <3>2. Present(obj) /\ obj.fin /\ TopicName(obj.spec) = n /\ Stage(obj) # "free"
        BY <3>1 DEF Holds, Stage
      <3>3. obj' # obj BY <3>2 DEF Holds
      <3>4. LoopStep \/ Environment \/ Crash
        BY <3>3, BrokerStepCopies
        DEF Next, Reconcile, Restart, Others, ForeignCreate, ForeignGrow, kubeVars
      <3>5. ~(pc = "unfinalize" /\ local = obj)
        BY <3>1, <3>2 DEF TopicInv, StepKnowledge, name
      <3> QED BY <3>2, <3>4, <3>5, LetGo DEF TopicInv, TypeOK
    <2> QED BY <2>1, <2>2
  <1>2. TopicInv /\ [Next]_vars => [Kept]_vars BY <1>1
  <1>3. Spec => [][Kept]_vars BY <1>2, TopicInvariant, PTL DEF Spec
  <1> QED BY <1>3 DEF OrphanedByEditOnly

\* Keys that no spec sets of its topic stay as they are, for any specs, with
\* renames too.
THEOREM OtherKeysStay == Spec => OtherKeysKept
  <1> DEFINE Kept == \A n \in Names, k \in Keys :
        /\ topics[n].parts # 0 /\ topics'[n].parts # 0
        /\ \A s \in Specs : TopicName(s) = n => s.cfg[k] = Unset
        => topics'[n].cfg[k] = topics[n].cfg[k]
  <1>1. TopicInv /\ Next => Kept
    <2> SUFFICES ASSUME TopicInv, Next, NEW n \in Names, NEW k \in Keys,
                        topics[n].parts # 0, topics'[n].parts # 0,
                        \A s \in Specs : TopicName(s) = n => s.cfg[k] = Unset
                 PROVE  topics'[n].cfg[k] = topics[n].cfg[k]
      OBVIOUS
    <2>1. /\ topics \in [Names -> Topics] /\ origin \in [Names -> Origins]
          /\ name \in Names /\ local.spec \in Specs
      BY NameType DEF TopicInv, TypeOK
    <2>2. name = n => local.spec.cfg[k] = Unset BY <2>1 DEF name
    <2>3. CASE CreateTopic
      <3>1. UNCHANGED topics \/ (~Exists(name) /\ \E t : topics' = [topics EXCEPT ![name] = t])
        BY <2>3 DEF CreateTopic, SetTopic, brokerVars
      <3> QED BY <2>1, <3>1 DEF Exists
    <2>4. CASE ResizeTopic BY <2>1, <2>4 DEF ResizeTopic, Topics
    <2>5. CASE ConfigureTopic
      <3>1. \/ UNCHANGED topics
            \/ topics' = [topics EXCEPT ![name].cfg = Overlay(@, local.spec.cfg)]
        BY <2>5 DEF ConfigureTopic
      <3>2. name = n => Overlay(topics[n].cfg, local.spec.cfg)[k] = topics[n].cfg[k]
        BY <2>2 DEF Overlay
      <3> QED BY <2>1, <3>1, <3>2 DEF Topics
    <2>6. CASE DeleteTopic
      <3>1. UNCHANGED topics \/ topics' = [topics EXCEPT ![name] = NoTopic]
        BY <2>6 DEF DeleteTopic, SetTopic, brokerVars
      <3> QED BY <2>1, <3>1, NoTopicType
    <2>7. ASSUME NEW m \in Names, NEW t \in ForeignTopics, ForeignCreate(m, t)
          PROVE  topics'[n].cfg[k] = topics[n].cfg[k]
      BY <2>1, <2>7 DEF ForeignCreate, SetTopic, Exists
    <2>8. ASSUME NEW m \in Names, NEW p \in ForeignSizes, ForeignGrow(m, p)
          PROVE  topics'[n].cfg[k] = topics[n].cfg[k]
      BY <2>8, ForeignGrows DEF Larger, TopicInv
    <2>9. CASE UNCHANGED topics BY <2>9
    <2> QED BY <2>3, <2>4, <2>5, <2>6, <2>7, <2>8, <2>9
        DEF Next, Reconcile, Restart, Others, TopicExists, brokerVars
  <1>2. TopicInv /\ [Next]_vars => [Kept]_vars BY <1>1
  <1>3. Spec => [][Kept]_vars BY <1>2, TopicInvariant, PTL DEF Spec
  <1> QED BY <1>3 DEF OtherKeysKept

(***************************************************************************)
(* What others own, as long as no edit takes assumeOwnership back.         *)
(***************************************************************************)
OnlyAdopts == \A e \in Edits : e[1].assume => e[2].assume

\* A live copy with the finalizer that may take topics over is of the object's
\* present life, and so may the object.
AssumeAgrees(r) == Live(r) /\ r.fin /\ r.spec.assume => obj.spec.assume

OwnerInv ==
    /\ AssumeAgrees(cache) /\ AssumeAgrees(local)
    /\ pc \in {"resize", "configure"} => local.spec.assume

\* What others made is there.
ForeignExists == \A n \in Names : origin[n] = "foreign" => Exists(n)

LEMMA ForeignExistsStep ==
  ASSUME TopicInv, ForeignExists, Next
  PROVE  ForeignExists'
  <1> SUFFICES ASSUME NEW n \in Names, origin'[n] = "foreign"
               PROVE  topics'[n].parts # 0
    BY DEF ForeignExists, Exists
  <1>1. /\ topics \in [Names -> Topics] /\ origin \in [Names -> Origins]
        /\ name \in Names /\ local.spec \in Specs
    BY NameType DEF TopicInv, TypeOK
  <1>2. origin[n] = "foreign" => topics[n].parts # 0 BY DEF ForeignExists, Exists
  <1>3. CASE CreateTopic \/ DeleteTopic
    <2>1. ASSUME NEW t, SetTopic(name, t, "operator") \/ SetTopic(name, t, "none")
          PROVE  topics'[n].parts # 0
      BY <1>1, <1>2, <2>1 DEF SetTopic
    <2>2. CASE UNCHANGED <<topics, origin>> BY <1>2, <2>2
    <2> QED BY <1>3, <2>1, <2>2 DEF CreateTopic, DeleteTopic, brokerVars
  <1>4. CASE ResizeTopic
    <2>1. Partitions(local.spec) \in Nat /\ Partitions(local.spec) >= 1
      BY <1>1, SpecFields
    <2>2. topics[n].parts \in Nat BY <1>1 DEF Topics
    <2>3. topics[n].parts + Partitions(local.spec) # 0 BY <2>1, <2>2
    <2> QED BY <1>1, <1>2, <1>4, <2>3 DEF ResizeTopic, Topics
  <1>5. CASE ConfigureTopic
    BY <1>1, <1>2, <1>5 DEF ConfigureTopic, Topics
  <1>6. ASSUME NEW m \in Names, NEW t \in ForeignTopics, ForeignCreate(m, t)
        PROVE  topics'[n].parts # 0
    BY <1>1, <1>2, <1>6, TopicAssumption DEF ForeignCreate, SetTopic
  <1>7. ASSUME NEW m \in Names, NEW p \in ForeignSizes, ForeignGrow(m, p)
        PROVE  topics'[n].parts # 0
    <2>1. origin' = origin BY <1>7 DEF ForeignGrow
    <2> QED BY <1>2, <1>7, <2>1, ForeignGrows DEF Larger, Exists, TopicInv
  <1>8. CASE UNCHANGED <<topics, origin>> BY <1>2, <1>8
  <1> QED BY <1>3, <1>4, <1>5, <1>6, <1>7, <1>8
      DEF Next, Reconcile, Restart, Others, TopicExists, brokerVars

LEMMA AssumeKept ==
  ASSUME OnlyAdopts, TopicInv, OwnerInv, LoopStep \/ Environment \/ Crash
  PROVE  AssumeAgrees(cache)' /\ AssumeAgrees(local)'
  <1>1. ObjSame \/ ObjMade \/ ObjEdited \/ ObjReleased \/ ObjGone
    BY ObjSteps DEF TopicInv, TypeOK
  <1>2. CopiesFrom BY CopySteps
  <1>3. ASSUME NEW r \in {cache, local}, Live(r), r.fin, r.spec.assume
        PROVE  obj'.spec.assume
    <2>1. Present(obj) /\ obj.fin /\ obj.spec.assume
      BY <1>3 DEF OwnerInv, AssumeAgrees, TopicInv, LoopInv, CopyBounds
    <2>2. ~ObjReleased BY <1>3 DEF ObjReleased, Live, Deleting
    <2>3. CASE ObjSame BY <2>1, <2>3 DEF ObjSame
    <2>4. CASE ObjEdited BY <2>1, <2>4 DEF ObjEdited, OnlyAdopts
    <2> QED BY <1>1, <2>1, <2>2, <2>3, <2>4 DEF ObjMade, ObjGone
  <1>4. ~Live(Absent) BY DEF Absent, Live
  <1>5. AssumeAgrees(cache)' BY <1>2, <1>3 DEF CopiesFrom, AssumeAgrees, Live
  <1>6. AssumeAgrees(local)' BY <1>2, <1>3, <1>4 DEF CopiesFrom, AssumeAgrees, Live
  <1> QED BY <1>5, <1>6

LEMMA OwnerStep ==
  ASSUME OnlyAdopts, TopicInv, OwnerInv, Next
  PROVE  OwnerInv'
  <1>1. CASE LoopStep BY <1>1, AssumeKept, LoopStepPc DEF OwnerInv
  <1>2. CASE Environment
    <2>1. pc' = pc /\ local' = local
      BY <1>2 DEF Environment, loopVars, ClusterChanges, Recover
    <2> QED BY <1>2, <2>1, AssumeKept DEF OwnerInv
  <1>3. CASE Restart
    <2>1. pc' = "idle" BY <1>3 DEF Restart, Crash
    <2> QED BY <1>3, <2>1, AssumeKept DEF OwnerInv, Restart
  <1>4. CASE Connect("inspect") \/ TopicExists \/ CreateTopic \/ ResizeTopic
               \/ ConfigureTopic \/ DeleteTopic
    <2>1. obj' = obj /\ cache' = cache /\ local' \in {local, Absent}
      BY <1>4, BrokerStepCopies
    <2>2. ~Live(Absent) BY DEF Absent, Live
    <2>3. AssumeAgrees(cache)' /\ AssumeAgrees(local)'
      BY <2>1, <2>2 DEF OwnerInv, AssumeAgrees, Live
    <2>4. pc' \in {"resize", "configure"} => local' = local /\ local.spec.assume
      BY <1>4, QuietSteps
      DEF OwnerInv, Connect, TopicExists, CreateTopic, ResizeTopic, ConfigureTopic,
          DeleteTopic, Answered
    <2> QED BY <2>3, <2>4 DEF OwnerInv
  <1>5. ASSUME NEW n \in Names, NEW t \in ForeignTopics, ForeignCreate(n, t)
        PROVE  OwnerInv'
    BY <1>5 DEF ForeignCreate, kubeVars, loopVars, OwnerInv, AssumeAgrees, Live
  <1>6. ASSUME NEW n \in Names, NEW p \in ForeignSizes, ForeignGrow(n, p)
        PROVE  OwnerInv'
    BY <1>6 DEF ForeignGrow, kubeVars, loopVars, OwnerInv, AssumeAgrees, Live
  <1> QED BY <1>1, <1>2, <1>3, <1>4, <1>5, <1>6 DEF Next, Reconcile, Others

LEMMA OwnerInvariant ==
  ASSUME OnlyAdopts PROVE Spec => [](OwnerInv /\ ForeignExists)
  <1>1. Init => OwnerInv /\ ForeignExists
    <2>1. ~Live(Absent) BY DEF Absent, Live
    <2> QED BY <2>1 DEF Init, LoopInit, KubeInit, OwnerInv, AssumeAgrees, ForeignExists
  <1>2. TopicInv /\ OwnerInv /\ ForeignExists /\ [Next]_vars => (OwnerInv /\ ForeignExists)'
    <2>1. CASE Next BY <2>1, OwnerStep, ForeignExistsStep
    <2>2. CASE UNCHANGED vars
      BY <2>2 DEF vars, kubeVars, loopVars, OwnerInv, AssumeAgrees, Live, ForeignExists, Exists
    <2> QED BY <2>1, <2>2
  <1> QED BY <1>1, <1>2, TopicInvariant, PTL DEF Spec

\* Under a live Topic without assumeOwnership no step of the operator changes a
\* topic of others, as long as no edit takes assumeOwnership back from a call
\* that is still at work.
THEOREM ForeignTopicsStay ==
  ASSUME OnlyAdopts PROVE Spec => ForeignUntouched
  <1> DEFINE Kept == \A n \in Names :
        TouchesForeign(n) => ~(Live(obj) /\ obj.fin /\ ~obj.spec.assume)
  <1>1. TopicInv /\ OwnerInv /\ ForeignExists /\ Next => Kept
    <2> SUFFICES ASSUME TopicInv, OwnerInv, ForeignExists, Next, NEW n \in Names,
                        TouchesForeign(n), Live(obj), obj.fin
                 PROVE  obj.spec.assume
      OBVIOUS
    <2>1. Exists(n) /\ topics \in [Names -> Topics] /\ topics'[n] # topics[n] /\ Reconcile
      BY DEF TouchesForeign, ForeignExists, TopicInv, TypeOK
    <2>2. CASE ResizeTopic \/ ConfigureTopic
      <3>1. pc \in {"resize", "configure"} BY <2>2 DEF ResizeTopic, ConfigureTopic
      <3>2. Live(local) /\ local.fin BY <3>1 DEF TopicInv, LoopInv, PcMatchesCopy
      <3> QED BY <3>1, <3>2 DEF OwnerInv, AssumeAgrees
    <2>3. ~DeleteTopic
      BY DEF DeleteTopic, TopicInv, LoopInv, PcMatchesCopy, CopyBounds
    <2>4. ~CreateTopic BY <2>1 DEF CreateTopic, SetTopic, brokerVars
    <2> QED BY <2>1, <2>2, <2>3, <2>4 DEF Reconcile, TopicExists, brokerVars
  <1>2. TopicInv /\ OwnerInv /\ ForeignExists /\ [Next]_vars => [Kept]_vars BY <1>1
  <1>3. Spec => [][Kept]_vars BY <1>2, TopicInvariant, OwnerInvariant, PTL DEF Spec
  <1> QED BY <1>3 DEF ForeignUntouched

(***************************************************************************)
(* The refinement of ManagedResource, as long as no edit renames.          *)
(***************************************************************************)
RefineInv == TopicInv /\ OrphanInv

made == {n \in Names : origin[n] = "operator"}
met == {s \in Specs : Provides(TopicName(s), s)}
ready == Live(obj) /\ Settled(obj)

LEMMA InitRefines == Init => Managed!Init
  <1> SUFFICES ASSUME Init PROVE Managed!Init
    OBVIOUS
  <1>1. obj = Absent /\ made = {} BY DEF Init, LoopInit, KubeInit, made
  <1>2. Stage(Absent) = "free" /\ ~Live(Absent) BY DEF Stage, Present, Live, Absent
  <1>3. Absent.spec \in Specs BY AbsentType DEF Resources
  <1> QED BY <1>1, <1>2, <1>3 DEF Managed!Init, made

LEMMA BrokerView ==
  /\ UNCHANGED topics => met' = met
  /\ UNCHANGED origin => made' = made
  BY DEF met, made, Provides

LEMMA ObjView ==
  ASSUME obj' = obj
  PROVE  Stage(obj)' = Stage(obj) /\ ready' = ready /\ obj.spec' = obj.spec
  BY DEF Stage, Present, Live, Settled, ready

LEMMA SameRefines ==
  ASSUME obj' = obj, UNCHANGED <<topics, origin>>
  PROVE  UNCHANGED Managed!vars
  BY ObjView, BrokerView DEF Managed!vars, met, made, ready

\* A step of the loop is the promised one that its write amounts to.
LEMMA MoveRefines ==
  ASSUME KeepsName, RefineInv, LoopMove, LoopTypeOK', UNCHANGED <<topics, origin>>
  PROVE  Managed!Next \/ UNCHANGED Managed!vars
  <1>1. met' = met /\ made' = made BY BrokerView
  <1>2. obj.spec \in Specs /\ obj'.spec \in Specs
    BY DEF RefineInv, TopicInv, TypeOK, LoopTypeOK, KubeTypeOK, Resources
  <1>3. (Served(obj) <=> ready) /\ (Served(obj') <=> ready')
    BY DEF Served, Live, Settled, ready
  <1>4. Stage(obj)' = Stage(obj') BY DEF Stage, Present, Live
  <1> USE <1>1, <1>2, <1>3, <1>4 DEF met, made, ready
  <1>5. CASE MoveNone BY <1>5 DEF MoveNone, StageAndSpec, Managed!vars
  <1>6. CASE MoveUnheld BY <1>6 DEF MoveUnheld, Managed!Unheld, Managed!Next
  <1>7. CASE MoveHold BY <1>7 DEF MoveHold, StageAndSpec, Managed!Hold, Managed!Next
  <1>8. CASE MoveEdit
    <2>1. TopicName(obj'.spec) = TopicName(obj.spec) BY <1>8 DEF MoveEdit, KeepsName
    <2> QED BY <1>8, <2>1 DEF MoveEdit, Managed!Edit, Managed!Next
  <1>9. CASE MoveDelete
    BY <1>9 DEF MoveDelete, StageAndSpec, Managed!Delete, Managed!Next
  <1>10. CASE MoveReport
    <2>1. Provides(TopicName(obj.spec), obj.spec)
      BY <1>10 DEF MoveReport, RefineInv, TopicInv, StepKnowledge, name
    <2> QED BY <1>10, <2>1 DEF MoveReport, StageAndSpec, Managed!Report, Managed!Next
  <1>11. CASE MoveRelease
    <2>1. made = {}
      BY <1>11
      DEF MoveRelease, RefineInv, TopicInv, StepKnowledge, OrphanInv, NoOrphan, name
    <2> QED BY <1>11, <2>1 DEF MoveRelease, Managed!Release, Managed!Next
  <1> QED BY <1>5, <1>6, <1>7, <1>8, <1>9, <1>10, <1>11 DEF LoopMove

\* While the held copy is live its topic is the resource's, and a change of it
\* changes no other; a topic that was reported stays as it was asked for.
LEMMA LiveWork ==
  ASSUME RefineInv, TopicInv', Live(local), local.fin, obj' = obj,
         \A m \in Names \ {name} : topics'[m] = topics[m],
         made \subseteq made', made' \subseteq made \cup {name}
  PROVE  Managed!Work
  <1>1. name \in Names /\ obj.spec \in Specs BY NameType DEF RefineInv, TopicInv
  <1>2. Present(obj) /\ obj.fin /\ TopicName(obj.spec) = name
    BY DEF RefineInv, TopicInv, LoopInv, CopyBounds, OrphanInv, NameAgrees, name
  <1>3. Stage(obj) # "free" BY <1>2 DEF Stage
  <1>4. ASSUME NEW w \in Specs, TopicName(w) # name PROVE w \in met' <=> w \in met
    <2>1. topics'[TopicName(w)] = topics[TopicName(w)] BY <1>4, SpecFields
    <2> QED BY <2>1 DEF met, Provides
  <1>5. ready => obj.spec \in met'
    <2>1. ready' => Provides(TopicName(obj.spec), obj.spec)'
      BY DEF TopicInv, ReadyMeansApplied, ready
    <2>2. ASSUME NEW w, w = obj.spec, ready PROVE w \in met'
      <3>1. Provides(TopicName(obj.spec), obj.spec)' /\ obj'.spec = w
        BY <2>1, <2>2, ObjView
      <3>2. Provides(TopicName(w), w)' BY <3>1 DEF Provides
      <3> QED BY <1>1, <2>2, <3>2 DEF met
    <2> QED BY <2>2
  <1>6. met' \subseteq Specs BY DEF met
  <1>7. Stage(obj)' = Stage(obj) /\ ready' = ready /\ obj.spec' = obj.spec BY ObjView
  <1> QED BY <1>1, <1>2, <1>3, <1>4, <1>5, <1>6, <1>7 DEF Managed!Work, met, made, ready

LEMMA LiveRefines ==
  ASSUME RefineInv, TopicInv', CreateTopic \/ ResizeTopic \/ ConfigureTopic
  PROVE  Managed!Work
  <1>1. name \in Names /\ topics \in [Names -> Topics] /\ origin \in [Names -> Origins]
    BY NameType DEF RefineInv, TopicInv, TypeOK
  <1>2. Live(local) /\ local.fin
    BY DEF CreateTopic, ResizeTopic, ConfigureTopic, RefineInv, TopicInv, LoopInv, PcMatchesCopy
  <1>3. obj' = obj BY BrokerStepCopies
  <1>4. \A m \in Names \ {name} : topics'[m] = topics[m]
    BY <1>1 DEF CreateTopic, ResizeTopic, ConfigureTopic, SetTopic, brokerVars
  <1>5. origin' = origin \/ origin' = [origin EXCEPT ![name] = "operator"]
    BY DEF CreateTopic, ResizeTopic, ConfigureTopic, SetTopic, brokerVars
  <1>6. made \subseteq made' /\ made' \subseteq made \cup {name}
    BY <1>1, <1>5 DEF made
  <1> QED BY <1>2, <1>3, <1>4, <1>6, LiveWork

LEMMA DeleteRefines ==
  ASSUME RefineInv, DeleteTopic
  PROVE  Managed!Clean \/ UNCHANGED Managed!vars
  <1>1. name \in Names BY NameType DEF RefineInv, TopicInv
  <1>2. obj' = obj BY BrokerStepCopies
  <1>3. Deleting(local) BY DEF DeleteTopic, RefineInv, TopicInv, LoopInv, PcMatchesCopy
  <1>4. Stage(obj) # "held"
    BY <1>3 DEF RefineInv, TopicInv, LoopInv, CopyBounds, Stage
  <1>5. CASE UNCHANGED brokerVars BY <1>2, <1>5, SameRefines DEF brokerVars
  <1>6. CASE SetTopic(name, NoTopic, "none")
    <2>1. /\ topics'[name] = NoTopic /\ origin'[name] = "none"
          /\ \A m \in Names \ {name} : topics'[m] = topics[m] /\ origin'[m] = origin[m]
      BY <1>1, <1>6, SetTopicType, NoTopicType DEF RefineInv, TopicInv, Origins
    <2>2. made' \subseteq made BY <2>1 DEF made
    <2>3. ASSUME NEW w \in met' PROVE w \in met
      <3>1. w \in Specs /\ topics'[TopicName(w)].parts >= Partitions(w)
        BY DEF met, Provides
      <3>2. TopicName(w) # name
        BY <2>1, <3>1, SpecFields, NoTopicType
      <3>3. topics'[TopicName(w)] = topics[TopicName(w)] BY <2>1, <3>1, <3>2, SpecFields
      <3> QED BY <3>3 DEF met, Provides
    <2>4. Stage(obj)' = Stage(obj) /\ ready' = ready /\ obj.spec' = obj.spec
      BY <1>2, ObjView
    <2> QED BY <1>4, <2>2, <2>3, <2>4 DEF Managed!Clean, met, made, ready
  <1> QED BY <1>5, <1>6 DEF DeleteTopic

LEMMA ForeignRefines ==
  ASSUME RefineInv, NEW n \in Names, NEW t \in ForeignTopics, ForeignCreate(n, t)
  PROVE  Managed!OthersAdd
  <1>1. obj' = obj /\ ~Exists(n) BY DEF ForeignCreate, kubeVars
  <1>2. /\ topics'[n] = t /\ origin'[n] = "foreign"
        /\ \A m \in Names \ {n} : topics'[m] = topics[m] /\ origin'[m] = origin[m]
    BY TopicAssumption, SetTopicType DEF ForeignCreate, RefineInv, TopicInv, Origins
  <1>3. made' = made BY <1>1, <1>2 DEF made, RefineInv, TopicInv
  <1>4. ASSUME NEW w \in met PROVE w \in met'
    <2>1. w \in Specs /\ topics[TopicName(w)].parts >= Partitions(w) BY DEF met, Provides
    <2>2. TopicName(w) # n BY <1>1, <2>1, SpecFields DEF Exists
    <2>3. topics'[TopicName(w)] = topics[TopicName(w)] BY <1>2, <2>1, <2>2, SpecFields
    <2> QED BY <2>3 DEF met, Provides
  <1>5. met' \subseteq Specs BY DEF met
  <1>6. Stage(obj)' = Stage(obj) /\ ready' = ready /\ obj.spec' = obj.spec
    BY <1>1, ObjView
  <1> QED BY <1>3, <1>4, <1>5, <1>6 DEF Managed!OthersAdd, met, made, ready

LEMMA GrowthRefines ==
  ASSUME RefineInv, NEW n \in Names, NEW p \in ForeignSizes, ForeignGrow(n, p)
  PROVE  Managed!OthersAdd
  <1>1. obj' = obj /\ origin' = origin BY DEF ForeignGrow, kubeVars
  <1>2. topics' \in [Names -> Topics] /\ Larger BY ForeignGrows DEF RefineInv, TopicInv
  <1>3. met \subseteq met' /\ met' \subseteq Specs
    BY <1>2, LargerProvides DEF met, RefineInv, TopicInv
  <1>4. made' = made BY <1>1, BrokerView
  <1>5. Stage(obj)' = Stage(obj) /\ ready' = ready /\ obj.spec' = obj.spec
    BY <1>1, ObjView
  <1> QED BY <1>3, <1>4, <1>5 DEF Managed!OthersAdd, met, made, ready

LEMMA StepRefines ==
  ASSUME KeepsName, RefineInv, RefineInv', Next
  PROVE  Managed!Next \/ UNCHANGED Managed!vars
  <1>1. LoopTypeOK' BY DEF RefineInv, TopicInv, TypeOK
  <1>2. CASE (LoopStep \/ Environment \/ Crash) /\ UNCHANGED <<topics, origin>>
    <2>1. LoopMove BY <1>2, LoopMoves DEF RefineInv, TopicInv, TypeOK
    <2> QED BY <1>1, <1>2, <2>1, MoveRefines
  <1>3. CASE CreateTopic \/ ResizeTopic \/ ConfigureTopic
    BY <1>3, LiveRefines DEF RefineInv, Managed!Next
  <1>4. CASE DeleteTopic BY <1>4, DeleteRefines DEF Managed!Next
  <1>5. CASE TopicExists \/ (Connect("inspect") /\ UNCHANGED <<topics, origin>>)
    <2>1. obj' = obj /\ UNCHANGED <<topics, origin>>
      BY <1>5, BrokerStepCopies DEF TopicExists, brokerVars
    <2> QED BY <2>1, SameRefines
  <1>6. ASSUME NEW n \in Names, NEW t \in ForeignTopics, ForeignCreate(n, t)
        PROVE  Managed!Next
    BY <1>6, ForeignRefines DEF Managed!Next
  <1>7. ASSUME NEW n \in Names, NEW p \in ForeignSizes, ForeignGrow(n, p)
        PROVE  Managed!Next
    BY <1>7, GrowthRefines DEF Managed!Next
  <1> QED BY <1>2, <1>3, <1>4, <1>5, <1>6, <1>7 DEF Next, Reconcile, Restart, Others, brokerVars

\* The Topic controller implements ManagedResource, for all specs, edits that
\* keep the name, topics of others and bounds.
THEOREM TopicsManaged ==
  ASSUME KeepsName PROVE Spec => ImplementsManaged
  <1>1. RefineInv /\ RefineInv' /\ [Next]_vars => [Managed!Next]_Managed!vars
    <2>1. CASE Next BY <2>1, StepRefines
    <2>2. CASE UNCHANGED vars
      <3>1. obj' = obj /\ UNCHANGED <<topics, origin>> BY <2>2 DEF vars, kubeVars
      <3> QED BY <3>1, SameRefines
    <2> QED BY <2>1, <2>2
  <1>2. Spec => []RefineInv BY OrphanInvariant, TopicInvariant, PTL DEF RefineInv
  <1> QED BY <1>1, <1>2, InitRefines, PTL DEF Spec, ImplementsManaged, Managed!Spec
=============================================================================

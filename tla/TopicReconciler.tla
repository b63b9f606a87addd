-------------------------- MODULE TopicReconciler ---------------------------
(***************************************************************************)
(* The Topic controller (internal/controller/topic_controller.go) and the  *)
(* broker operations it uses (internal/bufstream/topic.go), for one Topic  *)
(* resource and the topics of the broker.                                  *)
(***************************************************************************)
EXTENDS ReconcileLoop

CONSTANTS Names,              \* topic names on the broker
          NoName,             \* an empty spec.topicName
          ResourceName,       \* metadata.name of the resource
          Keys, Values,       \* configuration keys and their values
          Unset,              \* a key the configuration does not set
          AcceptedReplicas,   \* the replication factors the broker takes
          ForeignTopics,      \* topics that others may create
          ForeignSizes,       \* partition counts they may grow a topic to
          NotFoundRecognised  \* the broker library's error text for a topic
                              \* that is not there is the literal compared

VARIABLES topics,   \* the broker's topics; no partitions: there is none
          origin,   \* who created each of them (history, read by no action)
          info      \* currentInfo, what TopicExists returned

brokerVars == <<topics, origin>>
vars == <<kubeVars, loopVars, topics, origin, info>>

Configs == [Keys -> Values \cup {Unset}]
NoConfig == [k \in Keys |-> Unset]
Topics == [parts : Nat, rf : Int, cfg : Configs]
NoTopic == [parts |-> 0, rf |-> 0, cfg |-> NoConfig]
Origins == {"none", "operator", "foreign"}

\* A TopicSpec, but for the name of its Cluster.
TopicSpecs == [topicName : Names \cup {NoName}, parts : Nat, rf : Nat,
               cfg : Configs, assume : BOOLEAN]

ASSUME TopicAssumption ==
    /\ Specs \subseteq TopicSpecs
    /\ ResourceName \in Names /\ NoName \notin Names
    /\ AcceptedReplicas \subseteq Int
    /\ ForeignTopics \subseteq {t \in Topics : t.parts # 0}
    /\ ForeignSizes \subseteq Nat
    /\ NotFoundRecognised \in BOOLEAN

(***************************************************************************)
(* Conversions.                                                            *)
(***************************************************************************)
TopicName(s) == IF s.topicName = NoName THEN ResourceName ELSE s.topicName

Int16(x) == ((x + 32768) % 65536) - 32768

AtLeastOne(x) == IF x = 0 THEN 1 ELSE x

Partitions(s) == AtLeastOne(s.parts)
Replicas(s) == AtLeastOne(Int16(s.rf))

Overlay(old, new) == [k \in Keys |-> IF new[k] = Unset THEN old[k] ELSE new[k]]

Exists(n) == topics[n].parts # 0

(***************************************************************************)
(* The broker's side.                                                      *)
(***************************************************************************)
SetTopic(n, t, who) ==
    /\ topics' = [topics EXCEPT ![n] = t]
    /\ origin' = [origin EXCEPT ![n] = who]

\* Somebody else creates a topic.
ForeignCreate(n, t) ==
    /\ ~Exists(n)
    /\ SetTopic(n, t, "foreign")
    /\ UNCHANGED <<kubeVars, loopVars, info>>

\* Somebody else adds partitions to a topic, whoever made it.
ForeignGrow(n, p) ==
    /\ Exists(n) /\ p > topics[n].parts
    /\ topics' = [topics EXCEPT ![n].parts = p]
    /\ UNCHANGED <<kubeVars, loopVars, origin, info>>

\* The answer to a broker request that was carried out: it may get lost.
Answered(next) == Goto(next) \/ (~calm /\ Abort)

(***************************************************************************)
(* reconcileTopic, after the connection.                                   *)
(***************************************************************************)
name == TopicName(local.spec)

\* Mutant: ownership is taken without asking.
TopicTaken ==
    /\ pc = "inspect"
    /\ UNCHANGED brokerVars
    /\ \/ ~Exists(name) /\ Goto("create") /\ UNCHANGED info
       \/ Exists(name) /\ Goto("resize") /\ info' = topics[name]

\* A topic the broker lists with an error has no partitions in the answer and
\* is taken for one that is not there.
TopicExists ==
    /\ pc = "inspect"
    /\ UNCHANGED brokerVars
    /\ \/ (~Exists(name) \/ ~calm) /\ Goto("create") /\ UNCHANGED info
       \/ Exists(name) /\ ~local.spec.assume /\ Goto("refuse") /\ UNCHANGED info
       \/ Exists(name) /\ local.spec.assume /\ Goto("resize") /\ info' = topics[name]
       \/ ~calm /\ Abort /\ UNCHANGED info

CreateTopic ==
    /\ pc = "create"
    /\ UNCHANGED info
    /\ \/ /\ ~Exists(name) /\ Replicas(local.spec) \in AcceptedReplicas
          /\ SetTopic(name, [parts |-> Partitions(local.spec),
                             rf |-> Replicas(local.spec),
                             cfg |-> local.spec.cfg], "operator")
          /\ Answered("report")
       \/ /\ Exists(name) \/ Replicas(local.spec) \notin AcceptedReplicas \/ ~calm
          /\ Abort /\ UNCHANGED brokerVars

\* Mutant: a topic that is too large is deleted, to be created again.
ResizeByDeleting ==
    /\ pc = "resize"
    /\ info' = NoTopic
    /\ Goto("create")
    /\ SetTopic(name, NoTopic, "none")

\* UpdateTopic up to CreatePartitions: decided on what was read before.  The
\* library's CreatePartitions lists the topic again and asks for that many more.
ResizeTopic ==
    /\ pc = "resize"
    /\ info' = NoTopic
    /\ UNCHANGED origin
    /\ LET wanted == Partitions(local.spec)
           mayGrow == info.rf = Replicas(local.spec) /\ wanted > info.parts
       IN \/ /\ info.rf # Replicas(local.spec) \/ wanted < info.parts
             /\ Abort /\ UNCHANGED topics
          \/ /\ info.rf = Replicas(local.spec) /\ wanted = info.parts
             /\ Goto("configure") /\ UNCHANGED topics
          \/ /\ mayGrow
             /\ topics' = [topics EXCEPT ![name].parts = @ + wanted]
             /\ Answered("configure")
          \/ mayGrow /\ ~calm /\ Abort /\ UNCHANGED topics

\* Mutant: the configuration of the spec replaces that of the topic.
ConfigureReplacing ==
    /\ pc = "configure"
    /\ UNCHANGED <<origin, info>>
    /\ \/ /\ topics' = [topics EXCEPT ![name].cfg = local.spec.cfg]
          /\ Answered("report")
       \/ ~calm /\ Abort /\ UNCHANGED topics

\* The rest of UpdateTopic: AlterTopicConfigs sets keys and removes none.
ConfigureTopic ==
    /\ pc = "configure"
    /\ UNCHANGED <<origin, info>>
    /\ \/ local.spec.cfg = NoConfig /\ Goto("report") /\ UNCHANGED topics
       \/ /\ local.spec.cfg # NoConfig
          /\ topics' = [topics EXCEPT ![name].cfg = Overlay(@, local.spec.cfg)]
          /\ Answered("report")
       \/ /\ local.spec.cfg # NoConfig /\ ~calm
          /\ Abort /\ UNCHANGED topics

(***************************************************************************)
(* reconcileDelete, after the connection.                                  *)
(***************************************************************************)
\* Mutant: a failed deletion is logged and ignored.
DeleteIgnoringErrors ==
    /\ pc = "delete"
    /\ UNCHANGED info
    /\ Goto("unfinalize")
    /\ \/ Exists(name) /\ SetTopic(name, NoTopic, "none")
       \/ UNCHANGED brokerVars

DeleteTopic ==
    /\ pc = "delete"
    /\ UNCHANGED info
    /\ \/ /\ Exists(name)
          /\ SetTopic(name, NoTopic, "none")
          /\ Answered("unfinalize")
       \/ /\ ~Exists(name) /\ NotFoundRecognised
          /\ Goto("unfinalize") /\ UNCHANGED brokerVars
       \/ /\ ~calm \/ (~Exists(name) /\ ~NotFoundRecognised)
          /\ GiveUp /\ UNCHANGED brokerVars

(***************************************************************************)
(* The specification.                                                      *)
(***************************************************************************)
Init ==
    /\ LoopInit
    /\ topics = [n \in Names |-> NoTopic]
    /\ origin = [n \in Names |-> "none"]
    /\ info = NoTopic

Reconcile ==
    \/ (LoopStep \/ Connect("inspect")) /\ UNCHANGED <<topics, origin, info>>
    \/ TopicExists \/ CreateTopic \/ ResizeTopic \/ ConfigureTopic
    \/ DeleteTopic

Restart == Crash /\ info' = NoTopic /\ UNCHANGED brokerVars

Others ==
    \/ Environment /\ UNCHANGED <<topics, origin, info>>
    \/ \E n \in Names, t \in ForeignTopics : ForeignCreate(n, t)
    \/ \E n \in Names, p \in ForeignSizes : ForeignGrow(n, p)

Next == Reconcile \/ Restart \/ Others

Spec == Init /\ [][Next]_vars

(***************************************************************************)
(* Fairness: the worker goroutine runs while it has something to do, the   *)
(* informer catches up, the delays of the queue elapse, outages end.       *)
(***************************************************************************)
Fairness ==
    /\ WF_vars(Reconcile)
    /\ WF_vars(Deliver /\ UNCHANGED <<loopVars, topics, origin, info>>)
    /\ WF_vars(TimerFires /\ UNCHANGED <<loopVars, topics, origin, info>>)
    /\ WF_vars(Recover /\ UNCHANGED <<topics, origin, info>>)

LiveSpec == Spec /\ Fairness

(***************************************************************************)
(* Properties.                                                             *)
(***************************************************************************)
Pcs == LoopPcs \cup {"inspect", "create", "resize", "configure", "delete"}

\* Every variable keeps to its type.
TypeOK ==
    /\ LoopTypeOK
    /\ pc \in Pcs
    /\ topics \in [Names -> Topics]
    /\ origin \in [Names -> Origins]
    /\ info \in Topics

\* The broker's topic has what a spec asks for: the factor, the keys the spec
\* sets, and partitions enough.
Provides(n, s) ==
    /\ topics[n].parts >= Partitions(s)
    /\ topics[n].rf = Replicas(s)
    /\ \A k \in Keys : s.cfg[k] # Unset => topics[n].cfg[k] = s.cfg[k]

\* A Topic that reports Ready for its current generation has on the broker what
\* its current spec asks for: no stale copy, lost answer, half-done update,
\* growth by others or restart lets reconcileTopic report or skip (168-175) a
\* topic that falls short of it.  ReadyMeansAsAsked says what is lacking.
ReadyMeansApplied ==
    Live(obj) /\ Settled(obj) => Provides(TopicName(obj.spec), obj.spec)

\* A topic the operator created has its resource, with the finalizer still on
\* it: none stays behind when the resource goes, is made again or is read
\* late (README "All resources use finalizers to clean up Kafka resources").
NoOrphan ==
    \A n \in Names : origin[n] = "operator" =>
        Present(obj) /\ obj.fin /\ TopicName(obj.spec) = n

\* A topic the operator created is only deleted while its resource is being
\* deleted, never on the word of a copy that is out of date.
OnlyDeletionDeletes ==
    [][\A n \in Names : origin[n] = "operator" /\ topics'[n].parts = 0
            => Deleting(obj)]_vars

\* A topic that is there only grows, in partitions and never in replicas, until
\* a resource that is being deleted deletes it.  An update decided on a count
\* that others have changed since takes nothing away, none makes the topic anew,
\* and no copy of an earlier, deleted life is acted on under a live one, renames
\* or not (topic.go 110-179).
TopicsOnlyGrow ==
    [][\A n \in Names : Exists(n) =>
            \/ topics'[n].parts >= topics[n].parts /\ topics'[n].rf = topics[n].rf
            \/ topics'[n].parts = 0 /\ ~(Live(obj) /\ obj.fin)]_vars

\* The operator's own step changes a topic that somebody else made.
TouchesForeign(n) == origin[n] = "foreign" /\ topics'[n] # topics[n] /\ Reconcile

\* What a Topic with assumeOwnership=false does not own it leaves alone, at
\* least until it is deleted (273-283; api/v1alpha1/topic_types.go:51-55).
ForeignUntouched ==
    [][\A n \in Names :
        TouchesForeign(n) => ~(Live(obj) /\ obj.fin /\ ~obj.spec.assume)]_vars

\* Keys of a topic that no spec of its Topic sets stay as others set them: an
\* update adds to the configuration and never replaces it (topic.go 141-157).
OtherKeysKept ==
    [][\A n \in Names, k \in Keys :
        /\ topics[n].parts # 0 /\ topics'[n].parts # 0
        /\ \A s \in Specs : TopicName(s) = n => s.cfg[k] = Unset
        => topics'[n].cfg[k] = topics[n].cfg[k]]_vars

\* What each step of reconcileTopic and reconcileDelete knows of the broker.
StepKnowledge ==
    /\ pc = "resize" =>
        /\ Exists(name)
        /\ info.parts <= topics[name].parts /\ info.rf = topics[name].rf
    /\ pc = "configure" =>
        /\ topics[name].parts >= Partitions(local.spec)
        /\ topics[name].rf = Replicas(local.spec)
    /\ pc = "report" => Provides(name, local.spec)
    /\ pc = "unfinalize" => origin[name] # "operator"

\* Every safety property rests on this one: it is inductive.
TopicInv ==
    /\ TypeOK /\ LoopInv
    /\ \A n \in Names : origin[n] = "operator" => Exists(n)
    /\ StepKnowledge
    /\ ReadyMeansApplied

\* The topic has more partitions than its Topic asks for.
TooLarge == topics[TopicName(obj.spec)].parts > Partitions(obj.spec)

\* A live resource becomes Ready for its generation, unless it is deleted, or
\* its topic is too large: UpdateTopic refuses to make it smaller, whoever
\* made it so (topic.go 132-134).
EventuallyReady == Live(obj) ~> (Settled(obj) \/ ~Live(obj) \/ TooLarge)

\* The topic of a resource that is being deleted goes.
EventuallyCleaned ==
    \A n \in Names : Deleting(obj) /\ origin[n] = "operator" ~> origin[n] # "operator"

\* A resource that is being deleted and waits for the operator goes too.
DeletionCompletes == Deleting(obj) /\ obj.fin ~> ~(Deleting(obj) /\ obj.fin)

(***************************************************************************)
(* What the documentation says and the code does not do.                   *)
(***************************************************************************)
\* "Partitions is the number of partitions for the topic" (api/v1alpha1/
\* topic_types.go:33): a Ready Topic has as many as its spec says, if nobody
\* else adds any.  UpdateTopic asks for as many more (topic.go 122-123).
ReadyMeansAsAsked ==
    Live(obj) /\ Settled(obj) =>
        topics[TopicName(obj.spec)].parts = Partitions(obj.spec)

\* A Topic without assumeOwnership that reports it was refused its topic, which
\* others made, does not touch it (101-161, 273-283).
NotOwnedNotTouched ==
    [][\A n \in Names : TouchesForeign(n) /\ obj.cond = "Refused"
            => \E s \in Specs : s.assume]_vars

(***************************************************************************)
(* The refinement of ManagedResource.                                      *)
(***************************************************************************)
Managed == INSTANCE ManagedResource WITH
    Wants <- Specs,
    Thing <- [s \in Specs |-> TopicName(s)],
    stage <- Stage(obj),
    want <- obj.spec,
    ready <- Live(obj) /\ Settled(obj),
    made <- {n \in Names : origin[n] = "operator"},
    met <- {s \in Specs : Provides(TopicName(s), s)}

\* The Topic controller does what ManagedResource promises, through stale
\* copies, conflicts, crashes and lost answers, as long as edits keep the name.
ImplementsManaged == Managed!Spec
=============================================================================

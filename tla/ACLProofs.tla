------------------------------ MODULE ACLProofs -------------------------------
(***************************************************************************)
(* The ACL controller's conversions and safety properties, for every set   *)
(* of principals, hosts, names, specs, edits and entries of others.        *)
(***************************************************************************)
EXTENDS ACLReconciler, LoopProofs

\* The operation survives the package's own codes, which are not Kafka's.
LEMMA OperationKept ==
    ASSUME NEW o \in Operations
    PROVE  KadmOperation(OperationCode(o)) = o
  BY DEF Operations, KadmOperation, OperationCode

\* The resource survives; the cluster has a name of its own.
LEMMA ResourceKept ==
    ASSUME NEW t \in ResourceTypes, NEW n
    PROVE  KadmResource(ResourceTypeCode(t), n)
             = <<t, IF t = "Cluster" THEN "kafka-cluster" ELSE n>>
  BY DEF ResourceTypes, KadmResource, ResourceTypeCode

\* Entry(s) grants or denies exactly what s says, for any principals, hosts and
\* names: toACLConfig (240-303) and buildACL (acl.go 145-207) lose and swap nothing.
THEOREM ConversionsFaithful == ConversionFaithful
<1> SUFFICES ASSUME NEW s \in ACLSpecs
             PROVE  Entry(s) = Granted(s)
  BY DEF ConversionFaithful
<1> DEFINE c == toACLConfig(s)
<1>1. KadmOperation(c.operation) = s.operation
  BY OperationKept DEF ACLSpecs, toACLConfig
<1>2. KadmResource(c.type, c.name)
        = <<s.type, IF s.type = "Cluster" THEN "kafka-cluster" ELSE s.name>>
  BY ResourceKept DEF ACLSpecs, toACLConfig
<1>3. (IF c.pattern = 4 THEN "Prefixed" ELSE "Literal") = s.pattern
  BY DEF ACLSpecs, toACLConfig, PatternTypes, PatternCode
<1>4. (IF c.permission = 2 THEN "Deny" ELSE "Allow") = s.permission
  BY DEF ACLSpecs, toACLConfig, Permissions, PermissionCode
<1>5. c.principal = s.principal
  BY DEF toACLConfig
<1> QED BY <1>1, <1>2, <1>3, <1>4, <1>5 DEF Entry, buildACL, HostOrAny, Granted, ACLSpecs

LEMMA EntryFacts ==
  ASSUME NEW s \in Specs
  PROVE  Entry(s) = Granted(s) /\ Entry(s) \in Entries
  <1>1. s \in ACLSpecs BY ACLAssumption
  <1>2. Entry(s) = Granted(s) BY <1>1, ConversionsFaithful DEF ConversionFaithful
  <1>3. Granted(s) \in Entries BY <1>1, ConversionAssumption DEF Granted, ACLSpecs, Entries
  <1> QED BY <1>2, <1>3

(***************************************************************************)
(* The inductive invariant.  WorkInv needs nothing of who else writes to   *)
(* the list between two calls of Reconcile, so TwoACLsProofs uses it too.  *)
(***************************************************************************)
StepKnowledge ==
    /\ pc = "report" => entry \in acls
    /\ pc = "unfinalize" => entry \notin mine

WorkInv == TypeOK /\ LoopInv /\ StepKnowledge

ACLInv == WorkInv /\ ReadyMeansInForce

LEMMA SpecType ==
  ASSUME TypeOK
  PROVE  /\ local.spec \in Specs /\ obj.spec \in Specs
         /\ entry \in Entries /\ entry = Granted(local.spec)
  BY EntryFacts DEF TypeOK, LoopTypeOK, KubeTypeOK, Resources, entry

LEMMA LoopPart ==
  ASSUME WorkInv, (LoopStep \/ Connect("create")) /\ UNCHANGED brokerVars
  PROVE  WorkInv'
  <1>1. LoopTypeOK' /\ LoopInv'
    BY LoopStepInv, ConnectInv DEF WorkInv, TypeOK
  <1>2. pc' \in {"idle", "finalize", "cluster", "connect", "fail", "create", "delete"}
    BY LoopStepPc, QuietSteps DEF Connect
  <1>3. TypeOK' BY <1>1, <1>2 DEF WorkInv, TypeOK, LoopPcs, brokerVars
  <1> QED BY <1>1, <1>2, <1>3 DEF WorkInv, StepKnowledge

LEMMA EnvironmentPart ==
  ASSUME WorkInv, Environment, UNCHANGED brokerVars
  PROVE  WorkInv'
  <1>1. LoopTypeOK' /\ LoopInv' BY EnvironmentInv DEF WorkInv, TypeOK
  <1>2. pc' = pc /\ local' = local
    BY DEF Environment, loopVars, ClusterChanges, Recover
  <1> QED BY <1>1, <1>2 DEF WorkInv, TypeOK, StepKnowledge, brokerVars, entry

LEMMA RestartPart ==
  ASSUME WorkInv, Restart
  PROVE  WorkInv'
  <1>1. LoopTypeOK' /\ LoopInv' BY CrashInv DEF WorkInv, TypeOK, Restart
  <1>2. pc' = "idle" BY DEF Restart, Crash
  <1> QED BY <1>1, <1>2 DEF WorkInv, TypeOK, LoopPcs, StepKnowledge, Restart, brokerVars

\* A created entry is in force whether or not the answer arrives.
LEMMA CreateACLPart ==
  ASSUME WorkInv, CreateACL
  PROVE  WorkInv'
  <1>1. pc = "create" /\ Live(local) /\ local.fin
    BY DEF CreateACL, WorkInv, LoopInv, PcMatchesCopy, TypeOK
  <1>2. \/ /\ Goto("report") \/ Abort
           /\ acls' = acls \cup {entry} /\ mine' = mine \cup ({entry} \ acls)
        \/ Abort /\ UNCHANGED brokerVars
    BY DEF CreateACL, Answered
  <1>3. LoopTypeOK' /\ LoopInv'
    BY <1>1, <1>2, GotoInv, AbortInv DEF WorkInv, TypeOK
  <1>4. pc' \in {"idle", "fail"} \/ (pc' = "report" /\ local' = local /\ entry \in acls')
    BY <1>2, QuietSteps DEF brokerVars
  <1>5. TypeOK'
    BY <1>2, <1>3, <1>4, SpecType DEF WorkInv, TypeOK, LoopPcs, brokerVars
  <1>6. StepKnowledge' BY <1>4 DEF StepKnowledge, entry
  <1> QED BY <1>3, <1>5, <1>6 DEF WorkInv

\* Only a copy of a deleted object deletes.
LEMMA DeleteACLPart ==
  ASSUME WorkInv, DeleteACL
  PROVE  WorkInv'
  <1>1. pc = "delete" /\ Deleting(local) /\ local.fin /\ ~Live(local)
    BY DEF DeleteACL, WorkInv, LoopInv, PcMatchesCopy, Live, Deleting
  <1>2. \/ /\ Goto("unfinalize") \/ GiveUp
           /\ acls' = acls \ {entry} /\ mine' = mine \ {entry}
        \/ GiveUp /\ UNCHANGED brokerVars
    BY <1>1 DEF DeleteACL, Answered, Abort
  <1>3. LoopTypeOK' /\ LoopInv'
    BY <1>1, <1>2, GotoInv, GiveUpInv DEF WorkInv, TypeOK
  <1>4. /\ acls' \subseteq acls /\ mine' \subseteq mine
        /\ pc' = "idle" \/ (pc' = "unfinalize" /\ local' = local /\ entry \notin mine')
    BY <1>2, QuietSteps DEF brokerVars
  <1>5. TypeOK' BY <1>3, <1>4 DEF WorkInv, TypeOK, LoopPcs
  <1>6. StepKnowledge' BY <1>4 DEF StepKnowledge, entry
  <1> QED BY <1>3, <1>5, <1>6 DEF WorkInv

LEMMA ForeignAddPart ==
  ASSUME WorkInv, NEW e \in ForeignEntries, ForeignAdd(e)
  PROVE  WorkInv'
  <1>1. UNCHANGED <<obj, cache, seen, queued, timer, pc, local, cluster, calm, mine>>
    BY DEF ForeignAdd, kubeVars, loopVars
  <1>2. acls' = acls \cup {e} /\ e \in Entries BY ACLAssumption DEF ForeignAdd
  <1>3. LoopTypeOK' /\ LoopInv'
    BY <1>1 DEF WorkInv, TypeOK, LoopTypeOK, KubeTypeOK, LoopInv, CopiesCurrent,
      PcMatchesCopy, CopyBounds, SettledKnown, SettledSpread, Settled, NoLostWakeup,
      Present, Live, Deleting
  <1>4. TypeOK' BY <1>1, <1>2, <1>3 DEF WorkInv, TypeOK
  <1>5. StepKnowledge' BY <1>1, <1>2 DEF WorkInv, StepKnowledge, entry
  <1> QED BY <1>3, <1>4, <1>5 DEF WorkInv

LEMMA WorkStep ==
  ASSUME WorkInv, Next
  PROVE  WorkInv'
  <1>1. CASE Reconcile
    BY <1>1, LoopPart, CreateACLPart, DeleteACLPart DEF Reconcile
  <1>2. CASE Restart BY <1>2, RestartPart
  <1>3. CASE Others BY <1>3, EnvironmentPart, ForeignAddPart DEF Others
  <1> QED BY <1>1, <1>2, <1>3 DEF Next

\* The list only shrinks by the call of a deleted resource.
LEMMA OnlyDeletedRevoke ==
  ASSUME WorkInv, Next
  PROVE  acls \subseteq acls' \/ (DeleteACL /\ Deleting(local) /\ ~(Live(obj) /\ Settled(obj)))
  <1>1. DeleteACL => Deleting(local) /\ ~Live(local) /\ pc # "idle"
    BY DEF DeleteACL, WorkInv, LoopInv, PcMatchesCopy, Live, Deleting
  <1>2. DeleteACL => Deleting(local) /\ ~(Live(obj) /\ Settled(obj))
    BY <1>1 DEF WorkInv, LoopInv, SettledKnown, SettledSpread
  <1>3. ~DeleteACL => acls \subseteq acls'
    BY DEF Next, Reconcile, CreateACL, Restart, Others, ForeignAdd, brokerVars
  <1> QED BY <1>2, <1>3

\* A status becomes Ready for its generation only when the entry is in force.
LEMMA ReadyStep ==
  ASSUME WorkInv, Next, Live(obj'), Settled(obj')
  PROVE  \/ Live(obj) /\ Settled(obj) /\ obj'.spec = obj.spec
         \/ Granted(obj'.spec) \in acls /\ acls' = acls
  <1>1. CASE (LoopStep \/ Environment \/ Crash) /\ UNCHANGED brokerVars
    <2>1. \/ Live(obj) /\ Settled(obj) /\ obj'.spec = obj.spec
          \/ pc = "report" /\ obj'.spec = local.spec
      BY <1>1, SettledBefore DEF WorkInv, TypeOK
    <2>2. pc = "report" => Granted(local.spec) \in acls
      BY SpecType DEF WorkInv, StepKnowledge
    <2> QED BY <1>1, <2>1, <2>2 DEF brokerVars
  <1>2. CASE ~((LoopStep \/ Environment \/ Crash) /\ UNCHANGED brokerVars)
    <2>1. obj' = obj
      BY <1>2, QuietSteps DEF Next, Reconcile, Connect, CreateACL, DeleteACL, Answered,
         Restart, Others, ForeignAdd, kubeVars
    <2> QED BY <2>1
  <1> QED BY <1>1, <1>2

LEMMA ACLStep ==
  ASSUME ACLInv, Next
  PROVE  ACLInv'
  <1>1. WorkInv' BY WorkStep DEF ACLInv
  <1>2. ReadyMeansInForce'
    <2> SUFFICES ASSUME Live(obj'), Settled(obj')
                 PROVE  Granted(obj'.spec) \in acls'
      BY DEF ReadyMeansInForce, Live, Settled, Granted
    <2> QED BY ReadyStep, OnlyDeletedRevoke DEF ACLInv, ReadyMeansInForce
  <1> QED BY <1>1, <1>2 DEF ACLInv

LEMMA InitInv == Init => ACLInv
  <1> SUFFICES ASSUME Init PROVE ACLInv
    OBVIOUS
  <1>1. LoopTypeOK /\ LoopInv BY LoopInitInv DEF Init
  <1>2. pc = "idle" /\ obj = Absent /\ acls = {} /\ mine = {}
    BY DEF Init, LoopInit, KubeInit
  <1>3. ~Live(Absent) BY DEF Live, Absent
  <1> QED BY <1>1, <1>2, <1>3
      DEF ACLInv, WorkInv, TypeOK, LoopPcs, StepKnowledge, ReadyMeansInForce

LEMMA StutterInv ==
  ASSUME ACLInv, UNCHANGED vars
  PROVE  ACLInv'
  BY DEF vars, brokerVars, kubeVars, loopVars, ACLInv, WorkInv, TypeOK, LoopTypeOK, KubeTypeOK,
    LoopInv, CopiesCurrent, PcMatchesCopy, CopyBounds, SettledKnown, SettledSpread, Settled,
    NoLostWakeup, Present, Live, Deleting, StepKnowledge, ReadyMeansInForce, entry, Granted

LEMMA ACLInvariant == Spec => []ACLInv
  <1>1. ACLInv /\ [Next]_vars => ACLInv' BY ACLStep, StutterInv
  <1> QED BY InitInv, <1>1, PTL DEF Spec

(***************************************************************************)
(* The theorems that need no more than the invariant.                      *)
(***************************************************************************)
\* An ACL that reports Ready for its generation is in force as its spec says.
THEOREM ReadyACLsInForce == Spec => []ReadyMeansInForce
  <1>1. ACLInv => ReadyMeansInForce BY DEF ACLInv
  <1> QED BY <1>1, ACLInvariant, PTL

\* Every variable keeps to its type.
THEOREM TypeCorrect == Spec => []TypeOK
  <1>1. ACLInv => TypeOK BY DEF ACLInv, WorkInv
  <1> QED BY <1>1, ACLInvariant, PTL

\* A resource the operator still has to do with is never forgotten.
THEOREM NoACLForgotten == Spec => []NoLostWakeup
  <1>1. ACLInv => NoLostWakeup BY DEF ACLInv, WorkInv, LoopInv
  <1> QED BY <1>1, ACLInvariant, PTL

\* Nothing is taken off the list while the resource is live and finalized:
\* every copy of an earlier, deleted life is then out of the way.
THEOREM LiveNotRevoked == Spec => NotRevokedUnderLive
  <1> DEFINE Kept == Live(obj) /\ obj.fin => acls \subseteq acls'
  <1>1. ACLInv /\ Next => Kept
    <2> SUFFICES ASSUME ACLInv, Next, Live(obj), obj.fin
                 PROVE  acls \subseteq acls'
      OBVIOUS
    <2>1. ~DeleteACL
      BY DEF DeleteACL, ACLInv, WorkInv, LoopInv, PcMatchesCopy, CopyBounds
    <2>2. UNCHANGED acls \/ CreateACL \/ \E e \in ForeignEntries : ForeignAdd(e)
      BY <2>1 DEF Next, Reconcile, Restart, Others, brokerVars
    <2> QED BY <2>2 DEF CreateACL, ForeignAdd, brokerVars
  <1>2. ACLInv /\ [Next]_vars => [Kept]_vars BY <1>1
  <1>3. Spec => [][Kept]_vars BY <1>2, ACLInvariant, PTL DEF Spec
  <1> QED BY <1>3 DEF NotRevokedUnderLive

(***************************************************************************)
(* No orphans, as long as no edit changes the entry.                       *)
(***************************************************************************)
KeepsEntry == \A e \in Edits : Entry(e[1]) = Entry(e[2])

\* A live copy with the finalizer stands for the same entry as the object.
EntryAgrees(r) == Live(r) /\ r.fin => Entry(r.spec) = Entry(obj.spec)

CopiesAgree == EntryAgrees(cache) /\ EntryAgrees(local)

OrphanInv == NoOrphan /\ CopiesAgree

\* The steps on the broker change no object and no copy but the held one.
LEMMA BrokerStepCopies ==
  ASSUME Connect("create") \/ CreateACL \/ DeleteACL
  PROVE  obj' = obj /\ cache' = cache /\ local' \in {local, Absent}
  <1>1. \A next : Goto(next) => obj' = obj /\ cache' = cache /\ local' = local
    BY DEF Goto, kubeVars
  <1>2. GiveUp => obj' = obj /\ cache' = cache /\ local' = Absent BY DEF GiveUp, Return
  <1>3. Abort => obj' = obj /\ cache' = cache /\ local' \in {local, Absent}
    BY <1>1, <1>2 DEF Abort
  <1> QED BY <1>1, <1>2, <1>3 DEF Connect, CreateACL, DeleteACL, Answered

\* The steps of Next by what they change.
LEMMA StepKinds ==
  ASSUME Next
  PROVE  \/ (LoopStep \/ Environment \/ Crash) /\ UNCHANGED brokerVars
         \/ (Connect("create") /\ UNCHANGED brokerVars) \/ CreateACL \/ DeleteACL
         \/ \E e \in ForeignEntries : ForeignAdd(e)
  BY DEF Next, Reconcile, Restart, Others

LEMMA AgreeStep ==
  ASSUME KeepsEntry, WorkInv, CopiesAgree, Next
  PROVE  CopiesAgree'
  <1>0. ~Live(Absent) BY DEF Absent, Live
  <1>1. \A r : Entry(r)' = Entry(r)
    BY DEF Entry, buildACL, toACLConfig
  <1>2. CASE LoopStep \/ Environment \/ Crash
    <2>1. ObjSame \/ ObjMade \/ ObjEdited \/ ObjReleased \/ ObjGone
      BY <1>2, ObjSteps DEF WorkInv, TypeOK
    <2>2. CopiesFrom BY <1>2, CopySteps
    <2>3. ASSUME NEW r \in {cache, local}, Live(r), r.fin
          PROVE  Entry(r.spec) = Entry(obj'.spec)
      <3>1. Present(obj) /\ obj.fin /\ Entry(r.spec) = Entry(obj.spec)
        BY <2>3 DEF CopiesAgree, EntryAgrees, WorkInv, LoopInv, CopyBounds
      <3>2. ~ObjReleased BY <2>3 DEF ObjReleased, Live, Deleting
      <3>3. CASE ObjSame BY <3>1, <3>3 DEF ObjSame
      <3>4. CASE ObjEdited BY <3>1, <3>4 DEF ObjEdited, KeepsEntry
      <3> QED BY <2>1, <3>1, <3>2, <3>3, <3>4 DEF ObjMade, ObjGone
    <2>4. EntryAgrees(cache)' BY <1>1, <2>2, <2>3 DEF CopiesFrom, EntryAgrees, Live
    <2>5. EntryAgrees(local)' BY <1>0, <1>1, <2>2, <2>3 DEF CopiesFrom, EntryAgrees, Live
    <2> QED BY <2>4, <2>5 DEF CopiesAgree
  <1>3. CASE Connect("create") \/ CreateACL \/ DeleteACL
    BY <1>0, <1>3, BrokerStepCopies DEF CopiesAgree, EntryAgrees, Live
  <1>4. ASSUME NEW e \in ForeignEntries, ForeignAdd(e) PROVE CopiesAgree'
    BY <1>4 DEF ForeignAdd, kubeVars, loopVars, CopiesAgree, EntryAgrees, Live
  <1> QED BY <1>2, <1>3, <1>4, StepKinds

\* An entry of the operator that this resource is about stays so or goes, and a
\* new one is this resource's.
LEMMA NamedStep ==
  ASSUME KeepsEntry, WorkInv, CopiesAgree, Next, NEW e \in mine'
  PROVE  Names(obj', e) \/ (e \in mine /\ ~Names(obj, e))
  <1> SUFFICES ASSUME e \in mine => Names(obj, e)
               PROVE  Names(obj', e)
    OBVIOUS
  <1> USE DEF Names
  <1>1. CASE (LoopStep \/ Environment \/ Crash) /\ UNCHANGED brokerVars
    <2>1. e \in mine /\ Names(obj, e) BY <1>1 DEF brokerVars
    <2>2. ObjSame \/ ObjMade \/ ObjEdited \/ ObjReleased \/ ObjGone
      BY <1>1, ObjSteps DEF WorkInv, TypeOK
    <2>3. ~ObjReleased BY <2>1 DEF ObjReleased, WorkInv, StepKnowledge, entry
    <2>4. CASE ObjSame BY <2>1, <2>4 DEF ObjSame
    <2>5. CASE ObjEdited BY <2>1, <2>5 DEF ObjEdited, KeepsEntry
    <2> QED BY <2>1, <2>2, <2>3, <2>4, <2>5 DEF ObjMade, ObjGone
  <1>2. CASE (Connect("create") /\ UNCHANGED brokerVars) \/ CreateACL \/ DeleteACL
    <2>1. obj' = obj BY <1>2, BrokerStepCopies
    <2>2. e \in mine \/ (CreateACL /\ e = entry)
      BY <1>2 DEF CreateACL, DeleteACL, brokerVars
    <2>3. CreateACL => Names(obj, entry)
      BY DEF CreateACL, WorkInv, LoopInv, PcMatchesCopy, CopyBounds, CopiesAgree,
             EntryAgrees, entry
    <2> QED BY <2>1, <2>2, <2>3
  <1>3. ASSUME NEW f \in ForeignEntries, ForeignAdd(f) PROVE Names(obj', e)
    BY <1>3 DEF ForeignAdd, kubeVars
  <1> QED BY <1>1, <1>2, <1>3, StepKinds

LEMMA OrphanStep ==
  ASSUME KeepsEntry, ACLInv, OrphanInv, Next
  PROVE  OrphanInv'
  <1>1. CopiesAgree' BY AgreeStep DEF ACLInv, OrphanInv
  <1>2. \A e \in mine' : Names(obj', e)
    BY NamedStep DEF ACLInv, OrphanInv, NoOrphan, Names
  <1>3. NoOrphan' BY <1>2 DEF NoOrphan, Names, Present
  <1> QED BY <1>1, <1>3 DEF OrphanInv

LEMMA OrphanInit == Init => OrphanInv
  <1>1. ~Live(Absent) BY DEF Absent, Live
  <1> QED BY <1>1 DEF Init, LoopInit, KubeInit, OrphanInv, NoOrphan, CopiesAgree, EntryAgrees

LEMMA OrphanInvariant ==
  ASSUME KeepsEntry PROVE Spec => []OrphanInv
  <1>1. ACLInv /\ OrphanInv /\ [Next]_vars => OrphanInv'
    <2>1. CASE Next BY <2>1, OrphanStep
    <2>2. CASE UNCHANGED vars
      BY <2>2 DEF vars, brokerVars, kubeVars, loopVars, OrphanInv, NoOrphan, CopiesAgree,
         EntryAgrees, Present, Live
    <2> QED BY <2>1, <2>2
  <1> QED BY <1>1, OrphanInit, ACLInvariant, PTL DEF Spec

\* An entry the operator added has its resource, finalizer on, as long as no
\* edit changes the entry.
THEOREM NoGrantOrphaned ==
  ASSUME KeepsEntry PROVE Spec => []NoOrphan
  <1>1. OrphanInv => NoOrphan BY DEF OrphanInv
  <1> QED BY <1>1, OrphanInvariant, PTL

(***************************************************************************)
(* With edits that change the entry.                                       *)
(***************************************************************************)
\* An entry the operator added is left without its resource only while there is
\* a resource that is held, by an edit of the entry or by work begun before that
\* edit, and never by a release: whoever deletes an ACL takes away what it then
\* grants or denies.
OrphanedByEditOnly ==
    [][\A e \in mine' : ~Names(obj', e)
            => \/ e \in mine /\ ~Names(obj, e)
               \/ Stage(obj) # "free" /\ Stage(obj') # "free"]_vars

THEOREM ReleaseOrphansNothing == Spec => OrphanedByEditOnly
  <1> DEFINE Kept == \A e \in mine' : ~Names(obj', e)
                       => \/ e \in mine /\ ~Names(obj, e)
                          \/ Stage(obj) # "free" /\ Stage(obj') # "free"
  <1>1. ACLInv /\ Next => Kept
    <2> SUFFICES ASSUME ACLInv, Next, NEW e \in mine', ~Names(obj', e),
                        e \in mine => Names(obj, e)
                 PROVE  Stage(obj) # "free" /\ Stage(obj') # "free"
      OBVIOUS
    <2>1. CASE CreateACL
      <3>1. Present(obj) /\ obj.fin
        BY <2>1 DEF CreateACL, ACLInv, WorkInv, LoopInv, PcMatchesCopy, CopyBounds
      <3> QED BY <2>1, <3>1, BrokerStepCopies DEF Stage, Live
    <2>2. CASE ~CreateACL
      <3>1. e \in mine BY <2>2, StepKinds DEF DeleteACL, ForeignAdd, brokerVars
      <3>2. Present(obj) /\ obj.fin /\ Entry(obj.spec) = e /\ Stage(obj) # "free"
        BY <3>1 DEF Names, Stage
      <3>3. obj' # obj BY <3>2 DEF Names
      <3>4. LoopStep \/ Environment \/ Crash
        BY <3>3, StepKinds, BrokerStepCopies DEF ForeignAdd, kubeVars
      <3>5. ~(pc = "unfinalize" /\ local = obj)
        BY <3>1, <3>2 DEF ACLInv, WorkInv, StepKnowledge, entry
      <3> QED BY <3>2, <3>4, <3>5, LetGo DEF ACLInv, WorkInv, TypeOK
    <2> QED BY <2>1, <2>2
  <1>2. ACLInv /\ [Next]_vars => [Kept]_vars BY <1>1
  <1>3. Spec => [][Kept]_vars BY <1>2, ACLInvariant, PTL DEF Spec
  <1> QED BY <1>3 DEF OrphanedByEditOnly

(***************************************************************************)
(* The refinement of ManagedResource, if no edit changes the entry.        *)
(***************************************************************************)
RefineInv == ACLInv /\ OrphanInv

\* Two specs are about the same entry when they grant the same.
LEMMA ThingFacts ==
  ASSUME NEW s \in Specs
  PROVE  [x \in Specs |-> Entry(x)][s] = Entry(s) /\ Entry(s) = Granted(s)
  BY EntryFacts

LEMMA InitRefines == Init => Managed!Init
  <1> SUFFICES ASSUME Init PROVE Managed!Init
    OBVIOUS
  <1>1. obj = Absent /\ mine = {} BY DEF Init, LoopInit, KubeInit
  <1>2. Stage(Absent) = "free" /\ ~Live(Absent) BY DEF Stage, Present, Live, Absent
  <1>3. Absent.spec \in Specs BY AbsentType DEF Resources
  <1> QED BY <1>1, <1>2, <1>3 DEF Managed!Init

\* A step of the loop is the promised one that its write amounts to.
LEMMA MoveRefines ==
  ASSUME KeepsEntry, RefineInv, LoopMove, LoopTypeOK', UNCHANGED brokerVars
  PROVE  Managed!Next \/ UNCHANGED Managed!vars
  <1> DEFINE ready == Live(obj) /\ Settled(obj)
  <1>1. acls' = acls /\ mine' = mine BY DEF brokerVars
  <1>2. obj.spec \in Specs /\ obj'.spec \in Specs
    BY DEF RefineInv, ACLInv, WorkInv, TypeOK, LoopTypeOK, KubeTypeOK, Resources
  <1>3. (Served(obj) <=> ready) /\ (Served(obj') <=> ready')
    BY DEF Served, Live, Settled
  <1>4. /\ Stage(obj)' = Stage(obj')
        /\ {s \in Specs : Granted(s) \in acls}' = {s \in Specs : Granted(s) \in acls}
    BY <1>1 DEF Stage, Present, Live, Granted
  <1> USE <1>1, <1>2, <1>3, <1>4
  <1>5. CASE MoveNone BY <1>5 DEF MoveNone, StageAndSpec, Managed!vars
  <1>6. CASE MoveUnheld BY <1>6 DEF MoveUnheld, Managed!Unheld, Managed!Next
  <1>7. CASE MoveHold BY <1>7 DEF MoveHold, StageAndSpec, Managed!Hold, Managed!Next
  <1>8. CASE MoveEdit
    <2>1. Entry(obj'.spec) = Entry(obj.spec) BY <1>8 DEF MoveEdit, KeepsEntry
    <2> QED BY <1>8, <2>1, ThingFacts DEF MoveEdit, Managed!Edit, Managed!Next
  <1>9. CASE MoveDelete
    BY <1>9 DEF MoveDelete, StageAndSpec, Managed!Delete, Managed!Next
  <1>10. CASE MoveReport
    <2>1. Granted(obj.spec) \in acls
      BY <1>10, SpecType DEF MoveReport, RefineInv, ACLInv, WorkInv, StepKnowledge
    <2> QED BY <1>10, <2>1 DEF MoveReport, StageAndSpec, Managed!Report, Managed!Next
  <1>11. CASE MoveRelease
    <2>1. mine = {}
      BY <1>11 DEF MoveRelease, RefineInv, ACLInv, WorkInv, StepKnowledge, OrphanInv,
         NoOrphan, entry
    <2> QED BY <1>11, <2>1 DEF MoveRelease, Managed!Release, Managed!Next
  <1> QED BY <1>5, <1>6, <1>7, <1>8, <1>9, <1>10, <1>11 DEF LoopMove

\* A step on the broker works on the entry of the resource, or cleans up.
LEMMA BrokerRefines ==
  ASSUME RefineInv, ACLInv',
         (Connect("create") /\ UNCHANGED brokerVars) \/ CreateACL \/ DeleteACL
  PROVE  Managed!Next \/ UNCHANGED Managed!vars
  <1> DEFINE met == {s \in Specs : Granted(s) \in acls}
             ready == Live(obj) /\ Settled(obj)
  <1>1. obj' = obj BY BrokerStepCopies
  <1>2. Stage(obj)' = Stage(obj) /\ ready' = ready
    BY <1>1 DEF Stage, Present, Live, Settled
  <1>3. met' = {s \in Specs : Granted(s) \in acls'} BY DEF Granted
  <1>4. obj.spec \in Specs /\ entry = Entry(local.spec)
    BY SpecType DEF RefineInv, ACLInv, WorkInv, entry
  <1>5. CASE UNCHANGED brokerVars
    BY <1>1, <1>2, <1>3, <1>5 DEF Managed!vars, brokerVars
  <1>6. CASE CreateACL /\ ~UNCHANGED brokerVars
    <2>1. acls' = acls \cup {entry} /\ mine' = mine \cup ({entry} \ acls)
      BY <1>6 DEF CreateACL
    <2>2. Live(local) /\ local.fin
      BY <1>6 DEF CreateACL, RefineInv, ACLInv, WorkInv, LoopInv, PcMatchesCopy
    <2>3. Present(obj) /\ obj.fin /\ Entry(obj.spec) = entry
      BY <1>4, <2>2 DEF RefineInv, ACLInv, WorkInv, LoopInv, CopyBounds, OrphanInv,
         CopiesAgree, EntryAgrees
    <2>4. Stage(obj) # "free" BY <2>3 DEF Stage
    <2>5. ready => obj.spec \in met'
      BY <1>3, <1>4, <2>1 DEF RefineInv, ACLInv, ReadyMeansInForce
    <2>6. \A w \in Specs : Entry(w) # Entry(obj.spec) => (w \in met' <=> w \in met)
      BY <1>3, <2>1, <2>3, ThingFacts
    <2> QED
      BY <1>1, <1>2, <1>4, <2>1, <2>3, <2>4, <2>5, <2>6, ThingFacts
      DEF Managed!Work, Managed!Next
  <1>7. CASE DeleteACL /\ ~UNCHANGED brokerVars
    <2>1. acls' = acls \ {entry} /\ mine' = mine \ {entry} BY <1>7 DEF DeleteACL
    <2>2. Deleting(local)
      BY <1>7 DEF DeleteACL, RefineInv, ACLInv, WorkInv, LoopInv, PcMatchesCopy
    <2>3. Stage(obj) # "held"
      BY <2>2 DEF RefineInv, ACLInv, WorkInv, LoopInv, CopyBounds, Stage
    <2> QED BY <1>1, <1>2, <1>3, <2>1, <2>3 DEF Managed!Clean, Managed!Next
  <1> QED BY <1>5, <1>6, <1>7

LEMMA StepRefines ==
  ASSUME KeepsEntry, RefineInv, RefineInv', Next
  PROVE  Managed!Next \/ UNCHANGED Managed!vars
  <1>1. LoopTypeOK' BY DEF RefineInv, ACLInv, WorkInv, TypeOK
  <1>2. CASE (LoopStep \/ Environment \/ Crash) /\ UNCHANGED brokerVars
    <2>1. LoopMove BY <1>2, LoopMoves DEF RefineInv, ACLInv, WorkInv, TypeOK
    <2> QED BY <1>1, <1>2, <2>1, MoveRefines
  <1>3. CASE (Connect("create") /\ UNCHANGED brokerVars) \/ CreateACL \/ DeleteACL
    BY <1>3, BrokerRefines DEF RefineInv
  <1>4. ASSUME NEW e \in ForeignEntries, ForeignAdd(e)
        PROVE  Managed!OthersAdd
    <2> DEFINE ready == Live(obj) /\ Settled(obj)
    <2>1. obj' = obj /\ mine' = mine /\ acls \subseteq acls'
      BY <1>4 DEF ForeignAdd, kubeVars
    <2>2. Stage(obj)' = Stage(obj) /\ ready' = ready
      BY <2>1 DEF Stage, Present, Live, Settled
    <2>3. {s \in Specs : Granted(s) \in acls}' = {s \in Specs : Granted(s) \in acls'}
      BY DEF Granted
    <2> QED BY <2>1, <2>2, <2>3 DEF Managed!OthersAdd
  <1> QED BY <1>2, <1>3, <1>4, StepKinds DEF Managed!Next

\* The ACL controller implements ManagedResource, for all specs, edits that keep
\* the entry, entries of others and bounds.
THEOREM ACLsManaged ==
  ASSUME KeepsEntry PROVE Spec => ImplementsManaged
  <1>1. Spec => []OrphanInv BY OrphanInvariant
  <1>2. RefineInv /\ RefineInv' /\ [Next]_vars => [Managed!Next]_Managed!vars
    <2>1. CASE Next BY <2>1, StepRefines
    <2>2. CASE UNCHANGED vars
      BY <2>2 DEF vars, brokerVars, kubeVars, Managed!vars, Stage, Present, Live, Settled,
         Granted
    <2> QED BY <2>1, <2>2
  <1>3. Spec => []RefineInv BY <1>1, ACLInvariant, PTL DEF RefineInv
  <1> QED BY <1>2, <1>3, InitRefines, PTL DEF Spec, ImplementsManaged, Managed!Spec

(***************************************************************************)
(* What the two ACLs of TwoACLs need to know of each other's steps.        *)
(***************************************************************************)
\* Between its own steps, a reconciler knows nothing of the list when idle, and
\* keeps what it knows when nobody else writes to the list.
LEMMA WaitingStep ==
  ASSUME WorkInv, CopiesAgree, UNCHANGED <<kubeVars, pc, local>>,
         pc = "idle" \/ UNCHANGED brokerVars,
         acls' \subseteq Entries, mine' \subseteq Entries,
         cluster' \in ClusterStates, calm' \in BOOLEAN
  PROVE  WorkInv' /\ CopiesAgree'
  <1>1. UNCHANGED <<obj, cache, seen, queued, timer, pc, local>> BY DEF kubeVars
  <1>2. LoopTypeOK' /\ LoopInv'
    BY <1>1 DEF WorkInv, TypeOK, LoopTypeOK, KubeTypeOK, LoopInv, CopiesCurrent,
      PcMatchesCopy, CopyBounds, SettledKnown, SettledSpread, Settled, NoLostWakeup,
      Present, Live, Deleting
  <1>3. TypeOK' BY <1>1, <1>2 DEF WorkInv, TypeOK
  <1>4. StepKnowledge' BY <1>1 DEF WorkInv, StepKnowledge, entry, brokerVars
  <1>5. CopiesAgree' BY <1>1 DEF CopiesAgree, EntryAgrees, Live
  <1> QED BY <1>2, <1>3, <1>4, <1>5 DEF WorkInv

\* A call of Reconcile makes a copy of a deleted object only of one it has.
LEMMA CallDeletes ==
  ASSUME WorkInv, Reconcile, NEW r \in {obj', cache', local'}, Deleting(r)
  PROVE  \E q \in {obj, cache, local} : Deleting(q)
  <1>0. ~Deleting(Absent) BY DEF Absent, Deleting
  <1>1. CASE LoopStep
    <2>1. Deleting(obj') => Deleting(obj) BY <1>1, LoopDeletes DEF WorkInv, TypeOK
    <2> QED BY <1>0, <1>1, <2>1, CopySteps DEF CopiesFrom
  <1>2. CASE Connect("create") \/ CreateACL \/ DeleteACL
    BY <1>0, <1>2, BrokerStepCopies
  <1> QED BY <1>1, <1>2 DEF Reconcile
=============================================================================

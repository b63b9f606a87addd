----------------------------- MODULE TwoACLsProofs ----------------------------
(***************************************************************************)
(* Two ACLs of one entry, for every two sets of specs: what ACLProofs says *)
(* of one ACL's steps, used once for each of the two.                      *)
(***************************************************************************)
EXTENDS TwoACLs, TLAPS

PA == INSTANCE ACLProofs WITH
    Specs <- SpecsA, Edits <- {}, MaxGen <- 1, ForeignEntries <- {},
    obj <- objA, cache <- cacheA, seen <- seenA, queued <- queuedA, timer <- timerA,
    pc <- pcA, local <- localA

PB == INSTANCE ACLProofs WITH
    Specs <- SpecsB, Edits <- {}, MaxGen <- 1, ForeignEntries <- {},
    obj <- objB, cache <- cacheB, seen <- seenB, queued <- queuedB, timer <- timerB,
    pc <- pcB, local <- localB

(***************************************************************************)
(* A!X and PA!X are one definition, instantiated twice.                    *)
(***************************************************************************)
\* What ACLProofs assumes of the constants.
LEMMA AssumptionsA ==
    /\ SpecsA # {} /\ {} \subseteq SpecsA \X SpecsA
    /\ 1 \in Nat \ {0}
    /\ SpecsA \subseteq PA!ACLSpecs /\ {} \subseteq PA!Entries
  BY TwinAssumption
  DEF
     ACLSpecs, PA!ACLSpecs, ResourceTypes, PA!ResourceTypes, PatternTypes,
     PA!PatternTypes, Operations, PA!Operations, Permissions, PA!Permissions

LEMMA SameConversionA ==
    \A s : /\ Entry(s) = A!Entry(s) /\ Entry(s) = PA!Entry(s)
           /\ Granted(s) = PA!Granted(s)
  BY DEF
     Entry, A!Entry, PA!Entry, buildACL, A!buildACL, PA!buildACL, toACLConfig,
     A!toACLConfig, PA!toACLConfig, HostOrAny, A!HostOrAny, PA!HostOrAny, KadmResource,
     A!KadmResource, PA!KadmResource, KadmOperation, A!KadmOperation, PA!KadmOperation,
     ResourceTypeCode, A!ResourceTypeCode, PA!ResourceTypeCode, PatternCode,
     A!PatternCode, PA!PatternCode, PermissionCode, A!PermissionCode, PA!PermissionCode,
     OperationCode, A!OperationCode, PA!OperationCode, Granted, A!Granted, PA!Granted

LEMMA SameCallsA == A!Reconcile <=> PA!Reconcile
  BY SameConversionA
  DEF
     A!Reconcile, PA!Reconcile, A!LoopStep, PA!LoopStep, A!IgnoreGone, PA!IgnoreGone,
     A!SkipSettled, PA!SkipSettled, A!BeginFinalize, PA!BeginFinalize, A!BeginReconcile,
     PA!BeginReconcile, A!BeginDelete, PA!BeginDelete, A!Begin, PA!Begin, A!Leave,
     PA!Leave, A!Dequeue, PA!Dequeue, A!AddFinalizer, PA!AddFinalizer, A!ReportFailure,
     PA!ReportFailure, A!ReportReady, PA!ReportReady, A!RemoveFinalizer,
     PA!RemoveFinalizer, A!Accepted, PA!Accepted, A!WriteFails, PA!WriteFails,
     A!LookUpCluster, PA!LookUpCluster, A!Connect, PA!Connect, A!Goto, PA!Goto, A!Return,
     PA!Return, A!GiveUp, PA!GiveUp, A!Abort, PA!Abort, A!CreateACL, PA!CreateACL,
     A!DeleteACL, PA!DeleteACL, A!Answered, PA!Answered, A!entry, PA!entry, A!Absent,
     PA!Absent, A!Present, PA!Present, A!Live, PA!Live, A!Deleting, PA!Deleting,
     A!Settled, PA!Settled, A!kubeVars, PA!kubeVars, A!loopVars, PA!loopVars,
     A!brokerVars, PA!brokerVars

LEMMA SameSurroundingsA ==
    /\ A!Init <=> PA!Init
    /\ A!Restart <=> PA!Restart
    /\ \A s : A!UserCreate(s) <=> PA!UserCreate(s)
    /\ A!UserDelete <=> PA!UserDelete
    /\ A!OthersRelease <=> PA!OthersRelease
    /\ A!Deliver <=> PA!Deliver
    /\ A!TimerFires <=> PA!TimerFires
    /\ A!Recover <=> PA!Recover
    /\ \A r : (A!Live(r) <=> PA!Live(r)) /\ (A!Settled(r) <=> PA!Settled(r))
    /\ \A r : A!Stage(r) = PA!Stage(r)
  BY DEF
     A!Init, PA!Init, A!LoopInit, PA!LoopInit, A!KubeInit, PA!KubeInit, A!ClusterStates,
     PA!ClusterStates, A!Restart, PA!Restart, A!Crash, PA!Crash, A!Relist, PA!Relist,
     A!UserCreate, PA!UserCreate, A!Fresh, PA!Fresh, A!UserDelete, PA!UserDelete,
     A!OthersRelease, PA!OthersRelease, A!UserWrite, PA!UserWrite, A!Deliver, PA!Deliver,
     A!TimerFires, PA!TimerFires, A!Recover, PA!Recover, A!Absent, PA!Absent, A!Present,
     PA!Present, A!Live, PA!Live, A!Deleting, PA!Deleting, A!Settled, PA!Settled, A!Stage,
     PA!Stage, A!kubeVars, PA!kubeVars, A!loopVars, PA!loopVars, A!brokerVars,
     PA!brokerVars

\* What ACLProofs assumes of the constants.
LEMMA AssumptionsB ==
    /\ SpecsB # {} /\ {} \subseteq SpecsB \X SpecsB
    /\ 1 \in Nat \ {0}
    /\ SpecsB \subseteq PB!ACLSpecs /\ {} \subseteq PB!Entries
  BY TwinAssumption
  DEF
     ACLSpecs, PB!ACLSpecs, ResourceTypes, PB!ResourceTypes, PatternTypes,
     PB!PatternTypes, Operations, PB!Operations, Permissions, PB!Permissions

LEMMA SameConversionB ==
    \A s : /\ Entry(s) = B!Entry(s) /\ Entry(s) = PB!Entry(s)
           /\ Granted(s) = PB!Granted(s)
  BY DEF
     Entry, B!Entry, PB!Entry, buildACL, B!buildACL, PB!buildACL, toACLConfig,
     B!toACLConfig, PB!toACLConfig, HostOrAny, B!HostOrAny, PB!HostOrAny, KadmResource,
     B!KadmResource, PB!KadmResource, KadmOperation, B!KadmOperation, PB!KadmOperation,
     ResourceTypeCode, B!ResourceTypeCode, PB!ResourceTypeCode, PatternCode,
     B!PatternCode, PB!PatternCode, PermissionCode, B!PermissionCode, PB!PermissionCode,
     OperationCode, B!OperationCode, PB!OperationCode, Granted, B!Granted, PB!Granted

LEMMA SameCallsB == B!Reconcile <=> PB!Reconcile
  BY SameConversionB
  DEF
     B!Reconcile, PB!Reconcile, B!LoopStep, PB!LoopStep, B!IgnoreGone, PB!IgnoreGone,
     B!SkipSettled, PB!SkipSettled, B!BeginFinalize, PB!BeginFinalize, B!BeginReconcile,
     PB!BeginReconcile, B!BeginDelete, PB!BeginDelete, B!Begin, PB!Begin, B!Leave,
     PB!Leave, B!Dequeue, PB!Dequeue, B!AddFinalizer, PB!AddFinalizer, B!ReportFailure,
     PB!ReportFailure, B!ReportReady, PB!ReportReady, B!RemoveFinalizer,
     PB!RemoveFinalizer, B!Accepted, PB!Accepted, B!WriteFails, PB!WriteFails,
     B!LookUpCluster, PB!LookUpCluster, B!Connect, PB!Connect, B!Goto, PB!Goto, B!Return,
     PB!Return, B!GiveUp, PB!GiveUp, B!Abort, PB!Abort, B!CreateACL, PB!CreateACL,
     B!DeleteACL, PB!DeleteACL, B!Answered, PB!Answered, B!entry, PB!entry, B!Absent,
     PB!Absent, B!Present, PB!Present, B!Live, PB!Live, B!Deleting, PB!Deleting,
     B!Settled, PB!Settled, B!kubeVars, PB!kubeVars, B!loopVars, PB!loopVars,
     B!brokerVars, PB!brokerVars

LEMMA SameSurroundingsB ==
    /\ B!Init <=> PB!Init
    /\ B!Restart <=> PB!Restart
    /\ \A s : B!UserCreate(s) <=> PB!UserCreate(s)
    /\ B!UserDelete <=> PB!UserDelete
    /\ B!OthersRelease <=> PB!OthersRelease
    /\ B!Deliver <=> PB!Deliver
    /\ B!TimerFires <=> PB!TimerFires
    /\ B!Recover <=> PB!Recover
    /\ \A r : (B!Live(r) <=> PB!Live(r)) /\ (B!Settled(r) <=> PB!Settled(r))
    /\ \A r : B!Stage(r) = PB!Stage(r)
  BY DEF
     B!Init, PB!Init, B!LoopInit, PB!LoopInit, B!KubeInit, PB!KubeInit, B!ClusterStates,
     PB!ClusterStates, B!Restart, PB!Restart, B!Crash, PB!Crash, B!Relist, PB!Relist,
     B!UserCreate, PB!UserCreate, B!Fresh, PB!Fresh, B!UserDelete, PB!UserDelete,
     B!OthersRelease, PB!OthersRelease, B!UserWrite, PB!UserWrite, B!Deliver, PB!Deliver,
     B!TimerFires, PB!TimerFires, B!Recover, PB!Recover, B!Absent, PB!Absent, B!Present,
     PB!Present, B!Live, PB!Live, B!Deleting, PB!Deleting, B!Settled, PB!Settled, B!Stage,
     PB!Stage, B!kubeVars, PB!kubeVars, B!loopVars, PB!loopVars, B!brokerVars,
     PB!brokerVars

\* What ACLProofs says of a step of A.
LEMMA StepA ==
  ASSUME PA!WorkInv, PA!CopiesAgree, PA!Next
  PROVE  /\ PA!WorkInv' /\ PA!CopiesAgree'
         /\ \A e \in mine' : PA!Names(objA', e) \/ (e \in mine /\ ~PA!Names(objA, e))
         /\ \/ acls \subseteq acls'
            \/ PA!Deleting(localA) /\ ~(PA!Live(objA) /\ PA!Settled(objA))
         /\ PA!Live(objA') /\ PA!Settled(objA') =>
              \/ PA!Live(objA) /\ PA!Settled(objA) /\ objA'.spec = objA.spec
              \/ PA!Granted(objA'.spec) \in acls /\ acls' = acls
  <1> USE AssumptionsA, ConversionAssumption
  <1>0. PA!KeepsEntry BY DEF PA!KeepsEntry
  <1>1. PA!WorkInv' BY PA!WorkStep DEF PA!WorkStep
  <1>2. PA!CopiesAgree' BY <1>0, PA!AgreeStep DEF PA!AgreeStep
  <1>3. \A e \in mine' : PA!Names(objA', e) \/ (e \in mine /\ ~PA!Names(objA, e))
    BY <1>0, PA!NamedStep DEF PA!NamedStep
  <1>4. \/ acls \subseteq acls'
        \/ PA!Deleting(localA) /\ ~(PA!Live(objA) /\ PA!Settled(objA))
    BY PA!OnlyDeletedRevoke DEF PA!OnlyDeletedRevoke
  <1>5. PA!Live(objA') /\ PA!Settled(objA') =>
          \/ PA!Live(objA) /\ PA!Settled(objA) /\ objA'.spec = objA.spec
          \/ PA!Granted(objA'.spec) \in acls /\ acls' = acls
    BY PA!ReadyStep DEF PA!ReadyStep
  <1> QED BY <1>1, <1>2, <1>3, <1>4, <1>5

\* What ACLProofs says of a step of B.
LEMMA StepB ==
  ASSUME PB!WorkInv, PB!CopiesAgree, PB!Next
  PROVE  /\ PB!WorkInv' /\ PB!CopiesAgree'
         /\ \A e \in mine' : PB!Names(objB', e) \/ (e \in mine /\ ~PB!Names(objB, e))
         /\ \/ acls \subseteq acls'
            \/ PB!Deleting(localB) /\ ~(PB!Live(objB) /\ PB!Settled(objB))
         /\ PB!Live(objB') /\ PB!Settled(objB') =>
              \/ PB!Live(objB) /\ PB!Settled(objB) /\ objB'.spec = objB.spec
              \/ PB!Granted(objB'.spec) \in acls /\ acls' = acls
  <1> USE AssumptionsB, ConversionAssumption
  <1>0. PB!KeepsEntry BY DEF PB!KeepsEntry
  <1>1. PB!WorkInv' BY PB!WorkStep DEF PB!WorkStep
  <1>2. PB!CopiesAgree' BY <1>0, PB!AgreeStep DEF PB!AgreeStep
  <1>3. \A e \in mine' : PB!Names(objB', e) \/ (e \in mine /\ ~PB!Names(objB, e))
    BY <1>0, PB!NamedStep DEF PB!NamedStep
  <1>4. \/ acls \subseteq acls'
        \/ PB!Deleting(localB) /\ ~(PB!Live(objB) /\ PB!Settled(objB))
    BY PB!OnlyDeletedRevoke DEF PB!OnlyDeletedRevoke
  <1>5. PB!Live(objB') /\ PB!Settled(objB') =>
          \/ PB!Live(objB) /\ PB!Settled(objB) /\ objB'.spec = objB.spec
          \/ PB!Granted(objB'.spec) \in acls /\ acls' = acls
    BY PB!ReadyStep DEF PB!ReadyStep
  <1> QED BY <1>1, <1>2, <1>3, <1>4, <1>5

(***************************************************************************)
(* The inductive invariant.                                                *)
(***************************************************************************)
\* A copy of a deleted resource is only about when it was deleted.
DeletionsKnown ==
    /\ \A r \in {objA, cacheA, localA} : PA!Deleting(r) => deletedA
    /\ \A r \in {objB, cacheB, localB} : PB!Deleting(r) => deletedB

\* Each reconciler's own invariant, without what it says of the Ready status:
\* that, and who names an entry, depends on the other.
TwinInv ==
    /\ PA!WorkInv /\ PA!CopiesAgree
    /\ PB!WorkInv /\ PB!CopiesAgree
    /\ pcA = "idle" \/ pcB = "idle"
    /\ DeletionsKnown
    /\ EntryNamed /\ ReadyKept

(***************************************************************************)
(* The two properties, in the words of ACLProofs.                          *)
(***************************************************************************)
NamedA(r, e) == PA!Names(r, e)
NamedB(r, e) == PB!Names(r, e)

InForceA ==
    PA!Live(objA) /\ PA!Settled(objA) /\ ~deletedB => PA!Granted(objA.spec) \in acls
InForceB ==
    PB!Live(objB) /\ PB!Settled(objB) /\ ~deletedA => PB!Granted(objB.spec) \in acls

LEMMA NamedBy ==
    /\ EntryNamed <=> \A e \in mine : NamedA(objA, e) \/ NamedB(objB, e)
    /\ EntryNamed' <=> \A e \in mine' : NamedA(objA', e) \/ NamedB(objB', e)
  <1>1. ASSUME NEW r, NEW e
        PROVE  /\ NamedA(r, e) <=> A!Stage(r) # "free" /\ A!Entry(r.spec) = e
               /\ NamedB(r, e) <=> B!Stage(r) # "free" /\ B!Entry(r.spec) = e
    BY SameConversionA, SameConversionB
    DEF NamedA, NamedB, PA!Names, PB!Names, A!Stage, B!Stage, PA!Present, PB!Present,
        A!Present, B!Present, A!Live, B!Live
  <1>2. EntryNamed <=> \A e \in mine : NamedA(objA, e) \/ NamedB(objB, e)
    BY <1>1 DEF EntryNamed, HeldA, HeldB
  <1>3. EntryNamed' <=> \A e \in mine' : NamedA(objA', e) \/ NamedB(objB', e)
    BY <1>1 DEF EntryNamed, HeldA, HeldB
  <1> QED BY <1>2, <1>3

LEMMA ReadyBy ==
    /\ ReadyKept <=> InForceA /\ InForceB
    /\ ReadyKept' <=> InForceA' /\ InForceB'
  BY SameConversionA, SameConversionB, SameSurroundingsA, SameSurroundingsB
  DEF ReadyKept, InForceA, InForceB

LEMMA SameTypes ==
    PA!Entries = PB!Entries /\ PA!ClusterStates = PB!ClusterStates
  BY DEF PA!Entries, PB!Entries, PA!ClusterStates, PB!ClusterStates, PA!ResourceTypes,
         PB!ResourceTypes, PA!PatternTypes, PB!PatternTypes, PA!Operations, PB!Operations,
         PA!Permissions, PB!Permissions

(***************************************************************************)
(* Every step preserves it.                                                *)
(***************************************************************************)
\* A step of A that leaves B's own state alone keeps all but the deletions.
LEMMA AMoves ==
  ASSUME TwinInv, PA!Next, UNCHANGED <<bVars, deletedB>>,
         pcB = "idle" \/ UNCHANGED <<pcA, brokerVars>>,
         deletedA => deletedA'
  PROVE  DeletionsKnown' => TwinInv'
  <1>1. PA!WorkInv /\ PA!CopiesAgree /\ PB!WorkInv /\ PB!CopiesAgree BY DEF TwinInv
  <1>2. PA!WorkInv' /\ PA!CopiesAgree' BY <1>1, StepA
  <1>3. UNCHANGED <<objB, cacheB, seenB, queuedB, timerB, pcB, localB>>
    BY DEF bVars
  <1>4. PB!WorkInv' /\ PB!CopiesAgree'
    <2>1. /\ acls' \subseteq PB!Entries /\ mine' \subseteq PB!Entries
          /\ cluster' \in PB!ClusterStates /\ calm' \in BOOLEAN
      BY <1>2, SameTypes DEF PA!WorkInv, PA!TypeOK, PA!LoopTypeOK
    <2>2. UNCHANGED <<PB!kubeVars, pcB, localB>> BY <1>3 DEF PB!kubeVars
    <2>3. pcB = "idle" \/ UNCHANGED PB!brokerVars
      BY DEF brokerVars, PB!brokerVars
    <2> QED BY <1>1, <2>1, <2>2, <2>3, PB!WaitingStep, AssumptionsB, ConversionAssumption
            DEF PB!WaitingStep
  <1>5. (pcA = "idle" \/ pcB = "idle")'
    BY <1>3 DEF TwinInv
  <1>6. EntryNamed'
    <2> SUFFICES ASSUME NEW e \in mine'
                 PROVE  NamedA(objA', e) \/ NamedB(objB', e)
      BY NamedBy
    <2>1. NamedA(objA', e) \/ (e \in mine /\ ~NamedA(objA, e))
      BY <1>1, StepA DEF NamedA, NamedB
    <2>2. e \in mine => NamedA(objA, e) \/ NamedB(objB, e) BY NamedBy DEF TwinInv
    <2> QED BY <1>3, <2>1, <2>2
  <1>7. ReadyKept'
    <2>1. InForceA /\ InForceB BY ReadyBy DEF TwinInv
    <2>2. \/ acls \subseteq acls'
          \/ deletedA /\ ~(PA!Live(objA) /\ PA!Settled(objA))
      BY <1>1, StepA DEF TwinInv, DeletionsKnown
    <2>3. InForceA'
      BY <1>1, <2>1, <2>2, StepA DEF InForceA, PA!Live, PA!Settled, PA!Granted
    <2>4. InForceB'
      BY <1>3, <2>1, <2>2 DEF InForceB, PB!Live, PB!Settled, PB!Granted
    <2> QED BY <2>3, <2>4, ReadyBy
  <1> QED BY <1>2, <1>4, <1>5, <1>6, <1>7 DEF TwinInv

\* A step of B that leaves A's own state alone keeps all but the deletions.
LEMMA BMoves ==
  ASSUME TwinInv, PB!Next, UNCHANGED <<aVars, deletedA>>,
         pcA = "idle" \/ UNCHANGED <<pcB, brokerVars>>,
         deletedB => deletedB'
  PROVE  DeletionsKnown' => TwinInv'
  <1>1. PB!WorkInv /\ PB!CopiesAgree /\ PA!WorkInv /\ PA!CopiesAgree BY DEF TwinInv
  <1>2. PB!WorkInv' /\ PB!CopiesAgree' BY <1>1, StepB
  <1>3. UNCHANGED <<objA, cacheA, seenA, queuedA, timerA, pcA, localA>>
    BY DEF aVars
  <1>4. PA!WorkInv' /\ PA!CopiesAgree'
    <2>1. /\ acls' \subseteq PA!Entries /\ mine' \subseteq PA!Entries
          /\ cluster' \in PA!ClusterStates /\ calm' \in BOOLEAN
      BY <1>2, SameTypes DEF PB!WorkInv, PB!TypeOK, PB!LoopTypeOK
    <2>2. UNCHANGED <<PA!kubeVars, pcA, localA>> BY <1>3 DEF PA!kubeVars
    <2>3. pcA = "idle" \/ UNCHANGED PA!brokerVars
      BY DEF brokerVars, PA!brokerVars
    <2> QED BY <1>1, <2>1, <2>2, <2>3, PA!WaitingStep, AssumptionsA, ConversionAssumption
            DEF PA!WaitingStep
  <1>5. (pcA = "idle" \/ pcB = "idle")'
    BY <1>3 DEF TwinInv
  <1>6. EntryNamed'
    <2> SUFFICES ASSUME NEW e \in mine'
                 PROVE  NamedB(objB', e) \/ NamedA(objA', e)
      BY NamedBy
    <2>1. NamedB(objB', e) \/ (e \in mine /\ ~NamedB(objB, e))
      BY <1>1, StepB DEF NamedA, NamedB
    <2>2. e \in mine => NamedA(objA, e) \/ NamedB(objB, e) BY NamedBy DEF TwinInv
    <2> QED BY <1>3, <2>1, <2>2
  <1>7. ReadyKept'
    <2>1. InForceA /\ InForceB BY ReadyBy DEF TwinInv
    <2>2. \/ acls \subseteq acls'
          \/ deletedB /\ ~(PB!Live(objB) /\ PB!Settled(objB))
      BY <1>1, StepB DEF TwinInv, DeletionsKnown
    <2>3. InForceB'
      BY <1>1, <2>1, <2>2, StepB DEF InForceB, PB!Live, PB!Settled, PB!Granted
    <2>4. InForceA'
      BY <1>3, <2>1, <2>2 DEF InForceA, PA!Live, PA!Settled, PA!Granted
    <2> QED BY <2>3, <2>4, ReadyBy
  <1> QED BY <1>2, <1>4, <1>5, <1>6, <1>7 DEF TwinInv

LEMMA ReconcileAPart ==
  ASSUME TwinInv, ReconcileA
  PROVE  TwinInv'
  <1>1. PA!Reconcile /\ pcB = "idle" /\ UNCHANGED <<bVars, deletedA, deletedB>>
    BY SameCallsA DEF ReconcileA
  <1>2. PA!Next BY <1>1 DEF PA!Next
  <1>3. PA!WorkInv BY DEF TwinInv
  <1>4. \A r \in {objA', cacheA', localA'} : PA!Deleting(r) =>
          \E q \in {objA, cacheA, localA} : PA!Deleting(q)
    BY <1>1, <1>3, PA!CallDeletes, AssumptionsA, ConversionAssumption DEF PA!CallDeletes
  <1>5. DeletionsKnown' BY <1>1, <1>4 DEF TwinInv, DeletionsKnown, PA!Deleting, PB!Deleting,
          bVars
  <1> QED BY <1>1, <1>2, <1>5, AMoves

LEMMA UsersAPart ==
  ASSUME TwinInv, UsersA
  PROVE  TwinInv'
  <1>1. /\ (\E s \in SpecsA : PA!UserCreate(s)) \/ PA!UserDelete \/ PA!OthersRelease
        /\ deletedA' = (deletedA \/ ~PA!Live(objA'))
        /\ UNCHANGED <<pcA, localA, cluster, calm, bVars, brokerVars, deletedB>>
    BY SameSurroundingsA DEF UsersA
  <1>2. PA!Next
    BY <1>1 DEF PA!Next, PA!Others, PA!Environment, PA!Users, PA!loopVars, PA!brokerVars,
       brokerVars
  <1>3. cacheA' = cacheA
    BY <1>1 DEF PA!UserCreate, PA!UserDelete, PA!OthersRelease, PA!UserWrite
  <1>4. PA!Deleting(objA') => deletedA' BY <1>1 DEF PA!Live, PA!Deleting
  <1>5. DeletionsKnown'
    BY <1>1, <1>3, <1>4 DEF TwinInv, DeletionsKnown, PA!Deleting, PB!Deleting, bVars
  <1> QED BY <1>1, <1>2, <1>5, AMoves

LEMMA InformAPart ==
  ASSUME TwinInv, InformA
  PROVE  TwinInv'
  <1>1. /\ PA!Deliver \/ PA!TimerFires
        /\ UNCHANGED <<pcA, localA, cluster, calm, bVars, brokerVars, deletedA, deletedB>>
    BY SameSurroundingsA DEF InformA
  <1>2. PA!Next
    BY <1>1 DEF PA!Next, PA!Others, PA!Environment, PA!loopVars, PA!brokerVars, brokerVars
  <1>3. objA' = objA /\ cacheA' \in {cacheA, objA}
    BY <1>1 DEF PA!Deliver, PA!TimerFires
  <1>4. DeletionsKnown'
    BY <1>1, <1>3 DEF TwinInv, DeletionsKnown, PA!Deleting, PB!Deleting, bVars
  <1> QED BY <1>1, <1>2, <1>4, AMoves

LEMMA ReconcileBPart ==
  ASSUME TwinInv, ReconcileB
  PROVE  TwinInv'
  <1>1. PB!Reconcile /\ pcA = "idle" /\ UNCHANGED <<aVars, deletedA, deletedB>>
    BY SameCallsB DEF ReconcileB
  <1>2. PB!Next BY <1>1 DEF PB!Next
  <1>3. PB!WorkInv BY DEF TwinInv
  <1>4. \A r \in {objB', cacheB', localB'} : PB!Deleting(r) =>
          \E q \in {objB, cacheB, localB} : PB!Deleting(q)
    BY <1>1, <1>3, PB!CallDeletes, AssumptionsB, ConversionAssumption DEF PB!CallDeletes
  <1>5. DeletionsKnown' BY <1>1, <1>4 DEF TwinInv, DeletionsKnown, PA!Deleting, PB!Deleting,
          aVars
  <1> QED BY <1>1, <1>2, <1>5, BMoves

LEMMA UsersBPart ==
  ASSUME TwinInv, UsersB
  PROVE  TwinInv'
  <1>1. /\ (\E s \in SpecsB : PB!UserCreate(s)) \/ PB!UserDelete \/ PB!OthersRelease
        /\ deletedB' = (deletedB \/ ~PB!Live(objB'))
        /\ UNCHANGED <<pcB, localB, cluster, calm, aVars, brokerVars, deletedA>>
    BY SameSurroundingsB DEF UsersB
  <1>2. PB!Next
    BY <1>1 DEF PB!Next, PB!Others, PB!Environment, PB!Users, PB!loopVars, PB!brokerVars,
       brokerVars
  <1>3. cacheB' = cacheB
    BY <1>1 DEF PB!UserCreate, PB!UserDelete, PB!OthersRelease, PB!UserWrite
  <1>4. PB!Deleting(objB') => deletedB' BY <1>1 DEF PB!Live, PB!Deleting
  <1>5. DeletionsKnown'
    BY <1>1, <1>3, <1>4 DEF TwinInv, DeletionsKnown, PA!Deleting, PB!Deleting, aVars
  <1> QED BY <1>1, <1>2, <1>5, BMoves

LEMMA InformBPart ==
  ASSUME TwinInv, InformB
  PROVE  TwinInv'
  <1>1. /\ PB!Deliver \/ PB!TimerFires
        /\ UNCHANGED <<pcB, localB, cluster, calm, aVars, brokerVars, deletedA, deletedB>>
    BY SameSurroundingsB DEF InformB
  <1>2. PB!Next
    BY <1>1 DEF PB!Next, PB!Others, PB!Environment, PB!loopVars, PB!brokerVars, brokerVars
  <1>3. objB' = objB /\ cacheB' \in {cacheB, objB}
    BY <1>1 DEF PB!Deliver, PB!TimerFires
  <1>4. DeletionsKnown'
    BY <1>1, <1>3 DEF TwinInv, DeletionsKnown, PA!Deleting, PB!Deleting, aVars
  <1> QED BY <1>1, <1>2, <1>4, BMoves

LEMMA RecoverPart ==
  ASSUME TwinInv, Recover
  PROVE  TwinInv'
  <1>1. PA!Recover /\ UNCHANGED <<bVars, brokerVars, deletedA, deletedB>>
    BY SameSurroundingsA DEF Recover
  <1>2. UNCHANGED <<objA, cacheA, pcA, localA>> BY <1>1 DEF PA!Recover, PA!kubeVars
  <1>3. PA!Next BY <1>1 DEF PA!Next, PA!Others, PA!Environment, PA!brokerVars, brokerVars
  <1>4. DeletionsKnown'
    BY <1>1, <1>2 DEF TwinInv, DeletionsKnown, PA!Deleting, PB!Deleting, bVars
  <1> QED BY <1>1, <1>2, <1>3, <1>4, AMoves

\* The new process lists both resources; the broker keeps what it has.
LEMMA RestartPart ==
  ASSUME TwinInv, Restart
  PROVE  TwinInv'
  <1>1. PA!Restart /\ PB!Restart /\ UNCHANGED <<deletedA, deletedB>>
    BY SameSurroundingsA, SameSurroundingsB DEF Restart
  <1>2. PA!Next /\ PB!Next BY <1>1 DEF PA!Next, PB!Next
  <1>3. /\ UNCHANGED <<objA, objB, brokerVars>> /\ pcA' = "idle"
        /\ cacheA' = objA /\ cacheB' = objB
        /\ localA' = PA!Absent /\ localB' = PB!Absent
    BY <1>1 DEF PA!Restart, PB!Restart, PA!Crash, PB!Crash, PA!Relist, PB!Relist,
       PA!brokerVars, brokerVars
  <1>4. PA!WorkInv' /\ PA!CopiesAgree' BY <1>2, StepA DEF TwinInv
  <1>5. PB!WorkInv' /\ PB!CopiesAgree' BY <1>2, StepB DEF TwinInv
  <1>6. DeletionsKnown'
    BY <1>1, <1>3 DEF TwinInv, DeletionsKnown, PA!Deleting, PB!Deleting, PA!Absent, PB!Absent
  <1>7. EntryNamed' BY <1>3, NamedBy DEF TwinInv, brokerVars
  <1>8. ReadyKept'
    BY <1>1, <1>3, ReadyBy DEF TwinInv, InForceA, InForceB, PA!Live, PA!Settled, PA!Granted,
       PB!Live, PB!Settled, PB!Granted, brokerVars
  <1> QED BY <1>3, <1>4, <1>5, <1>6, <1>7, <1>8 DEF TwinInv

LEMMA TwinInit == Init => TwinInv
  <1> SUFFICES ASSUME Init PROVE TwinInv
    OBVIOUS
  <1>1. PA!Init /\ PB!Init
    BY SameSurroundingsA, SameSurroundingsB DEF Init
  <1>2. PA!WorkInv
    BY <1>1, PA!InitInv, AssumptionsA, ConversionAssumption DEF PA!InitInv, PA!ACLInv
  <1>3. PB!WorkInv
    BY <1>1, PB!InitInv, AssumptionsB, ConversionAssumption DEF PB!InitInv, PB!ACLInv
  <1>4. PA!CopiesAgree
    BY <1>1, PA!OrphanInit, AssumptionsA, ConversionAssumption DEF PA!OrphanInit, PA!OrphanInv
  <1>5. PB!CopiesAgree
    BY <1>1, PB!OrphanInit, AssumptionsB, ConversionAssumption DEF PB!OrphanInit, PB!OrphanInv
  <1>6. /\ objA = PA!Absent /\ cacheA = PA!Absent /\ localA = PA!Absent
        /\ objB = PB!Absent /\ cacheB = PB!Absent /\ localB = PB!Absent
        /\ pcA = "idle" /\ mine = {}
    BY <1>1 DEF PA!Init, PA!LoopInit, PA!KubeInit, PB!Init, PB!LoopInit, PB!KubeInit
  <1>7. DeletionsKnown
    BY <1>6 DEF DeletionsKnown, PA!Deleting, PB!Deleting, PA!Absent, PB!Absent
  <1>8. EntryNamed BY <1>6 DEF EntryNamed
  <1>9. ReadyKept
    BY <1>6, ReadyBy DEF InForceA, InForceB, PA!Live, PB!Live, PA!Absent, PB!Absent
  <1> QED BY <1>2, <1>3, <1>4, <1>5, <1>6, <1>7, <1>8, <1>9 DEF TwinInv

LEMMA TwinStutter ==
  ASSUME TwinInv, UNCHANGED vars
  PROVE  TwinInv'
  <1>1. /\ UNCHANGED <<objA, cacheA, seenA, queuedA, timerA, pcA, localA>>
        /\ UNCHANGED <<objB, cacheB, seenB, queuedB, timerB, pcB, localB>>
        /\ UNCHANGED <<cluster, calm, acls, mine, deletedA, deletedB>>
    BY DEF vars, aVars, bVars, brokerVars
  <1>2. PA!WorkInv' /\ PA!CopiesAgree'
    <2>1. PA!TypeOK BY DEF TwinInv, PA!WorkInv
    <2> QED BY <1>1, <2>1, PA!WaitingStep, AssumptionsA, ConversionAssumption
            DEF PA!WaitingStep, TwinInv, PA!kubeVars, PA!brokerVars, PA!TypeOK, PA!LoopTypeOK
  <1>3. PB!WorkInv' /\ PB!CopiesAgree'
    <2>1. PB!TypeOK BY DEF TwinInv, PB!WorkInv
    <2> QED BY <1>1, <2>1, PB!WaitingStep, AssumptionsB, ConversionAssumption
            DEF PB!WaitingStep, TwinInv, PB!kubeVars, PB!brokerVars, PB!TypeOK, PB!LoopTypeOK
  <1>4. DeletionsKnown'
    BY <1>1 DEF TwinInv, DeletionsKnown, PA!Deleting, PB!Deleting
  <1>5. EntryNamed' BY <1>1, NamedBy DEF TwinInv
  <1>6. ReadyKept'
    BY <1>1, ReadyBy DEF TwinInv, InForceA, InForceB, PA!Live, PA!Settled, PA!Granted,
       PB!Live, PB!Settled, PB!Granted
  <1> QED BY <1>1, <1>2, <1>3, <1>4, <1>5, <1>6 DEF TwinInv

\* The inductive invariant holds in every reachable state.
LEMMA TwinInvariant == Spec => []TwinInv
  <1>1. ASSUME TwinInv, Next PROVE TwinInv'
    BY <1>1, ReconcileAPart, ReconcileBPart, RestartPart, UsersAPart, UsersBPart, InformAPart,
       InformBPart, RecoverPart
    DEF Next
  <1>2. TwinInv /\ [Next]_vars => TwinInv' BY <1>1, TwinStutter
  <1> QED BY TwinInit, <1>2, PTL DEF Spec

(***************************************************************************)
(* The theorems.                                                           *)
(***************************************************************************)
\* Whichever of the two ACLs adds or removes their entry first, an entry the
\* operator added is named by one that still has its finalizer.
THEOREM EntriesNamed == Spec => []EntryNamed
  <1>1. TwinInv => EntryNamed BY DEF TwinInv
  <1> QED BY <1>1, TwinInvariant, PTL

\* A Ready ACL is in force, unless the other was deleted: what fails or is
\* retried for the one never takes the grant from the other.
THEOREM ReadyStaysKept == Spec => []ReadyKept
  <1>1. TwinInv => ReadyKept BY DEF TwinInv
  <1> QED BY <1>1, TwinInvariant, PTL

=============================================================================

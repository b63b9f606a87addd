----------------------------- MODULE LoopProofs -----------------------------
(***************************************************************************)
(* The loop's invariant, for every set of specs and every bound: each step *)
(* of the loop and of its environment preserves it, and so does a step of  *)
(* a particular reconciler that is made of Goto, GiveUp and Abort.         *)
(***************************************************************************)
EXTENDS ReconcileLoop, TLAPS

LEMMA AbsentType == Absent \in Resources /\ ~Present(Absent)
  BY SpecsAssumption, MaxGenAssumption DEF Absent, Resources, Phases, Conditions, Present

LEMMA FreshType ==
  ASSUME NEW s \in Specs
  PROVE  /\ Fresh(s) \in Resources
         /\ Live(Fresh(s)) /\ ~Fresh(s).fin
         /\ Fresh(s).gen = 1 /\ Fresh(s).obs = 0 /\ Fresh(s).spec = s
  <1>1. Absent.fin = FALSE /\ Absent.obs = 0 BY DEF Absent
  <1>2. 1 \in 0..MaxGen /\ "live" \in Phases BY MaxGenAssumption DEF Phases
  <1> QED BY <1>1, <1>2, AbsentType DEF Fresh, Resources, Live

\* The loop starts with nothing to remember.
LEMMA LoopInitInv == LoopInit => LoopTypeOK /\ LoopInv
  <1> SUFFICES ASSUME LoopInit PROVE LoopTypeOK /\ LoopInv
    OBVIOUS
  <1> USE DEF LoopInit, KubeInit
  <1>1. LoopTypeOK
    BY AbsentType DEF LoopTypeOK, KubeTypeOK
  <1>2. /\ Absent.phase = "absent" /\ Absent.gen = 0 /\ Absent.obs = 0
        /\ Absent.fin = FALSE
    BY DEF Absent
  <1>3. LoopInv
    BY <1>2 DEF LoopInv, CopiesCurrent, PcMatchesCopy, CopyBounds, SettledKnown,
                NoLostWakeup, Present, Live, Deleting
  <1> QED BY <1>1, <1>3

\* Moving on to a step that fits the copy.
LEMMA GotoInv ==
  ASSUME LoopTypeOK, LoopInv, NEW next, Goto(next),
         pc # "idle", next \notin {"idle", "finalize", "cluster", "connect"},
         IF next \in {"delete", "unfinalize"} THEN Deleting(local) /\ local.fin
                                              ELSE Live(local) /\ local.fin
  PROVE  LoopTypeOK' /\ LoopInv'
  BY DEF Goto, kubeVars, LoopTypeOK, KubeTypeOK, LoopInv, CopiesCurrent, PcMatchesCopy,
      CopyBounds, SettledKnown, SettledSpread, Settled, NoLostWakeup, Present, Live, Deleting

\* Returning with an error or Requeue, without a write.
LEMMA GiveUpInv ==
  ASSUME LoopTypeOK, LoopInv, GiveUp
  PROVE  LoopTypeOK' /\ LoopInv'
  BY AbsentType
  DEF GiveUp, Return, LoopTypeOK, KubeTypeOK, LoopInv, CopiesCurrent, PcMatchesCopy,
      CopyBounds, SettledKnown, SettledSpread, Settled, NoLostWakeup, Present, Live, Deleting

LEMMA AbortInv ==
  ASSUME LoopTypeOK, LoopInv, Abort, pc \notin {"idle", "finalize"}
  PROVE  LoopTypeOK' /\ LoopInv'
  <1>1. CASE Live(local)
    <2>1. Goto("fail") BY <1>1 DEF Abort
    <2>2. local.fin BY <1>1 DEF LoopInv, PcMatchesCopy, Live, Deleting
    <2> QED BY <1>1, <2>1, <2>2, GotoInv
  <1>2. CASE ~Live(local)
    BY <1>2, GiveUpInv DEF Abort
  <1> QED BY <1>1, <1>2

\* A write from the held copy: it has the stored version, and so does the
\* cache, so both are the object that is replaced.
LEMMA AcceptedFacts ==
  ASSUME LoopTypeOK, LoopInv, NEW new \in Resources, Accepted(new)
  PROVE  /\ local = obj /\ cache = obj /\ obj' = new
         /\ cache' = cache /\ queued' = queued
         /\ seen' \in SUBSET {"cache", "local"}
         /\ "local" \notin seen'
         /\ "cache" \in seen' => cache' = obj'
  BY DEF Accepted, LoopTypeOK, KubeTypeOK, LoopInv, CopiesCurrent

\* The steps of the loop that begin or end a call of Reconcile without
\* writing to the API server.
LEMMA BeginInv ==
  ASSUME LoopTypeOK, LoopInv, NEW next, Begin(next), cache.fin = (next = "cluster"),
         IF next = "finalize" THEN Live(cache) ELSE next = "cluster" /\ Present(cache)
  PROVE  LoopTypeOK' /\ LoopInv'
  BY DEF Begin, Dequeue, LoopTypeOK, KubeTypeOK, LoopInv, CopiesCurrent, PcMatchesCopy,
      CopyBounds, SettledKnown, SettledSpread, Settled, NoLostWakeup, Present, Live, Deleting

LEMMA DispatchInv ==
  ASSUME LoopTypeOK, LoopInv,
         IgnoreGone \/ SkipSettled \/ BeginFinalize \/ BeginReconcile \/ BeginDelete
  PROVE  LoopTypeOK' /\ LoopInv'
  <1> cache.fin \in BOOLEAN
    BY DEF LoopTypeOK, KubeTypeOK, Resources
  <1> USE DEF Present, Live, Deleting
  <1>1. CASE IgnoreGone
    BY <1>1 DEF IgnoreGone, Leave, Dequeue, loopVars, LoopTypeOK, KubeTypeOK, LoopInv,
      CopiesCurrent, PcMatchesCopy, CopyBounds, SettledKnown, SettledSpread, Settled,
      NoLostWakeup
  <1>2. CASE SkipSettled
    BY <1>2 DEF SkipSettled, Leave, Dequeue, loopVars, LoopTypeOK, KubeTypeOK, LoopInv,
      CopiesCurrent, PcMatchesCopy, CopyBounds, SettledKnown, SettledSpread, Settled,
      NoLostWakeup
  <1>3. CASE BeginFinalize BY <1>3, BeginInv DEF BeginFinalize
  <1>4. CASE BeginReconcile BY <1>4, BeginInv DEF BeginReconcile
  <1>5. CASE BeginDelete BY <1>5, BeginInv DEF BeginDelete
  <1> QED BY <1>1, <1>2, <1>3, <1>4, <1>5

\* The writes.
LEMMA AddFinalizerInv ==
  ASSUME LoopTypeOK, LoopInv, AddFinalizer
  PROVE  LoopTypeOK' /\ LoopInv'
  <1>1. CASE WriteFails /\ GiveUp BY <1>1, GiveUpInv
  <1>2. CASE Accepted([local EXCEPT !.fin = TRUE]) /\ Return(TRUE)
    <2> DEFINE new == [local EXCEPT !.fin = TRUE]
    <2>1. new \in Resources /\ new.fin = TRUE
          /\ new.phase = local.phase /\ new.gen = local.gen /\ new.obs = local.obs
          /\ new.cond = local.cond /\ new.spec = local.spec
      BY DEF LoopTypeOK, Resources
    <2>2. pc = "finalize" BY DEF AddFinalizer
    <2> HIDE DEF new
    <2> QED
      BY <1>2, <2>1, <2>2, AcceptedFacts, AbsentType
      DEF new, Return, LoopTypeOK, KubeTypeOK, LoopInv, CopiesCurrent, PcMatchesCopy,
        CopyBounds, SettledKnown, SettledSpread, Settled, NoLostWakeup, Present, Live,
        Deleting
  <1> QED BY <1>1, <1>2 DEF AddFinalizer

LEMMA ReportFailureInv ==
  ASSUME LoopTypeOK, LoopInv, ReportFailure
  PROVE  LoopTypeOK' /\ LoopInv'
  <1>1. CASE WriteFails /\ GiveUp BY <1>1, GiveUpInv
  <1>2. ASSUME NEW cond \in {"Failed", "Refused"},
               Accepted([local EXCEPT !.cond = cond]), Return(TRUE)
        PROVE  LoopTypeOK' /\ LoopInv'
    <2> DEFINE new == [local EXCEPT !.cond = cond]
    <2>1. new \in Resources /\ new.cond = cond
          /\ new.phase = local.phase /\ new.gen = local.gen /\ new.obs = local.obs
          /\ new.fin = local.fin /\ new.spec = local.spec
      BY DEF LoopTypeOK, Resources, Conditions
    <2>2. Live(local) /\ local.fin BY DEF ReportFailure, LoopInv, PcMatchesCopy
    <2>3. Accepted(new) BY <1>2
    <2> HIDE DEF new
    <2> QED
      BY <1>2, <2>1, <2>2, <2>3, AcceptedFacts, AbsentType
      DEF Return, LoopTypeOK, KubeTypeOK, LoopInv, CopiesCurrent, PcMatchesCopy,
        CopyBounds, SettledKnown, SettledSpread, Settled, NoLostWakeup, Present, Live,
        Deleting
  <1> QED BY <1>1, <1>2 DEF ReportFailure

LEMMA ReportReadyInv ==
  ASSUME LoopTypeOK, LoopInv, ReportReady
  PROVE  LoopTypeOK' /\ LoopInv'
  <1>1. CASE WriteFails /\ GiveUp BY <1>1, GiveUpInv
  <1>2. CASE Accepted([local EXCEPT !.obs = local.gen, !.cond = "Ready"]) /\ Return(TRUE)
    <2> DEFINE new == [local EXCEPT !.obs = local.gen, !.cond = "Ready"]
    <2>1. new \in Resources /\ new.obs = local.gen
          /\ new.phase = local.phase /\ new.gen = local.gen
          /\ new.fin = local.fin /\ new.spec = local.spec
      BY DEF LoopTypeOK, Resources, Conditions
    <2>2. Live(local) /\ local.fin BY DEF ReportReady, LoopInv, PcMatchesCopy
    <2>3. Accepted(new) BY <1>2
    <2>4. local.gen \in Int BY MaxGenAssumption DEF LoopTypeOK, Resources
    <2> HIDE DEF new
    <2>5. /\ local = obj /\ cache = obj /\ obj' = new /\ cache' = cache
          /\ "local" \notin seen' /\ ("cache" \in seen' => cache' = obj')
          /\ seen' \in SUBSET {"cache", "local"} /\ queued' = queued
      BY <2>1, <2>3, AcceptedFacts
    <2>6. pc' = "idle" /\ local' = Absent /\ timer' = TRUE /\ UNCHANGED <<cluster, calm>>
      BY <1>2 DEF Return, LoopTypeOK, KubeTypeOK
    <2>7. LoopTypeOK'
      BY <2>1, <2>5, <2>6, AbsentType DEF LoopTypeOK, KubeTypeOK
    <2>8. CopyBounds(cache)' /\ CopyBounds(local)'
      BY <2>1, <2>2, <2>5, <2>6, AbsentType DEF CopyBounds, Present, Live, Deleting
    <2>9. CopiesCurrent' /\ PcMatchesCopy' /\ NoLostWakeup'
      BY <2>5, <2>6, AbsentType DEF CopiesCurrent, PcMatchesCopy, NoLostWakeup
    <2>10. obj'.gen >= 1 /\ obj'.obs <= obj'.gen
      BY <2>1, <2>2, <2>4, <2>5 DEF LoopInv, SettledKnown, Present, Live
    <2>11. obj'.fin /\ SettledSpread(cache)' /\ pc' = "idle"
      BY <2>1, <2>2, <2>5, <2>6 DEF SettledSpread, Live
    <2>12. SettledKnown'
      BY <2>10, <2>11 DEF SettledKnown
    <2> QED BY <2>7, <2>8, <2>9, <2>12 DEF LoopInv
  <1> QED BY <1>1, <1>2 DEF ReportReady

\* The object goes, or stays without the finalizer: no live copy is left.
LEMMA RemoveFinalizerInv ==
  ASSUME LoopTypeOK, LoopInv, RemoveFinalizer
  PROVE  LoopTypeOK' /\ LoopInv'
  <1>1. CASE WriteFails /\ GiveUp BY <1>1, GiveUpInv
  <1>2. ASSUME NEW new \in {Absent, [local EXCEPT !.fin = FALSE]}, NEW again \in BOOLEAN,
               Accepted(new), Return(again)
        PROVE  LoopTypeOK' /\ LoopInv'
    <2>1. Deleting(local) /\ local.fin BY DEF RemoveFinalizer, LoopInv, PcMatchesCopy
    <2>2. /\ [local EXCEPT !.fin = FALSE] \in Resources
          /\ [local EXCEPT !.fin = FALSE].fin = FALSE
          /\ [local EXCEPT !.fin = FALSE].phase = local.phase
          /\ [local EXCEPT !.fin = FALSE].gen = local.gen
          /\ [local EXCEPT !.fin = FALSE].obs = local.obs
      BY DEF LoopTypeOK, Resources
    <2>3. Absent.phase = "absent" /\ Absent.gen = 0 /\ Absent.obs = 0 BY DEF Absent
    <2>4. /\ new \in Resources
          /\ new.phase = "absent" \/ (new.phase = "deleting" /\ new.fin = FALSE)
          /\ (new.gen = 0 /\ new.obs = 0) \/ (new.gen = local.gen /\ new.obs = local.obs)
      BY <2>1, <2>2, <2>3, AbsentType DEF Deleting
    <2>5. new.phase = "deleting" => new.gen = local.gen
      BY <2>1, <2>2, <2>3
    <2> QED
      BY <1>2, <2>1, <2>3, <2>4, <2>5, AcceptedFacts, AbsentType
      DEF Return, LoopTypeOK, KubeTypeOK, LoopInv, CopiesCurrent, PcMatchesCopy,
        CopyBounds, SettledKnown, SettledSpread, Settled, NoLostWakeup, Present, Live,
        Deleting
  <1> QED BY <1>1, <1>2 DEF RemoveFinalizer

LEMMA LookUpClusterInv ==
  ASSUME LoopTypeOK, LoopInv, LookUpCluster
  PROVE  LoopTypeOK' /\ LoopInv'
  <1>1. CASE cluster = "notReady" /\ GiveUp BY <1>1, GiveUpInv
  <1>2. CASE cluster = "absent" /\ Abort BY <1>2, AbortInv DEF LookUpCluster
  <1>3. CASE cluster = "ready" /\ Goto("connect")
    BY <1>3 DEF LookUpCluster, Goto, kubeVars, LoopTypeOK, KubeTypeOK, LoopInv,
      CopiesCurrent, PcMatchesCopy, CopyBounds, SettledKnown, SettledSpread, Settled,
      NoLostWakeup, Present, Live, Deleting
  <1> QED BY <1>1, <1>2, <1>3 DEF LookUpCluster

\* Where the connection leads is the reconciler's own.
LEMMA ConnectInv ==
  ASSUME LoopTypeOK, LoopInv, NEW first, Connect(first),
         first \notin {"idle", "finalize", "cluster", "connect", "delete", "unfinalize"}
  PROVE  LoopTypeOK' /\ LoopInv'
  <1>0. pc = "connect" BY DEF Connect
  <1>1. local.fin BY <1>0 DEF LoopInv, PcMatchesCopy
  <1>2. CASE Live(local) /\ Goto(first) BY <1>0, <1>1, <1>2, GotoInv
  <1>3. CASE Deleting(local) /\ Goto("delete") BY <1>0, <1>1, <1>3, GotoInv
  <1>4. CASE Abort BY <1>0, <1>4, AbortInv
  <1> QED BY <1>2, <1>3, <1>4 DEF Connect

\* Every step of the loop keeps the loop's invariant.
LEMMA LoopStepInv ==
  ASSUME LoopTypeOK, LoopInv, LoopStep
  PROVE  LoopTypeOK' /\ LoopInv'
  BY DispatchInv, AddFinalizerInv, LookUpClusterInv, ReportFailureInv, ReportReadyInv,
     RemoveFinalizerInv
  DEF LoopStep

\* A user's write leaves no copy current, keeps the finalizer of an object
\* that has it and gives it to none that has not, and unsettles the status.
LEMMA UserWriteInv ==
  ASSUME LoopTypeOK, LoopInv, NEW new \in Resources, UserWrite(new), UNCHANGED loopVars,
         Present(new) => new.gen >= 1, new.obs <= new.gen,
         ~(Live(new) /\ Settled(new)),
         Present(obj) /\ obj.fin => Present(new) /\ new.fin,
         Live(new) /\ new.fin => Live(obj) /\ obj.fin
  PROVE  LoopTypeOK' /\ LoopInv'
  <1>1. /\ obj' = new /\ seen' = {} /\ UNCHANGED <<cache, queued, timer>>
        /\ UNCHANGED <<pc, local, cluster, calm>>
    BY DEF UserWrite, loopVars
  <1>2. LoopTypeOK' BY <1>1 DEF LoopTypeOK, KubeTypeOK
  <1>3. CopiesCurrent' /\ NoLostWakeup' BY <1>1 DEF CopiesCurrent, NoLostWakeup
  <1>4. PcMatchesCopy' BY <1>1 DEF LoopInv, PcMatchesCopy
  <1>5. CopyBounds(cache)' /\ CopyBounds(local)' BY <1>1 DEF LoopInv, CopyBounds
  <1>6. SettledKnown' BY <1>1 DEF SettledKnown
  <1> QED BY <1>2, <1>3, <1>4, <1>5, <1>6 DEF LoopInv

LEMMA UsersInv ==
  ASSUME LoopTypeOK, LoopInv, Users, UNCHANGED loopVars
  PROVE  LoopTypeOK' /\ LoopInv'
  <1>0. /\ obj \in Resources /\ obj.gen \in Nat /\ obj.obs \in Nat /\ obj.obs <= obj.gen
        /\ MaxGen \in Nat
    BY MaxGenAssumption DEF LoopTypeOK, KubeTypeOK, Resources, LoopInv, SettledKnown
  <1>1. /\ Absent \in Resources /\ ~Present(Absent) /\ ~Live(Absent)
        /\ Absent.obs <= Absent.gen
    BY AbsentType DEF Absent, Present, Live
  <1>2. ASSUME NEW s \in Specs, UserCreate(s) PROVE LoopTypeOK' /\ LoopInv'
    <2>1. ~Present(obj) /\ UserWrite(Fresh(s)) BY <1>2 DEF UserCreate
    <2>2. /\ Fresh(s) \in Resources /\ ~Fresh(s).fin
          /\ Fresh(s).gen >= 1 /\ Fresh(s).obs <= Fresh(s).gen /\ ~Settled(Fresh(s))
      BY FreshType DEF Settled
    <2> QED BY <2>1, <2>2, UserWriteInv
  <1>3. ASSUME NEW s \in Specs, UserEdit(s) PROVE LoopTypeOK' /\ LoopInv'
    <2> DEFINE new == [obj EXCEPT !.gen = @ + 1, !.spec = s]
    <2>1. Present(obj) /\ obj.gen < MaxGen /\ UserWrite(new) BY <1>3 DEF UserEdit
    <2>2. obj.gen + 1 \in 0..MaxGen BY <1>0, <2>1
    <2>3. /\ new \in Resources /\ new.gen = obj.gen + 1 /\ new.obs = obj.obs
          /\ new.fin = obj.fin /\ new.phase = obj.phase
      BY <1>0, <2>2 DEF Resources
    <2> HIDE DEF new
    <2>4. new.gen >= 1 /\ new.obs <= new.gen /\ ~Settled(new)
      BY <1>0, <2>3 DEF Settled
    <2>5. (Present(new) <=> Present(obj)) /\ (Live(new) <=> Live(obj))
      BY <2>3 DEF Present, Live
    <2> QED BY <2>1, <2>3, <2>4, <2>5, UserWriteInv
  <1>4. CASE UserDelete
    <2>1. CASE ~obj.fin /\ UserWrite(Absent) BY <1>1, <2>1, UserWriteInv
    <2>2. CASE UserWrite([obj EXCEPT !.phase = "deleting"])
      <3> DEFINE new == [obj EXCEPT !.phase = "deleting"]
      <3>1. /\ new \in Resources /\ new.phase = "deleting" /\ new.gen = obj.gen
            /\ new.obs = obj.obs /\ new.fin = obj.fin
        BY <1>0 DEF Resources, Phases
      <3>2. Present(obj) /\ UserWrite(new) BY <1>4, <2>2 DEF UserDelete, Live, Present
      <3> HIDE DEF new
      <3>3. new.gen >= 1 /\ new.obs <= new.gen /\ ~Live(new) /\ Present(new)
        BY <1>0, <3>1, <3>2 DEF LoopInv, SettledKnown, Live, Present
      <3> QED BY <3>1, <3>2, <3>3, UserWriteInv
    <2> QED BY <1>4, <2>1, <2>2 DEF UserDelete
  <1>5. CASE OthersRelease BY <1>1, <1>5, UserWriteInv DEF OthersRelease
  <1> QED BY <1>2, <1>3, <1>4, <1>5 DEF Users

\* Every step of the environment keeps the loop's invariant.
LEMMA EnvironmentInv ==
  ASSUME LoopTypeOK, LoopInv, Environment
  PROVE  LoopTypeOK' /\ LoopInv'
  <1>1. CASE Users /\ UNCHANGED loopVars BY <1>1, UsersInv
  <1>2. CASE Deliver /\ UNCHANGED loopVars
    BY <1>2 DEF Deliver, loopVars, LoopTypeOK, KubeTypeOK, LoopInv, CopiesCurrent,
      PcMatchesCopy, CopyBounds, SettledKnown, SettledSpread, Settled, NoLostWakeup,
      Present, Live, Deleting
  <1>3. CASE TimerFires /\ UNCHANGED loopVars
    BY <1>3 DEF TimerFires, loopVars, LoopTypeOK, KubeTypeOK, LoopInv, CopiesCurrent,
      PcMatchesCopy, CopyBounds, SettledKnown, SettledSpread, Settled, NoLostWakeup
  <1>4. CASE ClusterChanges
    BY <1>4 DEF ClusterChanges, kubeVars, LoopTypeOK, KubeTypeOK, LoopInv, CopiesCurrent,
      PcMatchesCopy, CopyBounds, SettledKnown, SettledSpread, Settled, NoLostWakeup
  <1>5. CASE Recover
    BY <1>5 DEF Recover, kubeVars, LoopTypeOK, KubeTypeOK, LoopInv, CopiesCurrent,
      PcMatchesCopy, CopyBounds, SettledKnown, SettledSpread, Settled, NoLostWakeup,
      ClusterStates
  <1> QED BY <1>1, <1>2, <1>3, <1>4, <1>5 DEF Environment

\* A crash loses the held copy and the timers, and the new process lists.
LEMMA CrashInv ==
  ASSUME LoopTypeOK, LoopInv, Crash
  PROVE  LoopTypeOK' /\ LoopInv'
  BY AbsentType
  DEF Crash, Relist, LoopTypeOK, KubeTypeOK, LoopInv, CopiesCurrent, PcMatchesCopy,
      CopyBounds, SettledKnown, SettledSpread, Settled, NoLostWakeup, Present, Live, Deleting

(***************************************************************************)
(* What a reconciler's own invariants need to know of these steps.         *)
(***************************************************************************)
\* Without a write a step keeps the object, and where it leads.
LEMMA QuietSteps ==
  /\ \A next : Goto(next) => obj' = obj /\ pc' = next /\ local' = local
  /\ GiveUp => obj' = obj /\ pc' = "idle"
  /\ Abort => obj' = obj /\ pc' \in {"idle", "fail"}
  BY DEF Goto, GiveUp, Abort, Return, kubeVars

\* The loop's own steps lead to places where nothing is known of the broker.
LEMMA LoopStepPc ==
  ASSUME LoopStep
  PROVE  pc' \in {"idle", "finalize", "cluster", "connect", "fail"}
  BY QuietSteps
  DEF LoopStep, IgnoreGone, SkipSettled, BeginFinalize, BeginReconcile, BeginDelete,
      Begin, Leave, Dequeue, loopVars, AddFinalizer, LookUpCluster, ReportFailure,
      ReportReady, RemoveFinalizer, Return

\* A settled status was settled before, for the same spec, or the step is the
\* one that reports what the held copy asked for.
LEMMA SettledBefore ==
  ASSUME LoopTypeOK, LoopInv, LoopStep \/ Environment \/ Crash,
         Live(obj'), Settled(obj')
  PROVE  \/ Live(obj) /\ Settled(obj) /\ obj'.spec = obj.spec
         \/ pc = "report" /\ obj'.spec = local.spec
  <1>0. obj \in Resources /\ local \in Resources
    BY DEF LoopTypeOK, KubeTypeOK
  <1>1. CASE obj' = obj BY <1>1
  <1>2. CASE Crash BY <1>2 DEF Crash, Relist
  <1>3. CASE Environment
    <2>1. CASE Users
      <3>1. ASSUME NEW s \in Specs, UserCreate(s) PROVE FALSE
        BY <3>1, FreshType DEF UserCreate, UserWrite, Settled
      <3>2. ASSUME NEW s \in Specs, UserEdit(s) PROVE FALSE
        <4>1. obj'.gen = obj.gen + 1 /\ obj'.obs = obj.obs
          BY <1>0, <3>2 DEF UserEdit, UserWrite, Resources
        <4>2. obj.gen \in Nat /\ obj.obs \in Nat /\ obj.obs <= obj.gen
          BY <1>0, MaxGenAssumption DEF Resources, LoopInv, SettledKnown
        <4> QED BY <4>1, <4>2 DEF Settled
      <3>3. CASE UserDelete
        <4>1. UserWrite(Absent) \/ UserWrite([obj EXCEPT !.phase = "deleting"])
          BY <3>3 DEF UserDelete
        <4>2. Absent.phase = "absent" BY DEF Absent
        <4>3. [obj EXCEPT !.phase = "deleting"].phase = "deleting"
          BY <1>0 DEF Resources
        <4> QED BY <4>1, <4>2, <4>3 DEF UserWrite, Live
      <3>4. CASE OthersRelease
        <4>1. Absent.phase = "absent" BY DEF Absent
        <4> QED BY <3>4, <4>1 DEF OthersRelease, UserWrite, Live
      <3> QED BY <2>1, <3>1, <3>2, <3>3, <3>4 DEF Users
    <2>2. CASE ~Users
      <3>1. obj' = obj
        BY <1>3, <2>2 DEF Environment, Deliver, TimerFires, ClusterChanges, Recover, kubeVars
      <3> QED BY <3>1
    <2> QED BY <2>1, <2>2
  <1>4. CASE LoopStep
    <2>1. CASE AddFinalizer
      <3>1. obj' = obj \/ Accepted([local EXCEPT !.fin = TRUE])
        BY <2>1, QuietSteps DEF AddFinalizer
      <3>2. obj' = obj \/ (obj' = [local EXCEPT !.fin = TRUE] /\ local = obj)
        BY <3>1 DEF Accepted, LoopInv, CopiesCurrent
      <3>3. obj'.obs = obj.obs /\ obj'.gen = obj.gen /\ obj'.cond = obj.cond
            /\ obj'.spec = obj.spec /\ obj'.phase = obj.phase
        BY <1>0, <3>2 DEF Resources
      <3> QED BY <3>3 DEF Settled, Live
    <2>2. CASE ReportFailure
      <3>1. obj' = obj \/ \E cond \in {"Failed", "Refused"} : obj' = [local EXCEPT !.cond = cond]
        BY <2>2, QuietSteps DEF ReportFailure, Accepted
      <3>2. obj' = obj \/ obj'.cond # "Ready"
        BY <1>0, <3>1 DEF Resources
      <3> QED BY <3>2 DEF Settled
    <2>3. CASE ReportReady
      <3>1. obj' = obj \/ obj' = [local EXCEPT !.obs = local.gen, !.cond = "Ready"]
        BY <2>3, QuietSteps DEF ReportReady, Accepted
      <3>2. obj' = obj \/ obj'.spec = local.spec
        BY <1>0, <3>1 DEF Resources
      <3> QED BY <2>3, <3>2 DEF ReportReady
    <2>4. CASE RemoveFinalizer
      <3>1. obj' = obj \/ obj' = Absent \/ obj' = [local EXCEPT !.fin = FALSE]
        BY <2>4, QuietSteps DEF RemoveFinalizer, Accepted
      <3>2. Deleting(local) BY <2>4 DEF RemoveFinalizer, LoopInv, PcMatchesCopy
      <3>3. Absent.phase = "absent" BY DEF Absent
      <3>4. [local EXCEPT !.fin = FALSE].phase = "deleting"
        BY <1>0, <3>2 DEF Resources, Deleting
      <3> QED BY <3>1, <3>3, <3>4 DEF Live
    <2>5. CASE LookUpCluster
      BY <1>1, <2>5, QuietSteps DEF LookUpCluster
    <2>6. CASE IgnoreGone \/ SkipSettled \/ BeginFinalize \/ BeginReconcile \/ BeginDelete
      BY <1>1, <2>6 DEF IgnoreGone, SkipSettled, BeginFinalize, BeginReconcile, BeginDelete,
                        Begin, Leave
    <2> QED BY <1>4, <2>1, <2>2, <2>3, <2>4, <2>5, <2>6 DEF LoopStep
  <1> QED BY <1>2, <1>3, <1>4

\* No call of Reconcile deletes an object: it keeps the phase it writes back.
LEMMA LoopDeletes ==
  ASSUME LoopTypeOK, LoopInv, LoopStep, Deleting(obj')
  PROVE  Deleting(obj)
  <1>0. local \in Resources BY DEF LoopTypeOK
  <1>1. CASE AddFinalizer \/ ReportFailure \/ ReportReady \/ RemoveFinalizer
    <2>1. \/ obj' = obj
          \/ Accepted([local EXCEPT !.fin = TRUE])
          \/ \E cond \in {"Failed", "Refused"} : Accepted([local EXCEPT !.cond = cond])
          \/ Accepted([local EXCEPT !.obs = local.gen, !.cond = "Ready"])
          \/ Accepted(Absent) \/ Accepted([local EXCEPT !.fin = FALSE])
      BY <1>1, QuietSteps DEF AddFinalizer, ReportFailure, ReportReady, RemoveFinalizer
    <2>2. obj' = obj \/ obj' = Absent \/ (obj'.phase = local.phase /\ local = obj)
      BY <1>0, <2>1 DEF Accepted, LoopInv, CopiesCurrent, Resources
    <2> QED BY <2>2 DEF Deleting, Absent
  <1>2. CASE LookUpCluster BY <1>2, QuietSteps DEF LookUpCluster
  <1>3. CASE IgnoreGone \/ SkipSettled \/ BeginFinalize \/ BeginReconcile \/ BeginDelete
    BY <1>3 DEF IgnoreGone, SkipSettled, BeginFinalize, BeginReconcile, BeginDelete,
                Begin, Leave
  <1> QED BY <1>1, <1>2, <1>3 DEF LoopStep

\* What can become of the stored object in a step.
ObjSame == obj'.spec = obj.spec /\ (Present(obj) /\ obj.fin => Present(obj') /\ obj'.fin)
ObjMade == ~Present(obj)
ObjEdited == /\ <<obj.spec, obj'.spec>> \in Edits
             /\ Present(obj') /\ obj'.fin = obj.fin
ObjReleased == pc = "unfinalize" /\ local = obj /\ cache = obj /\ Deleting(obj)
ObjGone == ~obj.fin

LEMMA ObjSteps ==
  ASSUME LoopTypeOK, LoopInv, LoopStep \/ Environment \/ Crash
  PROVE  ObjSame \/ ObjMade \/ ObjEdited \/ ObjReleased \/ ObjGone
  <1>0. obj \in Resources /\ local \in Resources
    BY DEF LoopTypeOK, KubeTypeOK
  <1>1. CASE obj' = obj BY <1>1 DEF ObjSame
  <1>2. CASE Crash BY <1>1, <1>2 DEF Crash, Relist
  <1>3. CASE Environment
    <2>1. CASE Users
      <3>1. ASSUME NEW s \in Specs, UserCreate(s) PROVE ObjMade
        BY <3>1 DEF UserCreate, ObjMade
      <3>2. ASSUME NEW s \in Specs, UserEdit(s) PROVE ObjEdited
        <4>1. obj' = [obj EXCEPT !.gen = @ + 1, !.spec = s] /\ <<obj.spec, s>> \in Edits
              /\ Present(obj)
          BY <3>2 DEF UserEdit, UserWrite
        <4>2. obj'.spec = s /\ obj'.fin = obj.fin /\ obj'.phase = obj.phase
          BY <1>0, <4>1 DEF Resources
        <4> QED BY <4>1, <4>2 DEF ObjEdited, Present
      <3>3. CASE UserDelete
        <4>1. ~obj.fin \/ obj' = [obj EXCEPT !.phase = "deleting"]
          BY <3>3 DEF UserDelete, UserWrite
        <4>2. LET new == [obj EXCEPT !.phase = "deleting"]
              IN  new.spec = obj.spec /\ new.fin = obj.fin /\ new.phase = "deleting"
          BY <1>0 DEF Resources
        <4> QED BY <4>1, <4>2 DEF ObjGone, ObjSame, Present
      <3>4. CASE OthersRelease BY <3>4 DEF OthersRelease, ObjGone
      <3> QED BY <2>1, <3>1, <3>2, <3>3, <3>4 DEF Users
    <2>2. CASE ~Users
      BY <1>1, <1>3, <2>2 DEF Environment, Deliver, TimerFires, ClusterChanges, Recover, kubeVars
    <2> QED BY <2>1, <2>2
  <1>4. CASE LoopStep
    <2>1. CASE AddFinalizer
      <3>1. obj' = obj \/ Accepted([local EXCEPT !.fin = TRUE])
        BY <2>1, QuietSteps DEF AddFinalizer
      <3>2. obj' = obj \/ (obj' = [obj EXCEPT !.fin = TRUE])
        BY <3>1 DEF Accepted, LoopInv, CopiesCurrent
      <3>3. obj' = obj \/ (obj'.fin = TRUE /\ obj'.spec = obj.spec /\ obj'.phase = obj.phase)
        BY <1>0, <3>2 DEF Resources
      <3> QED BY <1>1, <3>3 DEF ObjSame, Present
    <2>2. CASE ReportFailure
      <3>1. obj' = obj \/ \E cond \in {"Failed", "Refused"} : Accepted([local EXCEPT !.cond = cond])
        BY <2>2, QuietSteps DEF ReportFailure
      <3>2. obj' = obj \/ \E cond \in {"Failed", "Refused"} : obj' = [obj EXCEPT !.cond = cond]
        BY <3>1 DEF Accepted, LoopInv, CopiesCurrent
      <3>3. obj'.fin = obj.fin /\ obj'.spec = obj.spec /\ obj'.phase = obj.phase
        BY <1>0, <3>2 DEF Resources
      <3> QED BY <3>3 DEF ObjSame, Present
    <2>3. CASE ReportReady
      <3>1. obj' = obj \/ Accepted([local EXCEPT !.obs = local.gen, !.cond = "Ready"])
        BY <2>3, QuietSteps DEF ReportReady
      <3>2. obj' = obj \/ obj' = [obj EXCEPT !.obs = obj.gen, !.cond = "Ready"]
        BY <3>1 DEF Accepted, LoopInv, CopiesCurrent
      <3>3. obj'.fin = obj.fin /\ obj'.spec = obj.spec /\ obj'.phase = obj.phase
        BY <1>0, <3>2 DEF Resources
      <3> QED BY <3>3 DEF ObjSame, Present
    <2>4. CASE RemoveFinalizer
      <3>1. pc = "unfinalize" /\ Deleting(local)
        BY <2>4 DEF RemoveFinalizer, LoopInv, PcMatchesCopy
      <3>2. obj' = obj \/ "local" \in seen
        BY <2>4, QuietSteps DEF RemoveFinalizer, Accepted
      <3> QED BY <1>1, <3>1, <3>2 DEF ObjReleased, LoopInv, CopiesCurrent
    <2>5. CASE LookUpCluster BY <1>1, <2>5, QuietSteps DEF LookUpCluster
    <2>6. CASE IgnoreGone \/ SkipSettled \/ BeginFinalize \/ BeginReconcile \/ BeginDelete
      BY <1>1, <2>6 DEF IgnoreGone, SkipSettled, BeginFinalize, BeginReconcile, BeginDelete,
                        Begin, Leave
    <2> QED BY <1>4, <2>1, <2>2, <2>3, <2>4, <2>5, <2>6 DEF LoopStep
  <1> QED BY <1>2, <1>3, <1>4

\* Where the copies come from.
CopiesFrom ==
  /\ cache' = cache \/ (cache' = obj /\ obj' = obj)
  /\ local' \in {local, cache, Absent}

LEMMA CopySteps ==
  ASSUME LoopStep \/ Environment \/ Crash
  PROVE  CopiesFrom
  <1> USE DEF CopiesFrom
  <1>1. CASE LoopStep
    <2>1. \A next : Goto(next) => cache' = cache /\ local' = local
      BY DEF Goto, kubeVars
    <2>2. GiveUp => cache' = cache /\ local' = Absent BY DEF GiveUp, Return
    <2>3. Abort => cache' = cache /\ local' \in {local, Absent} BY <2>1, <2>2 DEF Abort
    <2> QED BY <1>1, <2>1, <2>2, <2>3
        DEF LoopStep, IgnoreGone, SkipSettled, BeginFinalize, BeginReconcile, BeginDelete,
          Begin, Leave, loopVars, AddFinalizer, LookUpCluster, ReportFailure, ReportReady,
          RemoveFinalizer, Accepted, Return
  <1>2. CASE Environment
    <2>1. Users => cache' = cache
      BY DEF Users, UserCreate, UserEdit, UserDelete, OthersRelease, UserWrite
    <2> QED BY <1>2, <2>1 DEF Environment, Deliver, TimerFires, ClusterChanges, Recover,
              loopVars, kubeVars
  <1>3. CASE Crash BY <1>3 DEF Crash, Relist
  <1> QED BY <1>1, <1>2, <1>3

(***************************************************************************)
(* What can become of the resource as ManagedResource sees it.             *)
(***************************************************************************)
Served(r) == Live(r) /\ Settled(r)

StageAndSpec(new, sp) == Stage(obj') = new /\ obj'.spec = sp

MoveNone == StageAndSpec(Stage(obj), obj.spec) /\ (Served(obj') <=> Served(obj))
MoveUnheld == /\ Stage(obj) = "free" /\ Stage(obj') = "free"
              /\ ~Served(obj) /\ ~Served(obj')
MoveHold == /\ Stage(obj) = "free" /\ StageAndSpec("held", obj.spec)
            /\ ~Served(obj) /\ ~Served(obj')
MoveEdit == /\ Stage(obj) # "free" /\ Stage(obj') = Stage(obj)
            /\ obj'.spec = obj.spec \/ <<obj.spec, obj'.spec>> \in Edits
            /\ ~Served(obj')
MoveDelete == /\ Stage(obj) = "held" /\ StageAndSpec("releasing", obj.spec)
              /\ ~Served(obj')
MoveReport == /\ Stage(obj) = "held" /\ StageAndSpec("held", obj.spec)
              /\ pc = "report" /\ local = obj /\ Served(obj')
MoveRelease == /\ Stage(obj) = "releasing" /\ Stage(obj') = "free"
               /\ pc = "unfinalize" /\ local = obj
               /\ ~Served(obj) /\ ~Served(obj')

LoopMove == \/ MoveNone \/ MoveUnheld \/ MoveHold \/ MoveEdit \/ MoveDelete
            \/ MoveReport \/ MoveRelease

\* What is served is held.
LEMMA ServedHeld ==
  ASSUME LoopTypeOK, LoopInv, Served(obj)
  PROVE  Stage(obj) = "held"
  BY DEF LoopInv, SettledKnown, Served, Stage, Live, Present

LEMMA UserMoves ==
  ASSUME LoopTypeOK, LoopInv, Users
  PROVE  LoopMove
  <1> USE DEF LoopMove
  <1>0. obj \in Resources /\ obj.gen \in Nat /\ obj.obs \in Nat /\ obj.obs <= obj.gen
    BY MaxGenAssumption DEF LoopTypeOK, KubeTypeOK, Resources, LoopInv, SettledKnown
  <1>1. Absent.phase = "absent" BY DEF Absent
  <1>2. Stage(Absent) = "free" /\ ~Served(Absent)
    BY <1>1 DEF Stage, Present, Served, Live
  <1>3. Stage(obj) = "free" => ~Served(obj) BY ServedHeld
  <1>4. ASSUME NEW s \in Specs, UserCreate(s) PROVE LoopMove
    <2>1. Stage(obj) = "free" /\ obj' = Fresh(s)
      BY <1>4 DEF UserCreate, UserWrite, Stage
    <2>2. Stage(Fresh(s)) = "free" /\ ~Served(Fresh(s))
      BY FreshType DEF Stage, Served, Settled
    <2> QED BY <1>3, <2>1, <2>2 DEF MoveUnheld
  <1>5. ASSUME NEW s \in Specs, UserEdit(s) PROVE LoopMove
    <2>1. /\ obj' = [obj EXCEPT !.gen = @ + 1, !.spec = s]
          /\ Present(obj) /\ <<obj.spec, s>> \in Edits
      BY <1>5 DEF UserEdit, UserWrite
    <2>2. /\ obj'.gen = obj.gen + 1 /\ obj'.obs = obj.obs /\ obj'.spec = s
          /\ obj'.fin = obj.fin /\ obj'.phase = obj.phase
      BY <1>0, <2>1 DEF Resources
    <2>3. ~Served(obj') BY <1>0, <2>2 DEF Served, Settled
    <2>4. Stage(obj') = Stage(obj) BY <2>2 DEF Stage, Present, Live
    <2> QED BY <1>3, <2>1, <2>2, <2>3, <2>4 DEF MoveUnheld, MoveEdit
  <1>6. CASE UserDelete
    <2>1. CASE ~obj.fin /\ UserWrite(Absent)
      BY <1>2, <1>3, <2>1 DEF UserWrite, Stage, MoveUnheld
    <2>2. CASE UserWrite([obj EXCEPT !.phase = "deleting"])
      <3>1. Live(obj) /\ obj' = [obj EXCEPT !.phase = "deleting"]
        BY <1>6, <2>2 DEF UserDelete, UserWrite
      <3>2. obj'.phase = "deleting" /\ obj'.fin = obj.fin /\ obj'.spec = obj.spec
        BY <1>0, <3>1 DEF Resources
      <3>3. ~Served(obj') BY <3>2 DEF Served, Live
      <3>4. CASE obj.fin
        <4>1. Stage(obj) = "held" /\ Stage(obj') = "releasing"
          BY <3>1, <3>2, <3>4 DEF Stage, Present, Live
        <4> QED BY <3>2, <3>3, <4>1 DEF MoveDelete, StageAndSpec
      <3>5. CASE ~obj.fin
        <4>1. Stage(obj) = "free" /\ Stage(obj') = "free" BY <3>2, <3>5 DEF Stage
        <4> QED BY <1>3, <3>3, <4>1 DEF MoveUnheld
      <3> QED BY <3>4, <3>5
    <2> QED BY <1>6, <2>1, <2>2 DEF UserDelete
  <1>7. CASE OthersRelease
    BY <1>2, <1>3, <1>7 DEF OthersRelease, UserWrite, Stage, MoveUnheld
  <1> QED BY <1>4, <1>5, <1>6, <1>7 DEF Users

LEMMA WriteMoves ==
  ASSUME LoopTypeOK, LoopInv,
         AddFinalizer \/ ReportFailure \/ ReportReady \/ RemoveFinalizer
  PROVE  LoopMove
  <1> USE DEF LoopMove
  <1>0. obj \in Resources BY DEF LoopTypeOK, KubeTypeOK
  <1>1. obj' = obj => MoveNone BY DEF MoveNone, StageAndSpec
  <1>2. ASSUME NEW new, Accepted(new) PROVE local = obj /\ obj' = new
    BY <1>2 DEF Accepted, LoopInv, CopiesCurrent
  <1>3. CASE AddFinalizer
    <2>1. obj' = obj \/ Accepted([local EXCEPT !.fin = TRUE])
      BY <1>3, QuietSteps DEF AddFinalizer
    <2>2. Live(local) /\ ~local.fin BY <1>3 DEF AddFinalizer, LoopInv, PcMatchesCopy
    <2>3. CASE Accepted([local EXCEPT !.fin = TRUE])
      <3>1. local = obj /\ obj' = [obj EXCEPT !.fin = TRUE] BY <1>2, <2>3
      <3>2. /\ obj'.fin = TRUE /\ obj'.phase = obj.phase /\ obj'.spec = obj.spec
            /\ obj'.gen = obj.gen /\ obj'.obs = obj.obs /\ obj'.cond = obj.cond
        BY <1>0, <3>1 DEF Resources
      <3>3. Stage(obj) = "free" /\ Stage(obj') = "held"
        BY <2>2, <3>1, <3>2 DEF Stage, Present, Live
      <3>4. ~Served(obj) BY <3>3, ServedHeld
      <3>5. ~Served(obj') BY <3>2, <3>4 DEF Served, Live, Settled
      <3> QED BY <3>2, <3>3, <3>4, <3>5 DEF MoveHold, StageAndSpec
    <2> QED BY <1>1, <2>1, <2>3
  <1>4. CASE ReportFailure
    <2>1. obj' = obj \/ \E cond \in {"Failed", "Refused"} : Accepted([local EXCEPT !.cond = cond])
      BY <1>4, QuietSteps DEF ReportFailure
    <2>2. Live(local) /\ local.fin BY <1>4 DEF ReportFailure, LoopInv, PcMatchesCopy
    <2>3. ASSUME NEW cond \in {"Failed", "Refused"}, Accepted([local EXCEPT !.cond = cond])
          PROVE  MoveEdit
      <3>1. local = obj /\ obj' = [obj EXCEPT !.cond = cond] BY <1>2, <2>3
      <3>2. /\ obj'.fin = obj.fin /\ obj'.phase = obj.phase /\ obj'.spec = obj.spec
            /\ obj'.cond = cond
        BY <1>0, <3>1 DEF Resources
      <3>3. Stage(obj) = "held" /\ Stage(obj') = "held"
        BY <2>2, <3>1, <3>2 DEF Stage, Present, Live
      <3>4. ~Served(obj') BY <3>2 DEF Served, Settled
      <3> QED BY <3>2, <3>3, <3>4 DEF MoveEdit
    <2> QED BY <1>1, <2>1, <2>3
  <1>5. CASE ReportReady
    <2>1. obj' = obj \/ Accepted([local EXCEPT !.obs = local.gen, !.cond = "Ready"])
      BY <1>5, QuietSteps DEF ReportReady
    <2>2. pc = "report" /\ Live(local) /\ local.fin
      BY <1>5 DEF ReportReady, LoopInv, PcMatchesCopy
    <2>3. CASE Accepted([local EXCEPT !.obs = local.gen, !.cond = "Ready"])
      <3>1. local = obj /\ obj' = [obj EXCEPT !.obs = obj.gen, !.cond = "Ready"]
        BY <1>2, <2>3
      <3>2. /\ obj'.fin = obj.fin /\ obj'.phase = obj.phase /\ obj'.spec = obj.spec
            /\ obj'.gen = obj.gen /\ obj'.obs = obj.gen /\ obj'.cond = "Ready"
        BY <1>0, <3>1 DEF Resources
      <3>3. Stage(obj) = "held" /\ Stage(obj') = "held"
        BY <2>2, <3>1, <3>2 DEF Stage, Present, Live
      <3>4. Served(obj') BY <2>2, <3>1, <3>2 DEF Served, Settled, Live
      <3> QED BY <2>2, <3>1, <3>2, <3>3, <3>4 DEF MoveReport, StageAndSpec
    <2> QED BY <1>1, <2>1, <2>3
  <1>6. CASE RemoveFinalizer
    <2>1. \/ obj' = obj
          \/ \E new \in {Absent, [local EXCEPT !.fin = FALSE]} : Accepted(new)
      BY <1>6, QuietSteps DEF RemoveFinalizer
    <2>2. pc = "unfinalize" /\ Deleting(local) /\ local.fin
      BY <1>6 DEF RemoveFinalizer, LoopInv, PcMatchesCopy
    <2>3. ASSUME NEW new \in {Absent, [local EXCEPT !.fin = FALSE]}, Accepted(new)
          PROVE  MoveRelease
      <3>1. local = obj /\ obj' = new /\ new \in {Absent, [obj EXCEPT !.fin = FALSE]}
        BY <1>2, <2>3
      <3>2. Absent.phase = "absent" /\ [obj EXCEPT !.fin = FALSE].fin = FALSE
            /\ [obj EXCEPT !.fin = FALSE].phase = obj.phase
        BY <1>0 DEF Absent, Resources
      <3>3. Stage(obj) = "releasing" BY <2>2, <3>1 DEF Stage, Present, Live, Deleting
      <3>4. Stage(obj') = "free" /\ ~Live(obj')
        BY <2>2, <3>1, <3>2 DEF Stage, Present, Live, Deleting
      <3> QED BY <2>2, <3>1, <3>3, <3>4 DEF MoveRelease, Served, Live, Deleting
    <2> QED BY <1>1, <2>1, <2>3
  <1> QED BY <1>3, <1>4, <1>5, <1>6

LEMMA LoopMoves ==
  ASSUME LoopTypeOK, LoopInv, LoopStep \/ Environment \/ Crash
  PROVE  LoopMove
  <1>1. obj' = obj => LoopMove BY DEF LoopMove, MoveNone, StageAndSpec
  <1>2. CASE Crash BY <1>1, <1>2 DEF Crash, Relist
  <1>3. CASE Environment
    <2>1. CASE Users BY <2>1, UserMoves
    <2>2. CASE ~Users
      BY <1>1, <1>3, <2>2 DEF Environment, Deliver, TimerFires, ClusterChanges, Recover, kubeVars
    <2> QED BY <2>1, <2>2
  <1>4. CASE LoopStep
    <2>1. CASE AddFinalizer \/ ReportFailure \/ ReportReady \/ RemoveFinalizer
      BY <2>1, WriteMoves
    <2>2. CASE LookUpCluster BY <1>1, <2>2, QuietSteps DEF LookUpCluster
    <2>3. CASE IgnoreGone \/ SkipSettled \/ BeginFinalize \/ BeginReconcile \/ BeginDelete
      BY <1>1, <2>3 DEF IgnoreGone, SkipSettled, BeginFinalize, BeginReconcile, BeginDelete,
                        Begin, Leave
    <2> QED BY <1>4, <2>1, <2>2, <2>3 DEF LoopStep
  <1> QED BY <1>2, <1>3, <1>4

\* A resource is only let go by the call that has its very copy.
LEMMA LetGo ==
  ASSUME LoopTypeOK, LoopInv, LoopStep \/ Environment \/ Crash,
         Stage(obj) # "free", Stage(obj') = "free"
  PROVE  pc = "unfinalize" /\ local = obj
  BY LoopMoves DEF LoopMove, MoveNone, MoveUnheld, MoveHold, MoveEdit, MoveDelete, MoveReport,
                   MoveRelease, StageAndSpec
=============================================================================

----------------------------- MODULE UserProofs ------------------------------
(***************************************************************************)
(* The User controller's safety properties, for every set of user names,   *)
(* passwords, specs, edits and credentials of others, and every bound on   *)
(* the generations.                                                        *)
(***************************************************************************)
EXTENDS UserReconciler, LoopProofs

LEMMA SlotFacts ==
  ASSUME NEW s \in Specs
  PROVE  Slot(s) \in Slots /\ Iterations(s) \in Nat /\ Iterations(s) # 0
  <1>1. /\ s.username \in UserNames \cup {NoName} /\ s.iterations \in Nat
    BY UserAssumption DEF UserSpecs
  <1>2. Username(s) \in UserNames BY <1>1, UserAssumption DEF Username
  <1>3. Mechanism(s) \in Mechanisms BY DEF Mechanism, Mechanisms
  <1>4. Slot(s) \in Slots BY <1>2, <1>3 DEF Slot, Slots
  <1> QED BY <1>1, <1>4 DEF Iterations

(***************************************************************************)
(* The inductive invariant.                                                *)
(***************************************************************************)
\* The credential is what a spec asks for; "fresh" is what is said of its
\* password and the Secret.
HasCredential(s) ==
    /\ creds[Slot(s)].iterations = Iterations(s)
    /\ creds[Slot(s)].password # NoPassword
    /\ creds[Slot(s)].password = secret \/ rotated

StepKnowledge ==
    /\ pc = "upsert" => password # NoPassword
    /\ pc = "report" => HasCredential(local.spec)
    /\ pc = "unfinalize" => origin[slot] # "operator"

UserInv ==
    /\ TypeOK /\ LoopInv
    /\ \A sl \in Slots : origin[sl] = "operator" => Exists(sl)
    /\ StepKnowledge
    /\ ReadyMeansApplied

LEMMA ReadyAs == ReadyMeansApplied <=> (Live(obj) /\ Settled(obj) => HasCredential(obj.spec))
  BY DEF ReadyMeansApplied, HasCredential

LEMMA SlotType ==
  ASSUME TypeOK
  PROVE  slot \in Slots /\ local.spec \in Specs /\ obj.spec \in Specs
  BY SlotFacts DEF TypeOK, LoopTypeOK, KubeTypeOK, Resources, slot

\* A credential that is left alone still serves, whatever becomes of the Secret.
LEMMA CredentialKept ==
  ASSUME NEW s, HasCredential(s), creds'[Slot(s)] = creds[Slot(s)],
         UNCHANGED <<secret, rotated>> \/ rotated'
  PROVE  HasCredential(s)'
  <1>1. Slot(s)' = Slot(s) /\ Iterations(s)' = Iterations(s)
    BY DEF Slot, Username, Mechanism, Iterations
  <1> QED BY <1>1 DEF HasCredential

\* The loop and its environment report nothing that is not on the broker.
LEMMA ReadyKept ==
  ASSUME UserInv, LoopStep \/ Environment \/ Crash, UNCHANGED creds,
         UNCHANGED <<secret, rotated>> \/ rotated'
  PROVE  ReadyMeansApplied'
  <1> SUFFICES ASSUME Live(obj'), Settled(obj')
               PROVE  HasCredential(obj.spec)'
    BY DEF ReadyMeansApplied, HasCredential, Live, Settled
  <1>1. \/ Live(obj) /\ Settled(obj) /\ obj'.spec = obj.spec
        \/ pc = "report" /\ obj'.spec = local.spec
    BY SettledBefore DEF UserInv, TypeOK
  <1>2. HasCredential(obj'.spec)
    BY <1>1, ReadyAs DEF UserInv, StepKnowledge
  <1> DEFINE s == obj'.spec
  <1>3. HasCredential(s) BY <1>2
  <1>4. creds'[Slot(s)] = creds[Slot(s)] OBVIOUS
  <1> QED BY <1>3, <1>4 DEF HasCredential, Slot, Username, Mechanism, Iterations

(***************************************************************************)
(* The steps that leave the broker alone.                                  *)
(***************************************************************************)
LEMMA LoopPart ==
  ASSUME UserInv, LoopStep, UNCHANGED <<secret, password, brokerVars>>
  PROVE  UserInv'
  <1>1. LoopTypeOK' /\ LoopInv' BY LoopStepInv DEF UserInv, TypeOK
  <1>2. pc' \in {"idle", "finalize", "cluster", "connect", "fail"} BY LoopStepPc
  <1>3. UNCHANGED <<creds, origin, rotated, secret, password>> BY DEF brokerVars
  <1>4. TypeOK' BY <1>1, <1>2, <1>3 DEF UserInv, TypeOK, LoopPcs
  <1>5. StepKnowledge' BY <1>2 DEF StepKnowledge
  <1>6. ReadyMeansApplied' BY <1>3, ReadyKept
  <1>7. \A sl \in Slots : origin'[sl] = "operator" => Exists(sl)'
    BY <1>3 DEF UserInv, Exists
  <1> QED BY <1>1, <1>4, <1>5, <1>6, <1>7 DEF UserInv

LEMMA ConnectPart ==
  ASSUME UserInv, ConnectUser
  PROVE  UserInv'
  <1>0. pc = "connect" BY DEF ConnectUser, Connect
  <1>1. \/ Connect("upsert") /\ (Live(local) => secret # NoPassword)
        \/ Live(local) /\ secret = NoPassword /\ Abort
    BY DEF ConnectUser
  <1>2. LoopTypeOK' /\ LoopInv'
    BY <1>0, <1>1, ConnectInv, AbortInv DEF UserInv, TypeOK
  <1>3. /\ obj' = obj /\ pc' \in {"upsert", "delete", "idle", "fail"}
        /\ pc' = "upsert" => secret # NoPassword
    BY <1>0, <1>1, QuietSteps DEF Connect
  <1>4. /\ UNCHANGED <<secret, creds, origin, rotated>>
        /\ password' = IF pc' = "upsert" THEN secret ELSE NoPassword
    BY DEF ConnectUser, brokerVars
  <1>5. TypeOK' BY <1>2, <1>3, <1>4 DEF UserInv, TypeOK, LoopPcs
  <1>6. StepKnowledge' BY <1>3, <1>4 DEF StepKnowledge
  <1>7. ReadyMeansApplied'
    BY <1>3, <1>4 DEF UserInv, ReadyMeansApplied, Live, Settled, Slot, Username, Mechanism,
       Iterations
  <1>8. \A sl \in Slots : origin'[sl] = "operator" => Exists(sl)'
    BY <1>4 DEF UserInv, Exists
  <1> QED BY <1>2, <1>5, <1>6, <1>7, <1>8 DEF UserInv

LEMMA EnvironmentPart ==
  ASSUME UserInv, Environment, SecretKept, UNCHANGED <<password, creds, origin>>
  PROVE  UserInv'
  <1>1. LoopTypeOK' /\ LoopInv' BY EnvironmentInv DEF UserInv, TypeOK
  <1>2. pc' = pc /\ local' = local
    BY DEF Environment, loopVars, ClusterChanges, Recover
  <1>3. UNCHANGED <<secret, rotated>> \/ (secret' \in Passwords /\ rotated' = TRUE)
    BY DEF SecretKept
  <1>4. TypeOK' BY <1>1, <1>2, <1>3 DEF UserInv, TypeOK
  <1>5. ReadyMeansApplied' BY <1>3, ReadyKept
  <1>6. StepKnowledge'
    BY <1>2, <1>3 DEF UserInv, StepKnowledge, HasCredential, slot, Slot, Username,
       Mechanism, Iterations
  <1>7. \A sl \in Slots : origin'[sl] = "operator" => Exists(sl)' BY DEF UserInv, Exists
  <1> QED BY <1>1, <1>4, <1>5, <1>6, <1>7 DEF UserInv

LEMMA RestartPart ==
  ASSUME UserInv, Restart
  PROVE  UserInv'
  <1>1. LoopTypeOK' /\ LoopInv' BY CrashInv DEF UserInv, TypeOK, Restart
  <1>2. pc' = "idle" BY DEF Restart, Crash
  <1>3. UNCHANGED <<secret, creds, origin, rotated>> /\ password' = NoPassword
    BY DEF Restart, brokerVars
  <1>4. TypeOK' BY <1>1, <1>2, <1>3 DEF UserInv, TypeOK, LoopPcs
  <1>5. ReadyMeansApplied' BY <1>3, ReadyKept DEF Restart
  <1>6. StepKnowledge' BY <1>2 DEF StepKnowledge
  <1>7. \A sl \in Slots : origin'[sl] = "operator" => Exists(sl)' BY <1>3 DEF UserInv, Exists
  <1> QED BY <1>1, <1>4, <1>5, <1>6, <1>7 DEF UserInv

(***************************************************************************)
(* What changes the loop's variables not at all.                           *)
(***************************************************************************)
LEMMA LoopKept ==
  ASSUME LoopTypeOK, LoopInv, UNCHANGED <<kubeVars, loopVars>>
  PROVE  LoopTypeOK' /\ LoopInv'
  BY DEF kubeVars, loopVars, LoopTypeOK, KubeTypeOK, LoopInv, CopiesCurrent, PcMatchesCopy,
     CopyBounds, SettledKnown, SettledSpread, Settled, NoLostWakeup, Present, Live, Deleting

\* The Secret is not watched: what was known of it is excused.
LEMMA SecretPart ==
  ASSUME UserInv, SecretChanges
  PROVE  UserInv'
  <1>1. /\ UNCHANGED <<kubeVars, loopVars, password, creds, origin>>
        /\ secret' \in Passwords \cup {NoPassword} /\ rotated' = TRUE
    BY DEF SecretChanges
  <1>2. LoopTypeOK' /\ LoopInv' BY <1>1, LoopKept DEF UserInv, TypeOK
  <1>3. pc' = pc /\ local' = local /\ obj' = obj BY <1>1 DEF kubeVars, loopVars
  <1>4. TypeOK' BY <1>1, <1>2, <1>3 DEF UserInv, TypeOK
  <1>5. StepKnowledge'
    BY <1>1, <1>3 DEF UserInv, StepKnowledge, HasCredential, slot, Slot, Username,
       Mechanism, Iterations
  <1>6. ReadyMeansApplied'
    BY <1>1, <1>3 DEF UserInv, ReadyMeansApplied, Live, Settled, Slot, Username,
       Mechanism, Iterations
  <1>7. \A sl \in Slots : origin'[sl] = "operator" => Exists(sl)'
    BY <1>1 DEF UserInv, Exists
  <1> QED BY <1>2, <1>4, <1>5, <1>6, <1>7 DEF UserInv

\* Others only make what is not there, so nothing that serves changes.
LEMMA ForeignPart ==
  ASSUME UserInv, NEW sl \in Intruded, ForeignCreate(sl)
  PROVE  UserInv'
  <1> DEFINE c == [password |-> NoPassword, iterations |-> 4096]
  <1>1. /\ UNCHANGED <<kubeVars, loopVars, secret, password, rotated>> /\ ~Exists(sl)
        /\ creds' = [creds EXCEPT ![sl] = c]
        /\ origin' = [origin EXCEPT ![sl] = "foreign"]
    BY DEF ForeignCreate, SetCredential
  <1>2. LoopTypeOK' /\ LoopInv' BY <1>1, LoopKept DEF UserInv, TypeOK
  <1>3. pc' = pc /\ local' = local /\ obj' = obj BY <1>1 DEF kubeVars, loopVars
  <1>4. sl \in Slots /\ c \in Credentials BY UserAssumption DEF Credentials
  <1>5. TypeOK'
    BY <1>1, <1>2, <1>3, <1>4 DEF UserInv, TypeOK, Origins
  <1>6. ASSUME NEW s \in Specs, HasCredential(s) PROVE HasCredential(s)'
    <2>1. Slot(s) \in Slots /\ Iterations(s) # 0 BY SlotFacts
    <2>2. Slot(s) # sl BY <1>1, <1>6, <2>1 DEF HasCredential, Exists
    <2>3. creds'[Slot(s)] = creds[Slot(s)] BY <1>1, <2>1, <2>2 DEF UserInv, TypeOK
    <2> QED BY <1>1, <1>6, <2>3, CredentialKept
  <1>7. local.spec \in Specs /\ obj.spec \in Specs BY SlotType DEF UserInv
  <1>8. pc = "report" => HasCredential(local.spec)'
    BY <1>3, <1>6, <1>7 DEF UserInv, StepKnowledge
  <1>9. pc = "unfinalize" => origin'[slot] # "operator"
    BY <1>1, <1>4, SlotType DEF UserInv, StepKnowledge, TypeOK
  <1>10. StepKnowledge'
    BY <1>1, <1>3, <1>8, <1>9 DEF UserInv, StepKnowledge, HasCredential, slot, Slot,
       Username, Mechanism, Iterations
  <1>11. Live(obj) /\ Settled(obj) => HasCredential(obj.spec)'
    BY <1>3, <1>6, <1>7, ReadyAs DEF UserInv
  <1>12. ReadyMeansApplied'
    BY <1>3, <1>11 DEF ReadyMeansApplied, HasCredential, Live, Settled
  <1>13. \A x \in Slots : origin'[x] = "operator" => Exists(x)'
    BY <1>1, <1>4 DEF UserInv, TypeOK, Exists
  <1> QED BY <1>2, <1>5, <1>10, <1>12, <1>13 DEF UserInv

(***************************************************************************)
(* The steps on the broker.                                                *)
(***************************************************************************)
LEMMA UpsertPart ==
  ASSUME UserInv, UpsertUser
  PROVE  UserInv'
  <1> DEFINE c == [password |-> password, iterations |-> Iterations(local.spec)]
  <1>1. pc = "upsert" /\ Live(local) /\ local.fin /\ password # NoPassword
    BY DEF UpsertUser, UserInv, LoopInv, PcMatchesCopy, StepKnowledge, TypeOK
  <1>2. secret' = secret /\ password' = NoPassword BY DEF UpsertUser
  <1>3. slot \in Slots /\ local.spec \in Specs /\ c \in Credentials /\ c.iterations # 0
    BY SlotType, SlotFacts DEF UserInv, TypeOK, Credentials
  <1>4. CASE /\ creds' = [creds EXCEPT ![slot] = c]
             /\ origin' = [origin EXCEPT ![slot] = "operator"]
             /\ rotated' = (password # secret)
             /\ Goto("report") \/ Abort
    <2>1. LoopTypeOK' /\ LoopInv' BY <1>1, <1>4, GotoInv, AbortInv DEF UserInv, TypeOK
    <2>2. /\ obj' = obj
          /\ pc' \in {"idle", "fail"} \/ (pc' = "report" /\ local' = local)
      BY <1>4, QuietSteps
    <2>3. TypeOK'
      BY <1>2, <1>3, <1>4, <2>1, <2>2 DEF UserInv, TypeOK, LoopPcs, Origins
    <2>4. creds'[slot] = c BY <1>3, <1>4 DEF UserInv, TypeOK
    <2>5. password = secret' \/ rotated' BY <1>2, <1>4
    <2>6. ASSUME NEW s, s = local.spec
          PROVE  HasCredential(s)'
      <3>1. /\ creds'[Slot(s)].iterations = Iterations(s)
            /\ creds'[Slot(s)].password = password
        BY <2>4, <2>6 DEF slot
      <3> QED BY <1>1, <2>5, <3>1 DEF HasCredential, Slot, Username, Mechanism, Iterations
    <2>7. pc' = "report" => HasCredential(local.spec)' BY <2>2, <2>6
    <2>8. StepKnowledge' BY <2>2, <2>7 DEF StepKnowledge
    <2>9. ASSUME Live(obj), Settled(obj) PROVE HasCredential(obj.spec)'
      <3>1. local.spec = obj.spec
        BY <1>1, <2>9 DEF UserInv, LoopInv, SettledKnown, SettledSpread
      <3> QED BY <2>2, <2>6, <3>1
    <2>10. ReadyMeansApplied'
      BY <2>2, <2>9 DEF ReadyMeansApplied, HasCredential, Live, Settled
    <2>11. \A x \in Slots : origin'[x] = "operator" => Exists(x)'
      BY <1>3, <1>4 DEF UserInv, TypeOK, Exists
    <2> QED BY <2>1, <2>3, <2>8, <2>10, <2>11 DEF UserInv
  <1>5. CASE Abort /\ UNCHANGED brokerVars
    <2>1. LoopTypeOK' /\ LoopInv' BY <1>1, <1>5, AbortInv DEF UserInv, TypeOK
    <2>2. obj' = obj /\ pc' \in {"idle", "fail"} BY <1>5, QuietSteps
    <2>3. UNCHANGED <<creds, origin, rotated>> BY <1>5 DEF brokerVars
    <2>4. TypeOK' BY <1>2, <2>1, <2>2, <2>3 DEF UserInv, TypeOK, LoopPcs
    <2>5. StepKnowledge' BY <2>2 DEF StepKnowledge
    <2>6. ReadyMeansApplied'
      BY <1>2, <2>2, <2>3 DEF UserInv, ReadyMeansApplied, Live, Settled, Slot, Username,
         Mechanism, Iterations
    <2>7. \A x \in Slots : origin'[x] = "operator" => Exists(x)'
      BY <2>3 DEF UserInv, Exists
    <2> QED BY <2>1, <2>4, <2>5, <2>6, <2>7 DEF UserInv
  <1> QED BY <1>4, <1>5 DEF UpsertUser, Answered, SetCredential

\* Only a copy of a deleted object deletes, and a settled object has none.
LEMMA DeletePart ==
  ASSUME UserInv, DeleteUser
  PROVE  UserInv'
  <1>1. pc = "delete" /\ Deleting(local) /\ local.fin /\ ~Live(local)
    BY DEF DeleteUser, UserInv, LoopInv, PcMatchesCopy, Live, Deleting
  <1>2. UNCHANGED <<secret, password, rotated>> BY DEF DeleteUser
  <1>3. \/ /\ creds' = [creds EXCEPT ![slot] = NoCredential]
           /\ origin' = [origin EXCEPT ![slot] = "none"]
           /\ Goto("unfinalize") \/ GiveUp
        \/ UNCHANGED <<creds, origin>> /\ ~Exists(slot) /\ Goto("unfinalize")
        \/ UNCHANGED <<creds, origin>> /\ GiveUp
    BY <1>1 DEF DeleteUser, Answered, Abort, SetCredential
  <1>4. LoopTypeOK' /\ LoopInv'
    BY <1>1, <1>3, GotoInv, GiveUpInv DEF UserInv, TypeOK
  <1>5. obj' = obj /\ (pc' = "idle" \/ (pc' = "unfinalize" /\ local' = local))
    BY <1>3, QuietSteps
  <1>6. slot \in Slots /\ NoCredential \in Credentials
    BY SlotType DEF UserInv, NoCredential, Credentials
  <1>7. TypeOK'
    <2>1. creds' \in [Slots -> Credentials] /\ origin' \in [Slots -> Origins]
      BY <1>3, <1>6 DEF UserInv, TypeOK, Origins
    <2> QED BY <1>2, <1>4, <1>5, <2>1 DEF UserInv, TypeOK, LoopPcs
  <1>8. pc' = "unfinalize" => origin'[slot] # "operator"
    BY <1>3, <1>6, QuietSteps DEF UserInv, TypeOK
  <1>9. StepKnowledge'
    BY <1>5, <1>8 DEF StepKnowledge, slot, Slot, Username, Mechanism
  <1>10. ~(Live(obj) /\ Settled(obj))
    BY <1>1 DEF UserInv, LoopInv, SettledKnown, SettledSpread
  <1>11. ReadyMeansApplied' BY <1>5, <1>10 DEF ReadyMeansApplied, Live, Settled
  <1>12. \A x \in Slots : origin'[x] = "operator" => Exists(x)'
    BY <1>3, <1>6 DEF UserInv, TypeOK, Exists
  <1> QED BY <1>4, <1>7, <1>9, <1>11, <1>12 DEF UserInv

LEMMA InitInv == Init => UserInv
  <1> SUFFICES ASSUME Init PROVE UserInv
    OBVIOUS
  <1>1. LoopTypeOK /\ LoopInv BY LoopInitInv DEF Init
  <1>2. pc = "idle" /\ obj = Absent BY DEF Init, LoopInit, KubeInit
  <1>3. ~Live(Absent) BY DEF Live, Absent
  <1>4. TypeOK
    BY <1>1, <1>2 DEF Init, TypeOK, LoopPcs, Credentials, NoCredential, Origins
  <1> QED BY <1>1, <1>2, <1>3, <1>4 DEF Init, UserInv, StepKnowledge, ReadyMeansApplied

LEMMA StutterInv ==
  ASSUME UserInv, UNCHANGED vars
  PROVE  UserInv'
  <1>1. LoopTypeOK' /\ LoopInv' BY LoopKept DEF vars, UserInv, TypeOK
  <1>2. UNCHANGED <<pc, local, obj, secret, password, creds, origin, rotated>>
    BY DEF vars, kubeVars, loopVars, brokerVars
  <1> QED BY <1>1, <1>2 DEF UserInv, TypeOK, StepKnowledge, HasCredential,
        ReadyMeansApplied, Exists, slot, Slot, Username, Mechanism, Iterations, Live, Settled

LEMMA UserInvariant == Spec => []UserInv
  <1>1. ASSUME UserInv, Next PROVE UserInv'
    <2>1. CASE Reconcile
      BY <1>1, <2>1, LoopPart, ConnectPart, UpsertPart, DeletePart DEF Reconcile
    <2>2. CASE Restart BY <1>1, <2>2, RestartPart
    <2>3. CASE Others
      BY <1>1, <2>3, EnvironmentPart, SecretPart, ForeignPart DEF Others
    <2> QED BY <1>1, <2>1, <2>2, <2>3 DEF Next
  <1>2. UserInv /\ [Next]_vars => UserInv' BY <1>1, StutterInv
  <1> QED BY InitInv, <1>2, PTL DEF Spec

(***************************************************************************)
(* The theorems that need no more than the invariant.                      *)
(***************************************************************************)
\* A User that reports Ready for its generation can log in as its spec says.
THEOREM ReadyUsersApplied == Spec => []ReadyMeansApplied
  <1>1. UserInv => ReadyMeansApplied BY DEF UserInv
  <1> QED BY <1>1, UserInvariant, PTL

\* Every variable keeps to its type.
THEOREM TypeCorrect == Spec => []TypeOK
  <1>1. UserInv => TypeOK BY DEF UserInv
  <1> QED BY <1>1, UserInvariant, PTL

\* A resource the operator still has to do with is never forgotten.
THEOREM NoUserForgotten == Spec => []NoLostWakeup
  <1>1. UserInv => NoLostWakeup BY DEF UserInv, LoopInv
  <1> QED BY <1>1, UserInvariant, PTL

(***************************************************************************)
(* No orphans, as long as no edit changes the slot.                        *)
(***************************************************************************)
KeepsSlot == \A e \in Edits : Slot(e[1]) = Slot(e[2])

\* A live copy with the finalizer stands for the same slot as the object.
SlotAgrees(r) == Live(r) /\ r.fin => Slot(r.spec) = Slot(obj.spec)

OrphanInv == NoOrphan /\ SlotAgrees(cache) /\ SlotAgrees(local)

LEMMA SlotsKept ==
  ASSUME KeepsSlot, UserInv, OrphanInv, LoopStep \/ Environment \/ Crash
  PROVE  SlotAgrees(cache)' /\ SlotAgrees(local)'
  <1>1. ObjSame \/ ObjMade \/ ObjEdited \/ ObjReleased \/ ObjGone
    BY ObjSteps DEF UserInv, TypeOK
  <1>2. CopiesFrom BY CopySteps
  <1>3. ASSUME NEW r \in {cache, local}, Live(r), r.fin
        PROVE  Slot(r.spec) = Slot(obj'.spec)
    <2>1. Present(obj) /\ obj.fin /\ Slot(r.spec) = Slot(obj.spec)
      BY <1>3 DEF OrphanInv, SlotAgrees, UserInv, LoopInv, CopyBounds
    <2>2. ~ObjReleased BY <1>3 DEF ObjReleased, Live, Deleting
    <2>3. CASE ObjSame BY <2>1, <2>3 DEF ObjSame
    <2>4. CASE ObjEdited BY <2>1, <2>4 DEF ObjEdited, KeepsSlot
    <2> QED BY <1>1, <2>1, <2>2, <2>3, <2>4 DEF ObjMade, ObjGone
  <1>4. ~Live(Absent) BY DEF Absent, Live
  <1>5. \A r : Slot(r)' = Slot(r) BY DEF Slot, Username, Mechanism
  <1>6. SlotAgrees(cache)' BY <1>2, <1>3, <1>5 DEF CopiesFrom, SlotAgrees, Live
  <1>7. SlotAgrees(local)' BY <1>2, <1>3, <1>4, <1>5 DEF CopiesFrom, SlotAgrees, Live
  <1> QED BY <1>6, <1>7

LEMMA OrphansKept ==
  ASSUME KeepsSlot, UserInv, OrphanInv, LoopStep \/ Environment \/ Crash, UNCHANGED origin
  PROVE  NoOrphan'
  <1> SUFFICES ASSUME NEW sl \in Slots, origin[sl] = "operator"
               PROVE  Present(obj') /\ obj'.fin /\ Slot(obj'.spec) = sl
    BY DEF NoOrphan, Present, Slot, Username, Mechanism
  <1>1. Present(obj) /\ obj.fin /\ Slot(obj.spec) = sl BY DEF OrphanInv, NoOrphan
  <1>2. ObjSame \/ ObjMade \/ ObjEdited \/ ObjReleased \/ ObjGone
    BY ObjSteps DEF UserInv, TypeOK
  <1>3. ~ObjReleased BY <1>1 DEF ObjReleased, UserInv, StepKnowledge, slot
  <1>4. CASE ObjSame BY <1>1, <1>4 DEF ObjSame
  <1>5. CASE ObjEdited BY <1>1, <1>5 DEF ObjEdited, KeepsSlot
  <1> QED BY <1>1, <1>2, <1>3, <1>4, <1>5 DEF ObjMade, ObjGone

\* The steps on the broker change no object and no copy but the held one.
LEMMA BrokerStepCopies ==
  ASSUME ConnectUser \/ UpsertUser \/ DeleteUser
  PROVE  obj' = obj /\ cache' = cache /\ local' \in {local, Absent}
  <1>1. \A next : Goto(next) => obj' = obj /\ cache' = cache /\ local' = local
    BY DEF Goto, kubeVars
  <1>2. GiveUp => obj' = obj /\ cache' = cache /\ local' = Absent BY DEF GiveUp, Return
  <1>3. Abort => obj' = obj /\ cache' = cache /\ local' \in {local, Absent}
    BY <1>1, <1>2 DEF Abort
  <1> QED BY <1>1, <1>2, <1>3 DEF ConnectUser, Connect, UpsertUser, DeleteUser, Answered

\* Only an upsert gives the operator a slot, and it is the resource's.
LEMMA UpsertSlot ==
  ASSUME UserInv, OrphanInv, UpsertUser
  PROVE  Present(obj) /\ obj.fin /\ Slot(obj.spec) = slot
  BY DEF UpsertUser, UserInv, LoopInv, PcMatchesCopy, CopyBounds, OrphanInv, SlotAgrees, slot

LEMMA OriginSteps ==
  ASSUME UserInv, ConnectUser \/ UpsertUser \/ DeleteUser,
         NEW sl \in Slots, origin'[sl] = "operator"
  PROVE  origin[sl] = "operator" \/ (UpsertUser /\ sl = slot)
  <1>1. slot \in Slots /\ origin \in [Slots -> Origins] BY SlotType DEF UserInv, TypeOK
  <1> QED BY <1>1 DEF ConnectUser, UpsertUser, DeleteUser, SetCredential, brokerVars

LEMMA OrphanStep ==
  ASSUME KeepsSlot, UserInv, OrphanInv, Next
  PROVE  OrphanInv'
  <1>1. CASE (LoopStep \/ Environment) /\ UNCHANGED origin
    BY <1>1, SlotsKept, OrphansKept DEF OrphanInv
  <1>2. CASE Restart
    BY <1>2, SlotsKept, OrphansKept DEF OrphanInv, Restart, brokerVars
  <1>3. CASE ConnectUser \/ UpsertUser \/ DeleteUser
    <2>1. obj' = obj /\ cache' = cache /\ local' \in {local, Absent}
      BY <1>3, BrokerStepCopies
    <2>2. ~Live(Absent) BY DEF Absent, Live
    <2>3. \A r : Slot(r)' = Slot(r) BY DEF Slot, Username, Mechanism
    <2>4. SlotAgrees(cache)' /\ SlotAgrees(local)'
      BY <2>1, <2>2, <2>3 DEF OrphanInv, SlotAgrees, Live
    <2>5. ASSUME NEW sl \in Slots, origin'[sl] = "operator"
          PROVE  Present(obj') /\ obj'.fin /\ Slot(obj'.spec) = sl
      BY <1>3, <2>1, <2>5, OriginSteps, UpsertSlot DEF OrphanInv, NoOrphan
    <2>6. NoOrphan' BY <2>3, <2>5 DEF NoOrphan, Present
    <2> QED BY <2>4, <2>6 DEF OrphanInv
  <1>4. CASE SecretChanges
    <2>1. UNCHANGED <<obj, cache, local, origin>>
      BY <1>4 DEF SecretChanges, kubeVars, loopVars
    <2> QED BY <2>1 DEF OrphanInv, NoOrphan, SlotAgrees, Present, Live, Slot, Username, Mechanism
  <1>5. ASSUME NEW x \in Intruded, ForeignCreate(x) PROVE OrphanInv'
    <2>1. UNCHANGED <<obj, cache, local>> /\ origin' = [origin EXCEPT ![x] = "foreign"]
      BY <1>5 DEF ForeignCreate, SetCredential, kubeVars, loopVars
    <2>2. \A sl \in Slots : origin'[sl] = "operator" => origin[sl] = "operator"
      BY <2>1 DEF UserInv, TypeOK
    <2> QED BY <2>1, <2>2
        DEF OrphanInv, NoOrphan, SlotAgrees, Present, Live, Slot, Username, Mechanism
  <1> QED BY <1>1, <1>2, <1>3, <1>4, <1>5 DEF Next, Reconcile, Others, brokerVars

LEMMA OrphanInit == Init => OrphanInv
  <1>1. ~Live(Absent) BY DEF Absent, Live
  <1> QED BY <1>1 DEF Init, LoopInit, KubeInit, OrphanInv, NoOrphan, SlotAgrees

LEMMA OrphanInvariant ==
  ASSUME KeepsSlot PROVE Spec => []OrphanInv
  <1>1. UserInv /\ OrphanInv /\ [Next]_vars => OrphanInv'
    <2>1. CASE Next BY <2>1, OrphanStep
    <2>2. CASE UNCHANGED vars
      <3>1. UNCHANGED <<obj, cache, local, origin>>
        BY <2>2 DEF vars, kubeVars, loopVars, brokerVars
      <3> QED BY <3>1
          DEF OrphanInv, NoOrphan, SlotAgrees, Present, Live, Slot, Username, Mechanism
    <2> QED BY <2>1, <2>2
  <1> QED BY <1>1, OrphanInit, UserInvariant, PTL DEF Spec

\* A credential the operator set has its resource, finalizer on, as long as no
\* edit changes the slot.
THEOREM NoCredentialOrphaned ==
  ASSUME KeepsSlot PROVE Spec => []NoOrphan
  <1>1. OrphanInv => NoOrphan BY DEF OrphanInv
  <1> QED BY <1>1, OrphanInvariant, PTL

(***************************************************************************)
(* With edits that change the slot.                                        *)
(***************************************************************************)
\* No login is taken from a live resource, its own or another one: a copy of an
\* earlier, deleted life is never acted on.
LiveNotDeleted ==
    [][Live(obj) /\ obj.fin => \A sl \in Slots : Exists(sl) => Exists(sl)']_vars

THEOREM LiveUsersStay == Spec => LiveNotDeleted
  <1> DEFINE Kept == Live(obj) /\ obj.fin => \A sl \in Slots : Exists(sl) => Exists(sl)'
  <1>1. UserInv /\ Next => Kept
    <2> SUFFICES ASSUME UserInv, Next, Live(obj), obj.fin, NEW sl \in Slots, Exists(sl)
                 PROVE  Exists(sl)'
      OBVIOUS
    <2>1. ~DeleteUser BY DEF DeleteUser, UserInv, LoopInv, PcMatchesCopy, CopyBounds
    <2>2. CASE UpsertUser
      <3>1. Iterations(local.spec) # 0
        BY SlotType DEF UserInv, UserSpecs, Iterations
      <3> QED BY <2>2, <3>1 DEF UpsertUser, SetCredential, UserInv, TypeOK, Exists, brokerVars
    <2>3. CASE \E x \in Intruded : ForeignCreate(x)
      BY <2>3 DEF ForeignCreate, SetCredential, UserInv, TypeOK, Exists
    <2>4. CASE UNCHANGED creds BY <2>4 DEF Exists
    <2> QED BY <2>1, <2>2, <2>3, <2>4
        DEF Next, Reconcile, Restart, Others, ConnectUser, SecretChanges, brokerVars
  <1>2. UserInv /\ [Next]_vars => [Kept]_vars BY <1>1
  <1>3. Spec => [][Kept]_vars BY <1>2, UserInvariant, PTL DEF Spec
  <1> QED BY <1>3 DEF LiveNotDeleted

\* The resource r holds the slot back until its credential is deleted.
Holds(r, sl) == Present(r) /\ r.fin /\ Slot(r.spec) = sl

\* A credential the operator made is left without its resource only while there
\* is a resource that is held, by an edit of the slot or by work begun before
\* that edit, and never by a release: whoever deletes a User takes away the
\* login that it then stands for.
OrphanedByEditOnly ==
    [][\A sl \in Slots : origin'[sl] = "operator" /\ ~Holds(obj', sl)
            => \/ origin[sl] = "operator" /\ ~Holds(obj, sl)
               \/ Stage(obj) # "free" /\ Stage(obj') # "free"]_vars

THEOREM ReleaseOrphansNothing == Spec => OrphanedByEditOnly
  <1> DEFINE Kept == \A sl \in Slots : origin'[sl] = "operator" /\ ~Holds(obj', sl)
                       => \/ origin[sl] = "operator" /\ ~Holds(obj, sl)
                          \/ Stage(obj) # "free" /\ Stage(obj') # "free"
  <1>1. UserInv /\ Next => Kept
    <2> SUFFICES ASSUME UserInv, Next, NEW sl \in Slots,
                        origin'[sl] = "operator", ~Holds(obj', sl),
                        origin[sl] = "operator" => Holds(obj, sl)
                 PROVE  Stage(obj) # "free" /\ Stage(obj') # "free"
      OBVIOUS
    <2>1. CASE UpsertUser
      <3>1. Present(obj) /\ obj.fin
        BY <2>1 DEF UpsertUser, UserInv, LoopInv, PcMatchesCopy, CopyBounds
      <3> QED BY <2>1, <3>1, BrokerStepCopies DEF Stage, Live
    <2>2. CASE ~UpsertUser
      <3>1. origin[sl] = "operator"
        BY <2>2 DEF Next, Reconcile, Restart, Others, ConnectUser, DeleteUser, SecretChanges,
                    ForeignCreate, SetCredential, brokerVars, UserInv, TypeOK
      <3>2. Present(obj) /\ obj.fin /\ Slot(obj.spec) = sl /\ Stage(obj) # "free"
        BY <3>1 DEF Holds, Stage
      <3>3. obj' # obj BY <3>2 DEF Holds
      <3>4. LoopStep \/ Environment \/ Crash
        BY <3>3, BrokerStepCopies
        DEF Next, Reconcile, Restart, Others, SecretChanges, ForeignCreate, kubeVars
      <3>5. ~(pc = "unfinalize" /\ local = obj)
        BY <3>1, <3>2 DEF UserInv, StepKnowledge, slot
      <3> QED BY <3>2, <3>4, <3>5, LetGo DEF UserInv, TypeOK
    <2> QED BY <2>1, <2>2
  <1>2. UserInv /\ [Next]_vars => [Kept]_vars BY <1>1
  <1>3. Spec => [][Kept]_vars BY <1>2, UserInvariant, PTL DEF Spec
  <1> QED BY <1>3 DEF OrphanedByEditOnly

(***************************************************************************)
(* The refinement of ManagedResource, if no edit changes the slot.         *)
(***************************************************************************)
RefineInv == UserInv /\ OrphanInv

LEMMA InitRefines == Init => Managed!Init
  <1> SUFFICES ASSUME Init PROVE Managed!Init
    OBVIOUS
  <1>1. obj = Absent /\ made = {} BY DEF Init, LoopInit, KubeInit, made
  <1>2. Stage(Absent) = "free" /\ ~Live(Absent) BY DEF Stage, Present, Live, Absent
  <1>3. Absent.spec \in Specs BY AbsentType DEF Resources
  <1> QED BY <1>1, <1>2, <1>3 DEF Managed!Init

\* What is applied depends on the credentials only, and what was made on their
\* origins.
LEMMA BrokerView ==
  /\ UNCHANGED creds => {s \in Specs : Applied(s)}' = {s \in Specs : Applied(s)}
  /\ UNCHANGED origin => made' = made
  BY DEF Applied, made, Slot, Username, Mechanism, Iterations

LEMMA ObjView ==
  ASSUME obj' = obj
  PROVE  /\ Stage(obj)' = Stage(obj)
         /\ (Live(obj) /\ Settled(obj))' = (Live(obj) /\ Settled(obj))
         /\ obj.spec' = obj.spec
  BY DEF Stage, Present, Live, Settled

\* A step of the loop is the promised one that its write amounts to.
LEMMA MoveRefines ==
  ASSUME KeepsSlot, RefineInv, LoopMove, LoopTypeOK', UNCHANGED <<creds, origin>>
  PROVE  Managed!Next \/ UNCHANGED Managed!vars
  <1> DEFINE ready == Live(obj) /\ Settled(obj)
             met == {s \in Specs : Applied(s)}
  <1>1. met' = met /\ made' = made BY BrokerView
  <1>2. obj.spec \in Specs /\ obj'.spec \in Specs
    BY DEF RefineInv, UserInv, TypeOK, LoopTypeOK, KubeTypeOK, Resources
  <1>3. (Served(obj) <=> ready) /\ (Served(obj') <=> ready')
    BY DEF Served, Live, Settled
  <1>4. Stage(obj)' = Stage(obj') BY DEF Stage, Present, Live
  <1> USE <1>1, <1>2, <1>3, <1>4
  <1>5. CASE MoveNone BY <1>5 DEF MoveNone, StageAndSpec, Managed!vars
  <1>6. CASE MoveUnheld BY <1>6 DEF MoveUnheld, Managed!Unheld, Managed!Next
  <1>7. CASE MoveHold BY <1>7 DEF MoveHold, StageAndSpec, Managed!Hold, Managed!Next
  <1>8. CASE MoveEdit
    <2>1. Slot(obj'.spec) = Slot(obj.spec) BY <1>8 DEF MoveEdit, KeepsSlot
    <2> QED BY <1>8, <2>1 DEF MoveEdit, Managed!Edit, Managed!Next
  <1>9. CASE MoveDelete
    BY <1>9 DEF MoveDelete, StageAndSpec, Managed!Delete, Managed!Next
  <1>10. CASE MoveReport
    <2>1. Applied(obj.spec)
      BY <1>10 DEF MoveReport, RefineInv, UserInv, StepKnowledge, HasCredential, Applied
    <2> QED BY <1>10, <2>1 DEF MoveReport, StageAndSpec, Managed!Report, Managed!Next
  <1>11. CASE MoveRelease
    <2>1. made = {}
      BY <1>11
      DEF MoveRelease, RefineInv, UserInv, StepKnowledge, OrphanInv, NoOrphan, slot, made
    <2> QED BY <1>11, <2>1 DEF MoveRelease, Managed!Release, Managed!Next
  <1> QED BY <1>5, <1>6, <1>7, <1>8, <1>9, <1>10, <1>11 DEF LoopMove

LEMMA UpsertRefines ==
  ASSUME RefineInv, UserInv', UpsertUser
  PROVE  Managed!Next \/ UNCHANGED Managed!vars
  <1> DEFINE ready == Live(obj) /\ Settled(obj)
             met == {s \in Specs : Applied(s)}
  <1>1. obj' = obj BY BrokerStepCopies
  <1>2. Stage(obj)' = Stage(obj) /\ ready' = ready /\ obj.spec' = obj.spec
    BY <1>1, ObjView
  <1>3. slot \in Slots /\ obj.spec \in Specs BY SlotType DEF RefineInv, UserInv
  <1>4. CASE UNCHANGED brokerVars
    BY <1>2, <1>4, BrokerView DEF Managed!vars, brokerVars
  <1>5. CASE ~UNCHANGED brokerVars
    <2> DEFINE c == [password |-> password, iterations |-> Iterations(local.spec)]
    <2>1. creds' = [creds EXCEPT ![slot] = c] /\ origin' = [origin EXCEPT ![slot] = "operator"]
      BY <1>5 DEF UpsertUser, SetCredential
    <2>2. Present(obj) /\ obj.fin /\ Slot(obj.spec) = slot BY UpsertSlot DEF RefineInv
    <2>3. Stage(obj) # "free" BY <2>2 DEF Stage
    <2>4. made' = made \cup {slot}
      BY <1>3, <2>1 DEF made, RefineInv, UserInv, TypeOK
    <2>5. ASSUME NEW w \in Specs, Slot(w) # slot
          PROVE  Applied(w)' <=> Applied(w)
      <3>1. creds'[Slot(w)] = creds[Slot(w)]
        BY <2>1, <2>5, SlotFacts DEF RefineInv, UserInv, TypeOK
      <3> QED BY <3>1 DEF Applied, Slot, Username, Mechanism, Iterations
    <2>6. ready => Applied(obj.spec)'
      <3>1. ready' => HasCredential(obj.spec)'
        BY DEF UserInv, ReadyMeansApplied, HasCredential
      <3>2. HasCredential(obj.spec)' => Applied(obj.spec)' BY DEF HasCredential, Applied
      <3> QED BY <1>2, <3>1, <3>2
    <2>7. \A w : (w \in met' <=> w \in Specs /\ Applied(w)') /\ (w \in met <=> w \in Specs /\ Applied(w))
      OBVIOUS
    <2>8. ready => obj.spec \in met'
      <3>1. ASSUME NEW w, w = obj.spec, ready PROVE w \in met'
        <4>1. creds'[Slot(w)] = c BY <1>3, <2>1, <2>2, <3>1 DEF RefineInv, UserInv, TypeOK
        <4>2. obj'.spec = w BY <1>1, <3>1
        <4>3. Applied(obj.spec)' BY <2>6, <3>1
        <4>4. Applied(w)'
          BY <4>2, <4>3 DEF Applied, Slot, Username, Mechanism, Iterations
        <4> QED BY <1>3, <3>1, <4>4
      <3> QED BY <3>1
    <2>9. \A w \in Specs : Slot(w) # slot => (w \in met' <=> w \in met) BY <2>5
    <2> HIDE DEF met, ready
    <2>10. Managed!Work
      BY <1>2, <1>3, <2>2, <2>3, <2>4, <2>8, <2>9 DEF Managed!Work, met, ready
    <2> QED BY <2>10 DEF Managed!Next
  <1> QED BY <1>4, <1>5

LEMMA DeleteRefines ==
  ASSUME RefineInv, DeleteUser
  PROVE  Managed!Next \/ UNCHANGED Managed!vars
  <1> DEFINE ready == Live(obj) /\ Settled(obj)
             met == {s \in Specs : Applied(s)}
  <1>1. obj' = obj BY BrokerStepCopies
  <1>2. Stage(obj)' = Stage(obj) /\ ready' = ready /\ obj.spec' = obj.spec
    BY <1>1, ObjView
  <1>3. slot \in Slots BY SlotType DEF RefineInv, UserInv
  <1>4. CASE UNCHANGED <<creds, origin>>
    BY <1>2, <1>4, BrokerView DEF Managed!vars
  <1>5. CASE ~UNCHANGED <<creds, origin>>
    <2>1. /\ creds' = [creds EXCEPT ![slot] = NoCredential]
          /\ origin' = [origin EXCEPT ![slot] = "none"]
      BY <1>5 DEF DeleteUser, SetCredential
    <2>2. Deleting(local)
      BY DEF DeleteUser, RefineInv, UserInv, LoopInv, PcMatchesCopy
    <2>3. Stage(obj) # "held"
      BY <2>2 DEF RefineInv, UserInv, LoopInv, CopyBounds, Stage
    <2>4. made' \subseteq made BY <1>3, <2>1 DEF made, RefineInv, UserInv, TypeOK
    <2>5. ASSUME NEW w \in Specs, Applied(w)' PROVE Applied(w)
      <3>1. Slot(w) \in Slots /\ Iterations(w) # 0 BY SlotFacts
      <3>2. creds'[Slot(w)].iterations = Iterations(w) /\ creds'[Slot(w)].password # NoPassword
        BY <2>5 DEF Applied, Slot, Username, Mechanism, Iterations
      <3>3. Slot(w) # slot
        BY <1>3, <2>1, <3>1, <3>2 DEF RefineInv, UserInv, TypeOK, NoCredential
      <3>4. creds'[Slot(w)] = creds[Slot(w)]
        BY <2>1, <3>1, <3>3 DEF RefineInv, UserInv, TypeOK
      <3> QED BY <3>2, <3>4 DEF Applied
    <2>6. met' \subseteq met BY <2>5
    <2> HIDE DEF met, ready
    <2>7. Managed!Clean BY <1>2, <2>3, <2>4, <2>6 DEF Managed!Clean, met, ready
    <2> QED BY <2>7 DEF Managed!Next
  <1> QED BY <1>4, <1>5

LEMMA ForeignRefines ==
  ASSUME RefineInv, NEW x \in Intruded, ForeignCreate(x)
  PROVE  Managed!OthersAdd
  <1> DEFINE ready == Live(obj) /\ Settled(obj)
             met == {s \in Specs : Applied(s)}
             c == [password |-> NoPassword, iterations |-> 4096]
  <1>1. /\ obj' = obj /\ ~Exists(x)
        /\ creds' = [creds EXCEPT ![x] = c] /\ origin' = [origin EXCEPT ![x] = "foreign"]
    BY DEF ForeignCreate, SetCredential, kubeVars
  <1>2. Stage(obj)' = Stage(obj) /\ ready' = ready /\ obj.spec' = obj.spec
    BY <1>1, ObjView
  <1>3. x \in Slots BY UserAssumption
  <1>4. made' = made
    BY <1>1, <1>3 DEF made, RefineInv, UserInv, TypeOK
  <1>5. ASSUME NEW w \in Specs, Applied(w) PROVE Applied(w)'
    <2>1. Slot(w) \in Slots /\ Iterations(w) # 0 BY SlotFacts
    <2>2. Slot(w) # x BY <1>1, <1>5, <2>1 DEF Applied, Exists
    <2>3. creds'[Slot(w)] = creds[Slot(w)]
      BY <1>1, <2>1, <2>2 DEF RefineInv, UserInv, TypeOK
    <2> QED BY <1>5, <2>3 DEF Applied, Slot, Username, Mechanism, Iterations
  <1>6. met \subseteq met' /\ met' \subseteq Specs BY <1>5
  <1> HIDE DEF met, ready
  <1> QED BY <1>2, <1>4, <1>6 DEF Managed!OthersAdd, met, ready

LEMMA StepRefines ==
  ASSUME KeepsSlot, RefineInv, RefineInv', Next
  PROVE  Managed!Next \/ UNCHANGED Managed!vars
  <1>1. LoopTypeOK' BY DEF RefineInv, UserInv, TypeOK
  <1>2. CASE (LoopStep \/ Environment \/ Crash) /\ UNCHANGED <<creds, origin>>
    <2>1. LoopMove BY <1>2, LoopMoves DEF RefineInv, UserInv, TypeOK
    <2> QED BY <1>1, <1>2, <2>1, MoveRefines
  <1>3. CASE UpsertUser BY <1>3, UpsertRefines DEF RefineInv
  <1>4. CASE DeleteUser BY <1>4, DeleteRefines
  <1>5. CASE ConnectUser \/ SecretChanges
    <2>1. obj' = obj /\ UNCHANGED <<creds, origin>>
      BY <1>5, BrokerStepCopies DEF ConnectUser, SecretChanges, kubeVars, brokerVars
    <2> QED BY <2>1, ObjView, BrokerView DEF Managed!vars
  <1>6. ASSUME NEW x \in Intruded, ForeignCreate(x) PROVE Managed!Next
    BY <1>6, ForeignRefines DEF Managed!Next
  <1> QED BY <1>2, <1>3, <1>4, <1>5, <1>6 DEF Next, Reconcile, Restart, Others, brokerVars

\* The User controller implements ManagedResource, for all specs, edits that
\* keep the slot, passwords, credentials of others and bounds.
THEOREM UsersManaged ==
  ASSUME KeepsSlot PROVE Spec => ImplementsManaged
  <1>1. RefineInv /\ RefineInv' /\ [Next]_vars => [Managed!Next]_Managed!vars
    <2>1. CASE Next BY <2>1, StepRefines
    <2>2. CASE UNCHANGED vars
      <3>1. obj' = obj /\ UNCHANGED <<creds, origin>>
        BY <2>2 DEF vars, kubeVars, brokerVars
      <3> QED BY <3>1, ObjView, BrokerView DEF Managed!vars
    <2> QED BY <2>1, <2>2
  <1>2. Spec => []RefineInv BY OrphanInvariant, UserInvariant, PTL DEF RefineInv
  <1> QED BY <1>1, <1>2, InitRefines, PTL DEF Spec, ImplementsManaged, Managed!Spec
=============================================================================

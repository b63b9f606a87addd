---------------------------- MODULE ClusterProofs -----------------------------
(***************************************************************************)
(* The Cluster controller's safety properties, and that it implements      *)
(* ClusterHealth, for every set of servers, Secrets, specs and edits and   *)
(* every bound on the generations.                                         *)
(***************************************************************************)
EXTENDS ClusterReconciler, TLAPS

(***************************************************************************)
(* Facts about a custom resource.                                          *)
(***************************************************************************)
LEMMA AbsentType == Absent \in Resources /\ ~Present(Absent)
  BY SpecsAssumption, MaxGenAssumption DEF Absent, Resources, Phases, Conditions, Present

LEMMA FreshType ==
  ASSUME NEW s \in Specs
  PROVE  /\ Fresh(s) \in Resources
         /\ Live(Fresh(s)) /\ ~Fresh(s).fin
         /\ Fresh(s).gen = 1 /\ Fresh(s).obs = 0 /\ Fresh(s).spec = s
  <1>1. Absent.fin = FALSE /\ Absent.obs = 0 BY DEF Absent
  <1>2. 1 \in 0..MaxGen /\ "live" \in Phases BY MaxGenAssumption DEF Phases
  <1> QED BY <1>1, <1>2, AbsentType DEF Fresh, Resources, Live

\* What users do to the stored object.
LEMMA UsersWrite ==
  ASSUME KubeTypeOK, Users, obj.obs <= obj.gen
  PROVE  /\ obj' \in Resources /\ seen' = {} /\ UNCHANGED <<cache, queued, timer>>
         /\ \/ \E s \in Specs : ~Present(obj) /\ obj' = Fresh(s)
            \/ /\ Present(obj) /\ <<obj.spec, obj'.spec>> \in Edits
               /\ obj' = [obj EXCEPT !.gen = @ + 1, !.spec = obj'.spec]
               /\ obj'.gen = obj.gen + 1
            \/ Present(obj) /\ obj' = Absent
            \/ Live(obj) /\ obj' = [obj EXCEPT !.phase = "deleting"]
  <1>0. obj \in Resources /\ obj.gen \in 0..MaxGen /\ MaxGen \in Nat
    BY MaxGenAssumption DEF KubeTypeOK, Resources
  <1>1. ASSUME NEW new, UserWrite(new)
        PROVE  obj' = new /\ seen' = {} /\ UNCHANGED <<cache, queued, timer>>
    BY <1>1 DEF UserWrite
  <1>2. ASSUME NEW s \in Specs, UserCreate(s)
        PROVE  /\ ~Present(obj) /\ obj' = Fresh(s) /\ obj' \in Resources
               /\ seen' = {} /\ UNCHANGED <<cache, queued, timer>>
    BY <1>1, <1>2, FreshType DEF UserCreate
  <1>3. ASSUME NEW s \in Specs, UserEdit(s)
        PROVE  /\ Present(obj) /\ <<obj.spec, obj'.spec>> \in Edits
               /\ obj' = [obj EXCEPT !.gen = @ + 1, !.spec = obj'.spec]
               /\ obj'.gen = obj.gen + 1 /\ obj' \in Resources
               /\ seen' = {} /\ UNCHANGED <<cache, queued, timer>>
    <2>1. /\ Present(obj) /\ obj.gen < MaxGen /\ <<obj.spec, s>> \in Edits
          /\ obj' = [obj EXCEPT !.gen = @ + 1, !.spec = s]
          /\ seen' = {} /\ UNCHANGED <<cache, queued, timer>>
      BY <1>1, <1>3 DEF UserEdit
    <2>2. obj.gen + 1 \in 0..MaxGen BY <1>0, <2>1
    <2>3. obj'.spec = s /\ obj'.gen = obj.gen + 1 /\ obj' \in Resources
      BY <1>0, <2>1, <2>2 DEF Resources
    <2> QED BY <2>1, <2>3
  <1>4. CASE UserDelete
    <2>1. [obj EXCEPT !.phase = "deleting"] \in Resources
      BY <1>0 DEF Resources, Phases
    <2> QED BY <1>1, <1>4, <2>1, AbsentType DEF UserDelete, Live, Present
  <1>5. CASE OthersRelease
    BY <1>1, <1>5, AbsentType DEF OthersRelease, Deleting, Present
  <1> QED BY <1>2, <1>3, <1>4, <1>5 DEF Users

(***************************************************************************)
(* GetAdminCredentials finds the login that the API describes.             *)
(***************************************************************************)
LEMMA LoginFound ==
  ASSUME NEW s \in ClusterSpecs, NEW store \in [Places -> Secrets \cup {NoSecret}],
         s.ref # NoRef, s.bootstrapServers \in Secured
  PROVE  Admin \in GetAdminCredentials(s, store) <=> Authorised(s, store)
  <1> DEFINE x == store[Place(s)]
  <1>1. /\ s.namespace \in Namespaces \cup {NoNamespace} /\ s.ref \in SecretNames
        /\ NoNamespace \notin Namespaces /\ ClusterNamespace \in Namespaces
    BY AccessAssumption DEF ClusterSpecs
  <1>2. Place(s) = <<IF s.namespace \in Namespaces THEN s.namespace ELSE ClusterNamespace, s.ref>>
    BY <1>1 DEF Place
  <1>3. Admin = [user |-> Admin.user, pass |-> Admin.pass]
        /\ Admin.user # NoKey /\ Admin.pass # NoKey
    BY AccessAssumption
  <1>4. Admin \in GetAdminCredentials(s, store)
          <=> /\ x # NoSecret /\ x.username # NoKey /\ Password(x) # NoKey
              /\ Admin = [user |-> x.username, pass |-> Password(x)]
    BY DEF GetAdminCredentials
  <1>5. Admin \in GetAdminCredentials(s, store)
          <=> x # NoSecret /\ x.username = Admin.user /\ Password(x) = Admin.pass
    BY <1>3, <1>4
  <1>6. Authorised(s, store)
          <=> /\ x # NoSecret /\ x.username = Admin.user
              /\ \/ x.password = Admin.pass
                 \/ x.password = NoKey /\ x.plaintext = Admin.pass
    BY <1>2 DEF Authorised
  <1> QED BY <1>3, <1>5, <1>6 DEF Password

\* No login that a Secret gives is taken by servers that ask for none.
LEMMA LoginRefused ==
  ASSUME NEW s \in ClusterSpecs, NEW store, s.ref # NoRef
  PROVE  NoLogin \notin GetAdminCredentials(s, store)
  BY DEF GetAdminCredentials, NoLogin

LEMMA LoginAbsent ==
  ASSUME NEW s, NEW store, s.ref = NoRef
  PROVE  GetAdminCredentials(s, store) = {NoLogin} /\ NoLogin # Admin
  BY AccessAssumption DEF GetAdminCredentials, NoLogin

\* The login of a Cluster is the one the API describes: for any servers, Secrets
\* and references, what GetAdminCredentials reads lets the operator in exactly
\* if the Secret that the reference names by the API's rules (its namespace, the
\* keys and which of them counts) holds the servers' admin.
THEOREM AdminLoginFound ==
  ASSUME NEW s \in ClusterSpecs, NEW store \in [Places -> Secrets \cup {NoSecret}]
  PROVE  (\E login \in GetAdminCredentials(s, store) : LetsIn(s.bootstrapServers, login))
           <=> Authorised(s, store)
  <1>1. CASE s.ref = NoRef BY <1>1, LoginAbsent DEF LetsIn, Authorised
  <1>2. CASE s.ref # NoRef /\ s.bootstrapServers \in Secured
    BY <1>2, LoginFound DEF LetsIn
  <1>3. CASE s.ref # NoRef /\ s.bootstrapServers \notin Secured
    BY <1>3, LoginRefused DEF LetsIn, Authorised
  <1> QED BY <1>1, <1>2, <1>3

\* A check succeeds exactly when the servers are up and the Secret holds their
\* admin.
LEMMA AnswersServing ==
  ASSUME TypeOK, NEW s \in Specs
  PROVE  Answers(s) <=> s \in serving
  <1>1. s \in ClusterSpecs /\ secrets \in [Places -> Secrets \cup {NoSecret}]
    BY ClusterAssumption DEF TypeOK
  <1> QED BY <1>1, AdminLoginFound DEF Answers, serving

(***************************************************************************)
(* The inductive invariant.                                                *)
(***************************************************************************)
\* A copy with the stored version is the stored object, and a Reconcile only
\* holds one if the cache it read it from still has it.
CopiesCurrent ==
    /\ "cache" \in seen => cache = obj
    /\ "local" \in seen => local = obj /\ "cache" \in seen /\ pc # "idle"

StepKnowledge ==
    /\ pc # "idle" => Live(local)
    /\ pc = "report" => local.spec \in reached

ClusterInv ==
    /\ TypeOK /\ CopiesCurrent /\ StepKnowledge
    /\ obj.obs <= obj.gen
    /\ ReadyWasReached /\ CheckNeverStops

LEMMA InitInv == Init => ClusterInv
  <1> SUFFICES ASSUME Init PROVE ClusterInv
    OBVIOUS
  <1>1. Absent.phase = "absent" /\ Absent.obs = 0 /\ Absent.gen = 0 BY DEF Absent
  <1> USE DEF Init, KubeInit
  <1>2. TypeOK BY AbsentType DEF TypeOK, KubeTypeOK
  <1>3. CopiesCurrent /\ StepKnowledge BY DEF CopiesCurrent, StepKnowledge
  <1>4. obj.obs <= obj.gen BY <1>1
  <1>5. ReadyWasReached /\ CheckNeverStops
    BY <1>1 DEF ReadyWasReached, CheckNeverStops, Live
  <1> QED BY <1>2, <1>3, <1>4, <1>5 DEF ClusterInv

\* The steps that write nothing to the API server.
LEMMA QuietPart ==
  ASSUME ClusterInv, IgnoreGone \/ Begin \/ CheckHealth \/ Crash \/ ServersChange \/ Settle
  PROVE  ClusterInv'
  <1> USE DEF ClusterInv, TypeOK, KubeTypeOK, CopiesCurrent, StepKnowledge, ReadyWasReached,
              CheckNeverStops, Live
  <1>1. CASE IgnoreGone BY <1>1 DEF IgnoreGone, Dequeue, clusterVars, outerVars
  <1>2. CASE Begin BY <1>2 DEF Begin, Dequeue, outerVars
  <1>3. CASE CheckHealth
    <2>1. /\ pc = "check" /\ pc' \in {"report", "fail"}
          /\ pc' = "report" => local.spec \in reached'
          /\ reached \subseteq reached' /\ reached' \subseteq reached \cup {local.spec}
          /\ UNCHANGED <<obj, cache, seen, queued, timer, local, up, secrets, calm>>
      BY <1>3 DEF CheckHealth, kubeVars, outerVars
    <2>2. local.spec \in Specs BY DEF Resources
    <2> QED BY <2>1, <2>2
  <1>4. CASE Crash
    BY <1>4, AbsentType DEF Crash, Relist, outerVars, Present
  <1>5. CASE ServersChange BY <1>5 DEF ServersChange, kubeVars
  <1>6. CASE Settle BY <1>6 DEF Settle, kubeVars, outerVars
  <1> QED BY <1>1, <1>2, <1>3, <1>4, <1>5, <1>6

\* A write from the held copy replaces the object it was read from.
LEMMA AcceptedFacts ==
  ASSUME ClusterInv, NEW new, Accepted(new)
  PROVE  /\ local = obj /\ cache = obj /\ obj' = new /\ "local" \in seen
         /\ cache' = cache /\ queued' = queued
         /\ seen' \in SUBSET {"cache", "local"} /\ "local" \notin seen'
         /\ "cache" \in seen' => obj' = obj
  BY DEF Accepted, ClusterInv, TypeOK, KubeTypeOK, CopiesCurrent

LEMMA GiveUpPart ==
  ASSUME ClusterInv, GiveUp
  PROVE  ClusterInv'
  BY AbsentType DEF GiveUp, Return, outerVars, ClusterInv, TypeOK, KubeTypeOK, CopiesCurrent,
     StepKnowledge, ReadyWasReached, CheckNeverStops, Live

LEMMA ReportPart ==
  ASSUME ClusterInv, ReportConnected \/ ReportFailure
  PROVE  ClusterInv'
  <1>0. obj \in Resources /\ obj.gen \in 0..MaxGen /\ local \in Resources
    BY DEF ClusterInv, TypeOK, KubeTypeOK, Resources
  <1>1. ASSUME NEW new \in Resources, Accepted(new), Return(TRUE), pc # "idle",
               new.spec = local.spec, new.gen = local.gen, new.obs <= new.gen,
               pc = "report" \/ new.cond # "Ready"
        PROVE  ClusterInv'
    <2>1. /\ obj' = new /\ local = obj /\ cache' = cache /\ cache = obj
          /\ seen' \in SUBSET {"cache", "local"} /\ "local" \notin seen'
          /\ ("cache" \in seen' => obj' = obj) /\ queued' = queued
      BY <1>1, AcceptedFacts
    <2>2. pc' = "idle" /\ local' = Absent /\ timer' = TRUE
          /\ UNCHANGED <<up, secrets, calm, reached>>
      BY <1>1 DEF Return, outerVars, ClusterInv, TypeOK, KubeTypeOK
    <2>3. TypeOK' BY <1>1, <2>1, <2>2, AbsentType DEF ClusterInv, TypeOK, KubeTypeOK
    <2>4. CopiesCurrent' /\ StepKnowledge' /\ CheckNeverStops'
      BY <2>1, <2>2 DEF CopiesCurrent, StepKnowledge, CheckNeverStops
    <2>5. ReadyWasReached'
      BY <1>1, <2>1, <2>2 DEF ClusterInv, StepKnowledge, ReadyWasReached
    <2> QED BY <1>1, <2>1, <2>3, <2>4, <2>5 DEF ClusterInv
  <1>2. CASE GiveUp BY <1>2, GiveUpPart
  <1>3. CASE /\ ReportConnected /\ Return(TRUE)
             /\ Accepted([local EXCEPT !.obs = local.gen, !.cond = "Ready"])
    <2> DEFINE new == [local EXCEPT !.obs = local.gen, !.cond = "Ready"]
    <2>1. /\ new \in Resources /\ new.spec = local.spec /\ new.gen = local.gen
          /\ new.obs = local.gen
      BY <1>0 DEF Resources, Conditions
    <2>2. new.obs <= new.gen BY <2>1, <1>0, MaxGenAssumption DEF Resources
    <2>3. pc = "report" BY <1>3 DEF ReportConnected
    <2>4. Accepted(new) BY <1>3
    <2> HIDE DEF new
    <2> QED BY <1>1, <1>3, <2>1, <2>2, <2>3, <2>4
  <1>4. CASE ReportFailure /\ Return(TRUE) /\ Accepted([local EXCEPT !.cond = "Failed"])
    <2> DEFINE new == [local EXCEPT !.cond = "Failed"]
    <2>1. /\ new \in Resources /\ new.spec = local.spec /\ new.gen = local.gen
          /\ new.obs = local.obs /\ new.cond = "Failed"
      BY <1>0 DEF Resources, Conditions
    <2>2. pc = "fail" /\ Accepted(new) BY <1>4 DEF ReportFailure
    <2>3. new.obs <= new.gen BY <2>1, <2>2, AcceptedFacts DEF ClusterInv
    <2> HIDE DEF new
    <2> QED BY <1>1, <1>4, <2>1, <2>2, <2>3
  <1> QED BY <1>2, <1>3, <1>4 DEF ReportConnected, ReportFailure

LEMMA UsersPart ==
  ASSUME ClusterInv, Users, UNCHANGED clusterVars
  PROVE  ClusterInv'
  <1>0. obj \in Resources /\ obj.gen \in Nat /\ obj.obs \in Nat /\ obj.obs <= obj.gen
        /\ KubeTypeOK
    BY MaxGenAssumption DEF ClusterInv, TypeOK, KubeTypeOK, Resources
  <1>1. /\ obj' \in Resources /\ seen' = {} /\ UNCHANGED <<cache, queued, timer>>
        /\ \/ \E s \in Specs : ~Present(obj) /\ obj' = Fresh(s)
           \/ /\ Present(obj) /\ <<obj.spec, obj'.spec>> \in Edits
              /\ obj' = [obj EXCEPT !.gen = @ + 1, !.spec = obj'.spec]
              /\ obj'.gen = obj.gen + 1
           \/ Present(obj) /\ obj' = Absent
           \/ Live(obj) /\ obj' = [obj EXCEPT !.phase = "deleting"]
    BY <1>0, UsersWrite
  <1>2. UNCHANGED <<pc, local, up, secrets, calm, reached>> BY DEF clusterVars, outerVars
  <1>3. TypeOK' /\ CopiesCurrent' /\ StepKnowledge' /\ CheckNeverStops'
    BY <1>1, <1>2
    DEF ClusterInv, TypeOK, KubeTypeOK, CopiesCurrent, StepKnowledge, CheckNeverStops, Live
  <1>4. obj'.obs <= obj'.gen /\ (Live(obj') => obj'.obs # obj'.gen)
    <2>1. ASSUME NEW s \in Specs, obj' = Fresh(s) PROVE <1>4!1 /\ <1>4!2
      BY <2>1, FreshType
    <2>2. CASE obj' = Absent
      BY <2>2 DEF Absent, Live
    <2>3. CASE obj' = [obj EXCEPT !.phase = "deleting"]
      <3>1. obj'.phase = "deleting" /\ obj'.obs = obj.obs /\ obj'.gen = obj.gen
        BY <1>0, <2>3 DEF Resources
      <3> QED BY <1>0, <3>1 DEF Live
    <2>4. CASE /\ obj' = [obj EXCEPT !.gen = @ + 1, !.spec = obj'.spec]
               /\ obj'.gen = obj.gen + 1
      <3>1. obj'.obs = obj.obs BY <1>0, <2>4 DEF Resources
      <3> QED BY <1>0, <2>4, <3>1
    <2> QED BY <1>1, <2>1, <2>2, <2>3, <2>4
  <1>5. ReadyWasReached' BY <1>4 DEF ReadyWasReached, Live
  <1> QED BY <1>3, <1>4, <1>5 DEF ClusterInv

LEMMA StepInv ==
  ASSUME ClusterInv, Next
  PROVE  ClusterInv'
  <1> USE DEF ClusterInv, TypeOK, KubeTypeOK, CopiesCurrent, StepKnowledge, ReadyWasReached,
              CheckNeverStops, Live
  <1>1. CASE Deliver /\ UNCHANGED clusterVars
    BY <1>1 DEF Deliver, clusterVars, outerVars
  <1>2. CASE TimerFires /\ UNCHANGED clusterVars
    BY <1>2 DEF TimerFires, clusterVars, outerVars
  <1> QED BY <1>1, <1>2, QuietPart, ReportPart, UsersPart DEF Next, Reconcile, Others

LEMMA ClusterInvariant == Spec => []ClusterInv
  <1>1. ASSUME ClusterInv, UNCHANGED vars PROVE ClusterInv'
    BY <1>1 DEF vars, kubeVars, clusterVars, outerVars, ClusterInv, TypeOK, KubeTypeOK,
       CopiesCurrent, StepKnowledge, ReadyWasReached, CheckNeverStops, Live
  <1>2. ClusterInv /\ [Next]_vars => ClusterInv' BY <1>1, StepInv
  <1> QED BY <1>2, InitInv, PTL DEF Spec

(***************************************************************************)
(* The theorems.                                                           *)
(***************************************************************************)
\* Every variable keeps to its type.
THEOREM TypeCorrect == Spec => []TypeOK
  <1>1. ClusterInv => TypeOK BY DEF ClusterInv
  <1> QED BY <1>1, ClusterInvariant, PTL

\* A Cluster that is Ready for its generation names servers that answered.
THEOREM ReadyClustersReached == Spec => []ReadyWasReached
  <1>1. ClusterInv => ReadyWasReached BY DEF ClusterInv
  <1> QED BY <1>1, ClusterInvariant, PTL

\* The health check of a live Cluster never stops.
THEOREM ChecksNeverStop == Spec => []CheckNeverStops
  <1>1. ClusterInv => CheckNeverStops BY DEF ClusterInv
  <1> QED BY <1>1, ClusterInvariant, PTL

(***************************************************************************)
(* The refinement of ClusterHealth.                                        *)
(***************************************************************************)
verdict == IF "local" \notin seen THEN "none"
           ELSE IF pc = "report" THEN "answers"
           ELSE IF pc = "fail" THEN "silent" ELSE "none"

LEMMA InitRefines == Init => Health!Init
  <1> SUFFICES ASSUME Init PROVE Health!Init
    OBVIOUS
  <1>1. AsHealth(Absent) = Health!NoCluster BY DEF AsHealth, Absent, Health!NoCluster
  <1>2. obj = Absent /\ cache = Absent /\ seen = {"cache"} /\ reached = {} /\ ~calm
    BY DEF Init, KubeInit
  <1> QED BY <1>1, <1>2 DEF Health!Init, serving

\* What serves depends on the servers and the Secrets only.
LEMMA ServingKept == UNCHANGED outerVars => serving' = serving
  BY DEF serving, Authorised, outerVars

LEMMA QuietRefines ==
  ASSUME ClusterInv,
         IgnoreGone \/ Begin \/ CheckHealth \/ Crash \/ ServersChange \/ Settle
  PROVE  Health!Next \/ UNCHANGED Health!vars
  <1> USE DEF AsHealth
  <1>1. CASE IgnoreGone
    <2>1. UNCHANGED <<obj, cache, seen, pc, calm, reached, outerVars>>
      BY <1>1 DEF IgnoreGone, clusterVars
    <2> QED BY <2>1, ServingKept DEF Health!vars
  <1>2. CASE Begin
    <2>1. UNCHANGED <<obj, cache, calm, reached, outerVars>> BY <1>2 DEF Begin
    <2>2. "local" \notin seen /\ pc' = "check"
      BY <1>2 DEF Begin, Dequeue, ClusterInv, CopiesCurrent
    <2> QED BY <2>1, <2>2, ServingKept DEF Health!vars
  <1>3. CASE CheckHealth
    <2>1. /\ pc = "check" /\ pc' = IF Answers(local.spec) THEN "report" ELSE "fail"
          /\ reached' = reached \cup {s \in {local.spec} : Answers(s)}
          /\ UNCHANGED <<obj, cache, seen, calm, outerVars>>
      BY <1>3 DEF CheckHealth, kubeVars
    <2>2. local.spec \in Specs /\ Live(local)
      BY <2>1 DEF ClusterInv, TypeOK, Resources, StepKnowledge
    <2>3. Answers(local.spec) <=> local.spec \in serving
      BY <2>2, AnswersServing DEF ClusterInv
    <2>4. serving' = serving BY <2>1, ServingKept
    <2>5. CASE "local" \in seen
      <3>1. local = obj BY <2>5 DEF ClusterInv, CopiesCurrent
      <3>2. reached' = reached \cup ({obj.spec} \cap serving) BY <2>1, <2>3, <3>1
      <3>3. Health!Check
        BY <2>1, <2>2, <2>3, <2>4, <2>5, <3>1, <3>2 DEF Health!Check, Live
      <3> QED BY <3>3 DEF Health!Next
    <2>6. CASE "local" \notin seen /\ Answers(local.spec)
      <3>1. reached' = reached \cup {local.spec} BY <2>1, <2>6
      <3>2. Health!CheckOld BY <2>1, <2>3, <2>4, <2>6, <3>1 DEF Health!CheckOld
      <3> QED BY <3>2 DEF Health!Next
    <2>7. CASE "local" \notin seen /\ ~Answers(local.spec)
      <3>1. reached' = reached BY <2>1, <2>7
      <3> QED BY <2>1, <2>4, <2>7, <3>1 DEF Health!vars
    <2> QED BY <2>5, <2>6, <2>7
  <1>4. CASE Crash
    <2>1. ~calm /\ cache' = obj /\ seen' = {"cache"} /\ UNCHANGED <<obj, outerVars, calm, reached>>
      BY <1>4 DEF Crash, Relist
    <2>2. Health!Restart BY <2>1, ServingKept DEF Health!Restart
    <2> QED BY <2>2 DEF Health!Next
  <1>5. CASE ServersChange
    <2>1. ~calm /\ UNCHANGED <<obj, cache, seen, pc, calm, reached>>
      BY <1>5 DEF ServersChange, kubeVars
    <2>2. serving' \subseteq Specs BY DEF serving
    <2>3. Health!ServersChange BY <2>1, <2>2 DEF Health!ServersChange
    <2> QED BY <2>3 DEF Health!Next
  <1>6. CASE Settle
    <2>1. ~calm /\ calm' = TRUE /\ UNCHANGED <<obj, cache, seen, pc, reached, outerVars>>
      BY <1>6 DEF Settle, kubeVars
    <2>2. Health!Settle BY <2>1, ServingKept DEF Health!Settle
    <2> QED BY <2>2 DEF Health!Next
  <1> QED BY <1>1, <1>2, <1>3, <1>4, <1>5, <1>6

LEMMA ReportRefines ==
  ASSUME ClusterInv, ReportConnected \/ ReportFailure
  PROVE  Health!Next \/ UNCHANGED Health!vars
  <1>0. obj \in Resources BY DEF ClusterInv, TypeOK, KubeTypeOK
  <1>1. CASE WriteFails /\ GiveUp
    <2>1. /\ UNCHANGED <<obj, cache, calm, reached, outerVars>> /\ "local" \notin seen'
          /\ ~calm \/ "local" \notin seen
      BY <1>1 DEF WriteFails, GiveUp, Return
    <2>2. CASE "local" \notin seen
      BY <2>1, <2>2, ServingKept DEF Health!vars, AsHealth
    <2>3. CASE ~calm
      BY <2>1, <2>3, ServingKept DEF Health!Forget, Health!Next, AsHealth
    <2> QED BY <2>1, <2>2, <2>3
  <1>2. ASSUME NEW new, Accepted(new), Return(TRUE), pc \in {"report", "fail"},
               new.phase = local.phase, new.spec = local.spec,
               new.cond = "Ready" <=> pc = "report"
        PROVE  Health!Report
    <2>1. /\ obj' = new /\ local = obj /\ cache' = cache /\ "local" \in seen
          /\ "local" \notin seen'
      BY <1>2, AcceptedFacts
    <2>2. UNCHANGED <<calm, reached, outerVars>> BY <1>2 DEF Return
    <2>3. obj'.phase = obj.phase /\ obj'.spec = obj.spec
          /\ (obj'.cond = "Ready" <=> pc = "report")
      BY <1>2, <2>1
    <2>4. AsHealth(obj') = [AsHealth(obj) EXCEPT !.ready = (pc = "report")]
      BY <2>3 DEF AsHealth
    <2>5. AsHealth(obj)' = AsHealth(obj') /\ AsHealth(cache)' = AsHealth(cache)
      BY <2>1 DEF AsHealth
    <2>6. serving' = serving BY <2>2, ServingKept
    <2> QED BY <1>2, <2>1, <2>2, <2>4, <2>5, <2>6 DEF Health!Report
  <1>3. CASE /\ ReportConnected /\ Return(TRUE)
             /\ Accepted([local EXCEPT !.obs = local.gen, !.cond = "Ready"])
    <2> DEFINE new == [local EXCEPT !.obs = local.gen, !.cond = "Ready"]
    <2>1. local \in Resources BY DEF ClusterInv, TypeOK
    <2>2. new.phase = local.phase /\ new.spec = local.spec /\ new.cond = "Ready"
      BY <2>1 DEF Resources
    <2>3. Accepted(new) /\ pc = "report" BY <1>3 DEF ReportConnected
    <2> HIDE DEF new
    <2> QED BY <1>2, <1>3, <2>2, <2>3 DEF Health!Next
  <1>4. CASE ReportFailure /\ Return(TRUE) /\ Accepted([local EXCEPT !.cond = "Failed"])
    <2> DEFINE new == [local EXCEPT !.cond = "Failed"]
    <2>1. local \in Resources BY DEF ClusterInv, TypeOK
    <2>2. new.phase = local.phase /\ new.spec = local.spec /\ new.cond # "Ready"
      BY <2>1 DEF Resources
    <2>3. Accepted(new) /\ pc = "fail" BY <1>4 DEF ReportFailure
    <2> HIDE DEF new
    <2> QED BY <1>2, <1>4, <2>2, <2>3 DEF Health!Next
  <1> QED BY <1>1, <1>3, <1>4 DEF ReportConnected, ReportFailure

LEMMA OthersRefine ==
  ASSUME ClusterInv, Users \/ Deliver \/ TimerFires, UNCHANGED clusterVars
  PROVE  Health!Next \/ UNCHANGED Health!vars
  <1>0. obj \in Resources /\ KubeTypeOK /\ obj.obs <= obj.gen
    BY DEF ClusterInv, TypeOK, KubeTypeOK
  <1>1. UNCHANGED <<pc, calm, reached>> /\ serving' = serving
    BY ServingKept DEF clusterVars
  <1>2. AsHealth(obj)' = AsHealth(obj') /\ AsHealth(cache)' = AsHealth(cache')
    BY DEF AsHealth
  <1>3. CASE Deliver
    <2>1. cache' = obj /\ obj' = obj /\ ("local" \in seen' <=> "local" \in seen)
      BY <1>3 DEF Deliver
    <2> QED BY <1>1, <1>2, <2>1 DEF Health!Show, Health!Next
  <1>4. CASE TimerFires
    BY <1>1, <1>2, <1>4 DEF TimerFires, Health!vars
  <1>5. CASE Users
    <2>1. /\ obj' \in Resources /\ seen' = {} /\ UNCHANGED <<cache, queued, timer>>
          /\ \/ \E s \in Specs : ~Present(obj) /\ obj' = Fresh(s)
             \/ /\ Present(obj) /\ <<obj.spec, obj'.spec>> \in Edits
                /\ obj' = [obj EXCEPT !.gen = @ + 1, !.spec = obj'.spec]
                /\ obj'.gen = obj.gen + 1
             \/ Present(obj) /\ obj' = Absent
             \/ Live(obj) /\ obj' = [obj EXCEPT !.phase = "deleting"]
      BY <1>0, <1>5, UsersWrite
    <2>2. ASSUME NEW c, AsHealth(obj') = c PROVE Health!Write(c)
      BY <1>1, <1>2, <2>1, <2>2 DEF Health!Write
    <2>3. ASSUME NEW s \in Specs, ~Present(obj), obj' = Fresh(s) PROVE Health!Create(s)
      <3>1. AsHealth(obj') = [phase |-> "live", servers |-> s, ready |-> FALSE]
        <4>1. /\ Fresh(s).phase = "live" /\ Fresh(s).spec = s
              /\ Fresh(s).cond = Absent.cond /\ Absent.cond = "Unset"
          BY FreshType DEF Fresh, Absent, Live
        <4> QED BY <2>3, <4>1 DEF AsHealth
      <3> QED BY <2>2, <2>3, <3>1 DEF Health!Create, AsHealth, Present
    <2>4. ASSUME Present(obj), <<obj.spec, obj'.spec>> \in Edits,
                 obj' = [obj EXCEPT !.gen = @ + 1, !.spec = obj'.spec]
          PROVE  Health!Move(obj'.spec)
      <3>1. obj'.phase = obj.phase /\ obj'.cond = obj.cond BY <1>0, <2>4 DEF Resources
      <3>2. AsHealth(obj') = [AsHealth(obj) EXCEPT !.servers = obj'.spec]
        BY <3>1 DEF AsHealth
      <3> QED BY <2>2, <2>4, <3>2 DEF Health!Move, AsHealth, Present
    <2>5. ASSUME Present(obj), obj' = Absent PROVE Health!Delete
      <3>1. AsHealth(obj') = Health!NoCluster
        BY <2>5 DEF AsHealth, Absent, Health!NoCluster
      <3> QED BY <2>2, <2>5, <3>1 DEF Health!Delete, AsHealth, Present
    <2>6. ASSUME Live(obj), obj' = [obj EXCEPT !.phase = "deleting"] PROVE Health!Delete
      <3>1. obj'.phase = "deleting" /\ obj'.spec = obj.spec /\ obj'.cond = obj.cond
        BY <1>0, <2>6 DEF Resources
      <3>2. AsHealth(obj') = [AsHealth(obj) EXCEPT !.phase = "deleting"]
        BY <3>1 DEF AsHealth
      <3> QED BY <2>2, <2>6, <3>2 DEF Health!Delete, AsHealth, Live
    <2>7. obj'.spec \in Specs BY <2>1 DEF Resources
    <2> QED BY <2>1, <2>3, <2>4, <2>5, <2>6, <2>7 DEF Health!Users, Health!Next
  <1> QED BY <1>3, <1>4, <1>5

\* The Cluster controller implements ClusterHealth.
THEOREM ClustersHealthy == Spec => ImplementsHealth
  <1>1. ClusterInv /\ [Next]_vars => [Health!Next]_Health!vars
    <2>1. CASE ClusterInv /\ Next
      BY <2>1, QuietRefines, ReportRefines, OthersRefine DEF Next, Reconcile, Others
    <2>2. CASE UNCHANGED vars
      <3>1. UNCHANGED <<obj, cache, seen, pc, calm, reached, outerVars>>
        BY <2>2 DEF vars, kubeVars, clusterVars
      <3> QED BY <3>1, ServingKept DEF Health!vars, AsHealth
    <2> QED BY <2>1, <2>2
  <1> QED BY <1>1, ClusterInvariant, InitRefines, PTL DEF Spec, ImplementsHealth, Health!Spec
=============================================================================

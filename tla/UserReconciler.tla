--------------------------- MODULE UserReconciler ---------------------------
(***************************************************************************)
(* The User controller (internal/controller/user_controller.go) and the    *)
(* broker operations it uses (internal/bufstream/user.go), for one User    *)
(* resource, the Secret with its password and the broker's SCRAM           *)
(* credentials.  The broker keeps one credential per user and mechanism.   *)
(***************************************************************************)
EXTENDS ReconcileLoop

CONSTANTS UserNames,          \* user names on the broker
          NoName,             \* an empty spec.username
          ResourceName,       \* metadata.name of the resource
          Passwords,          \* what the Secret may hold under its key
          NoPassword,         \* the Secret, or its key, is missing
          Intruded,           \* the credentials that others may make
          NotFoundRecognised  \* the broker library's error text for a
                              \* credential that is not there is the literal

VARIABLES secret,    \* the password in the Secret, as the cache shows it
          password,  \* what getPassword returned
          creds,     \* the broker's credentials; no iterations: there is none
          origin,    \* who made each of them (history, read by no action)
          rotated    \* the Secret changed since its password was last set (history)

brokerVars == <<creds, origin, rotated>>
vars == <<kubeVars, loopVars, secret, password, brokerVars>>

Mechanisms == {"SCRAM-SHA-256", "SCRAM-SHA-512"}
Slots == UserNames \X Mechanisms
Credentials == [password : Passwords \cup {NoPassword}, iterations : Nat]
NoCredential == [password |-> NoPassword, iterations |-> 0]
Origins == {"none", "operator", "foreign"}

\* A UserSpec, but for the names of its Cluster and its Secret; a field with its
\* zero value was left out.
UserSpecs == [username : UserNames \cup {NoName},
              mechanism : Mechanisms \cup {""}, iterations : Nat]

ASSUME UserAssumption ==
    /\ Specs \subseteq UserSpecs
    /\ ResourceName \in UserNames /\ NoName \notin UserNames
    /\ Intruded \subseteq Slots
    /\ Passwords # {} /\ NoPassword \notin Passwords
    /\ NotFoundRecognised \in BOOLEAN

(***************************************************************************)
(* Defaults.  An unknown or missing mechanism is SCRAM-SHA-512 in each of  *)
(* getMechanism, UpsertUserCredentials and DeleteUserCredentials.          *)
(***************************************************************************)
Username(s) == IF s.username = NoName THEN ResourceName ELSE s.username
Mechanism(s) == IF s.mechanism = "SCRAM-SHA-256" THEN s.mechanism ELSE "SCRAM-SHA-512"
Iterations(s) == IF s.iterations = 0 THEN 4096 ELSE s.iterations

Slot(s) == <<Username(s), Mechanism(s)>>
slot == Slot(local.spec)

Exists(sl) == creds[sl].iterations # 0

SetCredential(sl, c, who) ==
    /\ creds' = [creds EXCEPT ![sl] = c]
    /\ origin' = [origin EXCEPT ![sl] = who]

Answered(next) == Goto(next) \/ (~calm /\ Abort)

(***************************************************************************)
(* reconcileUser reads the password before it connects and sends it after. *)
(***************************************************************************)
ConnectUser ==
    /\ UNCHANGED <<secret, brokerVars>>
    /\ \/ Connect("upsert") /\ (Live(local) => secret # NoPassword)
       \/ pc = "connect" /\ Live(local) /\ secret = NoPassword /\ Abort
    /\ password' = IF pc' = "upsert" THEN secret ELSE NoPassword

\* Mutant: the iterations of an existing credential are left as they are.
UpsertPasswordOnly ==
    /\ pc = "upsert"
    /\ password' = NoPassword /\ UNCHANGED secret
    /\ SetCredential(slot, [password |-> password,
                            iterations |-> IF Exists(slot) THEN creds[slot].iterations
                                           ELSE Iterations(local.spec)], "operator")
    /\ rotated' = (password # secret)
    /\ Answered("report")

UpsertUser ==
    /\ pc = "upsert"
    /\ password' = NoPassword /\ UNCHANGED secret
    /\ \/ /\ SetCredential(slot, [password |-> password,
                                  iterations |-> Iterations(local.spec)], "operator")
          /\ rotated' = (password # secret)
          /\ Answered("report")
       \/ ~calm /\ Abort /\ UNCHANGED brokerVars

\* Mutant: the broker's error is taken for "not found".
DeleteIgnoringErrors ==
    /\ pc = "delete"
    /\ UNCHANGED <<secret, password, rotated>>
    /\ Goto("unfinalize")
    /\ \/ Exists(slot) /\ SetCredential(slot, NoCredential, "none")
       \/ UNCHANGED <<creds, origin>>

DeleteUser ==
    /\ pc = "delete"
    /\ UNCHANGED <<secret, password, rotated>>
    /\ \/ /\ Exists(slot)
          /\ SetCredential(slot, NoCredential, "none")
          /\ Answered("unfinalize")
       \/ /\ ~Exists(slot) /\ NotFoundRecognised
          /\ Goto("unfinalize") /\ UNCHANGED <<creds, origin>>
       \/ /\ ~calm \/ (~Exists(slot) /\ ~NotFoundRecognised)
          /\ GiveUp /\ UNCHANGED <<creds, origin>>

(***************************************************************************)
(* Others.                                                                 *)
(***************************************************************************)
\* The Secret is rotated, goes or comes.  The controller does not watch it.
SecretChanges ==
    /\ ~calm
    /\ secret' \in (Passwords \cup {NoPassword}) \ {secret}
    /\ rotated' = TRUE
    /\ UNCHANGED <<kubeVars, loopVars, password, creds, origin>>

\* Somebody else makes a credential that is not there, with a password of theirs.
ForeignCreate(sl) ==
    /\ ~Exists(sl)
    /\ SetCredential(sl, [password |-> NoPassword, iterations |-> 4096], "foreign")
    /\ UNCHANGED <<kubeVars, loopVars, secret, password, rotated>>

\* With the outages a missing Secret ends as well.
SecretKept ==
    IF calm' # calm /\ secret = NoPassword
    THEN secret' \in Passwords /\ rotated' = TRUE
    ELSE UNCHANGED <<secret, rotated>>

(***************************************************************************)
(* The specification.                                                      *)
(***************************************************************************)
Init ==
    /\ LoopInit
    /\ secret \in Passwords \cup {NoPassword}
    /\ password = NoPassword
    /\ creds = [sl \in Slots |-> NoCredential]
    /\ origin = [sl \in Slots |-> "none"]
    /\ rotated = FALSE

Reconcile ==
    \/ LoopStep /\ UNCHANGED <<secret, password, brokerVars>>
    \/ ConnectUser \/ UpsertUser \/ DeleteUser

Restart == Crash /\ password' = NoPassword /\ UNCHANGED <<secret, brokerVars>>

Others ==
    \/ Environment /\ SecretKept /\ UNCHANGED <<password, creds, origin>>
    \/ SecretChanges
    \/ \E sl \in Intruded : ForeignCreate(sl)

Next == Reconcile \/ Restart \/ Others

Spec == Init /\ [][Next]_vars

Fairness ==
    /\ WF_vars(Reconcile)
    /\ WF_vars(Deliver /\ UNCHANGED <<loopVars, secret, password, brokerVars>>)
    /\ WF_vars(TimerFires /\ UNCHANGED <<loopVars, secret, password, brokerVars>>)
    /\ WF_vars(Recover /\ SecretKept /\ UNCHANGED <<password, creds, origin>>)

LiveSpec == Spec /\ Fairness

(***************************************************************************)
(* Properties.                                                             *)
(***************************************************************************)
\* Every variable keeps to its type.
TypeOK ==
    /\ LoopTypeOK
    /\ pc \in (LoopPcs \ {"refuse"}) \cup {"upsert", "delete"}
    /\ secret \in Passwords \cup {NoPassword} /\ password \in Passwords \cup {NoPassword}
    /\ creds \in [Slots -> Credentials] /\ origin \in [Slots -> Origins]
    /\ rotated \in BOOLEAN

\* A User that reports Ready for its current generation can log in with what
\* its spec says: the credential is there, with the iterations asked for and a
\* password, which until the Secret changes again is the Secret's (157-278).
ReadyMeansApplied ==
    Live(obj) /\ Settled(obj) =>
        LET c == creds[Slot(obj.spec)]
        IN  /\ c.iterations = Iterations(obj.spec)
            /\ c.password # NoPassword
            /\ c.password = secret \/ rotated

\* A credential the operator set has its resource, with the finalizer on it.
NoOrphan ==
    \A sl \in Slots : origin[sl] = "operator" =>
        Present(obj) /\ obj.fin /\ Slot(obj.spec) = sl

\* What the operator made and still has.
made == {sl \in Slots : origin[sl] = "operator"}

\* A live User becomes Ready for its generation, one that is deleted loses its
\* credential: no lost answer, failed call or restart makes the operator stop
\* trying (92-278), and each try starts from whatever the last one left.
EventuallyServed ==
    Live(obj) \/ made # {} ~> IF Live(obj) THEN Settled(obj) ELSE made = {}

(***************************************************************************)
(* The refinement of ManagedResource.                                      *)
(***************************************************************************)
Applied(s) ==
    LET c == creds[Slot(s)] IN c.iterations = Iterations(s) /\ c.password # NoPassword

Managed == INSTANCE ManagedResource WITH
    Wants <- Specs,
    Thing <- [s \in Specs |-> Slot(s)],
    stage <- Stage(obj),
    want <- obj.spec,
    ready <- Live(obj) /\ Settled(obj),
    made <- made,
    met <- {s \in Specs : Applied(s)}

\* The User controller does what ManagedResource promises, through stale
\* copies, conflicts, crashes and lost answers, as long as edits keep the slot.
ImplementsManaged == Managed!Spec
=============================================================================

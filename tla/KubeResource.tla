---------------------------- MODULE KubeResource ----------------------------
(***************************************************************************)
(* One custom resource (a Topic, a User or an ACL) as the operator meets   *)
(* it: the object the Kubernetes API server stores, the copy of it in the  *)
(* operator's informer cache, and the work queue its events feed.  None of *)
(* this is code of the repository: it is the controller-runtime and API    *)
(* server behaviour the reconcilers are written against.                   *)
(*                                                                         *)
(* A resourceVersion is modelled by what it decides: "seen" holds the      *)
(* copies ("cache", and "local", the one a running Reconcile holds) that   *)
(* carry the stored object's current version.  A write from a copy that is *)
(* not in "seen" is refused with a conflict.                               *)
(***************************************************************************)
EXTENDS Integers

CONSTANTS Specs,    \* the specs a user may give the resource
          Edits,    \* the spec edits a user may make, as <<old, new>> pairs
          MaxGen    \* bound: the generations one object goes through

ASSUME SpecsAssumption == Specs # {} /\ Edits \subseteq Specs \X Specs
ASSUME MaxGenAssumption == MaxGen \in Nat \ {0}

VARIABLES obj,      \* the object as the API server stores it
          cache,    \* the informer's copy, which r.Get reads
          seen,     \* the copies that carry obj's resourceVersion
          queued,   \* the key waits in the work queue
          timer     \* the key is due to be added again (Requeue, error)

kubeVars == <<obj, cache, seen, queued, timer>>

(***************************************************************************)
(* "cond" is the Ready condition together with its reason: not yet set,    *)
(* True, False after an error, False with reason TopicExists.  The other   *)
(* reported fields are copies of the spec of generation "obs", and the     *)
(* Degraded condition is always written with Ready, as its opposite.       *)
(***************************************************************************)
Phases == {"absent", "live", "deleting"}
Conditions == {"Unset", "Ready", "Failed", "Refused"}

Resources == [phase : Phases, fin : BOOLEAN, gen : 0..MaxGen, spec : Specs,
              obs : 0..MaxGen, cond : Conditions]

Absent == [phase |-> "absent", fin |-> FALSE, gen |-> 0,
           spec |-> CHOOSE s \in Specs : TRUE, obs |-> 0, cond |-> "Unset"]

Fresh(s) == [Absent EXCEPT !.phase = "live", !.gen = 1, !.spec = s]

Present(r) == r.phase # "absent"
Live(r) == r.phase = "live"
Deleting(r) == r.phase = "deleting"

KubeTypeOK ==
    /\ obj \in Resources /\ cache \in Resources
    /\ seen \in SUBSET {"cache", "local"}
    /\ queued \in BOOLEAN /\ timer \in BOOLEAN

KubeInit ==
    /\ obj = Absent /\ cache = Absent
    /\ seen = {"cache"}
    /\ queued = FALSE /\ timer = FALSE

(***************************************************************************)
(* What users do to the resource.  A user's write always makes a version.  *)
(***************************************************************************)
UserWrite(new) ==
    /\ obj' = new
    /\ seen' = {}
    /\ UNCHANGED <<cache, queued, timer>>

UserCreate(s) == ~Present(obj) /\ UserWrite(Fresh(s))

UserEdit(s) ==
    /\ Present(obj) /\ obj.gen < MaxGen
    /\ s # obj.spec /\ <<obj.spec, s>> \in Edits
    /\ UserWrite([obj EXCEPT !.gen = @ + 1, !.spec = s])

\* The object goes at once when nothing holds it.  The operator's finalizer
\* holds it, and so may one of somebody else (a foreground deletion).
UserDelete ==
    /\ Live(obj)
    /\ \/ ~obj.fin /\ UserWrite(Absent)
       \/ UserWrite([obj EXCEPT !.phase = "deleting"])

\* The last finalizer of others goes from an object the operator released.
OthersRelease == Deleting(obj) /\ ~obj.fin /\ UserWrite(Absent)

(***************************************************************************)
(* What controller-runtime does between two calls of Reconcile.            *)
(***************************************************************************)
\* The informer catches up with the store and its handler queues the key.
Deliver ==
    /\ "cache" \notin seen
    /\ cache' = obj
    /\ seen' = seen \cup {"cache"}
    /\ queued' = TRUE
    /\ UNCHANGED <<obj, timer>>

TimerFires ==
    /\ timer /\ timer' = FALSE
    /\ queued' = TRUE
    /\ UNCHANGED <<obj, cache, seen>>

\* A write the API server accepts from the copy a Reconcile holds.  One that
\* changes nothing the server stores makes no new version.
Accepted(new) ==
    /\ "local" \in seen
    /\ obj' = new
    /\ \/ seen' = {}
       \/ new = obj /\ seen' = seen \ {"local"}
    /\ UNCHANGED <<cache, queued>>

\* A restarted operator lists the objects before it starts to work.
Relist ==
    /\ cache' = obj
    /\ seen' = {"cache"}
    /\ queued' = Present(obj)
    /\ timer' = FALSE
    /\ UNCHANGED obj

Users ==
    \/ \E s \in Specs : UserCreate(s) \/ UserEdit(s)
    \/ UserDelete
    \/ OthersRelease
=============================================================================

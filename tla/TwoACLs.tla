------------------------------ MODULE TwoACLs -------------------------------
(***************************************************************************)
(* Two ACL resources that write the same entry of the access list, as an   *)
(* empty host and "*" do, reconciled by the one worker of the ACL          *)
(* controller.  Each has an object, a cached copy and a queue key of its   *)
(* own (suffixes A and B); the Cluster, the outages and the broker's list  *)
(* are shared.  The Cluster stays ready and a resource lives once: what    *)
(* changes of either do is checked for one resource.                       *)
(***************************************************************************)
EXTENDS ACLConversion

CONSTANTS SpecsA, SpecsB

ASSUME TwinAssumption ==
    /\ SpecsA # {} /\ SpecsA \subseteq ACLSpecs
    /\ SpecsB # {} /\ SpecsB \subseteq ACLSpecs

VARIABLES objA, cacheA, seenA, queuedA, timerA, pcA, localA,
          objB, cacheB, seenB, queuedB, timerB, pcB, localB,
          cluster, calm, acls, mine,
          deletedA, deletedB  \* the resource was deleted (history; ends its life)

aVars == <<objA, cacheA, seenA, queuedA, timerA, pcA, localA>>
bVars == <<objB, cacheB, seenB, queuedB, timerB, pcB, localB>>
brokerVars == <<acls, mine>>
vars == <<aVars, bVars, cluster, calm, brokerVars, deletedA, deletedB>>

A == INSTANCE ACLReconciler WITH
    Specs <- SpecsA, Edits <- {}, MaxGen <- 1, ForeignEntries <- {},
    obj <- objA, cache <- cacheA, seen <- seenA, queued <- queuedA, timer <- timerA,
    pc <- pcA, local <- localA

B == INSTANCE ACLReconciler WITH
    Specs <- SpecsB, Edits <- {}, MaxGen <- 1, ForeignEntries <- {},
    obj <- objB, cache <- cacheB, seen <- seenB, queued <- queuedB, timer <- timerB,
    pc <- pcB, local <- localB

Init ==
    /\ A!Init /\ B!Init
    /\ cluster = "ready"
    /\ deletedA = FALSE /\ deletedB = FALSE

(***************************************************************************)
(* The worker takes the next key when Reconcile has returned for the last. *)
(***************************************************************************)
ReconcileA == pcB = "idle" /\ A!Reconcile /\ UNCHANGED <<bVars, deletedA, deletedB>>
ReconcileB == pcA = "idle" /\ B!Reconcile /\ UNCHANGED <<aVars, deletedA, deletedB>>

Restart == A!Restart /\ B!Restart /\ UNCHANGED <<deletedA, deletedB>>

(***************************************************************************)
(* The environment of the worker.                                          *)
(***************************************************************************)
UsersA ==
    /\ \/ ~deletedA /\ \E s \in SpecsA : A!UserCreate(s)
       \/ A!UserDelete \/ A!OthersRelease
    /\ deletedA' = (deletedA \/ ~A!Live(objA'))
    /\ UNCHANGED <<pcA, localA, cluster, calm, bVars, brokerVars, deletedB>>

UsersB ==
    /\ \/ ~deletedB /\ \E s \in SpecsB : B!UserCreate(s)
       \/ B!UserDelete \/ B!OthersRelease
    /\ deletedB' = (deletedB \/ ~B!Live(objB'))
    /\ UNCHANGED <<pcB, localB, cluster, calm, aVars, brokerVars, deletedA>>

InformA ==
    /\ A!Deliver \/ A!TimerFires
    /\ UNCHANGED <<pcA, localA, cluster, calm, bVars, brokerVars, deletedA, deletedB>>

InformB ==
    /\ B!Deliver \/ B!TimerFires
    /\ UNCHANGED <<pcB, localB, cluster, calm, aVars, brokerVars, deletedA, deletedB>>

Recover == A!Recover /\ UNCHANGED <<bVars, brokerVars, deletedA, deletedB>>

Next ==
    \/ ReconcileA \/ ReconcileB \/ Restart
    \/ UsersA \/ UsersB \/ InformA \/ InformB
    \/ Recover

Spec == Init /\ [][Next]_vars

\* The worker serves either key when it is free; nothing is assumed of the order.
Fairness ==
    /\ WF_vars(ReconcileA) /\ WF_vars(ReconcileB)
    /\ WF_vars(A!Deliver /\ InformA) /\ WF_vars(A!TimerFires /\ InformA)
    /\ WF_vars(B!Deliver /\ InformB) /\ WF_vars(B!TimerFires /\ InformB)
    /\ WF_vars(Recover)

LiveSpec == Spec /\ Fairness

(***************************************************************************)
(* Properties.                                                             *)
(***************************************************************************)
HeldA == A!Stage(objA) # "free"
HeldB == B!Stage(objB) # "free"

\* Each entry the operator added is named by a resource that still has its
\* finalizer, whichever of the two added it and in whatever order they go: the
\* one that is deleted first never takes the entry's last owner away.
EntryNamed ==
    \A e \in mine :
        \/ HeldA /\ A!Entry(objA.spec) = e
        \/ HeldB /\ B!Entry(objB.spec) = e

\* An ACL that is Ready is in force, unless the other was deleted: creating,
\* refusing and retrying the one never takes the grant from the other.
ReadyKept ==
    /\ A!Live(objA) /\ A!Settled(objA) /\ ~deletedB => Granted(objA.spec) \in acls
    /\ B!Live(objB) /\ B!Settled(objB) /\ ~deletedA => Granted(objB.spec) \in acls

\* Neither resource keeps the worker from the other, and the last one takes the
\* entry along, although one of the deletions finds it gone: in the end each
\* resource is Ready or gone, and without resources nothing is left.
AllServed ==
    <>[] /\ A!Live(objA) => A!Settled(objA)
         /\ B!Live(objB) => B!Settled(objB)
         /\ deletedA => ~HeldA
         /\ deletedB => ~HeldB
         /\ ~HeldA /\ ~HeldB => mine = {}
=============================================================================

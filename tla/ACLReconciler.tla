--------------------------- MODULE ACLReconciler ----------------------------
(***************************************************************************)
(* The ACL controller (internal/controller/acl_controller.go) and the      *)
(* broker operations it uses (internal/bufstream/acl.go), for one ACL      *)
(* resource and the broker's access list, a set of entries.  Creating an   *)
(* entry that is there and deleting one that is not both succeed.          *)
(***************************************************************************)
EXTENDS ReconcileLoop, ACLConversion

CONSTANT ForeignEntries  \* the entries that others may add

ASSUME ACLAssumption == Specs \subseteq ACLSpecs /\ ForeignEntries \subseteq Entries

VARIABLES acls,  \* the broker's access list
          mine   \* the entries the operator added (history, read by no action)

brokerVars == <<acls, mine>>
vars == <<kubeVars, loopVars, brokerVars>>

entry == Entry(local.spec)

Answered(next) == Goto(next) \/ (~calm /\ Abort)

\* Mutants: an error of the broker is logged and ignored; what could not be
\* created is removed.
CreateIgnoringErrors ==
    /\ pc = "create"
    /\ Goto("report")
    /\ \/ acls' = acls \cup {entry} /\ mine' = mine \cup ({entry} \ acls)
       \/ UNCHANGED brokerVars

CreateOrRollBack ==
    /\ pc = "create"
    /\ \/ /\ acls' = acls \cup {entry}
          /\ mine' = mine \cup ({entry} \ acls)
          /\ Goto("report")
       \/ ~calm /\ Abort /\ acls' = acls \ {entry} /\ mine' = mine \ {entry}

CreateACL ==
    /\ pc = "create"
    /\ \/ /\ acls' = acls \cup {entry}
          /\ mine' = mine \cup ({entry} \ acls)
          /\ Answered("report")
       \/ ~calm /\ Abort /\ UNCHANGED brokerVars

\* Mutants: the finalizer is removed although the broker refused; an entry that
\* is not there is an error.
DeleteIgnoringErrors ==
    /\ pc = "delete"
    /\ Goto("unfinalize")
    /\ \/ acls' = acls \ {entry} /\ mine' = mine \ {entry}
       \/ UNCHANGED brokerVars

DeleteStrict ==
    /\ pc = "delete"
    /\ \/ /\ entry \in acls
          /\ acls' = acls \ {entry} /\ mine' = mine \ {entry}
          /\ Answered("unfinalize")
       \/ (entry \notin acls \/ ~calm) /\ GiveUp /\ UNCHANGED brokerVars

DeleteACL ==
    /\ pc = "delete"
    /\ \/ /\ acls' = acls \ {entry}
          /\ mine' = mine \ {entry}
          /\ Answered("unfinalize")
       \/ ~calm /\ GiveUp /\ UNCHANGED brokerVars

ForeignAdd(e) ==
    /\ e \notin acls
    /\ acls' = acls \cup {e}
    /\ UNCHANGED <<kubeVars, loopVars, mine>>

(***************************************************************************)
(* The specification.                                                      *)
(***************************************************************************)
Init == LoopInit /\ acls = {} /\ mine = {}

Reconcile ==
    \/ (LoopStep \/ Connect("create")) /\ UNCHANGED brokerVars
    \/ CreateACL \/ DeleteACL

Restart == Crash /\ UNCHANGED brokerVars

Others ==
    \/ Environment /\ UNCHANGED brokerVars
    \/ \E e \in ForeignEntries : ForeignAdd(e)

Next == Reconcile \/ Restart \/ Others

Spec == Init /\ [][Next]_vars

Fairness ==
    /\ WF_vars(Reconcile)
    /\ WF_vars(Deliver /\ UNCHANGED <<loopVars, brokerVars>>)
    /\ WF_vars(TimerFires /\ UNCHANGED <<loopVars, brokerVars>>)
    /\ WF_vars(Recover /\ UNCHANGED brokerVars)

LiveSpec == Spec /\ Fairness

(***************************************************************************)
(* Properties.                                                             *)
(***************************************************************************)
\* Every variable keeps to its type.
TypeOK ==
    /\ LoopTypeOK
    /\ pc \in (LoopPcs \ {"refuse"}) \cup {"create", "delete"}
    /\ acls \subseteq Entries /\ mine \subseteq Entries

\* An ACL that reports Ready for its current generation is in force: what its
\* current spec grants or denies is on the broker's list (149-238).
ReadyMeansInForce == Live(obj) /\ Settled(obj) => Granted(obj.spec) \in acls

\* An entry the operator added has its resource, finalizer on, and is what the
\* resource now says: nobody keeps a permission that no resource names.
NoOrphan ==
    \A e \in mine : Present(obj) /\ obj.fin /\ Entry(obj.spec) = e

\* An entry on the list only goes while the resource is being deleted or is
\* gone, never from under a live one.
NotRevokedUnderLive ==
    [][Live(obj) /\ obj.fin => acls \subseteq acls']_vars

\* A live resource becomes Ready for its generation, unless it is deleted.
EventuallyReady == Live(obj) ~> (Settled(obj) \/ ~Live(obj))

\* A resource that is being deleted goes, its entry first: deleting again what
\* an earlier call deleted does not fail.
DeletionCompletes == Deleting(obj) /\ obj.fin ~> mine = {} /\ ~(Deleting(obj) /\ obj.fin)

(***************************************************************************)
(* What the documentation says and the code does not do.                   *)
(***************************************************************************)
\* The resource r is there, finalizer on, and is about the entry e.
Names(r, e) == Present(r) /\ r.fin /\ Entry(r.spec) = e

\* An entry the operator added and no resource is about any more goes, or an
\* edit comes back to it: README.md:68, "All resources use finalizers to clean
\* up Kafka resources".  The code knows only the current spec (128, 208).
FormerGrantsGo ==
    \A e \in {Entry(s) : s \in Specs} :
        e \in mine /\ ~Names(obj, e) ~> e \notin mine \/ Names(obj, e)

(***************************************************************************)
(* The refinement of ManagedResource.                                      *)
(***************************************************************************)
Managed == INSTANCE ManagedResource WITH
    Wants <- Specs,
    Thing <- [s \in Specs |-> Entry(s)],
    stage <- Stage(obj),
    want <- obj.spec,
    ready <- Live(obj) /\ Settled(obj),
    made <- mine,
    met <- {s \in Specs : Granted(s) \in acls}

\* The ACL controller does what ManagedResource promises, through stale copies,
\* conflicts, crashes and lost answers, as long as edits keep the entry.
ImplementsManaged == Managed!Spec
=============================================================================

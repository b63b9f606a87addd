-------------------------- MODULE ManagedResource ---------------------------
(***************************************************************************)
(* What the operator promises of a resource of any kind, without copies,   *)
(* queues, conflicts, crashes or lost answers.  The Topic, User and ACL    *)
(* reconcilers implement it.  A "want" is a spec; what it is about on the  *)
(* broker (a topic, a credential, an entry) is its thing.                  *)
(***************************************************************************)
CONSTANTS Wants,   \* what a resource may ask for
          Thing    \* the thing each want is about

VARIABLES stage,   \* whether the operator holds the resource (its finalizer)
          want,    \* what the resource asks for
          ready,   \* it was told that it has what it asks for
          made,    \* the things the operator made
          met      \* the wants the broker would satisfy as it is

vars == <<stage, want, ready, made, met>>

TypeOK ==
    /\ stage \in {"free", "held", "releasing"}
    /\ want \in Wants /\ ready \in BOOLEAN
    /\ made \subseteq {Thing[w] : w \in Wants} /\ met \subseteq Wants

Init ==
    /\ stage = "free" /\ want \in Wants /\ ready = FALSE
    /\ made = {} /\ met \subseteq Wants

\* A resource that is not held comes, changes and goes as users like.
Unheld ==
    /\ stage = "free" /\ want' \in Wants
    /\ UNCHANGED <<stage, ready, made, met>>

Hold ==
    /\ stage = "free" /\ stage' = "held"
    /\ UNCHANGED <<want, ready, made, met>>

\* An edit keeps the thing; it takes the answer back.
Edit ==
    /\ stage # "free"
    /\ want' \in Wants /\ Thing[want'] = Thing[want]
    /\ ready' = FALSE
    /\ UNCHANGED <<stage, made, met>>

Delete ==
    /\ stage = "held" /\ stage' = "releasing"
    /\ ready' = FALSE
    /\ UNCHANGED <<want, made, met>>

\* The operator makes or changes the thing, no other one; a resource that was
\* told it is ready stays so.  It may go on a while after the deletion.
Work ==
    /\ stage # "free"
    /\ made \subseteq made' /\ made' \subseteq made \cup {Thing[want]}
    /\ met' \subseteq Wants
    /\ \A w \in Wants : Thing[w] # Thing[want] => (w \in met' <=> w \in met)
    /\ ready => want \in met'
    /\ UNCHANGED <<stage, want, ready>>

Report ==
    /\ stage = "held" /\ want \in met
    /\ ready' = TRUE
    /\ UNCHANGED <<stage, want, made, met>>

\* The operator removes things, never of a resource that is to stay; it may
\* do so again after the release.
Clean ==
    /\ stage # "held"
    /\ made' \subseteq made /\ met' \subseteq met
    /\ UNCHANGED <<stage, want, ready>>

\* The resource is let go when nothing is left that the operator made.
Release ==
    /\ stage = "releasing" /\ made = {}
    /\ stage' = "free" /\ want' \in Wants
    /\ UNCHANGED <<ready, made, met>>

\* Other clients of the broker add to what is there.
OthersAdd ==
    /\ met \subseteq met' /\ met' \subseteq Wants
    /\ UNCHANGED <<stage, want, ready, made>>

Next ==
    \/ Unheld \/ Hold \/ Edit \/ Delete \/ Work \/ Report \/ Clean \/ Release
    \/ OthersAdd

Spec == Init /\ [][Next]_vars

\* What makes these promises worth having: Ready is true, and nothing that the
\* operator made is without a resource that names it.
ReadyIsTrue == ready => stage = "held" /\ want \in met
NothingLeftBehind == made \subseteq (IF stage = "free" THEN {} ELSE {Thing[want]})
=============================================================================

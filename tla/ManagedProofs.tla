---------------------------- MODULE ManagedProofs -----------------------------
(***************************************************************************)
(* What follows from the promises of ManagedResource, for every set of     *)
(* wants and things, and so for each controller that implements it.        *)
(***************************************************************************)
EXTENDS ManagedResource, TLAPS

ManagedInv == TypeOK /\ ReadyIsTrue /\ NothingLeftBehind

LEMMA ManagedInvariant == Spec => []ManagedInv
  <1>1. Init => ManagedInv
    BY DEF Init, ManagedInv, TypeOK, ReadyIsTrue, NothingLeftBehind
  <1>2. ASSUME ManagedInv, Next PROVE ManagedInv'
    <2> USE DEF ManagedInv, TypeOK, ReadyIsTrue, NothingLeftBehind
    <2>1. CASE Unheld BY <1>2, <2>1 DEF Unheld
    <2>2. CASE Hold BY <1>2, <2>2 DEF Hold
    <2>3. CASE Edit BY <1>2, <2>3 DEF Edit
    <2>4. CASE Delete BY <1>2, <2>4 DEF Delete
    <2>5. CASE Work BY <1>2, <2>5 DEF Work
    <2>6. CASE Report BY <1>2, <2>6 DEF Report
    <2>7. CASE Clean BY <1>2, <2>7 DEF Clean
    <2>8. CASE Release BY <1>2, <2>8 DEF Release
    <2>9. CASE OthersAdd BY <1>2, <2>9 DEF OthersAdd
    <2> QED BY <1>2, <2>1, <2>2, <2>3, <2>4, <2>5, <2>6, <2>7, <2>8, <2>9 DEF Next
  <1>3. ASSUME ManagedInv, UNCHANGED vars PROVE ManagedInv'
    BY <1>3 DEF vars, ManagedInv, TypeOK, ReadyIsTrue, NothingLeftBehind
  <1> QED BY <1>1, <1>2, <1>3, PTL DEF Spec

\* Whoever implements ManagedResource never says Ready of what the broker does
\* not have.
THEOREM ReadyIsAlwaysTrue == Spec => []ReadyIsTrue
  <1>1. ManagedInv => ReadyIsTrue BY DEF ManagedInv
  <1> QED BY <1>1, ManagedInvariant, PTL

\* Whoever implements ManagedResource leaves nothing on the broker that no
\* resource names.
THEOREM NothingIsLeftBehind == Spec => []NothingLeftBehind
  <1>1. ManagedInv => NothingLeftBehind BY DEF ManagedInv
  <1> QED BY <1>1, ManagedInvariant, PTL
=============================================================================

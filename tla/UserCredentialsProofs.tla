------------------------ MODULE UserCredentialsProofs ------------------------
(***************************************************************************)
(* Proofs about UserCredentialsList (UserCredentials), for every set of    *)
(* keys and every bound on the creates in flight.                          *)
(***************************************************************************)
EXTENDS UserCredentials, TLAPS

USE KeysAssumption, BoundAssumption

LEMMA InitTypeOK == Init => TypeOK
<1> SUFFICES ASSUME Init PROVE TypeOK
  OBVIOUS
<1>1. table \in [state : {"loading", "ready", "error"}, shown : SUBSET Keys]
  BY Zenon DEF Init
<1>2. creating \in [BOOLEAN -> Nat]
  BY DEF Init
<1>3. QED
  BY <1>1, <1>2 DEF Init, TypeOK

\* The table's refetch keeps the table typed.
LEMMA AfterRenderType ==
    ASSUME TypeOK, refresh' \in BOOLEAN, AfterRender
    PROVE  table' \in [state : {"loading", "ready", "error"}, shown : SUBSET Keys]
           /\ fetching' \in BOOLEAN
BY DEF AfterRender, TypeOK

\* Adding or removing one create of a captured value keeps the counts
\* natural numbers (a create is only removed while one is counted).
LEMMA CountStep ==
    ASSUME NEW c \in [BOOLEAN -> Nat], NEW b \in BOOLEAN
    PROVE  /\ [c EXCEPT ![b] = @ + 1] \in [BOOLEAN -> Nat]
           /\ c[b] > 0 => [c EXCEPT ![b] = @ - 1] \in [BOOLEAN -> Nat]
OBVIOUS

\* One answer of createCredentials, resolved or rejected.
LEMMA AnswerTypeOK ==
    ASSUME TypeOK, NEW b \in BOOLEAN, CreateResolve(b) \/ CreateReject(b)
    PROVE  TypeOK'
<1>1. refresh' \in BOOLEAN /\ AfterRender
  BY DEF CreateResolve, CreateReject
<1>2. creating' \in [BOOLEAN -> Nat]
  BY CountStep DEF CreateResolve, CreateReject, TypeOK
<1>3. table' \in [state : {"loading", "ready", "error"}, shown : SUBSET Keys]
      /\ fetching' \in BOOLEAN
  BY <1>1, AfterRenderType
<1>4. keys' \subseteq Keys /\ createdKey' \in Keys \cup {Null}
  BY DEF CreateResolve, CreateReject, TypeOK
<1>5. createError' \in BOOLEAN /\ confirmOpen' \in BOOLEAN
  BY DEF CreateResolve, CreateReject
<1>6. QED
  BY <1>1, <1>2, <1>3, <1>4, <1>5 DEF TypeOK

LEMMA TypeStep == TypeOK /\ [Next]_vars => TypeOK'
<1> SUFFICES ASSUME TypeOK, [Next]_vars PROVE TypeOK'
  OBVIOUS
<1>1. CASE OpenConfirm \/ DismissConfirm \/ HideKey
  BY <1>1 DEF OpenConfirm, DismissConfirm, HideKey, TypeOK
<1>2. CASE Confirm
  <2>1. creating' \in [BOOLEAN -> Nat]
    BY <1>2, CountStep DEF Confirm, TypeOK
  <2>2. QED
    BY <1>2, <2>1 DEF Confirm, TypeOK
<1>3. CASE Refresh
  <2>1. refresh' \in BOOLEAN
    BY <1>3 DEF Refresh, TypeOK
  <2>2. QED
    BY <1>3, <2>1, AfterRenderType DEF Refresh, TypeOK
<1>4. CASE \E b \in BOOLEAN : CreateResolve(b) \/ CreateReject(b)
  BY <1>4, AnswerTypeOK
<1>5. CASE TableResolve \/ TableReject
  <2>1. CASE TableResolve
    <3>1. table' = [state |-> "ready", shown |-> keys] /\ keys \subseteq Keys
      BY <2>1 DEF TableResolve, TypeOK
    <3>2. table' \in [state : {"loading", "ready", "error"}, shown : SUBSET Keys]
      BY <3>1, Zenon
    <3>3. QED
      BY <2>1, <3>2 DEF TableResolve, TypeOK
  <2>2. CASE TableReject
    <3>1. table' \in [state : {"loading", "ready", "error"}, shown : SUBSET Keys]
      BY <2>2 DEF TableReject, TypeOK
    <3>2. QED
      BY <2>2, <3>1 DEF TableReject, TypeOK
  <2>3. QED
    BY <1>5, <2>1, <2>2
<1>6. CASE UNCHANGED vars
  BY <1>6 DEF vars, TypeOK
<1>7. QED
  BY <1>1, <1>2, <1>3, <1>4, <1>5, <1>6 DEF Next

(***************************************************************************)
(* For every set of keys and every bound, UserCredentialsList's state     *)
(* stays typed through any interleaving of confirmations, dismissals,     *)
(* overlapping creates answered in any order, refreshes and table answers, *)
(* including a failed create whose then passes undefined on (30-32).      *)
(***************************************************************************)
THEOREM CredentialsTypeCorrect == Spec => []TypeOK
BY InitTypeOK, TypeStep, PTL DEF Spec

=============================================================================

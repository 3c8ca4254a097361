------------------------- MODULE GroupMembersProofs -------------------------
(***************************************************************************)
(* Proofs about GroupMemberList (GroupMembers).                            *)
(***************************************************************************)
EXTENDS GroupMembers, TLAPS

LEMMA InitTypeOK == Init => TypeOK
<1> SUFFICES ASSUME Init PROVE TypeOK
  OBVIOUS
<1>1. list \in [state : ListStates, shown : SUBSET Users]
  BY DEF Init, ListStates
<1>2. members \in SUBSET Users
  BY MembersAssumption DEF Init
<1>3. QED
  BY <1>1, <1>2 DEF Init, TypeOK, AttachRecords

LEMMA AfterRenderType ==
    ASSUME TypeOK, AfterRender
    PROVE  list' \in [state : ListStates, shown : SUBSET Users] /\ fetching' \in BOOLEAN
BY DEF TypeOK, AfterRender, ListStates

LEMMA UserStepTypeOK == TypeOK /\ UserNext => TypeOK'
<1> SUFFICES ASSUME TypeOK, UserNext PROVE TypeOK'
  OBVIOUS
<1>1. CASE Remove
  BY <1>1 DEF Remove, TypeOK
<1>2. CASE OpenAddModal \/ HideAddModal
  BY <1>2 DEF OpenAddModal, HideAddModal, TypeOK
<1>3. CASE Attach
  BY <1>3 DEF Attach, TypeOK, AttachRecords, AddCalls
<1>4. CASE Refresh
  BY <1>4, AfterRenderType DEF Refresh, ClearAttachError, TypeOK
<1>5. QED
  BY <1>1, <1>2, <1>3, <1>4 DEF UserNext

LEMMA AddResolveTypeOK ==
    ASSUME TypeOK, NEW c \in AddCalls, AddResolve(c) PROVE TypeOK'
<1>1. adds' \in SUBSET AddCalls /\ members' \in SUBSET Users
  BY DEF AddResolve, TypeOK, AddCalls
<1>2. CASE \E a \in attaches : a.id = c.attach /\ Waiting(a.id) = {c}
  <2> DEFINE a == CHOOSE a \in attaches : a.id = c.attach
  <2>1. a \in AttachRecords /\ attaches' = attaches \ {a} /\ AttachResolved(a)
    BY <1>2 DEF AddResolve, TypeOK
  <2>2. list' \in [state : ListStates, shown : SUBSET Users] /\ fetching' \in BOOLEAN
    BY <2>1, AfterRenderType DEF AttachResolved
  <2>3. QED
    BY <1>1, <2>1, <2>2 DEF AddResolve, AttachResolved, AttachRecords, TypeOK
<1>3. CASE ~\E a \in attaches : a.id = c.attach /\ Waiting(a.id) = {c}
  BY <1>1, <1>3 DEF AddResolve, TypeOK
<1>4. QED
  BY <1>2, <1>3

LEMMA NetworkStepTypeOK == TypeOK /\ NetworkNext => TypeOK'
<1> SUFFICES ASSUME TypeOK, NetworkNext PROVE TypeOK'
  OBVIOUS
<1>1. CASE LoadUsers
  BY <1>1 DEF LoadUsers, TypeOK
<1>6. CASE ListResolve
  BY <1>6 DEF ListResolve, TypeOK, ListStates
<1>7. CASE ListReject
  BY <1>7 DEF ListReject, TypeOK, ListStates
<1>2. CASE \E r \in removes : RemoveSettle(r)
  BY <1>2, AfterRenderType DEF RemoveSettle, ClearAttachError, TypeOK
<1>3. CASE \E c \in adds : AddResolve(c)
  BY <1>3, AddResolveTypeOK DEF TypeOK
<1>4. CASE \E c \in adds : AddReject(c)
  BY <1>4 DEF AddReject, TypeOK
<1>5. QED
  BY <1>1, <1>2, <1>3, <1>4, <1>6, <1>7 DEF NetworkNext

(***************************************************************************)
(* Type correctness of GroupMemberList for every set of users and every    *)
(* bound: in particular the Promise.all bookkeeping of overlapping         *)
(* attaches (110-113), also when one user is added by two attaches at     *)
(* once, keeps each call in flight tied to a user and an attach id and     *)
(* each pending attach to the refresh captured at its click.               *)
(***************************************************************************)
THEOREM GroupMembersTypeCorrect == Spec => []TypeOK
<1>1. TypeOK /\ [Next]_vars => TypeOK'
  BY UserStepTypeOK, NetworkStepTypeOK DEF Next, vars, TypeOK
<1>2. QED
  BY <1>1, InitTypeOK, PTL DEF Spec

=============================================================================

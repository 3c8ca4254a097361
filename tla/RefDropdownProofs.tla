-------------------------- MODULE RefDropdownProofs --------------------------
(***************************************************************************)
(* Proofs about the reference picker (RefDropdown), for every repository, *)
(* page size and bound on outstanding requests.                           *)
(***************************************************************************)
EXTENDS RefDropdown, SequenceTheorems, TLAPS

(***************************************************************************)
(* A page's last name is one of its names: the server's order gives every  *)
(* non-empty set of names a greatest element (NamesAssumption).           *)
(***************************************************************************)
LEMMA LastNameInPage ==
    ASSUME NEW S \in SUBSET Names, S # {}
    PROVE  LastName(S) \in S
BY NamesAssumption DEF LastName

(***************************************************************************)
(* Answering the i-th outstanding request leaves a sequence of requests    *)
(* one shorter.                                                            *)
(***************************************************************************)
LEMMA RemoveAtType ==
    ASSUME NEW T, NEW s \in Seq(T), NEW i \in 1..Len(s)
    PROVE  /\ RemoveAt(s, i) \in Seq(T)
           /\ Len(RemoveAt(s, i)) = Len(s) - 1
<1>1. /\ SubSeq(s, 1, i-1) \in Seq(T)
      /\ Len(SubSeq(s, 1, i-1)) = i-1
  BY SubSeqProperties
<1>2. /\ SubSeq(s, i+1, Len(s)) \in Seq(T)
      /\ Len(SubSeq(s, i+1, Len(s))) = Len(s) - i
  BY SubSeqProperties
<1>3. /\ SubSeq(s, 1, i-1) \o SubSeq(s, i+1, Len(s)) \in Seq(T)
      /\ Len(SubSeq(s, 1, i-1) \o SubSeq(s, i+1, Len(s)))
            = Len(SubSeq(s, 1, i-1)) + Len(SubSeq(s, i+1, Len(s)))
  BY <1>1, <1>2, ConcatProperties
<1>5. Len(s) \in Nat
  BY LenProperties
<1>6. Len(SubSeq(s, 1, i-1)) + Len(SubSeq(s, i+1, Len(s))) = Len(s) - 1
  <2>1. i \in Nat /\ 1 <= i /\ i <= Len(s)
    BY <1>5
  <2>2. (i-1) + (Len(s) - i) = Len(s) - 1
    BY <2>1, <1>5
  <2>3. QED
    BY <1>1, <1>2, <2>2
<1>4. QED
  BY <1>3, <1>6 DEF RemoveAt

(***************************************************************************)
(* The server's answer to any request is a page of names.                  *)
(***************************************************************************)
LEMMA ServerPageType ==
    ASSUME NEW req \in Request
    PROVE  ServerPage(req) \in Page
BY NamesAssumption DEF ServerPage, Candidates, Listed, Page

-----------------------------------------------------------------------------
(***************************************************************************)
(* The inductive invariant.  TypeOK alone is not inductive: Paginate takes *)
(* the last name of refList.payload.results, a name only if the payload   *)
(* is a page whenever the list is rendered; and FetchRefs* leave the       *)
(* payload typed only because every answer clears loading.                *)
(***************************************************************************)
PayloadWhenReady == ~refList.loading /\ ~refList.error => refList.payload \in Page

IInv == TypeOK /\ LoadingHasPending /\ PayloadWhenReady

LEMMA InitIInv == Init => IInv
<1> SUFFICES ASSUME Init PROVE IInv
  OBVIOUS
<1>1. selected \in Ref \cup {NoRef}
  BY DEF Init, ValidRef
<1>2. pagination \in Pagination /\ refList \in RefListState
  BY NamesAssumption, PrefixAssumption, AmountAssumption
  DEF Init, FirstPage, Loading, Pagination, RefListState, EmptyCursor
<1>3. pending \in Seq(Request) /\ Len(pending) <= MaxInFlight
  <2>1. << >> \in Seq(Request) /\ Len(<< >>) = 0
    BY EmptySeq
  <2>2. pending = << >>
    BY DEF Init
  <2>3. QED
    BY <2>1, <2>2, BoundAssumption
<1>4. QED
  BY <1>1, <1>2, <1>3, PrefixAssumption
  DEF Init, IInv, TypeOK, LoadingHasPending, PayloadWhenReady, Loading, RefTypes

\* The picker's first page and the loading state are well typed.
LEMMA FirstPageType == FirstPage \in Pagination /\ Loading \in RefListState
BY PrefixAssumption, AmountAssumption
DEF FirstPage, Pagination, EmptyCursor, Loading, RefListState

\* Closing the overlay re-establishes the invariant, whatever the host does
\* with its selection.
LEMMA UnmountIInv ==
    ASSUME Unmount, selected' \in Ref \cup {NoRef}
    PROVE  IInv'
<1>1. pending' \in Seq(Request) /\ Len(pending') <= MaxInFlight
  <2>1. << >> \in Seq(Request) /\ Len(<< >>) = 0
    BY EmptySeq
  <2>2. pending' = << >>
    BY DEF Unmount
  <2>3. QED
    BY <2>1, <2>2, BoundAssumption
<1>2. QED
  BY <1>1, FirstPageType, PrefixAssumption
  DEF Unmount, IInv, TypeOK, LoadingHasPending, PayloadWhenReady, Loading, RefTypes

\* Issuing a listing request: the placeholder is shown and the request is
\* outstanding.
LEMMA FetchFacts ==
    ASSUME TypeOK, NEW t \in RefTypes, NEW pg \in Pagination, Fetch(t, pg)
    PROVE  /\ refList' \in RefListState
           /\ refList'.loading
           /\ pending' \in Seq(Request)
           /\ pending' # << >>
           /\ Len(pending') <= MaxInFlight
<1>1. [type |-> t, pagination |-> pg] \in Request
  BY DEF Request
<1>2. pending \in Seq(Request)
  BY DEF TypeOK
<1>3. /\ Append(pending, [type |-> t, pagination |-> pg]) \in Seq(Request)
      /\ Append(pending, [type |-> t, pagination |-> pg]) # << >>
      /\ Len(Append(pending, [type |-> t, pagination |-> pg])) = Len(pending) + 1
  BY <1>1, <1>2, AppendProperties
<1>4. Len(pending) \in Nat
  BY <1>2, LenProperties
<1>5. pending' = Append(pending, [type |-> t, pagination |-> pg])
      /\ Len(pending) < MaxInFlight
  BY DEF Fetch
<1>6. refList' = Loading
  BY DEF Fetch
<1>7. QED
  BY <1>3, <1>4, <1>5, <1>6, FirstPageType, BoundAssumption DEF Loading

-----------------------------------------------------------------------------
(* One lemma per action: each preserves IInv.                              *)

LEMMA ToggleIInv == IInv /\ Toggle => IInv'
<1> SUFFICES ASSUME IInv, Toggle PROVE IInv'
  OBVIOUS
<1>1. ASSUME ~show, show' = TRUE,
             refType' = IF selected = NoRef THEN "branch" ELSE selected.type,
             pagination' = FirstPage,
             commitList' = [branch |-> selected, commits |-> Null],
             filterText' = "", logs' = {}, refList' = Loading,
             pending' = <<[type |-> refType', pagination |-> FirstPage]>>,
             UNCHANGED selected
      PROVE  IInv'
  <2>1. selected \in Ref \cup {NoRef}
    BY DEF IInv, TypeOK
  <2>2. refType' \in RefTypes
    <3>1. CASE selected = NoRef
      BY <1>1, <3>1 DEF RefTypes
    <3>2. CASE selected # NoRef
      <4>1. selected \in Ref
        BY <2>1, <3>2
      <4>2. QED
        BY <1>1, <3>2, <4>1 DEF Ref
    <3>3. QED
      BY <3>1, <3>2
  <2>3. [type |-> refType', pagination |-> FirstPage] \in Request
    BY <2>2, FirstPageType DEF Request
  <2>4. pending' \in Seq(Request) /\ Len(pending') = 1
    <3> DEFINE r == [type |-> refType', pagination |-> FirstPage]
    <3>1. << >> \in Seq(Request) /\ Len(<< >>) = 0
      BY EmptySeq
    <3>2. Append(<< >>, r) \in Seq(Request) /\ Len(Append(<< >>, r)) = Len(<< >>) + 1
      BY <2>3, <3>1, AppendProperties
    <3>3. Append(<< >>, r) = << r >>
      OBVIOUS
    <3>4. QED
      BY <1>1, <3>1, <3>2, <3>3
  <2>5. pending' # << >>
    BY <2>4, EmptySeq
  <2>6. TypeOK'
    <3>1. commitList' = [branch |-> selected, commits |-> Null]
      BY <1>1
    <3>2. /\ DOMAIN commitList' = {"branch", "commits"}
          /\ commitList'.commits = Null
      BY <3>1
    <3>3. Len(pending') <= MaxInFlight
      BY <2>4, BoundAssumption
    <3>4. QED
      BY <1>1, <2>1, <2>2, <2>4, <3>2, <3>3, FirstPageType, PrefixAssumption
      DEF TypeOK
  <2>7. QED
    BY <1>1, <2>5, <2>6 DEF IInv, LoadingHasPending, PayloadWhenReady, Loading
<1>2. CASE show
  BY <1>2, UnmountIInv DEF Toggle, IInv, TypeOK
<1>3. QED
  BY <1>1, <1>2 DEF Toggle

LEMMA OnHideIInv == IInv /\ OnHide => IInv'
BY UnmountIInv DEF OnHide, IInv, TypeOK

LEMMA CancelIInv == IInv /\ Cancel => IInv'
BY UnmountIInv DEF Cancel

LEMMA FilterChangeIInv == IInv /\ FilterChange => IInv'
<1> SUFFICES ASSUME IInv, NEW p \in FilterTexts \ {filterText},
                    FormShown, filterText' = p,
                    pagination' = [amount |-> Amount, after |-> EmptyCursor, prefix |-> p],
                    Fetch(refType, pagination'),
                    UNCHANGED <<show, selected, refType, commitList, logs>>
             PROVE  IInv'
  BY DEF FilterChange
<1>1. pagination' \in Pagination
  BY DEF Pagination, EmptyCursor
<1>2. /\ refList' \in RefListState /\ refList'.loading
      /\ pending' \in Seq(Request) /\ pending' # << >>
      /\ Len(pending') <= MaxInFlight
  BY <1>1, FetchFacts DEF IInv, TypeOK
<1>3. QED
  BY <1>1, <1>2 DEF IInv, TypeOK, LoadingHasPending, PayloadWhenReady

LEMMA SetRefTypeIInv == IInv /\ SetRefType => IInv'
<1> SUFFICES ASSUME IInv, NEW t \in {"branch", "tag"},
                    refType' = t, Fetch(t, pagination),
                    UNCHANGED <<show, selected, pagination, commitList, filterText, logs>>
             PROVE  IInv'
  BY DEF SetRefType
<1>1. /\ refList' \in RefListState /\ refList'.loading
      /\ pending' \in Seq(Request) /\ pending' # << >>
      /\ Len(pending') <= MaxInFlight
  BY FetchFacts DEF IInv, TypeOK, RefTypes
<1>2. QED
  BY <1>1 DEF IInv, TypeOK, LoadingHasPending, PayloadWhenReady, RefTypes

LEMMA SelectEntryIInv == IInv /\ SelectEntry => IInv'
<1> SUFFICES ASSUME IInv, ListShown, NEW n \in refList.payload.results,
                    SelectRef([id |-> n, type |-> refType])
             PROVE  IInv'
  BY DEF SelectEntry
<1>1. refList.payload \in Page
  BY DEF IInv, PayloadWhenReady, ListShown
<1>2. [id |-> n, type |-> refType] \in Ref
  BY <1>1 DEF Page, Ref, IInv, TypeOK
<1>3. QED
  BY <1>2, UnmountIInv DEF SelectRef

LEMMA LogCommitsIInv == IInv /\ LogCommits => IInv'
<1> SUFFICES ASSUME IInv, ListShown, NEW n \in refList.payload.results,
                    logs' = logs \cup {n},
                    UNCHANGED <<show, selected, refType, pagination, refList,
                                commitList, filterText, pending>>
             PROVE  IInv'
  BY DEF LogCommits
<1>1. n \in Names
  BY DEF IInv, PayloadWhenReady, ListShown, Page
<1>2. QED
  BY <1>1 DEF IInv, TypeOK, LoadingHasPending, PayloadWhenReady

LEMMA PaginateIInv == IInv /\ Paginate => IInv'
<1> SUFFICES ASSUME IInv, ListShown, refList.payload.results # {},
                    NEW after \in PaginatorLinks(refList.payload, pagination.after),
                    pagination' = [after |-> after, prefix |-> Undefined, amount |-> Undefined],
                    Fetch(refType, pagination'),
                    UNCHANGED <<show, selected, refType, commitList, filterText, logs>>
             PROVE  IInv'
  BY DEF Paginate
<1>1. refList.payload \in Page
  BY DEF IInv, PayloadWhenReady, ListShown
<1>2. LastName(refList.payload.results) \in Names
  BY <1>1, LastNameInPage DEF Page
<1>3. after \in {EmptyCursor} \cup Names
  BY <1>2 DEF PaginatorLinks
<1>4. pagination' \in Pagination
  BY <1>3 DEF Pagination
<1>5. /\ refList' \in RefListState /\ refList'.loading
      /\ pending' \in Seq(Request) /\ pending' # << >>
      /\ Len(pending') <= MaxInFlight
  BY <1>4, FetchFacts DEF IInv, TypeOK
<1>6. QED
  BY <1>4, <1>5 DEF IInv, TypeOK, LoadingHasPending, PayloadWhenReady

LEMMA SelectWorkspaceIInv == IInv /\ SelectWorkspace => IInv'
<1> SUFFICES ASSUME IInv, CommitsShown,
                    SelectRef([id |-> commitList.branch, type |-> "branch"])
             PROVE  IInv'
  BY DEF SelectWorkspace
<1>1. [id |-> commitList.branch, type |-> "branch"] \in Ref
  BY DEF IInv, TypeOK, CommitsShown, Ref, RefTypes
<1>2. QED
  BY <1>1, UnmountIInv DEF SelectRef

LEMMA SelectCommitIInv == IInv /\ SelectCommit => IInv'
<1> SUFFICES ASSUME IInv, CommitsShown, NEW c \in commitList.commits,
                    SelectRef([id |-> c, type |-> "commit"])
             PROVE  IInv'
  BY DEF SelectCommit
<1>1. [id |-> c, type |-> "commit"] \in Ref
  BY DEF IInv, TypeOK, CommitsShown, Ref, RefTypes
<1>2. QED
  BY <1>1, UnmountIInv DEF SelectRef

LEMMA BackIInv == IInv /\ Back => IInv'
BY DEF Back, IInv, TypeOK, LoadingHasPending, PayloadWhenReady


\* After a render, the filter box holds its text or nothing.
LEMMA InputAfterRenderType ==
    ASSUME filterText \in FilterTexts, InputAfterRender
    PROVE  filterText' \in FilterTexts
BY PrefixAssumption DEF InputAfterRender

LEMMA FetchRefsResolveIInv == IInv /\ FetchRefsResolve => IInv'
<1> SUFFICES ASSUME IInv, NEW i \in Deliverable,
                    refList' = [loading |-> FALSE, payload |-> ServerPage(pending[i]), error |-> FALSE],
                    pending' = RemoveAt(pending, i),
                    UNCHANGED <<show, selected, refType, pagination, commitList, logs>>,
                    InputAfterRender
             PROVE  IInv'
  BY DEF FetchRefsResolve
<1>1. i \in 1..Len(pending) /\ pending \in Seq(Request)
  BY DEF Deliverable, IInv, TypeOK
<1>2. ServerPage(pending[i]) \in Page
  BY <1>1, ServerPageType
<1>3. pending' \in Seq(Request) /\ Len(pending') = Len(pending) - 1
  BY <1>1, RemoveAtType
<1>4. refList' \in RefListState /\ refList'.payload \in Page
  BY <1>2 DEF RefListState
<1>5. filterText' \in FilterTexts
  BY InputAfterRenderType DEF IInv, TypeOK
<1>6. Len(pending') <= MaxInFlight
  BY <1>1, <1>3, BoundAssumption DEF IInv, TypeOK
<1>7. TypeOK'
  BY <1>3, <1>4, <1>5, <1>6 DEF IInv, TypeOK
<1>8. QED
  BY <1>4, <1>7 DEF IInv, LoadingHasPending, PayloadWhenReady

LEMMA FetchRefsRejectIInv == IInv /\ FetchRefsReject => IInv'
<1> SUFFICES ASSUME IInv, NEW i \in Deliverable,
                    refList' = [loading |-> FALSE, payload |-> Null, error |-> TRUE],
                    pending' = RemoveAt(pending, i),
                    UNCHANGED <<show, selected, refType, pagination, commitList, logs>>,
                    InputAfterRender
             PROVE  IInv'
  BY DEF FetchRefsReject
<1>1. i \in 1..Len(pending) /\ pending \in Seq(Request)
  BY DEF Deliverable, IInv, TypeOK
<1>2. pending' \in Seq(Request) /\ Len(pending') = Len(pending) - 1
  BY <1>1, RemoveAtType
<1>3. refList' \in RefListState
  BY DEF RefListState
<1>4. filterText' \in FilterTexts
  BY InputAfterRenderType DEF IInv, TypeOK
<1>5. Len(pending') <= MaxInFlight
  BY <1>1, <1>2, BoundAssumption DEF IInv, TypeOK
<1>6. TypeOK'
  BY <1>2, <1>3, <1>4, <1>5 DEF IInv, TypeOK
<1>7. QED
  BY <1>6 DEF IInv, LoadingHasPending, PayloadWhenReady

LEMMA LogResolveIInv == IInv /\ LogResolve => IInv'
<1> SUFFICES ASSUME IInv, NEW b \in logs,
                    commitList' = [branch |-> b, commits |-> Log[b]],
                    logs' = logs \ {b},
                    UNCHANGED <<show, selected, refType, pagination, refList, pending>>,
                    InputAfterRender
             PROVE  IInv'
  BY DEF LogResolve
<1>1. b \in Names
  BY DEF IInv, TypeOK
<1>2. /\ DOMAIN commitList' = {"branch", "commits"}
      /\ commitList'.commits \in SUBSET Commits
      /\ commitList'.branch \in Names
  BY <1>1, LogAssumption
<1>3. filterText' \in FilterTexts
  BY InputAfterRenderType DEF IInv, TypeOK
<1>4. QED
  BY <1>2, <1>3 DEF IInv, TypeOK, LoadingHasPending, PayloadWhenReady

LEMMA LogRejectIInv == IInv /\ LogReject => IInv'
BY DEF LogReject, IInv, TypeOK, LoadingHasPending, PayloadWhenReady

-----------------------------------------------------------------------------
LEMMA NextIInv == IInv /\ [Next]_vars => IInv'
<1> SUFFICES ASSUME IInv, [Next]_vars PROVE IInv'
  OBVIOUS
<1>1. CASE UNCHANGED vars
  BY <1>1 DEF vars, IInv, TypeOK, LoadingHasPending, PayloadWhenReady
<1>2. QED
  BY <1>1, ToggleIInv, OnHideIInv, CancelIInv, FilterChangeIInv,
     SetRefTypeIInv, SelectEntryIInv, LogCommitsIInv, PaginateIInv,
     SelectWorkspaceIInv, SelectCommitIInv, BackIInv,
     FetchRefsResolveIInv, FetchRefsRejectIInv, LogResolveIInv, LogRejectIInv
  DEF Next, UserNext, NetworkNext

(***************************************************************************)
(* Type correctness: in every reachable state every variable of the picker *)
(* holds a value of its type; in particular Paginate's cursor (the last    *)
(* name of the page on screen, line 210) is always a name or "".         *)
(***************************************************************************)
THEOREM TypeCorrect == Spec => []TypeOK
<1>1. IInv => TypeOK
  BY DEF IInv
<1>2. QED
  BY <1>1, InitIInv, NextIInv, PTL DEF Spec

(***************************************************************************)
(* No stuck placeholder: whenever RefSelector shows "Loading..." one of    *)
(* its listing requests is outstanding (the effect of lines 21-37 sets     *)
(* refList on both the resolve and the reject path).                      *)
(***************************************************************************)
THEOREM LoadingHasPendingHolds == Spec => []LoadingHasPending
<1>1. IInv => LoadingHasPending
  BY DEF IInv
<1>2. QED
  BY <1>1, InitIInv, NextIInv, PTL DEF Spec

-----------------------------------------------------------------------------
(***************************************************************************)
(* Refinement of the host's picker (RefPicker).                            *)
(***************************************************************************)
LEMMA IInvHolds == Spec => []IInv
BY InitIInv, NextIInv, PTL DEF Spec

\* A row of the list on screen is a name, so picking it reports a Ref.
LEMMA SelectEntryPick == IInv /\ SelectEntry => Picker!Pick
<1> SUFFICES ASSUME IInv, ListShown, NEW n \in refList.payload.results,
                    SelectRef([id |-> n, type |-> refType])
             PROVE  Picker!Pick
  BY DEF SelectEntry
<1>1. refList.payload \in Page
  BY DEF IInv, PayloadWhenReady, ListShown
<1>2. n \in Names /\ refType \in RefTypes
  BY <1>1 DEF Page, IInv, TypeOK
<1>3. [id |-> n, type |-> refType] \in Ref
  BY <1>2 DEF Ref
<1>4. QED
  BY <1>3 DEF SelectRef, Unmount, ListShown, Picker!Pick

\* CommitList's rows report its branch or one of its commits.
LEMMA CommitListPick == IInv /\ (SelectWorkspace \/ SelectCommit) => Picker!Pick
<1> SUFFICES ASSUME IInv, CommitsShown, SelectWorkspace \/ SelectCommit
             PROVE  Picker!Pick
  BY DEF SelectWorkspace, SelectCommit
<1>1. commitList.branch \in Names /\ commitList.commits \in SUBSET Commits
  BY DEF IInv, TypeOK, CommitsShown
<1>2. CASE SelectWorkspace
  <2>1. [id |-> commitList.branch, type |-> "branch"] \in Ref
    BY <1>1 DEF Ref, RefTypes
  <2>2. QED
    BY <1>2, <2>1 DEF SelectWorkspace, SelectRef, Unmount, CommitsShown, Picker!Pick
<1>3. CASE SelectCommit
  <2>1. PICK c \in commitList.commits : SelectRef([id |-> c, type |-> "commit"])
    BY <1>3 DEF SelectCommit
  <2>2. [id |-> c, type |-> "commit"] \in Ref
    BY <1>1 DEF Ref, RefTypes
  <2>3. QED
    BY <2>1, <2>2 DEF SelectRef, Unmount, CommitsShown, Picker!Pick
<1>4. QED
  BY <1>2, <1>3

\* Every step of RefDropdown is a step of the picker or leaves the
\* overlay and the selection alone.
LEMMA PickerStep == IInv /\ [Next]_vars => [Picker!Next]_<<show, selected>>
<1> SUFFICES ASSUME IInv, [Next]_vars PROVE [Picker!Next]_<<show, selected>>
  OBVIOUS
<1>1. CASE Toggle
  <2>1. CASE ~show /\ show' = TRUE /\ UNCHANGED selected
    BY <2>1 DEF Picker!Next, Picker!Open
  <2>2. CASE show /\ Unmount /\ UNCHANGED selected
    BY <2>2 DEF Unmount, Picker!Next, Picker!Close
  <2>3. QED
    BY <1>1, <2>1, <2>2 DEF Toggle
<1>2. CASE OnHide
  BY <1>2 DEF OnHide, Unmount, Picker!Next, Picker!Close
<1>3. CASE Cancel
  BY <1>3 DEF Cancel, Unmount, Picker!Next, Picker!Cancel
<1>4. CASE SelectEntry
  BY <1>4, SelectEntryPick DEF Picker!Next
<1>5. CASE SelectWorkspace \/ SelectCommit
  BY <1>5, CommitListPick DEF Picker!Next
<1>6. CASE FilterChange \/ SetRefType \/ LogCommits \/ Paginate \/ Back
  BY <1>6 DEF FilterChange, SetRefType, LogCommits, Paginate, Back
<1>7. CASE NetworkNext
  BY <1>7 DEF NetworkNext, FetchRefsResolve, FetchRefsReject, LogResolve, LogReject
<1>8. CASE UNCHANGED vars
  BY <1>8 DEF vars
<1>9. QED
  BY <1>1, <1>2, <1>3, <1>4, <1>5, <1>6, <1>7, <1>8 DEF Next, UserNext

(***************************************************************************)
(* RefDropdown implements RefPicker for every repository and every host:   *)
(* the selection changes only by a pick in the open overlay, which closes  *)
(* it (the selectRef wrapper, lines 245-248), or by cancel (254-257).      *)
(***************************************************************************)
THEOREM PickerRefinement == Spec => PickerRefined
<1>1. Init => Picker!Init
  BY DEF Init, Picker!Init
<1>2. QED
  BY <1>1, PickerStep, IInvHolds, PTL DEF Spec, PickerRefined, Picker!Spec

-----------------------------------------------------------------------------
(***************************************************************************)
(* Every change of the open picker's tab or cursor issues a request.       *)
(***************************************************************************)

\* A fetch for the new state leaves that request as the newest one.
LEMMA FetchIssues ==
    ASSUME TypeOK, TypeOK', Fetch(refType', pagination')
    PROVE  pending' # << >> /\ pending'[Len(pending')] = CurrentRequest'
<1>1. [type |-> refType', pagination |-> pagination'] \in Request
  BY DEF TypeOK, Request
<1>2. pending \in Seq(Request) /\ Len(pending) \in Nat
  BY LenProperties DEF TypeOK
<1>3. /\ Len(pending') = Len(pending) + 1
      /\ pending'[Len(pending) + 1] = [type |-> refType', pagination |-> pagination']
  BY <1>1, <1>2, AppendProperties DEF Fetch
<1>4. pending' # << >>
  <2>1. Len(<< >>) = 0
    BY EmptySeq
  <2>2. QED
    BY <1>2, <1>3, <2>1
<1>5. QED
  BY <1>3, <1>4 DEF CurrentRequest

LEMMA ChangeStep ==
    ASSUME IInv, [Next]_vars
    PROVE  show' /\ CurrentRequest' # CurrentRequest
              => pending' # << >> /\ pending'[Len(pending')] = CurrentRequest'
<1> SUFFICES ASSUME show', CurrentRequest' # CurrentRequest
             PROVE  pending' # << >> /\ pending'[Len(pending')] = CurrentRequest'
  OBVIOUS
<1>0. IInv'
  BY NextIInv
<1>1. CASE Toggle
  \* Opening mounts RefSelector, whose effect issues the first request;
  \* closing unmounts it, and the picker is not open after the step.
  <2>1. CASE ~show
    <3>1. pending' = <<[type |-> refType', pagination |-> pagination']>>
      BY <1>1, <2>1 DEF Toggle
    <3>2. QED
      BY <3>1 DEF CurrentRequest
  <2>2. CASE show
    BY <1>1, <2>2 DEF Toggle, Unmount
  <2>3. QED
    BY <2>1, <2>2
<1>2. CASE OnHide \/ Cancel \/ SelectEntry \/ SelectWorkspace \/ SelectCommit
  <2>1. Unmount
    BY <1>2 DEF OnHide, Cancel, SelectEntry, SelectWorkspace, SelectCommit, SelectRef
  <2>2. QED
    BY <2>1 DEF Unmount
<1>3. CASE FilterChange \/ SetRefType \/ Paginate
  <2>1. Fetch(refType', pagination')
    BY <1>3 DEF FilterChange, SetRefType, Paginate
  <2>2. QED
    BY <1>0, <2>1, FetchIssues DEF IInv
<1>4. CASE LogCommits \/ Back \/ LogResolve \/ LogReject
  BY <1>4 DEF LogCommits, Back, LogResolve, LogReject, CurrentRequest
<1>5. CASE FetchRefsResolve \/ FetchRefsReject
  <2>1. refType' = refType /\ pagination' = pagination
    BY <1>5 DEF FetchRefsResolve, FetchRefsReject
  <2>2. QED
    BY <2>1 DEF CurrentRequest
<1>6. CASE UNCHANGED vars
  BY <1>6 DEF vars, CurrentRequest
<1>7. QED
  BY <1>1, <1>2, <1>3, <1>4, <1>5, <1>6 DEF Next, UserNext, NetworkNext

(***************************************************************************)
(* For every repository and bound, and whatever order answers come in,     *)
(* every step after which the picker is open with a new tab, filter or     *)
(* cursor issues the listing request for that state as its newest one     *)
(* (the effect of lines 21-37, run on every change of its deps).           *)
(***************************************************************************)
THEOREM ChangeIssuesRequestHolds == Spec => ChangeIssuesRequest
<1>1. IInv /\ [Next]_vars
        => [show' /\ CurrentRequest' # CurrentRequest
              => pending' # << >> /\ pending'[Len(pending')] = CurrentRequest']_vars
  BY ChangeStep
<1>2. QED
  BY <1>1, IInvHolds, PTL DEF Spec, ChangeIssuesRequest

=============================================================================

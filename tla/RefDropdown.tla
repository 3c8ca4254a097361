----------------------------- MODULE RefDropdown -----------------------------
(***************************************************************************)
(* The reference picker of the lakeFS web UI                               *)
(* (webui/src/lib/components/repository/refDropdown.jsx): RefDropdown     *)
(* owns the overlay, RefSelector lists branches or tags page by page and   *)
(* drills into a branch's commits (CommitList), and the host page keeps   *)
(* the selected reference.                                                 *)
(*                                                                         *)
(* React runs every handler and the effect it triggers before the next     *)
(* user event, so one user event is one action.  The listing requests     *)
(* and the commit-log requests are asynchronous: a request is issued by    *)
(* the action that changes the effect's dependencies and answered by a     *)
(* separate network action, in any order.                                  *)
(*                                                                         *)
(* Data is abstracted: a reference name is its rank in the server's        *)
(* (lexicographic) order, so a name is a positive natural and the empty    *)
(* cursor "" is 0; a filter text is an element of FilterTexts and Match[p] is *)
(* the set of names that start with p.                                    *)
(***************************************************************************)
EXTENDS Naturals, FiniteSets, Sequences, SequencesExt

CONSTANTS
    Names,          \* branch and tag names, by their rank in the server's order
    Branches,       \* the repository's branches
    Tags,           \* the repository's tags
    Commits,        \* commit ids
    Log,            \* Log[r]: the commits commits.log returns for ref name r
    FilterTexts,       \* the filter texts a user types
    Match,          \* Match[p]: the names that start with p
    Amount,         \* RefSelector's amount prop (the page size it asks for)
    DefaultAmount,  \* the page size the listing API uses when amount is absent
    WithCommits, WithWorkspace, WithTags,  \* RefDropdown's flags
    WithCancel,     \* the host passes onCancel
    MaxInFlight,    \* bound on listing requests outstanding at once
    Null,           \* JavaScript null
    Undefined,      \* JavaScript undefined (a field missing from an object)
    NoRef           \* the host has no selected reference

EmptyCursor == 0    \* the cursor "" (before every name)

ASSUME NamesAssumption ==
    /\ Names \subseteq Nat \ {EmptyCursor}
    /\ Branches \subseteq Names /\ Tags \subseteq Names
    /\ Commits \cap Names = {}
    \* the server's order is a total order: every page has a last name
    /\ \A S \in SUBSET Names : S # {} => \E x \in S : \A y \in S : y <= x
ASSUME LogAssumption == Log \in [Names -> SUBSET Commits]
ASSUME PrefixAssumption ==
    /\ "" \in FilterTexts
    /\ Match \in [FilterTexts -> SUBSET Names]
    /\ Match[""] = Names
ASSUME AmountAssumption ==
    Amount \in Nat \ {0} /\ DefaultAmount \in Nat \ {0}
ASSUME FlagAssumption ==
    {WithCommits, WithWorkspace, WithTags, WithCancel} \subseteq BOOLEAN
ASSUME BoundAssumption == MaxInFlight \in Nat \ {0}
ASSUME ValueAssumption ==
    /\ Undefined \notin FilterTexts
    /\ NoRef \notin Names

-----------------------------------------------------------------------------
(* RefTypeBranch, RefTypeTag and RefTypeCommit of webui/src/constants.     *)
RefTypes == {"branch", "tag", "commit"}

Ref == [id : Names \cup Commits, type : RefTypes]

\* The references of each type that exist in the repository.
Existing(type) == CASE type = "branch" -> Branches
                    [] type = "tag"    -> Tags
                    [] type = "commit" -> Commits

\* The references a host page can hold as its selection.
ValidRef == {r \in Ref : r.id \in Existing(r.type)}

\* The state of RefSelector's pagination: {after, prefix, amount}; a field
\* dropped by setPagination({after}) is Undefined.
Pagination == [after : {EmptyCursor} \cup Names,
               prefix : FilterTexts \cup {Undefined},
               amount : {Amount, Undefined}]

\* A listing request: the refType and pagination the effect ran with.
Request == [type : RefTypes, pagination : Pagination]

\* A listing response: the names of the page, in server order, and has_more.
Page == [results : SUBSET Names, has_more : BOOLEAN]

RefListState == [loading : BOOLEAN, payload : {Null} \cup Page, error : BOOLEAN]

\* Mutant: Paginator reads results[results.length], past the last row.
LastNamePastEnd(S) == Undefined

\* The last name of a non-empty page: results[results.length-1].id
LastName(S) == CHOOSE x \in S : \A y \in S : y <= x

(***************************************************************************)
(* The listing endpoints (branches.list, tags.list): the first `amount`    *)
(* names of the kind that start with `prefix` and come after `after`.  A   *)
(* missing prefix or amount takes the API's default ("" and               *)
(* DefaultAmount).  Any refType but "tag" lists branches (line 26).         *)
(***************************************************************************)
Listed(type) == IF type = "tag" THEN Tags ELSE Branches
EffectivePrefix(pg) == IF pg.prefix = Undefined THEN "" ELSE pg.prefix
EffectiveAmount(pg) == IF pg.amount = Undefined THEN DefaultAmount ELSE pg.amount
Candidates(req) ==
    {n \in Listed(req.type) \cap Match[EffectivePrefix(req.pagination)] :
        n > req.pagination.after}
ServerPage(req) ==
    LET C == Candidates(req)
        R == {n \in C : Cardinality({m \in C : m < n}) < EffectiveAmount(req.pagination)}
    IN  [results |-> R, has_more |-> R # C]

-----------------------------------------------------------------------------
VARIABLES
    show,        \* RefDropdown: the overlay is open (RefSelector is mounted)
    selected,    \* the host's selected reference, passed down as `selected`
    refType,     \* RefSelector state
    pagination,  \* RefSelector state
    refList,     \* RefSelector state: {loading, payload, error}
    commitList,  \* RefSelector state: {branch, commits}
    filterText,  \* the text in the (uncontrolled) filter input
    pending,     \* listing requests issued and not answered, in issue order
    logs         \* ref names whose commits.log request is outstanding

vars == <<show, selected, refType, pagination, refList, commitList,
          filterText, pending, logs>>

FirstPage == [after |-> EmptyCursor, prefix |-> "", amount |-> Amount]
Loading == [loading |-> TRUE, payload |-> Null, error |-> FALSE]

\* The current listing request: what the effect last ran with.
CurrentRequest == [type |-> refType, pagination |-> pagination]

\* What RefSelector renders (lines 66-127): the loading placeholder, the
\* error, the CommitList, or the list of references.
CommitsShown == show /\ ~refList.loading /\ ~refList.error /\ commitList.commits # Null
ListShown == show /\ ~refList.loading /\ ~refList.error /\ commitList.commits = Null
\* The filter form and the tabs are rendered in every state but CommitList.
FormShown == show /\ ~CommitsShown

TypeOK ==
    /\ show \in BOOLEAN
    /\ selected \in Ref \cup {NoRef}
    /\ refType \in RefTypes
    /\ pagination \in Pagination
    /\ refList \in RefListState
    /\ DOMAIN commitList = {"branch", "commits"}
    /\ commitList.commits = Null \/ commitList.commits \in SUBSET Commits
    /\ commitList.commits # Null => commitList.branch \in Names
    /\ filterText \in FilterTexts
    /\ pending \in Seq(Request)
    /\ Len(pending) <= MaxInFlight
    /\ logs \in SUBSET Names

-----------------------------------------------------------------------------
(* The effect of lines 21-37: set loading and issue the listing request.   *)
Fetch(type, pg) ==
    /\ Len(pending) < MaxInFlight
    /\ refList' = Loading
    /\ pending' = Append(pending, [type |-> type, pagination |-> pg])

\* CommitList replaces the form (a different root element), so the filter
\* input is unmounted; it is empty when the form is rendered again.
InputAfterRender ==
    filterText' = IF CommitsShown' THEN "" ELSE filterText

\* The overlay hides its children: RefSelector's state and its pending
\* requests are gone (a response to an unmounted component changes nothing).
Unmount ==
    /\ show' = FALSE
    /\ refType' = "branch"
    /\ pagination' = FirstPage
    /\ refList' = Loading
    /\ commitList' = [branch |-> NoRef, commits |-> Null]
    /\ filterText' = ""
    /\ pending' = <<>>
    /\ logs' = {}

\* Mutant: the wrapper forwards the reference but leaves the overlay open.
SelectRefKeepOpen(ref) ==
    /\ selected' = ref
    /\ UNCHANGED <<show, refType, pagination, refList, commitList,
                   filterText, pending, logs>>

\* RefDropdown's selectRef wrapper (lines 245-248): the host's selectRef,
\* which makes ref the selected reference, then setShow(false).
SelectRef(ref) ==
    /\ selected' = ref
    /\ Unmount

Init ==
    /\ selected \in ValidRef \cup {NoRef}
    /\ show = FALSE
    /\ refType = "branch"
    /\ pagination = FirstPage
    /\ refList = Loading
    /\ commitList = [branch |-> NoRef, commits |-> Null]
    /\ filterText = ""
    /\ pending = <<>>
    /\ logs = {}

-----------------------------------------------------------------------------
(* The trigger button (lines 262, 284): setShow(!show).  Opening mounts    *)
(* RefSelector with its initial state and runs its effect.                 *)
Toggle ==
    \/ /\ ~show
       /\ show' = TRUE
       /\ refType' = IF selected = NoRef THEN "branch" ELSE selected.type
       /\ pagination' = FirstPage
       /\ commitList' = [branch |-> selected, commits |-> Null]
       /\ filterText' = ""
       /\ logs' = {}
       /\ refList' = Loading
       /\ pending' = <<[type |-> refType', pagination |-> FirstPage]>>
       /\ UNCHANGED selected
    \/ /\ show
       /\ Unmount
       /\ UNCHANGED selected

\* The overlay's rootClose (line 236): a click outside closes it.
OnHide ==
    /\ show
    /\ Unmount
    /\ UNCHANGED selected

\* The cancel button (lines 254-257): shown when the host passes onCancel
\* and a reference is selected; setShow(false), then the host's onCancel,
\* which clears the selection.
Cancel ==
    /\ WithCancel /\ selected # NoRef
    /\ selected' = NoRef
    /\ Unmount

\* The filter input's onChange (lines 47-53).
FilterChange ==
    \E p \in FilterTexts \ {filterText} :
        /\ FormShown
        /\ filterText' = p
        /\ pagination' = [amount |-> Amount, after |-> EmptyCursor, prefix |-> p]
        /\ Fetch(refType, pagination')
        /\ UNCHANGED <<show, selected, refType, commitList, logs>>

\* Mutant: the effect's dependency list omits refType.
SetRefTypeNoFetch ==
    \E t \in {"branch", "tag"} \ {refType} :
        /\ WithTags /\ FormShown
        /\ refType' = t
        /\ UNCHANGED <<show, selected, pagination, refList, commitList,
                       filterText, pending, logs>>

\* The tabs' onSelect={setRefType} (line 57); choosing the active tab
\* changes no state.
SetRefType ==
    \E t \in {"branch", "tag"} \ {refType} :
        /\ WithTags /\ FormShown
        /\ refType' = t
        /\ Fetch(t, pagination)
        /\ UNCHANGED <<show, selected, pagination, commitList, filterText, logs>>

\* A row's link (RefEntry, lines 182-190): the selected name is rendered
\* bold instead, compared by id only.
SelectEntry ==
    /\ ListShown
    /\ \E n \in refList.payload.results :
          /\ ~(selected # NoRef /\ n = selected.id)
          /\ SelectRef([id |-> n, type |-> refType])

\* A row's chevron (lines 111-114, 198-202): logCommits awaits
\* commits.log for the row's branch.
LogCommits ==
    /\ ListShown /\ WithCommits /\ refType # "tag"
    /\ \E n \in refList.payload.results : logs' = logs \cup {n}
    /\ UNCHANGED <<show, selected, refType, pagination, refList,
                   commitList, filterText, pending>>

\* The links Paginator renders (lines 209-227) for a non-empty page:
\* "Reset" (onPaginate("")) when from is not "", "Next..." with the last
\* name when has_more.
PaginatorLinks(page, from) ==
    (IF from # EmptyCursor THEN {EmptyCursor} ELSE {})
    \cup (IF page.has_more THEN {LastName(page.results)} ELSE {})

\* onPaginate (lines 117-119): setPagination({after}) replaces the whole
\* pagination object, so prefix and amount become undefined.
Paginate ==
    /\ ListShown
    /\ refList.payload.results # {}
    /\ \E after \in PaginatorLinks(refList.payload, pagination.after) :
          /\ pagination' = [after |-> after, prefix |-> Undefined, amount |-> Undefined]
          /\ Fetch(refType, pagination')
    /\ UNCHANGED <<show, selected, refType, commitList, filterText, logs>>

\* CommitList's workspace row (lines 148-154).
SelectWorkspace ==
    /\ CommitsShown /\ WithWorkspace
    /\ SelectRef([id |-> commitList.branch, type |-> "branch"])

\* CommitList's commit rows (lines 155-164).
SelectCommit ==
    /\ CommitsShown
    /\ \E c \in commitList.commits : SelectRef([id |-> c, type |-> "commit"])

\* CommitList's "Back" (lines 93-95, 167): setCommitList(initialCommitList).
Back ==
    /\ CommitsShown
    /\ commitList' = [branch |-> selected, commits |-> Null]
    /\ UNCHANGED <<show, selected, refType, pagination, refList,
                   filterText, pending, logs>>

-----------------------------------------------------------------------------
(* The network.  A listing request resolves (line 31) or rejects (line 33) *)
(* and sets refList whatever was issued since.  fetch keeps no order      *)
(* between requests, so any outstanding request may be answered next.     *)
Deliverable == 1..Len(pending)

FetchRefsResolve ==
    \E i \in Deliverable :
        /\ refList' = [loading |-> FALSE, payload |-> ServerPage(pending[i]), error |-> FALSE]
        /\ pending' = RemoveAt(pending, i)
        /\ UNCHANGED <<show, selected, refType, pagination, commitList, logs>>
        /\ InputAfterRender

\* Mutant: the catch branch of fetchRefs does not call setRefs.
FetchRefsRejectSilently ==
    \E i \in Deliverable :
        /\ pending' = RemoveAt(pending, i)
        /\ UNCHANGED <<show, selected, refType, pagination, refList,
                       commitList, filterText, logs>>

\* Mutant: a failed listing is retried (sent again behind the others)
\* instead of ending the placeholder.
FetchRefsRejectRetry ==
    \E i \in Deliverable :
        /\ pending' = Append(RemoveAt(pending, i), pending[i])
        /\ UNCHANGED <<show, selected, refType, pagination, refList,
                       commitList, filterText, logs>>

FetchRefsReject ==
    \E i \in Deliverable :
        /\ refList' = [loading |-> FALSE, payload |-> Null, error |-> TRUE]
        /\ pending' = RemoveAt(pending, i)
        /\ UNCHANGED <<show, selected, refType, pagination, commitList, logs>>
        /\ InputAfterRender

\* commits.log resolves: setCommitList({...commitList, branch, commits}).
LogResolve ==
    \E b \in logs :
        /\ commitList' = [branch |-> b, commits |-> Log[b]]
        /\ logs' = logs \ {b}
        /\ UNCHANGED <<show, selected, refType, pagination, refList, pending>>
        /\ InputAfterRender

\* commits.log rejects: the rejection is unhandled, nothing changes.
LogReject ==
    \E b \in logs :
        /\ logs' = logs \ {b}
        /\ UNCHANGED <<show, selected, refType, pagination, refList,
                       commitList, filterText, pending>>

-----------------------------------------------------------------------------
UserNext ==
    \/ Toggle \/ OnHide \/ Cancel
    \/ FilterChange \/ SetRefType \/ SelectEntry \/ LogCommits \/ Paginate
    \/ SelectWorkspace \/ SelectCommit \/ Back

NetworkNext ==
    \/ FetchRefsResolve \/ FetchRefsReject
    \/ LogResolve \/ LogReject

Next == UserNext \/ NetworkNext

\* The user may stop at any time; a request the browser issued is
\* eventually answered (resolved or rejected, by a timeout if need be).
Fairness ==
    /\ WF_vars(FetchRefsResolve \/ FetchRefsReject)
    /\ WF_vars(LogResolve \/ LogReject)

Spec == Init /\ [][Next]_vars /\ Fairness

-----------------------------------------------------------------------------
(***************************************************************************)
(* Properties.                                                             *)
(***************************************************************************)

\* No stuck placeholder: while RefSelector shows "Loading..." a listing
\* request of its own is outstanding, so that an answer can end it (the
\* effect's try/catch sets refList on both outcomes).
LoadingHasPending == show /\ refList.loading => pending # <<>>

\* Every "Loading..." ends: the picker eventually shows a list, an error or
\* the commits, unless it is closed.
LoadingEnds == [](show /\ refList.loading => <>(~show \/ ~refList.loading))

\* Last request wins once the network is quiet: when no listing request is
\* outstanding, the list shown is the page of the current refType and
\* pagination (spec 4.1, 8).  Lines 21-37 never discard a late response.
SettledShowsCurrent ==
    ListShown /\ pending = <<>> => refList.payload = ServerPage(CurrentRequest)

\* Every step after which the picker is open and whose tab, filter or
\* cursor differs from before issues a listing request for the new state,
\* as the newest one (the effect of lines 21-37, deps [refType,
\* pagination]; spec 5: every fetch is tagged with the state it is for).
\* This holds whatever order the answers come in.  It is what
\* last-request-wins needs: a change that fetched nothing would leave an
\* older page on screen as if it were current.
ChangeIssuesRequest ==
    [][show' /\ CurrentRequest' # CurrentRequest
         => pending' # <<>> /\ pending'[Len(pending')] = CurrentRequest']_vars

\* The filter in force is the text in the filter box: paginate keeps the
\* prefix (spec 4.1), and what the user reads in the box is what the list
\* is filtered by.  Line 118 drops the prefix; line 86 unmounts the box.
PrefixIsFilterText == FormShown => EffectivePrefix(pagination) = filterText

\* The commit history is entered only from branch mode (spec 2, 4.1:
\* drillInto is valid only when the mode is Branch): CommitList is never
\* shown over the tag tab.  logCommits (lines 111-114) applies the
\* commits.log answer whenever it arrives, also after a switch to Tags.
DrillOnlyInBranchMode == CommitsShown => refType # "tag"

Picker == INSTANCE RefPicker WITH Refs <- Ref, InitialRefs <- ValidRef
PickerRefined == Picker!Spec

\* Every reference reported to the host exists with the type it is
\* reported with (spec 3, 4.5: a commit selection opens the picker on
\* branches).  Line 20 starts RefSelector with refType "commit".
SelectionExists == selected # NoRef => selected.id \in Existing(selected.type)

=============================================================================

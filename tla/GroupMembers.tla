---------------------------- MODULE GroupMembers ----------------------------
(***************************************************************************)
(* GroupMemberList (webui/src/pages/auth/groups/group/members.jsx): the    *)
(* members of one group, a Remove button per row, an "Add Members" modal   *)
(* that attaches several users at once, and a refresh button.  The list   *)
(* is fetched by useAPIWithPagination, which fetches again whenever its    *)
(* dependencies [groupId, after, refresh] change; every mutation ends by   *)
(* toggling `refresh` to make it do so.                                    *)
(*                                                                         *)
(* A mutation's callbacks are closures created at the render the user      *)
(* clicked in: they read `refresh` as it was then (captured below), not    *)
(* as it is when the server answers.  One user event, or one answer with   *)
(* the handlers it runs and the effects they trigger, is one action.       *)
(* Pages of the member list are abstracted: the list shown is the whole    *)
(* membership as of the last fetch.  Each onAttach's Promise.all is named  *)
(* by an id, and each addUserToGroup call in flight by its user and the id *)
(* of the attach that issued it: the same user may be added by two        *)
(* attaches at once.                                                       *)
(***************************************************************************)
EXTENDS Naturals, FiniteSets

CONSTANTS
    Users,           \* the users of the installation
    InitialMembers,  \* the group's members when the page is mounted
    MaxRemoves,      \* bound on removeUserFromGroup calls in flight
    MaxAttach,       \* bound on the users chosen in one attach
    MaxInFlight,     \* bound on mutations (removes and adds) in flight
    MaxAttaches      \* bound on Promise.alls pending at once

ASSUME MembersAssumption == InitialMembers \subseteq Users
ASSUME BoundsAssumption ==
    {MaxRemoves, MaxAttach, MaxInFlight, MaxAttaches} \subseteq Nat

VARIABLES
    members,       \* the server's membership of the group
    refresh,       \* GroupMemberList state: the refresh toggle
    showAddModal,  \* GroupMemberList state
    attachError,   \* GroupMemberList state: an attach error is set
    allUsersLoaded,\* GroupMemberList state: allUsers holds the users
    list,          \* useAPIWithPagination: [state, shown]
    fetching,      \* useAPIWithPagination: its request is outstanding
    removes,       \* removeUserFromGroup calls in flight: [user, captured]
    adds,          \* addUserToGroup calls in flight: [user, attach]
    attaches       \* pending Promise.alls: [id, captured]

vars == <<members, refresh, showAddModal, attachError, allUsersLoaded,
          list, fetching, removes, adds, attaches>>

AttachIds == 1..MaxAttaches
AddCalls == [user : Users, attach : AttachIds]
AttachRecords == [id : AttachIds, captured : BOOLEAN]
ListStates == {"loading", "error", "ready"}

TypeOK ==
    /\ members \in SUBSET Users
    /\ refresh \in BOOLEAN
    /\ showAddModal \in BOOLEAN
    /\ attachError \in BOOLEAN
    /\ allUsersLoaded \in BOOLEAN
    /\ list \in [state : ListStates, shown : SUBSET Users]
    /\ fetching \in BOOLEAN
    /\ removes \in SUBSET [user : Users, captured : BOOLEAN]
    /\ adds \in SUBSET AddCalls
    /\ attaches \in SUBSET AttachRecords

-----------------------------------------------------------------------------
(* The list is rendered (neither Loading nor an error): the rows, their    *)
(* Remove buttons and the attach modal are part of `content` (66-117).     *)
ContentShown == list.state = "ready"

InFlight == Cardinality(removes) + Cardinality(adds)

\* Ids in use: by a pending Promise.all, or by a call it issued that is
\* still in flight after it rejected.
UsedIds == {a.id : a \in attaches} \cup {c.attach : c \in adds}

\* The calls the Promise.all with id i still waits for.
Waiting(i) == {c \in adds : c.attach = i}

(* useAPIWithPagination with deps [groupId, after, refresh] and the effect *)
(* on [refresh] (35-37): a change of refresh fetches again and clears the  *)
(* attach error; setting refresh to the value it has changes nothing.     *)
AfterRender ==
    IF refresh' # refresh
    THEN /\ list' = [list EXCEPT !.state = "loading"]
         /\ fetching' = TRUE
    ELSE UNCHANGED <<list, fetching>>

ClearAttachError ==
    attachError' = IF refresh' # refresh THEN FALSE ELSE attachError

Init ==
    /\ members = InitialMembers
    /\ refresh = FALSE
    /\ showAddModal = FALSE
    /\ attachError = FALSE
    /\ allUsersLoaded = FALSE
    /\ list = [state |-> "loading", shown |-> {}]
    /\ fetching = TRUE
    /\ removes = {}
    /\ adds = {}
    /\ attaches = {}

-----------------------------------------------------------------------------
(* The user.                                                               *)

\* The ConfirmationButton's onConfirm of a row (80-90).
Remove ==
    /\ ContentShown
    /\ Cardinality(removes) < MaxRemoves /\ InFlight < MaxInFlight
    /\ \E u \in list.shown :
          removes' = removes \cup {[user |-> u, captured |-> refresh]}
    /\ UNCHANGED <<members, refresh, showAddModal, attachError,
                   allUsersLoaded, list, fetching, adds, attaches>>

\* "Add Members" (125).
OpenAddModal ==
    /\ ~showAddModal
    /\ showAddModal' = TRUE
    /\ UNCHANGED <<members, refresh, attachError, allUsersLoaded, list,
                   fetching, removes, adds, attaches>>

\* The modal's onHide (108).
HideAddModal ==
    /\ ContentShown /\ showAddModal
    /\ showAddModal' = FALSE
    /\ UNCHANGED <<members, refresh, attachError, allUsersLoaded, list,
                   fetching, removes, adds, attaches>>

\* The modal's onAttach (109-114): one addUserToGroup per chosen user,
\* joined by Promise.all.  The users offered are those of allUsers.
Attach ==
    /\ ContentShown /\ showAddModal /\ allUsersLoaded
    /\ \E i \in AttachIds \ UsedIds, chosen \in SUBSET Users :
          /\ chosen # {}
          /\ Cardinality(chosen) <= MaxAttach
          /\ InFlight + Cardinality(chosen) <= MaxInFlight
          /\ adds' = adds \cup {[user |-> u, attach |-> i] : u \in chosen}
          /\ attaches' = attaches \cup {[id |-> i, captured |-> refresh]}
    /\ UNCHANGED <<members, refresh, showAddModal, attachError,
                   allUsersLoaded, list, fetching, removes>>

\* The RefreshButton (129): setRefresh(!refresh), read at the latest render.
Refresh ==
    /\ refresh' = ~refresh
    /\ AfterRender
    /\ ClearAttachError
    /\ UNCHANGED <<members, showAddModal, allUsersLoaded, removes, adds, attaches>>

-----------------------------------------------------------------------------
(* The server and the network.                                             *)

\* loadUsers (40-46), run once at mount; a rejection is unhandled.
LoadUsers ==
    /\ ~allUsersLoaded
    /\ allUsersLoaded' = TRUE
    /\ UNCHANGED <<members, refresh, showAddModal, attachError, list,
                   fetching, removes, adds, attaches>>

\* Mutant: the hook reports success under a status the page does not test.
ListResolveUnknownState ==
    /\ fetching
    /\ fetching' = FALSE
    /\ list' = [state |-> "done", shown |-> members]
    /\ UNCHANGED <<members, refresh, showAddModal, attachError,
                   allUsersLoaded, removes, adds, attaches>>

\* listGroupMembers answers the hook's latest request (32-34).
ListResolve ==
    /\ fetching
    /\ fetching' = FALSE
    /\ list' = [state |-> "ready", shown |-> members]
    /\ UNCHANGED <<members, refresh, showAddModal, attachError,
                   allUsersLoaded, removes, adds, attaches>>

ListReject ==
    /\ fetching
    /\ fetching' = FALSE
    /\ list' = [list EXCEPT !.state = "error"]
    /\ UNCHANGED <<members, refresh, showAddModal, attachError,
                   allUsersLoaded, removes, adds, attaches>>

\* removeUserFromGroup settles (87-89): on success the user is removed;
\* on failure alert(error); either way setRefresh(!refresh) with the
\* refresh of the render the button was clicked in.
RemoveSettle(r) ==
    \E ok \in BOOLEAN :
        /\ r \in removes
        /\ members' = IF ok THEN members \ {r.user} ELSE members
        /\ removes' = removes \ {r}
        /\ refresh' = ~r.captured
        /\ AfterRender
        /\ ClearAttachError
        /\ UNCHANGED <<showAddModal, allUsersLoaded, adds, attaches>>

\* The Promise.all of attach a: every add it waits for succeeded, then
\* (111) setRefresh(!refresh) with a's render, setAttachError(null),
\* and the finally (113) closes the modal, whichever modal is open now.
AttachResolved(a) ==
    /\ refresh' = ~a.captured
    /\ attachError' = FALSE
    /\ showAddModal' = FALSE
    /\ AfterRender

\* An addUserToGroup succeeds; if its Promise.all is pending and waits
\* for it alone, the Promise.all resolves.
AddResolve(c) ==
    /\ c \in adds
    /\ members' = members \cup {c.user}
    /\ adds' = adds \ {c}
    /\ IF \E a \in attaches : a.id = c.attach /\ Waiting(a.id) = {c}
       THEN LET a == CHOOSE a \in attaches : a.id = c.attach
            IN  /\ attaches' = attaches \ {a}
                /\ AttachResolved(a)
       ELSE UNCHANGED <<attaches, refresh, showAddModal, attachError, list, fetching>>
    /\ UNCHANGED <<allUsersLoaded, removes>>

\* An addUserToGroup fails.  If its Promise.all is still pending, it
\* rejects: the catch (112) sets the error and the finally (113) closes
\* the modal; the other adds go on at the server and nothing refreshes.
AddReject(c) ==
    /\ c \in adds
    /\ adds' = adds \ {c}
    /\ IF \E a \in attaches : a.id = c.attach
       THEN /\ attaches' = {a \in attaches : a.id # c.attach}
            /\ attachError' = TRUE
            /\ showAddModal' = FALSE
       ELSE UNCHANGED <<attaches, attachError, showAddModal>>
    /\ UNCHANGED <<members, refresh, allUsersLoaded, list, fetching, removes>>

-----------------------------------------------------------------------------
UserNext == Remove \/ OpenAddModal \/ HideAddModal \/ Attach \/ Refresh

NetworkNext ==
    \/ LoadUsers \/ ListResolve \/ ListReject
    \/ \E r \in removes : RemoveSettle(r)
    \/ \E c \in adds : AddResolve(c) \/ AddReject(c)

Next == UserNext \/ NetworkNext

\* Every request the page issued is eventually answered; the user may stop.
Fairness ==
    /\ WF_vars(LoadUsers)
    /\ WF_vars(ListResolve \/ ListReject)
    /\ \A r \in [user : Users, captured : BOOLEAN] : WF_vars(RemoveSettle(r))
    /\ \A c \in AddCalls : WF_vars(AddResolve(c) \/ AddReject(c))

Spec == Init /\ [][Next]_vars /\ Fairness

-----------------------------------------------------------------------------
(***************************************************************************)
(* Properties.                                                             *)
(***************************************************************************)

=============================================================================

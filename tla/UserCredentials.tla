--------------------------- MODULE UserCredentials ---------------------------
(***************************************************************************)
(* UserCredentialsList (webui/src/pages/auth/users/user/credentials.jsx):  *)
(* a user's access keys, a "Create Access Key" button that asks for        *)
(* confirmation and then creates a key, a modal that shows the created    *)
(* key, and a refresh button.  CredentialsTable lists the keys and fetches *)
(* again when its `refresh` prop changes.                                  *)
(*                                                                         *)
(* createKey (25-34) is                                                    *)
(*   createCredentials(userId).catch(setCreateError(err))                  *)
(*                            .then(key => {setCreateError(null);          *)
(*                                          setRefresh(!refresh); key})    *)
(* and the confirmation's onConfirm (77-81) chains                         *)
(*   .then(key => setCreatedKey(key)).finally(hide).                       *)
(* The chain runs to its end without a user event in between, so one       *)
(* answer of createCredentials is one action.  The closures read `refresh` *)
(* as it was at the render the user confirmed in.                          *)
(*                                                                         *)
(* onConfirm does not hide the confirmation before the create answers, and *)
(* nothing in 77-81 stops a second confirmation, or a dismissal and a new  *)
(* confirmation, while a create is in flight.  Several creates may be in   *)
(* flight at once, and two that captured the same `refresh` behave alike:  *)
(* they are counted per captured value (a bag of captured values).         *)
(***************************************************************************)
EXTENDS Naturals, FiniteSets

CONSTANTS
    Keys,         \* access keys createCredentials can return
    InitialKeys,  \* the user's keys when the page is mounted
    Null,         \* JavaScript null (undefined renders the same)
    MaxCreates    \* bound on createCredentials calls in flight

ASSUME KeysAssumption ==
    /\ InitialKeys \subseteq Keys
    /\ Null \notin Keys
ASSUME BoundAssumption == MaxCreates \in Nat

VARIABLES
    keys,          \* the server's keys of the user
    refresh,       \* UserCredentialsList state
    createError,   \* UserCredentialsList state: an error is set
    createdKey,    \* UserCredentialsList state: the key in the modal, or Null
    confirmOpen,   \* the confirmation modal is shown
    creating,      \* createCredentials in flight: count per captured refresh
    table,         \* CredentialsTable: [state, shown]
    fetching       \* CredentialsTable: its request is outstanding

vars == <<keys, refresh, createError, createdKey, confirmOpen, creating,
          table, fetching>>

Creating == creating[FALSE] + creating[TRUE]

-----------------------------------------------------------------------------
(* CredentialsTable, given refresh as a prop, fetches again when it changes *)
AfterRender ==
    IF refresh' # refresh
    THEN /\ table' = [table EXCEPT !.state = "loading"]
         /\ fetching' = TRUE
    ELSE UNCHANGED <<table, fetching>>

Init ==
    /\ keys = InitialKeys
    /\ refresh = FALSE
    /\ createError = FALSE
    /\ createdKey = Null
    /\ confirmOpen = FALSE
    /\ creating = [b \in BOOLEAN |-> 0]
    /\ table = [state |-> "loading", shown |-> {}]
    /\ fetching = TRUE

\* "Create Access Key" opens the confirmation (72-83); the created-key
\* modal (93-96) covers the page while it shows a key.
OpenConfirm ==
    /\ ~confirmOpen /\ createdKey = Null
    /\ confirmOpen' = TRUE
    /\ UNCHANGED <<keys, refresh, createError, createdKey, creating, table, fetching>>

\* The confirmation is dismissed without confirming.
DismissConfirm ==
    /\ confirmOpen
    /\ confirmOpen' = FALSE
    /\ UNCHANGED <<keys, refresh, createError, createdKey, creating, table, fetching>>

\* onConfirm (77-81): createKey() is called; the confirmation stays open.
Confirm ==
    /\ confirmOpen /\ Creating < MaxCreates
    /\ creating' = [creating EXCEPT ![refresh] = @ + 1]
    /\ UNCHANGED <<keys, refresh, createError, createdKey, confirmOpen, table, fetching>>

\* A createCredentials that captured `captured` resolves with a new key:
\* then clears the error, setRefresh(!refresh) and passes the key on;
\* setCreatedKey(key) shows it; finally(hide) closes the confirmation.
CreateResolve(captured) ==
    /\ creating[captured] > 0
    /\ \E k \in Keys \ keys :
          /\ keys' = keys \cup {k}
          /\ createdKey' = k
    /\ createError' = FALSE
    /\ refresh' = ~captured
    /\ confirmOpen' = FALSE
    /\ creating' = [creating EXCEPT ![captured] = @ - 1]
    /\ AfterRender

\* Mutant: hide is called in the success path only.
CreateRejectNoHide(captured) ==
    /\ creating[captured] > 0
    /\ createError' = FALSE
    /\ refresh' = ~captured
    /\ createdKey' = Null
    /\ creating' = [creating EXCEPT ![captured] = @ - 1]
    /\ AfterRender
    /\ UNCHANGED <<keys, confirmOpen>>

\* createCredentials rejects: the catch sets the error and returns
\* undefined, so the then runs anyway: it clears the error, toggles
\* refresh and passes undefined on to setCreatedKey; finally(hide).
CreateReject(captured) ==
    /\ creating[captured] > 0
    /\ createError' = FALSE
    /\ refresh' = ~captured
    /\ createdKey' = Null
    /\ confirmOpen' = FALSE
    /\ creating' = [creating EXCEPT ![captured] = @ - 1]
    /\ AfterRender
    /\ UNCHANGED keys

\* The key modal's onHide (96).
HideKey ==
    /\ createdKey # Null
    /\ createdKey' = Null
    /\ UNCHANGED <<keys, refresh, createError, confirmOpen, creating, table, fetching>>

\* The RefreshButton (87).
Refresh ==
    /\ refresh' = ~refresh
    /\ AfterRender
    /\ UNCHANGED <<keys, createError, createdKey, confirmOpen, creating>>

\* CredentialsTable's listing answers.
TableResolve ==
    /\ fetching
    /\ fetching' = FALSE
    /\ table' = [state |-> "ready", shown |-> keys]
    /\ UNCHANGED <<keys, refresh, createError, createdKey, confirmOpen, creating>>

TableReject ==
    /\ fetching
    /\ fetching' = FALSE
    /\ table' = [table EXCEPT !.state = "error"]
    /\ UNCHANGED <<keys, refresh, createError, createdKey, confirmOpen, creating>>

Next ==
    \/ OpenConfirm \/ DismissConfirm \/ Confirm \/ HideKey \/ Refresh
    \/ \E b \in BOOLEAN : CreateResolve(b) \/ CreateReject(b)
    \/ TableResolve \/ TableReject

\* Every request is answered; the user may stop.
Fairness ==
    /\ \A b \in BOOLEAN : WF_vars(CreateResolve(b) \/ CreateReject(b))
    /\ WF_vars(TableResolve \/ TableReject)

Spec == Init /\ [][Next]_vars /\ Fairness

-----------------------------------------------------------------------------
(***************************************************************************)
(* Properties.                                                             *)
(***************************************************************************)

TypeOK ==
    /\ keys \subseteq Keys
    /\ refresh \in BOOLEAN
    /\ createError \in BOOLEAN
    /\ createdKey \in Keys \cup {Null}
    /\ confirmOpen \in BOOLEAN
    /\ creating \in [BOOLEAN -> Nat]
    /\ table \in [state : {"loading", "ready", "error"}, shown : SUBSET Keys]
    /\ fetching \in BOOLEAN

\* Every createKey in flight leads to the confirmation being closed
\* (finally(hide), line 80), whether it resolves or rejects, also when the
\* user confirmed again or dismissed and reopened the confirmation while
\* an earlier create was still in flight.
CreateSettles == (Creating > 0) ~> ~confirmOpen

\* A failed creation is reported (spec 7: a MutationError is surfaced
\* inline): after createCredentials rejects, the error is set.  Line 30
\* clears it in the then that follows the catch.
FailureReported ==
    [][\A b \in BOOLEAN : CreateReject(b) => createError']_vars

\* The refresh toggle forces a re-fetch after a mutation (spec 5): once no
\* create and no listing is outstanding, the table lists the user's keys.
\* createKey's then (31) toggles the refresh of the render the user
\* confirmed in, so a Refresh click meanwhile makes it a no-op.
TableShowsKeys ==
    (table.state = "ready" /\ ~fetching /\ Creating = 0) => table.shown = keys

=============================================================================

----------------------------- MODULE SearchUsers -----------------------------
(***************************************************************************)
(* searchUsers (webui/src/pages/auth/groups/group/members.jsx, 48-65): the *)
(* client-side search the "Add Members" modal pages through.  It filters   *)
(* allUsers by display-name prefix and cuts the result into pages of      *)
(* PageSize by a numeric offset carried as a string in next_offset.        *)
(*                                                                         *)
(* The modal asks for the first page with after = "" and then passes each  *)
(* next_offset back as `after` while has_more.  The walk below does that   *)
(* for every list of at most MaxUsers users, every set of matching users   *)
(* and every page size up to MaxPageSize, and compares what it collected   *)
(* with the reference: all matching users, in order, each once.            *)
(* A user is its position in allUsers; the prefix test is abstracted to    *)
(* the set of positions whose display name starts with the prefix.         *)
(***************************************************************************)
EXTENDS Naturals, Sequences, SequencesExt

CONSTANTS
    MaxUsers,     \* bound on the length of allUsers
    MaxPageSize,  \* bound on PageSize (a constant of the web UI)
    NoOffset      \* next_offset = null, and the first request's after = ""

ASSUME SearchBoundsAssumption ==
    MaxUsers \in Nat /\ MaxPageSize \in Nat \ {0} /\ NoOffset \notin Nat

VARIABLES
    allUsers,   \* GroupMemberList state: the users loaded at mount
    matching,   \* the users whose display name starts with the prefix
    pageSize,   \* PageSize
    after,      \* the offset the modal asks for next
    collected,  \* the results of the pages fetched so far, in order
    done        \* the last page (has_more = false) has been fetched

vars == <<allUsers, matching, pageSize, after, collected, done>>

-----------------------------------------------------------------------------
(* allUsers.filter(user => name(user).toLowerCase().startsWith(prefix)).   *)
FilteredUsers(users, M) == SelectSeq(users, LAMBDA u : u \in M)

(* `after ? parseInt(after, 10) : 0`: "" and null give 0, a decimal string *)
(* gives its value.                                                        *)
StartIndex(a) == IF a = NoOffset THEN 0 ELSE a

(* (startIndex + PageSize < filteredUsers.length) ? String(...) : null     *)
NextOffset(start, size, len) ==
    IF start + size < len THEN start + size ELSE NoOffset

\* Mutant: slice's end taken as inclusive.
SliceInclusive(s, from, to) == SubSeq(s, from + 1, Min({to + 1, Len(s)}))

(* Array.prototype.slice(from, to): the elements at from..to-1 that exist. *)
Slice(s, from, to) == SubSeq(s, from + 1, Min({to, Len(s)}))

(* The whole of searchUsers: {results, pagination: {next_offset, has_more}}*)
SearchUsersPage(users, M, size, a) ==
    LET filtered == FilteredUsers(users, M)
        start    == StartIndex(a)
        next     == NextOffset(start, size, Len(filtered))
    IN  [results     |-> Slice(filtered, start, start + size),
         next_offset |-> next,
         has_more    |-> next # NoOffset]

-----------------------------------------------------------------------------
Init ==
    /\ \E n \in 0..MaxUsers : allUsers = [i \in 1..n |-> i]
    /\ matching \in SUBSET DOMAIN allUsers
    /\ pageSize \in 1..MaxPageSize
    /\ after = NoOffset
    /\ collected = <<>>
    /\ done = FALSE

\* The modal fetches the page at `after` and, while has_more, asks for the
\* next one at next_offset.
FetchPage ==
    LET page == SearchUsersPage(allUsers, matching, pageSize, after)
    IN  /\ ~done
        /\ collected' = collected \o page.results
        /\ after' = page.next_offset
        /\ done' = ~page.has_more
        /\ UNCHANGED <<allUsers, matching, pageSize>>

\* The walk stops with the last page: the run does not check deadlock.
Next == FetchPage

Spec == Init /\ [][Next]_vars

-----------------------------------------------------------------------------
(***************************************************************************)
(* Properties.                                                             *)
(***************************************************************************)

\* Paging loses no user and repeats none: when has_more turns false the
\* pages fetched, in order, are exactly the matching users (lines 52-56).
PagesCoverFiltered ==
    done => collected = FilteredUsers(allUsers, matching)

=============================================================================

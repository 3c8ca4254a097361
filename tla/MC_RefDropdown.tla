--------------------------- MODULE MC_RefDropdown ---------------------------
(***************************************************************************)
(* A small repository for TLC: three names in server order, two filter     *)
(* texts that split them, pages of one name (two when the amount is lost), *)
(* a tag that shares its name with a branch, and two commits.              *)
(***************************************************************************)
EXTENDS RefDropdown, TLC

CONSTANTS c1, c2

MCNames == {1, 2, 3}
MCBranches == {1, 2}
MCTags == {2, 3}
MCCommits == {c1, c2}
MCLog == (1 :> {c1}) @@ (2 :> {c1, c2}) @@ (3 :> {c1})
MCFilterTexts == {"", "a"}
MCMatch == ("" :> {1, 2, 3}) @@ ("a" :> {1, 2})

=============================================================================

--------------------------- MODULE MCSocialInbox ----------------------------
(***************************************************************************)
(* A small instance of SocialInbox: a comment on a platform with an API    *)
(* and one elsewhere, a profile with two rows in turn, two moderators.     *)
(***************************************************************************)
EXTENDS SocialInbox

\* Calls and rows are told apart by what they do only.
Symmetry == {p @@ q : p \in Permutations(Calls), q \in Permutations(Accounts)}
=============================================================================

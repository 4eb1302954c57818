--------------------------- MODULE MCBadgeGrants ---------------------------
(* Grants of two policies, for one, two or any number of acts. *)
EXTENDS BadgeGrants, TLC

CONSTANTS q1, q2, q3, r1, r2

\* Requests with an action-scoped grant overlap; with a subject-scoped grant they
\* follow one another (overlapping ones may rebind it: README).
MCSettings == [scope : {"action"}, limit : {1, 2}, overlap : {TRUE}]
       \union [scope : {"subject"}, limit : 0..2, overlap : {FALSE}]

Symmetry == Permutations(Requests) \union Permutations(Subjects)
=============================================================================

---------------------------- MODULE MCAdminGuard ----------------------------
(* Small instances of AdminGuard.                                          *)
EXTENDS AdminGuard, TLC

CONSTANTS root, ann, bob, g1, g2, r1, r2

MCUsers == {root, ann, bob}
MCGroups == {g1, g2}
MCOtherNames == {"staff", "ops"}
MCOneRequest == {r1}
MCTwoRequests == {r1, r2}

\* Requests, groups and the accounts besides the default one are interchangeable.
OneRequestSymmetry == Permutations({ann, bob}) \cup Permutations(MCGroups)

=============================================================================

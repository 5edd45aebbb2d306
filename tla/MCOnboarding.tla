---------------------------- MODULE MCOnboarding ----------------------------
(* Small instances of Onboarding.                                          *)
EXTENDS Onboarding

CONSTANTS r1, r2, c1, c2, l1, l2

MCOneRequest == {r1}
MCTwoRequests == {r1, r2}
MCOneCode == {c1}
MCTwoCodes == {c1, c2}
MCOneLink == {l1}
MCTwoLinks == {l1, l2}

=============================================================================

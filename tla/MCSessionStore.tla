--------------------------- MODULE MCSessionStore ---------------------------
(* Small instances of SessionStore.                                        *)
EXTENDS SessionStore

CONSTANTS r1, r2, a1, a2

MCOneRequest == {r1}
MCTwoRequests == {r1, r2}
MCTokens == {a1, a2}

=============================================================================

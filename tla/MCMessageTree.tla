--------------------------- MODULE MCMessageTree ---------------------------
(***************************************************************************)
(* Three requests over two conversations: enough for a question, its reply, *)
(* a second question below it and a retry of either, with a history of at   *)
(* most two rows, so that the limit cuts a branch.                          *)
(***************************************************************************)
EXTENDS MessageTree

CONSTANTS q1, q2, q3, c1, c2

MCRequests == {q1, q2, q3}
MCConversations == {c1, c2}

\* Requests and conversations are interchangeable, and no liveness is checked.
Interchangeable == Permutations(MCRequests) \cup Permutations(MCConversations)

=============================================================================

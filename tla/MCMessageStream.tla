-------------------------- MODULE MCMessageStream --------------------------
(***************************************************************************)
(* Two requests to one conversation, one of them with files, and answers   *)
(* of at most three tokens.                                                *)
(***************************************************************************)
EXTENDS MessageStream

CONSTANTS r1, r2, c1

MCRequests == {r1, r2}
MCConversations == {c1}
MCConversationOf == [r \in MCRequests |-> c1]
MCWithFiles == {r1}

=============================================================================

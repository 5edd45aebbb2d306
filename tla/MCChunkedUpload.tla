-------------------------- MODULE MCChunkedUpload --------------------------
(***************************************************************************)
(* An upload of two chunks, the second of which two requests may send.     *)
(* Requests come together in groups of a few, each of which meets what the *)
(* others do not.                                                          *)
(***************************************************************************)
EXTENDS ChunkedUpload

CONSTANTS u1, u2, u3, c1, c2, c3, x1

MCUploaders == {u1, u2, u3}
MCChunkOf == [u \in Uploaders |-> IF u = u1 THEN 0 ELSE 1]
MCCompleters == {c1, c2, c3}
MCCancellers == {x1}
MCNone == {}

Only(group) == \A p \in Handlers \ group : pc[p] = "idle"

\* Two completions after two chunks; a completion and a cancellation beside them; a chunk sent
\* twice after the other, beside a completion; three completions, which find that chunks are
\* missing.  What is left out are arrivals, for which no fairness is assumed.
MCTogether ==
    \/ Only({u1, u2, c1, c2}) /\ (Only({u1, u2}) \/ {pc[u1], pc[u2]} = {"over"})
    \/ Only({u1, u2, c1, x1})
    \/ Only({u1, u2, u3, c1}) /\ (Only({u1}) \/ pc[u1] = "over")
    \/ Only({c1, c2, c3})

=============================================================================

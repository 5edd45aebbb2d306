------------------------- MODULE MCAttachmentServer -------------------------
(* A small instance of AttachmentServer: a PDF at Cloudinary and a text    *)
(* file on the local disk, one message with both and others with one.      *)
EXTENDS AttachmentServer

CONSTANTS r1, r2, c1

MCRequests == {r1, r2}

\* Two removals, or one beside a message or a discarded upload, or a message beside it.
MCServes == [r \in MCRequests |-> IF r = r1 THEN {"send", "remove"} ELSE {"remove", "discard"}]

MCConversations == {c1}

Pdf == [id |-> "a", ext |-> "pdf", mime |-> "application/pdf", cloud |-> TRUE]
Txt == [id |-> "b", ext |-> "txt", mime |-> "text/plain", cloud |-> FALSE]

MCUploads == {Pdf, Txt}

MCMessages == {<<Txt>>, <<Txt, Pdf>>}

\* SUPPORTED_UPLOAD_EXTENSIONS and SUPPORTED_UPLOAD_MIME_TYPES, which an upload must match.
Accepted ==
    [id : {"a"}, ext : {"pdf", "txt", "docx", "xls", "xlsx"},
     mime : {"application/pdf", "text/plain", WordMime} \cup SheetMimes, cloud : BOOLEAN]

\* From its address every accepted upload is found again, to read and, as the run shows of a
\* PDF, to delete.
ASSUME \A u \in Accepted :
    /\ AssetOf(u) \in Readable(UrlOf(u))
    /\ u.ext # "pdf" => Erased(UrlOf(u)) = {AssetOf(u)}

\* What is accepted has a parser.
ASSUME \A u \in Accepted : Parser(u) # "none"

=============================================================================

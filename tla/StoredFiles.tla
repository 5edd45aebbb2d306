---------------------------- MODULE StoredFiles ----------------------------
(***************************************************************************)
(* The addresses of stored files, and what the code makes of them.  A file *)
(* is stored under an address the client keeps; to read or to delete it    *)
(* the code must find the asset from the address alone, on the local disk  *)
(* (local-storage.service.ts) or at Cloudinary (cloudinary.service.ts).    *)
(*                                                                         *)
(* An address is its host, the segments of its path and the last segment,  *)
(* a name with its extensions.  An asset is where it is stored, and its    *)
(* directory and name there.                                               *)
(***************************************************************************)
EXTENDS SequencesExt

CONSTANT CloudName   \* CLOUDINARY_CLOUD_NAME

None == [store |-> "none"]

LocalRoute == <<"api", "v1", "attachments", "files">>

CloudFolder == <<"valo", "attachments", "user">>

\* Segments of a path that begin with the letter v, and those that are a version.
VSegments == {"v1", "valo"}
Versions == {"v1"}

-----------------------------------------------------------------------------
(* Storing.  An upload has an id, the extension of its file name, a MIME   *)
(* type, and the store that took it.                                       *)

\* resource_type "auto": Cloudinary keeps a PDF as an image.
ResourceType(u) == IF u.ext = "pdf" THEN "image" ELSE "raw"

AssetOf(u) ==
    IF u.cloud
    THEN [store |-> ResourceType(u), dir |-> CloudFolder, name |-> [base |-> u.id, exts |-> <<u.ext>>]]
    ELSE [store |-> "local", dir |-> <<>>, name |-> [base |-> u.id, exts |-> <<u.ext>>]]

\* The secure_url has a version, and an image is delivered under its format.
UrlOf(u) ==
    IF ~u.cloud
    THEN [host |-> "server", dir |-> LocalRoute, name |-> AssetOf(u).name]
    ELSE [host |-> "cloudinary",
          dir |-> <<CloudName, ResourceType(u), "upload", "v1">> \o CloudFolder,
          name |-> IF ResourceType(u) = "image"
                   THEN [base |-> u.id, exts |-> <<u.ext, "pdf">>]
                   ELSE AssetOf(u).name]

-----------------------------------------------------------------------------
(* Finding the asset.                                                      *)

WithoutExtension(name) ==
    IF name.exts = <<>> THEN name ELSE [name EXCEPT !.exts = Front(@)]

WithoutFirst(path, prefixes) ==
    IF path # <<>> /\ Head(path) \in prefixes THEN Tail(path) ELSE path

\* getFileNameFromUrl looks for the route only, whatever the host.
LocalAsset(url) ==
    IF url.dir = LocalRoute THEN [store |-> "local", dir |-> <<>>, name |-> url.name] ELSE None

\* The checks parseAsset and parseAllowedUrl share.
IsDelivery(url) ==
    /\ url.host = "cloudinary"
    /\ Len(url.dir) >= 3
    /\ url.dir[1] = CloudName
    /\ url.dir[2] \in {"image", "raw"}
    /\ url.dir[3] = "upload"

AfterUpload(url) == SubSeq(url.dir, SelectInSeq(url.dir, LAMBDA part : part = "upload") + 1, Len(url.dir))

CloudNameInUrlMutant(url) == url.name

CloudNameInUrl(url) == IF url.dir[2] = "image" THEN WithoutExtension(url.name) ELSE url.name

CloudAsset(url) ==
    IF ~IsDelivery(url)
    THEN None
    ELSE [store |-> url.dir[2],
          dir |-> WithoutFirst(AfterUpload(url), VSegments),
          name |-> CloudNameInUrl(url)]

\* What Cloudinary delivers under the address itself, and under the signed address that
\* generateSignedUrl makes of it, which is always of the type "raw".
DeliveredAsset(url) ==
    IF ~IsDelivery(url)
    THEN None
    ELSE [store |-> url.dir[2],
          dir |-> WithoutFirst(AfterUpload(url), Versions),
          name |-> IF url.dir[2] = "image" THEN WithoutExtension(url.name) ELSE url.name]

SignedAsset(url) ==
    IF ~IsDelivery(url)
    THEN None
    ELSE [store |-> "raw", dir |-> WithoutFirst(AfterUpload(url), Versions), name |-> url.name]

\* The assets deleteStoredAsset asks the stores to delete.
Erased(url) == {LocalAsset(url), CloudAsset(url)} \ {None}

\* The assets a file may be read from: the local one, or the two attempts at Cloudinary.
Readable(url) ==
    IF LocalAsset(url) # None
    THEN {LocalAsset(url)}
    ELSE {DeliveredAsset(url), SignedAsset(url)} \ {None}

-----------------------------------------------------------------------------
(* Extracting the text.                                                    *)

WordMime == "application/vnd.openxmlformats-officedocument.wordprocessingml.document"
SheetMimes == {"application/vnd.openxmlformats-officedocument.spreadsheetml.sheet", "application/vnd.ms-excel"}

\* The tests of extractText, in its order.
Parsers == <<"plain", "pdf", "docx", "sheet">>

Fits(u) ==
    [plain |-> u.mime = "text/plain" \/ u.ext = "txt",
     pdf |-> u.mime = "application/pdf",
     docx |-> u.mime = WordMime \/ u.ext = "docx",
     sheet |-> u.mime \in SheetMimes \/ u.ext \in {"xls", "xlsx"}]

Parser(u) ==
    LET first == SelectInSeq(Parsers, LAMBDA parser : Fits(u)[parser])
    IN  IF first = 0 THEN "none" ELSE Parsers[first]

=============================================================================

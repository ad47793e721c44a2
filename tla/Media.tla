---------------------------------- MODULE Media ----------------------------------
(***************************************************************************)
(* Media files (cmd/media.go, internal/core/media.go) in a directory       *)
(* (internal/media/providers/filesystem): an upload looks whether a row    *)
(* has the name, writes the file and its thumbnail and inserts the row; a  *)
(* deletion removes row, file and thumbnail. Each of these is a step.      *)
(*                                                                         *)
(* A name is what is left of it: the kind of file, how often it begins     *)
(* with "thumb_", and the random suffix it was given, if any. A file holds *)
(* the number of the upload it is from.                                    *)
(***************************************************************************)
EXTENDS Integers, FiniteSets, Functions

CONSTANTS
    MediaRequests,      \* requests at once
    MediaKinds,         \* files uploaded: subset of {"image", "vector", "other"}
    MaxUploads          \* bound on uploads

ASSUME MediaAssumption == MaxUploads \in Nat /\ MediaKinds \subseteq {"image", "vector", "other"}

VARIABLES
    files,              \* the directory: name -> upload
    media,              \* rows: [name, thumb, upload]
    mediaReq,           \* requests
    uploads,            \* uploads so far
    \* --- history, read by properties only ---
    crossed             \* names that more than one upload or deletion had to do with

mediaVars == <<files, media, mediaReq, uploads, crossed>>

NoMediaReq == [at |-> "idle"]
NoThumb == [kind |-> "none"]
Torn == 0               \* what a write that fails leaves

MediaInit ==
    /\ files = <<>> /\ media = {} /\ uploads = 0 /\ crossed = {}
    /\ mediaReq = [r \in MediaRequests |-> NoMediaReq]

Named(n) == {m \in media : m.name = n}
ThumbOf(n) == [n EXCEPT !.thumbs = @ + 1]

MediaAt(r, pc) == mediaReq[r].at = pc
MediaGoto(r, rec) == mediaReq' = [mediaReq EXCEPT ![r] = rec]
Put(n, upload) == files' = [f \in DOMAIN files \cup {n} |-> IF f = n THEN upload ELSE files[f]]
Remove(names) == files' = Restrict(files, DOMAIN files \ names)

\* The files a request writes or removes.
Upload(n) == IF n.kind = "image" THEN {n, ThumbOf(n)} ELSE {n}
Deletion(n) == {n, ThumbOf(n)}

\* Bookkeeping: a request that has to do with names meets the others at work, and the files
\* of rows it could not know of.
Cross(r, names, rows) ==
    LET busy == UNION {mediaReq[o].names : o \in {o \in MediaRequests \ {r} : ~MediaAt(o, "idle")}}
        kept == UNION {{m.name, m.thumb} : m \in rows} IN
    crossed' = crossed \cup (names \cap (busy \cup kept))

\* Variant: the name is used as it is.
SameName(n, taken) == n

\* A name that a row has gets a suffix.
UniqueName(n, taken) == IF taken THEN [n EXCEPT !.suffix = uploads'] ELSE n

\* UploadMedia asks for a row with the name; when the question fails there is none.
UploadMedia(r, kind, thumbs, fails) ==
    LET given == [kind |-> kind, thumbs |-> thumbs, suffix |-> 0]
        n == UniqueName(given, Named(given) # {} /\ ~fails) IN
    /\ MediaAt(r, "idle") /\ uploads < MaxUploads /\ uploads' = uploads + 1
    /\ MediaGoto(r, [at |-> "put", name |-> n, thumb |-> NoThumb, names |-> Upload(n), upload |-> uploads'])
    /\ Cross(r, Upload(n), IF fails THEN media ELSE media \ Named(n))
    /\ UNCHANGED <<files, media>>

\* The file is written over what the name held ...
PutFile(r) ==
    LET q == mediaReq[r] IN
    /\ MediaAt(r, "put") /\ Put(q.name, q.upload)
    /\ MediaGoto(r, IF q.name.kind = "image" THEN [q EXCEPT !.at = "thumb"]
                    ELSE [q EXCEPT !.at = "insert", !.thumb = IF q.name.kind = "vector" THEN q.name ELSE NoThumb])
    /\ UNCHANGED <<media, uploads, crossed>>

\* ... or in part, and the request ends there.
PutFileFails(r) ==
    /\ MediaAt(r, "put") /\ MediaGoto(r, NoMediaReq)
    /\ files' = files \/ Put(mediaReq[r].name, Torn)
    /\ UNCHANGED <<media, uploads, crossed>>

\* Then the thumbnail of an image.
PutThumb(r) ==
    LET q == mediaReq[r] IN
    /\ MediaAt(r, "thumb") /\ Put(ThumbOf(q.name), q.upload)
    /\ MediaGoto(r, [q EXCEPT !.at = "insert", !.thumb = ThumbOf(q.name)])
    /\ UNCHANGED <<media, uploads, crossed>>

\* The image cannot be read (torn = FALSE) or its thumbnail not be written: clean up.
PutThumbFails(r, torn) ==
    LET q == mediaReq[r] IN
    /\ MediaAt(r, "thumb")
    /\ IF torn THEN Put(ThumbOf(q.name), Torn) ELSE UNCHANGED files
    /\ MediaGoto(r, [q EXCEPT !.at = "clean"])
    /\ UNCHANGED <<media, uploads, crossed>>

\* InsertMedia: the row ...
InsertMedia(r) ==
    LET q == mediaReq[r] IN
    /\ MediaAt(r, "insert")
    /\ media' = media \cup {[name |-> q.name, thumb |-> q.thumb, upload |-> q.upload]}
    /\ MediaGoto(r, [q EXCEPT !.at = "read"])
    /\ UNCHANGED <<files, uploads, crossed>>

InsertMediaFails(r) ==
    /\ MediaAt(r, "insert") /\ MediaGoto(r, [mediaReq[r] EXCEPT !.at = "clean"])
    /\ UNCHANGED <<files, media, uploads, crossed>>

\* ... is read again, ...
ReadMedia(r) ==
    /\ MediaAt(r, "read") /\ MediaGoto(r, NoMediaReq)
    /\ UNCHANGED <<files, media, uploads, crossed>>

\* ... which fails when it is gone or for another reason, as if it had not been inserted.
ReadMediaFails(r) ==
    /\ MediaAt(r, "read") /\ MediaGoto(r, [mediaReq[r] EXCEPT !.at = "clean"])
    /\ crossed' = crossed \cup mediaReq[r].names
    /\ UNCHANGED <<files, media, uploads>>

\* The deferred clean-up: the file, and the thumbnail that was written. The name of a
\* vector's thumbnail is its own.
CleanUp(r) ==
    LET q == mediaReq[r] IN
    /\ MediaAt(r, "clean") /\ Remove({q.name, q.thumb}) /\ MediaGoto(r, NoMediaReq)
    /\ UNCHANGED <<media, uploads, crossed>>

\* DeleteMedia: the row ...
DeleteMedia(r, m) ==
    /\ MediaAt(r, "idle")
    /\ media' = media \ {m}
    /\ MediaGoto(r, [at |-> "unlink", name |-> m.name, names |-> Deletion(m.name)])
    /\ Cross(r, Deletion(m.name), media')
    /\ UNCHANGED <<files, uploads>>

\* ... the file ...
Unlink(r) ==
    /\ MediaAt(r, "unlink") /\ Remove({mediaReq[r].name})
    /\ MediaGoto(r, [mediaReq[r] EXCEPT !.at = "unlinkThumb"])
    /\ UNCHANGED <<media, uploads, crossed>>

\* ... and its thumbnail, whether it has one or not.
UnlinkThumb(r) ==
    /\ MediaAt(r, "unlinkThumb") /\ Remove({ThumbOf(mediaReq[r].name)})
    /\ MediaGoto(r, NoMediaReq)
    /\ UNCHANGED <<media, uploads, crossed>>

\* The process starts again.
RestartMedia ==
    /\ \E r \in MediaRequests : ~MediaAt(r, "idle")
    /\ mediaReq' = [r \in MediaRequests |-> NoMediaReq]
    /\ UNCHANGED <<files, media, uploads, crossed>>

MediaNext ==
    \/ \E r \in MediaRequests :
          \/ \E kind \in MediaKinds, thumbs \in 0..1, fails \in BOOLEAN : UploadMedia(r, kind, thumbs, fails)
          \/ PutFile(r) \/ PutFileFails(r) \/ PutThumb(r) \/ (\E torn \in BOOLEAN : PutThumbFails(r, torn))
          \/ InsertMedia(r) \/ InsertMediaFails(r) \/ ReadMedia(r) \/ ReadMediaFails(r) \/ CleanUp(r)
          \/ \E m \in media : DeleteMedia(r, m)
          \/ Unlink(r) \/ UnlinkThumb(r)
    \/ RestartMedia

-----------------------------------------------------------------------------
(* What is checked.                                                        *)

MediaTypeOK ==
    /\ \A f \in DOMAIN files : files[f] \in 0..uploads
    /\ \A m \in media : m.upload \in 1..uploads

\* The file of a row, and its thumbnail, hold what was uploaded with it, through uploads of
\* the same name, failures with their clean-up, deletions and restarts; except under a name
\* that overlapping requests, a failed question to the database, or an upload whose own name
\* begins with "thumb_" made common to two. Those are the ways past cmd/media.go:58, which
\* says that a name that exists is made unique: two uploads ask before either has its row,
\* and no index of the table is unique (cmd/media.go:59-137, 178-192, schema.sql:191-201).
MediaIntact ==
    \A m \in media : \A n \in {m.name, m.thumb} \ ({NoThumb} \cup crossed) :
       n \in DOMAIN files /\ files[n] = m.upload
=============================================================================

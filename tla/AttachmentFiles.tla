-------------------------- MODULE AttachmentFiles --------------------------
(***************************************************************************)
(* Attachments and the files behind them (server/router/api/v1/            *)
(* attachment_service.go, store/attachment.go).  An upload saves the blob  *)
(* before it inserts the row, a delete removes the file before the row,    *)
(* and a thumbnail is made by the first request that finds none: each is a *)
(* sequence of steps on disk and database that other requests, errors and  *)
(* a stop of the server come between.                                      *)
(*                                                                         *)
(* Data stands for its attachment: a file or blob f holds what was         *)
(* uploaded as attachment f.  Objects in S3 are modelled in Presign.       *)
(***************************************************************************)
CONSTANTS
    Proc,       \* goroutines serving requests
    File,       \* attachment ids
    Path,       \* what the path template makes of uploads
    None,       \* no row, no file, no path: the blob is in the row
    Part        \* what a file holds until it is written

VARIABLES
    row,    \* the rows of resource: where the blob is, None without a row
    used,   \* attachment ids handed out
    savedAs,\* history: the path each attachment was saved under, None if in the row
    disk,   \* what is saved under each path
    thumb,  \* the thumbnail cache, by attachment id
    req,    \* the request of each goroutine, None without one
    cut     \* history: attachments with a delete that failed after the file was removed

vars == <<row, used, savedAs, disk, thumb, req, cut>>

Stage == {"open", "write", "lookup", "insert", "stat", "decode", "create", "encode",
          "show", "read", "remove", "forget"}
Row == [path : Path \cup {None}]
Request == [stage : Stage, file : File, path : Path \cup {None}, data : File \cup {None, Part}]

\* What the values stand for is told apart.
ValuesAreDistinct ==
    None # Part /\ {None, Part} \cap File = {} /\ None \notin Path \cup Row \cup Request

Rows == {f \in File : row[f] # None}
Busy(p) == req[p] # None
At(p, stage) == Busy(p) /\ req[p].stage = stage
To(p, stage) == req' = [req EXCEPT ![p].stage = stage]
End(p) == req' = [req EXCEPT ![p] = None]

Begin(p, stage, f, path) ==
    /\ ~Busy(p)
    /\ req' = [req EXCEPT ![p] = [stage |-> stage, file |-> f, path |-> path, data |-> None]]

NotFound(p) == ~Busy(p) /\ UNCHANGED req

Init ==
    /\ row = [f \in File |-> None]
    /\ used = {}
    /\ savedAs = [f \in File |-> None]
    /\ disk = [g \in Path |-> None]
    /\ thumb = [f \in File |-> None]
    /\ req = [p \in Proc |-> None]
    /\ cut = {}

---------------------------------------------------------------------------
(* Uploads.                                                                *)

FirstStage(path) == IF path = None THEN "lookup" ELSE "open"

\* Mutant of CreateAttachment: an id is handed out again.
CreateUnmarked(p) ==
    \E f \in File \ used :
        /\ Begin(p, "lookup", f, None)
        /\ UNCHANGED <<row, used, savedAs, disk, thumb>>

\* CreateAttachment with local or database storage, as the setting has it.  With
\* {uuid} in the template the path is a new one; with the default,
\* {timestamp}_{filename}, uploads of one filename in one second have the same.
CreateAttachment(p) ==
    \E f \in File \ used, path \in Path \cup {None} :
        /\ used' = used \cup {f}
        /\ savedAs' = [savedAs EXCEPT ![f] = path]
        /\ Begin(p, FirstStage(path), f, path)
        /\ UNCHANGED <<row, disk, thumb>>

\* Mutant of OpenFile: the blob is not written.
OpenUnwritten(p) ==
    /\ At(p, "open")
    /\ disk' = [disk EXCEPT ![req[p].path] = Part]
    /\ To(p, "lookup")
    /\ UNCHANGED <<row, used, savedAs, thumb>>

\* os.Create empties a file that is there.
OpenFile(p) ==
    /\ At(p, "open")
    /\ disk' = [disk EXCEPT ![req[p].path] = Part]
    /\ To(p, "write")
    /\ UNCHANGED <<row, used, savedAs, thumb>>

WriteFile(p) ==
    /\ At(p, "write")
    /\ disk' = [disk EXCEPT ![req[p].path] = req[p].file]
    /\ To(p, "lookup")
    /\ UNCHANGED <<row, used, savedAs, thumb>>

\* A memo the attachment is for may not be found, or its name be taken; the
\* file stays then.
LookUpMemo(p) ==
    /\ At(p, "lookup")
    /\ To(p, "insert") \/ End(p)
    /\ UNCHANGED <<row, used, savedAs, disk, thumb>>

InsertRow(p) ==
    /\ At(p, "insert")
    /\ row' = [row EXCEPT ![req[p].file] = [path |-> req[p].path]]
    /\ End(p)
    /\ UNCHANGED <<used, savedAs, disk, thumb>>

---------------------------------------------------------------------------
(* Downloads.                                                              *)

\* GetAttachmentBinary reads the row; a blob in the row is read with it.
GetAttachmentBinary(p) ==
    \E f \in File, stage \in {"stat", "read"} :
        /\ IF f \in Rows THEN Begin(p, stage, f, row[f].path) ELSE NotFound(p)
        /\ UNCHANGED <<row, used, savedAs, disk, thumb>>

Blob(r) == IF r.path = None THEN r.file ELSE disk[r.path]

\* Without the file the request fails.
ReadBlob(p) ==
    /\ At(p, "read")
    /\ End(p)
    /\ UNCHANGED <<row, used, savedAs, disk, thumb>>

\* getOrGenerateThumbnail: a thumbnail in the cache is shown.
StatThumbnail(p) ==
    /\ At(p, "stat")
    /\ To(p, IF thumb[req[p].file] = None THEN "decode" ELSE "show")
    /\ UNCHANGED <<row, used, savedAs, disk, thumb>>

\* What cannot be read or decoded is served as it is.
DecodeImage(p) ==
    LET blob == Blob(req[p]) IN
    /\ At(p, "decode")
    /\ req' = [req EXCEPT ![p] = IF blob \in File
                                 THEN [@ EXCEPT !.stage = "create", !.data = blob]
                                 ELSE [@ EXCEPT !.stage = "read"]]
    /\ UNCHANGED <<row, used, savedAs, disk, thumb>>

CreateThumbnail(p) ==
    /\ At(p, "create")
    /\ thumb' = [thumb EXCEPT ![req[p].file] = Part]
    /\ To(p, "encode")
    /\ UNCHANGED <<row, used, savedAs, disk>>

\* Mutant of EncodeThumbnail: it is saved under the id of any attachment.
EncodeElsewhere(p) ==
    /\ At(p, "encode")
    /\ \E f \in File : thumb' = [thumb EXCEPT ![f] = req[p].data]
    /\ To(p, "show")
    /\ UNCHANGED <<row, used, savedAs, disk>>

EncodeThumbnail(p) ==
    /\ At(p, "encode")
    /\ thumb' = [thumb EXCEPT ![req[p].file] = req[p].data]
    /\ To(p, "show")
    /\ UNCHANGED <<row, used, savedAs, disk>>

ShowThumbnail(p) ==
    /\ At(p, "show")
    /\ End(p)
    /\ UNCHANGED <<row, used, savedAs, disk, thumb>>

---------------------------------------------------------------------------
(* Deletion.                                                               *)

DeleteAttachment(p) ==
    \E f \in File :
        /\ IF f \notin Rows THEN NotFound(p)
           ELSE Begin(p, IF row[f].path = None THEN "forget" ELSE "remove", f, row[f].path)
        /\ UNCHANGED <<row, used, savedAs, disk, thumb>>

\* os.Remove of a file that is not there is an error, and ends the request.
RemoveFile(p) ==
    LET path == req[p].path IN
    /\ At(p, "remove")
    /\ disk' = [disk EXCEPT ![path] = None]
    /\ IF disk[path] = None THEN End(p) ELSE To(p, "forget")
    /\ UNCHANGED <<row, used, savedAs, thumb>>

ForgetRow(p) ==
    /\ At(p, "forget")
    /\ row' = [row EXCEPT ![req[p].file] = None]
    /\ End(p)
    /\ UNCHANGED <<used, savedAs, disk, thumb>>

---------------------------------------------------------------------------
(* A step fails, or the server stops: the rest is never run.               *)

Fail(p) ==
    /\ Busy(p)
    /\ End(p)
    /\ cut' = IF At(p, "forget") THEN cut \cup {req[p].file} ELSE cut
    /\ UNCHANGED <<row, used, savedAs, disk, thumb>>

Arrive(p) ==
    \/ CreateAttachment(p)
    \/ GetAttachmentBinary(p)
    \/ DeleteAttachment(p)

Step(p) ==
    \/ OpenFile(p)
    \/ WriteFile(p)
    \/ LookUpMemo(p)
    \/ InsertRow(p)
    \/ ReadBlob(p)
    \/ StatThumbnail(p)
    \/ DecodeImage(p)
    \/ CreateThumbnail(p)
    \/ EncodeThumbnail(p)
    \/ ShowThumbnail(p)
    \/ RemoveFile(p)
    \/ ForgetRow(p)

Next ==
    \E p \in Proc :
        \/ Arrive(p) /\ UNCHANGED cut
        \/ Step(p) /\ UNCHANGED cut
        \/ Fail(p)

Spec == Init /\ [][Next]_vars

---------------------------------------------------------------------------
(* Properties.                                                             *)

\* The attachments ever saved where this one is.
SamePath ==
    [f \in File |-> {f} \cup {g \in File : savedAs[f] # None /\ savedAs[g] = savedAs[f]}]
Shared == {f \in File : SamePath[f] # {f}}

\* Type invariant.
TypeOK ==
    /\ row \in [File -> Row \cup {None}]
    /\ used \subseteq File /\ Rows \subseteq used
    /\ savedAs \in [File -> Path \cup {None}]
    /\ disk \in [Path -> File \cup {None, Part}]
    /\ thumb \in [File -> File \cup {None, Part}]
    /\ req \in [Proc -> Request \cup {None}]
    /\ cut \subseteq File

\* The parts of the inductive invariant.
Uploading(p) == Busy(p) /\ req[p].stage \in {"open", "write", "lookup", "insert"}

\* Rows and requests have the path the attachment was saved under, and a file
\* holds nothing but what was saved there.
OwnPaths ==
    /\ \A f \in Rows : row[f].path = savedAs[f]
    /\ \A p \in Proc : Busy(p) => req[p].path = savedAs[req[p].file]
    /\ \A g \in Path : disk[g] \in {None, Part} \cup {f \in File : savedAs[f] = g}
    /\ \A f \in File \ used : savedAs[f] = None

\* Nobody else knows of an attachment that is being uploaded, and its file is
\* written before its row.
UploadsAlone ==
    \A p \in Proc : Uploading(p) =>
        /\ req[p].file \notin Rows
        /\ \A q \in Proc \ {p} : Busy(q) => req[q].file # req[p].file
        /\ At(p, "open") \/ At(p, "write") => req[p].path # None
        /\ At(p, "lookup") \/ At(p, "insert") =>
            req[p].file \in Shared \/ Blob(req[p]) = req[p].file

\* Whoever read the row sees the file whole or removed, unless another upload is
\* saved in its place; who removes it has it.
WholeOrGone ==
    /\ \A f \in Rows : row[f].path = None \/ f \in Shared \/ disk[row[f].path] # Part
    /\ \A p \in Proc : Busy(p) =>
        /\ req[p].file \in used
        /\ Uploading(p) \/ req[p].file \in Shared \/ Blob(req[p]) # Part
        /\ At(p, "remove") => req[p].path # None

\* A row whose file is gone has a delete that is about to drop it.
Removing ==
    \A f \in Rows \ cut :
        row[f].path # None /\ f \notin Shared /\ disk[row[f].path] # f =>
            \E p \in Proc : At(p, "forget") /\ req[p].file = f

\* Thumbnails are made of what was saved under the attachment's path.
OwnThumbs ==
    /\ \A f \in File : thumb[f] \in SamePath[f] \cup {None, Part}
    /\ \A p \in Proc :
        /\ At(p, "create") \/ At(p, "encode") => req[p].data \in SamePath[req[p].file]
        /\ At(p, "show") => thumb[req[p].file] # None

Inductive ==
    /\ TypeOK
    /\ OwnPaths
    /\ UploadsAlone
    /\ WholeOrGone
    /\ Removing
    /\ OwnThumbs

\* GetAttachmentBinary "returns a attachment binary by name": the whole data
\* of this attachment, or an error when another request has removed the file,
\* and never a thumbnail of another one.  Only attachments that were given one
\* path, as the default template gives uploads of one filename in one second,
\* are served for one another, or half written.
ServedIsOwn ==
    [][\A p \in Proc :
          LET f == req[p].file IN
          /\ ReadBlob(p) =>
                \/ Blob(req[p]) \in SamePath[f] \cup {None}
                \/ f \in Shared /\ Blob(req[p]) = Part
          /\ ShowThumbnail(p) => thumb[f] \in SamePath[f] \cup {Part}]_vars

\* Once every request has ended, each attachment saved on disk has its file,
\* without which neither can it be read nor will it ever be deleted: uploads
\* and deletes that race or fail lose none, but for a delete that fails after
\* it has removed the file (Store.DeleteAttachment) and for attachments that
\* were given one path: the delete of one takes the file of the other.
RowsHaveFiles ==
    (\A p \in Proc : ~Busy(p)) =>
        \A f \in Rows \ cut : f \in Shared \/ row[f].path = None \/ disk[row[f].path] = f
=============================================================================

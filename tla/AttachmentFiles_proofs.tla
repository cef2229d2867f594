----------------------- MODULE AttachmentFiles_proofs -----------------------
(***************************************************************************)
(* What AttachmentFiles promises of rows, files and thumbnails, for any    *)
(* number of requests and attachments and whatever paths the template      *)
(* gives them.  There is a lemma for each part of Inductive; that the      *)
(* attachments of one path only become more is SamePathGrows.              *)
(***************************************************************************)
EXTENDS AttachmentFiles, TLAPS

\* An empty server satisfies it.
LEMMA InitInductive ==
    ASSUME ValuesAreDistinct
    PROVE  Init => Inductive
BY DEF ValuesAreDistinct, Init, Inductive, TypeOK, OwnPaths, UploadsAlone, WholeOrGone,
       Removing, OwnThumbs, Rows, Busy, At, Uploading

\* Attachments saved under one path share it.
SharedPaths ==
    \A f, g \in File : savedAs[f] # None /\ savedAs[f] = savedAs[g] =>
        g \in SamePath[f] /\ (f # g => f \in Shared)

LEMMA PathsAreShared == TypeOK => SharedPaths
BY DEF TypeOK, SharedPaths, SamePath, Shared

\* An upload may join the attachments of a path, none ever leaves them.
SharedGrows ==
    /\ Shared \subseteq Shared'
    /\ \A f \in File : f \in SamePath[f] /\ SamePath[f] \subseteq SamePath'[f]

LEMMA SamePathGrows ==
    ASSUME TypeOK, OwnPaths, NEW p \in Proc, Arrive(p) \/ Step(p) \/ Fail(p)
    PROVE  SharedGrows
<1>1. CreateAttachment(p) \/ UNCHANGED savedAs
    BY DEF Arrive, Step, Fail, GetAttachmentBinary, DeleteAttachment, OpenFile, WriteFile,
       LookUpMemo, InsertRow, ReadBlob, StatThumbnail, DecodeImage, CreateThumbnail,
       EncodeThumbnail, ShowThumbnail, RemoveFile, ForgetRow
<1>2. \A f \in File : f \in SamePath[f] /\ SamePath[f] \subseteq SamePath'[f]
    <2>1. CASE CreateAttachment(p)
        BY <2>1 DEF TypeOK, OwnPaths, SamePath, CreateAttachment
    <2>2. CASE UNCHANGED savedAs
        BY <2>2 DEF SamePath
    <2> QED BY <1>1, <2>1, <2>2
<1>3. \A f \in File : f \in SamePath'[f]
    BY <1>2
<1> QED BY <1>2, <1>3 DEF Shared, SharedGrows

\* The file and path of a request are those of its attachment, so a step leaves
\* row, disk and thumb functions into their sets.
LEMMA TypeStep ==
    ASSUME ValuesAreDistinct, TypeOK, WholeOrGone, NEW p \in Proc,
           ((Arrive(p) \/ Step(p)) /\ UNCHANGED cut) \/ Fail(p)
    PROVE  TypeOK'
<1> USE DEF ValuesAreDistinct, TypeOK, Busy, At, To, End, Begin, NotFound, Rows, Request, Row, Stage
<1>1. CASE CreateAttachment(p) /\ UNCHANGED cut
    BY <1>1 DEF CreateAttachment, FirstStage
<1>2. CASE GetAttachmentBinary(p) /\ UNCHANGED cut
    BY <1>2 DEF GetAttachmentBinary
<1>3. CASE DeleteAttachment(p) /\ UNCHANGED cut
    BY <1>3 DEF DeleteAttachment
<1>4. CASE OpenFile(p) /\ UNCHANGED cut
    <2>1. req' \in [Proc -> Request \cup {None}]
        BY <1>4 DEF OpenFile
    <2>2. disk' = [disk EXCEPT ![req[p].path] = Part]
        BY <1>4 DEF OpenFile
    <2>3. disk' \in [Path -> File \cup {None, Part}]
        BY <2>2
    <2> QED BY <1>4, <2>1, <2>3 DEF OpenFile
<1>5. CASE WriteFile(p) /\ UNCHANGED cut
    <2>1. req' \in [Proc -> Request \cup {None}]
        BY <1>5 DEF WriteFile
    <2>2. disk' = [disk EXCEPT ![req[p].path] = req[p].file] /\ req[p].file \in File
        BY <1>5 DEF WriteFile
    <2>3. disk' \in [Path -> File \cup {None, Part}]
        BY <2>2
    <2> QED BY <1>5, <2>1, <2>3 DEF WriteFile
<1>6. CASE LookUpMemo(p) /\ UNCHANGED cut
    <2>1. CASE To(p, "insert")
        BY <1>6, <2>1 DEF LookUpMemo
    <2>2. CASE End(p)
        BY <1>6, <2>2 DEF LookUpMemo
    <2> QED BY <1>6, <2>1, <2>2 DEF LookUpMemo
<1>7. CASE InsertRow(p) /\ UNCHANGED cut
    BY <1>7 DEF InsertRow, WholeOrGone
<1>8. CASE ReadBlob(p) /\ UNCHANGED cut
    BY <1>8 DEF ReadBlob
<1>9. CASE StatThumbnail(p) /\ UNCHANGED cut
    BY <1>9 DEF StatThumbnail
<1>10. CASE DecodeImage(p) /\ UNCHANGED cut
    <2>1. req' \in [Proc -> Request \cup {None}]
        <3>1. CASE Blob(req[p]) \in File
            <4> DEFINE r == [req[p] EXCEPT !.stage = "create", !.data = Blob(req[p])]
            <4>1. req[p] \in Request
                BY <1>10 DEF DecodeImage
            <4>2. r \in Request
                BY <3>1, <4>1
            <4>3. req' = [req EXCEPT ![p] = r]
                BY <1>10, <3>1 DEF DecodeImage
            <4> HIDE DEF r
            <4> QED BY <4>2, <4>3
        <3>2. CASE Blob(req[p]) \notin File
            BY <1>10, <3>2 DEF DecodeImage
        <3> QED BY <3>1, <3>2
    <2> QED BY <1>10, <2>1 DEF DecodeImage
<1>11. CASE CreateThumbnail(p) /\ UNCHANGED cut
    BY <1>11 DEF CreateThumbnail
<1>12. CASE EncodeThumbnail(p) /\ UNCHANGED cut
    BY <1>12 DEF EncodeThumbnail
<1>13. CASE ShowThumbnail(p) /\ UNCHANGED cut
    BY <1>13 DEF ShowThumbnail
<1>14. CASE RemoveFile(p) /\ UNCHANGED cut
    BY <1>14 DEF RemoveFile, WholeOrGone
<1>15. CASE ForgetRow(p) /\ UNCHANGED cut
    BY <1>15 DEF ForgetRow
<1>16. CASE Fail(p)
    BY <1>16 DEF Fail
<1> QED BY <1>1, <1>2, <1>3, <1>4, <1>5, <1>6, <1>7, <1>8,
       <1>9, <1>10, <1>11, <1>12, <1>13, <1>14, <1>15, <1>16 DEF Arrive, Step

\* An upload takes its own path, and whoever reads a row takes the row's.
LEMMA PathsStep ==
    ASSUME ValuesAreDistinct, TypeOK, WholeOrGone, OwnPaths, NEW p \in Proc,
           ((Arrive(p) \/ Step(p)) /\ UNCHANGED cut) \/ Fail(p)
    PROVE  OwnPaths'
<1> USE DEF ValuesAreDistinct, TypeOK, Busy, At, To, End, Begin, NotFound, Rows, Request, Row, Stage, OwnPaths
<1>1. CASE CreateAttachment(p) /\ UNCHANGED cut
    <2>1. PICK f \in File \ used, path \in Path \cup {None} :
            /\ used' = used \cup {f}
            /\ savedAs' = [savedAs EXCEPT ![f] = path]
            /\ req' = [req EXCEPT ![p] = [stage |-> FirstStage(path), file |-> f,
                                          path |-> path, data |-> None]]
        BY <1>1 DEF CreateAttachment
    <2>2. UNCHANGED <<row, disk>>
        BY <1>1 DEF CreateAttachment
    <2>3. \A g \in File : savedAs'[g] = IF g = f THEN path ELSE savedAs[g]
        BY <2>1
    <2>4. \A g \in Path : disk'[g] \in {None, Part} \cup {h \in File : savedAs'[h] = g}
        BY <2>1, <2>2, <2>3
    <2>5. \A g \in File : row'[g] # None => row'[g].path = savedAs'[g]
        BY <2>1, <2>2, <2>3
    <2>6. \A q \in Proc : req'[q] # None => req'[q].path = savedAs'[req'[q].file]
        BY <2>1, <2>3 DEF WholeOrGone
    <2> QED BY <2>1, <2>3, <2>4, <2>5, <2>6
<1>2. CASE GetAttachmentBinary(p) /\ UNCHANGED cut
    BY <1>2 DEF GetAttachmentBinary
<1>3. CASE DeleteAttachment(p) /\ UNCHANGED cut
    BY <1>3 DEF DeleteAttachment
<1>4. CASE OpenFile(p) /\ UNCHANGED cut
    BY <1>4 DEF OpenFile
<1>5. CASE WriteFile(p) /\ UNCHANGED cut
    <2>1. req[p].path = savedAs[req[p].file] /\ req[p].file \in File
        BY <1>5 DEF WriteFile
    <2>2. disk' = [disk EXCEPT ![req[p].path] = req[p].file] /\ UNCHANGED savedAs
        BY <1>5 DEF WriteFile
    <2>3. \A g \in Path : disk'[g] \in {None, Part} \cup {f \in File : savedAs'[f] = g}
        BY <2>1, <2>2
    <2> QED BY <1>5, <2>3 DEF WriteFile
<1>6. CASE LookUpMemo(p) /\ UNCHANGED cut
    BY <1>6 DEF LookUpMemo
<1>7. CASE InsertRow(p) /\ UNCHANGED cut
    BY <1>7 DEF InsertRow
<1>8. CASE ReadBlob(p) /\ UNCHANGED cut
    BY <1>8 DEF ReadBlob
<1>9. CASE StatThumbnail(p) /\ UNCHANGED cut
    BY <1>9 DEF StatThumbnail
<1>10. CASE DecodeImage(p) /\ UNCHANGED cut
    BY <1>10 DEF DecodeImage
<1>11. CASE CreateThumbnail(p) /\ UNCHANGED cut
    BY <1>11 DEF CreateThumbnail
<1>12. CASE EncodeThumbnail(p) /\ UNCHANGED cut
    BY <1>12 DEF EncodeThumbnail
<1>13. CASE ShowThumbnail(p) /\ UNCHANGED cut
    BY <1>13 DEF ShowThumbnail
<1>14. CASE RemoveFile(p) /\ UNCHANGED cut
    BY <1>14 DEF RemoveFile, WholeOrGone
<1>15. CASE ForgetRow(p) /\ UNCHANGED cut
    BY <1>15 DEF ForgetRow
<1>16. CASE Fail(p)
    BY <1>16 DEF Fail
<1> QED BY <1>1, <1>2, <1>3, <1>4, <1>5, <1>6, <1>7, <1>8,
       <1>9, <1>10, <1>11, <1>12, <1>13, <1>14, <1>15, <1>16 DEF Arrive, Step

\* An upload takes an id nobody has, and its row is not there to be found until it
\* ends.
LEMMA UploadsStep ==
    ASSUME SharedPaths, SharedGrows, ValuesAreDistinct, TypeOK, WholeOrGone, OwnPaths,
           UploadsAlone, NEW p \in Proc,
           ((Arrive(p) \/ Step(p)) /\ UNCHANGED cut) \/ Fail(p)
    PROVE  UploadsAlone'
<1> USE DEF SharedGrows, ValuesAreDistinct, TypeOK, Busy, At, To, End, Begin, NotFound, Rows,
            Request, Row, Stage, Uploading, Blob, OwnPaths, UploadsAlone
<1>1. CASE CreateAttachment(p) /\ UNCHANGED cut
    BY <1>1 DEF CreateAttachment, FirstStage, WholeOrGone
<1>2. CASE GetAttachmentBinary(p) /\ UNCHANGED cut
    BY <1>2 DEF GetAttachmentBinary
<1>3. CASE DeleteAttachment(p) /\ UNCHANGED cut
    BY <1>3 DEF DeleteAttachment
<1>4. CASE OpenFile(p) /\ UNCHANGED cut
    BY <1>4 DEF SharedPaths, OpenFile
<1>5. CASE WriteFile(p) /\ UNCHANGED cut
    BY <1>5 DEF SharedPaths, WriteFile
<1>6. CASE LookUpMemo(p) /\ UNCHANGED cut
    BY <1>6 DEF LookUpMemo
<1>7. CASE InsertRow(p) /\ UNCHANGED cut
    BY <1>7 DEF InsertRow
<1>8. CASE ReadBlob(p) /\ UNCHANGED cut
    BY <1>8 DEF ReadBlob
<1>9. CASE StatThumbnail(p) /\ UNCHANGED cut
    BY <1>9 DEF StatThumbnail
<1>10. CASE DecodeImage(p) /\ UNCHANGED cut
    BY <1>10 DEF SharedPaths, DecodeImage
<1>11. CASE CreateThumbnail(p) /\ UNCHANGED cut
    BY <1>11 DEF CreateThumbnail
<1>12. CASE EncodeThumbnail(p) /\ UNCHANGED cut
    BY <1>12 DEF EncodeThumbnail
<1>13. CASE ShowThumbnail(p) /\ UNCHANGED cut
    BY <1>13 DEF ShowThumbnail
<1>14. CASE RemoveFile(p) /\ UNCHANGED cut
    BY <1>14 DEF SharedPaths, RemoveFile, WholeOrGone
<1>15. CASE ForgetRow(p) /\ UNCHANGED cut
    BY <1>15 DEF ForgetRow
<1>16. CASE Fail(p)
    BY <1>16 DEF Fail
<1> QED BY <1>1, <1>2, <1>3, <1>4, <1>5, <1>6, <1>7, <1>8,
       <1>9, <1>10, <1>11, <1>12, <1>13, <1>14, <1>15, <1>16 DEF Arrive, Step

\* Only an upload empties a file, which nobody else knows of, and it writes it
\* before the row.
LEMMA WholeStep ==
    ASSUME SharedPaths, SharedGrows, ValuesAreDistinct, TypeOK, WholeOrGone, OwnPaths,
           UploadsAlone, NEW p \in Proc,
           ((Arrive(p) \/ Step(p)) /\ UNCHANGED cut) \/ Fail(p)
    PROVE  WholeOrGone'
<1> USE DEF SharedGrows, ValuesAreDistinct, TypeOK, Busy, At, To, End, Begin, NotFound, Rows,
            Request, Row, Stage, Uploading, Blob, OwnPaths, WholeOrGone, UploadsAlone
<1>1. CASE CreateAttachment(p) /\ UNCHANGED cut
    BY <1>1 DEF CreateAttachment, FirstStage
<1>2. CASE GetAttachmentBinary(p) /\ UNCHANGED cut
    BY <1>2 DEF GetAttachmentBinary
<1>3. CASE DeleteAttachment(p) /\ UNCHANGED cut
    BY <1>3 DEF DeleteAttachment
<1>4. CASE OpenFile(p) /\ UNCHANGED cut
    BY <1>4 DEF SharedPaths, OpenFile
<1>5. CASE WriteFile(p) /\ UNCHANGED cut
    BY <1>5 DEF SharedPaths, WriteFile
<1>6. CASE LookUpMemo(p) /\ UNCHANGED cut
    BY <1>6 DEF LookUpMemo
<1>7. CASE InsertRow(p) /\ UNCHANGED cut
    BY <1>7 DEF InsertRow
<1>8. CASE ReadBlob(p) /\ UNCHANGED cut
    BY <1>8 DEF ReadBlob
<1>9. CASE StatThumbnail(p) /\ UNCHANGED cut
    BY <1>9 DEF StatThumbnail
<1>10. CASE DecodeImage(p) /\ UNCHANGED cut
    BY <1>10 DEF SharedPaths, DecodeImage
<1>11. CASE CreateThumbnail(p) /\ UNCHANGED cut
    BY <1>11 DEF CreateThumbnail
<1>12. CASE EncodeThumbnail(p) /\ UNCHANGED cut
    BY <1>12 DEF EncodeThumbnail
<1>13. CASE ShowThumbnail(p) /\ UNCHANGED cut
    BY <1>13 DEF ShowThumbnail
<1>14. CASE RemoveFile(p) /\ UNCHANGED cut
    BY <1>14 DEF SharedPaths, RemoveFile
<1>15. CASE ForgetRow(p) /\ UNCHANGED cut
    BY <1>15 DEF ForgetRow
<1>16. CASE Fail(p)
    BY <1>16 DEF Fail
<1> QED BY <1>1, <1>2, <1>3, <1>4, <1>5, <1>6, <1>7, <1>8,
       <1>9, <1>10, <1>11, <1>12, <1>13, <1>14, <1>15, <1>16 DEF Arrive, Step

\* Whoever removes the file of a row goes on to drop the row, or its delete is in
\* cut; a second one finds no file and ends.
LEMMA RemovingStep ==
    ASSUME SharedPaths, SharedGrows, ValuesAreDistinct, TypeOK, WholeOrGone, OwnPaths,
           UploadsAlone, Removing, NEW p \in Proc,
           ((Arrive(p) \/ Step(p)) /\ UNCHANGED cut) \/ Fail(p)
    PROVE  Removing'
<1> USE DEF SharedGrows, ValuesAreDistinct, TypeOK, Busy, At, To, End, Begin, NotFound, Rows,
            Request, Row, Stage, Uploading, Blob, OwnPaths, WholeOrGone, UploadsAlone, Removing
<1>1. CASE CreateAttachment(p) /\ UNCHANGED cut
    BY <1>1 DEF CreateAttachment, FirstStage
<1>2. CASE GetAttachmentBinary(p) /\ UNCHANGED cut
    BY <1>2 DEF GetAttachmentBinary
<1>3. CASE DeleteAttachment(p) /\ UNCHANGED cut
    BY <1>3 DEF DeleteAttachment
<1>4. CASE OpenFile(p) /\ UNCHANGED cut
    BY <1>4 DEF SharedPaths, OpenFile
<1>5. CASE WriteFile(p) /\ UNCHANGED cut
    BY <1>5 DEF SharedPaths, WriteFile
<1>6. CASE LookUpMemo(p) /\ UNCHANGED cut
    BY <1>6 DEF LookUpMemo
<1>7. CASE InsertRow(p) /\ UNCHANGED cut
    BY <1>7 DEF InsertRow
<1>8. CASE ReadBlob(p) /\ UNCHANGED cut
    BY <1>8 DEF ReadBlob
<1>9. CASE StatThumbnail(p) /\ UNCHANGED cut
    BY <1>9 DEF StatThumbnail
<1>10. CASE DecodeImage(p) /\ UNCHANGED cut
    BY <1>10 DEF SharedPaths, DecodeImage
<1>11. CASE CreateThumbnail(p) /\ UNCHANGED cut
    BY <1>11 DEF CreateThumbnail
<1>12. CASE EncodeThumbnail(p) /\ UNCHANGED cut
    BY <1>12 DEF EncodeThumbnail
<1>13. CASE ShowThumbnail(p) /\ UNCHANGED cut
    BY <1>13 DEF ShowThumbnail
<1>14. CASE RemoveFile(p) /\ UNCHANGED cut
    BY <1>14 DEF SharedPaths, RemoveFile
<1>15. CASE ForgetRow(p) /\ UNCHANGED cut
    BY <1>15 DEF ForgetRow
<1>16. CASE Fail(p)
    BY <1>16 DEF Fail
<1> QED BY <1>1, <1>2, <1>3, <1>4, <1>5, <1>6, <1>7, <1>8,
       <1>9, <1>10, <1>11, <1>12, <1>13, <1>14, <1>15, <1>16 DEF Arrive, Step

\* A thumbnail is written by a request that has decoded the blob of its own row.
LEMMA ThumbsStep ==
    ASSUME SharedPaths, SharedGrows, ValuesAreDistinct, TypeOK, WholeOrGone, OwnPaths,
           UploadsAlone, OwnThumbs, NEW p \in Proc,
           ((Arrive(p) \/ Step(p)) /\ UNCHANGED cut) \/ Fail(p)
    PROVE  OwnThumbs'
<1> USE DEF SharedGrows, ValuesAreDistinct, TypeOK, Busy, At, To, End, Begin, NotFound, Rows,
            Request, Row, Stage, Uploading, Blob, OwnPaths, WholeOrGone, UploadsAlone, OwnThumbs
<1>1. CASE CreateAttachment(p) /\ UNCHANGED cut
    BY <1>1 DEF CreateAttachment, FirstStage
<1>2. CASE GetAttachmentBinary(p) /\ UNCHANGED cut
    BY <1>2 DEF GetAttachmentBinary
<1>3. CASE DeleteAttachment(p) /\ UNCHANGED cut
    BY <1>3 DEF DeleteAttachment
<1>4. CASE OpenFile(p) /\ UNCHANGED cut
    BY <1>4 DEF SharedPaths, OpenFile
<1>5. CASE WriteFile(p) /\ UNCHANGED cut
    BY <1>5 DEF SharedPaths, WriteFile
<1>6. CASE LookUpMemo(p) /\ UNCHANGED cut
    BY <1>6 DEF LookUpMemo
<1>7. CASE InsertRow(p) /\ UNCHANGED cut
    BY <1>7 DEF InsertRow
<1>8. CASE ReadBlob(p) /\ UNCHANGED cut
    BY <1>8 DEF ReadBlob
<1>9. CASE StatThumbnail(p) /\ UNCHANGED cut
    BY <1>9 DEF StatThumbnail
<1>10. CASE DecodeImage(p) /\ UNCHANGED cut
    BY <1>10 DEF SharedPaths, DecodeImage
<1>11. CASE CreateThumbnail(p) /\ UNCHANGED cut
    BY <1>11 DEF CreateThumbnail
<1>12. CASE EncodeThumbnail(p) /\ UNCHANGED cut
    <2> DEFINE f == req[p].file
    <2>1. /\ f \in File /\ req[p].data \in SamePath[f]
          /\ thumb' = [thumb EXCEPT ![f] = req[p].data]
        BY <1>12 DEF EncodeThumbnail
    <2>2. \A g \in File : thumb'[g] \in SamePath'[g] \cup {None, Part}
        BY <2>1
    <2>3. thumb'[f] # None
        BY <2>1 DEF SamePath
    <2>4. req' = [req EXCEPT ![p].stage = "show"] /\ req'[p].file = f
        BY <1>12 DEF EncodeThumbnail
    <2>5. ASSUME NEW q \in Proc, At(q, "show")' PROVE thumb'[req'[q].file] # None
        <3>1. CASE q = p
            BY <2>3, <2>4, <3>1
        <3>2. CASE q # p
            <4>1. At(q, "show") /\ req'[q] = req[q]
                BY <2>4, <2>5, <3>2
            <4>2. thumb[req[q].file] # None
                BY <4>1
            <4> QED BY <2>1, <2>3, <4>1, <4>2
        <3> QED BY <3>1, <3>2
    <2>6. ASSUME NEW q \in Proc, At(q, "create")' \/ At(q, "encode")'
          PROVE  req'[q].data \in SamePath'[req'[q].file]
        <3>1. q # p /\ req'[q] = req[q]
            BY <2>4, <2>6
        <3> QED BY <2>6, <3>1
    <2> QED BY <2>2, <2>5, <2>6
<1>13. CASE ShowThumbnail(p) /\ UNCHANGED cut
    BY <1>13 DEF ShowThumbnail
<1>14. CASE RemoveFile(p) /\ UNCHANGED cut
    BY <1>14 DEF SharedPaths, RemoveFile
<1>15. CASE ForgetRow(p) /\ UNCHANGED cut
    BY <1>15 DEF ForgetRow
<1>16. CASE Fail(p)
    BY <1>16 DEF Fail
<1> QED BY <1>1, <1>2, <1>3, <1>4, <1>5, <1>6, <1>7, <1>8,
       <1>9, <1>10, <1>11, <1>12, <1>13, <1>14, <1>15, <1>16 DEF Arrive, Step

\* The invariant is inductive.
LEMMA InductiveStep ==
    ASSUME ValuesAreDistinct, Inductive, [Next]_vars
    PROVE  Inductive'
<1> USE DEF Inductive
<1>1. ASSUME NEW p \in Proc,
             ((Arrive(p) \/ Step(p)) /\ UNCHANGED cut) \/ Fail(p)
      PROVE  Inductive'
    <2>1. SharedGrows
        BY <1>1, SamePathGrows
    <2>2. SharedPaths
        BY PathsAreShared
    <2> QED BY <1>1, <2>1, <2>2, TypeStep, PathsStep, UploadsStep, WholeStep, RemovingStep,
               ThumbsStep
<1>2. CASE UNCHANGED vars
    <2>1. UNCHANGED <<row, used, savedAs, disk, thumb, req, cut>>
        BY <1>2 DEF vars
    <2>2. UNCHANGED <<SamePath, Shared>>
        BY <2>1 DEF SamePath, Shared
    <2>3. TypeOK' /\ OwnPaths' /\ OwnThumbs'
        BY <2>1, <2>2 DEF TypeOK, OwnPaths, OwnThumbs, Rows, Busy, At
    <2>4. UploadsAlone' /\ WholeOrGone' /\ Removing'
        BY <2>1, <2>2 DEF UploadsAlone, WholeOrGone, Removing, Rows, Busy, At, Uploading, Blob
    <2> QED BY <2>3, <2>4
<1> QED BY <1>1, <1>2 DEF Next

---------------------------------------------------------------------------

\* Whatever uploads, downloads and deletes run into each other, fail or are cut
\* off, what is known of rows, files, thumbnails and requests holds.
THEOREM AlwaysInductive ==
    ASSUME ValuesAreDistinct
    PROVE  Spec => []Inductive
<1>1. Init => Inductive
    BY InitInductive
<1>2. Inductive /\ [Next]_vars => Inductive'
    BY InductiveStep
<1> QED BY <1>1, <1>2, PTL DEF Spec

\* Type correctness.
THEOREM TypeCorrect ==
    ASSUME ValuesAreDistinct
    PROVE  Spec => []TypeOK
<1>1. Inductive => TypeOK
    BY DEF Inductive
<1> QED BY <1>1, AlwaysInductive, PTL

\* Once every request has ended, each attachment saved on disk has its file, but
\* for a delete that failed after it had removed it (Store.DeleteAttachment).
THEOREM FilesKept ==
    ASSUME ValuesAreDistinct
    PROVE  Spec => []RowsHaveFiles
<1>1. Inductive => RowsHaveFiles
    BY DEF Inductive, OwnPaths, Removing, RowsHaveFiles, At
<1> QED BY <1>1, AlwaysInductive, PTL

\* GetAttachmentBinary serves the whole data of the attachment that was asked for
\* or, when the file was removed meanwhile, an error, and never a thumbnail of
\* another attachment.
THEOREM OwnServed ==
    ASSUME ValuesAreDistinct
    PROVE  Spec => ServedIsOwn
<1> DEFINE Own ==
        \A p \in Proc :
            /\ ReadBlob(p) =>
                \/ Blob(req[p]) \in SamePath[req[p].file] \cup {None}
                \/ req[p].file \in Shared /\ Blob(req[p]) = Part
            /\ ShowThumbnail(p) => thumb[req[p].file] \in SamePath[req[p].file] \cup {Part}
<1>1. ASSUME Inductive, NEW p \in Proc, ReadBlob(p)
      PROVE  \/ Blob(req[p]) \in SamePath[req[p].file] \cup {None}
             \/ req[p].file \in Shared /\ Blob(req[p]) = Part
    <2>1. SharedPaths
        BY <1>1, PathsAreShared DEF Inductive
    <2>2. req[p].path = savedAs[req[p].file] /\ req[p].path \in Path \cup {None}
        BY <1>1 DEF Inductive, TypeOK, OwnPaths, ReadBlob, At, Busy, Request
    <2>3. req[p].file \in File /\ req[p].file \in SamePath[req[p].file]
        BY <1>1 DEF Inductive, TypeOK, ReadBlob, At, Busy, Request, SamePath
    <2>4. Blob(req[p]) # Part \/ req[p].file \in Shared
        BY <1>1 DEF Inductive, WholeOrGone, ReadBlob, At, Uploading, Busy
    <2>5. CASE req[p].path = None
        BY <2>3, <2>5 DEF Blob
    <2>6. CASE req[p].path \in Path
        <3>1. disk[req[p].path] \in {None, Part} \cup {g \in File : savedAs[g] = req[p].path}
            BY <1>1, <2>6 DEF Inductive, OwnPaths
        <3>2. req[p].path # None
            BY <2>6 DEF ValuesAreDistinct
        <3> QED BY <2>1, <2>2, <2>3, <2>4, <3>1, <3>2 DEF Blob, SharedPaths
    <2> QED BY <2>2, <2>5, <2>6
<1>2. ASSUME Inductive, NEW p \in Proc, ShowThumbnail(p)
      PROVE  thumb[req[p].file] \in SamePath[req[p].file] \cup {Part}
    BY <1>2 DEF ValuesAreDistinct, Inductive, TypeOK, OwnThumbs, ShowThumbnail, At, Busy, Request
<1>3. Inductive => Own
    BY <1>1, <1>2
<1>4. Inductive /\ [Next]_vars => [Own]_vars
    BY <1>3
<1>5. [][Own]_vars => ServedIsOwn
    BY PTL DEF ServedIsOwn
<1> QED BY <1>4, <1>5, AlwaysInductive, PTL DEF Spec
=============================================================================

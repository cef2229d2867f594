------------------------- MODULE MemoPayload_proofs -------------------------
(***************************************************************************)
(* The promises of MemoPayload that need no bound, for every set of        *)
(* goroutines, memos, tags and locations and every case folding.  A        *)
(* request either starts, with what it has read (StartKeeps), or is done   *)
(* in one statement (AtOnceKeeps), or writes or gives up what it has read. *)
(***************************************************************************)
EXTENDS MemoPayload, TLAPS

USE NoneIsNoPlace, NoneIsNoValue

\* What a request must be when it starts, given the rows it has read.
Sound(r) ==
    /\ r \in Request /\ Rest(r) # {}
    /\ \A m \in Memo : r.todo[m] # None =>
        /\ r.todo[m].content # None =>
             r.todo[m].payload # None /\ r.todo[m].payload.tags = r.todo[m].content
        /\ r.todo[m].content = None /\ r.todo[m].payload # None =>
             memo[m] # None /\ r.todo[m].payload.tags = memo[m].payload.tags

\* A request that starts with what it has just read keeps the invariant, when
\* the rows it is to write tags to stay as it read them.
LEMMA StartKeeps ==
    ASSUME Payloads, NEW p \in Proc, NEW r, Sound(r), Start(p, r),
           memo' \in [Memo -> Row \cup {None}], used' \subseteq Memo, Rows' \subseteq used',
           comments' \subseteq Memo \X Memo,
           memo' = memo \/ \A m \in Memo : r.todo[m] # None => r.todo[m].payload = None
    PROVE  Payloads'
<1> USE DEF Payloads, Start, Busy, Sound
<1>1. TypeOK'
    <2>1. req' \in [Proc -> Request \cup {None}]
        BY DEF TypeOK
    <2>2. \A q \in Proc : req'[q] # None => Rest(req'[q]) # {}
        BY DEF TypeOK
    <2>4. alone' \in [Proc -> BOOLEAN]
        <3>1. \A q \in Proc : (alone[q] /\ ~Busy(q)) \in BOOLEAN
            OBVIOUS
        <3> QED BY DEF TypeOK
    <2> QED BY <2>1, <2>2, <2>4 DEF TypeOK
<1>2. Whole'
    BY DEF TypeOK, Whole
<1>3. Fresh'
    <2> SUFFICES ASSUME NEW q \in Proc, alone'[q]
                 PROVE  /\ req'[q] # None
                        /\ \A o \in Proc \ {q} : req'[o] = None
                        /\ \A m \in Memo :
                             LET c == req'[q].todo[m] IN
                             /\ c # None /\ c.content = None /\ c.payload # None
                             /\ memo'[m] # None
                             => c.payload.tags = memo'[m].payload.tags
        BY DEF Fresh
    <2>1. q = p
        BY DEF TypeOK, Fresh
    <2>2. req'[q] = r /\ r # None
        BY <2>1 DEF TypeOK
    <2>3. \A o \in Proc \ {q} : req'[o] = None
        BY <2>1 DEF TypeOK
    <2> QED BY <2>2, <2>3
<1> QED BY <1>1, <1>2, <1>3

\* So does one that has changed nothing yet.
LEMMA BeginKeeps ==
    ASSUME Payloads, NEW p \in Proc, NEW r, Sound(r), Begin(p, r)
    PROVE  Payloads'
<1>1. Start(p, r) /\ memo' = memo /\ used' = used /\ comments' = comments
    BY DEF Begin
<1>2. /\ memo' \in [Memo -> Row \cup {None}] /\ used' \subseteq Memo
      /\ Rows' \subseteq used' /\ comments' \subseteq Memo \X Memo
    BY <1>1 DEF Payloads, TypeOK, Rows
<1> QED BY <1>1, <1>2, StartKeeps

\* A request of one statement ends every other request's being alone.
LEMMA AtOnceKeeps ==
    ASSUME Payloads, NEW p \in Proc, AtOnce(p),
           memo' \in [Memo -> Row \cup {None}], used' \subseteq Memo, Rows' \subseteq used',
           comments' \subseteq Memo \X Memo
    PROVE  Payloads'
<1> USE DEF Payloads, AtOnce, Busy
<1>1. TypeOK'
    BY DEF TypeOK, Rest
<1>2. Whole'
    BY DEF TypeOK, Whole
<1>3. Fresh'
    BY DEF TypeOK, Fresh
<1> QED BY <1>1, <1>2, <1>3

\* A server without memos and requests satisfies it.
LEMMA InitPayloads == Init => Payloads
BY DEF Init, Payloads, TypeOK, Whole, Fresh, Busy, Rows

\* A new memo has a new id and a payload derived from its content.
LEMMA InsertRow ==
    ASSUME Payloads, NEW m \in Memo, Insert(m)
    PROVE  /\ memo' \in [Memo -> Row \cup {None}] /\ used' \subseteq Memo
           /\ Rows' \subseteq used' /\ m \notin used /\ used' = used \cup {m}
           /\ comments' = comments /\ comments' \subseteq Memo \X Memo
           /\ \A n \in Memo \ {m} : memo'[n] = memo[n]
           /\ \A n \in used : n # m
<1>1. ASSUME NEW content, NEW place
      PROVE  Rebuilt([tags |-> {}, location |-> place], content) =
                 [tags |-> content, location |-> place]
    BY DEF Rebuilt
<1>2. PICK content \in SUBSET Tag, place \in Place \cup {None} :
        memo' = [memo EXCEPT ![m] =
               [content |-> content,
                payload |-> Rebuilt([tags |-> {}, location |-> place], content),
                archived |-> FALSE]]
    BY DEF Insert
<1>3. m \notin used /\ used' = used \cup {m} /\ comments' = comments
    BY DEF Insert
<1>4. memo' \in [Memo -> Row \cup {None}]
    <2> DEFINE payload == Rebuilt([tags |-> {}, location |-> place], content)
    <2>1. payload \in Payload
        <3>1. payload = [tags |-> content, location |-> place]
            BY <1>1
        <3> QED BY <3>1 DEF Payload
    <2> HIDE DEF payload
    <2>2. [content |-> content, payload |-> payload, archived |-> FALSE] \in Row
        BY <2>1 DEF Row
    <2> QED BY <1>2, <2>2 DEF Payloads, TypeOK, payload
<1>5. \A n \in Memo \ {m} : memo'[n] = memo[n]
    BY <1>2 DEF Payloads, TypeOK
<1>6. used' \subseteq Memo /\ Rows' \subseteq used'
    BY <1>3, <1>5 DEF Payloads, TypeOK, Rows
<1> QED BY <1>3, <1>4, <1>5, <1>6 DEF Payloads, TypeOK

LEMMA CreateStep ==
    ASSUME Payloads, NEW p \in Proc, CreateMemo(p)
    PROVE  Payloads'
<1>1. AtOnce(p) /\ \E m \in Memo : Insert(m)
    BY DEF CreateMemo
<1> QED BY <1>1, InsertRow, AtOnceKeeps

\* What CreateMemoComment has still to do when it has inserted the comment.
CommentRequest(m, parent) ==
    [op |-> "comment", tag |-> None, parent |-> {parent}, found |-> {},
     todo |-> [n \in Memo |-> IF n = m THEN NoChange ELSE None]]

LEMMA CommentSound ==
    ASSUME Payloads, NEW m \in Memo, NEW parent \in used
    PROVE  /\ Sound(CommentRequest(m, parent))
           /\ CommentRequest(m, parent).op = "comment"
           /\ \A n \in Memo : CommentRequest(m, parent).todo[n] # None =>
                  CommentRequest(m, parent).todo[n].payload = None
<1> DEFINE r == CommentRequest(m, parent)
<1>1. NoChange \in Columns /\ NoChange.content = None /\ NoChange.payload = None
    BY DEF NoChange, Columns
<1>2. r.todo = [n \in Memo |-> IF n = m THEN NoChange ELSE None] /\ r.op = "comment"
    BY DEF CommentRequest
<1>3. r.todo \in [Memo -> Columns \cup {None}]
    BY <1>1, <1>2
<1>4. r \in Request
    <2>1. parent \in Memo
        BY DEF Payloads, TypeOK
    <2>2. [n \in Memo |-> IF n = m THEN NoChange ELSE None] \in [Memo -> Columns \cup {None}]
        BY <1>1
    <2> HIDE DEF NoChange
    <2> QED BY <2>1, <2>2 DEF CommentRequest, Request
<1>5. r.todo[m] = NoChange /\ NoChange # None /\ \A n \in Memo \ {m} : r.todo[n] = None
    BY <1>1, <1>2
<1>6. Rest(r) # {}
    BY <1>5 DEF Rest
<1> HIDE DEF r
<1>7. Sound(r)
    BY <1>1, <1>4, <1>5, <1>6 DEF Sound
<1>8. \A n \in Memo : r.todo[n] # None => r.todo[n].payload = None
    BY <1>1, <1>5
<1> QED BY <1>2, <1>7, <1>8 DEF r

LEMMA CommentStep ==
    ASSUME Payloads, NEW p \in Proc, CreateMemoComment(p)
    PROVE  Payloads'
<1>1. PICK m \in Memo, parent \in used : Insert(m) /\ Start(p, CommentRequest(m, parent))
    BY DEF CreateMemoComment, CommentRequest
<1> QED BY <1>1, CommentSound, InsertRow, StartKeeps

LEMMA DeleteStep ==
    ASSUME Payloads, NEW p \in Proc, DeleteMemo(p)
    PROVE  Payloads'
<1>1. /\ memo' \in [Memo -> Row \cup {None}] /\ used' \subseteq Memo
      /\ Rows' \subseteq used' /\ comments' \subseteq Memo \X Memo
    BY DEF DeleteMemo, Payloads, TypeOK, Rows
<1> QED BY <1>1, AtOnceKeeps DEF DeleteMemo

Masks == {{"content"}, {"location"}, {"content", "location"}}

\* What the mask of UpdateMemo makes of a row.
LEMMA EditedColumns ==
    ASSUME NEW row \in Row, NEW content \in SUBSET Tag, NEW place \in Place \cup {None},
           NEW mask \in Masks
    PROVE  /\ Edited(row, mask, content, place) \in Columns
           /\ Edited(row, mask, content, place).payload # None
           /\ Edited(row, mask, content, place).content # None =>
                Edited(row, mask, content, place).payload.tags =
                Edited(row, mask, content, place).content
           /\ Edited(row, mask, content, place).content = None =>
                Edited(row, mask, content, place).payload.tags = row.payload.tags
<1> DEFINE placed == IF "location" \in mask THEN [row.payload EXCEPT !.location = place]
                                            ELSE row.payload
<1>1. placed \in Payload /\ placed.tags = row.payload.tags
    BY DEF Row, Payload
<1>2. CASE "content" \in mask
    <2>1. Edited(row, mask, content, place) =
              [content |-> content, payload |-> [placed EXCEPT !.tags = content],
               archived |-> None]
        BY <1>2 DEF Edited, Rebuilt, NoChange
    <2>2. /\ [placed EXCEPT !.tags = content] \in Payload
          /\ [placed EXCEPT !.tags = content].tags = content
        BY <1>1 DEF Payload
    <2> DEFINE payload == [placed EXCEPT !.tags = content]
    <2>3. payload \in Payload /\ payload.tags = content /\ payload # None /\ content # None
        BY <2>2
    <2> HIDE DEF placed, payload
    <2>4. Edited(row, mask, content, place) =
              [content |-> content, payload |-> payload, archived |-> None]
        BY <2>1 DEF payload
    <2> QED BY <2>3, <2>4 DEF Columns
<1>3. CASE "content" \notin mask
    <2>1. Edited(row, mask, content, place) =
              [content |-> None, payload |-> placed, archived |-> None]
        BY <1>3 DEF Edited, NoChange
    <2> HIDE DEF placed
    <2> QED BY <2>1, <1>1 DEF Columns
<1> QED BY <1>2, <1>3

\* UpdateMemo reads one memo and is sound about it.
LEMMA UpdateStep ==
    ASSUME Payloads, NEW p \in Proc, UpdateMemo(p)
    PROVE  Payloads'
<1> DEFINE req1(m, columns) ==
        [op |-> "update", tag |-> None, parent |-> {m}, found |-> {m},
         todo |-> [n \in Memo |-> IF n = m THEN columns ELSE None]]
<1>1. ASSUME NEW m \in Rows, NEW c \in Columns,
             c.content # None => c.payload # None /\ c.payload.tags = c.content,
             c.content = None /\ c.payload # None => c.payload.tags = memo[m].payload.tags
      PROVE  Sound(req1(m, c))
    <2>1. m \in Memo /\ memo[m] # None
        BY <1>1 DEF Rows
    <2>2. req1(m, c).todo \in [Memo -> Columns \cup {None}]
        OBVIOUS
    <2>3. req1(m, c) \in Request
        BY <2>1, <2>2 DEF Request
    <2>4. m \in Rest(req1(m, c))
        BY <2>1, <1>1 DEF Rest
    <2> QED BY <2>1, <2>3, <2>4, <1>1 DEF Sound
<1>2. ASSUME NEW m \in Rows
      PROVE  memo[m] \in Row
    BY <1>2 DEF Payloads, TypeOK, Rows
<1>3. ASSUME NEW m \in Rows, NEW content \in SUBSET Tag, NEW place \in Place \cup {None},
             NEW mask \in Masks
      PROVE  Sound(req1(m, Edited(memo[m], mask, content, place)))
    <2> DEFINE c == Edited(memo[m], mask, content, place)
    <2>1. /\ c \in Columns /\ c.payload # None
          /\ c.content # None => c.payload.tags = c.content
          /\ c.content = None => c.payload.tags = memo[m].payload.tags
        <3>1. memo[m] \in Row
            BY <1>2
        <3> QED BY <1>3, <3>1, EditedColumns
    <2> HIDE DEF c, req1
    <2>2. Sound(req1(m, c))
        BY <1>1, <1>3, <2>1
    <2> QED BY <2>2 DEF c
<1>4. ASSUME NEW m \in Rows, NEW archived \in BOOLEAN
      PROVE  Sound(req1(m, [NoChange EXCEPT !.archived = archived]))
    <2>1. [NoChange EXCEPT !.archived = archived] =
              [content |-> None, payload |-> None, archived |-> archived]
        BY DEF NoChange
    <2>2. [NoChange EXCEPT !.archived = archived] \in Columns
        BY <2>1 DEF Columns
    <2> QED BY <1>1, <2>1, <2>2
<1>5. \E r : Sound(r) /\ Begin(p, r)
    <2>1. PICK m \in Rows :
             \/ \E content \in SUBSET Tag :
                    Begin(p, req1(m, Edited(memo[m], {"content"}, content, None)))
             \/ \E place \in Place \cup {None} :
                  \/ Begin(p, req1(m, Edited(memo[m], {"location"}, {}, place)))
                  \/ \E content \in SUBSET Tag :
                        Begin(p, req1(m, Edited(memo[m], {"content", "location"}, content, place)))
             \/ \E archived \in BOOLEAN :
                    Begin(p, req1(m, [NoChange EXCEPT !.archived = archived]))
        BY DEF UpdateMemo
    <2>2. {"content"} \in Masks /\ {"location"} \in Masks /\ {"content", "location"} \in Masks
        BY DEF Masks
    <2>3. {} \in SUBSET Tag /\ None \in Place \cup {None}
        OBVIOUS
    <2> HIDE DEF req1
    <2> QED BY <2>1, <2>2, <2>3, <1>3, <1>4
<1> QED BY <1>5, BeginKeeps

\* The memos a tag request lists are memos that exist.
LEMMA ListedExist ==
    ASSUME NEW t \in Tag
    PROVE  Listed(t) \subseteq Rows
BY DEF Listed

\* What a renamed memo is given: the tags of its new content.
LEMMA RenamedColumns ==
    ASSUME NEW row \in Row, NEW old \in Tag, NEW new \in Tag
    PROVE  LET c == Renamed(row, old, new) IN
           c \in Columns /\ c.content # None /\ c.payload # None /\ c.payload.tags = c.content
<1> DEFINE content == {IF t = old THEN new ELSE t : t \in row.content}
           payload == [row.payload EXCEPT !.tags = content]
<1>1. content \in SUBSET Tag
    BY DEF Row
<1> HIDE DEF content
<1>2. payload \in Payload /\ payload.tags = content
    BY <1>1 DEF Row, Payload
<1>3. Renamed(row, old, new) = [NoChange EXCEPT !.content = content, !.payload = payload]
    BY DEF Renamed, Rebuilt, content
<1> HIDE DEF payload
<1>5. Renamed(row, old, new) = [content |-> content, payload |-> payload, archived |-> None]
    BY <1>3 DEF NoChange
<1>4. content # None /\ payload # None
    BY <1>1, <1>2
<1> QED BY <1>1, <1>2, <1>5, <1>4 DEF Columns

\* What a tag request starts with.
TagRequest(op, tag, parent, found, columns) ==
    [op |-> op, tag |-> tag, parent |-> parent, found |-> found,
     todo |-> [m \in Memo |-> IF m \in found THEN columns[m] ELSE None]]

\* A tag request of a non-empty list of memos is sound, one of none is over.
LEMMA TagStep ==
    ASSUME Payloads, NEW p \in Proc, NEW found \in SUBSET Rows,
           NEW op \in {"rename", "delete", "archive"}, NEW tag \in Tag, NEW parent \in SUBSET Memo,
           NEW columns, \A m \in found : columns[m] \in Columns,
           \A m \in found : columns[m].content # None =>
               columns[m].payload # None /\ columns[m].payload.tags = columns[m].content,
           \A m \in found : columns[m].content = None => columns[m].payload = None,
           Tagged(p, found, TagRequest(op, tag, parent, found, columns))
    PROVE  Payloads'
<1> DEFINE r == TagRequest(op, tag, parent, found, columns)
<1> USE DEF TagRequest
<1>1. CASE found = {}
    <2>1. AtOnce(p) /\ UNCHANGED <<memo, used, comments>>
        BY <1>1 DEF Tagged
    <2>2. /\ memo' \in [Memo -> Row \cup {None}] /\ used' \subseteq Memo
          /\ Rows' \subseteq used' /\ comments' \subseteq Memo \X Memo
        BY <2>1 DEF Payloads, TypeOK, Rows
    <2> QED BY <2>1, <2>2, AtOnceKeeps
<1>2. CASE found # {}
    <2>1. Begin(p, r)
        BY <1>2 DEF Tagged
    <2>2. r.todo \in [Memo -> Columns \cup {None}]
        OBVIOUS
    <2>3. r \in Request
        BY <2>2 DEF Request, Rows
    <2>4. Rest(r) # {}
        <3>1. PICK m \in found : TRUE
            BY <1>2
        <3>2. m \in Memo /\ r.todo[m] # None
            BY <3>1 DEF Rows
        <3> QED BY <3>2 DEF Rest
    <2>5. Sound(r)
        <3> SUFFICES ASSUME NEW m \in Memo, r.todo[m] # None
                     PROVE  /\ r.todo[m].content # None =>
                                 /\ r.todo[m].payload # None
                                 /\ r.todo[m].payload.tags = r.todo[m].content
                            /\ r.todo[m].content = None => r.todo[m].payload = None
            BY <2>3, <2>4 DEF Sound
        <3>1. m \in found /\ r.todo[m] = columns[m]
            OBVIOUS
        <3> QED BY <3>1
    <2> HIDE DEF r
    <2> QED BY <2>1, <2>5, BeginKeeps
<1> QED BY <1>1, <1>2

LEMMA RenameStep ==
    ASSUME Payloads, NEW p \in Proc, RenameMemoTag(p)
    PROVE  Payloads'
<1>1. PICK old \in Tag, new \in Tag, parent \in Parents :
        Tagged(p, Listed(old) \cap parent,
               [op |-> "rename", tag |-> old, parent |-> parent,
                found |-> Listed(old) \cap parent,
                todo |-> [m \in Memo |-> IF m \in Listed(old) \cap parent
                                         THEN Renamed(memo[m], old, new) ELSE None]])
    BY DEF RenameMemoTag
<1> DEFINE found == Listed(old) \cap parent
           columns == [m \in found |-> Renamed(memo[m], old, new)]
<1>2. parent \in SUBSET Memo
    BY DEF Parents
<1>3. found \in SUBSET Rows
    BY ListedExist
<1>4. \A m \in found : memo[m] \in Row
    BY <1>3 DEF Payloads, TypeOK, Rows
<1>5. \A m \in found : /\ columns[m] \in Columns
                       /\ columns[m].content # None /\ columns[m].payload # None
                       /\ columns[m].payload.tags = columns[m].content
    BY <1>4, RenamedColumns
<1>6. PICK op \in {"rename", "delete", "archive"} : op = "rename"
    OBVIOUS
<1>7. Tagged(p, found, TagRequest(op, old, parent, found, columns))
    BY <1>1, <1>6 DEF TagRequest
<1> HIDE DEF found, columns
<1>8. /\ \A m \in found : columns[m] \in Columns
      /\ \A m \in found : columns[m].content # None =>
             columns[m].payload # None /\ columns[m].payload.tags = columns[m].content
      /\ \A m \in found : columns[m].content = None => columns[m].payload = None
    BY <1>5
<1> QED BY <1>2, <1>3, <1>7, <1>8, TagStep

LEMMA DeleteTagStep ==
    ASSUME Payloads, NEW p \in Proc, DeleteMemoTag(p)
    PROVE  Payloads'
<1>1. PICK tag \in Tag, parent \in Parents, op \in {"delete", "archive"} :
        Tagged(p, Listed(tag) \cap parent,
               [op |-> op, tag |-> tag, parent |-> parent,
                found |-> Listed(tag) \cap parent,
                todo |-> [m \in Memo |-> IF m \in Listed(tag) \cap parent
                                         THEN [NoChange EXCEPT !.archived = TRUE] ELSE None]])
    BY DEF DeleteMemoTag
<1> DEFINE found == Listed(tag) \cap parent
           columns == [m \in found |-> [NoChange EXCEPT !.archived = TRUE]]
<1>2. parent \in SUBSET Memo
    BY DEF Parents
<1>3. found \in SUBSET Rows
    BY ListedExist
<1>4. \A archived \in BOOLEAN : [NoChange EXCEPT !.archived = archived] =
          [content |-> None, payload |-> None, archived |-> archived]
    BY DEF NoChange
<1>5. \A m \in found : /\ columns[m] \in Columns
                       /\ columns[m].content = None /\ columns[m].payload = None
    <2> DEFINE c == [NoChange EXCEPT !.archived = TRUE]
    <2>1. c \in Columns /\ c.content = None /\ c.payload = None
        BY <1>4 DEF Columns
    <2> HIDE DEF c
    <2> QED BY <2>1 DEF c
<1>6. Tagged(p, found, TagRequest(op, tag, parent, found, columns))
    BY <1>1 DEF TagRequest
<1> HIDE DEF found, columns
<1>7. op \in {"rename", "delete", "archive"}
    OBVIOUS
<1>8. /\ \A m \in found : columns[m] \in Columns
      /\ \A m \in found : columns[m].content # None =>
             columns[m].payload # None /\ columns[m].payload.tags = columns[m].content
      /\ \A m \in found : columns[m].content = None => columns[m].payload = None
    BY <1>5
<1> QED BY <1>2, <1>3, <1>6, <1>7, <1>8, TagStep

\* A row stays a row under the columns written to it.
LEMMA PatchedRow ==
    ASSUME NEW row \in Row, NEW columns \in Columns
    PROVE  /\ Patched(row, columns) \in Row
           /\ Patched(row, columns).content =
                IF columns.content = None THEN row.content ELSE columns.content
           /\ Patched(row, columns).payload =
                IF columns.payload = None THEN row.payload ELSE columns.payload
BY DEF Row, Columns, Patched

LEMMA WriteStep ==
    ASSUME Payloads, NEW p \in Proc, NEW m \in Memo, Write(p, m)
    PROVE  Payloads'
<1> USE DEF Payloads
<1>1. req[p] \in Request /\ req[p].todo[m] \in Columns
    BY DEF TypeOK, Write, Busy, Rest, Request
<1>2. memo' \in [Memo -> Row \cup {None}] /\ Rows' \subseteq Rows
    BY <1>1, PatchedRow DEF Write, TypeOK, Rows
<1>3. \A n \in Memo \ {m} : memo'[n] = memo[n]
    BY DEF Write, TypeOK
<1>4. UNCHANGED <<used, comments>>
    BY DEF Write, Wrote
<1>5. CASE Rest(req[p]) = {m}
    <2>1. End(p)
        BY <1>5 DEF Write, Wrote
    <2>2. TypeOK'
        BY <1>2, <1>4, <2>1 DEF TypeOK, End, Busy
    <2>3. Whole'
        BY <2>1 DEF TypeOK, End, Busy, Whole
    <2>4. Fresh'
        BY <2>1 DEF TypeOK, End, Busy, Fresh, Write
    <2> QED BY <2>2, <2>3, <2>4
<1>6. CASE Rest(req[p]) # {m}
    <2> DEFINE r == [req[p] EXCEPT !.todo[m] = None]
    <2>1. req' = [req EXCEPT ![p] = r] /\ alone' = alone
        BY <1>6 DEF Write, Wrote
    <2>2. r \in Request /\ \A n \in Memo \ {m} : r.todo[n] = req[p].todo[n]
        BY <1>1 DEF Request
    <2>3. r.todo[m] = None
        BY <1>1 DEF Request
    <2>4. Rest(r) # {}
        <3>1. PICK n \in Rest(req[p]) : n # m
            BY <1>6 DEF Write
        <3> QED BY <2>2, <3>1 DEF Rest
    <2> HIDE DEF r
    <2>5. TypeOK'
        <3>1. req' \in [Proc -> Request \cup {None}]
            BY <2>1, <2>2 DEF TypeOK
        <3>2. \A q \in Proc : req'[q] # None => Rest(req'[q]) # {}
            BY <2>1, <2>4 DEF TypeOK, Busy
        <3> QED BY <1>2, <1>4, <2>1, <3>1, <3>2 DEF TypeOK, Busy
    <2>6. Whole'
        BY <2>1, <2>2, <2>3 DEF TypeOK, Busy, Whole, Write
    <2>7. Fresh'
        BY <1>3, <2>1, <2>2, <2>3 DEF TypeOK, Busy, Fresh, Write
    <2> QED BY <2>5, <2>6, <2>7
<1> QED BY <1>5, <1>6

\* The relation of a comment is written, and its request is over.
LEMMA RelateStep ==
    ASSUME Payloads, NEW p \in Proc, Relate(p)
    PROVE  Payloads'
<1> USE DEF Payloads, Relate, End, Busy
<1>1. TypeOK'
    <2>1. \A q \in Proc : req'[q] # None => Rest(req'[q]) # {}
        BY DEF TypeOK
    <2>2. req' \in [Proc -> Request \cup {None}] /\ alone' \in [Proc -> BOOLEAN]
        BY DEF TypeOK
    <2>3. comments' \subseteq Memo \X Memo
        <3>1. req[p] \in Request
            BY DEF TypeOK
        <3>2. Rest(req[p]) \subseteq Memo /\ req[p].parent \subseteq Memo
            BY <3>1 DEF Rest, Request
        <3> QED BY <3>2 DEF TypeOK
    <2> QED BY <2>1, <2>2, <2>3 DEF TypeOK, Rows
<1>2. Whole'
    BY DEF TypeOK, Whole
<1>3. Fresh'
    BY DEF TypeOK, Fresh
<1> QED BY <1>1, <1>2, <1>3

LEMMA FailStep ==
    ASSUME Payloads, NEW p \in Proc, Fail(p)
    PROVE  Payloads'
<1> USE DEF Payloads, Fail, End, Busy
<1>1. TypeOK'
    <2>1. \A q \in Proc : req'[q] # None => Rest(req'[q]) # {}
        BY DEF TypeOK
    <2>2. req' \in [Proc -> Request \cup {None}] /\ alone' \in [Proc -> BOOLEAN]
        BY DEF TypeOK
    <2> QED BY <2>1, <2>2 DEF TypeOK, Rows
<1>2. Whole'
    BY DEF TypeOK, Whole
<1>3. Fresh'
    BY DEF TypeOK, Fresh
<1> QED BY <1>1, <1>2, <1>3

LEMMA PayloadsStep == Payloads /\ [Next]_vars => Payloads'
<1> SUFFICES ASSUME Payloads, [Next]_vars PROVE Payloads'
    OBVIOUS
<1>1. CASE UNCHANGED vars
    BY <1>1 DEF vars, Payloads, TypeOK, Whole, Fresh, Busy, Rows, Rest
<1>2. ASSUME NEW p \in Proc, CreateMemo(p) PROVE Payloads'
    BY <1>2, CreateStep
<1>3. ASSUME NEW p \in Proc, DeleteMemo(p) PROVE Payloads'
    BY <1>3, DeleteStep
<1>4. ASSUME NEW p \in Proc, UpdateMemo(p) PROVE Payloads'
    BY <1>4, UpdateStep
<1>5. ASSUME NEW p \in Proc, RenameMemoTag(p) PROVE Payloads'
    BY <1>5, RenameStep
<1>6. ASSUME NEW p \in Proc, DeleteMemoTag(p) PROVE Payloads'
    BY <1>6, DeleteTagStep
<1>7. ASSUME NEW p \in Proc, NEW m \in Memo, Write(p, m) PROVE Payloads'
    BY <1>7, WriteStep
<1>8. ASSUME NEW p \in Proc, Fail(p) PROVE Payloads'
    BY <1>8, FailStep
<1>9. ASSUME NEW p \in Proc, CreateMemoComment(p) PROVE Payloads'
    BY <1>9, CommentStep
<1>10. ASSUME NEW p \in Proc, Relate(p) PROVE Payloads'
    BY <1>10, RelateStep
<1> QED BY <1>1, <1>2, <1>3, <1>4, <1>5, <1>6, <1>7, <1>8, <1>9, <1>10 DEF Next

\* Payloads holds in every state a server can reach.
THEOREM AlwaysPayloads == Spec => []Payloads
BY InitPayloads, PayloadsStep, PTL DEF Spec

---------------------------------------------------------------------------
(* The promises.                                                           *)

\* A request that is not a write changes no row that is there, but for a
\* delete of it.
LEMMA OthersKeep ==
    ASSUME Payloads, NEW p \in Proc, NEW m \in Memo, memo[m] # None,
           \/ CreateMemo(p) \/ CreateMemoComment(p) \/ DeleteMemo(p) \/ UpdateMemo(p)
           \/ RenameMemoTag(p) \/ DeleteMemoTag(p) \/ Relate(p) \/ Fail(p)
    PROVE  memo'[m] \in {memo[m], None}
<1>0. m \in used
    BY DEF Payloads, TypeOK, Rows
<1>1. CASE CreateMemo(p) \/ CreateMemoComment(p)
    <2>1. PICK n \in Memo : Insert(n)
        BY <1>1 DEF CreateMemo, CreateMemoComment
    <2> QED BY <1>0, <2>1, InsertRow
<1>2. CASE DeleteMemo(p)
    BY <1>2 DEF DeleteMemo, Payloads, TypeOK
<1>3. CASE UpdateMemo(p)
    BY <1>3 DEF UpdateMemo, Begin
<1>4. CASE RenameMemoTag(p)
    BY <1>4 DEF RenameMemoTag, Tagged, Begin
<1>5. CASE DeleteMemoTag(p)
    BY <1>5 DEF DeleteMemoTag, Tagged, Begin
<1>6. CASE Relate(p) \/ Fail(p)
    BY <1>6 DEF Relate, Fail
<1> QED BY <1>1, <1>2, <1>3, <1>4, <1>5, <1>6

\* Tags and content of a memo part only when an update of the location alone,
\* which another request overlapped, writes back the tags it has read.
THEOREM PartedOnly == Spec => PartedByLocationOnly
<1>1. ASSUME Payloads, [Next]_vars, NEW m \in Memo, Parts(m)
      PROVE  \E p \in Proc :
                /\ Write(p, m) /\ ~alone[p]
                /\ req[p].todo[m].payload # None /\ req[p].todo[m].content = None
    <2> USE <1>1
    <2>1. memo[m] # None /\ memo'[m] # None /\ memo'[m] # memo[m]
        BY DEF Parts
    <2>2. PICK p \in Proc, n \in Memo : Write(p, n)
        BY <2>1, OthersKeep DEF Next, vars
    <2>3. n = m
        BY <2>1, <2>2 DEF Write, Payloads, TypeOK
    <2> DEFINE c == req[p].todo[m]
    <2>4. c \in Columns
        BY <2>2, <2>3 DEF Write, Busy, Rest, Payloads, TypeOK, Request
    <2>5. memo'[m] = Patched(memo[m], c)
        BY <2>1, <2>2, <2>3 DEF Write, Payloads, TypeOK
    <2>6. memo[m] \in Row
        BY <2>1 DEF Payloads, TypeOK
    <2>7. /\ memo'[m].content = IF c.content = None THEN memo[m].content ELSE c.content
          /\ memo'[m].payload = IF c.payload = None THEN memo[m].payload ELSE c.payload
        BY <2>4, <2>5, <2>6, PatchedRow
    <2>8. c # None /\ Busy(p)
        BY <2>2, <2>3 DEF Write, Rest
    <2>9. c.content = None
        <3> SUFFICES ASSUME c.content # None PROVE FALSE
            OBVIOUS
        <3>1. c.payload # None /\ c.payload.tags = c.content
            BY <2>8 DEF Payloads, Whole
        <3> QED BY <3>1, <2>7 DEF Parts
    <2>10. c.payload # None
        BY <2>7, <2>9 DEF Parts
    <2>11. ~alone[p]
        <3> SUFFICES ASSUME alone[p] PROVE FALSE
            OBVIOUS
        <3>1. c.payload.tags = memo[m].payload.tags
            BY <2>1, <2>8, <2>9, <2>10 DEF Payloads, Fresh
        <3> QED BY <3>1, <2>7, <2>9, <2>10 DEF Parts
    <2> QED BY <2>2, <2>3, <2>9, <2>10, <2>11
<1>2. Payloads /\ [Next]_vars =>
        [\A m \in Memo : Parts(m) =>
            \E p \in Proc :
                /\ Write(p, m) /\ ~alone[p]
                /\ req[p].todo[m].payload # None /\ req[p].todo[m].content = None]_vars
    BY <1>1
<1> QED BY <1>2, AlwaysPayloads, PTL DEF Spec, PartedByLocationOnly

\* A memo that was deleted stays deleted: ids are not handed out again, and a
\* write that comes late finds no row.
THEOREM DeletedStays == Spec => DeletedStaysDeleted
<1>1. ASSUME Payloads, [Next]_vars, NEW m \in used, memo[m] = None
      PROVE  memo'[m] = None
    <2> USE <1>1
    <2>1. m \in Memo /\ memo \in [Memo -> Row \cup {None}]
        BY DEF Payloads, TypeOK
    <2>2. CASE UNCHANGED vars
        BY <2>2 DEF vars
    <2>3. ASSUME NEW p \in Proc, CreateMemo(p) \/ CreateMemoComment(p) PROVE memo'[m] = None
        <3>1. PICK n \in Memo : Insert(n)
            BY <2>3 DEF CreateMemo, CreateMemoComment
        <3> QED BY <2>1, <3>1, InsertRow
    <2>4. ASSUME NEW p \in Proc, DeleteMemo(p) PROVE memo'[m] = None
        BY <2>1, <2>4 DEF DeleteMemo
    <2>5. ASSUME NEW p \in Proc, UpdateMemo(p) PROVE memo'[m] = None
        BY <2>5 DEF UpdateMemo, Begin
    <2>6. ASSUME NEW p \in Proc, RenameMemoTag(p) \/ DeleteMemoTag(p) PROVE memo'[m] = None
        BY <2>6 DEF RenameMemoTag, DeleteMemoTag, Tagged, Begin
    <2>7. ASSUME NEW p \in Proc, NEW n \in Memo, Write(p, n) PROVE memo'[m] = None
        BY <2>1, <2>7 DEF Write
    <2>8. ASSUME NEW p \in Proc, Relate(p) \/ Fail(p) PROVE memo'[m] = None
        BY <2>8 DEF Relate, Fail
    <2> QED BY <2>2, <2>3, <2>4, <2>5, <2>6, <2>7, <2>8 DEF Next
<1>2. Payloads /\ [Next]_vars => [\A m \in used : memo[m] = None => memo'[m] = None]_vars
    BY <1>1
<1> QED BY <1>2, AlwaysPayloads, PTL DEF Spec, DeletedStaysDeleted

---------------------------------------------------------------------------
(* Tag requests.                                                           *)

\* A request that starts leaves those in flight as they are: what they are to
\* write stays right, and they are no longer alone.
LEMMA StartKeepsTags ==
    ASSUME Inductive, NEW p \in Proc, NEW r \in Request, Start(p, r), used \subseteq used',
           r.op \in TagOps => memo' = memo /\ comments' = comments,
           r.op \in TagOps =>
             \A m \in Memo :
               /\ r.todo[m] # None =>
                    /\ m \in used \cap r.found /\ ~IsComment(m)
                    /\ r.op = "rename" =>
                         r.todo[m].payload # None /\ r.tag \notin r.todo[m].payload.tags
                    /\ r.op = "archive" =>
                         r.todo[m].payload = None /\ r.todo[m].archived = TRUE
               /\ m \in r.parent /\ r.todo[m] = None =>
                    \/ memo[m] = None
                    \/ r.tag \notin memo[m].payload.tags
                    \/ IsComment(m)
    PROVE  TagWrites' /\ TagLeft'
<1>1. \A q \in Proc \ {p} : req'[q] = req[q] /\ ~alone'[q]
    BY DEF Inductive, Payloads, TypeOK, Fresh, Start, Busy
<1>2. req'[p] = r
    BY DEF Inductive, Payloads, TypeOK, Start
<1>3. r.op \in TagOps => \A m \in Memo : IsComment(m)' <=> IsComment(m)
    BY DEF IsComment, Rows
<1>4. TagWrites'
    BY <1>1, <1>2, <1>3 DEF Inductive, TagWrites, Busy
<1>5. TagLeft'
    <2> SUFFICES ASSUME NEW m \in Memo, r.op \in TagOps, m \in r.parent
                 PROVE  \/ memo'[m] = None
                        \/ r.tag \notin memo'[m].payload.tags
                        \/ IsComment(m)'
                        \/ r.todo[m] # None
                        \/ r.op = "archive" /\ memo'[m].archived = TRUE
        BY <1>1, <1>2 DEF TagLeft, WasComment
    <2> QED BY <1>3
<1> QED BY <1>4, <1>5

\* So does a request of one statement.
LEMMA AtOnceKeepsTags ==
    ASSUME Inductive, NEW p \in Proc, AtOnce(p), used \subseteq used'
    PROVE  TagWrites' /\ TagLeft'
<1> USE DEF Inductive, Payloads, AtOnce, Busy
<1>1. \A q \in Proc : req'[q] = req[q] /\ ~alone'[q]
    BY DEF TypeOK, Fresh
<1>2. TagWrites'
    BY <1>1 DEF TagWrites
<1>3. TagLeft'
    BY <1>1 DEF TagLeft
<1> QED BY <1>2, <1>3

\* A memo that is not listed under a tag has not the tag or is a comment.
LEMMA NotListed ==
    ASSUME NEW t \in Tag, NEW m \in Rows \ Listed(t), t \in memo[m].payload.tags
    PROVE  IsComment(m)
BY DEF Listed

\* A renamed memo has not the old tag.
LEMMA RenamedAway ==
    ASSUME NEW row \in Row, NEW old \in Tag, NEW new \in Tag, old # new
    PROVE  /\ Renamed(row, old, new).payload # None
           /\ old \notin Renamed(row, old, new).payload.tags
<1> DEFINE content == {IF t = old THEN new ELSE t : t \in row.content}
<1>1. Renamed(row, old, new) \in Columns /\ Renamed(row, old, new).payload # None
      /\ Renamed(row, old, new).payload.tags = Renamed(row, old, new).content
    BY RenamedColumns
<1>2. Renamed(row, old, new).content = content
    <2>1. Renamed(row, old, new) =
              [NoChange EXCEPT !.content = content, !.payload = Rebuilt(row.payload, content)]
        BY DEF Renamed
    <2> HIDE DEF content
    <2> QED BY <2>1 DEF NoChange
<1>3. old \notin content
    OBVIOUS
<1> HIDE DEF content
<1> QED BY <1>1, <1>2, <1>3

LEMMA InitInductive == Init => Inductive
<1> SUFFICES ASSUME Init PROVE Inductive
    OBVIOUS
<1>1. Payloads
    BY InitPayloads
<1>2. TagWrites /\ TagLeft
    BY DEF Init, TagWrites, TagLeft, Busy
<1> QED BY <1>1, <1>2 DEF Inductive

\* UpdateMemo and CreateMemoComment start no tag request.
LEMMA UpdateKeepsTags ==
    ASSUME Inductive, NEW p \in Proc, UpdateMemo(p)
    PROVE  TagWrites' /\ TagLeft'
<1> DEFINE r(m, columns) ==
        [op |-> "update", tag |-> None, parent |-> {m}, found |-> {m},
         todo |-> [n \in Memo |-> IF n = m THEN columns ELSE None]]
<1>1. PICK m, columns : Begin(p, r(m, columns))
    BY DEF UpdateMemo
<1>2. r(m, columns).op \notin TagOps
    BY DEF TagOps
<1> HIDE DEF r
<1> USE DEF Inductive, Payloads, Begin, Start, Busy
<1>3. \A q \in Proc \ {p} : req'[q] = req[q] /\ ~alone'[q]
    BY <1>1 DEF TypeOK, Fresh
<1>4. req'[p] = r(m, columns) /\ used' = used
    BY <1>1 DEF TypeOK
<1>5. TagWrites'
    BY <1>2, <1>3, <1>4 DEF TagWrites
<1>6. TagLeft'
    BY <1>2, <1>3, <1>4 DEF TagLeft
<1> QED BY <1>5, <1>6

LEMMA CommentKeepsTags ==
    ASSUME Inductive, NEW p \in Proc, CreateMemoComment(p)
    PROVE  TagWrites' /\ TagLeft'
<1>1. PICK m \in Memo, parent \in used : Insert(m) /\ Start(p, CommentRequest(m, parent))
    BY DEF CreateMemoComment, CommentRequest
<1>2. used \subseteq used'
    BY <1>1 DEF Insert
<1>3. Payloads
    BY DEF Inductive
<1>4. /\ CommentRequest(m, parent).op \notin TagOps
      /\ CommentRequest(m, parent) \in Request
    BY <1>3, CommentSound DEF TagOps, Sound
<1> QED BY <1>1, <1>2, <1>4, StartKeepsTags

\* What RenameMemoTag and DeleteMemoTag start with is right for the memos they
\* have listed.
LEMMA TagRequestKeepsTags ==
    ASSUME Inductive, NEW p \in Proc, NEW op \in {"rename", "delete", "archive"},
           NEW tag \in Tag, NEW parent \in SUBSET Memo, NEW columns,
           \A m \in Listed(tag) \cap parent :
               /\ columns[m] \in Columns
               /\ op = "rename" => columns[m].payload # None /\ tag \notin columns[m].payload.tags
               /\ op = "archive" => columns[m].payload = None /\ columns[m].archived = TRUE,
           Tagged(p, Listed(tag) \cap parent,
                  TagRequest(op, tag, parent, Listed(tag) \cap parent, columns))
    PROVE  TagWrites' /\ TagLeft'
<1> DEFINE found == Listed(tag) \cap parent
           r == TagRequest(op, tag, parent, found, columns)
<1>1. CASE found = {}
    <2>1. AtOnce(p) /\ UNCHANGED <<memo, used, comments>>
        BY <1>1 DEF Tagged
    <2> QED BY <2>1, AtOnceKeepsTags
<1>2. CASE found # {}
    <2>1. Start(p, r) /\ memo' = memo /\ used' = used /\ comments' = comments
        BY <1>2 DEF Tagged, Begin
    <2>2. /\ r.op = op /\ r.tag = tag /\ r.parent = parent /\ r.found = found
          /\ r.todo = [m \in Memo |-> IF m \in found THEN columns[m] ELSE None]
        BY DEF TagRequest
    <2>3. r \in Request
        <3>1. [m \in Memo |-> IF m \in found THEN columns[m] ELSE None]
                  \in [Memo -> Columns \cup {None}]
            OBVIOUS
        <3>2. found \subseteq Memo
            BY ListedExist DEF Rows
        <3> QED BY <3>1, <3>2 DEF TagRequest, Request
    <2>4. \A m \in Memo : r.todo[m] # None =>
              m \in found /\ r.todo[m] = columns[m] /\ m \in used /\ ~IsComment(m)
        BY <2>2, ListedExist DEF Inductive, Payloads, TypeOK, Listed
    <2>5. \A m \in Memo : m \in parent /\ r.todo[m] = None =>
              memo[m] = None \/ tag \notin memo[m].payload.tags \/ IsComment(m)
        BY <2>2, NotListed DEF Rows
    <2>6. \A m \in found :
               /\ op = "rename" => columns[m].payload # None /\ tag \notin columns[m].payload.tags
               /\ op = "archive" => columns[m].payload = None /\ columns[m].archived = TRUE
        OBVIOUS
    <2> HIDE DEF r, found
    <2>7. r.op \in TagOps =>
             \A m \in Memo :
               /\ r.todo[m] # None =>
                    /\ m \in used \cap r.found /\ ~IsComment(m)
                    /\ r.op = "rename" =>
                         r.todo[m].payload # None /\ r.tag \notin r.todo[m].payload.tags
                    /\ r.op = "archive" =>
                         r.todo[m].payload = None /\ r.todo[m].archived = TRUE
               /\ m \in r.parent /\ r.todo[m] = None =>
                    \/ memo[m] = None
                    \/ r.tag \notin memo[m].payload.tags
                    \/ IsComment(m)
        BY <2>2, <2>4, <2>5, <2>6
    <2> QED BY <2>1, <2>3, <2>7, StartKeepsTags
<1> QED BY <1>1, <1>2

LEMMA RenameKeepsTags ==
    ASSUME Inductive, NEW p \in Proc, RenameMemoTag(p)
    PROVE  TagWrites' /\ TagLeft'
<1>1. PICK old \in Tag, new \in Tag, parent \in Parents :
        /\ old # new
        /\ Tagged(p, Listed(old) \cap parent,
               [op |-> "rename", tag |-> old, parent |-> parent,
                found |-> Listed(old) \cap parent,
                todo |-> [m \in Memo |-> IF m \in Listed(old) \cap parent
                                         THEN Renamed(memo[m], old, new) ELSE None]])
    BY DEF RenameMemoTag
<1> DEFINE found == Listed(old) \cap parent
           columns == [m \in found |-> Renamed(memo[m], old, new)]
<1>2. parent \in SUBSET Memo
    BY DEF Parents
<1>3. \A m \in found : memo[m] \in Row
    BY ListedExist DEF Inductive, Payloads, TypeOK, Rows
<1>4. \A m \in found :
        columns[m] \in Columns /\ columns[m].payload # None /\ old \notin columns[m].payload.tags
    BY <1>1, <1>3, RenamedColumns, RenamedAway
<1>5. PICK op \in {"rename", "delete", "archive"} : op = "rename"
    OBVIOUS
<1>6. Tagged(p, found, TagRequest(op, old, parent, found, columns))
    BY <1>1, <1>5 DEF TagRequest
<1> HIDE DEF columns
<1>7. \A m \in Listed(old) \cap parent :
        /\ columns[m] \in Columns
        /\ op = "rename" => columns[m].payload # None /\ old \notin columns[m].payload.tags
        /\ op = "archive" => columns[m].payload = None /\ columns[m].archived = TRUE
    BY <1>4, <1>5
<1> QED BY <1>2, <1>6, <1>7, TagRequestKeepsTags

LEMMA DeleteTagKeepsTags ==
    ASSUME Inductive, NEW p \in Proc, DeleteMemoTag(p)
    PROVE  TagWrites' /\ TagLeft'
<1>1. PICK tag \in Tag, parent \in Parents, op \in {"delete", "archive"} :
        Tagged(p, Listed(tag) \cap parent,
               [op |-> op, tag |-> tag, parent |-> parent,
                found |-> Listed(tag) \cap parent,
                todo |-> [m \in Memo |-> IF m \in Listed(tag) \cap parent
                                         THEN [NoChange EXCEPT !.archived = TRUE] ELSE None]])
    BY DEF DeleteMemoTag
<1> DEFINE found == Listed(tag) \cap parent
           c == [NoChange EXCEPT !.archived = TRUE]
           columns == [m \in found |-> c]
<1>2. parent \in SUBSET Memo
    BY DEF Parents
<1>3. \A archived \in BOOLEAN : [NoChange EXCEPT !.archived = archived] =
          [content |-> None, payload |-> None, archived |-> archived]
    BY DEF NoChange
<1>4. c \in Columns /\ c.payload = None /\ c.archived = TRUE
    BY <1>3 DEF Columns
<1>5. Tagged(p, found, TagRequest(op, tag, parent, found, columns))
    BY <1>1 DEF TagRequest
<1> HIDE DEF c
<1>6. \A m \in Listed(tag) \cap parent :
        /\ columns[m] \in Columns
        /\ op = "rename" => columns[m].payload # None /\ tag \notin columns[m].payload.tags
        /\ op = "archive" => columns[m].payload = None /\ columns[m].archived = TRUE
    BY <1>4
<1>7. op \in {"rename", "delete", "archive"}
    OBVIOUS
<1> HIDE DEF columns
<1> QED BY <1>2, <1>5, <1>6, <1>7, TagRequestKeepsTags

LEMMA CreateKeepsTags ==
    ASSUME Inductive, NEW p \in Proc, CreateMemo(p) \/ DeleteMemo(p)
    PROVE  TagWrites' /\ TagLeft'
<1>1. AtOnce(p) /\ used \subseteq used'
    BY DEF CreateMemo, DeleteMemo, Insert
<1> QED BY <1>1, AtOnceKeepsTags

\* What a comment was a comment on is there, or this request has deleted it.
LEMMA WriteKeepsComments ==
    ASSUME Inductive, NEW p \in Proc, NEW m \in Memo, Write(p, m),
           NEW r, r = req[p], r.op \in TagOps, NEW n \in Memo
    PROVE  /\ comments' = comments /\ Rows' \subseteq Rows
           /\ IsComment(n)' => IsComment(n)
           /\ WasComment(r, n) => WasComment(r, n)'
<1>1. comments' = comments
    BY DEF Write, Wrote
<1>2. \A q \in Memo : memo'[q] # None => memo[q] # None
    BY DEF Write, Inductive, Payloads, TypeOK
<1>3. Rows' \subseteq Rows
    BY <1>2 DEF Rows
<1>4. ASSUME NEW q \in Rows, q \notin Rows'
      PROVE  q = m /\ r.op = "delete" /\ q \in r.found
    <2>1. q \in Memo /\ memo[q] # None /\ memo'[q] = None
        BY <1>4 DEF Rows
    <2>2. q = m
        BY <2>1 DEF Write, Inductive, Payloads, TypeOK
    <2>3. Busy(p) /\ req[p] \in Request /\ req[p].todo[m] # None /\ req[p].todo[m] \in Columns
        BY DEF Write, Busy, Rest, Inductive, Payloads, TypeOK, Request
    <2>4. r.op = "delete"
        <3> SUFFICES ASSUME r.op # "delete" PROVE FALSE
            OBVIOUS
        <3>1. memo'[m] = Patched(memo[m], req[p].todo[m]) /\ memo[m] \in Row
            BY <2>1, <2>2 DEF Write, Inductive, Payloads, TypeOK
        <3>2. memo'[m] \in Row
            BY <2>3, <3>1, PatchedRow
        <3> QED BY <2>1, <2>2, <3>2
    <2>5. q \in r.found
        BY <2>2, <2>3 DEF Inductive, TagWrites
    <2> QED BY <2>2, <2>4, <2>5
<1>5. IsComment(n)' => IsComment(n)
    BY <1>1, <1>3 DEF IsComment
<1>6. WasComment(r, n) => WasComment(r, n)'
    <2>1. CASE IsComment(n)
        <3>1. PICK q \in Rows : <<n, q>> \in comments
            BY <2>1 DEF IsComment
        <3>2. CASE q \in Rows'
            BY <1>1, <3>1, <3>2 DEF IsComment, WasComment
        <3>3. CASE q \notin Rows'
            BY <1>1, <1>4, <3>1, <3>3 DEF WasComment
        <3> QED BY <3>2, <3>3
    <2>2. CASE r.op = "delete" /\ \E q \in r.found : <<n, q>> \in comments
        BY <1>1, <2>2 DEF WasComment
    <2> QED BY <2>1, <2>2 DEF WasComment
<1> QED BY <1>1, <1>3, <1>5, <1>6

\* After a write of a tag request nothing overlapped, a memo that still has
\* the tag is a comment, is archived by it, or is still to be written.
LEMMA WriteReaches ==
    ASSUME Inductive, NEW p \in Proc, NEW m \in Memo, Write(p, m),
           NEW r, r = req[p], r.op \in TagOps, alone[p], NEW n \in r.parent
    PROVE  \/ memo'[n] = None
           \/ r.tag \notin memo'[n].payload.tags
           \/ WasComment(r, n)'
           \/ n # m /\ r.todo[n] # None
           \/ r.op = "archive" /\ memo'[n].archived = TRUE
<1> USE DEF Inductive, Payloads
<1>1. req[p] \in Request /\ req[p].todo[m] \in Columns /\ n \in Memo /\ req[p].todo[m] # None
      /\ Busy(p)
    BY DEF TypeOK, Write, Busy, Rest, Request
<1>2. CASE n # m
    <2>1. memo'[n] = memo[n]
        BY <1>1, <1>2 DEF Write, TypeOK
    <2>2. WasComment(r, n) => WasComment(r, n)'
        BY <1>1, WriteKeepsComments
    <2>3. \/ memo[n] = None
          \/ r.tag \notin memo[n].payload.tags
          \/ WasComment(r, n)
          \/ r.todo[n] # None
          \/ r.op = "archive" /\ memo[n].archived = TRUE
        BY <1>1 DEF TagLeft
    <2> QED BY <1>1, <1>2, <2>1, <2>2, <2>3
<1>3. CASE n = m /\ (req[p].op = "delete" \/ memo[m] = None)
    BY <1>3 DEF Write, TypeOK
<1>4. CASE n = m /\ req[p].op # "delete" /\ memo[m] # None
    <2> DEFINE c == req[p].todo[m]
    <2>1. memo'[m] = Patched(memo[m], c) /\ memo[m] \in Row
        BY <1>4 DEF Write, TypeOK
    <2>2. /\ memo'[m].payload = IF c.payload = None THEN memo[m].payload ELSE c.payload
          /\ memo'[m].archived = IF c.archived = None THEN memo[m].archived ELSE c.archived
        BY <1>1, <2>1 DEF Row, Columns, Patched
    <2>3. /\ req[p].op = "rename" => c.payload # None /\ req[p].tag \notin c.payload.tags
          /\ req[p].op = "archive" => c.payload = None /\ c.archived = TRUE
        BY <1>1 DEF TagWrites
    <2>4. req[p].op \in {"rename", "archive"}
        BY <1>1, <1>4 DEF TagOps
    <2>5. CASE req[p].op = "rename"
        BY <1>4, <2>2, <2>3, <2>5
    <2>6. CASE req[p].op = "archive"
        <3>1. c.archived # None
            BY <2>3, <2>6
        <3> QED BY <1>4, <2>2, <2>3, <2>6, <3>1
    <2> QED BY <2>4, <2>5, <2>6
<1> QED BY <1>2, <1>3, <1>4

\* A write leaves what other requests are to write.
LEMMA WriteKeepsTags ==
    ASSUME Inductive, NEW p \in Proc, NEW m \in Memo, Write(p, m)
    PROVE  TagWrites' /\ TagLeft'
<1> USE DEF Inductive, Payloads
<1>1. req[p] \in Request /\ req[p].todo[m] \in Columns /\ Busy(p)
    BY DEF TypeOK, Write, Busy, Rest, Request
<1>2. used' = used
    BY DEF Write, Wrote
<1>4. \A q \in Proc \ {p} : req'[q] = req[q] /\ ~alone'[q]
    <2>1. \A q \in Proc \ {p} : req'[q] = req[q] /\ alone'[q] = alone[q]
        BY DEF Write, Wrote, End, TypeOK
    <2> QED BY <1>1, <2>1 DEF Fresh
<1>5. CASE Rest(req[p]) = {m}
    <2>1. req'[p] = None /\ ~alone'[p]
        BY <1>5 DEF Write, Wrote, End, TypeOK
    <2>2. TagWrites'
        BY <1>2, <1>4, <2>1 DEF TagWrites, Busy
    <2>3. TagLeft'
        BY <1>4, <2>1 DEF TagLeft
    <2> QED BY <2>2, <2>3
<1>6. CASE Rest(req[p]) # {m}
    <2> DEFINE r == [req[p] EXCEPT !.todo[m] = None]
    <2>1. req' = [req EXCEPT ![p] = r] /\ alone' = alone
        BY <1>6 DEF Write, Wrote
    <2>2. /\ r.op = req[p].op /\ r.tag = req[p].tag /\ r.parent = req[p].parent
          /\ r.found = req[p].found
          /\ r.todo[m] = None /\ \A n \in Memo \ {m} : r.todo[n] = req[p].todo[n]
        BY <1>1 DEF Request
    <2>3. req'[p] = r
        BY <2>1 DEF TypeOK
    <2> HIDE DEF r
    <2>4. TagWrites'
        <3>0. ASSUME NEW q \in Proc \ {p}, NEW n \in Memo, Busy(q)',
                     req'[q].op \in TagOps, req'[q].todo[n] # None
              PROVE  /\ n \in used' \cap req'[q].found /\ ~alone'[q]
                     /\ req'[q].op = "rename" =>
                          /\ req'[q].todo[n].payload # None
                          /\ req'[q].tag \notin req'[q].todo[n].payload.tags
                     /\ req'[q].op = "archive" =>
                          req'[q].todo[n].payload = None /\ req'[q].todo[n].archived = TRUE
            BY <1>2, <1>4, <3>0 DEF TagWrites, Busy
        <3>5. ASSUME NEW n \in Memo, r.op \in TagOps, r.todo[n] # None
              PROVE  /\ n \in used' \cap r.found
                     /\ alone'[p] /\ memo'[n] # None => ~IsComment(n)'
                     /\ r.op = "rename" =>
                          r.todo[n].payload # None /\ r.tag \notin r.todo[n].payload.tags
                     /\ r.op = "archive" =>
                          r.todo[n].payload = None /\ r.todo[n].archived = TRUE
            <4>1. n # m /\ r.todo[n] = req[p].todo[n]
                BY <2>2, <3>5
            <4>2. /\ n \in used \cap req[p].found
                  /\ alone[p] /\ memo[n] # None => ~IsComment(n)
                  /\ r.op = "rename" =>
                       r.todo[n].payload # None /\ r.tag \notin r.todo[n].payload.tags
                  /\ r.op = "archive" =>
                       r.todo[n].payload = None /\ r.todo[n].archived = TRUE
                BY <1>1, <2>2, <3>5, <4>1 DEF TagWrites
            <4>3. memo'[n] = memo[n]
                BY <4>1 DEF Write, TypeOK
            <4>4. IsComment(n)' => IsComment(n)
                BY <2>2, <3>5, WriteKeepsComments
            <4> QED BY <1>2, <2>1, <2>2, <4>2, <4>3, <4>4
        <3> QED BY <2>3, <3>0, <3>5 DEF TagWrites
    <2>5. TagLeft'
        <3> SUFFICES ASSUME alone'[p], r.op \in TagOps, NEW n \in Memo, n \in r.parent
                     PROVE  \/ memo'[n] = None
                            \/ r.tag \notin memo'[n].payload.tags
                            \/ IsComment(n)'
                            \/ r.op = "delete" /\ \E q \in r.found : <<n, q>> \in comments'
                            \/ r.todo[n] # None
                            \/ r.op = "archive" /\ memo'[n].archived = TRUE
            BY <1>4, <2>3 DEF TagLeft, WasComment
        <3>1. ASSUME NEW t, t = req[p]
              PROVE  \/ memo'[n] = None
                     \/ t.tag \notin memo'[n].payload.tags
                     \/ WasComment(t, n)'
                     \/ n # m /\ t.todo[n] # None
                     \/ t.op = "archive" /\ memo'[n].archived = TRUE
            <4>1. alone[p] /\ t.op \in TagOps /\ n \in t.parent
                BY <2>1, <2>2, <3>1
            <4> QED BY <3>1, <4>1, WriteReaches
        <3> QED BY <2>2, <3>1 DEF WasComment
    <2> QED BY <2>4, <2>5
<1> QED BY <1>5, <1>6

\* The end of a request that is not alone, or is no tag request, disturbs none.
LEMMA FailKeepsTags ==
    ASSUME Inductive, NEW p \in Proc, Fail(p) \/ Relate(p)
    PROVE  TagWrites' /\ TagLeft'
<1> USE DEF Inductive, Payloads, Fail, Relate, End, Busy
<1>1. \A q \in Proc : ~alone'[q] /\ (req'[q] = req[q] \/ req'[q] = None)
    BY DEF TypeOK, Fresh
<1>2. used' = used
    OBVIOUS
<1>3. TagWrites'
    BY <1>1, <1>2 DEF TagWrites
<1>4. TagLeft'
    BY <1>1 DEF TagLeft
<1> QED BY <1>3, <1>4

LEMMA InductiveStep == Inductive /\ [Next]_vars => Inductive'
<1> SUFFICES ASSUME Inductive, [Next]_vars PROVE Inductive'
    OBVIOUS
<1>1. Payloads'
    BY PayloadsStep DEF Inductive
<1>2. TagWrites' /\ TagLeft'
    <2>1. CASE UNCHANGED vars
        BY <2>1 DEF vars, Inductive, TagWrites, TagLeft, WasComment, IsComment, Rows, Busy
    <2>2. ASSUME NEW p \in Proc, CreateMemo(p) \/ DeleteMemo(p) PROVE TagWrites' /\ TagLeft'
        BY <2>2, CreateKeepsTags
    <2>3. ASSUME NEW p \in Proc, UpdateMemo(p) PROVE TagWrites' /\ TagLeft'
        BY <2>3, UpdateKeepsTags
    <2>4. ASSUME NEW p \in Proc, RenameMemoTag(p) PROVE TagWrites' /\ TagLeft'
        BY <2>4, RenameKeepsTags
    <2>5. ASSUME NEW p \in Proc, DeleteMemoTag(p) PROVE TagWrites' /\ TagLeft'
        BY <2>5, DeleteTagKeepsTags
    <2>6. ASSUME NEW p \in Proc, NEW m \in Memo, Write(p, m) PROVE TagWrites' /\ TagLeft'
        BY <2>6, WriteKeepsTags
    <2>7. ASSUME NEW p \in Proc, Fail(p) \/ Relate(p) PROVE TagWrites' /\ TagLeft'
        BY <2>7, FailKeepsTags
    <2>8. ASSUME NEW p \in Proc, CreateMemoComment(p) PROVE TagWrites' /\ TagLeft'
        BY <2>8, CommentKeepsTags
    <2> QED BY <2>1, <2>2, <2>3, <2>4, <2>5, <2>6, <2>7, <2>8 DEF Next
<1> QED BY <1>1, <1>2 DEF Inductive

\* Inductive holds in every state a server can reach.
THEOREM AlwaysInductive == Spec => []Inductive
BY InitInductive, InductiveStep, PTL DEF Spec

\* A tag request nothing overlapped writes to no memo that is a comment then,
\* and when it has written its last memo, those of the memos it was about that
\* still have the tag are comments, comments on a memo it deleted, or archived.
THEOREM TagsReached == Spec => TagRequestsReach
<1>1. ASSUME Inductive, NEW p \in Proc, NEW m \in Memo, Write(p, m),
             NEW r, r = req[p], r.op \in TagOps, alone[p]
      PROVE  /\ memo[m] # None => ~IsComment(m)
             /\ Rest(r) = {m} =>
                  \A n \in r.parent :
                     memo'[n] # None /\ r.tag \in memo'[n].payload.tags =>
                       \/ IsComment(n)'
                       \/ r.op = "delete" /\ \E q \in r.found : <<n, q>> \in comments
                       \/ r.op = "archive" /\ memo'[n].archived = TRUE
    <2>1. memo[m] # None => ~IsComment(m)
        BY <1>1 DEF Inductive, TagWrites, Write, Rest
    <2>2. ASSUME Rest(r) = {m}, NEW n \in r.parent,
                 memo'[n] # None, r.tag \in memo'[n].payload.tags
          PROVE  \/ IsComment(n)'
                 \/ r.op = "delete" /\ \E q \in r.found : <<n, q>> \in comments
                 \/ r.op = "archive" /\ memo'[n].archived = TRUE
        <3>1. n \in Memo
            BY <1>1, <2>2 DEF Inductive, Payloads, TypeOK, Write, Busy, Request
        <3>2. ~(n # m /\ r.todo[n] # None)
            BY <2>2, <3>1 DEF Rest
        <3>3. comments' = comments
            BY <1>1 DEF Write, Wrote
        <3>4. \/ WasComment(r, n)'
              \/ r.op = "archive" /\ memo'[n].archived = TRUE
            BY <1>1, <2>2, <3>2, WriteReaches
        <3> QED BY <3>3, <3>4 DEF WasComment
    <2> QED BY <2>1, <2>2
<1>2. ASSUME Inductive, NEW p \in Proc, NEW m \in Memo,
             Write(p, m), req[p].op \in TagOps, alone[p]
      PROVE  /\ memo[m] # None => ~IsComment(m)
             /\ Rest(req[p]) = {m} =>
                  \A n \in req[p].parent :
                     memo'[n] # None /\ req[p].tag \in memo'[n].payload.tags =>
                       \/ IsComment(n)'
                       \/ req[p].op = "delete" /\ \E q \in req[p].found : <<n, q>> \in comments
                       \/ req[p].op = "archive" /\ memo'[n].archived = TRUE
    BY <1>1, <1>2
<1>3. Inductive /\ [Next]_vars =>
        [\A p \in Proc, m \in Memo :
            Write(p, m) /\ req[p].op \in TagOps /\ alone[p] =>
              /\ memo[m] # None => ~IsComment(m)
              /\ Rest(req[p]) = {m} =>
                   \A n \in req[p].parent :
                      memo'[n] # None /\ req[p].tag \in memo'[n].payload.tags =>
                        \/ IsComment(n)'
                        \/ req[p].op = "delete" /\ \E q \in req[p].found : <<n, q>> \in comments
                        \/ req[p].op = "archive" /\ memo'[n].archived = TRUE]_vars
    BY <1>2
<1> QED BY <1>3, AlwaysInductive, PTL DEF Spec, TagRequestsReach
=============================================================================

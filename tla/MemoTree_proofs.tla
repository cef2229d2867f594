-------------------------- MODULE MemoTree_proofs --------------------------
(***************************************************************************)
(* What MemoTree promises of comments, notices, references and files, for  *)
(* any number of requests, memos and attachments.  There is a lemma for    *)
(* each part of Inductive.                                                 *)
(***************************************************************************)
EXTENDS MemoTree, TLAPS

Step(p) == Arrive(p) \/ Statement(p) \/ Fail(p)


Told == {"op", "memo", "parent", "links", "files", "notify"}
Kept == {"op", "memo", "parent", "links", "files", "notify", "whole"}

\* What a step of request p does to the requests: the others stay where they are.
Others(p) ==
    /\ pc' \in [Proc -> PC] /\ call' \in [Proc -> Call] /\ alone' \in [Proc -> BOOLEAN]
    /\ \A q \in Proc \ {p} : pc'[q] = pc[q] /\ call'[q] = call[q]

Ends(p) ==
    /\ Others(p)
    /\ pc'[p] = "idle" /\ call'[p] = Request("create") /\ ~alone'[p]
    /\ \A q \in Proc \ {p} : alone'[q] = alone[q]

Goes(p, label, rest, on) ==
    IF label = "idle" THEN Ends(p)
    ELSE /\ Others(p)
         /\ pc'[p] = label /\ call'[p].rest = rest /\ call'[p].on = on
         /\ \A f \in Kept : call'[p][f] = call[p][f]
         /\ alone' = alone

\* Going on with a listing of attachments, which had all there were or not.
Lists(p, label, rest, whole) ==
    /\ Others(p)
    /\ pc'[p] = label /\ call'[p].rest = rest /\ call'[p].on = call[p].on
    /\ call'[p].whole = whole
    /\ \A f \in Told : call'[p][f] = call[p][f]
    /\ alone' = alone

Starts(p, c, label) ==
    /\ Others(p)
    /\ ~Busy(p) /\ pc'[p] = label /\ call'[p] = c
    /\ alone'[p] <=> \A q \in Proc \ {p} : ~Busy(q)
    /\ \A q \in Proc \ {p} : alone'[q] <=> alone[q] /\ ~Busy(q)

\* Go and Begin in these words.
LEMMA RequestIsCall ==
    ASSUME NEW op \in {"create", "comment", "relate", "attach", "delete", "tag", "upload"}
    PROVE  Request(op) \in Call
BY DEF Request, Call

LEMMA GoGoes ==
    ASSUME TypeOK, NEW p \in Proc, NEW c \in Call, NEW label \in PC,
           \A f \in Kept : c[f] = call[p][f], Go(p, c, label)
    PROVE  Goes(p, label, c.rest, c.on)
<1>1. CASE label = "idle"
    <2>1. Request("create") \in Call
        BY RequestIsCall
    <2> HIDE DEF Request
    <2> QED BY <1>1, <2>1 DEF Go, Goes, Ends, Others, TypeOK
<1>2. CASE label # "idle"
    BY <1>2 DEF Go, Goes, Others, TypeOK
<1> QED BY <1>1, <1>2

LEMMA BeginStarts ==
    ASSUME TypeOK, NEW p \in Proc, NEW c \in Call, NEW label \in PC, Begin(p, c, label)
    PROVE  Starts(p, c, label)
BY DEF Begin, Starts, Others, TypeOK, Busy

\* What a request is left with, by what is changed of it.
LEMMA Moves ==
    ASSUME TypeOK, NEW p \in Proc
    PROVE  /\ \A label \in PC :
                Go(p, call[p], label) => Goes(p, label, call[p].rest, call[p].on)
           /\ \A label \in PC, rest \in SUBSET (Memo \cup File) :
                Go(p, [call[p] EXCEPT !.rest = rest], label) => Goes(p, label, rest, call[p].on)
           /\ \A label \in PC, on \in Memo \cup {None} :
                Go(p, [call[p] EXCEPT !.on = on], label) => Goes(p, label, call[p].rest, on)
           /\ \A label \in PC, rest \in SUBSET (Memo \cup File), on \in Memo \cup {None} :
                Go(p, [call[p] EXCEPT !.rest = rest, !.on = on], label)
                    => Goes(p, label, rest, on)
           /\ Abort(p) => Ends(p)
<1>0. call[p] \in Call
    BY DEF TypeOK
<1>1. ASSUME NEW label \in PC, Go(p, call[p], label)
      PROVE  Goes(p, label, call[p].rest, call[p].on)
    BY <1>0, <1>1, GoGoes
<1>2. ASSUME NEW label \in PC, NEW rest \in SUBSET (Memo \cup File),
             Go(p, [call[p] EXCEPT !.rest = rest], label)
      PROVE  Goes(p, label, rest, call[p].on)
    <2> DEFINE c == [call[p] EXCEPT !.rest = rest]
    <2>1. c \in Call /\ (\A f \in Kept : c[f] = call[p][f]) /\ c.rest = rest /\ c.on = call[p].on
        BY <1>0 DEF Call, Kept
    <2> HIDE DEF c
    <2>2. Goes(p, label, c.rest, c.on)
        BY <1>2, <2>1, GoGoes DEF c
    <2> QED BY <2>1, <2>2
<1>3. ASSUME NEW label \in PC, NEW on \in Memo \cup {None},
             Go(p, [call[p] EXCEPT !.on = on], label)
      PROVE  Goes(p, label, call[p].rest, on)
    <2> DEFINE c == [call[p] EXCEPT !.on = on]
    <2>1. c \in Call /\ (\A f \in Kept : c[f] = call[p][f]) /\ c.rest = call[p].rest /\ c.on = on
        BY <1>0 DEF Call, Kept
    <2> HIDE DEF c
    <2>2. Goes(p, label, c.rest, c.on)
        BY <1>3, <2>1, GoGoes DEF c
    <2> QED BY <2>1, <2>2
<1>4. ASSUME NEW label \in PC, NEW rest \in SUBSET (Memo \cup File), NEW on \in Memo \cup {None},
             Go(p, [call[p] EXCEPT !.rest = rest, !.on = on], label)
      PROVE  Goes(p, label, rest, on)
    <2> DEFINE c == [call[p] EXCEPT !.rest = rest, !.on = on]
    <2>1. c \in Call /\ (\A f \in Kept : c[f] = call[p][f]) /\ c.rest = rest /\ c.on = on
        BY <1>0 DEF Call, Kept
    <2> HIDE DEF c
    <2>2. Goes(p, label, c.rest, c.on)
        BY <1>4, <2>1, GoGoes DEF c
    <2> QED BY <2>1, <2>2
<1>5. ASSUME Abort(p)
      PROVE  Ends(p)
    <2>1. Goes(p, "idle", call[p].rest, call[p].on)
        BY <1>1, <1>5 DEF Abort, PC
    <2> QED BY <2>1 DEF Goes
<1> QED BY <1>1, <1>2, <1>3, <1>4, <1>5

\* The requests there are, by what is known of each when it starts.
Creates(p, c) ==
    /\ Starts(p, c, "insert") /\ c.op \in {"create", "comment"}
    /\ c.memo \in Memo /\ Reserve(c.memo)
    /\ c.parent \in (used \cap Memo) \cup {None}
    /\ c.op = "create" => c.parent = None
    /\ UNCHANGED <<memos, refs, comments, owner, notices>>

Changes(p, c) ==
    /\ \/ c.op = "relate" /\ Starts(p, c, "links")
       \/ c.op = "attach" /\ Starts(p, c, "files")
       \/ c.op = "delete" /\ Starts(p, c, "owned")
    /\ c.memo \in memos /\ c.parent = None
    /\ UNCHANGED rows

DeletesTagged(p, c) ==
    /\ Starts(p, c, "reply") /\ c.op = "tag"
    /\ c.memo = None /\ c.parent = None /\ c.rest \subseteq memos
    /\ UNCHANGED rows

Uploads(p, c) ==
    /\ Starts(p, c, "upload") /\ c.op = "upload"
    /\ c.memo \in memos \cup {None} /\ c.parent = None
    /\ used \subseteq used' /\ used' \subseteq Memo \cup File
    /\ UNCHANGED <<memos, refs, comments, owner, notices>>

LEMMA Created ==
    ASSUME TypeOK, NEW p \in Proc, CreateMemo(p) \/ CreateMemoComment(p)
    PROVE  \E c \in Call : Creates(p, c)
<1>1. CASE CreateMemo(p)
    <2>1. PICK m \in Memo, links \in SUBSET (used \cap Memo), files \in SUBSET Files :
            /\ Reserve(m)
            /\ Begin(p, [Request("create") EXCEPT !.memo = m, !.links = links, !.files = files],
                     "insert")
        BY <1>1 DEF CreateMemo
    <2> DEFINE c == [Request("create") EXCEPT !.memo = m, !.links = links, !.files = files]
    <2>2. c \in Call /\ c.op = "create" /\ c.memo = m /\ c.parent = None
        BY DEF Request, Call, Files
    <2> HIDE DEF c
    <2>3. Starts(p, c, "insert")
        BY <2>1, <2>2, BeginStarts DEF PC, c
    <2> QED BY <1>1, <2>1, <2>2, <2>3 DEF Creates, CreateMemo
<1>2. CASE CreateMemoComment(p)
    <2>1. PICK m \in Memo, q \in used \cap Memo, files \in SUBSET Files, notify \in BOOLEAN :
            /\ Reserve(m)
            /\ Begin(p, [Request("comment") EXCEPT !.memo = m,
                            !.parent = IF q \in memos THEN q ELSE None,
                            !.files = files, !.notify = notify], "insert")
        BY <1>2 DEF CreateMemoComment
    <2> DEFINE c == [Request("comment") EXCEPT !.memo = m,
                        !.parent = IF q \in memos THEN q ELSE None,
                        !.files = files, !.notify = notify]
    <2>2. c \in Call /\ c.op = "comment" /\ c.memo = m /\ c.parent \in (used \cap Memo) \cup {None}
        BY DEF Request, Call, Files
    <2> HIDE DEF c
    <2>3. Starts(p, c, "insert")
        BY <2>1, <2>2, BeginStarts DEF PC, c
    <2> QED BY <1>2, <2>1, <2>2, <2>3 DEF Creates, CreateMemoComment
<1> QED BY <1>1, <1>2

LEMMA Changed ==
    ASSUME TypeOK, NEW p \in Proc, UpdateMemo(p) \/ DeleteMemo(p)
    PROVE  \E c \in Call : Changes(p, c)
<1>1. ASSUME NEW m \in memos, NEW links \in SUBSET (used \cap Memo),
             Begin(p, [Request("relate") EXCEPT !.memo = m, !.links = links], "links"),
             UNCHANGED rows
      PROVE  \E c \in Call : Changes(p, c)
    <2> DEFINE c == [Request("relate") EXCEPT !.memo = m, !.links = links]
    <2>1. c \in Call /\ c.op = "relate" /\ c.memo = m /\ c.parent = None
        BY DEF Request, Call, TypeOK
    <2> HIDE DEF c
    <2>2. Starts(p, c, "links")
        BY <1>1, <2>1, BeginStarts DEF PC, c
    <2> QED BY <1>1, <2>1, <2>2 DEF Changes
<1>2. ASSUME NEW m \in memos, NEW files \in SUBSET Files,
             Begin(p, [Request("attach") EXCEPT !.memo = m, !.files = files], "files"),
             UNCHANGED rows
      PROVE  \E c \in Call : Changes(p, c)
    <2> DEFINE c == [Request("attach") EXCEPT !.memo = m, !.files = files]
    <2>1. c \in Call /\ c.op = "attach" /\ c.memo = m /\ c.parent = None
        BY DEF Request, Call, TypeOK, Files
    <2> HIDE DEF c
    <2>2. Starts(p, c, "files")
        BY <1>2, <2>1, BeginStarts DEF PC, c
    <2> QED BY <1>2, <2>1, <2>2 DEF Changes
<1>3. ASSUME NEW m \in memos,
             Begin(p, [Request("delete") EXCEPT !.memo = m], "owned"), UNCHANGED rows
      PROVE  \E c \in Call : Changes(p, c)
    <2> DEFINE c == [Request("delete") EXCEPT !.memo = m]
    <2>1. c \in Call /\ c.op = "delete" /\ c.memo = m /\ c.parent = None
        BY DEF Request, Call, TypeOK
    <2> HIDE DEF c
    <2>2. Starts(p, c, "owned")
        BY <1>3, <2>1, BeginStarts DEF PC, c
    <2> QED BY <1>3, <2>1, <2>2 DEF Changes
<1>4. CASE UpdateMemo(p)
    BY <1>1, <1>2, <1>4 DEF UpdateMemo
<1>5. CASE DeleteMemo(p)
    BY <1>3, <1>5 DEF DeleteMemo
<1> QED BY <1>4, <1>5

LEMMA TaggedDeleted ==
    ASSUME TypeOK, NEW p \in Proc, DeleteMemoTag(p)
    PROVE  \E c \in Call : DeletesTagged(p, c)
<1>1. PICK tagged \in SUBSET memos :
        Begin(p, [Request("tag") EXCEPT !.rest = tagged], "reply")
    BY DEF DeleteMemoTag
<1> DEFINE c == [Request("tag") EXCEPT !.rest = tagged]
<1>2. c \in Call /\ c.op = "tag" /\ c.memo = None /\ c.parent = None /\ c.rest = tagged
    BY DEF Request, Call, TypeOK
<1> HIDE DEF c
<1>3. Starts(p, c, "reply")
    BY <1>1, <1>2, BeginStarts DEF PC, c
<1> QED BY <1>2, <1>3 DEF DeletesTagged, DeleteMemoTag

LEMMA Uploaded ==
    ASSUME TypeOK, NEW p \in Proc, CreateAttachment(p)
    PROVE  \E c \in Call : Uploads(p, c)
<1>1. PICK f \in File, m \in memos \cup {None} :
        /\ Reserve(f)
        /\ Begin(p, [Request("upload") EXCEPT !.memo = m, !.files = {f}], "upload")
    BY DEF CreateAttachment
<1> DEFINE c == [Request("upload") EXCEPT !.memo = m, !.files = {f}]
<1>2. c \in Call /\ c.op = "upload" /\ c.memo = m /\ c.parent = None
    BY DEF Request, Call, TypeOK
<1> HIDE DEF c
<1>3. Starts(p, c, "upload")
    BY <1>1, <1>2, BeginStarts DEF PC, c
<1>4. used \subseteq used' /\ used' \subseteq Memo \cup File
    BY <1>1 DEF Reserve, TypeOK
<1> QED BY <1>2, <1>3, <1>4 DEF Uploads, CreateAttachment

\* Each statement in these words.
LEMMA InsertGoes ==
    ASSUME TypeOK, NEW p \in Proc, Insert(p)
    PROVE  pc[p] = "insert" /\ Goes(p, AfterInsert(call[p]), call[p].rest, call[p].on)
BY Moves DEF Insert, AfterInsert, AfterFiles, AfterLinks, PC

LEMMA RereadGoes ==
    ASSUME TypeOK, NEW p \in Proc, Reread(p)
    PROVE  /\ pc[p] \in {"files", "links", "join"}
           /\ /\ call[p].memo \notin memos => Ends(p)
              /\ call[p].memo \in memos =>
                   \/ pc[p] = "files" /\ Goes(p, "owned", call[p].rest, call[p].on)
                   \/ pc[p] = "links" /\ Goes(p, "clear", call[p].rest, call[p].on)
                   \/ pc[p] = "join" /\ Goes(p, "comment", call[p].rest, call[p].on)
<1> DEFINE next == [files |-> "owned", links |-> "clear", join |-> "comment"]
<1>1. pc[p] \in {"files", "links", "join"}
    BY DEF Reread
<1>2. CASE call[p].memo \in memos
    <2>1. Go(p, call[p], next[pc[p]])
        BY <1>2 DEF Reread
    <2>2. next[pc[p]] \in PC
        BY <1>1 DEF PC
    <2>3. Goes(p, next[pc[p]], call[p].rest, call[p].on)
        BY <2>1, <2>2, Moves
    <2> QED BY <1>1, <1>2, <2>3
<1>3. CASE call[p].memo \notin memos
    BY <1>3, Moves DEF Reread
<1> QED BY <1>2, <1>3

LEMMA OwnedGoes ==
    ASSUME TypeOK, NEW p \in Proc, Owned(p)
    PROVE  /\ pc[p] = "owned"
           /\ \E mine \in SUBSET Attached(call[p].memo), whole \in BOOLEAN :
                /\ whole => mine = Attached(call[p].memo)
                /\ IF call[p].op = "delete" THEN Lists(p, "erase", mine, whole)
                   ELSE Lists(p, "drop", mine \ call[p].files, whole)
<1> DEFINE c == call[p]
           rest(mine) == IF c.op = "delete" THEN mine ELSE mine \ c.files
           label == IF c.op = "delete" THEN "erase" ELSE "drop"
           whole(mine) == mine = Attached(c.memo)
<1>1. PICK mine \in Pages(Attached(c.memo)) :
        Go(p, [c EXCEPT !.rest = rest(mine), !.whole = whole(mine)], label)
    BY DEF Owned
<1>2. mine \subseteq Attached(c.memo) /\ Attached(c.memo) \subseteq File
    BY <1>1 DEF Pages, Attached
<1> DEFINE d == [c EXCEPT !.rest = rest(mine), !.whole = whole(mine)]
<1>3. /\ d \in Call /\ d.rest = rest(mine) /\ d.whole = whole(mine) /\ d.on = c.on
      /\ \A f \in Told : d[f] = c[f]
    <2>1. c \in Call /\ rest(mine) \in SUBSET (Memo \cup File) /\ whole(mine) \in BOOLEAN
        BY <1>2 DEF TypeOK
    <2> HIDE DEF c, rest, whole
    <2> QED BY <2>1 DEF Call, Told
<1>4. Go(p, d, label) /\ label \in PC /\ label # "idle"
    BY <1>1 DEF PC
<1> HIDE DEF d, label
<1>5. Lists(p, label, d.rest, d.whole)
    BY <1>3, <1>4 DEF Go, Lists, Others, TypeOK
<1>6. pc[p] = "owned"
    BY DEF Owned
<1> QED BY <1>2, <1>3, <1>5, <1>6 DEF label

LEMMA DropGoes ==
    ASSUME TypeOK, NEW p \in Proc, Drop(p)
    PROVE  /\ pc[p] = "drop"
           /\ \/ /\ call[p].rest = {} /\ owner' = owner
                 /\ Goes(p, IF call[p].op = "delete" THEN "replies" ELSE "link",
                         call[p].files, call[p].on)
              \/ \E f \in call[p].rest :
                   /\ owner' = [owner EXCEPT ![f] = None]
                   /\ \/ owner[f] = None /\ Ends(p)
                      \/ owner[f] # None /\ Goes(p, "drop", call[p].rest \ {f}, call[p].on)
<1>1. call[p].files \subseteq File /\ call[p].rest \subseteq Memo \cup File
    BY DEF TypeOK, Call
<1>2. CASE call[p].rest = {}
    BY <1>1, <1>2, Moves DEF Drop, PC
<1>3. CASE call[p].rest # {}
    BY <1>1, <1>3, Moves DEF Drop, PC
<1> QED BY <1>2, <1>3

LEMMA LinkGoes ==
    ASSUME TypeOK, NEW p \in Proc, Link(p)
    PROVE  /\ pc[p] = "link"
           /\ \/ /\ call[p].rest = {} /\ owner' = owner
                 /\ Goes(p, AfterFiles(call[p]), call[p].rest, call[p].on)
              \/ owner' = owner /\ Ends(p)
              \/ \E f \in call[p].rest :
                   /\ owner' = [owner EXCEPT ![f] = call[p].memo]
                   /\ Goes(p, "link", call[p].rest \ {f}, call[p].on)
<1>1. call[p].rest \subseteq Memo \cup File /\ AfterFiles(call[p]) \in PC
    BY DEF TypeOK, Call, AfterFiles, AfterLinks, PC
<1>2. CASE call[p].rest = {}
    BY <1>1, <1>2, Moves DEF Link
<1>3. CASE call[p].rest # {}
    BY <1>1, <1>3, Moves DEF Link, PC
<1> QED BY <1>2, <1>3

LEMMA ClearGoes ==
    ASSUME TypeOK, NEW p \in Proc, Clear(p)
    PROVE  pc[p] = "clear" /\ Goes(p, "find", call[p].links \ {call[p].memo}, call[p].on)
<1>1. call[p].links \subseteq Memo
    BY DEF TypeOK, Call
<1> QED BY <1>1, Moves DEF Clear, PC

LEMMA FindGoes ==
    ASSUME TypeOK, NEW p \in Proc, Find(p)
    PROVE  /\ pc[p] = "find"
           /\ \/ call[p].rest = {} /\ Goes(p, AfterLinks(call[p]), call[p].rest, call[p].on)
              \/ Ends(p) /\ call[p].rest # {}
              \/ \E m \in call[p].rest : Goes(p, "put", call[p].rest \ {m}, m) /\ m \in memos
<1>1. call[p].rest \subseteq Memo \cup File /\ AfterLinks(call[p]) \in PC /\ memos \subseteq Memo
    BY DEF TypeOK, Call, AfterLinks, PC
<1>2. CASE call[p].rest = {}
    BY <1>1, <1>2, Moves DEF Find
<1>3. CASE call[p].rest # {}
    BY <1>1, <1>3, Moves DEF Find, PC
<1> QED BY <1>2, <1>3

LEMMA PutGoes ==
    ASSUME TypeOK, NEW p \in Proc, Put(p)
    PROVE  /\ pc[p] = "put"
           /\ Ends(p) \/ Goes(p, "find", call[p].rest, None)
BY Moves DEF Put, PC

LEMMA CommentGoes ==
    ASSUME TypeOK, NEW p \in Proc, Comment(p)
    PROVE  /\ pc[p] = "comment"
           /\ \/ comments' = comments /\ Ends(p)
              \/ /\ call[p].parent # None /\ comments' = comments \cup {<<call[p].memo, call[p].parent>>}
                 /\ Goes(p, IF call[p].notify THEN "activity" ELSE "idle", call[p].rest, call[p].on)
BY Moves DEF Comment, PC

LEMMA ActivityGoes ==
    ASSUME TypeOK, NEW p \in Proc, Activity(p)
    PROVE  pc[p] = "activity" /\ Goes(p, "inbox", call[p].rest, call[p].on)
BY Moves DEF Activity, PC

LEMMA InboxGoes ==
    ASSUME TypeOK, NEW p \in Proc, Inbox(p)
    PROVE  pc[p] = "inbox" /\ Ends(p)
BY Moves DEF Inbox, Abort

LEMMA EraseGoes ==
    ASSUME TypeOK, NEW p \in Proc, Erase(p)
    PROVE  pc[p] = "erase" /\ Goes(p, "unrelate", call[p].rest, call[p].on)
BY Moves DEF Erase, PC

LEMMA UnrelateGoes ==
    ASSUME TypeOK, NEW p \in Proc, Unrelate(p)
    PROVE  pc[p] = "unrelate" /\ Goes(p, "drop", call[p].rest, call[p].on)
BY Moves DEF Unrelate, PC

LEMMA ListRepliesGoes ==
    ASSUME TypeOK, NEW p \in Proc, ListReplies(p)
    PROVE  pc[p] = "replies" /\ Goes(p, "reply", Replies(call[p].memo), call[p].on)
<1>1. Replies(call[p].memo) \subseteq Memo
    BY DEF Replies
<1> QED BY <1>1, Moves DEF ListReplies, PC

LEMMA DeleteReplyGoes ==
    ASSUME TypeOK, NEW p \in Proc, DeleteReply(p)
    PROVE  /\ pc[p] = "reply"
           /\ \/ /\ call[p].rest = {} /\ memos' = memos
                 /\ Goes(p, IF call[p].op = "delete" THEN "unrefer" ELSE "idle", call[p].rest, call[p].on)
              \/ \E m \in call[p].rest :
                   memos' = memos \ {m} /\ Goes(p, "reply", call[p].rest \ {m}, call[p].on)
<1>1. call[p].rest \subseteq Memo \cup File
    BY DEF TypeOK, Call
<1>2. CASE call[p].rest = {}
    BY <1>1, <1>2, Moves DEF DeleteReply, PC
<1>3. CASE call[p].rest # {}
    BY <1>1, <1>3, Moves DEF DeleteReply, PC
<1> QED BY <1>2, <1>3

LEMMA UnreferGoes ==
    ASSUME TypeOK, NEW p \in Proc, Unrefer(p)
    PROVE  pc[p] = "unrefer" /\ Ends(p)
BY Moves DEF Unrefer, Abort

LEMMA UploadGoes ==
    ASSUME TypeOK, NEW p \in Proc, Upload(p)
    PROVE  pc[p] = "upload" /\ Ends(p)
BY Moves DEF Upload, Abort

LEMMA FailGoes ==
    ASSUME TypeOK, NEW p \in Proc, Fail(p)
    PROVE  pc[p] # "idle" /\ Ends(p)
BY Moves DEF Fail, Busy

\* A step of one request leaves the others where they are, and none of them alone.
LEMMA OthersStay ==
    ASSUME TypeOK, Alone, NEW p \in Proc, Step(p)
    PROVE  Others(p) /\ \A q \in Proc \ {p} : ~alone'[q]
<1> USE DEF Alone, Busy
<1>1. CASE CreateMemo(p) \/ CreateMemoComment(p)
    BY <1>1, Created DEF Creates, Reserve, Starts, Others
<1>2. CASE UpdateMemo(p) \/ DeleteMemo(p)
    BY <1>2, Changed DEF Changes, Starts, Others
<1>3. CASE DeleteMemoTag(p)
    BY <1>3, TaggedDeleted DEF DeletesTagged, Starts, Others
<1>4. CASE CreateAttachment(p)
    BY <1>4, Uploaded DEF Uploads, Starts, Others
<1>5. CASE DeleteAttachment(p)
    BY <1>5 DEF DeleteAttachment, Others, TypeOK
<1>6. CASE Insert(p)
    BY <1>6, InsertGoes DEF Goes, Ends, Others
<1>7. CASE Reread(p)
    BY <1>7, RereadGoes DEF Goes, Ends, Others
<1>8. CASE Owned(p)
    BY <1>8, OwnedGoes DEF Lists, Ends, Others
<1>9. CASE Drop(p)
    BY <1>9, DropGoes DEF Goes, Ends, Others
<1>10. CASE Link(p)
    BY <1>10, LinkGoes DEF Goes, Ends, Others
<1>11. CASE Clear(p)
    BY <1>11, ClearGoes DEF Goes, Ends, Others
<1>12. CASE Find(p)
    BY <1>12, FindGoes DEF Goes, Ends, Others
<1>13. CASE Put(p)
    BY <1>13, PutGoes DEF Goes, Ends, Others
<1>14. CASE Comment(p)
    BY <1>14, CommentGoes DEF Goes, Ends, Others
<1>15. CASE Activity(p)
    BY <1>15, ActivityGoes DEF Goes, Ends, Others
<1>16. CASE Inbox(p)
    BY <1>16, InboxGoes DEF Goes, Ends, Others
<1>17. CASE Erase(p)
    BY <1>17, EraseGoes DEF Goes, Ends, Others
<1>18. CASE Unrelate(p)
    BY <1>18, UnrelateGoes DEF Goes, Ends, Others
<1>19. CASE ListReplies(p)
    BY <1>19, ListRepliesGoes DEF Goes, Ends, Others
<1>20. CASE DeleteReply(p)
    BY <1>20, DeleteReplyGoes DEF Goes, Ends, Others
<1>21. CASE Unrefer(p)
    BY <1>21, UnreferGoes DEF Goes, Ends, Others
<1>22. CASE Upload(p)
    BY <1>22, UploadGoes DEF Goes, Ends, Others
<1>23. CASE Fail(p)
    BY <1>23, FailGoes DEF Goes, Ends, Others
<1> QED BY <1>1, <1>2, <1>3, <1>4, <1>5, <1>6, <1>7, <1>8, <1>9, <1>10, <1>11, <1>12,
   <1>13, <1>14, <1>15, <1>16, <1>17, <1>18, <1>19, <1>20, <1>21, <1>22, <1>23 DEF Step,
   Arrive, Statement

\* Only who starts while nobody is busy is alone, until another starts.
LEMMA AloneStep ==
    ASSUME TypeOK, Alone, NEW p \in Proc, Step(p)
    PROVE  Alone'
<1>0. Others(p) /\ \A q \in Proc \ {p} : ~alone'[q]
    BY OthersStay
<1> USE DEF Busy, Alone
<1>1. CASE CreateMemo(p) \/ CreateMemoComment(p)
    BY <1>1, Created, <1>0 DEF Creates, Reserve, Starts, Others
<1>2. CASE UpdateMemo(p) \/ DeleteMemo(p)
    BY <1>2, Changed, <1>0 DEF Changes, Starts, Others
<1>3. CASE DeleteMemoTag(p)
    BY <1>3, TaggedDeleted, <1>0 DEF DeletesTagged, Starts, Others
<1>4. CASE CreateAttachment(p)
    BY <1>4, Uploaded, <1>0 DEF Uploads, Starts, Others
<1>5. CASE DeleteAttachment(p)
    BY <1>5, <1>0 DEF DeleteAttachment, TypeOK
<1>6. CASE Insert(p)
    BY <1>6, InsertGoes, <1>0 DEF Goes, Ends, Others
<1>7. CASE Reread(p)
    BY <1>7, RereadGoes, <1>0 DEF Goes, Ends, Others
<1>8. CASE Owned(p)
    BY <1>8, OwnedGoes, <1>0 DEF Lists, Ends, Others
<1>9. CASE Drop(p)
    BY <1>9, DropGoes, <1>0 DEF Goes, Ends, Others
<1>10. CASE Link(p)
    BY <1>10, LinkGoes, <1>0 DEF Goes, Ends, Others
<1>11. CASE Clear(p)
    BY <1>11, ClearGoes, <1>0 DEF Goes, Ends, Others
<1>12. CASE Find(p)
    BY <1>12, FindGoes, <1>0 DEF Goes, Ends, Others
<1>13. CASE Put(p)
    BY <1>13, PutGoes, <1>0 DEF Goes, Ends, Others
<1>14. CASE Comment(p)
    BY <1>14, CommentGoes, <1>0 DEF Goes, Ends, Others
<1>15. CASE Activity(p)
    BY <1>15, ActivityGoes, <1>0 DEF Goes, Ends, Others
<1>16. CASE Inbox(p)
    BY <1>16, InboxGoes, <1>0 DEF Goes, Ends, Others
<1>17. CASE Erase(p)
    BY <1>17, EraseGoes, <1>0 DEF Goes, Ends, Others
<1>18. CASE Unrelate(p)
    BY <1>18, UnrelateGoes, <1>0 DEF Goes, Ends, Others
<1>19. CASE ListReplies(p)
    BY <1>19, ListRepliesGoes, <1>0 DEF Goes, Ends, Others
<1>20. CASE DeleteReply(p)
    BY <1>20, DeleteReplyGoes, <1>0 DEF Goes, Ends, Others
<1>21. CASE Unrefer(p)
    BY <1>21, UnreferGoes, <1>0 DEF Goes, Ends, Others
<1>22. CASE Upload(p)
    BY <1>22, UploadGoes, <1>0 DEF Goes, Ends, Others
<1>23. CASE Fail(p)
    BY <1>23, FailGoes, <1>0 DEF Goes, Ends, Others
<1> QED BY <1>1, <1>2, <1>3, <1>4, <1>5, <1>6, <1>7, <1>8, <1>9, <1>10, <1>11, <1>12,
   <1>13, <1>14, <1>15, <1>16, <1>17, <1>18, <1>19, <1>20, <1>21, <1>22, <1>23 DEF Step,
   Arrive, Statement

\* A request goes on to a statement of its operation.
LEMMA StageStep ==
    ASSUME TypeOK, Alone, \A q \in Proc : OwnStage(q), NEW p \in Proc, Step(p)
    PROVE  \A q \in Proc : OwnStage(q)'
<1>0. \A q \in Proc \ {p} : OwnStage(q)'
    BY OthersStay DEF Others, OwnStage, Busy
<1> SUFFICES OwnStage(p)'
    BY <1>0
<1> USE NoneIsNoId DEF Busy
<1>1. CASE CreateMemo(p) \/ CreateMemoComment(p)
    BY <1>1, Created DEF Creates, Reserve, Starts, Others, TypeOK, OwnStage, Relating,
       Call
<1>2. CASE UpdateMemo(p) \/ DeleteMemo(p)
    BY <1>2, Changed DEF Changes, Starts, Others, TypeOK, OwnStage, Relating, Call
<1>3. CASE DeleteMemoTag(p)
    BY <1>3, TaggedDeleted DEF DeletesTagged, Starts, Others, TypeOK, OwnStage, Relating,
       Call
<1>4. CASE CreateAttachment(p)
    BY <1>4, Uploaded DEF Uploads, Starts, Others, TypeOK, OwnStage, Relating, Call
<1>5. CASE DeleteAttachment(p)
    BY <1>5 DEF DeleteAttachment, TypeOK, OwnStage, Relating, Call
<1>6. CASE Insert(p)
    BY <1>6, InsertGoes DEF AfterInsert, AfterFiles, AfterLinks, TypeOK, OwnStage,
       Relating, Call, Goes, Ends, Kept
<1>7. CASE Reread(p)
    BY <1>7, RereadGoes DEF TypeOK, OwnStage, Relating, Call, Goes, Ends, Kept
<1>8. CASE Owned(p)
    BY <1>8, OwnedGoes DEF Attached, TypeOK, OwnStage, Relating, Call, Lists, Ends, Told
<1>9. CASE Drop(p)
    BY <1>9, DropGoes DEF TypeOK, OwnStage, Relating, Call, Goes, Ends, Kept
<1>10. CASE Link(p)
    BY <1>10, LinkGoes DEF AfterFiles, AfterLinks, TypeOK, OwnStage, Relating, Call, Goes,
       Ends, Kept
<1>11. CASE Clear(p)
    BY <1>11, ClearGoes DEF TypeOK, OwnStage, Relating, Call, Goes, Ends, Kept
<1>12. CASE Find(p)
    BY <1>12, FindGoes DEF AfterLinks, TypeOK, OwnStage, Relating, Call, Goes, Ends, Kept
<1>13. CASE Put(p)
    BY <1>13, PutGoes DEF TypeOK, OwnStage, Relating, Call, Goes, Ends, Kept
<1>14. CASE Comment(p)
    BY <1>14, CommentGoes DEF TypeOK, OwnStage, Relating, Call, Goes, Ends, Kept
<1>15. CASE Activity(p)
    BY <1>15, ActivityGoes DEF TypeOK, OwnStage, Relating, Call, Goes, Ends, Kept
<1>16. CASE Inbox(p)
    BY <1>16, InboxGoes DEF TypeOK, OwnStage, Relating, Call, Goes, Ends, Kept
<1>17. CASE Erase(p)
    BY <1>17, EraseGoes DEF TypeOK, OwnStage, Relating, Call, Goes, Ends, Kept
<1>18. CASE Unrelate(p)
    BY <1>18, UnrelateGoes DEF TypeOK, OwnStage, Relating, Call, Goes, Ends, Kept
<1>19. CASE ListReplies(p)
    BY <1>19, ListRepliesGoes DEF Replies, TypeOK, OwnStage, Relating, Call, Goes, Ends,
       Kept
<1>20. CASE DeleteReply(p)
    BY <1>20, DeleteReplyGoes DEF TypeOK, OwnStage, Relating, Call, Goes, Ends, Kept
<1>21. CASE Unrefer(p)
    BY <1>21, UnreferGoes DEF TypeOK, OwnStage, Relating, Call, Goes, Ends, Kept
<1>22. CASE Upload(p)
    BY <1>22, UploadGoes DEF TypeOK, OwnStage, Relating, Call, Goes, Ends, Kept
<1>23. CASE Fail(p)
    BY <1>23, FailGoes DEF TypeOK, OwnStage, Relating, Call, Goes, Ends, Kept
<1> QED BY <1>1, <1>2, <1>3, <1>4, <1>5, <1>6, <1>7, <1>8, <1>9, <1>10, <1>11, <1>12,
   <1>13, <1>14, <1>15, <1>16, <1>17, <1>18, <1>19, <1>20, <1>21, <1>22, <1>23 DEF Step,
   Arrive, Statement

\* A step leaves rows and requests in their sets.
LEMMA TypeStep ==
    ASSUME TypeOK, Alone, KnownIds, \A q \in Proc : OwnStage(q) /\ InOrder(q),
       NEW p \in Proc, Step(p)
    PROVE  TypeOK'
<1>0. /\ pc' \in [Proc -> PC] /\ call' \in [Proc -> Call] /\ alone' \in [Proc -> BOOLEAN]
    BY OthersStay DEF Others
<1>a. call[p] \in Call /\ pc[p] \in PC /\ call[p].memo \in used \cup {None}
    BY DEF TypeOK, KnownIds
<1>b. /\ call[p].memo \in Memo \cup {None} /\ call[p].parent \in Memo \cup {None}
      /\ call[p].on \in Memo \cup {None}
    BY <1>a DEF Call
<1>c. OwnStage(p) /\ InOrder(p)
    OBVIOUS
<1> USE NoneIsNoId DEF TypeOK, rows, notices, Busy
<1>1. CASE CreateMemo(p) \/ CreateMemoComment(p)
    BY <1>1, Created, <1>0, <1>b DEF Creates, Reserve, Starts, Others
<1>2. CASE UpdateMemo(p) \/ DeleteMemo(p)
    BY <1>2, Changed, <1>0, <1>b DEF Changes, Starts, Others
<1>3. CASE DeleteMemoTag(p)
    BY <1>3, TaggedDeleted, <1>0, <1>b DEF DeletesTagged, Starts, Others
<1>4. CASE CreateAttachment(p)
    BY <1>4, Uploaded, <1>0, <1>b DEF Uploads, Starts, Others
<1>5. CASE DeleteAttachment(p)
    BY <1>5, <1>0, <1>b DEF DeleteAttachment
<1>6. CASE Insert(p)
    BY <1>6, <1>0, <1>a, <1>b, <1>c DEF Insert, OwnStage, Relating
<1>7. CASE Reread(p)
    BY <1>7, <1>0, <1>b DEF Reread
<1>8. CASE Owned(p)
    BY <1>8, <1>0, <1>b DEF Owned
<1>9. CASE Drop(p)
    BY <1>9, <1>0, <1>b DEF Drop
<1>10. CASE Link(p)
    BY <1>10, <1>0, <1>a, <1>b, <1>c DEF Link, OwnStage, Relating
<1>11. CASE Clear(p)
    BY <1>11, <1>0, <1>b DEF Clear
<1>12. CASE Find(p)
    BY <1>12, <1>0, <1>b DEF Find
<1>13. CASE Put(p)
    BY <1>13, <1>0, <1>a, <1>b, <1>c DEF Put, OwnStage, Relating
<1>14. CASE Comment(p)
    BY <1>14, <1>0, <1>a, <1>b, <1>c DEF Comment, OwnStage, Relating
<1>15. CASE Activity(p)
    BY <1>15, <1>0, <1>a, <1>b, <1>c DEF Activity, OwnStage, InOrder, Relating
<1>16. CASE Inbox(p)
    BY <1>16, <1>0, <1>a, <1>b, <1>c DEF Inbox, OwnStage, Relating
<1>17. CASE Erase(p)
    BY <1>17, <1>0, <1>b DEF Erase
<1>18. CASE Unrelate(p)
    BY <1>18, <1>0, <1>b DEF Unrelate
<1>19. CASE ListReplies(p)
    BY <1>19, <1>0, <1>b DEF ListReplies
<1>20. CASE DeleteReply(p)
    BY <1>20, <1>0, <1>b DEF DeleteReply
<1>21. CASE Unrefer(p)
    BY <1>21, <1>0, <1>b DEF Unrefer
<1>22. CASE Upload(p)
    BY <1>22, <1>0, <1>b DEF Upload
<1>23. CASE Fail(p)
    BY <1>23, <1>0, <1>b DEF Fail
<1> QED BY <1>1, <1>2, <1>3, <1>4, <1>5, <1>6, <1>7, <1>8, <1>9, <1>10, <1>11, <1>12,
   <1>13, <1>14, <1>15, <1>16, <1>17, <1>18, <1>19, <1>20, <1>21, <1>22, <1>23 DEF Step,
   Arrive, Statement

\* A request is about memos that were there, but for the one it will insert.
LEMMA KnownStep ==
    ASSUME TypeOK, Alone, KnownIds, \A q \in Proc : OwnStage(q) /\
       OwnInsert(q) /\ InOrder(q), NEW p \in Proc, Step(p)
    PROVE  KnownIds'
<1>0. \A q \in Proc \ {p} : call'[q] = call[q]
    BY OthersStay DEF Others
<1>a. {call[p].memo, call[p].parent} \subseteq used \cup {None} /\ OwnStage(p) /\ InOrder(p)
    BY DEF KnownIds
<1> SUFFICES /\ comments' \subseteq used' \X used' /\ used \subseteq used'
             /\ \A a \in activities' : a[1] \in used'
             /\ {call'[p].memo, call'[p].parent} \subseteq used' \cup {None}
    BY <1>0 DEF KnownIds
<1> USE NoneIsNoId DEF rows, notices
<1>1. CASE CreateMemo(p) \/ CreateMemoComment(p)
    BY <1>1, Created, <1>a DEF Creates, Reserve, Starts, Others, KnownIds, TypeOK
<1>2. CASE UpdateMemo(p) \/ DeleteMemo(p)
    BY <1>2, Changed, <1>a DEF Changes, Starts, Others, KnownIds, TypeOK
<1>3. CASE DeleteMemoTag(p)
    BY <1>3, TaggedDeleted, <1>a DEF DeletesTagged, Starts, Others, KnownIds, TypeOK
<1>4. CASE CreateAttachment(p)
    BY <1>4, Uploaded, <1>a DEF Uploads, Starts, Others, KnownIds, TypeOK
<1>5. CASE DeleteAttachment(p)
    BY <1>5, <1>a DEF DeleteAttachment, KnownIds, TypeOK
<1>6. CASE Insert(p)
    BY <1>6, InsertGoes, <1>a DEF Insert, KnownIds, Goes, Ends, Kept, Request
<1>7. CASE Reread(p)
    BY <1>7, RereadGoes, <1>a DEF Reread, KnownIds, Goes, Ends, Kept, Request
<1>8. CASE Owned(p)
    <2>1. UNCHANGED <<used, comments, activities>>
        BY <1>8 DEF Owned, notices
    <2>2. call'[p].memo = call[p].memo /\ call'[p].parent = call[p].parent
        BY <1>8, OwnedGoes DEF Lists, Told
    <2> QED BY <1>0, <1>a, <2>1, <2>2 DEF KnownIds
<1>9. CASE Drop(p)
    <2>1. UNCHANGED <<used, comments, activities>>
        BY <1>9 DEF Drop, notices
    <2>2. /\ call'[p].memo \in {call[p].memo, None} /\ call'[p].parent \in {call[p].parent, None}
          /\ pc'[p] # "insert"
        BY <1>9, DropGoes DEF Goes, Ends, Kept, Request
    <2> QED BY <1>0, <1>a, <2>1, <2>2 DEF KnownIds
<1>10. CASE Link(p)
    <2>1. UNCHANGED <<used, comments, activities>>
        BY <1>10 DEF Link, notices
    <2>2. call'[p].memo \in {call[p].memo, None} /\ call'[p].parent \in {call[p].parent, None}
        BY <1>10, LinkGoes DEF Goes, Ends, Kept, Request
    <2> QED BY <1>0, <1>a, <2>1, <2>2 DEF KnownIds
<1>11. CASE Clear(p)
    BY <1>11, ClearGoes, <1>a DEF Clear, KnownIds, Goes, Ends, Kept, Request
<1>12. CASE Find(p)
    <2>1. UNCHANGED <<used, comments, activities>>
        BY <1>12 DEF Find, notices
    <2>2. /\ call'[p].memo \in {call[p].memo, None} /\ call'[p].parent \in {call[p].parent, None}
          /\ pc'[p] # "insert"
        BY <1>12, FindGoes DEF Goes, Ends, Kept, Request, AfterLinks
    <2> QED BY <1>0, <1>a, <2>1, <2>2 DEF KnownIds
<1>13. CASE Put(p)
    BY <1>13, PutGoes, <1>a DEF Put, KnownIds, Goes, Ends, Kept, Request
<1>14. CASE Comment(p)
    <2>1. call[p].memo # None /\ call[p].memo \in used
        BY <1>14, <1>a DEF Comment, OwnStage, Busy
    <2>2. UNCHANGED <<used, activities>>
        BY <1>14 DEF Comment, notices
    <2>3. /\ call'[p].memo \in {call[p].memo, None} /\ call'[p].parent \in {call[p].parent, None}
          /\ comments' = comments \/ (/\ comments' = comments \cup {<<call[p].memo, call[p].parent>>}
                                      /\ call[p].parent # None)
        BY <1>14, CommentGoes DEF Goes, Ends, Kept, Request
    <2> QED BY <1>a, <2>1, <2>2, <2>3 DEF KnownIds
<1>15. CASE Activity(p)
    <2>1. call[p].memo # None /\ call[p].memo \in used
        BY <1>15, <1>a DEF Activity, OwnStage, Busy
    <2>2. /\ UNCHANGED <<used, comments>>
          /\ activities' = activities \cup {<<call[p].memo, call[p].parent>>}
        BY <1>15 DEF Activity, notices
    <2>3. call'[p].memo \in {call[p].memo, None} /\ call'[p].parent \in {call[p].parent, None}
        BY <1>15, ActivityGoes DEF Goes, Ends, Kept, Request
    <2> QED BY <1>a, <2>1, <2>2, <2>3 DEF KnownIds
<1>16. CASE Inbox(p)
    BY <1>16, InboxGoes, <1>a DEF Inbox, KnownIds, Goes, Ends, Kept, Request
<1>17. CASE Erase(p)
    BY <1>17, EraseGoes, <1>a DEF Erase, KnownIds, Goes, Ends, Kept, Request
<1>18. CASE Unrelate(p)
    BY <1>18, UnrelateGoes, <1>a DEF Unrelate, KnownIds, Goes, Ends, Kept, Request
<1>19. CASE ListReplies(p)
    BY <1>19, ListRepliesGoes, <1>a DEF ListReplies, KnownIds, Goes, Ends, Kept, Request
<1>20. CASE DeleteReply(p)
    BY <1>20, DeleteReplyGoes, <1>a DEF DeleteReply, KnownIds, Goes, Ends, Kept, Request
<1>21. CASE Unrefer(p)
    BY <1>21, UnreferGoes, <1>a DEF Unrefer, KnownIds, Goes, Ends, Kept, Request
<1>22. CASE Upload(p)
    BY <1>22, UploadGoes, <1>a DEF Upload, KnownIds, Goes, Ends, Kept, Request
<1>23. CASE Fail(p)
    BY <1>23, FailGoes, <1>a DEF Fail, KnownIds, Goes, Ends, Kept, Request
<1> QED BY <1>1, <1>2, <1>3, <1>4, <1>5, <1>6, <1>7, <1>8, <1>9, <1>10, <1>11, <1>12,
   <1>13, <1>14, <1>15, <1>16, <1>17, <1>18, <1>19, <1>20, <1>21, <1>22, <1>23 DEF Step,
   Arrive, Statement

\* Nobody else comes to know of a memo that is yet to be inserted.
LEMMA OwnInsertStep ==
    ASSUME TypeOK, Alone, KnownIds, \A q \in Proc : OwnStage(q) /\
       OwnInsert(q) /\ InOrder(q), NEW p \in Proc, Step(p)
    PROVE  \A q \in Proc : OwnInsert(q)'
<1>0. \A q \in Proc \ {p} : call'[q] = call[q] /\ pc'[q] = pc[q]
    BY OthersStay DEF Others
<1>a. \A q \in Proc : call[q].memo \in used \cup {None}
    BY DEF KnownIds
<1>b. \A q \in Proc : pc[q] = "insert" => call[q].memo # None
    BY DEF OwnStage, Busy
<1> USE NoneIsNoId DEF rows, notices
<1>1. CASE CreateMemo(p) \/ CreateMemoComment(p)
    BY <1>1, Created, <1>0, <1>a, <1>b DEF Creates, Reserve, Starts, Others, KnownIds,
       TypeOK, OwnInsert
<1>2. CASE UpdateMemo(p) \/ DeleteMemo(p)
    BY <1>2, Changed, <1>0, <1>a, <1>b DEF Changes, Starts, Others, KnownIds, TypeOK,
       OwnInsert
<1>3. CASE DeleteMemoTag(p)
    BY <1>3, TaggedDeleted, <1>0, <1>a, <1>b DEF DeletesTagged, Starts, Others, KnownIds,
       TypeOK, OwnInsert
<1>4. CASE CreateAttachment(p)
    BY <1>4, Uploaded, <1>0, <1>a, <1>b DEF Uploads, Starts, Others, KnownIds, TypeOK,
       OwnInsert
<1>5. CASE DeleteAttachment(p)
    BY <1>5, <1>0, <1>a, <1>b DEF DeleteAttachment, KnownIds, TypeOK, OwnInsert
<1>6. CASE Insert(p)
    BY <1>6, InsertGoes, <1>0, <1>a, <1>b DEF Insert, AfterInsert, AfterFiles, AfterLinks,
       Goes, Ends, Kept, Request, OwnInsert
<1>7. CASE Reread(p)
    BY <1>7, RereadGoes, <1>0, <1>a, <1>b DEF Reread, Goes, Ends, Kept, Request, OwnInsert
<1>8. CASE Owned(p)
    <2>1. UNCHANGED <<memos, activities>>
        BY <1>8 DEF Owned, notices
    <2>2. call'[p].memo = call[p].memo /\ pc'[p] # "insert"
        BY <1>8, OwnedGoes DEF Lists, Told
    <2> QED BY <1>0, <1>a, <1>b, <2>1, <2>2 DEF OwnInsert
<1>9. CASE Drop(p)
    <2>1. UNCHANGED <<memos, activities>>
        BY <1>9 DEF Drop, notices
    <2>2. /\ call'[p].memo \in {call[p].memo, None} /\ call'[p].parent \in {call[p].parent, None}
          /\ pc'[p] # "insert"
        BY <1>9, DropGoes DEF Goes, Ends, Kept, Request
    <2> QED BY <1>0, <1>a, <1>b, <2>1, <2>2 DEF OwnInsert
<1>10. CASE Link(p)
    <2>1. UNCHANGED <<memos, activities>>
        BY <1>10 DEF Link, notices
    <2>2. /\ call'[p].memo \in {call[p].memo, None} /\ call'[p].parent \in {call[p].parent, None}
          /\ pc'[p] # "insert"
        BY <1>10, LinkGoes DEF Goes, Ends, Kept, Request, AfterFiles, AfterLinks
    <2> QED BY <1>0, <1>a, <1>b, <2>1, <2>2 DEF OwnInsert
<1>11. CASE Clear(p)
    BY <1>11, ClearGoes, <1>0, <1>a, <1>b DEF Clear, Goes, Ends, Kept, Request, OwnInsert
<1>12. CASE Find(p)
    <2>1. UNCHANGED <<memos, activities>>
        BY <1>12 DEF Find, notices
    <2>2. /\ call'[p].memo \in {call[p].memo, None} /\ call'[p].parent \in {call[p].parent, None}
          /\ pc'[p] # "insert"
        BY <1>12, FindGoes DEF Goes, Ends, Kept, Request, AfterLinks
    <2> QED BY <1>0, <1>a, <1>b, <2>1, <2>2 DEF OwnInsert
<1>13. CASE Put(p)
    BY <1>13, PutGoes, <1>0, <1>a, <1>b DEF Put, Goes, Ends, Kept, Request, OwnInsert
<1>14. CASE Comment(p)
    BY <1>14, CommentGoes, <1>0, <1>a, <1>b DEF Comment, Goes, Ends, Kept, Request,
       OwnInsert
<1>15. CASE Activity(p)
    BY <1>15, ActivityGoes, <1>0, <1>a, <1>b DEF Activity, Goes, Ends, Kept, Request,
       OwnInsert
<1>16. CASE Inbox(p)
    BY <1>16, InboxGoes, <1>0, <1>a, <1>b DEF Inbox, Goes, Ends, Kept, Request, OwnInsert
<1>17. CASE Erase(p)
    BY <1>17, EraseGoes, <1>0, <1>a, <1>b DEF Erase, Goes, Ends, Kept, Request, OwnInsert
<1>18. CASE Unrelate(p)
    BY <1>18, UnrelateGoes, <1>0, <1>a, <1>b DEF Unrelate, Goes, Ends, Kept, Request,
       OwnInsert
<1>19. CASE ListReplies(p)
    BY <1>19, ListRepliesGoes, <1>0, <1>a, <1>b DEF ListReplies, Goes, Ends, Kept,
       Request, OwnInsert
<1>20. CASE DeleteReply(p)
    BY <1>20, DeleteReplyGoes, <1>0, <1>a, <1>b DEF DeleteReply, Goes, Ends, Kept,
       Request, OwnInsert
<1>21. CASE Unrefer(p)
    BY <1>21, UnreferGoes, <1>0, <1>a, <1>b DEF Unrefer, Goes, Ends, Kept, Request,
       OwnInsert
<1>22. CASE Upload(p)
    BY <1>22, UploadGoes, <1>0, <1>a, <1>b DEF Upload, Goes, Ends, Kept, Request,
       OwnInsert
<1>23. CASE Fail(p)
    BY <1>23, FailGoes, <1>0, <1>a, <1>b DEF Fail, Goes, Ends, Kept, Request, OwnInsert
<1> QED BY <1>1, <1>2, <1>3, <1>4, <1>5, <1>6, <1>7, <1>8, <1>9, <1>10, <1>11, <1>12,
   <1>13, <1>14, <1>15, <1>16, <1>17, <1>18, <1>19, <1>20, <1>21, <1>22, <1>23 DEF Step,
   Arrive, Statement

\* A tie is written by the request that was about to, or it is a new memo's.
LEMMA TieOfStep ==
    ASSUME TypeOK, Alone, KnownIds, \A q \in Proc : OwnStage(q) /\
       OwnInsert(q) /\ InOrder(q), NEW p \in Proc, Step(p)
    PROVE  /\ comments' \subseteq Ties
           /\ \/ call'[p].op # "comment" \/ call'[p].parent = None
              \/ /\ call[p].op = "comment"
                 /\ call'[p].memo = call[p].memo /\ call'[p].parent = call[p].parent
              \/ call'[p].memo \in Memo \ used /\ call'[p].parent \in used
<1>0. comments \subseteq Ties /\ OwnStage(p)
    BY DEF Ties
<1> USE NoneIsNoId DEF rows, notices
<1>1. CASE CreateMemo(p) \/ CreateMemoComment(p)
    BY <1>1, Created, <1>0 DEF Creates, Reserve, Starts, Others
<1>2. CASE UpdateMemo(p) \/ DeleteMemo(p)
    BY <1>2, Changed, <1>0 DEF Changes, Starts, Others
<1>3. CASE DeleteMemoTag(p)
    BY <1>3, TaggedDeleted, <1>0 DEF DeletesTagged, Starts, Others
<1>4. CASE CreateAttachment(p)
    BY <1>4, Uploaded, <1>0 DEF Uploads, Starts, Others
<1>5. CASE DeleteAttachment(p)
    BY <1>5, <1>0 DEF DeleteAttachment
<1>6. CASE Insert(p)
    BY <1>6, <1>0, InsertGoes DEF Insert, Goes, Ends, Kept, Request, AfterInsert, AfterFiles, AfterLinks
<1>7. CASE Reread(p)
    BY <1>7, RereadGoes, <1>0 DEF Reread, Goes, Ends, Kept, Request
<1>8. CASE Owned(p)
    BY <1>8, OwnedGoes, <1>0 DEF Owned, Lists, Ends, Told, Request
<1>9. CASE Drop(p)
    <2>1. comments' = comments
        BY <1>9 DEF Drop
    <2>2. \/ call'[p].op # "comment"
          \/ /\ call[p].op = "comment"
             /\ call'[p].memo = call[p].memo /\ call'[p].parent = call[p].parent
        BY <1>9, DropGoes DEF Goes, Ends, Kept, Request
    <2> QED BY <1>0, <2>1, <2>2
<1>10. CASE Link(p)
    BY <1>10, <1>0, LinkGoes DEF Link, Goes, Ends, Kept, Request, AfterFiles, AfterLinks
<1>11. CASE Clear(p)
    BY <1>11, ClearGoes, <1>0 DEF Clear, Goes, Ends, Kept, Request
<1>12. CASE Find(p)
    <2>1. \/ call'[p].op # "comment"
          \/ /\ call[p].op = "comment"
             /\ call'[p].memo = call[p].memo /\ call'[p].parent = call[p].parent
        BY <1>12, FindGoes DEF Goes, Ends, Kept, Request, AfterLinks
    <2>2. comments' = comments
        BY <1>12 DEF Find
    <2> QED BY <1>0, <2>1, <2>2
<1>13. CASE Put(p)
    BY <1>13, PutGoes, <1>0 DEF Put, Goes, Ends, Kept, Request
<1>14. CASE Comment(p)
    <2>1. \/ call'[p].op # "comment"
          \/ /\ call[p].op = "comment"
             /\ call'[p].memo = call[p].memo /\ call'[p].parent = call[p].parent
        BY <1>14, CommentGoes DEF Goes, Ends, Kept, Request
    <2>2. comments' = comments \/ (/\ comments' = comments \cup {<<call[p].memo, call[p].parent>>}
                                  /\ call[p].parent # None)
        BY <1>14, CommentGoes
    <2>3. call[p].op = "comment"
        BY <1>14, <1>0 DEF Comment, OwnStage
    <2>4. call[p].parent # None => <<call[p].memo, call[p].parent>> \in Ties
        BY <2>3 DEF Ties
    <2> QED BY <1>0, <2>1, <2>2, <2>4
<1>15. CASE Activity(p)
    BY <1>15, ActivityGoes, <1>0 DEF Activity, Goes, Ends, Kept, Request
<1>16. CASE Inbox(p)
    BY <1>16, InboxGoes, <1>0 DEF Inbox, Goes, Ends, Kept, Request
<1>17. CASE Erase(p)
    BY <1>17, EraseGoes, <1>0 DEF Erase, Goes, Ends, Kept, Request
<1>18. CASE Unrelate(p)
    BY <1>18, UnrelateGoes, <1>0 DEF Unrelate, Goes, Ends, Kept, Request
<1>19. CASE ListReplies(p)
    BY <1>19, ListRepliesGoes, <1>0 DEF ListReplies, Goes, Ends, Kept, Request
<1>20. CASE DeleteReply(p)
    BY <1>20, DeleteReplyGoes, <1>0 DEF DeleteReply, Goes, Ends, Kept, Request
<1>21. CASE Unrefer(p)
    BY <1>21, UnreferGoes, <1>0 DEF Unrefer, Goes, Ends, Kept, Request
<1>22. CASE Upload(p)
    BY <1>22, UploadGoes, <1>0 DEF Upload, Goes, Ends, Kept, Request
<1>23. CASE Fail(p)
    BY <1>23, FailGoes, <1>0 DEF Fail, Goes, Ends, Kept, Request
<1> QED BY <1>1, <1>2, <1>3, <1>4, <1>5, <1>6, <1>7, <1>8, <1>9, <1>10, <1>11, <1>12,
   <1>13, <1>14, <1>15, <1>16, <1>17, <1>18, <1>19, <1>20, <1>21, <1>22, <1>23 DEF Step,
   Arrive, Statement

\* What becomes of rows: only who is about to insert a memo does, and comments are
\* dropped of memos that are gone.
LEMMA RowsStep ==
    ASSUME TypeOK, Alone, KnownIds, \A q \in Proc : OwnStage(q) /\
       OwnInsert(q) /\ InOrder(q), NEW p \in Proc, Step(p)
    PROVE  /\ \/ memos' \subseteq memos
              \/ pc[p] = "insert" /\ memos' = memos \cup {call[p].memo}
           /\ \A t \in comments : t[1] \in memos' => t \in comments'
           /\ \/ activities' = activities
              \/ /\ pc[p] = "activity"
                 /\ activities' = activities \cup {<<call[p].memo, call[p].parent>>}
           /\ inbox' = inbox \/ (pc[p] = "inbox" /\ inbox' = inbox \cup {call[p].memo})
<1> USE DEF rows, notices
<1>1. CASE CreateMemo(p) \/ CreateMemoComment(p)
    BY <1>1, Created DEF Creates
<1>2. CASE UpdateMemo(p) \/ DeleteMemo(p)
    BY <1>2, Changed DEF Changes
<1>3. CASE DeleteMemoTag(p)
    BY <1>3, TaggedDeleted DEF DeletesTagged
<1>4. CASE CreateAttachment(p)
    BY <1>4, Uploaded DEF Uploads
<1>5. CASE DeleteAttachment(p)
    BY <1>5 DEF DeleteAttachment
<1>6. CASE Insert(p)
    BY <1>6 DEF Insert
<1>7. CASE Reread(p)
    BY <1>7 DEF Reread
<1>8. CASE Owned(p)
    BY <1>8 DEF Owned
<1>9. CASE Drop(p)
    BY <1>9 DEF Drop
<1>10. CASE Link(p)
    BY <1>10 DEF Link
<1>11. CASE Clear(p)
    BY <1>11 DEF Clear
<1>12. CASE Find(p)
    BY <1>12 DEF Find
<1>13. CASE Put(p)
    BY <1>13 DEF Put
<1>14. CASE Comment(p)
    BY <1>14 DEF Comment
<1>15. CASE Activity(p)
    BY <1>15 DEF Activity
<1>16. CASE Inbox(p)
    BY <1>16 DEF Inbox
<1>17. CASE Erase(p)
    BY <1>17 DEF Erase
<1>18. CASE Unrelate(p)
    <2>1. call[p].memo \notin memos
        BY <1>18, UnrelateGoes DEF OwnStage, InOrder, Erased, Unrelate
    <2> QED BY <1>18, <2>1 DEF Unrelate
<1>19. CASE ListReplies(p)
    BY <1>19 DEF ListReplies
<1>20. CASE DeleteReply(p)
    BY <1>20 DEF DeleteReply
<1>21. CASE Unrefer(p)
    BY <1>21 DEF Unrefer
<1>22. CASE Upload(p)
    BY <1>22 DEF Upload
<1>23. CASE Fail(p)
    BY <1>23 DEF Fail
<1> QED BY <1>1, <1>2, <1>3, <1>4, <1>5, <1>6, <1>7, <1>8, <1>9, <1>10, <1>11, <1>12,
   <1>13, <1>14, <1>15, <1>16, <1>17, <1>18, <1>19, <1>20, <1>21, <1>22, <1>23 DEF Step,
   Arrive, Statement

\* A comment is written before what tells of it, and a memo erased before its comments.
LEMMA InOrderOwn ==
    ASSUME TypeOK, Alone, KnownIds, \A q \in Proc : OwnStage(q) /\
       OwnInsert(q) /\ InOrder(q), NoticesLead, NEW p \in Proc, Step(p)
    PROVE  InOrder(p)'
<1>0. OwnStage(p) /\ InOrder(p)
    OBVIOUS
<1> USE NoneIsNoId DEF rows, notices
<1>1. CASE CreateMemo(p) \/ CreateMemoComment(p)
    BY <1>1, Created, <1>0 DEF Creates, Reserve, Starts, Others, InOrder, Erased
<1>2. CASE UpdateMemo(p) \/ DeleteMemo(p)
    BY <1>2, Changed, <1>0 DEF Changes, Starts, Others, InOrder, Erased
<1>3. CASE DeleteMemoTag(p)
    BY <1>3, TaggedDeleted, <1>0 DEF DeletesTagged, Starts, Others, InOrder, Erased
<1>4. CASE CreateAttachment(p)
    BY <1>4, Uploaded, <1>0 DEF Uploads, Starts, Others, InOrder, Erased
<1>5. CASE DeleteAttachment(p)
    BY <1>5, <1>0 DEF DeleteAttachment, InOrder, Erased
<1>6. CASE Insert(p)
    BY <1>6, InsertGoes, <1>0 DEF Insert, AfterInsert, AfterFiles, AfterLinks, Goes, Ends,
       Kept, Request, InOrder, Erased
<1>7. CASE Reread(p)
    BY <1>7, RereadGoes, <1>0 DEF Reread, Goes, Ends, Kept, Request, InOrder, Erased
<1>8. CASE Owned(p)
    BY <1>8, OwnedGoes, <1>0 DEF Owned, Attached, Lists, Ends, Told, Request, InOrder,
       Erased
<1>9. CASE Drop(p)
    BY <1>9, DropGoes, <1>0 DEF Drop, Goes, Ends, Kept, Request, InOrder, Erased
<1>10. CASE Link(p)
    BY <1>10, LinkGoes, <1>0 DEF Link, AfterFiles, AfterLinks, Goes, Ends, Kept, Request,
       InOrder, Erased
<1>11. CASE Clear(p)
    BY <1>11, ClearGoes, <1>0 DEF Clear, Goes, Ends, Kept, Request, InOrder, Erased
<1>12. CASE Find(p)
    BY <1>12, FindGoes, <1>0 DEF Find, AfterLinks, Goes, Ends, Kept, Request, InOrder,
       Erased
<1>13. CASE Put(p)
    BY <1>13, PutGoes, <1>0 DEF Put, Goes, Ends, Kept, Request, InOrder, Erased
<1>14. CASE Comment(p)
    BY <1>14, CommentGoes, <1>0 DEF Comment, Goes, Ends, Kept, Request, InOrder, Erased
<1>15. CASE Activity(p)
    BY <1>15, ActivityGoes, <1>0 DEF Activity, Goes, Ends, Kept, Request, InOrder, Erased
<1>16. CASE Inbox(p)
    BY <1>16, InboxGoes, <1>0 DEF Inbox, Goes, Ends, Kept, Request, InOrder, Erased
<1>17. CASE Erase(p)
    BY <1>17, EraseGoes, <1>0 DEF Erase, Goes, Ends, Kept, Request, InOrder, Erased
<1>18. CASE Unrelate(p)
    BY <1>18, UnrelateGoes, <1>0 DEF Unrelate, Goes, Ends, Kept, Request, InOrder, Erased
<1>19. CASE ListReplies(p)
    BY <1>19, ListRepliesGoes, <1>0 DEF ListReplies, Replies, Goes, Ends, Kept, Request,
       InOrder, Erased
<1>20. CASE DeleteReply(p)
    <2>1. memos' \subseteq memos /\ pc[p] = "reply"
        BY <1>20 DEF DeleteReply
    <2>2. \/ Ends(p)
          \/ /\ pc'[p] \in {"unrefer", "reply"} /\ call'[p].op = call[p].op
             /\ call'[p].memo = call[p].memo
        BY <1>20, DeleteReplyGoes DEF Goes, Kept
    <2> QED BY <1>0, <2>1, <2>2 DEF Ends, Request, InOrder, Erased
<1>21. CASE Unrefer(p)
    BY <1>21, UnreferGoes, <1>0 DEF Unrefer, Goes, Ends, Kept, Request, InOrder, Erased
<1>22. CASE Upload(p)
    BY <1>22, UploadGoes, <1>0 DEF Upload, Goes, Ends, Kept, Request, InOrder, Erased
<1>23. CASE Fail(p)
    BY <1>23, FailGoes, <1>0 DEF Fail, Goes, Ends, Kept, Request, InOrder, Erased
<1> QED BY <1>1, <1>2, <1>3, <1>4, <1>5, <1>6, <1>7, <1>8, <1>9, <1>10, <1>11, <1>12,
   <1>13, <1>14, <1>15, <1>16, <1>17, <1>18, <1>19, <1>20, <1>21, <1>22, <1>23 DEF Step,
   Arrive, Statement

\* Who is alone finds the references and attachments as the last statement left them.
LEMMA HalfWayStep ==
    ASSUME TypeOK, Alone, KnownIds, \A q \in Proc : OwnStage(q) /\
       OwnInsert(q) /\ InOrder(q), \A q \in Proc : alone[q] => HalfWay(q) /\ (call[q].op =
       "delete" => Deleted(q)), NEW p \in Proc, Step(p)
    PROVE  alone'[p] => HalfWay(p)'
<1>0. /\ OwnStage(p) /\ InOrder(p)
      /\ call[p] \in Call /\ owner \in [File -> Memo \cup {None, Loose}]
      /\ alone[p] => HalfWay(p) /\ (call[p].op = "delete" => Deleted(p))
    BY DEF TypeOK
<1> USE NoneIsNoId DEF rows, notices
<1>1. CASE CreateMemo(p) \/ CreateMemoComment(p)
    BY <1>1, Created, <1>0 DEF Creates, Reserve, Starts, Others, HalfWay
<1>2. CASE UpdateMemo(p) \/ DeleteMemo(p)
    BY <1>2, Changed, <1>0 DEF Changes, Starts, Others, HalfWay
<1>3. CASE DeleteMemoTag(p)
    BY <1>3, TaggedDeleted, <1>0 DEF DeletesTagged, Starts, Others, HalfWay
<1>4. CASE CreateAttachment(p)
    BY <1>4, Uploaded, <1>0 DEF Uploads, Starts, Others, HalfWay
<1>5. CASE DeleteAttachment(p)
    <2>1. ~alone'[p]
        BY <1>5 DEF DeleteAttachment, Alone, Busy, TypeOK
    <2> QED BY <2>1
<1>6. CASE Insert(p)
    BY <1>6, InsertGoes, <1>0 DEF Insert, AfterInsert, AfterFiles, AfterLinks, Goes, Ends,
       Kept, HalfWay, LinksOf, Attached
<1>7. CASE Reread(p)
    BY <1>7, RereadGoes, <1>0 DEF Reread, Goes, Ends, Kept, HalfWay, LinksOf, Attached
<1>8. CASE Owned(p)
    <2>1. owner' = owner
        BY <1>8 DEF Owned
    <2>2. PICK mine \in SUBSET Attached(call[p].memo), whole \in BOOLEAN :
            /\ whole => mine = Attached(call[p].memo)
            /\ IF call[p].op = "delete" THEN Lists(p, "erase", mine, whole)
               ELSE Lists(p, "drop", mine \ call[p].files, whole)
        BY <1>8, OwnedGoes
    <2>3. /\ call'[p].memo = call[p].memo /\ call'[p].files = call[p].files
          /\ call'[p].op = call[p].op /\ call'[p].whole = whole
          /\ \/ pc'[p] = "erase"
             \/ pc'[p] = "drop" /\ call'[p].rest = mine \ call[p].files
        BY <2>2 DEF Lists, Told
    <2> QED BY <2>1, <2>2, <2>3 DEF HalfWay, Attached
<1>9. CASE Drop(p)
    <2>1. CASE call[p].rest = {}
        <3>1. /\ owner' = owner
              /\ Goes(p, IF call[p].op = "delete" THEN "replies" ELSE "link", call[p].files, call[p].on)
            BY <1>9, <2>1, DropGoes
        <3>2. pc[p] = "drop"
            BY <1>9 DEF Drop
        <3> QED BY <1>0, <2>1, <3>1, <3>2 DEF Goes, Kept, HalfWay, Attached, Call
    <2>2. CASE Ends(p)
        BY <2>2 DEF Ends
    <2>3. ASSUME NEW f \in call[p].rest, owner' = [owner EXCEPT ![f] = None],
                 Goes(p, "drop", call[p].rest \ {f}, call[p].on)
          PROVE  alone'[p] => HalfWay(p)'
        <3>1. /\ pc[p] = "drop" /\ (call[p].op # "delete" => call[p].memo # None)
              /\ Busy(p)
            BY <1>9, <1>0 DEF Drop, OwnStage, Busy
        <3> QED BY <1>0, <2>3, <3>1 DEF Goes, Kept, HalfWay, Attached, Call
    <2> QED BY <1>9, <2>1, <2>2, <2>3, DropGoes
<1>10. CASE Link(p)
    <2>1. CASE call[p].rest = {} /\ Goes(p, AfterFiles(call[p]), call[p].rest, call[p].on)
        BY <2>1 DEF Goes, Ends, HalfWay, AfterFiles, AfterLinks
    <2>2. CASE Ends(p)
        BY <2>2 DEF Ends
    <2>3. ASSUME NEW f \in call[p].rest, owner' = [owner EXCEPT ![f] = call[p].memo],
                 Goes(p, "link", call[p].rest \ {f}, call[p].on)
          PROVE  alone'[p] => HalfWay(p)'
        <3>1. pc[p] = "link"
            BY <1>10 DEF Link
        <3> QED BY <1>0, <2>3, <3>1 DEF Goes, Kept, HalfWay, Attached, Call
    <2> QED BY <1>10, <2>1, <2>2, <2>3, LinkGoes
<1>11. CASE Clear(p)
    BY <1>11, ClearGoes, <1>0 DEF Clear, Goes, Ends, Kept, HalfWay, LinksOf, Attached
<1>12. CASE Find(p)
    <2>1. CASE call[p].rest = {} /\ Goes(p, AfterLinks(call[p]), call[p].rest, call[p].on)
        BY <2>1 DEF Goes, Ends, HalfWay, AfterLinks
    <2>2. CASE Ends(p)
        BY <2>2 DEF Ends
    <2>3. ASSUME NEW m \in call[p].rest, Goes(p, "put", call[p].rest \ {m}, m)
          PROVE  alone'[p] => HalfWay(p)'
        <3>1. pc[p] = "find" /\ refs' = refs
            BY <1>12 DEF Find
        <3> QED BY <1>0, <2>3, <3>1 DEF Goes, Kept, HalfWay, LinksOf, Call
    <2> QED BY <1>12, <2>1, <2>2, <2>3, FindGoes
<1>13. CASE Put(p)
    <2>1. CASE Ends(p)
        BY <2>1 DEF Ends
    <2>2. CASE Goes(p, "find", call[p].rest, None)
        <3>1. pc[p] = "put" /\ refs' = refs \cup {<<call[p].memo, call[p].on>>}
            BY <1>13 DEF Put
        <3>2. alone[p] => call[p].on \in Memo /\ HalfWay(p)
            BY <1>0, <3>1 DEF HalfWay, Call
        <3>3. alone[p] => LinksOf(call[p].memo)' = LinksOf(call[p].memo) \cup {call[p].on}
            BY <3>1, <3>2, <2>2 DEF LinksOf, Goes, Kept
        <3>4. /\ pc'[p] = "find" /\ call'[p].rest = call[p].rest /\ call'[p].links = call[p].links
              /\ call'[p].memo = call[p].memo /\ alone' = alone
            BY <2>2 DEF Goes, Kept
        <3> QED BY <3>1, <3>2, <3>3, <3>4 DEF HalfWay
    <2> QED BY <1>13, <2>1, <2>2, PutGoes
<1>14. CASE Comment(p)
    BY <1>14, CommentGoes, <1>0 DEF Comment, Goes, Ends, Kept, HalfWay, LinksOf, Attached
<1>15. CASE Activity(p)
    BY <1>15, ActivityGoes, <1>0 DEF Activity, Goes, Ends, Kept, HalfWay, LinksOf,
       Attached
<1>16. CASE Inbox(p)
    BY <1>16, InboxGoes, <1>0 DEF Inbox, Goes, Ends, Kept, HalfWay, LinksOf, Attached
<1>17. CASE Erase(p)
    BY <1>17, EraseGoes, <1>0 DEF Erase, Goes, Ends, Kept, HalfWay, LinksOf, Attached
<1>18. CASE Unrelate(p)
    <2>1. call[p].op = "delete"
        BY <1>18, <1>0 DEF Unrelate, OwnStage
    <2> QED BY <1>18, <2>1, UnrelateGoes DEF Goes, Ends, Kept, HalfWay
<1>19. CASE ListReplies(p)
    BY <1>19, ListRepliesGoes, <1>0 DEF ListReplies, Replies, Goes, Ends, Kept, HalfWay,
       LinksOf, Attached
<1>20. CASE DeleteReply(p)
    BY <1>20, DeleteReplyGoes, <1>0 DEF DeleteReply, Goes, Ends, Kept, HalfWay, LinksOf,
       Attached
<1>21. CASE Unrefer(p)
    BY <1>21, UnreferGoes, <1>0 DEF Unrefer, Goes, Ends, Kept, HalfWay, LinksOf, Attached
<1>22. CASE Upload(p)
    BY <1>22, UploadGoes, <1>0 DEF Upload, Goes, Ends, Kept, HalfWay, LinksOf, Attached
<1>23. CASE Fail(p)
    BY <1>23, FailGoes, <1>0 DEF Fail, Goes, Ends, Kept, HalfWay, LinksOf, Attached
<1> QED BY <1>1, <1>2, <1>3, <1>4, <1>5, <1>6, <1>7, <1>8, <1>9, <1>10, <1>11, <1>12,
   <1>13, <1>14, <1>15, <1>16, <1>17, <1>18, <1>19, <1>20, <1>21, <1>22, <1>23 DEF Step,
   Arrive, Statement

\* Who deletes a memo alone finds what it has deleted still gone.
LEMMA DeletedStep ==
    ASSUME TypeOK, Alone, KnownIds, \A q \in Proc : OwnStage(q) /\
       OwnInsert(q) /\ InOrder(q), \A q \in Proc : alone[q] => HalfWay(q) /\ (call[q].op =
       "delete" => Deleted(q)), NEW p \in Proc, Step(p)
    PROVE  alone'[p] /\ call'[p].op = "delete" => Deleted(p)'
<1>0. /\ OwnStage(p) /\ InOrder(p)
      /\ call[p] \in Call /\ owner \in [File -> Memo \cup {None, Loose}]
      /\ alone[p] => HalfWay(p) /\ (call[p].op = "delete" => Deleted(p))
    BY DEF TypeOK
<1> USE NoneIsNoId DEF rows, notices
<1>1. CASE CreateMemo(p) \/ CreateMemoComment(p)
    BY <1>1, Created, <1>0 DEF Creates, Reserve, Starts, Others, Deleted
<1>2. CASE UpdateMemo(p) \/ DeleteMemo(p)
    BY <1>2, Changed, <1>0 DEF Changes, Starts, Others, Deleted
<1>3. CASE DeleteMemoTag(p)
    BY <1>3, TaggedDeleted, <1>0 DEF DeletesTagged, Starts, Others, Deleted
<1>4. CASE CreateAttachment(p)
    BY <1>4, Uploaded, <1>0 DEF Uploads, Starts, Others, Deleted
<1>5. CASE DeleteAttachment(p)
    <2>1. ~alone'[p]
        BY <1>5 DEF DeleteAttachment, Alone, Busy, TypeOK
    <2> QED BY <2>1
<1>6. CASE Insert(p)
    BY <1>6, InsertGoes, <1>0 DEF Insert, AfterInsert, AfterFiles, AfterLinks, Goes, Ends,
       Kept, Deleted, LinksOf, Attached, Replies, Request
<1>7. CASE Reread(p)
    BY <1>7, RereadGoes, <1>0 DEF Reread, Goes, Ends, Kept, Deleted, LinksOf, Attached,
       Replies, Request
<1>8. CASE Owned(p)
    <2>1. owner' = owner
        BY <1>8 DEF Owned
    <2>2. PICK mine \in SUBSET Attached(call[p].memo), whole \in BOOLEAN :
            /\ whole => mine = Attached(call[p].memo)
            /\ IF call[p].op = "delete" THEN Lists(p, "erase", mine, whole)
               ELSE Lists(p, "drop", mine \ call[p].files, whole)
        BY <1>8, OwnedGoes
    <2>3. /\ call'[p].memo = call[p].memo /\ call'[p].whole = whole
          /\ call'[p].op = "delete" => pc'[p] = "erase" /\ call'[p].rest = mine
        BY <2>2 DEF Lists, Told
    <2> QED BY <2>1, <2>2, <2>3 DEF Deleted, Attached
<1>9. CASE Drop(p)
    <2>1. CASE call[p].rest = {}
        <3>1. /\ owner' = owner
              /\ Goes(p, IF call[p].op = "delete" THEN "replies" ELSE "link", call[p].files, call[p].on)
            BY <1>9, <2>1, DropGoes
        <3>2. pc[p] = "drop" /\ refs' = refs
            BY <1>9 DEF Drop
        <3> QED BY <1>0, <2>1, <3>1, <3>2 DEF Goes, Kept, Deleted, Attached, LinksOf
    <2>2. CASE Ends(p)
        BY <2>2 DEF Ends
    <2>3. ASSUME NEW f \in call[p].rest, owner' = [owner EXCEPT ![f] = None],
                 Goes(p, "drop", call[p].rest \ {f}, call[p].on)
          PROVE  alone'[p] /\ call'[p].op = "delete" => Deleted(p)'
        <3>1. /\ pc[p] = "drop" /\ call[p].memo # None /\ refs' = refs
            BY <1>9, <1>0 DEF Drop, OwnStage, Busy
        <3> QED BY <1>0, <2>3, <3>1 DEF Goes, Kept, Deleted, Attached, LinksOf
    <2> QED BY <1>9, <2>1, <2>2, <2>3, DropGoes
<1>10. CASE Link(p)
    BY <1>10, LinkGoes, <1>0 DEF Link, AfterFiles, AfterLinks, Goes, Ends, Kept, Deleted,
       LinksOf, Attached, Replies, Request
<1>11. CASE Clear(p)
    BY <1>11, ClearGoes, <1>0 DEF Clear, Goes, Ends, Kept, Deleted, LinksOf, Attached,
       Replies, Request
<1>12. CASE Find(p)
    BY <1>12, FindGoes, <1>0 DEF Find, AfterLinks, Goes, Ends, Kept, Deleted, LinksOf,
       Attached, Replies, Request
<1>13. CASE Put(p)
    BY <1>13, PutGoes, <1>0 DEF Put, Goes, Ends, Kept, Deleted, LinksOf, Attached,
       Replies, Request
<1>14. CASE Comment(p)
    BY <1>14, CommentGoes, <1>0 DEF Comment, Goes, Ends, Kept, Deleted, LinksOf, Attached,
       Replies, Request
<1>15. CASE Activity(p)
    BY <1>15, ActivityGoes, <1>0 DEF Activity, Goes, Ends, Kept, Deleted, LinksOf,
       Attached, Replies, Request
<1>16. CASE Inbox(p)
    BY <1>16, InboxGoes, <1>0 DEF Inbox, Goes, Ends, Kept, Deleted, LinksOf, Attached,
       Replies, Request
<1>17. CASE Erase(p)
    BY <1>17, EraseGoes, <1>0 DEF Erase, Goes, Ends, Kept, Deleted, LinksOf, Attached,
       Replies, Request
<1>18. CASE Unrelate(p)
    BY <1>18, UnrelateGoes, <1>0 DEF Unrelate, Goes, Ends, Kept, Deleted, LinksOf,
       Attached, Replies, Request
<1>19. CASE ListReplies(p)
    BY <1>19, ListRepliesGoes, <1>0 DEF ListReplies, Replies, Goes, Ends, Kept, Deleted,
       LinksOf, Attached, Replies, Request
<1>20. CASE DeleteReply(p)
    BY <1>20, DeleteReplyGoes, <1>0 DEF DeleteReply, Goes, Ends, Kept, Deleted, LinksOf,
       Attached, Replies, Request
<1>21. CASE Unrefer(p)
    BY <1>21, UnreferGoes, <1>0 DEF Unrefer, Goes, Ends, Kept, Deleted, LinksOf, Attached,
       Replies, Request
<1>22. CASE Upload(p)
    BY <1>22, UploadGoes, <1>0 DEF Upload, Goes, Ends, Kept, Deleted, LinksOf, Attached,
       Replies, Request
<1>23. CASE Fail(p)
    BY <1>23, FailGoes, <1>0 DEF Fail, Goes, Ends, Kept, Deleted, LinksOf, Attached,
       Replies, Request
<1> QED BY <1>1, <1>2, <1>3, <1>4, <1>5, <1>6, <1>7, <1>8, <1>9, <1>10, <1>11, <1>12,
   <1>13, <1>14, <1>15, <1>16, <1>17, <1>18, <1>19, <1>20, <1>21, <1>22, <1>23 DEF Step,
   Arrive, Statement

\* A new memo has no comment on it, so a tie of it closes no circle.
LEMMA RootedStep ==
    ASSUME TypeOK, Alone, KnownIds, Rooted,
           \A q \in Proc : OwnStage(q) /\ OwnInsert(q) /\ InOrder(q), NEW p \in Proc, Step(p)
    PROVE  Rooted'
<1>1. \A q \in Proc \ {p} : call'[q] = call[q]
    BY OthersStay DEF Others
<1>2. \A t \in Ties' : t \in Ties \/ t = <<call'[p].memo, call'[p].parent>>
    BY <1>1, TieOfStep DEF Ties
<1>3. CASE Ties' \subseteq Ties
    BY <1>3 DEF Rooted
<1>4. CASE ~(Ties' \subseteq Ties)
    <2> DEFINE m == call'[p].memo
               q == call'[p].parent
    <2>1. m \in Memo \ used /\ q \in used
        <3>1. PICK t \in Ties' : t \notin Ties
            BY <1>4
        <3>2. call'[p].op = "comment" /\ q # None /\ t = <<m, q>>
            BY <1>1, <3>1, TieOfStep DEF Ties
        <3>3. call[p].op = "comment" /\ call[p].memo = m /\ call[p].parent = q => t \in Ties
            BY <3>2 DEF Ties
        <3> QED BY <3>1, <3>2, <3>3, TieOfStep
    <2>2. \A t \in Ties : t[2] # m
        BY <2>1, NoneIsNoId DEF Ties, KnownIds, TypeOK
    <2> HIDE DEF m, q
    <2>3. ASSUME NEW top \in SUBSET Memo, top # {}
          PROVE  \E a \in top : \A b \in top : <<a, b>> \notin Ties'
        <3>1. CASE top \ {m} = {}
            <4>1. <<m, m>> \notin Ties'
                BY <1>2, <2>1, <2>2 DEF m, q
            <4> QED BY <2>3, <3>1, <4>1
        <3>2. CASE top \ {m} # {}
            <4>1. PICK a \in top \ {m} : \A b \in top \ {m} : <<a, b>> \notin Ties
                BY <3>2 DEF Rooted
            <4>2. \A b \in top : <<a, b>> \notin Ties
                BY <2>2, <4>1
            <4>3. \A b \in top : <<a, b>> # <<m, q>>
                BY <4>1
            <4> QED BY <1>2, <4>1, <4>2, <4>3 DEF m, q
        <3> QED BY <3>1, <3>2
    <2> QED BY <2>3 DEF Rooted
<1> QED BY <1>3, <1>4


\* Nothing a request does makes what another has said or will say untrue.
LEMMA NoticesStep ==
    ASSUME TypeOK, Alone, KnownIds, NoticesLead,
           \A q \in Proc : OwnStage(q) /\ OwnInsert(q) /\ InOrder(q), NEW p \in Proc, Step(p)
    PROVE  NoticesLead' /\ \A q \in Proc : InOrder(q)'
<1>1. \A q \in Proc \ {p} : call'[q] = call[q] /\ pc'[q] = pc[q]
    BY OthersStay DEF Others
<1>2. /\ \/ memos' \subseteq memos
         \/ pc[p] = "insert" /\ memos' = memos \cup {call[p].memo}
      /\ \A t \in comments : t[1] \in memos' => t \in comments'
      /\ \/ activities' = activities
         \/ pc[p] = "activity" /\ activities' = activities \cup {<<call[p].memo, call[p].parent>>}
      /\ inbox' = inbox \/ (pc[p] = "inbox" /\ inbox' = inbox \cup {call[p].memo})
    BY RowsStep
<1>3. ASSUME NEW q \in Proc \ {p}
      PROVE  InOrder(q)'
    <2>1. InOrder(q) /\ (pc[p] = "insert" => call[p].memo # call[q].memo)
        BY DEF OwnInsert
    <2> QED BY <1>1, <1>2, <2>1 DEF InOrder, Erased
<1>4. InOrder(p)'
    BY InOrderOwn
<1>5. NoticesLead'
    <2>1. InOrder(p) /\ OwnInsert(p)
        OBVIOUS
    <2> QED BY <1>2, <2>1 DEF NoticesLead, InOrder, OwnInsert
<1> QED BY <1>3, <1>4, <1>5

LEMMA InductiveStep ==
    ASSUME Inductive, [Next]_vars
    PROVE  Inductive'
<1>1. ASSUME NEW p \in Proc, Step(p)
      PROVE  Inductive'
    <2>1. /\ TypeOK /\ KnownIds /\ Rooted /\ NoticesLead /\ Alone
          /\ \A q \in Proc : OwnStage(q) /\ OwnInsert(q) /\ InOrder(q)
          /\ \A q \in Proc : alone[q] => HalfWay(q) /\ (call[q].op = "delete" => Deleted(q))
        BY DEF Inductive
    <2>2. TypeOK' /\ KnownIds' /\ Rooted' /\ NoticesLead' /\ Alone'
        BY <1>1, <2>1, TypeStep, KnownStep, RootedStep, NoticesStep, AloneStep
    <2>3. \A q \in Proc : OwnStage(q)' /\ OwnInsert(q)' /\ InOrder(q)'
        BY <1>1, <2>1, StageStep, OwnInsertStep, NoticesStep
    <2>4. /\ alone'[p] => HalfWay(p)' /\ (call'[p].op = "delete" => Deleted(p)')
          /\ \A q \in Proc \ {p} : ~alone'[q]
        BY <1>1, <2>1, HalfWayStep, DeletedStep, OthersStay
    <2> QED BY <2>2, <2>3, <2>4 DEF Inductive
<1>2. CASE UNCHANGED vars
    BY <1>2 DEF vars, notices, Inductive, TypeOK, OwnStage, OwnInsert, InOrder, KnownIds,
       Rooted, Ties, NoticesLead, Alone, Busy, HalfWay, Deleted, LinksOf, Attached, Replies
<1> QED BY <1>1, <1>2 DEF Next, Step

---------------------------------------------------------------------------

\* Whatever requests run into each other, fail or are cut off, what is known of
\* memos, comments, references, files and requests holds.
THEOREM AlwaysInductive == Spec => []Inductive
<1>1. Init => Inductive
    <2> SUFFICES ASSUME Init
                 PROVE  Inductive
        OBVIOUS
    <2>1. Request("create") \in Call /\ Request("create").op = "create"
          /\ Request("create").memo = None /\ Request("create").parent = None
        BY RequestIsCall DEF Request
    <2>2. TypeOK
        BY <2>1 DEF Init, TypeOK, PC
    <2>3. \A p \in Proc : OwnStage(p) /\ OwnInsert(p) /\ InOrder(p)
        BY <2>1 DEF Init, OwnStage, OwnInsert, InOrder, Busy, Erased, Relating
    <2>4. KnownIds /\ NoticesLead /\ Alone
        BY <2>1 DEF Init, KnownIds, NoticesLead, Alone
    <2>5. Rooted
        BY <2>1 DEF Init, Rooted, Ties
    <2> QED BY <2>2, <2>3, <2>4, <2>5 DEF Init, Inductive
<1>2. Inductive /\ [Next]_vars => Inductive'
    BY InductiveStep
<1> QED BY <1>1, <1>2, PTL DEF Spec

\* Type correctness.
THEOREM TypeCorrect == Spec => []TypeOK
<1>1. Inductive => TypeOK
    BY DEF Inductive
<1> QED BY <1>1, AlwaysInductive, PTL

\* No chain of comments runs in a circle: a memo is commented on only once its name
\* is known, and a comment names its parent when it is created (CreateMemoComment).
THEOREM CommentsRunInNoCircle == Spec => []NoCircle
<1>1. Inductive => NoCircle
    <2> SUFFICES ASSUME Inductive, NEW top \in SUBSET memos, top # {}
                 PROVE  \E m \in top : Parents[m] \cap top = {}
        BY DEF NoCircle
    <2>1. top \subseteq Memo
        BY DEF Inductive, TypeOK
    <2>2. PICK m \in top : \A q \in top : <<m, q>> \notin Ties
        BY <2>1 DEF Inductive, Rooted
    <2>3. \A q \in top : <<m, q>> \notin comments
        BY <2>2 DEF Ties
    <2> QED BY <2>1, <2>3 DEF Parents
<1> QED BY <1>1, AlwaysInductive, PTL

\* Whoever is told of a comment finds the activity, and while the comment exists its
\* COMMENT relation, wherever CreateMemoComment and deletes were cut off.
THEOREM NoticesAlwaysLead == Spec => []NoticesLead
<1>1. Inductive => NoticesLead
    BY DEF Inductive
<1> QED BY <1>1, AlwaysInductive, PTL

\* DeleteMemo, when nothing overlaps it, leaves no reference from or to the memo, no
\* comment on it and, if its listing had room for all, no attachment, whatever earlier
\* requests have left behind.
THEOREM DeleteIsComplete == Spec => DeleteLeavesNoTrace
<1> DEFINE Gone ==
        \A p \in Proc, m \in Memo :
          Unrefer(p) /\ call[p].memo = m /\ alone[p] =>
            /\ m \notin memos'
            /\ \A r \in refs' : m \notin {r[1], r[2]}
            /\ call[p].whole => Attached(m)' = {}
            /\ Replies(m)' \cap memos' = {}
<1>1. ASSUME Inductive, NEW p \in Proc, NEW m \in Memo,
             Unrefer(p), call[p].memo = m, alone[p]
      PROVE  /\ m \notin memos'
             /\ \A r \in refs' : m \notin {r[1], r[2]}
             /\ call[p].whole => Attached(m)' = {}
             /\ Replies(m)' \cap memos' = {}
    <2>1. pc[p] = "unrefer" /\ call[p].op = "delete"
        BY <1>1 DEF Inductive, OwnStage, Unrefer
    <2>2. Deleted(p) /\ m \notin memos
        BY <1>1, <2>1 DEF Inductive, InOrder, Erased
    <2>3. LinksOf(m) = {} /\ (call[p].whole => Attached(m) = {}) /\ Replies(m) \cap memos = {}
        BY <1>1, <2>1, <2>2 DEF Deleted
    <2>4. \A r \in refs : r[1] # m
        BY <1>1, <2>3 DEF LinksOf, Inductive, TypeOK
    <2> QED BY <1>1, <2>2, <2>3, <2>4 DEF Unrefer, Attached, Replies
<1>2. Inductive /\ [Next]_vars => [Gone]_vars
    BY <1>1
<1> QED BY <1>2, AlwaysInductive, PTL DEF Spec, DeleteLeavesNoTrace

\* UpdateMemo, when nothing overlaps it, leaves exactly the references it was asked
\* for, and the attachments: no others, if its listing had room for all.
THEOREM UpdateIsComplete == Spec => UpdateTakesEffect
<1> DEFINE Done ==
        \A p \in Proc, m \in Memo : Finishes(p, m) =>
          /\ Find(p) => {q \in Memo : <<m, q>> \in refs'} = call[p].links \ {m}
          /\ Link(p) =>
                /\ call[p].files \subseteq Attached(m)'
                /\ call[p].whole => Attached(m)' = call[p].files
<1>1. ASSUME Inductive, NEW p \in Proc, NEW m \in Memo, Finishes(p, m)
      PROVE  /\ Find(p) => {q \in Memo : <<m, q>> \in refs'} = call[p].links \ {m}
             /\ Link(p) =>
                   /\ call[p].files \subseteq Attached(m)'
                   /\ call[p].whole => Attached(m)' = call[p].files
    <2>1. HalfWay(p) /\ call[p].memo = m /\ call[p].rest = {}
        BY <1>1 DEF Inductive, Finishes
    <2>2. ASSUME Find(p)
          PROVE  {q \in Memo : <<m, q>> \in refs'} = call[p].links \ {m}
        <3>1. pc[p] = "find" /\ refs' = refs
            BY <2>2 DEF Find, rows
        <3> QED BY <2>1, <3>1 DEF HalfWay, LinksOf
    <2>3. ASSUME Link(p)
          PROVE  /\ call[p].files \subseteq Attached(m)'
                 /\ call[p].whole => Attached(m)' = call[p].files
        <3>1. pc[p] = "link" /\ owner' = owner
            BY <2>1, <2>3 DEF Link
        <3> QED BY <2>1, <3>1 DEF HalfWay, Attached
    <2> QED BY <2>2, <2>3
<1>2. Inductive /\ [Next]_vars => [Done]_vars
    BY <1>1
<1> QED BY <1>2, AlwaysInductive, PTL DEF Spec, UpdateTakesEffect

\* SetMemoAttachments and DeleteMemo, when nothing overlaps them, delete attachments
\* of their memo alone.
THEOREM OwnFilesDropped == Spec => OnlyOwnFilesDropped
<1> DEFINE Own ==
        \A p \in Proc : Drop(p) =>
          \A f \in File : owner'[f] # owner[f] /\ alone[p] => owner[f] = call[p].memo
<1>1. ASSUME Inductive, NEW p \in Proc, Drop(p), NEW f \in File, owner'[f] # owner[f], alone[p]
      PROVE  owner[f] = call[p].memo
    <2>1. pc[p] = "drop" /\ f \in call[p].rest
        BY <1>1 DEF Drop, Inductive, TypeOK
    <2>2. HalfWay(p) /\ (call[p].op = "delete" => Deleted(p))
        BY <1>1 DEF Inductive
    <2>3. f \in Attached(call[p].memo)
        BY <2>1, <2>2 DEF HalfWay, Deleted
    <2> QED BY <2>3 DEF Attached
<1>2. Inductive /\ [Next]_vars => [Own]_vars
    BY <1>1
<1> QED BY <1>2, AlwaysInductive, PTL DEF Spec, OnlyOwnFilesDropped
=============================================================================

---------------------------- MODULE MemoPayload ----------------------------
(***************************************************************************)
(* The content of memos and the payload derived from it                    *)
(* (server/router/api/v1/memo_service.go, server/runner/memopayload).      *)
(* The payload column holds the tags found in the content and, beside      *)
(* them, the location the user set.  UpdateMemo, RenameMemoTag and         *)
(* DeleteMemoTag read rows in one statement, derive whole columns from     *)
(* them and write those in later statements, with no transaction around.   *)
(*                                                                         *)
(* A content is the set of tags in it.  The other properties of the        *)
(* payload (links, tasks, code) follow the content as the tags do.         *)
(***************************************************************************)
CONSTANTS
    Proc,   \* goroutines serving requests
    Memo,   \* memo ids
    Tag,    \* tags
    Place,  \* locations
    Fold,   \* a tag in lower case: LIKE compares ASCII letters so
    None    \* no row, no location, no new value

ASSUME NoneIsNoPlace == None \notin Place
ASSUME FoldAssumption == DOMAIN Fold = Tag

VARIABLES
    memo,   \* the rows of memo
    used,   \* memo ids handed out
    comments, \* COMMENT rows of memo_relation, <<comment, memo>>
    req,    \* the request of each goroutine, None without one
    alone   \* history: no other request overlapped this one

vars == <<memo, used, comments, req, alone>>

Payload == [tags : SUBSET Tag, location : Place \cup {None}]
Row == [content : SUBSET Tag, payload : Payload, archived : BOOLEAN]

\* What UpdateMemo of the store is given: a new value, or None, per column.
Columns == [content : (SUBSET Tag) \cup {None}, payload : Payload \cup {None},
            archived : BOOLEAN \cup {None}]

\* todo is what is still to write, per memo; tag and parent what a tag request
\* is about, and found the memos it has listed.  parent is what a comment is on.
Request == [op : {"update", "rename", "delete", "archive", "comment"},
            todo : [Memo -> Columns \cup {None}],
            tag : Tag \cup {None}, parent : SUBSET Memo, found : SUBSET Memo]

TagOps == {"rename", "delete", "archive"}

ASSUME NoneIsNoValue ==
    /\ (\A content \in SUBSET Tag : content # None) /\ None \notin Payload /\ None \notin Row
    /\ None \notin Columns /\ None \notin Request /\ None # TRUE

NoChange == [content |-> None, payload |-> None, archived |-> None]
Rows == {m \in Memo : memo[m] # None}
Busy(p) == req[p] # None
Rest(r) == {m \in Memo : r.todo[m] # None}

\* RebuildMemoPayload: the tags are found anew, the location stays.
Rebuilt(payload, content) == [payload EXCEPT !.tags = content]

\* A memo is taken for a comment while its COMMENT relation joins a parent row:
\* not before CreateMemoComment has written it, nor after the parent is gone.
IsComment(m) == \E q \in Rows : <<m, q>> \in comments

\* Mutant of Listed: comments too.
ListedWithComments(t) == {m \in Rows : \E s \in memo[m].payload.tags : Fold[s] = Fold[t]}

\* ListMemos with the filter "tag in [t]" and ExcludeComments: a LIKE over the
\* tags of the payload.
Listed(t) ==
    {m \in Rows : ~IsComment(m) /\ \E s \in memo[m].payload.tags : Fold[s] = Fold[t]}

Init ==
    /\ memo = [m \in Memo |-> None]
    /\ used = {}
    /\ comments = {}
    /\ req = [p \in Proc |-> None]
    /\ alone = [p \in Proc |-> FALSE]

Start(p, r) ==
    /\ ~Busy(p)
    /\ req' = [req EXCEPT ![p] = r]
    /\ alone' = [q \in Proc |-> IF q = p THEN \A o \in Proc \ {p} : ~Busy(o)
                                ELSE alone[q] /\ ~Busy(q)]

Begin(p, r) == Start(p, r) /\ UNCHANGED <<memo, used, comments>>

\* A request of one statement.
AtOnce(p) ==
    /\ ~Busy(p)
    /\ alone' = [q \in Proc |-> alone[q] /\ ~Busy(q)]
    /\ UNCHANGED req

End(p) ==
    /\ req' = [req EXCEPT ![p] = None]
    /\ alone' = [alone EXCEPT ![p] = FALSE]

---------------------------------------------------------------------------
(* Requests, up to what they read.                                         *)

Insert(m) ==
    /\ m \notin used
    /\ used' = used \cup {m}
    /\ \E content \in SUBSET Tag, place \in Place \cup {None} :
        memo' = [memo EXCEPT ![m] =
            [content |-> content,
             payload |-> Rebuilt([tags |-> {}, location |-> place], content),
             archived |-> FALSE]]
    /\ UNCHANGED comments

CreateMemo(p) == AtOnce(p) /\ \E m \in Memo : Insert(m)

\* The memo is inserted first and its relation to the memo it comments on, which
\* may be gone by then, is written later.
CreateMemoComment(p) ==
    \E m \in Memo, parent \in used :
        /\ Insert(m)
        /\ Start(p, [op |-> "comment", tag |-> None, parent |-> {parent}, found |-> {},
                     todo |-> [n \in Memo |-> IF n = m THEN NoChange ELSE None]])

\* Relations of rows that are gone, which the request deletes too, join nothing.
\* The comments on the memo, which it deletes next, go in steps of their own.
DeleteMemo(p) ==
    /\ AtOnce(p)
    /\ \E m \in Rows : memo' = [memo EXCEPT ![m] = None]
    /\ UNCHANGED <<used, comments>>

\* UpdateMemo with content, location or both in its mask: the payload it read
\* is rebuilt or given the location.  The other columns come from the request.
Edited(row, mask, content, place) ==
    LET placed == IF "location" \in mask THEN [row.payload EXCEPT !.location = place]
                                         ELSE row.payload
    IN
    IF "content" \in mask
    THEN [NoChange EXCEPT !.content = content, !.payload = Rebuilt(placed, content)]
    ELSE [NoChange EXCEPT !.payload = placed]

UpdateMemo(p) ==
    \E m \in Rows :
        LET update(columns) ==
                Begin(p, [op |-> "update", tag |-> None, parent |-> {m}, found |-> {m},
                          todo |-> [n \in Memo |-> IF n = m THEN columns ELSE None]])
        IN
        \/ \E content \in SUBSET Tag : update(Edited(memo[m], {"content"}, content, None))
        \/ \E place \in Place \cup {None} :
              \/ update(Edited(memo[m], {"location"}, {}, place))
              \/ \E content \in SUBSET Tag :
                    update(Edited(memo[m], {"content", "location"}, content, place))
        \/ \E archived \in BOOLEAN : update([NoChange EXCEPT !.archived = archived])

\* Mutant of Renamed: the payload is rebuilt before the content is replaced.
RenamedTooLate(row, old, new) ==
    [NoChange EXCEPT !.content = {IF t = old THEN new ELSE t : t \in row.content},
                     !.payload = Rebuilt(row.payload, row.content)]

\* One tag is replaced by the other in a content read from a row.
Renamed(row, old, new) ==
    LET content == {IF t = old THEN new ELSE t : t \in row.content} IN
    [NoChange EXCEPT !.content = content, !.payload = Rebuilt(row.payload, content)]

\* All memos of the user that have the tag, or the one named.
Parents == {Memo} \cup {{m} : m \in Memo}

\* A tag request that finds no memo is done.
Tagged(p, found, r) ==
    IF found = {} THEN AtOnce(p) /\ UNCHANGED <<memo, used, comments>> ELSE Begin(p, r)

RenameMemoTag(p) ==
    \E old, new \in Tag, parent \in Parents :
        LET found == Listed(old) \cap parent IN
        /\ old # new
        /\ Tagged(p, found, [op |-> "rename", tag |-> old, parent |-> parent, found |-> found,
                     todo |-> [m \in Memo |-> IF m \in found THEN Renamed(memo[m], old, new)
                                              ELSE None]])

DeleteMemoTag(p) ==
    \E tag \in Tag, parent \in Parents, op \in {"delete", "archive"} :
        LET found == Listed(tag) \cap parent IN
        Tagged(p, found, [op |-> op, tag |-> tag, parent |-> parent, found |-> found,
                     todo |-> [m \in Memo |-> IF m \in found
                                              THEN [NoChange EXCEPT !.archived = TRUE]
                                              ELSE None]])

---------------------------------------------------------------------------
(* Statements.                                                             *)

Patched(row, columns) ==
    [row EXCEPT
        !.content  = IF columns.content = None THEN @ ELSE columns.content,
        !.payload  = IF columns.payload = None THEN @ ELSE columns.payload,
        !.archived = IF columns.archived = None THEN @ ELSE columns.archived]

\* Mutant of Wrote: the request does not return after its last statement.
WroteOn(p, m) ==
    /\ req' = [req EXCEPT ![p].todo[m] = None]
    /\ UNCHANGED <<used, comments, alone>>

Wrote(p, m) ==
    /\ IF Rest(req[p]) = {m} THEN End(p)
       ELSE req' = [req EXCEPT ![p].todo[m] = None] /\ UNCHANGED alone
    /\ UNCHANGED <<used, comments>>

\* Mutant of Write: the row is replaced, or inserted when it is gone.
WriteUpsert(p, m) ==
    /\ Busy(p) /\ req[p].op # "comment"
    /\ m \in Rest(req[p])
    /\ memo' = [memo EXCEPT ![m] =
           IF req[p].op = "delete" THEN None
           ELSE Patched(IF @ # None THEN @ ELSE
                          [content |-> {}, payload |-> [tags |-> {}, location |-> None],
                           archived |-> FALSE], req[p].todo[m])]
    /\ Wrote(p, m)

\* One UPDATE, or DELETE, for each memo; of a row that is gone it changes
\* nothing and says nothing.
Write(p, m) ==
    /\ Busy(p) /\ req[p].op # "comment"
    /\ m \in Rest(req[p])
    /\ memo' = [memo EXCEPT ![m] =
           IF req[p].op = "delete" \/ @ = None THEN None ELSE Patched(@, req[p].todo[m])]
    /\ Wrote(p, m)

\* The COMMENT relation of a new comment.
Relate(p) ==
    /\ Busy(p) /\ req[p].op = "comment"
    /\ comments' = comments \cup (Rest(req[p]) \X req[p].parent)
    /\ End(p)
    /\ UNCHANGED <<memo, used>>

\* A statement fails, or the server stops, with the rest not written.
Fail(p) ==
    /\ Busy(p)
    /\ End(p)
    /\ UNCHANGED <<memo, used, comments>>

Next ==
    \E p \in Proc :
        \/ CreateMemo(p)
        \/ CreateMemoComment(p)
        \/ Relate(p)
        \/ DeleteMemo(p)
        \/ UpdateMemo(p)
        \/ RenameMemoTag(p)
        \/ DeleteMemoTag(p)
        \/ \E m \in Memo : Write(p, m)
        \/ Fail(p)

Spec == Init /\ [][Next]_vars

---------------------------------------------------------------------------
(* Properties.                                                             *)

\* Type invariant.
TypeOK ==
    /\ memo \in [Memo -> Row \cup {None}]
    /\ used \subseteq Memo /\ Rows \subseteq used
    /\ comments \subseteq Memo \X Memo
    /\ req \in [Proc -> Request \cup {None}]
    /\ \A p \in Proc : Busy(p) => Rest(req[p]) # {}
    /\ alone \in [Proc -> BOOLEAN]

\* The tags of a memo are "extracted from the content", as the comment on them
\* in proto/api/v1/memo_service.proto says.
PayloadMatchesContent == \A m \in Rows : memo[m].payload.tags = memo[m].content

Parts(m) ==
    /\ memo[m] # None /\ memo[m].payload.tags = memo[m].content
    /\ memo'[m] # None /\ memo'[m].payload.tags # memo'[m].content

\* The one way tags and content of a memo part: an update of the location
\* alone writes back the tags it read before another request changed the
\* content.
PartedByLocationOnly ==
    [][\A m \in Memo : Parts(m) =>
          \E p \in Proc :
            /\ Write(p, m) /\ ~alone[p]
            /\ req[p].todo[m].payload # None /\ req[p].todo[m].content = None]_vars

\* A request in flight that writes a content writes the tags found in it.
Whole ==
    \A p \in Proc, m \in Memo :
        Busy(p) /\ req[p].todo[m] # None /\ req[p].todo[m].content # None =>
            /\ req[p].todo[m].payload # None
            /\ req[p].todo[m].payload.tags = req[p].todo[m].content

\* A request that nothing overlapped is alone, and the tags it is to write
\* without a content are those the memo has.
Fresh ==
    \A p \in Proc : alone[p] =>
        /\ Busy(p)
        /\ \A q \in Proc \ {p} : ~Busy(q)
        /\ \A m \in Memo :
            LET c == req[p].todo[m] IN
            c # None /\ c.content = None /\ c.payload # None /\ memo[m] # None =>
                c.payload.tags = memo[m].payload.tags

\* A tag request is to write to memos it has listed, to no comment if nothing
\* overlapped it, and not the tag it is about.
TagWrites ==
    \A p \in Proc, m \in Memo :
        LET r == req[p] c == r.todo[m] IN
        Busy(p) /\ r.op \in TagOps /\ c # None =>
            /\ m \in used \cap r.found
            /\ alone[p] /\ memo[m] # None => ~IsComment(m)
            /\ r.op = "rename" => c.payload # None /\ r.tag \notin c.payload.tags
            /\ r.op = "archive" => c.payload = None /\ c.archived = TRUE

\* A comment, or one on a memo this DeleteMemoTag has listed and may have deleted.
WasComment(r, m) ==
    \/ IsComment(m)
    \/ r.op = "delete" /\ \E q \in r.found : <<m, q>> \in comments

\* A memo that still has the tag of a request nothing overlapped was a comment
\* when the request listed memos, or is one the request has still to write or
\* has archived.
TagLeft ==
    \A p \in Proc, m \in Memo :
        LET r == req[p] IN
        alone[p] /\ r.op \in TagOps /\ m \in r.parent =>
            \/ memo[m] = None
            \/ r.tag \notin memo[m].payload.tags
            \/ WasComment(r, m)
            \/ r.todo[m] # None
            \/ r.op = "archive" /\ memo[m].archived = TRUE

\* What makes PartedByLocationOnly inductive, and with it TagRequestsReach.
Payloads == TypeOK /\ Whole /\ Fresh
Inductive == Payloads /\ TagWrites /\ TagLeft

\* A memo that was deleted stays deleted, however late a request that has read
\* it writes.
DeletedStaysDeleted == [][\A m \in used : memo[m] = None => memo'[m] = None]_vars

\* A RenameMemoTag or DeleteMemoTag that no other request overlapped writes to no
\* memo that is a comment while it writes; and once it has written its last, those
\* of the memos it was about that still have the tag are comments, comments on a
\* memo it has deleted, or archived by it, whatever payloads and unwritten
\* relations earlier races and failures left.
TagRequestsReach ==
    [][\A p \in Proc, m \in Memo :
          Write(p, m) /\ req[p].op \in TagOps /\ alone[p] =>
            /\ memo[m] # None => ~IsComment(m)
            /\ Rest(req[p]) = {m} =>
                 \A n \in req[p].parent :
                    memo'[n] # None /\ req[p].tag \in memo'[n].payload.tags =>
                      \/ IsComment(n)'
                      \/ req[p].op = "delete" /\ \E q \in req[p].found : <<n, q>> \in comments
                      \/ req[p].op = "archive" /\ memo'[n].archived = TRUE]_vars
=============================================================================

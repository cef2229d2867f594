------------------------------ MODULE MemoTree ------------------------------
(***************************************************************************)
(* Memos, the comments and references between them and the files attached  *)
(* to them (server/router/api/v1/memo_service.go, memo_relation_service.go,*)
(* memo_attachment_service.go, attachment_service.go).  A request runs a   *)
(* list of SQL statements one after another, with no transaction around    *)
(* them: other requests run between any two, and an error ends the request *)
(* where it is.                                                            *)
(*                                                                         *)
(* Reading one attachment and deleting or updating it is one step here;    *)
(* the files behind the attachments are not modelled.                      *)
(***************************************************************************)
EXTENDS FiniteSets, Naturals

CONSTANTS
    Proc,   \* goroutines serving requests
    Memo,   \* memo ids
    File,   \* attachment ids
    None,   \* no row, no memo, no parent
    Loose,  \* the memo_id of an attachment without a memo
    DriverFails, \* whether the database may answer with an error
    Listed, \* how many attachments a listing without a limit gives at most
    MaxIds  \* bound: ids handed out

ASSUME BoundsAreNats == Listed \in Nat /\ MaxIds \in Nat
ASSUME NoneIsNoId == None \notin Memo \cup File /\ Loose \notin Memo \cup {None}

VARIABLES
    memos,      \* the rows of memo
    used,       \* memo and attachment ids handed out: AUTOINCREMENT reuses none
    refs,       \* REFERENCE rows of memo_relation, <<memo, related memo>>
    comments,   \* COMMENT rows of memo_relation, <<comment, memo>>
    owner,      \* memo_id of every attachment row, None without a row
    activities, \* MEMO_COMMENT rows of activity, <<comment, memo>>
    inbox,      \* comments the receiver has an inbox message about
    pc,         \* the statement each request runs next
    call,       \* the request
    alone       \* history: no other request overlapped this one

vars == <<memos, used, refs, comments, owner, activities, inbox, pc, call, alone>>

notices == <<activities, inbox>>
rows == <<memos, used, refs, comments, owner, notices>>

PC == {"idle", "insert", "files", "owned", "drop", "link", "links", "clear",
       "find", "put", "join", "comment", "activity", "inbox", "erase",
       "unrelate", "replies", "reply", "unrefer", "upload"}

\* memo is the memo the request is about, parent what it comments on, links
\* and files what it refers to and attaches, rest what is left of the loop
\* it is in, and on the related memo it has looked up.  whole is history: the
\* listing of attachments the request works from had all there were.
Call == [op : {"create", "comment", "relate", "attach", "delete", "tag", "upload"},
         memo : Memo \cup {None}, parent : Memo \cup {None},
         links : SUBSET Memo, files : SUBSET File,
         rest : SUBSET (Memo \cup File), on : Memo \cup {None},
         notify : BOOLEAN, whole : BOOLEAN]

Request(op) ==
    [op |-> op, memo |-> None, parent |-> None, links |-> {}, files |-> {},
     rest |-> {}, on |-> None, notify |-> FALSE, whole |-> TRUE]

Busy(p) == pc[p] # "idle"
Files == File \cap used
Attached(m) == {f \in File : owner[f] = m}

\* The listings ListAttachments can give of some attachments: all of them, or
\* the Listed newest; the time of the last update that orders them is left out.
Pages(all) ==
    IF Cardinality(all) <= Listed THEN {all}
    ELSE {page \in SUBSET all : Cardinality(page) = Listed}

Replies(m) == {c \in Memo : <<c, m>> \in comments}

\* ListMemos with ExcludeComments: the join finds no parent memo.
TopLevel(m) == m \in memos /\ \A q \in memos : <<m, q>> \notin comments

Init ==
    /\ memos = {}
    /\ used = {}
    /\ refs = {}
    /\ comments = {}
    /\ owner = [f \in File |-> None]
    /\ activities = {}
    /\ inbox = {}
    /\ pc = [p \in Proc |-> "idle"]
    /\ call = [p \in Proc |-> Request("create")]
    /\ alone = [p \in Proc |-> FALSE]

---------------------------------------------------------------------------
(* Requests.                                                               *)

Begin(p, c, label) ==
    /\ ~Busy(p)
    /\ pc' = [pc EXCEPT ![p] = label]
    /\ call' = [call EXCEPT ![p] = c]
    /\ alone' = [q \in Proc |-> IF q = p THEN \A o \in Proc \ {p} : ~Busy(o)
                                ELSE alone[q] /\ ~Busy(q)]

Go(p, c, label) ==
    IF label = "idle"
    THEN /\ pc' = [pc EXCEPT ![p] = "idle"]
         /\ call' = [call EXCEPT ![p] = Request("create")]
         /\ alone' = [alone EXCEPT ![p] = FALSE]
    ELSE /\ pc' = [pc EXCEPT ![p] = label]
         /\ call' = [call EXCEPT ![p] = c]
         /\ UNCHANGED alone

Abort(p) == Go(p, call[p], "idle")

\* The rest of a request that creates a memo: its files, its references, and
\* for a comment the relation to its parent.
AfterLinks(c) == IF c.op = "comment" THEN "join" ELSE "idle"
AfterFiles(c) ==
    IF c.op \in {"create", "comment"} /\ c.links # {} THEN "links" ELSE AfterLinks(c)
AfterInsert(c) == IF c.files # {} THEN "files" ELSE AfterFiles(c)

\* Mutants of Reserve: ids of deleted rows are handed out again, and an id is
\* not marked as taken.
Reuse(id) == id \notin memos /\ used' = used \cup {id}

Unmarked(id) == id \notin used /\ UNCHANGED used

\* A new memo or attachment has an id no other row ever had; its name is
\* told once it is inserted.
Reserve(id) == id \notin used /\ Cardinality(used) < MaxIds /\ used' = used \cup {id}

CreateMemo(p) ==
    /\ \E m \in Memo, links \in SUBSET (used \cap Memo), files \in SUBSET Files :
        /\ Reserve(m)
        /\ Begin(p, [Request("create") EXCEPT !.memo = m, !.links = links, !.files = files],
                 "insert")
    /\ UNCHANGED <<memos, refs, comments, owner, notices>>

\* The memo commented on is looked up first, and the comment is created
\* whether or not it was found.
CreateMemoComment(p) ==
    /\ \E m \in Memo, q \in used \cap Memo, files \in SUBSET Files, notify \in BOOLEAN :
        /\ Reserve(m)
        /\ Begin(p, [Request("comment") EXCEPT !.memo = m,
                        !.parent = IF q \in memos THEN q ELSE None,
                        !.files = files, !.notify = notify], "insert")
    /\ UNCHANGED <<memos, refs, comments, owner, notices>>

\* UpdateMemo with relations or attachments in its mask; with both it runs
\* one after the other, as two requests do.
UpdateMemo(p) ==
    /\ \E m \in memos :
        \/ \E links \in SUBSET (used \cap Memo) :
            Begin(p, [Request("relate") EXCEPT !.memo = m, !.links = links], "links")
        \/ \E files \in SUBSET Files :
            Begin(p, [Request("attach") EXCEPT !.memo = m, !.files = files], "files")
    /\ UNCHANGED rows

DeleteMemo(p) ==
    /\ \E m \in memos :
        Begin(p, [Request("delete") EXCEPT !.memo = m], "owned")
    /\ UNCHANGED rows

\* DeleteMemoTag with DeleteRelatedMemos: the memos that have the tag, which
\* are no comments.
DeleteMemoTag(p) ==
    /\ \E tagged \in SUBSET {m \in memos : TopLevel(m)} :
        Begin(p, [Request("tag") EXCEPT !.rest = tagged], "reply")
    /\ UNCHANGED rows

CreateAttachment(p) ==
    /\ \E f \in File, m \in memos \cup {None} :
        /\ Reserve(f)
        /\ Begin(p, [Request("upload") EXCEPT !.memo = m, !.files = {f}], "upload")
    /\ UNCHANGED <<memos, refs, comments, owner, notices>>

\* DeleteAttachment of the API: one attachment, whichever memo it is on.
DeleteAttachment(p) ==
    /\ ~Busy(p)
    /\ \E f \in Files :
        /\ owner[f] # None
        /\ owner' = [owner EXCEPT ![f] = None]
    /\ alone' = [q \in Proc |-> alone[q] /\ ~Busy(q)]
    /\ UNCHANGED <<memos, used, refs, comments, notices, pc, call>>

---------------------------------------------------------------------------
(* Statements.                                                             *)

Insert(p) ==
    /\ pc[p] = "insert"
    /\ memos' = memos \cup {call[p].memo}
    /\ Go(p, call[p], AfterInsert(call[p]))
    /\ UNCHANGED <<used, refs, comments, owner, notices>>

\* SetMemoAttachments, SetMemoRelations and the end of CreateMemoComment read
\* the memo again; without it they panic, and the request ends.
Reread(p) ==
    LET c == call[p]
        next == [files |-> "owned", links |-> "clear", join |-> "comment"]
    IN
    /\ pc[p] \in DOMAIN next
    /\ IF c.memo \in memos THEN Go(p, c, next[pc[p]]) ELSE Abort(p)
    /\ UNCHANGED rows

\* Mutant of Owned: the attachments of every memo.
OwnedByAnyone(p) ==
    LET c == call[p]
        all == {f \in File : owner[f] # None}
    IN
    /\ pc[p] = "owned"
    /\ IF c.op = "delete" THEN Go(p, [c EXCEPT !.rest = all], "erase")
                          ELSE Go(p, [c EXCEPT !.rest = all \ c.files], "drop")
    /\ UNCHANGED rows

\* A listing of the attachments of the memo, as they are now.
Owned(p) ==
    LET c == call[p] IN
    /\ pc[p] = "owned"
    /\ \E mine \in Pages(Attached(c.memo)) :
        LET d == [c EXCEPT !.rest = IF c.op = "delete" THEN mine ELSE mine \ c.files,
                           !.whole = (mine = Attached(c.memo))]
        IN Go(p, d, IF c.op = "delete" THEN "erase" ELSE "drop")
    /\ UNCHANGED rows

\* The attachments to delete, one after another and by id alone; one that is
\* already gone ends the request.
Drop(p) ==
    LET c == call[p] IN
    /\ pc[p] = "drop"
    /\ IF c.rest = {}
       THEN /\ Go(p, [c EXCEPT !.rest = c.files],
                  IF c.op = "delete" THEN "replies" ELSE "link")
            /\ UNCHANGED owner
       ELSE \E f \in c.rest :
            /\ owner' = [owner EXCEPT ![f] = None]
            /\ IF owner[f] = None THEN Abort(p)
               ELSE Go(p, [c EXCEPT !.rest = @ \ {f}], "drop")
    /\ UNCHANGED <<memos, used, refs, comments, notices>>

Link(p) ==
    LET c == call[p] IN
    /\ pc[p] = "link"
    /\ IF c.rest = {}
       THEN Go(p, c, AfterFiles(c)) /\ UNCHANGED owner
       ELSE \E f \in c.rest :
            IF owner[f] = None THEN Abort(p) /\ UNCHANGED owner
            ELSE /\ owner' = [owner EXCEPT ![f] = c.memo]
                 /\ Go(p, [c EXCEPT !.rest = @ \ {f}], "link")
    /\ UNCHANGED <<memos, used, refs, comments, notices>>

\* Mutant of Clear: the references there are stay.
ClearNothing(p) ==
    LET c == call[p] IN
    /\ pc[p] = "clear"
    /\ Go(p, [c EXCEPT !.rest = c.links \ {c.memo}], "find")
    /\ UNCHANGED rows

\* SetMemoRelations drops the references of the memo, then writes the new
\* ones; a reference to itself is ignored, comments are left alone.
Clear(p) ==
    LET c == call[p] IN
    /\ pc[p] = "clear"
    /\ refs' = {r \in refs : r[1] # c.memo}
    /\ Go(p, [c EXCEPT !.rest = c.links \ {c.memo}], "find")
    /\ UNCHANGED <<memos, used, comments, owner, notices>>

Find(p) ==
    LET c == call[p] IN
    /\ pc[p] = "find"
    /\ IF c.rest = {} THEN Go(p, c, AfterLinks(c))
       ELSE \E m \in c.rest :
            IF m \in memos THEN Go(p, [c EXCEPT !.rest = @ \ {m}, !.on = m], "put")
            ELSE Abort(p)
    /\ UNCHANGED rows

\* The unique constraint refuses a reference that is there already.
Put(p) ==
    LET c == call[p] IN
    /\ pc[p] = "put"
    /\ refs' = refs \cup {<<c.memo, c.on>>}
    /\ IF <<c.memo, c.on>> \in refs THEN Abort(p)
       ELSE Go(p, [c EXCEPT !.on = None], "find")
    /\ UNCHANGED <<memos, used, comments, owner, notices>>

\* Mutant of Comment: the inbox message is sent without an activity.
CommentUnlogged(p) ==
    LET c == call[p] IN
    /\ pc[p] = "comment"
    /\ IF c.parent = None
       THEN Abort(p) /\ UNCHANGED comments
       ELSE /\ comments' = comments \cup {<<c.memo, c.parent>>}
            /\ Go(p, c, IF c.notify THEN "inbox" ELSE "idle")
    /\ UNCHANGED <<memos, used, refs, owner, notices>>

\* Without a parent the request panics here, after its memo was created.
Comment(p) ==
    LET c == call[p] IN
    /\ pc[p] = "comment"
    /\ IF c.parent = None
       THEN Abort(p) /\ UNCHANGED comments
       ELSE /\ comments' = comments \cup {<<c.memo, c.parent>>}
            /\ Go(p, c, IF c.notify THEN "activity" ELSE "idle")
    /\ UNCHANGED <<memos, used, refs, owner, notices>>

Activity(p) ==
    /\ pc[p] = "activity"
    /\ activities' = activities \cup {<<call[p].memo, call[p].parent>>}
    /\ Go(p, call[p], "inbox")
    /\ UNCHANGED <<memos, used, refs, comments, owner, inbox>>

Inbox(p) ==
    /\ pc[p] = "inbox"
    /\ inbox' = inbox \cup {call[p].memo}
    /\ Go(p, call[p], "idle")
    /\ UNCHANGED <<memos, used, refs, comments, owner, activities>>

Erase(p) ==
    /\ pc[p] = "erase"
    /\ memos' = memos \ {call[p].memo}
    /\ Go(p, call[p], "unrelate")
    /\ UNCHANGED <<used, refs, comments, owner, notices>>

Unrelate(p) ==
    LET m == call[p].memo IN
    /\ pc[p] = "unrelate"
    /\ refs' = {r \in refs : r[1] # m}
    /\ comments' = {r \in comments : r[1] # m}
    /\ Go(p, call[p], "drop")
    /\ UNCHANGED <<memos, used, owner, notices>>

\* The comments of the memo are listed, and deleted one after another: the
\* rows alone, and neither their files nor what was said about them.
ListReplies(p) ==
    /\ pc[p] = "replies"
    /\ Go(p, [call[p] EXCEPT !.rest = Replies(call[p].memo)], "reply")
    /\ UNCHANGED rows

DeleteReply(p) ==
    LET c == call[p] IN
    /\ pc[p] = "reply"
    /\ IF c.rest = {}
       THEN /\ Go(p, c, IF c.op = "delete" THEN "unrefer" ELSE "idle")
            /\ UNCHANGED memos
       ELSE \E m \in c.rest :
            /\ memos' = memos \ {m}
            /\ Go(p, [c EXCEPT !.rest = @ \ {m}], "reply")
    /\ UNCHANGED <<used, refs, comments, owner, notices>>

\* Mutant of Unrefer: the references the memo makes, once more.
UnreferOwn(p) ==
    /\ pc[p] = "unrefer"
    /\ refs' = {r \in refs : r[1] # call[p].memo}
    /\ Go(p, call[p], "idle")
    /\ UNCHANGED <<memos, used, comments, owner, notices>>

Unrefer(p) ==
    /\ pc[p] = "unrefer"
    /\ refs' = {r \in refs : r[2] # call[p].memo}
    /\ Go(p, call[p], "idle")
    /\ UNCHANGED <<memos, used, comments, owner, notices>>

Upload(p) ==
    LET m == call[p].memo IN
    /\ pc[p] = "upload"
    /\ owner' = [f \in File |-> IF f \notin call[p].files THEN owner[f]
                                ELSE IF m = None THEN Loose ELSE m]
    /\ Go(p, call[p], "idle")
    /\ UNCHANGED <<memos, used, refs, comments, notices>>

\* A statement fails, or the server stops: the rest is never run.
Fail(p) ==
    /\ DriverFails
    /\ Busy(p)
    /\ Abort(p)
    /\ UNCHANGED rows

Arrive(p) ==
    \/ CreateMemo(p)
    \/ CreateMemoComment(p)
    \/ UpdateMemo(p)
    \/ DeleteMemo(p)
    \/ DeleteMemoTag(p)
    \/ CreateAttachment(p)
    \/ DeleteAttachment(p)

Statement(p) ==
    \/ Insert(p)
    \/ Reread(p)
    \/ Owned(p)
    \/ Drop(p)
    \/ Link(p)
    \/ Clear(p)
    \/ Find(p)
    \/ Put(p)
    \/ Comment(p)
    \/ Activity(p)
    \/ Inbox(p)
    \/ Erase(p)
    \/ Unrelate(p)
    \/ ListReplies(p)
    \/ DeleteReply(p)
    \/ Unrefer(p)
    \/ Upload(p)

Next == \E p \in Proc : Arrive(p) \/ Statement(p) \/ Fail(p)

Spec == Init /\ [][Next]_vars

---------------------------------------------------------------------------
(* Properties.                                                             *)

\* Type invariant.
TypeOK ==
    /\ memos \subseteq used \cap Memo
    /\ used \subseteq Memo \cup File
    /\ refs \subseteq Memo \X Memo
    /\ comments \subseteq Memo \X Memo
    /\ owner \in [File -> Memo \cup {None, Loose}]
    /\ activities \subseteq Memo \X Memo
    /\ inbox \subseteq Memo
    /\ pc \in [Proc -> PC]
    /\ call \in [Proc -> Call]
    /\ alone \in [Proc -> BOOLEAN]

Parents == [m \in Memo |-> {q \in Memo : <<m, q>> \in comments}]

\* No chain of comments runs in a circle.
NoCircle ==
    \A top \in SUBSET memos : top # {} => \E m \in top : Parents[m] \cap top = {}

\* Whoever is told of a comment finds the activity that says what it is a
\* comment on, and while the comment exists so does its COMMENT relation to that
\* memo.  The memo itself may be gone: DeleteMemoTag deletes its row alone.
NoticesLead ==
    /\ \A m \in inbox : \E a \in activities : a[1] = m
    /\ \A a \in activities : a[1] \in memos => a \in comments

\* DeleteMemo, when nothing overlaps it, leaves no reference from or to the memo
\* and no comment on it, whatever earlier requests that raced or failed have left
\* behind; and no attachment, if its listing of them had room for all.
DeleteLeavesNoTrace ==
    [][\A p \in Proc, m \in Memo :
          Unrefer(p) /\ call[p].memo = m /\ alone[p] =>
            /\ m \notin memos'
            /\ \A r \in refs' : m \notin {r[1], r[2]}
            /\ call[p].whole => Attached(m)' = {}
            /\ Replies(m)' \cap memos' = {}]_vars

Finishes(p, m) == call[p].memo = m /\ call[p].rest = {} /\ alone[p]

\* UpdateMemo, when nothing overlaps it, leaves exactly the references it was
\* asked for, and the attachments it was asked for: no others, if its listing
\* of those there were had room for all.
UpdateTakesEffect ==
    [][\A p \in Proc, m \in Memo : Finishes(p, m) =>
          /\ Find(p) => {q \in Memo : <<m, q>> \in refs'} = call[p].links \ {m}
          /\ Link(p) =>
                /\ call[p].files \subseteq Attached(m)'
                /\ call[p].whole => Attached(m)' = call[p].files]_vars

\* A memo that was written as a comment is never listed as a memo of its own
\* ("Exclude comments by default") once every request has ended.
CommentsStayComments ==
    (\A p \in Proc : ~Busy(p)) =>
        \A r \in comments : r[1] \in memos => ~TopLevel(r[1])

\* SetMemoAttachments and DeleteMemo delete the attachments of their memo
\* alone, when no other request moves one in between.
OnlyOwnFilesDropped ==
    [][\A p \in Proc : Drop(p) =>
          \A f \in File : owner'[f] # owner[f] /\ alone[p] => owner[f] = call[p].memo]_vars

---------------------------------------------------------------------------
(* The inductive invariant.                                                *)

Relating == {"links", "clear", "find", "put"}
Erased == {"unrelate", "drop", "replies", "reply", "unrefer"}

\* A request runs the statements of its operation, and has what they are about.
OwnStage(p) ==
    LET op == call[p].op IN
    /\ pc[p] = "idle" => call[p] = Request("create")
    /\ pc[p] = "insert" => op \in {"create", "comment"}
    /\ pc[p] \in {"files", "link"} => op \in {"create", "comment", "attach"}
    /\ pc[p] \in {"owned", "drop"} => op \in {"create", "comment", "attach", "delete"}
    /\ pc[p] \in Relating => op \in {"create", "comment", "relate"}
    /\ pc[p] \in {"join", "comment", "activity", "inbox"} => op = "comment"
    /\ pc[p] \in {"erase", "unrelate", "replies", "unrefer"} => op = "delete"
    /\ pc[p] = "reply" => op \in {"delete", "tag"}
    /\ pc[p] = "upload" => op = "upload"
    /\ Busy(p) /\ op \notin {"tag", "upload"} => call[p].memo # None
    /\ pc[p] = "put" => call[p].on # None

\* Nothing is known of an id before it is handed out.
KnownIds ==
    /\ comments \subseteq used \X used
    /\ \A a \in activities : a[1] \in used
    /\ \A p \in Proc : {call[p].memo, call[p].parent} \subseteq used \cup {None}

\* Of a memo before it is inserted nobody knows but who will do that.
OwnInsert(p) ==
    pc[p] = "insert" =>
        /\ call[p].memo \notin memos
        /\ \A a \in activities : a[1] # call[p].memo
        /\ \A q \in Proc : call[q].memo = call[p].memo => q = p

\* Comments, and those that requests are about to write.
Ties == comments \cup {<<call[p].memo, call[p].parent>> :
                         p \in {q \in Proc : call[q].op = "comment" /\ call[q].parent # None}}

\* Every set of memos has one that is, and will be, a comment on none of them.
Rooted ==
    \A top \in SUBSET Memo : top # {} =>
        \E m \in top : \A q \in top : <<m, q>> \notin Ties

\* What a notice will tell of is there to be found, or its comment is gone; what
\* is said of a memo is deleted after the memo.
InOrder(p) ==
    LET c == call[p] IN
    /\ c.op = "delete" /\ pc[p] \in Erased => c.memo \notin memos
    /\ pc[p] = "activity" =>
        c.parent # None /\ (c.memo \in memos => <<c.memo, c.parent>> \in comments)
    /\ pc[p] = "inbox" => \E a \in activities : a[1] = c.memo

Alone == \A p \in Proc : alone[p] => Busy(p) /\ \A q \in Proc \ {p} : ~Busy(q)

LinksOf(m) == {q \in Memo : <<m, q>> \in refs}

\* How far a request that nothing overlaps has come with its references, and
\* with its attachments.
HalfWay(p) ==
    LET c == call[p] IN
    /\ pc[p] = "find" => /\ c.rest \subseteq c.links \ {c.memo}
                        /\ LinksOf(c.memo) = (c.links \ {c.memo}) \ c.rest
    /\ pc[p] = "put" => /\ c.rest \cup {c.on} \subseteq c.links \ {c.memo} /\ c.on \notin c.rest
                       /\ LinksOf(c.memo) = (c.links \ {c.memo}) \ (c.rest \cup {c.on})
    /\ pc[p] = "drop" /\ c.op # "delete" =>
        /\ c.rest \subseteq Attached(c.memo) \ c.files
        /\ c.whole => c.rest = Attached(c.memo) \ c.files
    /\ pc[p] = "link" =>
        /\ c.rest \subseteq c.files
        /\ c.files \subseteq c.rest \cup Attached(c.memo)
        /\ c.whole => Attached(c.memo) \subseteq c.files

\* What a delete that nothing overlaps has done away with so far.
Deleted(p) ==
    LET c == call[p] IN
    /\ pc[p] \in {"erase", "unrelate", "drop"} =>
        /\ c.rest \subseteq Attached(c.memo)
        /\ c.whole => c.rest = Attached(c.memo)
    /\ pc[p] \in {"drop", "replies", "reply", "unrefer"} => LinksOf(c.memo) = {}
    /\ pc[p] \in {"replies", "reply", "unrefer"} => (c.whole => Attached(c.memo) = {})
    /\ pc[p] = "reply" => Replies(c.memo) \cap memos \subseteq c.rest
    /\ pc[p] = "unrefer" => Replies(c.memo) \cap memos = {}

Inductive ==
    /\ TypeOK
    /\ \A p \in Proc : OwnStage(p) /\ OwnInsert(p) /\ InOrder(p)
    /\ KnownIds
    /\ Rooted
    /\ NoticesLead
    /\ Alone
    /\ \A p \in Proc : alone[p] => HalfWay(p) /\ (call[p].op = "delete" => Deleted(p))
=============================================================================

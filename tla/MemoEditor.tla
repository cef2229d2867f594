----------------------------- MODULE MemoEditor -----------------------------
(* One place of the page where a memo is written (MemoEditor/index.tsx with   *)
(* UploadAttachmentButton.tsx and AttachmentListView.tsx): text with a draft  *)
(* in the browser's storage, files that are uploaded by the button or by      *)
(* dropping them, and the save, which creates a memo or changes the one that  *)
(* is edited.  The editor is left and opened again; what it has called goes   *)
(* on, and its handlers then change the state of an editor that is gone.      *)
EXTENDS Naturals, Sequences

CONSTANTS
    Text,           \* contents a user types, each once; "" is the empty one
    Attachment,     \* files 1..n; memo 1 has the first where one is edited
    MaxTurns, MaxFaults \* bounds on saves and openings together, and on failures

VARIABLES
    memoName,       \* 0: the editor writes new memos; 1: it edits memo 1
    memos,          \* the server's: content, and history: the files the user wants
    owner,          \* the server's attachments: the memo of each, 0 for none
    storedMemo,     \* memo 1 in memoStore
    contentCache,   \* the draft, "" if there is none
    editor,         \* the open editor
    uploads,        \* per file: how far its upload is
    saves,          \* handleSaveBtnClick under way
    draftSpent,     \* history: how often each bound was used
    draftNotes      \* history: what the user did and what may have gone wrong

editorVars == <<memoName, memos, owner, storedMemo, contentCache, editor, uploads, saves,
                draftSpent, draftNotes>>

Closed == [instance |-> 0, text |-> "", attachmentList |-> {}, isRequesting |-> FALSE,
           isUploadingAttachment |-> FALSE, uploadingFlag |-> FALSE]
NotUploaded == [at |-> "none", by |-> "none", instance |-> 0, base |-> {}]
Ended == [NotUploaded EXCEPT !.at = "ended"]
Uploading == {f \in Attachment : uploads[f].at \notin {"none", "ended"}}
IsOpen == editor.instance # 0
FilesOf(i) == {f \in DOMAIN owner : owner[f] = i}

Spend(bound) == draftSpent' = [draftSpent EXCEPT ![bound] = @ + 1]

(* A mounted editor shows the draft, else the memo's text.                    *)
Mounted(n, cache, memo) ==
    [Closed EXCEPT !.instance = n,
                   !.text = IF cache = "" THEN memo.content ELSE cache,
                   !.attachmentList = memo.attachments]

Init ==
    /\ memoName \in {0, 1}
    /\ LET first == IF memoName = 1 THEN {1} ELSE {}
       IN  /\ memos = IF memoName = 1 THEN <<[content |-> "old", wanted |-> {1}, sure |-> TRUE]>> ELSE << >>
           /\ owner = [f \in first |-> 1]
           /\ storedMemo = [content |-> IF memoName = 1 THEN "old" ELSE "", attachments |-> first]
           /\ uploads = [f \in Attachment |-> IF f \in first THEN Ended ELSE NotUploaded]
           /\ draftNotes = [typed |-> "", ever |-> {}, wanted |-> first, failed |-> FALSE,
                            textAtRisk |-> FALSE, filesAtRisk |-> FALSE, twice |-> {}]
    /\ editor = Mounted(1, "", storedMemo)
    /\ contentCache = editor.text
    /\ saves = {}
    /\ draftSpent = [turns |-> 1, faults |-> 0]

-----------------------------------------------------------------------------
(* The store holds t as the memo's text and the server another.               *)
StoreBehind(t) == memoName = 1 /\ storedMemo.content = t /\ memos[1].content # t

(* Mutant of Type: the draft is not kept.                                     *)
TypeUncached(t) ==
    /\ IsOpen /\ t # editor.text /\ t \notin draftNotes.ever
    /\ editor' = [editor EXCEPT !.text = t]
    /\ draftNotes' = [draftNotes EXCEPT !.typed = t, !.ever = @ \cup ({t} \ {""}), !.failed = FALSE,
                                        !.textAtRisk = saves # {} \/ StoreBehind(t)]
    /\ UNCHANGED <<memoName, memos, owner, storedMemo, contentCache, uploads, saves, draftSpent>>

(* handleContentChange.                                                       *)
Type(t) ==
    /\ IsOpen /\ t # editor.text /\ t \notin draftNotes.ever
    /\ editor' = [editor EXCEPT !.text = t]
    /\ contentCache' = t
    /\ draftNotes' = [draftNotes EXCEPT !.typed = t, !.ever = @ \cup ({t} \ {""}), !.failed = FALSE,
                                        !.textAtRisk = saves # {} \/ StoreBehind(t)]
    /\ UNCHANGED <<memoName, memos, owner, storedMemo, uploads, saves, draftSpent>>

(* handleFileInputChange up to the await: the list it will extend is the one  *)
(* of this render.                                                            *)
PickFile(f) ==
    /\ IsOpen /\ uploads[f] = NotUploaded
    /\ ~editor.uploadingFlag /\ ~editor.isUploadingAttachment
    /\ editor' = [editor EXCEPT !.uploadingFlag = TRUE]
    /\ uploads' = [uploads EXCEPT ![f] = [at |-> "asked", by |-> "button", instance |-> editor.instance,
                                          base |-> editor.attachmentList]]
    /\ draftNotes' = [draftNotes EXCEPT !.wanted = @ \cup {f}, !.filesAtRisk = @ \/ saves # {}]
    /\ UNCHANGED <<memoName, memos, owner, storedMemo, contentCache, saves, draftSpent>>

(* handleDropEvent or handlePasteEvent, up to the await.                      *)
DropFile(f) ==
    /\ IsOpen /\ uploads[f] = NotUploaded
    /\ editor' = [editor EXCEPT !.isUploadingAttachment = TRUE]
    /\ uploads' = [uploads EXCEPT ![f] = [at |-> "asked", by |-> "drop", instance |-> editor.instance, base |-> {}]]
    /\ draftNotes' = [draftNotes EXCEPT !.wanted = @ \cup {f},
                          !.filesAtRisk = @ \/ saves # {} \/ \E g \in Uploading : uploads[g].by = "drop"]
    /\ UNCHANGED <<memoName, memos, owner, storedMemo, contentCache, saves, draftSpent>>

CreateAttachment(f) ==
    /\ uploads[f].at = "asked"
    /\ uploads' = [uploads EXCEPT ![f].at = "created"]
    /\ owner' = [g \in DOMAIN owner \cup {f} |-> IF g = f THEN 0 ELSE owner[g]]
    /\ UNCHANGED <<memoName, memos, storedMemo, contentCache, editor, saves, draftSpent, draftNotes>>

(* The state of the editor that asked for f, if it is still there.            *)
InEditorOf(f, changed) == editor' = IF uploads[f].instance = editor.instance THEN changed ELSE editor

(* The end of an upload by the button sets the list it captured.              *)
EndPick(f, list) ==
    /\ InEditorOf(f, [editor EXCEPT !.attachmentList = list, !.uploadingFlag = FALSE])
    /\ uploads' = [uploads EXCEPT ![f] = Ended]

Picked(f) ==
    /\ uploads[f].at = "created" /\ uploads[f].by = "button"
    /\ EndPick(f, uploads[f].base \cup {f})
    /\ draftNotes' = [draftNotes EXCEPT !.filesAtRisk = @ \/ uploads[f].base # editor.attachmentList]
    /\ UNCHANGED <<memoName, memos, owner, storedMemo, contentCache, saves, draftSpent>>

(* That of a drop adds to the list there is then; where a memo is edited the  *)
(* file is attached to it first.                                              *)
Dropped(f) ==
    /\ uploads[f].at = "created" /\ uploads[f].by = "drop"
    /\ InEditorOf(f, [editor EXCEPT !.isUploadingAttachment = FALSE,
                                    !.attachmentList = IF memoName = 1 THEN @ ELSE @ \cup {f}])
    /\ uploads' = [uploads EXCEPT ![f] = IF memoName = 1 THEN [@ EXCEPT !.at = "attach"] ELSE Ended]
    /\ UNCHANGED <<memoName, memos, owner, storedMemo, contentCache, saves, draftSpent, draftNotes>>

UpdateAttachment(f) ==
    /\ uploads[f].at = "attach" /\ f \in DOMAIN owner
    /\ owner' = [owner EXCEPT ![f] = 1]
    /\ memos' = [memos EXCEPT ![1].wanted = @ \cup {f}, ![1].sure = @ /\ saves = {}]
    /\ uploads' = [uploads EXCEPT ![f].at = "attached"]
    /\ UNCHANGED <<memoName, storedMemo, contentCache, editor, saves, draftSpent, draftNotes>>

Attached(f) ==
    /\ uploads[f].at = "attached"
    /\ InEditorOf(f, [editor EXCEPT !.attachmentList = @ \cup {f}])
    /\ uploads' = [uploads EXCEPT ![f] = Ended]
    /\ UNCHANGED <<memoName, memos, owner, storedMemo, contentCache, saves, draftSpent, draftNotes>>

(* An upload fails, or what attaches a dropped file to the edited memo does,   *)
(* before or after the server did its part; then nothing is added to the list. *)
UploadFails(f) ==
    /\ f \in Uploading
    /\ draftSpent.faults < MaxFaults
    /\ Spend("faults")
    /\ IF uploads[f].by = "button" THEN EndPick(f, uploads[f].base)
       ELSE /\ IF uploads[f].at \in {"asked", "created"}
               THEN InEditorOf(f, [editor EXCEPT !.isUploadingAttachment = FALSE])
               ELSE UNCHANGED editor
            /\ uploads' = [uploads EXCEPT ![f] = Ended]
    /\ draftNotes' = [draftNotes EXCEPT !.wanted = @ \ {f},
                          !.filesAtRisk = \/ @ \/ uploads[f].at \in {"attach", "attached"}
                                          \/ uploads[f].by = "button" /\ uploads[f].base # editor.attachmentList]
    /\ UNCHANGED <<memoName, memos, owner, storedMemo, contentCache, saves>>

(* handleDeleteAttachment: the chip goes, the attachment stays.               *)
RemoveChip(f) ==
    /\ f \in editor.attachmentList
    /\ editor' = [editor EXCEPT !.attachmentList = @ \ {f}]
    /\ draftNotes' = [draftNotes EXCEPT !.wanted = @ \ {f},
                          !.filesAtRisk = @ \/ f \in FilesOf(1) \ storedMemo.attachments]
    /\ UNCHANGED <<memoName, memos, owner, storedMemo, contentCache, uploads, saves, draftSpent>>

-----------------------------------------------------------------------------
(* Mutant of AllowSave: uploads are not waited for.                           *)
AllowAnySave == (editor.text # "" \/ editor.attachmentList # {}) /\ ~editor.isRequesting

(* allowSave of the button.                                                   *)
AllowSave ==
    /\ editor.text # "" \/ editor.attachmentList # {}
    /\ ~editor.isUploadingAttachment /\ ~editor.isRequesting

(* What a save sends: of an edited memo only what differs from the store's.   *)
SaveRequest ==
    [instance |-> editor.instance, at |-> "sent", content |-> editor.text,
     attachments |-> editor.attachmentList,
     mask |-> (IF memoName = 0 \/ editor.text # storedMemo.content THEN {"content"} ELSE {})
              \cup (IF memoName = 0 \/ editor.attachmentList # storedMemo.attachments THEN {"attachments"} ELSE {}),
     wanted |-> draftNotes.wanted,
     sure |-> /\ ~draftNotes.filesAtRisk /\ ~editor.uploadingFlag
              /\ \A f \in Uploading : uploads[f].at \notin {"attach", "attached"},
     answer |-> << >>]

(* handleSaveBtnClick up to the call; without a difference the editor closes. *)
HandleSave(byKey) ==
    /\ draftSpent.turns < MaxTurns
    /\ Spend("turns")
    /\ IF SaveRequest.mask = {}
       THEN /\ editor' = Closed
            /\ UNCHANGED saves
       ELSE /\ editor' = [editor EXCEPT !.isRequesting = TRUE]
            /\ saves' = saves \cup {[SaveRequest EXCEPT !.sure = @ /\ ~(byKey /\ Uploading # {})]}
    /\ draftNotes' = [draftNotes EXCEPT !.filesAtRisk = @ \/ Uploading # {}]
    /\ UNCHANGED <<memoName, memos, owner, storedMemo, contentCache, uploads>>

ClickSave == IsOpen /\ AllowSave /\ HandleSave(FALSE)

(* Mutant of KeySave: a save under way does not keep from another.            *)
KeySaveAgain == IsOpen /\ HandleSave(TRUE)

(* Ctrl+Enter asks for less than the button.                                  *)
KeySave == IsOpen /\ ~editor.isRequesting /\ HandleSave(TRUE)

(* CreateMemo, or UpdateMemo with its mask: SetMemoAttachments deletes what is *)
(* not listed and takes what is.  A listed attachment that is gone is an error. *)
ServeSave(s) ==
    LET i == IF memoName = 1 THEN 1 ELSE Len(memos) + 1
        takes == "attachments" \in s.mask
        note == [content |-> s.content, wanted |-> s.wanted, sure |-> s.sure]
    IN  /\ s.at = "sent"
        /\ takes => s.attachments \subseteq DOMAIN owner
        /\ memos' = IF memoName = 0
                    THEN Append([j \in DOMAIN memos |->
                                    [memos[j] EXCEPT !.sure = @ /\ (s.sure \/ FilesOf(j) \cap s.attachments = {})]],
                                note)
                    ELSE [memos EXCEPT ![1] = [note EXCEPT
                              !.content = IF "content" \in s.mask THEN @ ELSE memos[1].content,
                              !.sure = @ /\ memos[1].sure]]
        /\ owner' = IF takes THEN [f \in (DOMAIN owner \ FilesOf(i)) \cup s.attachments |->
                                        IF f \in s.attachments THEN i ELSE owner[f]]
                    ELSE owner
        /\ saves' = (saves \ {s}) \cup
               {[s EXCEPT !.at = "served",
                          !.answer = <<[content |-> memos'[i].content,
                                        attachments |-> {f \in DOMAIN owner' : owner'[f] = i}]>>]}
        /\ UNCHANGED <<memoName, storedMemo, contentCache, editor, uploads, draftSpent, draftNotes>>

(* The server breaks off and answers an error, as for a listed attachment that *)
(* is gone: a new memo stays with some of its files; of an edited one some     *)
(* attachments are deleted, and then some of the listed taken, before its row. *)
ServeHalf(s) ==
    LET i == IF memoName = 1 THEN 1 ELSE Len(memos) + 1
        takes == "attachments" \in s.mask
        unlisted == IF takes THEN FilesOf(i) \ s.attachments ELSE {}
        listed == IF takes THEN s.attachments \cap DOMAIN owner ELSE {}
    IN  /\ s.at = "sent"
        /\ \/ takes /\ ~(s.attachments \subseteq DOMAIN owner) /\ UNCHANGED draftSpent
           \/ draftSpent.faults < MaxFaults /\ Spend("faults")
        /\ \E gone \in SUBSET unlisted, taken \in SUBSET listed :
            /\ taken # {} => gone = unlisted
            /\ owner' = [f \in DOMAIN owner \ gone |-> IF f \in taken THEN i ELSE owner[f]]
        /\ memos' = IF memoName = 0
                    THEN Append([j \in DOMAIN memos |->
                                    [memos[j] EXCEPT !.sure = @ /\ (s.sure \/ FilesOf(j) \cap s.attachments = {})]],
                                [content |-> s.content, wanted |-> s.wanted, sure |-> FALSE])
                    ELSE [memos EXCEPT ![1].sure = FALSE]
        /\ saves' = (saves \ {s}) \cup {[s EXCEPT !.at = "broken"]}
        /\ UNCHANGED <<memoName, storedMemo, contentCache, editor, uploads, draftNotes>>

(* The end of handleSaveBtnClick, after a failure too: the draft and the chips *)
(* are cleared.                                                               *)
EndSave(s, text) ==
    /\ saves' = saves \ {s}
    /\ contentCache' = ""
    /\ editor' = IF s.instance # editor.instance THEN editor
                 ELSE [editor EXCEPT !.text = text, !.attachmentList = {}, !.isRequesting = FALSE]

(* After a success the text is cleared; the editor of a memo closes.          *)
Saved(s) ==
    /\ s.at = "served"
    /\ storedMemo' = IF memoName = 1 THEN s.answer[1] ELSE storedMemo
    /\ IF memoName = 1 /\ s.instance = editor.instance
       THEN saves' = saves \ {s} /\ contentCache' = "" /\ editor' = Closed
       ELSE EndSave(s, "")
    /\ draftNotes' = IF s.instance = editor.instance THEN [draftNotes EXCEPT !.wanted = @ \ s.wanted]
                     ELSE draftNotes
    /\ UNCHANGED <<memoName, memos, owner, uploads, draftSpent>>

(* The call fails: it or its answer is lost, or the server broke it off.      *)
SaveFails(s) ==
    /\ \/ s.at = "broken" /\ UNCHANGED draftSpent
       \/ s.at # "broken" /\ draftSpent.faults < MaxFaults /\ Spend("faults")
    /\ EndSave(s, editor.text)
    /\ draftNotes' = [draftNotes EXCEPT !.failed = TRUE, !.filesAtRisk = TRUE,
                          !.textAtRisk = @ \/ s.instance # editor.instance,
                          !.twice = IF s.at = "sent" THEN @ ELSE @ \cup {s.content}]
    /\ UNCHANGED <<memoName, memos, owner, storedMemo, uploads>>

-----------------------------------------------------------------------------
(* handleCancelBtnClick: the button of an edited memo and of a new comment,   *)
(* which memoName 0 stands for as it does for the home page's new memo.       *)
Cancel ==
    /\ IsOpen /\ ~editor.isRequesting
    /\ contentCache' = ""
    /\ editor' = Closed
    /\ draftNotes' = [draftNotes EXCEPT !.typed = ""]
    /\ UNCHANGED <<memoName, memos, owner, storedMemo, uploads, saves, draftSpent>>

(* The page is left without saving.                                           *)
Leave ==
    /\ IsOpen
    /\ editor' = Closed
    /\ draftNotes' = [draftNotes EXCEPT !.textAtRisk = @ \/ draftNotes.failed,
                                        !.twice = @ \cup {s.content : s \in saves}]
    /\ UNCHANGED <<memoName, memos, owner, storedMemo, contentCache, uploads, saves, draftSpent>>

(* The editor is mounted again, with nothing of its state but the draft.      *)
Open ==
    /\ ~IsOpen
    /\ draftSpent.turns < MaxTurns
    /\ Spend("turns")
    /\ editor' = Mounted(draftSpent.turns + 1, contentCache, storedMemo)
    /\ contentCache' = editor'.text
    /\ draftNotes' = [draftNotes EXCEPT !.wanted = storedMemo.attachments,
                          !.filesAtRisk = saves # {} \/ Uploading # {}
                                            \/ (memoName = 1 /\ FilesOf(1) # storedMemo.attachments)]
    /\ UNCHANGED <<memoName, memos, owner, storedMemo, uploads, saves>>

(* The tab is reloaded: no handler goes on, the memo is fetched anew.         *)
Reload ==
    /\ draftSpent.faults < MaxFaults
    /\ Spend("faults")
    /\ editor' = Closed
    /\ saves' = {}
    /\ uploads' = [f \in Attachment |-> IF f \in Uploading THEN Ended ELSE uploads[f]]
    /\ storedMemo' = IF memoName = 1 THEN [content |-> memos[1].content, attachments |-> FilesOf(1)] ELSE storedMemo
    /\ draftNotes' = [draftNotes EXCEPT !.textAtRisk = @ \/ draftNotes.failed,
                                        !.twice = @ \cup {s.content : s \in saves}]
    /\ UNCHANGED <<memoName, memos, owner, contentCache>>

Next ==
    \/ \E t \in Text \cup {""} : Type(t)
    \/ \E f \in Attachment :
        \/ PickFile(f) \/ DropFile(f) \/ CreateAttachment(f) \/ Picked(f) \/ Dropped(f)
        \/ UpdateAttachment(f) \/ Attached(f) \/ UploadFails(f) \/ RemoveChip(f)
    \/ ClickSave \/ KeySave
    \/ \E s \in saves : ServeSave(s) \/ ServeHalf(s) \/ Saved(s) \/ SaveFails(s)
    \/ Cancel \/ Leave \/ Open \/ Reload

Spec == Init /\ [][Next]_editorVars

-----------------------------------------------------------------------------
(* Text that was typed last, and neither erased nor cancelled, is on screen,  *)
(* in the draft, on its way or saved, unless it was typed while a save was    *)
(* under way, is that of a store copy which is behind the server after a lost *)
(* answer, so that the save finds nothing to change, or the page was left     *)
(* before or after a save failed.                                             *)
TextKept ==
    draftNotes.typed # "" /\ ~draftNotes.textAtRisk =>
        \/ draftNotes.typed \in {editor.text, contentCache}
        \/ \E s \in saves : s.content = draftNotes.typed
        \/ \E i \in DOMAIN memos : memos[i].content = draftNotes.typed

(* A text makes one memo, unless its save made the memo and was answered with *)
(* an error or not at all, or the page was left while it was saved.           *)
SavedOnce ==
    \A i, j \in DOMAIN memos :
        i # j /\ memos[i].content = memos[j].content =>
            memos[i].content \in {""} \cup draftNotes.twice

(* With nothing under way a memo has the files its writer chose: those of     *)
(* uploads that end in any order, less the removed ones.  Not so after a save *)
(* that failed, which the server may have done in part, a save by key or by   *)
(* button during an upload that does not disable it, a change of the list     *)
(* during an upload by the button, files added while others are dropped or a  *)
(* save is under way, a file dropped on an edited memo and removed again,     *)
(* which leaves the list as in the store, and not of the memos a save of these *)
(* takes files from.                                                          *)
MemoHasItsFiles ==
    saves = {} /\ Uploading = {} =>
        \A i \in DOMAIN memos : memos[i].sure => FilesOf(i) = memos[i].wanted

-----------------------------------------------------------------------------
(* What the properties rest on, holding in every state.                       *)

EditorAssumption == 1 \in Attachment

Contents == Text \cup {"", "old"}

IsSaved(t) == \E i \in DOMAIN memos : memos[i].content = t

MemoType == [content : Contents, wanted : SUBSET Attachment, sure : BOOLEAN]
StoredType == [content : Contents, attachments : SUBSET Attachment]
EditorType ==
    [instance : Nat, text : Contents, attachmentList : SUBSET Attachment,
     isRequesting : BOOLEAN, isUploadingAttachment : BOOLEAN, uploadingFlag : BOOLEAN]
UploadType ==
    [at : {"none", "asked", "created", "attach", "attached", "ended"},
     by : {"none", "button", "drop"}, instance : Nat, base : SUBSET Attachment]
IsSave(s) ==
    /\ s \in [instance : Nat \ {0}, at : {"sent", "served", "broken"}, content : Contents,
             attachments : SUBSET Attachment, mask : SUBSET {"content", "attachments"},
             wanted : SUBSET Attachment, sure : BOOLEAN, answer : {s.answer}]
    /\ s.at = "served" => s.answer[1] \in StoredType
NotesType ==
    [typed : Contents, ever : SUBSET Contents, wanted : SUBSET Attachment,
     failed : BOOLEAN, textAtRisk : BOOLEAN, filesAtRisk : BOOLEAN, twice : SUBSET Contents]

TypeOK ==
    /\ memoName \in {0, 1}
    /\ memos \in Seq(MemoType)
    /\ owner \in [DOMAIN owner -> 0 .. Len(memos)] /\ DOMAIN owner \subseteq Attachment
    /\ storedMemo \in StoredType
    /\ contentCache \in Contents
    /\ editor \in EditorType
    /\ uploads \in [Attachment -> UploadType]
    /\ \A s \in saves : IsSave(s)
    /\ draftSpent \in [turns : Nat \ {0}, faults : Nat]
    /\ draftNotes \in NotesType

(* A place writes new memos or edits one, with a mask that says what differs. *)
OneMode ==
    /\ memoName = 1 => Len(memos) = 1
    /\ memoName = 0 =>
        /\ storedMemo = [content |-> "", attachments |-> {}]
        /\ \A s \in saves : s.mask = {"content", "attachments"}
        /\ \A f \in Attachment : uploads[f].at \notin {"attach", "attached"}

(* An editor is a new instance each time and waits for its save.              *)
OneSave ==
    /\ editor.instance <= draftSpent.turns /\ (~IsOpen => editor = Closed)
    /\ \A s \in saves : s.instance <= draftSpent.turns
    /\ \A f \in Uploading : uploads[f].instance \in 1 .. draftSpent.turns /\ uploads[f].by # "none"
    /\ \A s \in saves : s.instance = editor.instance => editor.isRequesting
    /\ \A s, t \in saves : s.instance = t.instance => s = t

(* The text typed last is the only one there is, until it is saved.           *)
TextOnItsWay ==
    LET t == draftNotes.typed
    IN  t # "" /\ ~draftNotes.textAtRisk =>
            \/ memoName = 0 /\ IsSaved(t)
            \/ /\ IsOpen => editor.text = t
               /\ contentCache \in {"", t}
               /\ \A s \in saves :
                    /\ s.content = t
                    /\ s.at = "served" \/ "content" \notin s.mask => IsSaved(t)
                    /\ s.at = "served" /\ memoName = 1 => s.answer[1].content = t
               /\ memoName = 1 /\ storedMemo.content = t => IsSaved(t)
               /\ contentCache = t \/ (IsOpen /\ draftNotes.failed) \/ (memoName = 1 /\ storedMemo.content = t)

(* A text is typed once.                                                      *)
TypedOnce ==
    memoName = 0 =>
        LET ever == draftNotes.ever \cup {""}
        IN  /\ editor.text \in ever /\ contentCache \in ever
            /\ \A s \in saves : s.content \in ever
            /\ \A i \in DOMAIN memos : memos[i].content \in ever

(* A text that is saved or on its way there is not sent again: while it is on *)
(* screen or in the draft its editor waits.                                   *)
SentOnce ==
    memoName = 0 =>
        /\ SavedOnce
        /\ \A s \in saves :
            s.content \notin {""} \cup draftNotes.twice =>
                /\ s.instance = editor.instance
                /\ s.at = "sent" => ~IsSaved(s.content)
        /\ \A t \in {editor.text, contentCache} :
            t \notin {""} \cup draftNotes.twice /\ IsSaved(t) => \E s \in saves : s.content = t

(* A file whose upload has not added it yet is in no list.                    *)
NotYetListed ==
    \A f \in Attachment :
        /\ uploads[f].at \in {"none", "asked"} => f \notin DOMAIN owner
        /\ uploads[f].at \in {"created", "attach"} => f \in DOMAIN owner /\ owner[f] = 0
        /\ uploads[f].at \in {"none", "asked", "created", "attach"} =>
            /\ f \notin editor.attachmentList /\ f \notin storedMemo.attachments
            /\ \A s \in saves : f \notin s.attachments /\ (s.at = "served" => f \notin s.answer[1].attachments)
            /\ \A g \in Attachment : f \notin uploads[g].base

(* New memos take no file from the save of another editor.                    *)
FilesApart ==
    memoName = 0 =>
        /\ \A s, t \in saves : s # t => s.attachments \cap t.attachments = {}
        /\ \A s \in saves : s.instance # editor.instance =>
            /\ s.attachments \cap editor.attachmentList = {}
            /\ \A f \in Uploading : uploads[f].instance = editor.instance => s.attachments \cap uploads[f].base = {}

(* While nothing went wrong the list on screen is what the user chose, less   *)
(* what is being uploaded, uploads and saves are those of this editor, and    *)
(* the files are where the store says.                                        *)
ChosenIsListed == draftNotes.wanted = editor.attachmentList \cup Uploading

UploadsAreOwn ==
    \A f \in Uploading :
        /\ uploads[f].instance = editor.instance
        /\ f \notin editor.attachmentList \cup storedMemo.attachments
        /\ uploads[f].by = "button" => editor.uploadingFlag
        /\ uploads[f].by = "drop" /\ uploads[f].at \in {"asked", "created"} => editor.isUploadingAttachment
        /\ \A g \in Uploading : uploads[f].by = uploads[g].by => f = g

SavesAreOwn ==
    \A s \in saves : s.instance = editor.instance /\ Uploading = {} /\ draftNotes.wanted \subseteq s.wanted

FilesAreStored ==
    saves = {} =>
        /\ memoName = 0 => \A f \in editor.attachmentList \cap DOMAIN owner : owner[f] = 0
        /\ memoName = 1 /\ memos[1].sure =>
            /\ storedMemo.attachments \subseteq FilesOf(1)
            /\ \A f \in FilesOf(1) : f \in storedMemo.attachments \cup editor.attachmentList
                                     \/ uploads[f].at = "attached"

ListIsWanted ==
    IsOpen /\ ~draftNotes.filesAtRisk =>
        ChosenIsListed /\ UploadsAreOwn /\ SavesAreOwn /\ FilesAreStored

(* A save that nothing is wrong with sends what the user chose.               *)
SentAsWanted ==
    /\ \A s, t \in saves : s.sure /\ t.sure => s = t
    /\ \A s \in saves :
        s.at = "sent" /\ s.sure =>
            /\ s.attachments = s.wanted
            /\ memoName = 0 => \A f \in s.attachments \cap DOMAIN owner : owner[f] = 0
            /\ memoName = 1 /\ "attachments" \notin s.mask /\ memos[1].sure => FilesOf(1) = s.wanted

(* What MemoHasItsFiles says, at any time.                                    *)
HasItsFiles == \A i \in DOMAIN memos : memos[i].sure => FilesOf(i) = memos[i].wanted

Inductive ==
    /\ TypeOK /\ OneMode /\ OneSave /\ TextOnItsWay /\ TypedOnce /\ SentOnce
    /\ NotYetListed /\ FilesApart /\ ListIsWanted /\ SentAsWanted /\ HasItsFiles

=============================================================================

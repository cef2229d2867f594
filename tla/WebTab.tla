------------------------------- MODULE WebTab -------------------------------
(***************************************************************************)
(* The parts of a browser tab that share no state with one another, each   *)
(* next to the others without touching them: one behaviour is a behaviour  *)
(* of one part, chosen at the start.                                       *)
(*                                                                         *)
(*   wire    ApiWire     calls between the page and the server             *)
(*   list    MemoPages   the paged list of memos                           *)
(*   tasks   TaskList    the task boxes of a memo                          *)
(*   editor  MemoEditor  the editor with its draft and its uploads         *)
(***************************************************************************)
EXTENDS ApiWire

CONSTANTS
    TabMemo, Stored, Filter, Matches, FirstFilter, PageSize, Slot,
    MaxWrites, MaxLoads, MaxLosses,             \* see MemoPages
    Box, TopBox, Click, MaxFailures,            \* see TaskList
    Text, TabFile, MaxTurns, MaxFaults          \* see MemoEditor

VARIABLES
    tab,
    rows, known, memoMapByName, fetches, currentRequest, isRequesting, nextPageToken,
    filter, checks, calls, pageSpent, pageNotes,
    content, nodes, handlers, taskNotes,
    memoName, memos, owner, storedMemo, contentCache, editor, uploads, saves,
    draftSpent, draftNotes

Pages == INSTANCE MemoPages WITH Memo <- TabMemo
Tasks == INSTANCE TaskList
Editor == INSTANCE MemoEditor WITH Attachment <- TabFile

\* The assumptions of the parts on their constants.
ASSUME ListAssumption == Pages!PagesAssumption
ASSUME BoxAssumption == Tasks!TaskAssumption
ASSUME DraftAssumption == Editor!EditorAssumption

listVars == <<rows, known, memoMapByName, fetches, currentRequest, isRequesting,
              nextPageToken, filter, checks, calls, pageSpent, pageNotes>>
taskListVars == <<content, nodes, handlers, taskNotes>>
memoEditorVars == <<memoName, memos, owner, storedMemo, contentCache, editor, uploads, saves,
                    draftSpent, draftNotes>>
vars == <<tab, wireVars, listVars, taskListVars, memoEditorVars>>

Init ==
    /\ tab \in {"wire", "list", "tasks", "editor"}
    /\ WireInit
    /\ Pages!Init
    /\ Tasks!Init
    /\ Editor!Init
    /\ tab # "tasks" => content = [b \in Box |-> "todo"]
    /\ tab # "editor" => memoName = 0

OfList(A) == tab = "list" /\ A /\ UNCHANGED <<tab, wireVars, taskListVars, memoEditorVars>>

Next ==
    \/ /\ tab = "wire"
       /\ WireNext
       /\ UNCHANGED <<tab, listVars, taskListVars, memoEditorVars>>
    \/ OfList(Pages!Next)
    \/ /\ tab = "tasks"
       /\ Tasks!Next
       /\ UNCHANGED <<tab, wireVars, listVars, memoEditorVars>>
    \/ /\ tab = "editor"
       /\ Editor!Next
       /\ UNCHANGED <<tab, wireVars, listVars, taskListVars>>

(* That of MemoPages: the server answers and the browser runs its timers.    *)
Fairness == WF_vars(OfList(Pages!FetchGoesOn)) /\ WF_vars(OfList(Pages!CheckEnds))

Spec == Init /\ [][Next]_vars /\ Fairness

-----------------------------------------------------------------------------
\* What each part promises; see the module of each.

\* MemoPages: the list is the one of the page's filter.
ListIsOfFilter == Pages!ListIsOfFilter

\* MemoPages: a list without a next page has all its memos.
EndOfListHasAll == Pages!EndOfListHasAll

\* MemoPages: what is shown is what the server has.
ShownIsStored == Pages!ShownIsStored

\* MemoPages: a list that loads stops loading, when the server answers what it
\* is asked, however often loads are aborted or fail.
LoadingEnds == (tab = "list" /\ isRequesting) ~> ~isRequesting

\* TaskList: the boxes show what is saved.
BoxesShowContent == Tasks!BoxesShowContent

\* TaskList: clicks one after the other are all saved.
ClicksAreSaved == Tasks!ClicksAreSaved

\* MemoEditor: what was typed is on screen, in the draft, sent or saved.
TextKept == Editor!TextKept

\* MemoEditor: a text makes one memo.
SavedOnce == Editor!SavedOnce

\* MemoEditor: a memo has the files its writer chose.
MemoHasItsFiles == Editor!MemoHasItsFiles
=============================================================================

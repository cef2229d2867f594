------------------------------ MODULE TaskList ------------------------------
(* The task boxes of one memo on screen (TaskListItem.tsx) and the menu entry *)
(* that removes the ticked ones (MemoActionMenu.tsx).  A click changes the    *)
(* nodes of the memo object in the store, asks the server for their markdown  *)
(* and then saves that as the memo's content.  A content is the state of each *)
(* box.                                                                       *)
EXTENDS Naturals, FiniteSets

CONSTANTS
    Box,
    TopBox,     \* those that are items of a list that is in no other
    Click,      \* the clicks, each a handler of its own
    MaxFailures \* bound on calls that fail

VARIABLES
    content,    \* the memo's row
    nodes,      \* the memo object in the store, what the boxes show
    handlers,   \* per click: how far its handler is
    taskNotes   \* history: what the user asked for and what happened

taskVars == <<content, nodes, handlers, taskNotes>>

Ready == [at |-> "ready"]
Ended == [at |-> "ended"]
Running == {k \in Click : handlers[k].at \notin {"ready", "ended"}}

Init ==
    /\ content \in [Box -> {"todo", "done"}]
    /\ nodes = content
    /\ handlers = [k \in Click |-> Ready]
    /\ taskNotes = [wanted |-> content, overlapped |-> FALSE, reordered |-> FALSE, failures |-> 0]

Begin(k, sentNodes, wants) ==
    /\ handlers[k] = Ready
    /\ handlers' = [handlers EXCEPT ![k] = [at |-> "restore", nodes |-> sentNodes]]
    /\ taskNotes' = [taskNotes EXCEPT !.wanted = wants, !.overlapped = @ \/ Running # {}]

(* Mutant of Tick: the nodes that are sent are those before the click.        *)
TickLate(k, b) ==
    LET on == IF nodes[b] = "todo" THEN "done" ELSE "todo"
    IN  /\ nodes[b] # "gone"
        /\ nodes' = [nodes EXCEPT ![b] = on]
        /\ Begin(k, nodes, [taskNotes.wanted EXCEPT ![b] = on])
        /\ UNCHANGED content

(* handleCheckboxChange: the node is changed in place before the first await. *)
Tick(k, b) ==
    LET on == IF nodes[b] = "todo" THEN "done" ELSE "todo"
    IN  /\ nodes[b] # "gone"
        /\ nodes' = [nodes EXCEPT ![b] = on]
        /\ Begin(k, nodes', [taskNotes.wanted EXCEPT ![b] = on])
        /\ UNCHANGED content

(* The ticked boxes are removed from a copy of the nodes, but for those of    *)
(* lists within a list, which also do not show the menu entry.                *)
Removed(ns) == [b \in Box |-> IF b \in TopBox /\ ns[b] = "done" THEN "gone" ELSE ns[b]]

RemoveCompleted(k) ==
    /\ \E b \in TopBox : nodes[b] = "done"
    /\ Begin(k, Removed(nodes), Removed(nodes))
    /\ UNCHANGED <<content, nodes>>

(* restoreMarkdownNodes answers, updateMemo is called.                        *)
Restored(k) ==
    /\ handlers[k].at = "restore"
    /\ handlers' = [handlers EXCEPT ![k].at = "update"]
    /\ UNCHANGED <<content, nodes, taskNotes>>

(* The server saves the content of a call; two calls of one page may pass     *)
(* each other.                                                                *)
UpdateMemo(k) ==
    /\ handlers[k].at = "update"
    /\ content' = handlers[k].nodes
    /\ handlers' = [handlers EXCEPT ![k].at = "updated"]
    /\ taskNotes' = [taskNotes EXCEPT !.reordered = @ \/ \E j \in Running \ {k} : handlers[j].at = "updated"]
    /\ UNCHANGED nodes

(* Mutant of Updated: the memo object stays as it is.                         *)
UpdatedKept(k) ==
    /\ handlers[k].at = "updated"
    /\ handlers' = [handlers EXCEPT ![k] = Ended]
    /\ UNCHANGED <<nodes, content, taskNotes>>

(* The answer, parsed anew, replaces the memo object.                         *)
Updated(k) ==
    /\ handlers[k].at = "updated"
    /\ nodes' = handlers[k].nodes
    /\ handlers' = [handlers EXCEPT ![k] = Ended]
    /\ UNCHANGED <<content, taskNotes>>

(* A call fails before or after the server did its part: nothing puts the box *)
(* back.                                                                      *)
Fails(k) ==
    /\ k \in Running
    /\ taskNotes.failures < MaxFailures
    /\ handlers' = [handlers EXCEPT ![k] = Ended]
    /\ taskNotes' = [taskNotes EXCEPT !.failures = @ + 1]
    /\ UNCHANGED <<content, nodes>>

Next ==
    \E k \in Click :
        \/ \E b \in Box : Tick(k, b)
        \/ RemoveCompleted(k)
        \/ Restored(k) \/ UpdateMemo(k) \/ Updated(k) \/ Fails(k)

Spec == Init /\ [][Next]_taskVars

-----------------------------------------------------------------------------
(* What the properties rest on, holding in every state.                       *)

TaskAssumption == TopBox \subseteq Box

Nodes == [Box -> {"todo", "done", "gone"}]

TypeOK ==
    /\ content \in Nodes /\ nodes \in Nodes
    /\ handlers \in [Click -> {Ready, Ended} \cup [at : {"restore", "update", "updated"}, nodes : Nodes]]
    /\ taskNotes \in [wanted : Nodes, overlapped : BOOLEAN, reordered : BOOLEAN, failures : Nat]

(* While no answer was passed by another save, the one on its way has what is *)
(* saved, and with none under way the boxes show it.                          *)
AnswerIsSaved ==
    taskNotes.failures = 0 /\ ~taskNotes.reordered =>
        /\ \A k \in Running :
               handlers[k].at = "updated" =>
                   /\ handlers[k].nodes = content
                   /\ \A j \in Running \ {k} : handlers[j].at # "updated"
        /\ Running = {} => nodes = content

(* While clicks come one after the other, the handler of the last carries all *)
(* that was asked for, and between them all of it is saved and shown.         *)
CarriesAll ==
    taskNotes.failures = 0 /\ ~taskNotes.overlapped =>
        /\ \A k \in Running :
               /\ Running = {k}
               /\ handlers[k].nodes = taskNotes.wanted
               /\ handlers[k].at = "updated" => content = taskNotes.wanted
        /\ Running = {} => nodes = content /\ content = taskNotes.wanted

Inductive == TypeOK /\ AnswerIsSaved /\ CarriesAll

-----------------------------------------------------------------------------
(* When all calls have ended the boxes show what is saved, unless one failed  *)
(* or two saves were under way at the server or on their way back at once.    *)
BoxesShowContent ==
    Running = {} /\ taskNotes.failures = 0 /\ ~taskNotes.reordered => nodes = content

(* Clicks of which none began while another's handler ran are all saved.      *)
ClicksAreSaved ==
    Running = {} /\ taskNotes.failures = 0 /\ ~taskNotes.overlapped => content = taskNotes.wanted
=============================================================================

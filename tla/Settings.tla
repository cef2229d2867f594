------------------------------ MODULE Settings ------------------------------
(***************************************************************************)
(* The two tables of settings, each with its cache and neither touching    *)
(* the other: the lists of a user (SettingLists) and the setting of the    *)
(* workspace that says what may be saved (WorkspaceSettings).  One         *)
(* behaviour is a behaviour of one of them, chosen at the start.           *)
(***************************************************************************)
EXTENDS SettingLists

CONSTANTS Length, DefaultContentLengthLimit     \* see WorkspaceSettings

VARIABLES ofWorkspace, setting, settingCache, reads, settingCrossed

Workspace == INSTANCE WorkspaceSettings WITH Reader <- Proc, NoSetting <- None

ASSUME WorkspaceAssumption == Workspace!Values

workspaceVars == <<setting, settingCache, reads, settingCrossed>>
vars == <<ofWorkspace, listVars, workspaceVars>>

Init ==
    /\ ofWorkspace \in BOOLEAN
    /\ ListsInit
    /\ Workspace!SettingInit
    /\ ofWorkspace => webhooks = FALSE

Next ==
    \/ /\ ~ofWorkspace
       /\ ListsNext
       /\ UNCHANGED <<ofWorkspace, workspaceVars>>
    \/ /\ ofWorkspace
       /\ Workspace!SettingNext
       /\ UNCHANGED <<ofWorkspace, listVars>>

Spec == Init /\ [][Next]_vars

---------------------------------------------------------------------------
(* Properties, next to AnswersFollowCalls.                                 *)

\* The inductive invariants of the two tables, which the proofs are about.
Inductive ==
    /\ ~ofWorkspace => ListsInductive
    /\ ofWorkspace => Workspace!Inductive

\* WorkspaceSettings: memos are saved only as the setting allows.
SavedAsAllowed == Workspace!SavedAsAllowed
=============================================================================

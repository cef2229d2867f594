------------------------- MODULE WorkspaceSettings -------------------------
(***************************************************************************)
(* The MEMO_RELATED setting of the workspace: its row in system_setting,   *)
(* its entry in Store.workspaceSettingCache (store/workspace_setting.go),  *)
(* the requests that read and replace it (workspace_service.go) and those  *)
(* that ask it whether a memo may be saved (memo_service.go).  The getter  *)
(* sets the entry again whether it found it or not, so that every reader   *)
(* writes the cache.                                                       *)
(*                                                                         *)
(* The getter fills defaults into the object it got, which the cache and   *)
(* other readers may hold: filling it twice is filling it once, so a       *)
(* setting is a value here, and Limit is what a reader makes of it.        *)
(***************************************************************************)
EXTENDS Naturals

CONSTANTS
    Reader,     \* goroutines serving requests
    Length,     \* lengths of contents, and limits an administrator sets
    DefaultContentLengthLimit,
    NoSetting   \* no row, no entry, no request

VARIABLES
    setting,        \* the row
    settingCache,   \* the entry
    reads,          \* the request of each goroutine
    settingCrossed  \* history: the entry may be one that a write has overtaken

settingVars == <<setting, settingCache, reads, settingCrossed>>

Setting == [disallowPublic : BOOLEAN, limit : Length]
Unset == [disallowPublic |-> FALSE, limit |-> 0]

\* WorkspaceMemoRelatedSetting with its defaults.
Limit(s) == IF s.limit < DefaultContentLengthLimit THEN DefaultContentLengthLimit ELSE s.limit
Given(s) == IF s = NoSetting THEN Unset ELSE s

Memo == [public : BOOLEAN, length : Length]
Kind == {"create", "limit", "visibility", "content", "read", "update"}
Stage == {"get", "list", "fill", "check", "put", "set"}
Asked == [kind : Kind, stage : Stage, memo : Memo, held : Setting, late : BOOLEAN, loose : BOOLEAN]

\* The assumption on the constants.
Values ==
    /\ Length \subseteq Nat /\ 0 \in Length
    /\ DefaultContentLengthLimit \in Nat
    /\ NoSetting \notin Setting /\ NoSetting \notin Asked

Free(r) == reads[r] = NoSetting
Is(r, stage) == ~Free(r) /\ reads[r].stage = stage
Put(r, stage, s) == reads' = [reads EXCEPT ![r].stage = stage, ![r].held = s]
Leave(r) == reads' = [reads EXCEPT ![r] = NoSetting]

SettingInit ==
    /\ setting = NoSetting
    /\ settingCache = NoSetting
    /\ reads = [r \in Reader |-> NoSetting]
    /\ settingCrossed = FALSE

\* The row is written and the entry is not.
Changing == \E r \in Reader : Is(r, "set")

\* A request of some kind.  History: late says that what it holds was read
\* before a write, loose that a write overlapped it or that it was given what
\* another reader had read before one.
Request(r, kind, stage, memo, held) ==
    /\ Free(r)
    /\ reads' = [reads EXCEPT ![r] =
            [kind |-> kind, stage |-> stage, memo |-> memo, held |-> held, late |-> FALSE,
             loose |-> Changing]]
    /\ UNCHANGED <<setting, settingCache, settingCrossed>>

---------------------------------------------------------------------------
(* Requests.                                                               *)

\* CreateMemo asks the setting twice, for the visibility and for the limit.
CreateMemo(r) == \E m \in Memo : Request(r, "create", "get", m, Unset)

\* UpdateMemo of the visibility, and of the content.
UpdateVisibility(r) ==
    \E p \in BOOLEAN :
        Request(r, "visibility", "get", [public |-> p, length |-> 0], Unset)
UpdateContent(r) ==
    \E n \in Length :
        Request(r, "content", "get", [public |-> FALSE, length |-> n], Unset)

\* GetWorkspaceSetting fills the cache with defaults and then reads it.
GetWorkspaceSetting(r) ==
    Request(r, "read", "get", [public |-> FALSE, length |-> 0], Unset)

\* UpdateWorkspaceSetting replaces the whole setting; the mask is not used.
UpdateWorkspaceSetting(r) ==
    \E s \in Setting :
        Request(r, "update", "put", [public |-> FALSE, length |-> 0], s)

---------------------------------------------------------------------------
(* GetWorkspaceMemoRelatedSetting.                                         *)

Hit(r) ==
    /\ Is(r, "get")
    /\ settingCache # NoSetting
    /\ reads' = [reads EXCEPT ![r].stage = "fill", ![r].held = settingCache,
                              ![r].late = (settingCrossed \/ Changing),
                              ![r].loose = (@ \/ settingCrossed)]
    /\ UNCHANGED <<setting, settingCache, settingCrossed>>

Miss(r) ==
    /\ Is(r, "get")
    /\ settingCache = NoSetting
    /\ Put(r, IF setting = NoSetting THEN "fill" ELSE "list", Given(setting))
    /\ UNCHANGED <<setting, settingCache, settingCrossed>>

Caches(r) ==
    /\ settingCache' = reads[r].held
    /\ settingCrossed' = reads[r].late
    /\ UNCHANGED setting

\* ListWorkspaceSettings caches the row as it was read.
Listed(r) ==
    /\ Is(r, "list")
    /\ Caches(r)
    /\ Put(r, "fill", reads[r].held)

\* The getter caches what it got with the defaults and returns it.
Filled(r) ==
    /\ Is(r, "fill")
    /\ Caches(r)
    /\ IF reads[r].kind = "read" THEN Leave(r)
       ELSE reads' = [reads EXCEPT ![r].stage = "check", ![r].late = FALSE]

---------------------------------------------------------------------------
(* What the caller makes of it.                                            *)

AsksVisibility(kind) == kind \in {"create", "visibility"}
AsksLimit(kind) == kind \in {"content", "limit"}

Allows(r, s) ==
    /\ AsksVisibility(reads[r].kind) => ~(s.disallowPublic /\ reads[r].memo.public)
    /\ AsksLimit(reads[r].kind) => reads[r].memo.length <= Limit(s)

Refuse(r) ==
    /\ Is(r, "check")
    /\ ~Allows(r, reads[r].held)
    /\ Leave(r)
    /\ UNCHANGED <<setting, settingCache, settingCrossed>>

\* The memo may have its visibility, and its content is next.
AllowVisibility(r) ==
    /\ Is(r, "check") /\ reads[r].kind = "create"
    /\ Allows(r, reads[r].held)
    /\ reads' = [reads EXCEPT ![r].kind = "limit", ![r].stage = "get", ![r].held = Unset]
    /\ UNCHANGED <<setting, settingCache, settingCrossed>>

\* The memo is saved.
Save(r) ==
    /\ Is(r, "check") /\ reads[r].kind # "create"
    /\ Allows(r, reads[r].held)
    /\ Leave(r)
    /\ UNCHANGED <<setting, settingCache, settingCrossed>>

---------------------------------------------------------------------------
(* UpsertWorkspaceSetting: the row, then the cache.                        *)

\* The statement, and an error though it was executed.
Write(r) ==
    LET others == [o \in Reader |->
            IF o = r \/ Free(o) THEN reads[o]
            ELSE [reads[o] EXCEPT !.late = reads[o].stage \in {"list", "fill", "set"}, !.loose = TRUE]] IN
    /\ Is(r, "put")
    /\ setting' = reads[r].held
    /\ UNCHANGED settingCache
    /\ \/ /\ reads' = [others EXCEPT ![r].stage = "set"]
          /\ UNCHANGED settingCrossed
       \/ /\ reads' = [others EXCEPT ![r] = NoSetting]
          /\ settingCrossed' = TRUE

\* Mutant of SetCache: the entry is left as it was.
LeaveCache(r) ==
    /\ Is(r, "set")
    /\ Leave(r)
    /\ UNCHANGED <<setting, settingCache, settingCrossed>>

SetCache(r) ==
    /\ Is(r, "set")
    /\ Caches(r)
    /\ Leave(r)

\* A query or a statement fails and changed nothing.
Fail(r) ==
    /\ Is(r, "put") \/ (Is(r, "get") /\ settingCache = NoSetting)
    /\ Leave(r)
    /\ UNCHANGED <<setting, settingCache, settingCrossed>>

\* The entry expires.
Expire ==
    /\ settingCache # NoSetting
    /\ settingCache' = NoSetting
    /\ settingCrossed' = FALSE
    /\ UNCHANGED <<setting, reads>>

SettingNext ==
    \/ \E r \in Reader :
        \/ CreateMemo(r)
        \/ UpdateVisibility(r)
        \/ UpdateContent(r)
        \/ GetWorkspaceSetting(r)
        \/ UpdateWorkspaceSetting(r)
        \/ Hit(r)
        \/ Miss(r)
        \/ Listed(r)
        \/ Filled(r)
        \/ Refuse(r)
        \/ AllowVisibility(r)
        \/ Save(r)
        \/ Write(r)
        \/ SetCache(r)
        \/ Fail(r)
    \/ Expire

---------------------------------------------------------------------------
(* Properties.                                                             *)

\* Type invariant.
TypeOK ==
    /\ setting \in Setting \cup {NoSetting}
    /\ settingCache \in Setting \cup {NoSetting}
    /\ reads \in [Reader -> {NoSetting} \cup Asked]
    /\ settingCrossed \in BOOLEAN

\* Where a request of each kind can be, and what it says of its memo.
Shape ==
    \A r \in Reader : ~Free(r) =>
        /\ reads[r].stage \in {"put", "set"} <=> reads[r].kind = "update"
        /\ reads[r].stage = "check" => reads[r].kind # "read"
        /\ reads[r].kind = "visibility" => reads[r].memo.length = 0
        /\ reads[r].kind = "content" => ~reads[r].memo.public

\* An entry that was not overtaken is the setting, but for one that is about to
\* be replaced.
EntryFollows ==
    settingCache # NoSetting /\ ~settingCrossed /\ ~Changing => settingCache = Given(setting)

\* What is not late is the setting, and so is what a request was given that no
\* change overlapped.
HeldFollows ==
    \A r \in Reader : ~Free(r) =>
        /\ reads[r].stage \in {"list", "fill", "set"} /\ ~reads[r].late => reads[r].held = Given(setting)
        /\ reads[r].stage \in {"list", "fill", "check"} /\ ~reads[r].loose => reads[r].held = Given(setting)
        /\ reads[r].stage \in {"get", "check", "put"} => ~reads[r].late
        /\ ~reads[r].loose /\ reads[r].stage # "set" => ~Changing

\* A memo whose limit is being asked has passed the question before.
Passed ==
    \A r \in Reader :
        ~Free(r) /\ reads[r].kind = "limit" /\ ~reads[r].loose =>
            ~(reads[r].memo.public /\ Given(setting).disallowPublic)

Inductive == TypeOK /\ Shape /\ EntryFollows /\ HeldFollows /\ Passed

\* A memo is saved only as the setting of the workspace allows: not in public
\* when "disable public memos system setting is enabled" and no longer than
\* the limit, whatever readers the setting was changed among.  Excepted are
\* requests that a change of the setting overlapped, and those that come while
\* the cache holds what a reader set back or a failed change left behind.
SavedAsAllowed ==
    [][\A r \in Reader :
          (Save(r) /\ ~reads[r].loose) =>
              /\ ~(reads[r].memo.public /\ Given(setting).disallowPublic)
              /\ reads[r].memo.length <= Limit(Given(setting))]_settingVars
=============================================================================

--------------------------- MODULE Settings_proofs ---------------------------
(***************************************************************************)
(* What the two tables of settings promise, for any number of goroutines,  *)
(* items and objects: a memo is saved as the setting of the workspace      *)
(* allows, and a list is answered as the calls on it left it.              *)
(***************************************************************************)
EXTENDS Settings, TLAPS

---------------------------------------------------------------------------
(* The setting of the workspace.                                           *)

\* What the invariant says of one request.
Sound(x) ==
    x # None =>
        /\ x.stage \in {"put", "set"} <=> x.kind = "update"
        /\ x.stage = "check" => x.kind # "read"
        /\ x.kind = "visibility" => x.memo.length = 0
        /\ x.kind = "content" => ~x.memo.public
        /\ x.stage \in {"list", "fill", "set"} /\ ~x.late => x.held = Workspace!Given(setting)
        /\ x.stage \in {"list", "fill", "check"} /\ ~x.loose => x.held = Workspace!Given(setting)
        /\ x.stage \in {"get", "check", "put"} => ~x.late
        /\ ~x.loose /\ x.stage # "set" => ~Workspace!Changing
        /\ x.kind = "limit" /\ ~x.loose =>
            ~(x.memo.public /\ Workspace!Given(setting).disallowPublic)

LEMMA InductiveIsSound ==
    Workspace!Inductive <=>
        /\ Workspace!TypeOK
        /\ Workspace!EntryFollows
        /\ \A r \in Proc : Sound(reads[r])
BY DEF Workspace!Inductive, Workspace!Shape, Workspace!HeldFollows, Workspace!Passed,
       Workspace!Free, Sound

\* The defaults are a setting, and so is what a reader makes of the row.
LEMMA GivenIsSetting ==
    ASSUME Workspace!TypeOK
    PROVE  /\ Workspace!Unset \in Workspace!Setting
           /\ Workspace!Given(setting) \in Workspace!Setting
BY WorkspaceAssumption
   DEF Workspace!TypeOK, Workspace!Values, Workspace!Unset, Workspace!Given, Workspace!Setting

\* A step of one request that leaves the row alone, and the entry alone or
\* sets it to what the request holds.
LEMMA MoveStep ==
    ASSUME Workspace!Inductive, NEW r \in Proc, NEW x \in {None} \cup Workspace!Asked, Sound(x),
           reads' = [reads EXCEPT ![r] = x], setting' = setting,
           x # None => x.stage # "set",
           \/ settingCache' = settingCache /\ settingCrossed' = settingCrossed /\ ~Workspace!Is(r, "set")
           \/ /\ reads[r] # None /\ reads[r].stage \in {"list", "fill", "set"}
              /\ settingCache' = reads[r].held /\ settingCrossed' = reads[r].late
    PROVE  Workspace!Inductive'
<1>1. /\ Workspace!TypeOK
      /\ Workspace!EntryFollows
      /\ \A q \in Proc : Sound(reads[q])
    BY InductiveIsSound
<1>2. /\ reads \in [Proc -> {None} \cup Workspace!Asked]
      /\ reads'[r] = x /\ \A q \in Proc : q # r => reads'[q] = reads[q]
    BY <1>1 DEF Workspace!TypeOK
<1>3. Workspace!TypeOK'
    BY <1>1, <1>2 DEF Workspace!TypeOK, Workspace!Asked
<1>4. Workspace!Changing' => Workspace!Changing
    BY <1>2 DEF Workspace!Changing, Workspace!Is, Workspace!Free
<1>5. Workspace!Given(setting)' = Workspace!Given(setting)
    BY DEF Workspace!Given
<1>6. Workspace!EntryFollows'
    <2>1. CASE settingCache' = settingCache /\ settingCrossed' = settingCrossed /\ ~Workspace!Is(r, "set")
        <3>1. Workspace!Changing => Workspace!Changing'
            BY <1>2, <2>1 DEF Workspace!Changing, Workspace!Is, Workspace!Free
        <3> QED BY <1>1, <1>5, <2>1, <3>1 DEF Workspace!EntryFollows
    <2>2. CASE /\ reads[r] # None /\ reads[r].stage \in {"list", "fill", "set"}
               /\ settingCache' = reads[r].held /\ settingCrossed' = reads[r].late
        BY <1>1, <1>5, <2>2 DEF Workspace!EntryFollows, Sound
    <2> QED BY <2>1, <2>2
<1>7. \A q \in Proc : Sound(reads[q])'
    <2> SUFFICES ASSUME NEW q \in Proc
                 PROVE  Sound(reads[q])'
        OBVIOUS
    <2>1. CASE q = r
        <3>1. reads'[q] = x /\ Sound(x)
            BY <1>2, <2>1
        <3> QED BY <3>1, <1>4, <1>5 DEF Sound
    <2>2. CASE q # r
        <3>1. reads'[q] = reads[q] /\ Sound(reads[q])
            BY <1>1, <1>2, <2>2
        <3> QED BY <3>1, <1>4, <1>5 DEF Sound
    <2> QED BY <2>1, <2>2
<1> QED BY <1>3, <1>6, <1>7
        DEF Workspace!Inductive, Workspace!Shape, Workspace!HeldFollows, Workspace!Passed,
            Workspace!Free, Sound

\* A request begins.
LEMMA RequestStep ==
    ASSUME Workspace!Inductive, NEW r \in Proc,
           NEW k \in Workspace!Kind, NEW s \in {"get", "put"}, NEW m \in Workspace!Memo,
           NEW h \in Workspace!Setting, Workspace!Request(r, k, s, m, h),
           s = "put" <=> k = "update",
           k = "visibility" => m.length = 0, k = "content" => ~m.public, k # "limit"
    PROVE  Workspace!Inductive'
<1> DEFINE x == [kind |-> k, stage |-> s, memo |-> m, held |-> h, late |-> FALSE,
                 loose |-> Workspace!Changing]
<1>1. x \in Workspace!Asked
    BY DEF Workspace!Asked, Workspace!Stage, Workspace!Changing
<1>2. Sound(x)
    BY DEF Sound
<1>3. reads' = [reads EXCEPT ![r] = x] /\ reads[r] = None
    BY DEF Workspace!Request, Workspace!Free
<1> QED BY <1>1, <1>2, <1>3, MoveStep DEF Workspace!Request, Workspace!Is, Workspace!Free

\* What a request of the workspace holds.
LEMMA ReadIs ==
    ASSUME Workspace!Inductive, NEW r \in Proc, reads[r] # None
    PROVE  /\ reads[r] \in Workspace!Asked
           /\ Sound(reads[r])
BY InductiveIsSound DEF Workspace!TypeOK

\* A request ends.
LEMMA LeaveStep ==
    ASSUME Workspace!Inductive, NEW r \in Proc, Workspace!Leave(r), setting' = setting,
           \/ settingCache' = settingCache /\ settingCrossed' = settingCrossed /\ ~Workspace!Is(r, "set")
           \/ /\ reads[r] # None /\ reads[r].stage \in {"list", "fill", "set"}
              /\ settingCache' = reads[r].held /\ settingCrossed' = reads[r].late
    PROVE  Workspace!Inductive'
BY MoveStep DEF Workspace!Leave, Sound

LEMMA HitStep ==
    ASSUME Workspace!Inductive, NEW r \in Proc, Workspace!Hit(r)
    PROVE  Workspace!Inductive'
<1> DEFINE x == [reads[r] EXCEPT !.stage = "fill", !.held = settingCache,
                                 !.late = (settingCrossed \/ Workspace!Changing),
                                 !.loose = (@ \/ settingCrossed)]
<1>1. reads[r] # None /\ reads[r].stage = "get" /\ reads[r] \in Workspace!Asked /\ Sound(reads[r])
    BY ReadIs DEF Workspace!Hit, Workspace!Is, Workspace!Free
<1>2. Workspace!TypeOK /\ Workspace!EntryFollows /\ settingCache # None
    BY DEF Workspace!Inductive, Workspace!Hit
<1>3. reads' = [reads EXCEPT ![r] = x]
    BY DEF Workspace!Hit
<1>4. x \in Workspace!Asked
    BY <1>1, <1>2 DEF Workspace!TypeOK, Workspace!Asked, Workspace!Stage, Workspace!Changing
<1>5. Sound(x)
    BY <1>1, <1>2 DEF Sound, Workspace!EntryFollows, Workspace!Asked, Workspace!Changing
<1> QED BY <1>1, <1>3, <1>4, <1>5, MoveStep DEF Workspace!Hit, Workspace!Is, Workspace!Asked

LEMMA MissStep ==
    ASSUME Workspace!Inductive, NEW r \in Proc, Workspace!Miss(r)
    PROVE  Workspace!Inductive'
<1> DEFINE x == [reads[r] EXCEPT !.stage = IF setting = None THEN "fill" ELSE "list",
                                 !.held = Workspace!Given(setting)]
<1>1. reads[r] # None /\ reads[r].stage = "get" /\ reads[r] \in Workspace!Asked /\ Sound(reads[r])
    BY ReadIs DEF Workspace!Miss, Workspace!Is, Workspace!Free
<1>2. Workspace!Given(setting) \in Workspace!Setting
    BY GivenIsSetting DEF Workspace!Inductive
<1>3. reads' = [reads EXCEPT ![r] = x]
    BY DEF Workspace!Miss, Workspace!Put
<1>4. x \in Workspace!Asked
    BY <1>1, <1>2 DEF Workspace!Asked, Workspace!Stage
<1>5. Sound(x)
    BY <1>1, <1>2 DEF Sound, Workspace!Asked
<1> QED BY <1>1, <1>3, <1>4, <1>5, MoveStep DEF Workspace!Miss, Workspace!Is, Workspace!Asked

LEMMA ListedStep ==
    ASSUME Workspace!Inductive, NEW r \in Proc, Workspace!Listed(r)
    PROVE  Workspace!Inductive'
<1> DEFINE x == [reads[r] EXCEPT !.stage = "fill", !.held = reads[r].held]
<1>1. reads[r] # None /\ reads[r].stage = "list" /\ reads[r] \in Workspace!Asked /\ Sound(reads[r])
    BY ReadIs DEF Workspace!Listed, Workspace!Is, Workspace!Free
<1>2. reads' = [reads EXCEPT ![r] = x]
    BY DEF Workspace!Listed, Workspace!Put
<1>3. x \in Workspace!Asked /\ x.stage = "fill"
    BY <1>1 DEF Workspace!Asked, Workspace!Stage
<1>4. Sound(x)
    BY <1>1 DEF Sound, Workspace!Asked
<1> QED BY <1>1, <1>2, <1>3, <1>4, MoveStep DEF Workspace!Listed, Workspace!Caches

LEMMA FilledStep ==
    ASSUME Workspace!Inductive, NEW r \in Proc, Workspace!Filled(r)
    PROVE  Workspace!Inductive'
<1>1. reads[r] # None /\ reads[r].stage = "fill" /\ reads[r] \in Workspace!Asked /\ Sound(reads[r])
    BY ReadIs DEF Workspace!Filled, Workspace!Is, Workspace!Free
<1>2. setting' = setting /\ settingCache' = reads[r].held /\ settingCrossed' = reads[r].late
    BY DEF Workspace!Filled, Workspace!Caches
<1>3. CASE reads[r].kind = "read"
    BY <1>1, <1>2, <1>3, LeaveStep DEF Workspace!Filled
<1>4. CASE reads[r].kind # "read"
    <2> DEFINE x == [reads[r] EXCEPT !.stage = "check", !.late = FALSE]
    <2>1. reads' = [reads EXCEPT ![r] = x]
        BY <1>4 DEF Workspace!Filled
    <2>2. x \in Workspace!Asked /\ x.stage = "check"
        BY <1>1 DEF Workspace!Asked, Workspace!Stage
    <2>3. Sound(x)
        BY <1>1, <1>4 DEF Sound, Workspace!Asked
    <2> QED BY <1>1, <1>2, <2>1, <2>2, <2>3, MoveStep
<1> QED BY <1>3, <1>4

LEMMA AllowVisibilityStep ==
    ASSUME Workspace!Inductive, NEW r \in Proc, Workspace!AllowVisibility(r)
    PROVE  Workspace!Inductive'
<1> DEFINE x == [reads[r] EXCEPT !.kind = "limit", !.stage = "get", !.held = Workspace!Unset]
<1>1. /\ reads[r] # None /\ reads[r].stage = "check" /\ reads[r].kind = "create"
      /\ reads[r] \in Workspace!Asked /\ Sound(reads[r])
    BY ReadIs DEF Workspace!AllowVisibility, Workspace!Is, Workspace!Free
<1>2. reads' = [reads EXCEPT ![r] = x]
    BY DEF Workspace!AllowVisibility
<1>3. x \in Workspace!Asked
    BY <1>1, GivenIsSetting DEF Workspace!Inductive, Workspace!Asked, Workspace!Stage, Workspace!Kind
<1>4. ~(reads[r].held.disallowPublic /\ reads[r].memo.public)
    BY <1>1 DEF Workspace!AllowVisibility, Workspace!Allows, Workspace!AsksVisibility
<1>5. Sound(x)
    BY <1>1, <1>4 DEF Sound, Workspace!Asked
<1> QED BY <1>1, <1>2, <1>3, <1>5, MoveStep
        DEF Workspace!AllowVisibility, Workspace!Is, Workspace!Asked

\* What a write makes of another request.
Overlapped(x) == [x EXCEPT !.late = x.stage \in {"list", "fill", "set"}, !.loose = TRUE]

LEMMA OverlappedIs ==
    ASSUME NEW x \in Workspace!Asked
    PROVE  /\ Overlapped(x) \in Workspace!Asked
           /\ Overlapped(x).kind = x.kind /\ Overlapped(x).stage = x.stage
           /\ Overlapped(x).memo = x.memo /\ Overlapped(x).held = x.held
           /\ Overlapped(x).late <=> x.stage \in {"list", "fill", "set"}
           /\ Overlapped(x).loose
<1> DEFINE y == Overlapped(x)
<1>1. y.kind = x.kind /\ y.stage = x.stage /\ y.memo = x.memo /\ y.held = x.held
    BY DEF Workspace!Asked, Overlapped
<1>2. y.late = (x.stage \in {"list", "fill", "set"}) /\ y.loose = TRUE
    BY DEF Workspace!Asked, Overlapped
<1>3. (x.stage \in {"list", "fill", "set"}) \in BOOLEAN
    OBVIOUS
<1>4. y \in Workspace!Asked
    BY <1>3 DEF Workspace!Asked, Overlapped
<1> QED BY <1>1, <1>2, <1>4

\* The row is written: what others hold is late, and their answers are loose.
LEMMA WriteStep ==
    ASSUME Workspace!Inductive, NEW r \in Proc, Workspace!Write(r)
    PROVE  Workspace!Inductive'
<1>1. /\ reads[r] # None /\ reads[r].stage = "put" /\ reads[r] \in Workspace!Asked /\ Sound(reads[r])
      /\ reads[r].kind = "update" /\ ~reads[r].late
    BY ReadIs DEF Workspace!Write, Workspace!Is, Workspace!Free, Sound
<1>2. Workspace!TypeOK /\ settingCache' = settingCache /\ setting' = reads[r].held
    BY DEF Workspace!Inductive, Workspace!Write
<1>3. setting' \in Workspace!Setting /\ setting' # None /\ Workspace!Given(setting)' = setting'
    BY <1>1, <1>2, WorkspaceAssumption DEF Workspace!Asked, Workspace!Values, Workspace!Given
<1>4. ASSUME NEW o \in Proc, o # r
      PROVE  reads'[o] \in {None} \cup Workspace!Asked /\ Sound(reads[o])'
    <2>1. CASE reads[o] = None
        <3>1. reads'[o] = None
            BY <1>2, <1>4, <2>1 DEF Workspace!Write, Workspace!TypeOK, Workspace!Free
        <3> QED BY <3>1 DEF Sound
    <2>2. CASE reads[o] # None
        <3>1. reads[o] \in Workspace!Asked /\ Sound(reads[o])
            BY <2>2, ReadIs
        <3>2. reads'[o] = Overlapped(reads[o])
            BY <1>2, <1>4, <2>2 DEF Workspace!Write, Workspace!TypeOK, Workspace!Free, Overlapped
        <3>3. /\ reads'[o] \in Workspace!Asked
              /\ reads'[o].kind = reads[o].kind /\ reads'[o].stage = reads[o].stage
              /\ reads'[o].memo = reads[o].memo /\ reads'[o].held = reads[o].held
              /\ reads'[o].late <=> reads[o].stage \in {"list", "fill", "set"}
              /\ reads'[o].loose
            BY <3>1, <3>2, OverlappedIs
        <3>4. /\ reads'[o].stage \in {"put", "set"} <=> reads'[o].kind = "update"
              /\ reads'[o].stage = "check" => reads'[o].kind # "read"
              /\ reads'[o].kind = "visibility" => reads'[o].memo.length = 0
              /\ reads'[o].kind = "content" => ~reads'[o].memo.public
            BY <2>2, <3>1, <3>3 DEF Sound
        <3>5. reads'[o].stage \in {"get", "check", "put"} => ~reads'[o].late
            BY <3>3
        <3> QED BY <3>3, <3>4, <3>5 DEF Sound
    <2> QED BY <2>1, <2>2
<1>5. reads' = [o \in Proc |-> reads'[o]]
    BY <1>2 DEF Workspace!Write, Workspace!TypeOK
<1>6. settingCrossed' \in BOOLEAN /\ (settingCrossed' \/ reads'[r] = [reads[r] EXCEPT !.stage = "set"])
    BY <1>2 DEF Workspace!Write, Workspace!TypeOK
<1>7. \/ reads'[r] = [reads[r] EXCEPT !.stage = "set"]
      \/ reads'[r] = None
    BY <1>2 DEF Workspace!Write, Workspace!TypeOK
<1>8. reads'[r] \in {None} \cup Workspace!Asked /\ Sound(reads[r])'
    <2>1. CASE reads'[r] = [reads[r] EXCEPT !.stage = "set"]
        BY <1>1, <1>2, <1>3, <2>1 DEF Sound, Workspace!Asked, Workspace!Stage
    <2>2. CASE reads'[r] = None
        BY <2>2 DEF Sound
    <2> QED BY <1>7, <2>1, <2>2
<1>9. reads' \in [Proc -> {None} \cup Workspace!Asked]
    BY <1>4, <1>5, <1>8
<1>10. Workspace!TypeOK'
    BY <1>2, <1>3, <1>6, <1>9 DEF Workspace!TypeOK
<1>11. Workspace!EntryFollows'
    <2> SUFFICES ASSUME ~settingCrossed' PROVE Workspace!Changing'
        BY DEF Workspace!EntryFollows
    <2>1. reads'[r] \in Workspace!Asked /\ reads'[r].stage = "set"
        BY <1>1, <1>6 DEF Workspace!Asked, Workspace!Stage
    <2>2. reads'[r] # None
        BY <2>1, WorkspaceAssumption DEF Workspace!Values
    <2> QED BY <2>1, <2>2 DEF Workspace!Changing, Workspace!Is, Workspace!Free
<1>12. \A o \in Proc : Sound(reads[o])'
    BY <1>4, <1>8
<1> QED BY <1>10, <1>11, <1>12
        DEF Workspace!Inductive, Workspace!Shape, Workspace!HeldFollows, Workspace!Passed,
            Workspace!Free, Sound

LEMMA SetCacheStep ==
    ASSUME Workspace!Inductive, NEW r \in Proc, Workspace!SetCache(r)
    PROVE  Workspace!Inductive'
BY LeaveStep DEF Workspace!SetCache, Workspace!Caches, Workspace!Is, Workspace!Free

LEMMA ExpireStep ==
    ASSUME Workspace!Inductive, Workspace!Expire
    PROVE  Workspace!Inductive'
<1>1. /\ reads' = reads /\ setting' = setting /\ settingCache' = None /\ ~settingCrossed'
      /\ settingCrossed' \in BOOLEAN
    BY DEF Workspace!Expire
<1>2. Workspace!TypeOK' /\ Workspace!EntryFollows'
    BY <1>1 DEF Workspace!Inductive, Workspace!TypeOK, Workspace!EntryFollows
<1> QED BY <1>1, <1>2
        DEF Workspace!Inductive, Workspace!Shape, Workspace!HeldFollows, Workspace!Passed,
            Workspace!Free, Workspace!Changing, Workspace!Is, Workspace!Given

LEMMA WorkspaceInit ==
    ASSUME Workspace!SettingInit
    PROVE  Workspace!Inductive
BY WorkspaceAssumption
   DEF Workspace!SettingInit, Workspace!Inductive, Workspace!TypeOK, Workspace!Shape,
       Workspace!EntryFollows, Workspace!HeldFollows, Workspace!Passed, Workspace!Free

LEMMA WorkspaceStutters ==
    ASSUME Workspace!Inductive, UNCHANGED workspaceVars
    PROVE  Workspace!Inductive'
<1>1. reads' = reads /\ setting' = setting /\ settingCache' = settingCache /\ settingCrossed' = settingCrossed
    BY DEF workspaceVars
<1> QED BY <1>1
        DEF Workspace!Inductive, Workspace!TypeOK, Workspace!Shape, Workspace!EntryFollows,
            Workspace!HeldFollows, Workspace!Passed, Workspace!Free, Workspace!Changing,
            Workspace!Is, Workspace!Given

\* One step of the workspace part.
LEMMA WorkspaceInductive ==
    ASSUME Workspace!Inductive, [Workspace!SettingNext]_workspaceVars
    PROVE  Workspace!Inductive'
<1>1. \A b \in BOOLEAN, n \in Length : [public |-> b, length |-> n] \in Workspace!Memo
    BY DEF Workspace!Memo
<1>2. 0 \in Length /\ Workspace!Unset \in Workspace!Setting
    BY GivenIsSetting, WorkspaceAssumption DEF Workspace!Values, Workspace!Inductive
<1>3. ASSUME NEW r \in Proc, Workspace!CreateMemo(r)
      PROVE  Workspace!Inductive'
    BY <1>2, <1>3, RequestStep DEF Workspace!CreateMemo, Workspace!Kind
<1>4. ASSUME NEW r \in Proc, Workspace!UpdateVisibility(r)
      PROVE  Workspace!Inductive'
    BY <1>1, <1>2, <1>4, RequestStep DEF Workspace!UpdateVisibility, Workspace!Kind
<1>5. ASSUME NEW r \in Proc, Workspace!UpdateContent(r)
      PROVE  Workspace!Inductive'
    BY <1>1, <1>2, <1>5, RequestStep DEF Workspace!UpdateContent, Workspace!Kind
<1>6. ASSUME NEW r \in Proc, Workspace!GetWorkspaceSetting(r)
      PROVE  Workspace!Inductive'
    BY <1>1, <1>2, <1>6, RequestStep DEF Workspace!GetWorkspaceSetting, Workspace!Kind
<1>7. ASSUME NEW r \in Proc, Workspace!UpdateWorkspaceSetting(r)
      PROVE  Workspace!Inductive'
    BY <1>1, <1>2, <1>7, RequestStep DEF Workspace!UpdateWorkspaceSetting, Workspace!Kind
<1>8. ASSUME NEW r \in Proc, Workspace!Refuse(r) \/ Workspace!Save(r) \/ Workspace!Fail(r)
      PROVE  Workspace!Inductive'
    BY <1>8, LeaveStep DEF Workspace!Refuse, Workspace!Save, Workspace!Fail, Workspace!Is, Workspace!Free
<1> QED BY <1>3, <1>4, <1>5, <1>6, <1>7, <1>8, HitStep, MissStep, ListedStep, FilledStep,
           AllowVisibilityStep, WriteStep, SetCacheStep, ExpireStep, WorkspaceStutters
        DEF Workspace!SettingNext

\* What a save that no change of the setting overlapped was allowed by is the
\* setting.
LEMMA SaveAllowed ==
    ASSUME Workspace!Inductive, NEW r \in Proc, Workspace!Save(r), ~reads[r].loose
    PROVE  /\ ~(reads[r].memo.public /\ Workspace!Given(setting).disallowPublic)
           /\ reads[r].memo.length <= Workspace!Limit(Workspace!Given(setting))
<1>1. /\ reads[r] # None /\ reads[r].stage = "check" /\ reads[r].kind # "create"
      /\ Workspace!Allows(r, reads[r].held)
      /\ reads[r] \in Workspace!Asked /\ Sound(reads[r])
    BY ReadIs DEF Workspace!Save, Workspace!Is, Workspace!Free
<1>2. reads[r].held = Workspace!Given(setting) /\ reads[r].kind \in {"limit", "visibility", "content"}
    BY <1>1 DEF Sound, Workspace!Asked, Workspace!Kind
<1>3. 0 <= Workspace!Limit(Workspace!Given(setting))
    <2>1. Workspace!Given(setting).limit \in Nat /\ DefaultContentLengthLimit \in Nat
        BY GivenIsSetting, WorkspaceAssumption
           DEF Workspace!Inductive, Workspace!Values, Workspace!Setting
    <2> QED BY <2>1 DEF Workspace!Limit
<1> QED BY <1>1, <1>2, <1>3
        DEF Sound, Workspace!Allows, Workspace!AsksVisibility, Workspace!AsksLimit

---------------------------------------------------------------------------
(* The lists of a user: what a step does.                                  *)

\* One step of the goroutine p.
Acts(p) ==
    \/ Read(p) \/ Create(p) \/ Update(p) \/ Delete(p)
    \/ (Get(p) /\ Same)
    \/ Answer(p) \/ Found(p)
    \/ Add(p) \/ Remove(p) \/ Replace(p)
    \/ (Exec(p) /\ Same)
    \/ (ExecFails(p) /\ Same)
    \/ Done(p) \/ GiveUp(p)

LEMMA ListsNextIs == ListsNext <=> (\E p \in Proc : Acts(p)) \/ Expire \/ Restart
BY DEF ListsNext, Acts

\* A request begins.
Begins(p) ==
    \E kind \in {"read", "create", "update", "delete"}, i \in Item \cup {None}, u \in Url \cup {None} :
        /\ Start(p, kind, i, u)
        /\ kind # "read" => i \in Item
        /\ kind = "delete" => u = None
        /\ kind = "update" => webhooks

LEMMA BeginsIs ==
    ASSUME TypeOK, NEW p \in Proc, Read(p) \/ Create(p) \/ Update(p) \/ Delete(p)
    PROVE  Begins(p) /\ handed' \subseteq Item
<1>1. CASE Read(p)
    BY <1>1 DEF Read, Begins, TypeOK
<1>2. CASE Create(p)
    BY <1>2 DEF Create, Begins, TypeOK
<1>3. CASE Update(p)
    BY <1>3 DEF Update, Begins, TypeOK
<1>4. CASE Delete(p)
    BY <1>4 DEF Delete, Begins, TypeOK
<1> QED BY <1>1, <1>2, <1>3, <1>4

\* The steps with the list that a request makes after it has begun.
Goes(p) ==
    \/ (Get(p) /\ Same)
    \/ Answer(p) \/ Found(p)
    \/ Add(p) \/ Remove(p) \/ Replace(p)
    \/ (Exec(p) /\ Same)
    \/ (ExecFails(p) /\ Same)
    \/ Done(p) \/ GiveUp(p)

LEMMA ActsIs ==
    ASSUME TypeOK, NEW p \in Proc, Acts(p)
    PROVE  (Begins(p) /\ handed' \subseteq Item) \/ Goes(p)
BY BeginsIs DEF Acts, Goes

\* The list a goroutine looks at.
LEMMA ViewIs ==
    ASSUME TypeOK, Shape, NEW p \in Proc
    PROVE  /\ View(p) \in List
           /\ ref[p] # None => ref[p] \in Ref /\ Held(ref[p]) /\ heap[ref[p]] # None /\ heap[ref[p]] \in List
<1>1. Blank \in List
    BY DEF Blank, List
<1>2. ASSUME ref[p] # None
      PROVE  ref[p] \in Ref /\ Held(ref[p]) /\ heap[ref[p]] # None /\ heap[ref[p]] \in List
    BY <1>2 DEF TypeOK, Shape, Held
<1> QED BY <1>1, <1>2 DEF View

\* What a goroutine would write is a list, with the change it is for.
LEMMA WithIs ==
    ASSUME TypeOK, Shape, NEW p \in Proc, Writes(p), NEW u \in Url \cup {None}
    PROVE  /\ orders[p] \in Order /\ orders[p].item \in Item
           /\ With(p, u) \in List
           /\ With(p, u)[orders[p].item] = u
           /\ \A i \in Item : i # orders[p].item => With(p, u)[i] = View(p)[i]
<1>1. orders[p] \in Order /\ orders[p].item \in Item
    BY DEF TypeOK, Shape, Writes
<1>2. View(p) \in List
    BY ViewIs
<1> QED BY <1>1, <1>2 DEF With, List

\* Collecting what nobody points to leaves lists.
LEMMA SweptIs ==
    ASSUME NEW h \in [Ref -> List \cup {None}]
    PROVE  /\ Swept(h) \in [Ref -> List \cup {None}]
           /\ \A r \in Ref : Swept(h)[r] # None => Swept(h)[r] = h[r] /\ Held(r)'
           /\ \A r \in Ref : Held(r)' => Swept(h)[r] = h[r]
BY DEF Swept

\* What a goroutine that writes its list has at hand.
LEMMA PreparedIs ==
    ASSUME TypeOK, Shape, NEW p \in Proc, Add(p) \/ Remove(p) \/ Replace(p)
    PROVE  \E l \in List, h \in [Ref -> List \cup {None}] :
            /\ Prepare(p, l, h) /\ Same
            /\ \A i \in Item : i # orders[p].item => l[i] = View(p)[i]
            /\ \A r \in Ref : (h[r] = None <=> heap[r] = None)
            /\ \A r \in Ref : heap[r] # None => \A i \in Item : i # orders[p].item => h[r][i] = heap[r][i]
            /\ \/ l[orders[p].item] = orders[p].url
               \/ orders[p].kind = "update" /\ View(p)[orders[p].item] = None
            /\ Writes(p) /\ pc[p] = "got" /\ ~orders[p].looks /\ orders[p].item \in Item
<1>1. /\ pc[p] = "got" /\ Writes(p) /\ ~orders[p].looks
      /\ \/ orders[p].kind = "create" /\ Add(p)
         \/ orders[p].kind = "delete" /\ Remove(p)
         \/ orders[p].kind = "update" /\ Replace(p)
    BY DEF Add, Remove, Replace, Computes, Writes, Busy
<1>2. orders[p] \in Order /\ orders[p].item \in Item /\ orders[p].url \in Url \cup {None}
    BY <1>1, WithIs DEF Order
<1>3. heap \in [Ref -> List \cup {None}] /\ View(p) \in List
    BY ViewIs DEF TypeOK
<1>4. CASE orders[p].kind = "create" /\ Add(p)
    <2>1. Prepare(p, With(p, orders[p].url), heap) /\ Same
        BY <1>4 DEF Add
    <2> QED BY <1>1, <1>2, <1>3, <2>1, WithIs
<1>5. CASE orders[p].kind = "delete" /\ Remove(p)
    <2>1. Prepare(p, With(p, None), heap) /\ Same
        BY <1>5 DEF Remove
    <2>2. orders[p].url = None
        BY <1>1, <1>5 DEF Shape, Writes
    <2> QED BY <1>1, <1>2, <1>3, <2>1, <2>2, WithIs
<1>6. CASE orders[p].kind = "update" /\ Replace(p)
    <2> DEFINE l == IF View(p)[orders[p].item] = None THEN View(p) ELSE With(p, orders[p].url)
               h == IF ref[p] = None THEN heap ELSE [heap EXCEPT ![ref[p]] = l]
    <2>1. Prepare(p, l, h) /\ Same
        BY <1>6 DEF Replace
    <2>2. /\ l \in List
          /\ \A i \in Item : i # orders[p].item => l[i] = View(p)[i]
          /\ l[orders[p].item] = orders[p].url \/ View(p)[orders[p].item] = None
        BY <1>1, <1>2, <1>3, WithIs
    <2> HIDE DEF l
    <2>3. l # None
        BY <2>2, NoneIsNoList
    <2>4. /\ h \in [Ref -> List \cup {None}]
          /\ \A r \in Ref : r # ref[p] => h[r] = heap[r]
          /\ ref[p] # None => h[ref[p]] = l /\ heap[ref[p]] = View(p) /\ heap[ref[p]] # None
        BY <1>3, <2>2, ViewIs DEF View
    <2> HIDE DEF h
    <2>5. \A r \in Ref : (h[r] = None <=> heap[r] = None)
        BY <2>3, <2>4, NoneIsNoRef
    <2>6. \A r \in Ref : heap[r] # None => \A i \in Item : i # orders[p].item => h[r][i] = heap[r][i]
        BY <2>2, <2>4, NoneIsNoRef
    <2> QED BY <1>1, <1>2, <1>6, <2>1, <2>2, <2>4, <2>5, <2>6
<1> QED BY <1>1, <1>4, <1>5, <1>6

\* Where a goroutine goes is a place.
LEMMA GotoIs ==
    ASSUME TypeOK, NEW p \in Proc, NEW l \in PC, Goto(p, l)
    PROVE  /\ pc' \in [Proc -> PC] /\ pc'[p] = l
           /\ \A q \in Proc : q # p => pc'[q] = pc[q]
BY DEF TypeOK, Goto

LEMMA TypeStep ==
    ASSUME TypeOK, Shape, ListsNext
    PROVE  TypeOK'
<1> USE DEF TypeOK
<1>1. ASSUME NEW p \in Proc, Begins(p), handed' \subseteq Item
      PROVE  TypeOK'
    <2>1. PICK kind \in {"read", "create", "update", "delete"}, i \in Item \cup {None}, u \in Url \cup {None} :
            /\ Start(p, kind, i, u)
            /\ kind # "read" => i \in Item
        BY <1>1 DEF Begins
    <2>2. UNCHANGED <<row, cached, heap, ref, draft, webhooks>> /\ pc' \in [Proc -> PC]
        BY <2>1, GotoIs DEF Start, PC
    <2>3. expected' \in [Item -> Url \cup {None, Unknown}]
        BY <2>1 DEF Start
    <2>4. orders' \in [Proc -> Order \cup {None}]
        <3> SUFFICES ASSUME NEW q \in Proc
                     PROVE  orders'[q] \in Order \cup {None}
            BY <2>1 DEF Start
        <3>1. CASE q = p
            <4> DEFINE others == {o \in Proc : Busy(o)}
            <4>1. orders'[q] = [kind |-> kind, item |-> i, url |-> u,
                        looks |-> (webhooks /\ kind \in {"update", "delete"}),
                        alone |-> (others = {} /\ (kind = "update" => expected[i] # Unknown))]
                BY <2>1, <3>1 DEF Start
            <4>2. (others = {} /\ (kind = "update" => expected[i] # Unknown)) \in BOOLEAN
                OBVIOUS
            <4>3. (webhooks /\ kind \in {"update", "delete"}) \in BOOLEAN
                OBVIOUS
            <4> HIDE DEF others
            <4> QED BY <4>1, <4>2, <4>3 DEF Order
        <3>2. CASE q # p /\ Busy(q)
            <4>1. orders'[q] = [orders[q] EXCEPT !.alone = FALSE]
                BY <2>1, <3>2 DEF Start
            <4>2. orders[q] \in Order
                BY <3>2 DEF Shape
            <4> QED BY <4>1, <4>2 DEF Order
        <3>3. CASE q # p /\ ~Busy(q)
            BY <2>1, <3>3 DEF Start
        <3> QED BY <3>1, <3>2, <3>3
    <2> QED BY <1>1, <2>2, <2>3, <2>4
<1>2. ASSUME NEW p \in Proc, Get(p), Same
      PROVE  TypeOK'
    <2>1. UNCHANGED <<row, draft, webhooks, orders, handed, expected>>
        BY <1>2 DEF Get, CacheHit, CacheMiss, ListRow, ListNoRow, ListFails, Fill, Same
    <2>2. pc' \in [Proc -> PC]
        BY <1>2, GotoIs DEF Get, CacheHit, CacheMiss, ListRow, ListNoRow, ListFails, Fill, PC
    <2>3. CASE CacheHit(p)
        BY <2>1, <2>2, <2>3 DEF CacheHit, Hold
    <2>4. CASE CacheMiss(p) \/ ListNoRow(p) \/ ListFails(p)
        BY <2>1, <2>2, <2>4 DEF CacheMiss, ListNoRow, ListFails
    <2>5. CASE ListRow(p)
        BY <2>1, <2>2, <2>5 DEF ListRow, Hold
    <2>6. CASE Fill(p)
        BY <2>1, <2>2, <2>6, SweptIs DEF Fill
    <2> QED BY <1>2, <2>3, <2>4, <2>5, <2>6 DEF Get
<1>3. ASSUME NEW p \in Proc, NEW l \in {"idle", "get"}, Return(p, l), UNCHANGED <<webhooks, handed, expected>>,
             orders' \in [Proc -> Order \cup {None}]
      PROVE  TypeOK'
    <2>1. pc' \in [Proc -> PC]
        BY <1>3, GotoIs DEF Return, PC
    <2>2. ref' \in [Proc -> Ref \cup {None}]
        BY <1>3 DEF Return, Drop, Hold
    <2> QED BY <1>3, <2>1, <2>2, SweptIs DEF Return
<1>4. ASSUME NEW p \in Proc, Answer(p) \/ GiveUp(p)
      PROVE  TypeOK'
    BY <1>3, <1>4 DEF Answer, GiveUp, Finish
<1>5. ASSUME NEW p \in Proc, Found(p)
      PROVE  TypeOK'
    <2>1. orders[p] \in Order
        BY <1>5 DEF Found, Shape, Busy
    <2>2. [orders[p] EXCEPT !.looks = FALSE] \in Order
        BY <2>1 DEF Order
    <2>3. orders' \in [Proc -> Order \cup {None}]
        BY <1>5, <2>2 DEF Found
    <2> QED BY <1>3, <1>5, <2>3 DEF Found
<1>6. ASSUME NEW p \in Proc, Add(p) \/ Remove(p) \/ Replace(p)
      PROVE  TypeOK'
    <2>1. PICK l \in List, h \in [Ref -> List \cup {None}] : Prepare(p, l, h) /\ Same
        BY <1>6, PreparedIs
    <2>2. pc' \in [Proc -> PC]
        BY <2>1, GotoIs DEF Prepare, PC
    <2> QED BY <2>1, <2>2, SweptIs DEF Prepare, Drop, Hold, Same
<1>7. ASSUME NEW p \in Proc, Exec(p), Same
      PROVE  TypeOK'
    <2>1. pc' \in [Proc -> PC]
        BY <1>7, GotoIs DEF Exec, PC
    <2> QED BY <1>7, <2>1 DEF Exec, Hold, Same
<1>8. ASSUME NEW p \in Proc, ExecFails(p), Same
      PROVE  TypeOK'
    <2>1. pc' \in [Proc -> PC]
        BY <1>8, GotoIs DEF ExecFails, PC
    <2> QED BY <1>8, <2>1 DEF ExecFails, Same
<1>9. ASSUME NEW p \in Proc, Done(p)
      PROVE  TypeOK'
    <2>1. pc' \in [Proc -> PC] /\ ref' \in [Proc -> Ref \cup {None}]
        BY <1>9, GotoIs DEF Done, SetCache, Drop, Hold, PC
    <2>2. orders[p] \in Order
        BY <1>9 DEF Done, SetCache, Shape, Busy
    <2>3. expected' \in [Item -> Url \cup {None, Unknown}]
        BY <1>9, <2>2 DEF Done, Order
    <2> QED BY <1>9, <2>1, <2>3, SweptIs DEF Done, SetCache, Finish
<1>10. CASE Expire
    BY <1>10, SweptIs DEF Expire, Evict, Same
<1>11. CASE Restart
    BY <1>11 DEF Restart, CellRestart, PC
<1> HIDE DEF TypeOK
<1> QED BY <1>1, <1>2, <1>4, <1>5, <1>6, <1>7, <1>8, <1>9, <1>10, <1>11, ListsNextIs, ActsIs
        DEF Goes

\* What the shape of the state says of one goroutine.
Placed(p) ==
    /\ Busy(p) <=> orders[p] # None
    /\ ref[p] # None => pc[p] \in {"fill", "refill", "got", "set"}
    /\ pc[p] \in {"fill", "refill", "set"} => ref[p] # None
    /\ pc[p] = "put" => draft[p] # None
    /\ pc[p] \in {"put", "set"} => orders[p].kind # "read" /\ ~orders[p].looks
    /\ Writes(p) => orders[p].item \in Item
    /\ Busy(p) => (orders[p].looks => orders[p].kind \in {"update", "delete"})
    /\ Busy(p) => (orders[p].kind = "delete" => orders[p].url = None)

LEMMA ShapeIs == Shape <=> (\A r \in Ref : Held(r) => heap[r] # None) /\ \A p \in Proc : Placed(p)
BY DEF Shape, Placed

\* A step of p that is no request beginning leaves the others alone.
LEMMA OthersStay ==
    ASSUME TypeOK, Shape, NEW p \in Proc, Goes(p), NEW q \in Proc, q # p
    PROVE  /\ pc'[q] = pc[q] /\ ref'[q] = ref[q] /\ draft'[q] = draft[q] /\ orders'[q] = orders[q]
           /\ webhooks' = webhooks
<1>1. CASE Get(p) /\ Same
    BY <1>1 DEF Get, CacheHit, CacheMiss, ListRow, ListNoRow, ListFails, Fill, Same, Goto, Hold, TypeOK
<1>2. CASE Answer(p) \/ Found(p) \/ GiveUp(p)
    BY <1>2 DEF Answer, Found, GiveUp, Return, Finish, Drop, Hold, Goto, TypeOK
<1>3. CASE Add(p) \/ Remove(p) \/ Replace(p)
    <2>1. PICK l \in List, h \in [Ref -> List \cup {None}] : Prepare(p, l, h) /\ Same
        BY <1>3, PreparedIs
    <2> QED BY <2>1 DEF Prepare, Drop, Hold, Goto, Same, TypeOK
<1>4. CASE Exec(p) /\ Same
    BY <1>4 DEF Exec, Hold, Goto, Same, TypeOK
<1>5. CASE ExecFails(p) /\ Same
    BY <1>5 DEF ExecFails, Goto, Same, TypeOK
<1>6. CASE Done(p)
    BY <1>6 DEF Done, SetCache, Drop, Hold, Goto, Finish, TypeOK
<1> QED BY <1>1, <1>2, <1>3, <1>4, <1>5, <1>6 DEF Goes

\* Pointers are dropped and copied: nothing is held that was not.
LEMMA HeldBefore ==
    ASSUME cached' \in {cached, None} \cup {ref[p] : p \in Proc},
           \A p \in Proc : ref'[p] \in {ref[p], None, cached},
           NEW r \in Ref, Held(r)'
    PROVE  Held(r)
BY NoneIsNoRef DEF Held

LEMMA ShapeStep ==
    ASSUME TypeOK, Shape, ListsNext
    PROVE  Shape'
<1>0. (\A r \in Ref : Held(r) => heap[r] # None) /\ \A p \in Proc : Placed(p)
    BY ShapeIs
<1>1. ASSUME NEW p \in Proc, Begins(p)
      PROVE  Shape'
    <2>1. PICK kind \in {"read", "create", "update", "delete"}, i \in Item \cup {None}, u \in Url \cup {None} :
            /\ Start(p, kind, i, u)
            /\ kind # "read" => i \in Item
            /\ kind = "delete" => u = None
        BY <1>1 DEF Begins
    <2>2. /\ UNCHANGED <<row, cached, heap, ref, draft, webhooks>>
          /\ pc'[p] = "get" /\ \A q \in Proc : q # p => pc'[q] = pc[q]
          /\ pc[p] = "idle"
        BY <2>1, GotoIs DEF Start, PC, Busy
    <2>3. \A r \in Ref : Held(r)' => heap'[r] # None
        BY <1>0, <2>2 DEF Held
    <2>4. /\ orders'[p].kind = kind /\ orders'[p].item = i /\ orders'[p].url = u /\ orders'[p] # None
          /\ orders'[p].looks => kind \in {"update", "delete"}
        <3> DEFINE x == [kind |-> kind, item |-> i, url |-> u,
                         looks |-> (webhooks /\ kind \in {"update", "delete"}),
                         alone |-> ({o \in Proc : Busy(o)} = {} /\ (kind = "update" => expected[i] # Unknown))]
        <3>1. orders'[p] = x
            BY <2>1 DEF Start
        <3>2. x \in Order
            <4>1. ({o \in Proc : Busy(o)} = {} /\ (kind = "update" => expected[i] # Unknown)) \in BOOLEAN
                OBVIOUS
            <4>2. (webhooks /\ kind \in {"update", "delete"}) \in BOOLEAN
                OBVIOUS
            <4> QED BY <4>1, <4>2 DEF Order
        <3>3. x # None
            BY <3>2, NoneIsNoList
        <3>4. x.looks = (webhooks /\ kind \in {"update", "delete"})
            OBVIOUS
        <3>5. x.kind = kind /\ x.item = i /\ x.url = u
            OBVIOUS
        <3> HIDE DEF x
        <3>6. x.looks => kind \in {"update", "delete"}
            BY <3>4
        <3> QED BY <3>1, <3>3, <3>5, <3>6
    <2>5. Placed(p)'
        BY <1>0, <2>1, <2>2, <2>4 DEF Placed, Busy, Writes
    <2>6. ASSUME NEW q \in Proc, q # p
          PROVE  Placed(q)'
        <3>1. CASE Busy(q)
            <4>1. orders'[q] = [orders[q] EXCEPT !.alone = FALSE]
                BY <2>1, <2>6, <3>1 DEF Start
            <4>2. orders[q] \in Order
                BY <3>1 DEF Shape, TypeOK
            <4>3. /\ orders'[q] \in Order
                  /\ orders'[q].kind = orders[q].kind /\ orders'[q].item = orders[q].item
                  /\ orders'[q].url = orders[q].url /\ orders'[q].looks = orders[q].looks
                BY <4>1, <4>2 DEF Order
            <4>4. orders'[q] # None
                BY <4>3, NoneIsNoList
            <4> QED BY <1>0, <2>2, <2>6, <3>1, <4>3, <4>4 DEF Placed, Busy, Writes
        <3>2. CASE ~Busy(q)
            <4>1. orders'[q] = orders[q]
                BY <2>1, <2>6, <3>2 DEF Start
            <4> QED BY <1>0, <2>2, <2>6, <4>1 DEF Placed, Busy, Writes
        <3> QED BY <3>1, <3>2
    <2> QED BY <2>3, <2>5, <2>6 DEF Shape, Placed
<1>2. ASSUME NEW p \in Proc, Goes(p), Placed(p)', \A r \in Ref : Held(r)' => heap'[r] # None
      PROVE  Shape'
    <2>1. ASSUME NEW q \in Proc, q # p
          PROVE  Placed(q)'
        <3>1. pc'[q] = pc[q] /\ ref'[q] = ref[q] /\ draft'[q] = draft[q] /\ orders'[q] = orders[q]
            BY <1>2, <2>1, OthersStay
        <3> QED BY <1>0, <3>1 DEF Placed, Busy, Writes
    <2> QED BY <1>2, <2>1 DEF Shape, Placed
<1>3. ASSUME NEW p \in Proc, Get(p), Same
      PROVE  Shape'
    <2>1. orders' = orders /\ draft' = draft
        BY <1>3 DEF Get, CacheHit, CacheMiss, ListRow, ListNoRow, ListFails, Fill, Same
    <2>2. CASE CacheHit(p)
        <3>1. Placed(p)'
            BY <1>0, <2>1, <2>2 DEF CacheHit, Hold, Goto, TypeOK, Placed, Busy, Writes
        <3>2. ASSUME NEW r \in Ref, Held(r)' PROVE heap'[r] # None
            <4>1. Held(r)
                BY <2>2, <3>2, HeldBefore DEF CacheHit, Hold, TypeOK
            <4> QED BY <1>0, <2>2, <4>1 DEF CacheHit
        <3> QED BY <1>2, <1>3, <3>1, <3>2 DEF Goes
    <2>3. CASE CacheMiss(p) \/ ListNoRow(p) \/ ListFails(p)
        <3>1. Placed(p)'
            BY <1>0, <2>1, <2>3 DEF CacheMiss, ListNoRow, ListFails, Goto, TypeOK, Placed, Busy, Writes
        <3>2. ASSUME NEW r \in Ref, Held(r)' PROVE heap'[r] # None
            BY <1>0, <2>3, <3>2 DEF CacheMiss, ListNoRow, ListFails, Held
        <3> QED BY <1>2, <1>3, <3>1, <3>2 DEF Goes
    <2>4. CASE ListRow(p)
        <3>1. PICK s \in Ref : heap' = [heap EXCEPT ![s] = row] /\ Hold(p, s)
            BY <2>4 DEF ListRow
        <3>2. Placed(p)'
            BY <1>0, <2>1, <2>4, <3>1, NoneIsNoRef DEF ListRow, Hold, Goto, TypeOK, Placed, Busy, Writes
        <3>3. ASSUME NEW r \in Ref, Held(r)', r # s PROVE heap'[r] # None
            <4>1. Held(r)
                BY <2>4, <3>1, <3>3 DEF ListRow, Hold, Held, TypeOK
            <4> QED BY <1>0, <3>1, <3>3, <4>1 DEF TypeOK
        <3>4. heap'[s] # None
            BY <2>4, <3>1 DEF ListRow, TypeOK
        <3> QED BY <1>2, <1>3, <3>2, <3>3, <3>4 DEF Goes
    <2>5. CASE Fill(p)
        <3>1. Placed(p)'
            BY <1>0, <2>1, <2>5 DEF Fill, Goto, TypeOK, Placed, Busy, Writes
        <3>2. ASSUME NEW r \in Ref, Held(r)' PROVE heap'[r] # None
            <4>1. Held(r)
                BY <2>5, <3>2, HeldBefore DEF Fill
            <4>2. heap'[r] = heap[r]
                BY <2>5, <3>2, SweptIs DEF Fill, TypeOK
            <4> QED BY <1>0, <4>1, <4>2
        <3> QED BY <1>2, <1>3, <3>1, <3>2 DEF Goes
    <2> QED BY <1>3, <2>2, <2>3, <2>4, <2>5 DEF Get
<1>4. ASSUME NEW p \in Proc, NEW l \in {"idle", "get"}, Return(p, l), NEW r \in Ref, Held(r)'
      PROVE  heap'[r] # None
    <2>1. Held(r)
        BY <1>4, HeldBefore DEF Return, Drop, Hold, TypeOK
    <2>2. heap'[r] = heap[r]
        BY <1>4, SweptIs DEF Return, TypeOK
    <2> QED BY <1>0, <2>1, <2>2
<1>5. ASSUME NEW p \in Proc, Answer(p) \/ GiveUp(p)
      PROVE  Shape'
    <2>1. Return(p, "idle") /\ Finish(p)
        BY <1>5 DEF Answer, GiveUp
    <2>2. Placed(p)'
        BY <2>1 DEF Return, Drop, Hold, Goto, Finish, TypeOK, Placed, Busy, Writes
    <2> QED BY <1>2, <1>4, <1>5, <2>1, <2>2 DEF Goes
<1>6. ASSUME NEW p \in Proc, Found(p)
      PROVE  Shape'
    <2>1. Return(p, "get") /\ orders[p] \in Order /\ Busy(p)
        BY <1>6 DEF Found, Shape, TypeOK, Busy
    <2>2. /\ orders'[p] \in Order
          /\ orders'[p].kind = orders[p].kind /\ orders'[p].item = orders[p].item
          /\ orders'[p].url = orders[p].url /\ ~orders'[p].looks
        BY <1>6, <2>1 DEF Found, TypeOK, Order
    <2>3. orders'[p] # None
        BY <2>2, NoneIsNoList
    <2>4. Placed(p)'
        BY <1>0, <2>1, <2>2, <2>3 DEF Return, Drop, Hold, Goto, TypeOK, Placed, Busy, Writes
    <2> QED BY <1>2, <1>4, <1>6, <2>1, <2>4 DEF Goes
<1>7. ASSUME NEW p \in Proc, Add(p) \/ Remove(p) \/ Replace(p)
      PROVE  Shape'
    <2>1. PICK l \in List, h \in [Ref -> List \cup {None}] :
            /\ Prepare(p, l, h) /\ Same
            /\ \A r \in Ref : (h[r] = None <=> heap[r] = None)
            /\ Writes(p) /\ pc[p] = "got" /\ ~orders[p].looks
        BY <1>7, PreparedIs
    <2>2. l # None
        BY NoneIsNoList
    <2>3. Placed(p)'
        BY <1>0, <2>1, <2>2 DEF Prepare, Drop, Hold, Goto, Same, TypeOK, Placed, Busy, Writes
    <2>4. ASSUME NEW r \in Ref, Held(r)' PROVE heap'[r] # None
        <3>1. Held(r)
            BY <2>1, <2>4, HeldBefore DEF Prepare, Drop, Hold, TypeOK
        <3>2. heap'[r] = h[r]
            BY <2>1, <2>4, SweptIs DEF Prepare
        <3> QED BY <1>0, <2>1, <3>1, <3>2
    <2> QED BY <1>2, <1>7, <2>3, <2>4 DEF Goes
<1>8. ASSUME NEW p \in Proc, Exec(p), Same
      PROVE  Shape'
    <2>1. PICK s \in Ref : heap' = [heap EXCEPT ![s] = draft[p]] /\ Hold(p, s)
        BY <1>8 DEF Exec
    <2>2. Placed(p)'
        BY <1>0, <1>8, <2>1, NoneIsNoRef DEF Exec, Hold, Goto, Same, TypeOK, Placed, Busy, Writes
    <2>3. ASSUME NEW r \in Ref, Held(r)', r # s PROVE heap'[r] # None
        <3>1. Held(r)
            BY <1>8, <2>1, <2>3 DEF Exec, Hold, Held, TypeOK
        <3> QED BY <1>0, <2>1, <2>3, <3>1 DEF TypeOK
    <2>4. heap'[s] # None
        BY <1>0, <1>8, <2>1 DEF Exec, TypeOK, Placed
    <2> QED BY <1>2, <1>8, <2>2, <2>3, <2>4 DEF Goes
<1>9. ASSUME NEW p \in Proc, ExecFails(p), Same
      PROVE  Shape'
    <2>1. Placed(p)'
        BY <1>0, <1>9 DEF ExecFails, Goto, Same, TypeOK, Placed, Busy, Writes
    <2>2. ASSUME NEW r \in Ref, Held(r)' PROVE heap'[r] # None
        BY <1>0, <1>9, <2>2 DEF ExecFails, Held
    <2> QED BY <1>2, <1>9, <2>1, <2>2 DEF Goes
<1>10. ASSUME NEW p \in Proc, Done(p)
      PROVE  Shape'
    <2>1. Placed(p)'
        BY <1>10 DEF Done, SetCache, Drop, Hold, Goto, Finish, TypeOK, Placed, Busy, Writes
    <2>2. ASSUME NEW r \in Ref, Held(r)' PROVE heap'[r] # None
        <3>1. Held(r)
            BY <1>10, <2>2, HeldBefore DEF Done, SetCache, Drop, Hold, TypeOK
        <3>2. heap'[r] = heap[r]
            BY <1>10, <2>2, SweptIs DEF Done, SetCache, TypeOK
        <3> QED BY <1>0, <3>1, <3>2
    <2> QED BY <1>2, <1>10, <2>1, <2>2 DEF Goes
<1>11. CASE Expire
    <2>1. ASSUME NEW r \in Ref, Held(r)' PROVE heap'[r] # None
        <3>1. Held(r)
            BY <1>11, <2>1, HeldBefore DEF Expire, Evict
        <3>2. heap'[r] = heap[r]
            BY <1>11, <2>1, SweptIs DEF Expire, Evict, TypeOK
        <3> QED BY <1>0, <3>1, <3>2
    <2>2. \A p \in Proc : Placed(p)'
        BY <1>0, <1>11 DEF Expire, Evict, Same, Placed, Busy, Writes
    <2> QED BY <2>1, <2>2 DEF Shape, Placed
<1>12. CASE Restart
    <2>1. \A r \in Ref : ~Held(r)'
        BY <1>12, NoneIsNoRef DEF Restart, CellRestart, Held
    <2>2. \A p \in Proc : Placed(p)'
        BY <1>12 DEF Restart, CellRestart, Placed, Busy, Writes
    <2> QED BY <2>1, <2>2 DEF Shape, Placed
<1> QED BY <1>1, <1>3, <1>5, <1>6, <1>7, <1>8, <1>9, <1>10, <1>11, <1>12, ListsNextIs, ActsIs
        DEF Goes

---------------------------------------------------------------------------
(* The lists of a user: what every list holds of an item.                  *)

LEMMA BlankIs == ASSUME NEW i \in Item PROVE Blank[i] = None
BY DEF Blank

\* A step of one goroutine, by what it makes of each list.
LEMMA EverywhereActs ==
    ASSUME TypeOK, TypeOK', Shape, Shape', NEW i \in Item, NEW v, Everywhere(i, v),
           NEW p \in Proc, Goes(p),
           row' = row \/ (pc[p] = "put" /\ row' = draft[p]),
           \A r \in Ref : heap'[r] # None => heap'[r][i] = v,
           pc'[p] = "got" /\ ref'[p] = None => v = None,
           pc'[p] = "put" => draft'[p][i] = v
    PROVE  Everywhere(i, v)'
<1>1. (row' = None => v = None) /\ (row' # None => row'[i] = v)
    <2>1. pc[p] = "put" => draft[p] # None
        BY DEF Shape
    <2> QED BY <2>1 DEF Everywhere
<1>2. ASSUME NEW q \in Proc
      PROVE  /\ pc'[q] = "got" /\ ref'[q] = None => v = None
             /\ pc'[q] = "put" => draft'[q][i] = v
    <2>1. CASE q = p
        BY <2>1
    <2>2. CASE q # p
        <3>1. pc'[q] = pc[q] /\ ref'[q] = ref[q] /\ draft'[q] = draft[q]
            BY <2>2, OthersStay
        <3> QED BY <3>1, BlankIs DEF Everywhere, View
    <2> QED BY <2>1, <2>2
<1>3. ASSUME NEW q \in Proc, pc'[q] = "got"
      PROVE  View(q)'[i] = v
    <2>1. CASE ref'[q] = None
        BY <1>2, <1>3, <2>1, BlankIs DEF View
    <2>2. CASE ref'[q] # None
        <3>1. ref'[q] \in Ref /\ heap'[ref'[q]] # None
            BY <2>2 DEF TypeOK, Shape, Held
        <3> QED BY <2>2, <3>1 DEF View
    <2> QED BY <2>1, <2>2
<1> QED BY <1>1, <1>2, <1>3 DEF Everywhere

\* Only a call on an item makes a list that differs in it.
LEMMA EverywhereStep ==
    ASSUME TypeOK, TypeOK', Shape, Shape', ListsNext, NEW i \in Item, NEW v, Everywhere(i, v),
           \A p \in Proc : Add(p) \/ Remove(p) \/ Replace(p) => orders[p].item # i
    PROVE  Everywhere(i, v)'
<1>0. heap \in [Ref -> List \cup {None}] /\ \A r \in Ref : heap[r] # None => heap[r][i] = v
    BY DEF TypeOK, Everywhere
<1>1. ASSUME NEW p \in Proc, Begins(p)
      PROVE  Everywhere(i, v)'
    <2>1. PICK kind \in {"read", "create", "update", "delete"}, j \in Item \cup {None}, u \in Url \cup {None} :
            Start(p, kind, j, u)
        BY <1>1 DEF Begins
    <2>2. /\ UNCHANGED <<row, cached, heap, ref, draft, webhooks>>
          /\ pc'[p] = "get" /\ \A q \in Proc : q # p => pc'[q] = pc[q]
        BY <2>1, GotoIs DEF Start, PC
    <2> QED BY <2>2 DEF Everywhere, View
<1>2. ASSUME NEW p \in Proc, Get(p), Same
      PROVE  Everywhere(i, v)'
    <2>1. row' = row /\ draft' = draft /\ Goes(p)
        BY <1>2 DEF Get, CacheHit, CacheMiss, ListRow, ListNoRow, ListFails, Fill, Goes
    <2>2. CASE CacheHit(p)
        BY <1>0, <2>1, <2>2, EverywhereActs DEF CacheHit, Hold, Goto, TypeOK
    <2>3. CASE CacheMiss(p) \/ ListFails(p)
        BY <1>0, <2>1, <2>3, EverywhereActs DEF CacheMiss, ListFails, Goto, TypeOK
    <2>4. CASE ListNoRow(p)
        <3>1. v = None
            BY <2>4 DEF ListNoRow, Everywhere
        <3> QED BY <1>0, <2>1, <2>4, <3>1, EverywhereActs DEF ListNoRow, Goto, TypeOK
    <2>5. CASE ListRow(p)
        <3>1. PICK s \in Ref : heap' = [heap EXCEPT ![s] = row]
            BY <2>5 DEF ListRow
        <3>2. row # None /\ row[i] = v /\ pc'[p] = "fill"
            BY <2>5 DEF ListRow, Goto, TypeOK, Everywhere
        <3>3. \A r \in Ref : heap'[r] # None => heap'[r][i] = v
            BY <1>0, <3>1, <3>2
        <3> QED BY <2>1, <3>2, <3>3, EverywhereActs
    <2>6. CASE Fill(p)
        <3>1. \A r \in Ref : heap'[r] # None => heap'[r][i] = v
            BY <1>0, <2>6, SweptIs DEF Fill
        <3>2. ref'[p] # None /\ pc'[p] # "put"
            BY <2>6 DEF Fill, Shape, Goto, TypeOK
        <3> QED BY <2>1, <3>1, <3>2, EverywhereActs
    <2> QED BY <1>2, <2>2, <2>3, <2>4, <2>5, <2>6 DEF Get
<1>3. ASSUME NEW p \in Proc, NEW l \in {"idle", "get"}, Return(p, l), Goes(p)
      PROVE  Everywhere(i, v)'
    <2>1. \A r \in Ref : heap'[r] # None => heap'[r][i] = v
        BY <1>0, <1>3, SweptIs DEF Return
    <2>2. row' = row /\ pc'[p] = l
        BY <1>3 DEF Return, Goto, TypeOK
    <2> QED BY <1>3, <2>1, <2>2, EverywhereActs
<1>4. ASSUME NEW p \in Proc, Answer(p) \/ GiveUp(p) \/ Found(p)
      PROVE  Everywhere(i, v)'
    BY <1>3, <1>4 DEF Answer, GiveUp, Found, Goes
<1>5. ASSUME NEW p \in Proc, Add(p) \/ Remove(p) \/ Replace(p)
      PROVE  Everywhere(i, v)'
    <2>1. PICK l \in List, h \in [Ref -> List \cup {None}] :
            /\ Prepare(p, l, h) /\ Same
            /\ \A j \in Item : j # orders[p].item => l[j] = View(p)[j]
            /\ \A r \in Ref : (h[r] = None <=> heap[r] = None)
            /\ \A r \in Ref : heap[r] # None => \A j \in Item : j # orders[p].item => h[r][j] = heap[r][j]
            /\ pc[p] = "got"
        BY <1>5, PreparedIs
    <2>2. i # orders[p].item
        BY <1>5
    <2>3. l[i] = v
        BY <2>1, <2>2 DEF Everywhere
    <2>4. \A r \in Ref : h[r] # None => h[r][i] = v
        BY <1>0, <2>1, <2>2
    <2>5. \A r \in Ref : heap'[r] # None => heap'[r][i] = v
        BY <2>1, <2>4, SweptIs DEF Prepare
    <2>6. row' = row /\ pc'[p] = "put" /\ draft'[p] = l
        BY <2>1 DEF Prepare, Goto, TypeOK
    <2> QED BY <1>5, <2>3, <2>5, <2>6, EverywhereActs DEF Goes
<1>6. ASSUME NEW p \in Proc, Exec(p), Same
      PROVE  Everywhere(i, v)'
    <2>1. PICK s \in Ref : heap' = [heap EXCEPT ![s] = draft[p]]
        BY <1>6 DEF Exec
    <2>2. pc[p] = "put" /\ draft[p][i] = v /\ row' = draft[p] /\ pc'[p] = "set"
        BY <1>6 DEF Exec, Everywhere, Goto, TypeOK
    <2>3. \A r \in Ref : heap'[r] # None => heap'[r][i] = v
        BY <1>0, <2>1, <2>2
    <2> QED BY <1>6, <2>2, <2>3, EverywhereActs DEF Goes
<1>7. ASSUME NEW p \in Proc, ExecFails(p), Same
      PROVE  Everywhere(i, v)'
    <2>1. pc[p] = "put" /\ (row' = row \/ row' = draft[p]) /\ heap' = heap /\ pc'[p] = "error"
        BY <1>7 DEF ExecFails, Goto, TypeOK
    <2> QED BY <1>0, <1>7, <2>1, EverywhereActs DEF Goes
<1>8. ASSUME NEW p \in Proc, Done(p)
      PROVE  Everywhere(i, v)'
    <2>1. \A r \in Ref : heap'[r] # None => heap'[r][i] = v
        BY <1>0, <1>8, SweptIs DEF Done, SetCache
    <2>2. row' = row /\ pc'[p] = "idle"
        BY <1>8 DEF Done, SetCache, Goto, TypeOK
    <2> QED BY <1>8, <2>1, <2>2, EverywhereActs DEF Goes
<1>9. CASE Expire
    <2>1. UNCHANGED <<row, pc, ref, draft>> /\ heap' = Swept(heap)
        BY <1>9 DEF Expire, Evict
    <2>2. \A r \in Ref : heap'[r] # None => heap'[r][i] = v
        BY <1>0, <2>1, SweptIs
    <2>3. ASSUME NEW q \in Proc, pc[q] = "got"
          PROVE  View(q)'[i] = v
        <3>1. CASE ref[q] = None
            BY <2>1, <2>3, <3>1 DEF Everywhere, View
        <3>2. CASE ref[q] # None
            <4>1. ref'[q] = ref[q] /\ ref'[q] \in Ref /\ heap'[ref'[q]] # None
                BY <2>1, <3>2 DEF TypeOK, Shape, Held
            <4> QED BY <2>2, <4>1, <3>2 DEF View
        <3> QED BY <3>1, <3>2
    <2> QED BY <2>1, <2>2, <2>3 DEF Everywhere
<1>10. CASE Restart
    <2>1. row' = row /\ (\A r \in Ref : heap'[r] = None) /\ \A q \in Proc : pc'[q] = "idle"
        BY <1>10 DEF Restart, CellRestart
    <2> QED BY <2>1 DEF Everywhere
<1> QED BY <1>1, <1>2, <1>4, <1>5, <1>6, <1>7, <1>8, <1>9, <1>10, ListsNextIs, ActsIs DEF Goes

---------------------------------------------------------------------------
(* The lists of a user: who overlaps whom.                                 *)

\* What a request is for does not change while it runs, and what is known
\* changes when it returns.
LEMMA GoesIs ==
    ASSUME TypeOK, Shape, NEW p \in Proc, Goes(p)
    PROVE  /\ \A q \in Proc : pc'[q] # "idle" =>
                /\ pc[q] # "idle"
                /\ orders'[q].kind = orders[q].kind /\ orders'[q].item = orders[q].item
                /\ orders'[q].url = orders[q].url /\ orders'[q].alone = orders[q].alone
                /\ orders'[q].looks # orders[q].looks => q = p /\ Found(p)
           /\ pc[p] # "idle"
           /\ ~Done(p) => expected' = expected
           /\ Done(p) => pc'[p] = "idle"
<1>1. CASE Get(p) /\ Same
    <2>1. pc[p] # "idle" /\ orders' = orders /\ expected' = expected /\ ~Done(p)
        BY <1>1 DEF Get, CacheHit, CacheMiss, ListRow, ListNoRow, ListFails, Fill, Same, Done, SetCache
    <2>2. \A q \in Proc : q # p => pc'[q] = pc[q]
        BY OthersStay
    <2> QED BY <2>1, <2>2
<1>2. CASE Answer(p) \/ GiveUp(p)
    <2>1. pc[p] # "idle" /\ pc'[p] = "idle" /\ expected' = expected
        BY <1>2 DEF Answer, GiveUp, Return, Goto, TypeOK
    <2>2. ~Done(p)
        BY <1>2 DEF Answer, GiveUp, Done, SetCache
    <2> QED BY <2>1, <2>2, OthersStay
<1>3. CASE Found(p)
    <2>1. pc[p] # "idle" /\ expected' = expected /\ ~Done(p)
        BY <1>3 DEF Found, Done, SetCache
    <2>2. orders[p] \in Order
        BY <2>1 DEF Shape, TypeOK, Busy
    <2>3. /\ orders'[p].kind = orders[p].kind /\ orders'[p].item = orders[p].item
          /\ orders'[p].url = orders[p].url /\ orders'[p].alone = orders[p].alone
        BY <1>3, <2>2 DEF Found, TypeOK, Order
    <2> QED BY <1>3, <2>1, <2>3, OthersStay
<1>4. CASE Add(p) \/ Remove(p) \/ Replace(p)
    <2>1. PICK l \in List, h \in [Ref -> List \cup {None}] : Prepare(p, l, h) /\ Same /\ pc[p] = "got"
        BY <1>4, PreparedIs
    <2>2. orders' = orders /\ expected' = expected /\ ~Done(p)
        BY <2>1 DEF Same, Done, SetCache
    <2> QED BY <2>1, <2>2, OthersStay
<1>5. CASE (Exec(p) /\ Same) \/ (ExecFails(p) /\ Same)
    <2>1. pc[p] = "put" /\ orders' = orders /\ expected' = expected /\ ~Done(p)
        BY <1>5 DEF Exec, ExecFails, Same, Done, SetCache
    <2> QED BY <2>1, OthersStay
<1>6. CASE Done(p)
    <2>1. pc[p] = "set" /\ pc'[p] = "idle"
        BY <1>6 DEF Done, SetCache, Goto, TypeOK
    <2> QED BY <1>6, <2>1, OthersStay
<1> QED BY <1>1, <1>2, <1>3, <1>4, <1>5, <1>6 DEF Goes

\* A request that begins: who it overlaps, and what is known then.
LEMMA BeginsSolitude ==
    ASSUME TypeOK, Shape, NEW p \in Proc, Begins(p)
    PROVE  /\ pc[p] = "idle" /\ pc'[p] = "get" /\ orders'[p].kind \in {"read", "create", "update", "delete"}
           /\ \A q \in Proc : q # p =>
                /\ pc'[q] = pc[q]
                /\ pc[q] # "idle" => orders'[q].kind = orders[q].kind /\ ~orders'[q].alone
           /\ orders'[p].alone => \A q \in Proc : pc[q] = "idle"
           /\ orders'[p].kind = "update" /\ orders'[p].alone =>
                expected[orders'[p].item] # Unknown /\ orders'[p].looks
           /\ orders'[p].kind # "read" => orders'[p].item \in Item /\ expected'[orders'[p].item] = Unknown
           /\ \A i \in Item : expected'[i] # Unknown => expected'[i] = expected[i]
           /\ (\E q \in Proc : pc[q] # "idle" /\ (orders'[p].kind # "read" \/ orders[q].kind # "read")) =>
                \A i \in Item : expected'[i] = Unknown
<1>1. PICK kind \in {"read", "create", "update", "delete"}, i \in Item \cup {None}, u \in Url \cup {None} :
        /\ Start(p, kind, i, u)
        /\ kind # "read" => i \in Item
        /\ kind = "update" => webhooks
    BY DEF Begins
<1> DEFINE others == {q \in Proc : Busy(q)}
<1>2. pc[p] = "idle" /\ pc'[p] = "get" /\ \A q \in Proc : q # p => pc'[q] = pc[q]
    BY <1>1, GotoIs DEF Start, PC, Busy
<1>3. /\ orders'[p].kind = kind /\ orders'[p].item = i
      /\ orders'[p].looks = (webhooks /\ kind \in {"update", "delete"})
      /\ orders'[p].alone = (others = {} /\ (kind = "update" => expected[i] # Unknown))
    <2> DEFINE x == [kind |-> kind, item |-> i, url |-> u,
                     looks |-> (webhooks /\ kind \in {"update", "delete"}),
                     alone |-> (others = {} /\ (kind = "update" => expected[i] # Unknown))]
    <2>1. orders'[p] = x
        BY <1>1 DEF Start
    <2>2. /\ x.kind = kind /\ x.item = i /\ x.looks = (webhooks /\ kind \in {"update", "delete"})
          /\ x.alone = (others = {} /\ (kind = "update" => expected[i] # Unknown))
        OBVIOUS
    <2> HIDE DEF x
    <2> QED BY <2>1, <2>2
<1>4. ASSUME NEW q \in Proc, q # p, pc[q] # "idle"
      PROVE  orders'[q].kind = orders[q].kind /\ ~orders'[q].alone
    <2>1. orders'[q] = [orders[q] EXCEPT !.alone = FALSE]
        BY <1>1, <1>4 DEF Start, Busy
    <2>2. orders[q] \in Order
        BY <1>4 DEF Shape, TypeOK, Busy
    <2> QED BY <2>1, <2>2 DEF Order
<1>5. orders'[p].alone => \A q \in Proc : pc[q] = "idle"
    BY <1>3 DEF Busy
<1>6. orders'[p].kind = "update" /\ orders'[p].alone =>
            expected[orders'[p].item] # Unknown /\ orders'[p].looks
    BY <1>1, <1>3
<1>7. expected' = IF \E q \in others : kind # "read" \/ Writes(q) THEN [j \in Item |-> Unknown]
                  ELSE IF kind # "read" THEN [expected EXCEPT ![i] = Unknown] ELSE expected
    BY <1>1 DEF Start
<1>8. /\ kind # "read" => i \in Item /\ expected'[i] = Unknown
      /\ \A j \in Item : expected'[j] # Unknown => expected'[j] = expected[j]
    <2> HIDE DEF others
    <2> QED BY <1>1, <1>7 DEF TypeOK
<1>9. (\E q \in Proc : pc[q] # "idle" /\ (kind # "read" \/ orders[q].kind # "read")) =>
            \A j \in Item : expected'[j] = Unknown
    BY <1>7 DEF Writes, Busy
<1> QED BY <1>2, <1>3, <1>4, <1>5, <1>6, <1>8, <1>9

LEMMA SolitudeStep ==
    ASSUME TypeOK, Shape, Shape', Solitude, ListsNext
    PROVE  Solitude'
<1> USE DEF Alone, Writes, Busy
<1>1. ASSUME NEW p \in Proc, Begins(p)
      PROVE  Solitude'
    <2>1. \A q, o \in Proc : Alone(q)' /\ Busy(o)' => q = o
        BY <1>1, BeginsSolitude
    <2>2. \A q, o \in Proc : Writes(q)' /\ Busy(o)' /\ q # o => \A i \in Item : expected'[i] = Unknown
        BY <1>1, BeginsSolitude
    <2>3. ASSUME NEW q \in Proc, Writes(q)'
          PROVE  expected'[orders'[q].item] = Unknown
        <3>1. CASE q = p
            BY <1>1, <2>3, <3>1, BeginsSolitude
        <3>2. CASE q # p
            <4>1. orders'[q].item \in Item
                BY <2>3 DEF Shape
            <4>2. Busy(p)'
                BY <1>1, BeginsSolitude
            <4> QED BY <2>2, <2>3, <3>2, <4>1, <4>2
        <3> QED BY <3>1, <3>2
    <2> QED BY <2>1, <2>2, <2>3 DEF Solitude
<1>2. ASSUME NEW p \in Proc, Goes(p)
      PROVE  Solitude'
    <2>1. CASE expected' = expected
        BY <1>2, <2>1, GoesIs DEF Solitude
    <2>2. CASE expected' # expected
        <3>1. Done(p) /\ orders[p].alone /\ Busy(p) /\ pc'[p] = "idle"
            BY <1>2, <2>2, GoesIs DEF Done
        <3>2. \A q \in Proc : pc'[q] = "idle"
            BY <1>2, <3>1, GoesIs DEF Solitude
        <3> QED BY <3>2 DEF Solitude
    <2> QED BY <2>1, <2>2
<1>3. CASE Expire
    BY <1>3 DEF Expire, Evict, Same, Solitude
<1>4. CASE Restart
    <2>1. \A q \in Proc : pc'[q] = "idle"
        BY <1>4 DEF Restart, CellRestart
    <2> QED BY <2>1 DEF Solitude
<1> QED BY <1>1, <1>2, <1>3, <1>4, ListsNextIs, ActsIs

---------------------------------------------------------------------------
(* The lists of a user: what is known of an item.                          *)

\* How a request gets to a place.
LEMMA GoesTo ==
    ASSUME TypeOK, Shape, NEW p \in Proc, Goes(p)
    PROVE  /\ pc'[p] = "put" => Add(p) \/ Remove(p) \/ Replace(p)
           /\ pc'[p] = "set" => Exec(p)
           /\ pc'[p] \in {"get", "list", "fill", "refill", "got"} =>
                pc[p] \in {"get", "list", "fill", "refill", "got"}
<1>1. CASE Get(p) /\ Same
    BY <1>1 DEF Get, CacheHit, CacheMiss, ListRow, ListNoRow, ListFails, Fill, Goto, TypeOK
<1>2. CASE Answer(p) \/ Found(p) \/ GiveUp(p)
    BY <1>2 DEF Answer, Found, GiveUp, Return, Goto, TypeOK
<1>3. CASE Add(p) \/ Remove(p) \/ Replace(p)
    <2>1. PICK l \in List, h \in [Ref -> List \cup {None}] : Prepare(p, l, h)
        BY <1>3, PreparedIs
    <2> QED BY <1>3, <2>1 DEF Prepare, Goto, TypeOK
<1>4. CASE (Exec(p) /\ Same) \/ (ExecFails(p) /\ Same)
    BY <1>4 DEF Exec, ExecFails, Goto, TypeOK
<1>5. CASE Done(p)
    BY <1>5 DEF Done, SetCache, Goto, TypeOK
<1> QED BY <1>1, <1>2, <1>3, <1>4, <1>5 DEF Goes

\* A request that makes a list is one that writes.
LEMMA MakesList ==
    ASSUME TypeOK, Shape, NEW p \in Proc, Add(p) \/ Remove(p) \/ Replace(p)
    PROVE  Writes(p) /\ pc[p] = "got" /\ pc'[p] = "put"
<1>1. PICK l \in List, h \in [Ref -> List \cup {None}] : Prepare(p, l, h) /\ Writes(p) /\ pc[p] = "got"
    BY PreparedIs
<1> QED BY <1>1 DEF Prepare, Goto, TypeOK

LEMMA KnownStep ==
    ASSUME ListsInductive, TypeOK', Shape', Solitude', ListsNext
    PROVE  Known'
<1> USE DEF ListsInductive
<1> SUFFICES ASSUME NEW i \in Item, expected'[i] # Unknown
             PROVE  Everywhere(i, expected[i])'
    BY DEF Known
<1>1. CASE expected'[i] = expected[i]
    <2>1. PICK v : v = expected[i]
        OBVIOUS
    <2>2. Everywhere(i, v)
        BY <1>1, <2>1 DEF Known
    <2>3. ASSUME NEW p \in Proc, Add(p) \/ Remove(p) \/ Replace(p)
          PROVE  orders[p].item # i
        BY <1>1, <2>3, MakesList DEF Solitude
    <2>4. Everywhere(i, v)'
        BY <2>2, <2>3, EverywhereStep
    <2>5. v = expected'[i]
        BY <1>1, <2>1
    <2> QED BY <2>4, <2>5 DEF Everywhere
<1>2. CASE expected'[i] # expected[i]
    <2>1. PICK p \in Proc : Done(p) /\ Goes(p)
        <3>1. ~Expire /\ ~Restart
            BY <1>2 DEF Expire, Restart, Same
        <3> QED BY <1>2, <3>1, ListsNextIs, ActsIs, BeginsSolitude, GoesIs
    <2>2. pc[p] = "set" /\ pc'[p] = "idle" /\ Writes(p) /\ orders[p].item \in Item
        BY <2>1, GoesIs DEF Done, SetCache, Shape, Writes, Busy
    <2>3. orders[p].alone /\ i = orders[p].item /\ expected'[i] = orders[p].url
        BY <1>2, <2>1, <2>2 DEF Done, TypeOK
    <2>4. row = heap[ref[p]] /\ row[i] = orders[p].url
        BY <2>2, <2>3 DEF Wrote, Alone, Busy
    <2>5. ref[p] \in Ref /\ heap[ref[p]] # None
        BY <2>2, ViewIs DEF Shape
    <2>6. ASSUME NEW q \in Proc
          PROVE  pc'[q] = "idle" /\ ref'[q] = None
        <3>1. pc'[q] = "idle"
            BY <2>1, <2>2, <2>3, GoesIs DEF Solitude, Alone, Busy
        <3> QED BY <3>1 DEF Shape
    <2>7. row' = row /\ cached' = ref[p] /\ heap' = Swept(heap)
        BY <2>1 DEF Done, SetCache
    <2>8. ASSUME NEW r \in Ref, heap'[r] # None
          PROVE  heap'[r][i] = orders[p].url
        <3>1. heap'[r] = heap[r] /\ Held(r)'
            BY <2>7, <2>8, SweptIs DEF TypeOK
        <3>2. r = ref[p]
            BY <2>6, <2>7, <3>1, NoneIsNoRef DEF Held
        <3> QED BY <2>4, <3>1, <3>2
    <2> QED BY <2>3, <2>4, <2>5, <2>6, <2>7, <2>8 DEF Everywhere
<1> QED BY <1>1, <1>2

\* A step in which no request of the item makes a list leaves it known.
LEMMA AgreedStep ==
    ASSUME ListsInductive, TypeOK', Shape', ListsNext, NEW p \in Proc, NEW i \in Item,
           Alone(p), i = orders[p].item, pc'[p] # "put", NEW v, Everywhere(i, v)
    PROVE  Everywhere(i, v)'
<1>1. ASSUME NEW q \in Proc, Add(q) \/ Remove(q) \/ Replace(q)
      PROVE  orders[q].item # i
    BY <1>1, MakesList DEF ListsInductive, Solitude, Writes
<1> QED BY <1>1, EverywhereStep DEF ListsInductive

\* A call that is alone was alone, and it is the one that steps.
LEMMA AloneStep ==
    ASSUME ListsInductive, ListsNext, NEW p \in Proc, Alone(p)'
    PROVE  \/ Begins(p) /\ pc'[p] = "get"
           \/ /\ Goes(p) \/ Expire
              /\ Alone(p) /\ orders'[p].kind = orders[p].kind /\ orders'[p].item = orders[p].item
              /\ orders'[p].url = orders[p].url
              /\ orders'[p].looks # orders[p].looks => Found(p)
<1> USE DEF ListsInductive, Alone, Busy
<1>1. ASSUME NEW q \in Proc, Begins(q)
      PROVE  q = p /\ pc'[p] = "get"
    BY <1>1, BeginsSolitude
<1>2. ASSUME NEW q \in Proc, Goes(q)
      PROVE  /\ q = p /\ Alone(p) /\ orders'[p].kind = orders[p].kind /\ orders'[p].item = orders[p].item
             /\ orders'[p].url = orders[p].url
             /\ orders'[p].looks # orders[p].looks => Found(p)
    BY <1>2, GoesIs DEF Solitude
<1>3. ~Restart
    BY DEF Restart, CellRestart
<1>4. Expire => orders' = orders /\ pc' = pc
    BY DEF Expire, Evict, Same
<1> QED BY <1>1, <1>2, <1>3, <1>4, ListsNextIs, ActsIs

LEMMA LookedStep ==
    ASSUME ListsInductive, TypeOK', Shape', ListsNext
    PROVE  Looked'
<1> SUFFICES ASSUME NEW p \in Proc, Alone(p)', orders'[p].kind = "update",
                    pc'[p] \in {"get", "list", "fill", "refill", "got"}
             PROVE  \E v \in Url \cup {None, Unknown} :
                        Everywhere(orders[p].item, v)' /\ (~orders'[p].looks => v # None)
    BY DEF Looked
<1>0. PICK i \in Item : i = orders'[p].item
    BY DEF Shape, Writes, Alone
<1>1. CASE Begins(p)
    <2>1. /\ orders'[p].alone /\ orders'[p].looks
          /\ expected[i] # Unknown /\ \A q \in Proc : pc[q] = "idle"
        BY <1>0, <1>1, BeginsSolitude DEF ListsInductive, Alone
    <2>2. PICK v \in Url \cup {None, Unknown} : v = expected[i]
        BY DEF ListsInductive, TypeOK
    <2>3. Everywhere(i, v)
        BY <2>1, <2>2 DEF ListsInductive, Known
    <2>4. Everywhere(i, v)'
        BY <2>1, <2>3, EverywhereStep, MakesList DEF ListsInductive
    <2> QED BY <1>0, <2>1, <2>4 DEF Everywhere
<1>2. CASE /\ Goes(p) \/ Expire
           /\ Alone(p) /\ orders'[p].kind = orders[p].kind /\ orders'[p].item = orders[p].item
           /\ orders'[p].looks # orders[p].looks => Found(p)
    <2>1. pc[p] \in {"get", "list", "fill", "refill", "got"}
        BY <1>2, GoesTo DEF ListsInductive, Expire, Evict
    <2>2. PICK v \in Url \cup {None, Unknown} : Everywhere(i, v) /\ (~orders[p].looks => v # None)
        BY <1>0, <1>2, <2>1 DEF ListsInductive, Looked
    <2>3. Everywhere(i, v)'
        BY <1>0, <1>2, <2>2, AgreedStep
    <2>4. ~orders'[p].looks => v # None
        BY <1>0, <1>2, <2>2 DEF Found, Everywhere
    <2> QED BY <1>0, <2>3, <2>4 DEF Everywhere
<1> QED BY <1>1, <1>2, AloneStep

LEMMA WroteStep ==
    ASSUME ListsInductive, TypeOK', Shape', ListsNext
    PROVE  Wrote'
<1> USE DEF ListsInductive
<1> SUFFICES ASSUME NEW p \in Proc, Alone(p)'
             PROVE  /\ pc'[p] = "put" => draft'[p][orders'[p].item] = orders'[p].url
                    /\ pc'[p] = "set" => row' = heap'[ref'[p]] /\ row'[orders'[p].item] = orders'[p].url
    BY DEF Wrote
<1>1. CASE pc'[p] = "get"
    BY <1>1
<1>2. CASE Goes(p) /\ Alone(p) /\ orders'[p].item = orders[p].item /\ orders'[p].url = orders[p].url
    <2>1. ASSUME pc'[p] = "put"
          PROVE  draft'[p][orders[p].item] = orders[p].url
        <3>1. Add(p) \/ Remove(p) \/ Replace(p)
            BY <1>2, <2>1, GoesTo
        <3>2. PICK l \in List, h \in [Ref -> List \cup {None}] :
                /\ Prepare(p, l, h)
                /\ \/ l[orders[p].item] = orders[p].url
                   \/ orders[p].kind = "update" /\ View(p)[orders[p].item] = None
                /\ pc[p] = "got" /\ ~orders[p].looks
            BY <3>1, PreparedIs
        <3>3. draft'[p] = l
            BY <3>2 DEF Prepare, TypeOK
        <3>4. ~(orders[p].kind = "update" /\ View(p)[orders[p].item] = None)
            BY <1>2, <3>2 DEF Looked, Everywhere
        <3> QED BY <3>2, <3>3, <3>4
    <2>2. ASSUME pc'[p] = "set"
          PROVE  row' = heap'[ref'[p]] /\ row'[orders[p].item] = orders[p].url
        <3>1. Exec(p)
            BY <1>2, <2>2, GoesTo
        <3>2. PICK s \in Ref : heap' = [heap EXCEPT ![s] = draft[p]] /\ Hold(p, s)
            BY <3>1 DEF Exec
        <3>3. heap'[ref'[p]] = draft[p] /\ row' = draft[p] /\ pc[p] = "put"
            BY <3>1, <3>2 DEF Exec, Hold, TypeOK
        <3> QED BY <1>2, <3>3 DEF Wrote
    <2> QED BY <1>2, <2>1, <2>2
<1>3. CASE Expire /\ Alone(p)
    <2>1. UNCHANGED <<row, pc, ref, draft, orders>> /\ heap' = Swept(heap)
        BY <1>3 DEF Expire, Evict, Same
    <2>2. ASSUME pc[p] = "set"
          PROVE  heap'[ref[p]] = heap[ref[p]]
        <3>1. ref[p] \in Ref /\ Held(ref[p])'
            BY <2>1, <2>2 DEF Shape, TypeOK, Held
        <3> QED BY <2>1, <3>1, SweptIs DEF TypeOK
    <2> QED BY <1>3, <2>1, <2>2 DEF Wrote
<1> QED BY <1>1, <1>2, <1>3, AloneStep

LEMMA ListsStep ==
    ASSUME ListsInductive, [ListsNext]_listVars
    PROVE  ListsInductive'
<1>1. CASE ListsNext
    <2>1. TypeOK' /\ Shape'
        BY <1>1, TypeStep, ShapeStep DEF ListsInductive
    <2>2. Solitude'
        BY <1>1, <2>1, SolitudeStep DEF ListsInductive
    <2> QED BY <1>1, <2>1, <2>2, KnownStep, LookedStep, WroteStep DEF ListsInductive
<1>2. CASE UNCHANGED listVars
    BY <1>2
       DEF listVars, cellVars, ListsInductive, TypeOK, Shape, Solitude, Known, Looked, Wrote,
           Everywhere, View, Held, Alone, Writes, Busy
<1> QED BY <1>1, <1>2

LEMMA ListsAtStart ==
    ASSUME ListsInit
    PROVE  ListsInductive
<1>1. Blank \in List /\ \A i \in Item : Blank[i] = None
    BY DEF Blank, List
<1>2. TypeOK /\ \A p \in Proc : ~Busy(p)
    BY <1>1 DEF ListsInit, CellInit, TypeOK, PC, List, Busy, Blank
<1>3. Shape
    BY <1>2, NoneIsNoRef DEF ListsInit, CellInit, Shape, Held, Busy, Writes
<1>4. Solitude /\ Looked /\ Wrote
    BY <1>2 DEF Solitude, Looked, Wrote, Alone, Writes
<1>5. Known
    BY <1>1 DEF ListsInit, CellInit, Known, Everywhere
<1> QED BY <1>2, <1>3, <1>4, <1>5 DEF ListsInductive

---------------------------------------------------------------------------
(* The theorems.                                                           *)

\* The tables of settings keep their inductive invariants.
THEOREM AlwaysInductive == Spec => []Inductive
<1>1. Init => Inductive
    BY ListsAtStart, WorkspaceInit DEF Init, Inductive
<1>2. Inductive /\ [Next]_vars => Inductive'
    <2> SUFFICES ASSUME Inductive, [Next]_vars
                 PROVE  Inductive'
        OBVIOUS
    <2>1. ofWorkspace' = ofWorkspace
        BY DEF Next, vars
    <2>2. CASE ofWorkspace
        <3>1. [Workspace!SettingNext]_workspaceVars
            BY <2>2 DEF Next, vars
        <3> QED BY <2>1, <2>2, <3>1, WorkspaceInductive DEF Inductive
    <2>3. CASE ~ofWorkspace
        <3>1. [ListsNext]_listVars
            BY <2>3 DEF Next, vars
        <3> QED BY <2>1, <2>3, <3>1, ListsStep DEF Inductive
    <2> QED BY <2>2, <2>3
<1> QED BY <1>1, <1>2, PTL DEF Spec

\* A list is answered as the calls on it left it (ListUserAccessTokens,
\* ListUserWebhooks), across evictions, failures of other calls and restarts.
THEOREM ListsAnswered == Spec => AnswersFollowCalls
<1>1. Inductive /\ [Next]_vars =>
        [\A p \in Proc :
            (Answer(p) /\ orders[p].kind = "read") =>
                \A i \in Item : expected[i] \in {Unknown, View(p)[i]}]_listVars
    <2> SUFFICES ASSUME Inductive, [Next]_vars, ~(UNCHANGED listVars),
                        NEW p \in Proc, Answer(p), NEW i \in Item, expected[i] # Unknown
                 PROVE  expected[i] = View(p)[i]
        OBVIOUS
    <2>1. ListsInductive
        BY DEF Inductive, Next, vars
    <2> QED BY <2>1 DEF ListsInductive, Known, Everywhere, Answer
<1> QED BY <1>1, AlwaysInductive, PTL DEF Spec, AnswersFollowCalls

\* A memo is saved only as the setting of the workspace allows (CreateMemo,
\* UpdateMemo), unless a change of the setting overlapped the request or the
\* cache held an overtaken one.
THEOREM SavesAllowed == Spec => SavedAsAllowed
<1>1. Inductive /\ [Next]_vars =>
        [\A r \in Proc :
            (Workspace!Save(r) /\ ~reads[r].loose) =>
                /\ ~(reads[r].memo.public /\ Workspace!Given(setting).disallowPublic)
                /\ reads[r].memo.length <= Workspace!Limit(Workspace!Given(setting))]_workspaceVars
    <2> SUFFICES ASSUME Inductive, [Next]_vars, ~(UNCHANGED workspaceVars),
                        NEW r \in Proc, Workspace!Save(r), ~reads[r].loose
                 PROVE  /\ ~(reads[r].memo.public /\ Workspace!Given(setting).disallowPublic)
                        /\ reads[r].memo.length <= Workspace!Limit(Workspace!Given(setting))
        OBVIOUS
    <2>1. Workspace!Inductive
        BY DEF Inductive, Next, vars
    <2> QED BY <2>1, SaveAllowed
<1> QED BY <1>1, AlwaysInductive, PTL
        DEF Spec, SavedAsAllowed, Workspace!SavedAsAllowed, workspaceVars, Workspace!settingVars

=============================================================================

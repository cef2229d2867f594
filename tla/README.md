# Specifications of memos

This directory holds TLA+ specifications of memos, the note-taking server in
`src/app` (Go, with SQLite, MySQL or PostgreSQL behind it and a React client in
front), the TLC configurations that check them and the proofs that TLAPS checks.
Paths below are relative to `src/app`; `api/` stands for
`server/router/api/v1/`.

Every API call runs in a goroutine of its own. It executes SQL statements one
after another; no handler opens a transaction and no lock spans a call. Three
caches (workspace settings, users, user settings) hold pointers that all
goroutines share. So the questions are nearly always: what do two calls that
interleave leave behind, and what does a call leave that fails half way?

The page in the browser has one thread, but nothing waits for anything: handlers
go on after an `await` with the state of the render that created them, answers
come in any order, and the parts of the page that asked may be gone. Between the
two is code generated twice from the same `.proto` files.

## The system

| Component | State | Operations | Works with |
|---|---|---|---|
| Sessions (`store/user_setting.go`, `api/acl.go`, `api/auth_service.go`, `api/user_service.go`) | one row per user with the list of all sessions; a cache entry; the objects goroutines hold | sign in, authenticate and refresh, current, list, revoke, sign out | every request passes through the interceptor in `acl.go`, which reads and rewrites the list |
| Other user settings (`store/user_setting.go`, `api/shortcut_service.go`) | rows and cache entries of the same kind: access tokens, webhooks, shortcuts | add, update, remove | the same cache |
| Cache (`store/cache/cache.go`) | a map, a counter of its items | set, get, delete, clean-up of expired or oldest items, close | the three caches of `store/store.go` |
| Workspace settings (`store/workspace_setting.go`, `api/workspace_service.go`) | rows, cache | get with defaults, update | read by nearly every handler, e.g. the check of public visibility |
| User accounts (`store/user.go`, `api/user_service.go`) | rows, cache | create (the first user is the host), update, archive, delete | authentication reads them |
| Memos: tree (`api/memo_service.go`, `memo_relation_service.go`, `memo_attachment_service.go`) | `memo`, `memo_relation`, `resource.memo_id`, `activity`, `inbox` | create, comment, set references, set attachments, delete | attachments by id, activities and inbox by memo id |
| Memos: content (`api/memo_service.go`, `server/runner/memopayload`) | `memo.content`, `memo.payload` | update, rename tag, delete tag | the filter language finds tags in the payload |
| Attachments (`api/attachment_service.go`, `store/attachment.go`) | `resource` rows, files, the thumbnail cache | upload, download, thumbnail, delete | memos own them |
| Presign runner (`server/runner/s3presign`) | the links in `resource.payload` | a pass every half day | runs next to all requests on attachments |
| Migrator (`store/migrator.go`, `internal/version`) | the schema, `migration_history`, the version in the basic setting | one run at each start | nothing is served before it has ended |
| Server (`server/server.go`, `bin/memos/main.go`) | the secret key, the runners | start, shutdown | all of the above |
| Inbox, activities, reactions, identity providers, markdown, RSS, webhook dispatch, filter language, cron library, S3 client | tables of single rows, or none | single statements or pure functions | |
| Client stores (`web/src/store`) | copies of memos and users, the listing under way | fetch a page, read, create, update, delete | the answers of the server, in any order |
| Web UI (`web/src/components`) | the list's flag, token and timers; the editor's text, draft, files and flags | scroll, reload, tick a box, type, upload, save, leave, reopen | the client stores; the server directly for Markdown |
| Generated protocol code (`web/src/types/proto`, `proto/gen`) | none | encode and decode each message, dispatch each method | every call crosses it twice |

`PROJECT.json` lists these as `components` with what is modelled of each, and
under `hazards` the places where the order of steps, a failure or a boundary
matters, each with the properties about it.

### What is hard, and what makes each component correct

- **Sessions.** Every authenticated request reads the list of sessions, sets one
  access time *in the object the cache holds*, and writes the whole list back
  without comparing it with what it read. Correct means: revoked stays revoked,
  active stays signed in, idle does not, and nothing signs in but a sign-in.
- **Memo tree.** Deleting a memo is six kinds of statement, a comment is up to
  seven; each may fail, and others run in between. Correct means: what a request
  leaves when nothing overlaps it is what was asked for, *whatever earlier
  requests that did race or fail left*; the tree has no circle; whoever is
  notified of a comment finds it.
- **Memo content.** Content and payload are two columns that are computed from
  what was read earlier. Correct means: the tags are those of the content, a
  late write does not bring back what was deleted, renaming and deleting a tag
  reaches each memo with it.
- **Attachments.** A file and a row that cannot be changed together, and a
  thumbnail that many requests may make. Correct means: a name serves its own
  data or an error, and no row loses its file.
- **Presign runner.** It pages with an offset through a list that requests
  reorder. Correct means: no link expires and a pass reaches every attachment.
- **Migrator.** The schema and its version are committed one after the other,
  and a start may stop anywhere. Correct means: the version never claims what
  was not run, no release serves on a schema it was not written for, and a
  start after a stop succeeds.
- **Lists of a user.** As for sessions, each call rewrites the list it read, one
  of them in place. Correct means: what calls that ran by themselves created,
  changed and deleted is what the next one finds, across evictions, failures and
  restarts.
- **Workspace settings.** Every getter writes the cache. Correct means: a memo is
  saved only as the setting allows.
- **User accounts.** Correct means: the cache leads to the row or to nothing once
  a write has returned, and sign-up makes one host.
- **The list of memos in the page.** Pages, reloads, aborts and single memos are
  put into one map. Correct means: the list is the one of the page's filter, its
  end is reached with all memos, what is shown is what is stored, and it stops
  loading.
- **Task boxes and editor.** Correct means: boxes show what is saved and clicks
  are saved; text is not lost, not saved twice, and a memo has the files its
  writer chose.
- **Protocol code.** Correct means: both ends have the same methods, and read in
  each field what the other wrote, also when the server is newer than the page.

## Modules

| Module | Models |
|---|---|
| `SettingCell` | one (user, key) cell: row, cache entry, heap of cached objects, and the steps of `GetUserSetting` and `UpsertUserSetting` |
| `UserSessions` | EXTENDS it with sessions: the requests and the store calls each makes |
| `SessionLedger` | abstract: one table of live sessions, no cache, no row, no pointer |
| `UserSessionsLedger` | the refinement mapping from `UserSessions` to `SessionLedger` |
| `UserSessions_proofs` | the theorems about `UserSessions`, and that it implements `SessionLedger` |
| `MemoTree` | memos, comments, references, ownership of attachments, notices |
| `MemoTree_proofs` | the theorems about `MemoTree` |
| `MemoPayload` | content, tags, location, state of memos |
| `MemoPayload_proofs` | the theorems about `MemoPayload` |
| `AttachmentFiles`, `AttachmentFiles_proofs` | rows, files and thumbnails; the theorems about them |
| `Presign` | links, their age and the pages of a pass |
| `Migrator` | schema, history, version, and releases started in any order |
| `SettingLists` | EXTENDS `SettingCell` with the lists of access tokens and webhooks |
| `WorkspaceSettings` | the memo-related setting, its cache entry, and the requests that ask it |
| `Settings`, `Settings_proofs` | composes these two; the theorems about both |
| `UserAccounts`, `UserAccounts_proofs` | the user table and its cache; the theorems about them |
| `ServerParts` | composes `UserAccounts`, `AttachmentFiles`, `Presign` and `Migrator` |
| `ServerParts_proofs` | the theorems about `Presign` and `Migrator`, and those of the other parts for the whole |
| `MemoPages` | the paged list of memos of one tab against the server |
| `TaskList` | the task boxes of one memo |
| `MemoEditor` | the editor with its draft, uploads and saves |
| `ApiFields` | kinds of field and wire types |
| `ApiMemos`, `ApiUsers`, `ApiMarkdown`, `ApiWorkspace` | the messages, enums and services of the generated TypeScript, message by message; `ApiClient` puts them together |
| `ApiServer` | those of the generated Go |
| `ApiWire` | a call or a message crossing between the two |
| `WebTab` | composes `ApiWire`, `MemoPages`, `TaskList` and `MemoEditor` |
| `WebTab_proofs` | the theorems about the last three, and about points in time on the wire |
| `MC*` | symmetry sets and constant values for TLC |

The `map` of `PROJECT.json` names the source lines of each definition.

### State and code

`SettingCell`: `row` is the row of `user_setting`, `cached` the pointer in
`userSettingCache`, `heap` what pointers lead to, `ref` the pointer a goroutine
holds, `draft` the value it has computed. `pc` runs through `get` (cache
lookup), `list` (SELECT), `fill` and `refill` (the two `Set` calls of
`ListUserSettings` and `GetUserSetting`), `got`, `put` (the upsert) and `set`
(the `Set` after it). A driver error may come before or after the statement took
effect. `Evict` is any way an entry disappears: expiry, the item limit, or the
gap between `Delete` and `Store` in `SetWithTTL`. In Go objects that nobody
points to are collected at some time; the model collects them at once
(`Swept`), which no reader can tell.

`UserSessions`: a list is a function from session ids to access times. A request
is a chain of store calls (`stage`): `auth` reads the list and accepts or
refuses, `touch` refreshes, `handler` does the rest. `stamp` is the
`timestamppb.Now()` taken before a call. `alone`, `floor`, `lastUse` and `gone`
are history variables that no guard reads: whether another call overlapped this
one, what is known of a session, when it was last used, and which sessions were
removed by a call that nothing overlapped.

`MemoTree`: one action per SQL statement, except that reading one attachment and
deleting or updating it is one step. `call` carries what the handler holds in
local variables. Ids are never reused (AUTOINCREMENT). Order within a loop is
left open. `Listed` is the limit of 100 that `Store.ListAttachments` sets when it is
given none: `Owned` reads one page of the attachments of a memo (`Pages`), and
`whole` is history that says whether this page had all. `MaxIds` bounds the ids
handed out.

`MemoPayload`: a request reads in its first step and holds in `todo` the columns
it will write to each memo, one UPDATE a step. A content is the set of its tags.
`Fold` is the lower case that LIKE compares. A comment is a row whose COMMENT
relation leads to a row that is there (`IsComment`), as the join of `ListMemos` has
it: a comment whose relation is not written yet, whose relation failed, or whose
parent was deleted is a memo like any other. `parent` and `found` of a request are
what its listing selected and saw.

`AttachmentFiles`: a file holds the attachment whose data it is, or `Part` while
it is being written. An upload gets any path, a new one or one another upload has:
the default template `assets/{timestamp}_{filename}` gives uploads of one filename
in one second the same. `savedAs` is history, the path of each attachment, and
`Shared` the attachments that were given the path of another; the properties say
what these may do to one another, and only these. `cut` is history: deletes that
failed between `os.Remove` and the deletion of the row.

`Presign`: time is counted in half days, hence `KeepFor` = 8 (4 days) and `ValidFor`
= 10 (5 days). A pass begins with a wake-up of the ticker or with a start of the
server (`Restart`), which breaks off the pass under way and may come any time after
the last. `ListFails` is a storage setting or a page that cannot be read, which ends
the pass. `listed` is the order of the listing, last changed first. `missed` is
history: attachments a change in the middle of a pass may have moved past its offset,
that could not be signed, that a pass which was given up or broken off had still
ahead, or that were left while the server was down.

`Migrator`: a schema is the set of scripts that were run on it. A database is new, or
one of an old release, with a migration history and no version in the settings, or
with both. `torn` is history: a start was stopped between a schema and its version.
`MCMigrator` has the scripts of `store/migration/sqlite` from 0.21 on, and which of
them may run twice.

`SettingLists`: the cell is the ACCESS_TOKENS or the WEBHOOKS one, chosen at the
start. `expected` is history: for each item what the calls that ran alone make of
it, or `Unknown`. `Replace` changes the object the cache holds before the row.

`WorkspaceSettings`: `reads` holds for each goroutine what it read (`held`) and
how far it is. The getter fills its defaults into the object it got; doing so
twice is doing so once, so a setting is a value and `Limit` applies the default.
`late`, `loose` and `settingCrossed` are history: what was read before a write,
requests a write overlapped, and an entry that a write has overtaken.

`UserAccounts`: `KeyOf` is `string(user.ID)`, the character with that code;
`held` and `found` are what a call has read and will put into the cache.
`crossed` is history like `settingCrossed`; `founders` keeps for each host by
sign-up the users created between its look for hosts and its insertion.

`MemoPages`: a memo is the place it has in the listing, so that offsets and pages
are numbers. `fetches` are listings under way, `checks` the
`checkAndFetchIfNeeded` calls in their 200 ms, each with the token and filter of
its render, `calls` the single calls. A check that fetched waits for the listing it
asked for (`check`); when that ends or is aborted the check runs again after 500 ms,
unless the render that follows starts one, which clears the timer (`StartCheck`). A fetch that aborts another runs the end of
that one before the next event, as promise callbacks do. A memo's name is used once:
`known` holds those there ever were. `pageNotes` is history.

`TaskList`: a content is the state of each box. `Tick` changes `nodes` in place
and sends what they are then. `TopBox` are the boxes of top-level lists, the only ones
*Remove completed* of `MemoActionMenu.tsx` walks.

`MemoEditor`: `memoName` says whether the editor writes new memos or edits one.
Editors are numbered; a handler of an editor that was left changes nothing on
screen (`InEditorOf`) but still changes draft, store and server. The server does a save
whole (`ServeSave`) or breaks off and answers an error (`ServeHalf`): a new memo stays
with some of its files, as `CreateMemo` inserts it before `SetMemoAttachments`; of an
edited one attachments were dropped and attached one by one and the row not written.
An editor without a memo stands for that of a comment too, which has a *Cancel*. `wanted` and
`sure` of a memo are history: the files its writer chose, and whether anything
happened that is known to confuse them.

`ApiWire`: a message is a function from its fields to values, on the wire a set
of entries. The definitions in `ApiMemos` and its siblings hold a field's number,
kind and label as the `encode` and `decode` of that message have them; `ApiServer`
holds what the tags of the Go structs say. Each message that can be sent or
answered, by itself or inside another, crosses with up to two fields set to each
of a few values. A message inside another is opaque, since each type crosses by
itself. A newer server may add a field and use an enum value no table has.

`ServerParts`, `Settings` and `WebTab` put parts that share no state next to one
another: a behaviour is a behaviour of one part, chosen in the initial state, so
that a run checks each part as if it were by itself.

## Runs

Twelve runs; seven pass, five find what a comment or a document promises and the
code does not keep.

| Run | Bounds | Distinct states | Shows |
|---|---|---|---|
| `sessions_race` | 2 goroutines, 3 objects, 1 session, window 0, clock to 1, the driver fails | 388k | `Inductive`, `RevokedStayRevoked`, `ActiveSessionAccepted`, `IdleSessionRefused` |
| `sessions_ledger` | 1 goroutine, 2 sessions, window 1, clock to 3, no errors | 536k | `ImplementsLedger` |
| `memos_race` | 2 requests, 3 ids for 2 memos and 2 attachments, a listing gives 1, statements fail | 555k | `Inductive`, `NoCircle`, `NoticesLead`, `DeleteLeavesNoTrace`, `UpdateTakesEffect`, `OnlyOwnFilesDropped` |
| `payload_race` | 2 requests, 2 memos, 2 tags that differ in case alone | 678k | `Inductive`, `PartedByLocationOnly`, `DeletedStaysDeleted`, `TagRequestsReach` |
| `server_parts` | 2 requests at a time; 2 users; 2 attachments and 2 paths; 3 attachments in S3, pages of 2; 5 releases, 10 scripts, a stop anywhere | 673k | `Inductive`, `CacheFollowsTable`, `OneFirstHost`, `RowsHaveFiles`, `ServedIsOwn`, `NeverExpired`, `PassReachesAll`, `VersionNotAhead`, `ServedSchemaFits`, `FailsOnlyTornOrOld` |
| `settings` | 2 goroutines, 3 objects, 2 items, 2 addresses, 2 lengths, failures, restarts | 846k | `Inductive`, `AnswersFollowCalls`, `SavedAsAllowed` |
| `web_tab` | every message with 2 fields set; 3 memos on pages of 1, 2 filters, 1 reload, 1 write, 1 failure; 2 boxes, one of them nested, 3 clicks; 1 text, 2 files, 3 turns, 1 failure | 698k | `RequestAsMeant`, `AnswerAsMeant`, `ReturnsAsSent`, `ListIsOfFilter`, `EndOfListHasAll`, `ShownIsStored`, `LoadingEnds`, `BoxesShowContent`, `ClicksAreSaved`, `TextKept`, `SavedOnce`, `MemoHasItsFiles` |
| `sessions_readded` | 2 goroutines, 1 session | violated | `OnlySignInAdds` |
| `memos_promoted` | 1 request at a time, 2 memos | violated | `CommentsStayComments` |
| `payload_tags` | 2 requests, 1 memo | violated | `PayloadMatchesContent` |
| `migrator_restart` | 2 releases | violated | `StartsUp` |
| `web_list` | as `web_tab` | violated | `ChecksFetchWhenIdle` |

`Inductive` is the invariant the proofs of the module are about. It contains the
type invariant, so no run checks that one by itself. What a part of a composed run
promises is stated in the module of the part; the composing module gives it a name
of its own.

**Why the bounds are enough.** What the properties relate is one session, one
memo or one attachment and two requests that overlap; a third request in a race
on the cell adds nothing the inductive invariant does not already allow, and for
`UserSessions` the theorems hold for every size. Three objects are what two
goroutines and the cache can hold at once, so no step is blocked for want of an
address. A window of 0 with a clock to 1 has both a use within the window and one
beyond it; `sessions_ledger` has a window of 1 and a longer clock. Two memos give
each request a target and a parent, a reference or a second round of a loop;
`memos_promoted` needs two for a memo and its comment. A listing of one of a memo's
two attachments is what one of 100 of a memo's 101 would be; `MaxIds` = 3 leaves room
for two memos and an attachment or for a memo and two. Two paths for two attachments
are their own or one for both. Three attachments with
pages of two give a pass a second page that is not full, which is where an offset
goes wrong. At the server `MaxClock` and `MaxIds` are the only caps on a counter; ids are finite sets, so
each run is one in which a server hands out that many. Of the two user ids one is
the code of no character. Two items and two addresses tell a list from the one
before it; a limit below, at and above the default are lengths 0 and 2 around a
default of 1. In the page three memos with one unwritten and pages of one make a
listing of two pages or three, of which all but the first move when a memo is written
or deleted; the filter selects the last. `MaxLoads`, `MaxWrites`,
`MaxLosses`, `MaxFailures`, `MaxTurns` and `MaxFaults` bound how often a user or a
failure starts something new, never how it goes on. Two fields at a time are what
one field can disturb another by.

**Symmetry** is used in runs without liveness: goroutines, objects, sessions,
memos and attachments are only compared for equality, and so are tags that all fold
to one (`payload_race`) or each to itself.

**Deadlock** is checked in every run of the server: some request can always
arrive or fail. A tab may come to rest, when its bounds on clicks and reloads are
used up, so `web_tab` and `web_list` do not check it.

**Fairness** is assumed of the list in the page only: weak fairness of
`FetchGoesOn`, a listing that was asked for is answered and its answer handled,
and of `CheckEnds`, a timer of the browser fires. Both are what the `await` in
`fetchMemos` and `setTimeout` stand for; a listing may still fail. Nothing is
assumed of the user.

### What the passing runs say, with their conditions

Some promises hold only where no other call overlaps, and the properties say so
through `alone`. That is no way of assuming the race away: the state such a call
*starts* from is any that earlier races and failures have left.

- A revocation that no store call of the user overlapped is final. One that a
  refresh overlaps may be undone (`sessions_readded`).
- `ActiveSessionAccepted` is about a session whose sign-in or last refresh
  nothing overlapped; two sign-ins at once may drop each other's session.
- `DeleteLeavesNoTrace` and `UpdateTakesEffect` hold for requests nothing
  overlapped, from any state. Of attachments they promise completeness only if the
  listing had all: of a memo with more than 100 a delete leaves the others, owned by
  a memo that is gone, and an update leaves those it was to take away.
- `NoticesLead`: whoever is told of a comment finds the activity, and while the
  comment exists its relation. The memo it is on may be gone after a
  `DeleteMemoTag` with `DeleteRelatedMemos`, and then `convertActivityPayloadFromStore`
  (`api/activity_service.go`) reads a field of a memo it did not find.
- `TagRequestsReach`: of tag requests nothing overlapped. They write to no row that
  is a comment while they write, but to comments without a relation or a parent they
  do, as those are listed as memos. A `DeleteMemoTag` makes such memos of the comments
  of what it deletes, which it did not list.
- `PartedByLocationOnly`: the only way tags and content part is a location update
  that raced with a content update.
- `RowsHaveFiles`, `ServedIsOwn`: the ways a row loses its file are a delete that
  stopped after `os.Remove`, and a path it shares with another attachment, whose
  delete takes the file from both. Such an attachment can neither be read nor
  deleted, since each further `os.Remove` fails. Of attachments that share a path the
  one uploaded last is served under both names. The default template makes that
  possible, one with `{uuid}` does not.
- `NeverExpired`, `PassReachesAll`: a link may expire only if a pass missed it and
  none has reached it since: because of an error, because a change moved it past the
  offset, or because the pass was given up (a listing or the storage setting could
  not be read) or broken off by a restart before it came to it.
- `ServedSchemaFits` and `FailsOnlyTornOrOld`: what goes wrong at a start has one of
  two causes. One is a stop between committing the schema and saving its version. The
  other needs no stop: a database with a migration history and no version keeps having
  none, because `migrateSchemaVersionToSetting` saves the history's version only when
  the setting's is *greater or equal* (`store/migrator.go:340`), where its comment
  (lines 319 and 320) says it moves the version to the setting. Such a database fails at its first
  start if a script that cannot run twice is run again; and one that has both gets the
  older of the two.
- `AnswersFollowCalls`: of calls on a list of which none that writes overlapped
  another. The one that is changed in place is no exception: a reader between the
  change and the row sees it early, but then a call is under way.
- `SavedAsAllowed`: of requests that no change of the setting overlapped, while
  the cache holds no value that a reader put back after a change. Such a value
  stays as long as it is read, since each getter sets the entry anew.
- `CacheFollowsTable`: likewise, and not for two ids that share a key.
- `OneFirstHost`: two hosts by sign-up only if one was created while the other's
  request was between its look for hosts and its insertion.
- `ListIsOfFilter`, `EndOfListHasAll`: unless a listing failed or a check of an
  earlier render overtook a reload (`web_list`). For the end of the list also unless
  a memo was written since it was loaded, which moves the offsets, or a check came
  after a refresh with a token of before it, which asks for a page past those that
  are loaded and leaves the ones between out. `ListIsOfFilter` compares the filter of
  the first page; single memos that other parts of the page merge into the store are
  not its matter.
- `ShownIsStored`: unless a write of the memo overtook an answer made before it. No
  other client writes at the server, and the run has one write.
- `LoadingEnds`: without condition but the fairness.
- `BoxesShowContent`, `ClicksAreSaved`: without a failed call (nothing puts a box
  back), and for clicks that no other's handler overlapped.
- `TextKept`: unless it was typed while a save was under way, whose end clears the
  editor, or the page was left before or after a save failed: the draft is deleted
  at the end of a failed save too. One more exception came out of the proof: when the
  answer of a save was lost, `memoStore` still has the text of before it; typing that
  text back is no change to `handleSaveBtnClick`, which closes the editor without
  saving, and the server keeps the other text (`StoreBehind`).
- `SavedOnce`: unless the save made the memo and was answered with an error or not at
  all, or the page was left. `CreateMemo` answers with an error when its attachments
  cannot be set, and the memo stays.
- `MemoHasItsFiles`: with the exceptions its comment lists; each is a way in which
  the page forgets or adds files, or in which the server did half of a save. A failed save clears the chips; an upload by the
  button does not disable the save and sets the list it captured; the first of two
  drops to end clears the flag of both; Ctrl+Enter does not ask the flag.
- `RequestAsMeant`, `AnswerAsMeant`, `ReturnsAsSent`: a time is kept to the
  millisecond, also before 1970, where `toTimestamp` writes negative nanoseconds that
  the definition of a timestamp does not allow and `AsTime` takes all the same; an enum value the page does not know comes back
  as -1; a whole number past 2^53 - 1 makes an answer unreadable.

### What the violated runs say

- `sessions_readded`: a refresh reads the list, a second request revokes the session
  and stores the list without it, and `UpdateUserSessionLastAccessed` writes back what
  it read: the revoked session is in the stored list again.
- `memos_promoted`: `DeleteMemoTag` with `DeleteRelatedMemos` deletes the row of a
  memo alone; the comment on it joins no parent any more and is listed as a memo.
- `payload_tags`: updating the location writes the whole payload that was read at
  the start, with the tags of a content another request has replaced.
- `migrator_restart`: after a stop between the two transactions of the migrator
  each further start runs scripts again that cannot run twice, and fails.
- `web_list`: a check waits 200 ms and then fetches by the state of the render it
  came from. A reload for another filter that began meanwhile is aborted, and the
  old filter's next page is merged into the list.

## Proofs

| Module | Theorem | States |
|---|---|---|
| `UserSessions_proofs` | `AlwaysInductive`, `TypeCorrect` | `Spec => []Inductive`, `Spec => []TypeOK` |
| | `RevocationHolds` | `RevokedStayRevoked` |
| | `ActiveAccepted` | `ActiveSessionAccepted` |
| | `IdleRefused` | `IdleSessionRefused` |
| | `LedgerImplemented` | `Spec /\ []OneAtATime => ImplementsLedger`, without driver errors |
| `MemoTree_proofs` | `AlwaysInductive`, `TypeCorrect` | `Spec => []Inductive`, `Spec => []TypeOK` |
| | `CommentsRunInNoCircle` | `[]NoCircle` |
| | `NoticesAlwaysLead` | `[]NoticesLead` |
| | `DeleteIsComplete` | `DeleteLeavesNoTrace` |
| | `UpdateIsComplete` | `UpdateTakesEffect` |
| | `OwnFilesDropped` | `OnlyOwnFilesDropped` |
| `MemoPayload_proofs` | `AlwaysPayloads`, `AlwaysInductive` | `[]Payloads`, `[]Inductive` |
| | `PartedOnly` | `PartedByLocationOnly` |
| | `DeletedStays` | `DeletedStaysDeleted` |
| | `TagsReached` | `TagRequestsReach` |
| `Settings_proofs` | `AlwaysInductive` | `[]Inductive` |
| | `ListsAnswered` | `AnswersFollowCalls` |
| | `SavesAllowed` | `SavedAsAllowed` |
| `UserAccounts_proofs` | `AlwaysInductive`, `TypeCorrect` | of the users alone |
| | `CacheFollows`, `FirstHost` | `[]CacheFollowsTable`, `[]OneFirstHost` |
| `AttachmentFiles_proofs` | `AlwaysInductive`, `TypeCorrect` | of the attachments alone |
| | `FilesKept`, `OwnServed` | `[]RowsHaveFiles`, `ServedIsOwn` |
| `ServerParts_proofs` | `AlwaysInductive` | `[]Inductive` of the four parts together |
| | `LinksLive`, `LinksReached` | `[]NeverExpired`, `PassReachesAll` |
| | `VersionHolds`, `SchemaFits`, `FailuresExplained` | `[]VersionNotAhead`, `[]ServedSchemaFits`, `[]FailsOnlyTornOrOld` |
| | `CacheFollows`, `FirstHost`, `FilesKept`, `OwnServed` | those of its parts, of `ServerParts` |
| `WebTab_proofs` | `PagesInductive`, `TasksInductive`, `EditorInductive` | `[]Pages!Inductive`, `[]Tasks!Inductive`, `[]Editor!Inductive` |
| | `ListFollowsFilter`, `EndHasAll`, `ShownFollowsStored` | `[]ListIsOfFilter`, `[]EndOfListHasAll`, `[]ShownIsStored` |
| | `BoxesFollow`, `ClicksSaved` | `[]BoxesShowContent`, `[]ClicksAreSaved` |
| | `TextIsKept`, `SavedAtMostOnce`, `MemoGetsItsFiles` | `[]TextKept`, `[]SavedOnce`, `[]MemoHasItsFiles` |
| | `TimeReachesServer`, `TimeReachesPage`, `TimeReturns` | every point in time crosses to the millisecond, both ways |

They hold for every value of the constants that the assumptions below allow: any
number of goroutines, memos, users, attachments, lengths, releases, sizes of a page,
clicks, texts and calls at a time, and any of the bounds that TLC needs. No set is
assumed to be finite but the scripts of a release and the memos the page lists.

### Assumptions

| Assumption | Says | Why |
|---|---|---|
| `NoneIsNoRef`, `NoneIsNoTime`, `NoneIsNoValue`, `NoneIsNoRole` | `None` is no object, time, list, request or role | an encoding: nil is no value |
| `NoneIsNoList`, `NoneIsNoPlace`, `NoneIsNoId`, `ValuesAreDistinct` | likewise, and `Loose` and `Part` are no memo and no file | likewise |
| `WindowIsNat`, `DriverFailsIsBool` | what the names say | |
| `FoldAssumption` | `Fold` maps tags to tags | LIKE folds letters |
| `WorkspaceAssumption` | lengths and the default limit are natural numbers, 0 is a length, `None` is no setting | `int32` columns; an unset limit is 0 (`store/workspace_setting.go`) |
| `UsersAndIds` | ids are natural numbers, `NoUser` is none and no user | `AUTOINCREMENT` |
| `Periods` | a page has room for one, and a link that is kept outlives the next wake-up: `KeepFor + 1 < ValidFor` | the runner keeps links for 4 days, signs them for 5 and wakes every half day (`server/runner/s3presign/runner.go`) |
| `ReleasesAndScripts` | finitely many scripts; each release of the old history up to `Normalized` has one | the directories under `store/migration/sqlite` |
| `BoundsAreNats` | `Listed` and `MaxIds` are natural numbers | a limit; a bound of the runs |
| `BoxAssumption` | `TaskAssumption` of `TaskList`: the top-level boxes are boxes | |
| `ListAssumption` | `PagesAssumption` of `MemoPages`: a memo is a place in a finite listing, filters select memos, a page has room for one | `DefaultPageSize`, and a limit that is not positive becomes it (`memo_service.go`) |
| `DraftAssumption` | `EditorAssumption` of `MemoEditor`: the file an edited memo has at first is one of the files | an encoding |
| `~DriverFails`, `[]OneAtATime` | `LedgerImplemented` alone | see below |

TLC evaluates each ASSUME in the run of its module. The two of `LedgerImplemented` are
hypotheses of the theorem itself.

### Sessions

None of the three promises is inductive: that a revoked session is not in the
list one goroutine reads says nothing of the lists others hold and may yet write.
`Inductive` therefore speaks of *all* lists that can still be read or written,
`Lists`: the row, every object a pointer leads to and every draft. Its parts are

- `TypeOK` and `Shape`: what a goroutine holds follows from where it is, and an
  object has a value exactly while someone points to it;
- `Solitude`: a call marked `alone` is alone, and before it sets the cache the
  row is what it has written. This is what lets `Done` conclude something about
  every list from what one call wrote;
- `Drafts`: a call writes what it is for, of its own session;
- `Known(s)` for sessions with a `floor`: in each list, with that time or a later
  one, and no call in flight has an older time or takes it out;
- `Gone(s)` for sessions in `gone`: in no list, and no call adds it;
- `Used(s)`: no list has a time later than the last use.

`InductiveStep` has one lemma per part (`TypeStep`, `ShapeStep`, `SolitudeStep`,
`DraftsStep`, `KnownStep`, `GoneStep`, `UsedStep`), each by cases over the
actions. They rest on `ListsStep` (a step makes at most one new list, the one a
call computed), `OwnStep`, `CallStep` and `FloorStep` (what a step does to the
goroutine that takes it) and `LoneWriter`. The theorems on actions then look at
`Accept` or `Reject` alone.

**The refinement.** With one request at a time each step of `UserSessions` is one of
`SessionLedger` or none. The mapping forgets the cache, so the proof has to know that
what the cache serves is the row: `Stepwise` says that what a call has read is the
table, that what it will write is the table with its own change (`Outcome`), and that
the cache follows the row but while a call writes. The row changes in `Exec`, and
that is the step of the ledger (`LedgerStep`); authenticating is a step when the
request is let in (`ServesOne`). Both hypotheses are needed. Two requests at a time
do not implement the ledger, as `sessions_readded` shows: a session that was revoked
is served. And an error after the statement was executed leaves a row the cache does
not know, so that the next request finds what is no longer in the table.

### Memos

`NoCircle` is not inductive because a request holds a memo and its parent long
before it writes the relation. `Rooted` counts those in flight with the relations
(`Ties`): every set of memos has one that neither is nor will be a comment on
another of them. A memo that is inserted is in no tie, since an id is handed out
once (`KnownIds`, `OwnInsert`), so it can be the comment of a new tie without
closing a circle. `NoticesLead` needs that the activity is there before the notice
and that the comment relation is there before the activity (`InOrder`), whichever
statement failed; that a delete takes away relations only after the row is what keeps it.

The two action properties are about the last of many statements. `HalfWay` and
`Deleted` say for a request that nothing overlaps how far it has come at each of
them: which of the references asked for are written, which attachments are still to
be taken away, which comments are left. What they say of all attachments is under `whole`. The state it began in is any, so that leftovers
of earlier races and failures are what it has to clear.

`MemoPayload`'s promises are about a write, whose columns were computed from rows
that may have changed since. `Inductive` says what is known of the columns in flight:

- `Whole`: whoever writes a content writes the tags found in it. So of the
  requests only those without a content can part tags and content;
- `Fresh`: a request that nothing overlapped writes without a content only the
  tags the memo still has. So the request that parts them was overlapped;
- `TagWrites`: what a tag request is to write takes the tag away or archives the
  memo; and if nothing overlapped it, the row is no comment as the join has it;
- `TagLeft`: at each step of a tag request that nothing overlapped, a memo it is
  about has lost the tag, is a comment or was one of a memo the request has listed
  (`WasComment`), is archived by it or is still in `todo`. With `todo` empty this is
  the promise.

Whether a row is a comment depends on other rows, so a step on one row can change it
for another: a request that inserts a row or a relation ends the solitude of the
others, and of a write that deletes a row `WriteKeepsComments` keeps track of those it was the parent of. Requests
differ in what they read; `StartKeeps` and `BeginKeeps` (a request that starts with
what it has just read) and `AtOnceKeeps` (a request of one statement) do the work
for all of them; `EditedColumns`, `RenamedColumns` and `RenamedAway` say that what
each request computes is as those lemmas ask.

### Settings

The lists of a user are a second use of the cell of `SettingCell`, with other calls.
`Known` says that an item that is certain is the same `Everywhere`: in the row, in
every object, in what a goroutine looks at and in what it is about to write. A call
on the item breaks that, and then `Solitude` says that the item is not certain while
it runs, and that nothing is once two calls overlap of which one writes. So what a
returning call has to show is only about itself (`Wrote`), when nobody else is there
to hold another list. The change of a webhook is the one that needs more: it writes
the list as it is when it does not find the webhook. It has looked it up before, so
`Looked` says that while it is alone every list agrees on the webhook, and after the
first look has it. `EverywhereStep` is the lemma under all of them: a step that is no
call on an item makes no list that differs in it.

For the setting of the workspace `HeldFollows` says that a value in flight that is not
`late` is the setting, `EntryFollows` the same of the entry, and `Passed` that a
memo whose length is being checked had the visibility the setting allows. `MoveStep`
does every step that leaves the row alone and `WriteStep` the one that does not.

### The parts of the server

- **Users.** `CacheFollowsTable` follows from what calls hold (`HoldsCurrent`): each
  user is as the table has it, or known to be late; `CallShape` says what a call
  holds where. For `OneFirstHost` a call carries the users created since it looked
  (`LooksForFirst`). The proof found the exception `Shared` too narrow: the entry of an
  id that is the code of no character is that of U+FFFD, and so shared with id 65533 itself as
  well, not only among the ids that are the code of no character.
- **Attachments.** Nothing is assumed of paths. `OwnPaths` says that rows and requests
  have the path the attachment was saved under and that a file holds what was saved
  there; so a file of an attachment that is not `Shared` holds its own data
  (`SharedPaths`). An attachment never stops sharing (`SharedGrows`), which is why each
  part can leave the shared ones out for good. `UploadsAlone` gives an upload its file
  to itself until the row is there; `WholeOrGone` says that whoever has seen the row
  sees the file whole or removed; `Removing` that a row without its file has a delete
  about to drop it.
- **Migration.** `Reached` says what is known of schema and version at each stage,
  `VersionCountsAll` that without a history and without a stop between the two they
  agree, from which the causes of a failed start follow. The lemmas under it are about
  versions: `Greater` is a strict total order and
  `Newest`, a CHOOSE, has a value because the scripts are finitely many.
- **Links.** A link that a pass has missed nothing of is young, or still `Ahead` in the
  page or past the offset and no older than one more half day. A pass that is given up
  or broken off puts what it has ahead into `missed`, so that the others are young. A
  rename moves an attachment to the front and a delete moves all behind it one up, so
  the lemmas are
  about a listing from which one is taken out (`RemoveAtIs`, `CutStep`, `AfterMove`)
  or before which one is put (`FrontStep`).

`ServerParts` instantiates the modules of users and attachments, so that
`ServerParts_proofs` cites their theorems: a behaviour of the composition is one of
the part, the others stutter. The lemmas about links and schema are its own.

### The page

Each part of the tab has an `Inductive` of its own, and `TabStep` says that a step of
`WebTab` is one of each part or leaves it alone.

- **Task boxes.** `AnswerIsSaved`: while answers come in the order of the saves, the
  one in flight carries what is saved, and at rest the boxes show it. `CarriesAll`: a
  handler that nothing overlapped carries every click so far, and so does what is saved
  once it has ended.
- **The list.** `OneListing`: an abort leaves one listing under way, and a list that
  does not know of it has no token, so that no scroll merges into it. From this follows
  what a listing is asked for (`AsksForFilter`). `NoneLeftOut` counts places: the memos
  up to the token or the offset are on screen, and an answer in flight is the page that
  comes next; the lemmas under it are about cardinalities of initial parts of the
  listing (`PageAt` with pages of any size). A write moves the places, which is why the
  promise ends there. `ShownIsStored` is not inductive because an answer may be older
  than what is on screen: `OnItsWay` says of each memo that nothing crossed that every
  answer in flight is what the server has, and that a version which is not on screen is
  in a call's answer. Its hardest case is a memo that is being created, and `CreatedOnce`
  rests on names being used once (`KnownBefore`).
- **The editor: text.** `TextOnItsWay` follows the text typed last through screen,
  draft, save and memo. It fails where a stale store copy has the very text, which is how
  the exception `StoreBehind` was found. `SentOnce` says that a text
  which is saved or on its way there has its editor waiting, which is what keeps the key
  from sending it again; `TypedOnce` that a text that was not typed yet is nowhere.
- **The editor: files.** `ListIsWanted` is the accounting while nothing went wrong: the
  files chosen are those on screen and those being uploaded; uploads and saves are of
  this editor; what the server has attached is what the store says. A save takes that
  into `SentAsWanted`, and serving it into `HasItsFiles`. What the notes call a risk ends
  the accounting until the editor is opened anew, while saves of editors that were left
  still arrive: `FilesApart` and `NotYetListed` keep theirs from touching the new one's.
  A save that the server breaks off makes nobody sure of its memo or of those it took
  files from (`HalfServed`, `LessSure`), and the editor's end of it is that of a failure.

Each of these was checked by TLC on the instance of `web_tab`, `Editor!Inductive` also
with a second text equal to the memo's first, before it was proved. It is no property
of the run, which checks what it is for.

- **Points in time.** The run has two times at each end; the theorems have all of them.
  `toTimestamp` gives negative nanoseconds before 1970, which `AsTime` carries, and
  `fromTimestamp` drops less than a millisecond. They count nanoseconds: counted in
  microseconds, as TLC's integers make the run do, a time before 1970 with a part below
  one would seem a whole millisecond off.

### What is only model-checked

- `RequestAsMeant`, `AnswerAsMeant`, `ReturnsAsSent` of `ApiWire`: they are about
  tables of constants, each message and enum of the generated code, where TLC's
  enumeration of the messages is the proof. Only times are proved about. Which messages
  cross (`WithParts`) is a recursive function, and what it gives for every table would
  need induction over data, which is out of the prover's reach.
- `LoadingEnds`: liveness under fairness, and ENABLED, are out of reach as well.
- The runs that expect a violation: a counterexample is their proof.

## Not modelled

- Shortcuts and the general setting of a user; the basic, general and storage
  settings of the workspace; permissions of users; the inside of the cache; server
  start and shutdown: see the plan.
- MySQL and PostgreSQL: the same statements, except that MySQL commits DDL
  implicitly. The models are of SQLite, the default.
- Objects in S3 beyond their links; EXIF; range requests; access checks.
- Reading at the server: search, statistics, RSS. The listing of memos is modelled
  as the page sees it.
- Parsing of Markdown and of the filter language, which keep no state.
- Reactions, identity providers, webhook dispatch: single statements, or a call
  whose outcome nothing depends on.
- The cron library and `memopayload.Runner.RunOnce`: nothing calls them.
- Of the generated code: JSON, `fromPartial`, the gateway, the messages of the
  store package, and the descriptors that no call carries (`descriptor.ts`,
  `google/api/*`).
- Presentation, the stores of users, workspace and attachments, relations and
  locations in the editor, a `memoStore` read without `skipCache`; deployment.

## Plan

Most important first; 1 to 11 are done.

1. `SettingCell`, `UserSessions` with their runs; `SessionLedger` as the abstract
   specification.
2. `UserSessions_proofs`.
3. `MemoTree`: the statements of the handlers on memos.
4. `MemoPayload` and `MemoPayload_proofs`.
5. `AttachmentFiles`, `Presign`.
6. `Migrator`.
7. `WorkspaceSettings` and `SettingLists`, run together as `Settings`.
8. `UserAccounts`, run with 5 and 6 as `ServerParts`.
9. `ApiFields` to `ApiWire`: the two generated ends of the protocol.
10. `MemoPages` and `TaskList`: answers that arrive out of order.
11. `MemoEditor`; `WebTab` for 9 to 11.
12. `MemCache`: the item counter against the number of items, expired entries and
    clean-up; `SettingCell`'s cache shown to be what it implements.
13. `Lifecycle`: secret key, runners, order of shutdown.
14. `Paging`: page tokens, limits and range requests as pure operators against a
    reference definition.
15. Shortcuts, as a third list of `SettingLists`; the stores of users and of the
    workspace in the page.

Proofs: 1 to 8, 10 and 11 are done, with every safety property and action property
their passing runs check and the refinement of `SessionLedger`; of 9 what becomes of a
time. Next is whatever 12 to 15 promise.

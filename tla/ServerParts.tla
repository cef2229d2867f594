----------------------------- MODULE ServerParts -----------------------------
(***************************************************************************)
(* The parts of the server that share no state with one another, each next *)
(* to the others without touching them: one behaviour is a behaviour of    *)
(* one part, chosen at the start, and the properties are those of all.     *)
(*                                                                         *)
(*   users        UserAccounts       the user table and its cache          *)
(*   attachments  AttachmentFiles    rows, files and thumbnails            *)
(*   links        Presign            presigned links and their renewal     *)
(*   schema       Migrator           the schema and its version            *)
(*                                                                         *)
(* Two parts are instantiated with the theorems about them.              *)
(***************************************************************************)
EXTENDS Naturals

CONSTANTS
    Proc, None, Part,
    Attachment, Path,               \* see AttachmentFiles
    UserId,                         \* see UserAccounts
    File, BatchSize, KeepFor, ValidFor, \* see Presign
    Release, Script, Repeatable, Normalized, Legacy \* see Migrator

VARIABLES
    part,
    users, userIds, userCache, calls, crossed, founders,
    attachmentRow, attachmentUsed, savedAs, disk, thumb, attachmentReq, cut,
    listed, used, age, page, offset, running, missed,
    applied, history, version, release, stage, torn

Accounts == INSTANCE UserAccounts_proofs WITH Caller <- Proc, NoUser <- None
Attachments == INSTANCE AttachmentFiles_proofs WITH
    File <- Attachment, row <- attachmentRow, used <- attachmentUsed, req <- attachmentReq
Links == INSTANCE Presign
Schema == INSTANCE Migrator WITH setting <- version, running <- release

\* The assumptions of the parts on their constants.
ASSUME AccountsAssumption == Accounts!UsersAndIds
ASSUME AttachmentsAssumption == Attachments!ValuesAreDistinct
ASSUME LinksAssumption == Links!Periods
ASSUME SchemaAssumption == Schema!ReleasesAndScripts

accounts == <<users, userIds, userCache, calls, crossed, founders>>
attachments == <<attachmentRow, attachmentUsed, savedAs, disk, thumb, attachmentReq, cut>>
links == <<listed, used, age, page, offset, running, missed>>
schema == <<applied, history, version, release, stage, torn>>
vars == <<part, accounts, attachments, links, schema>>

Init ==
    /\ part \in {"users", "attachments", "links", "schema"}
    /\ Accounts!UsersInit
    /\ Attachments!Init
    /\ Links!Init
    /\ Schema!Init
    /\ part # "schema" => applied = None

Next ==
    \/ /\ part = "users"
       /\ Accounts!UsersNext
       /\ UNCHANGED <<part, attachments, links, schema>>
    \/ /\ part = "attachments"
       /\ Attachments!Next
       /\ UNCHANGED <<part, accounts, links, schema>>
    \/ /\ part = "links"
       /\ Links!Next
       /\ UNCHANGED <<part, accounts, attachments, schema>>
    \/ /\ part = "schema"
       /\ Schema!Next
       /\ UNCHANGED <<part, accounts, attachments, links>>

Spec == Init /\ [][Next]_vars

---------------------------------------------------------------------------
(* What each part promises; see the module of each.                        *)

\* The inductive invariants of the parts, which the proofs are about; the state
\* of a part that is not chosen stays as it was at the start.
Inductive ==
    /\ part = "users" => Accounts!Inductive
    /\ part = "attachments" => Attachments!Inductive
    /\ part = "links" => Links!Inductive
    /\ part = "schema" => Schema!Inductive

\* UserAccounts: a cached user is the one of the table.
CacheFollowsTable == Accounts!CacheFollowsTable

\* UserAccounts: sign-up makes one host, unless two run into each other.
OneFirstHost == Accounts!OneFirstHost

\* AttachmentFiles: a row on disk with a path of its own has its file, when no
\* request runs.
RowsHaveFiles == Attachments!RowsHaveFiles

\* AttachmentFiles: what is served was uploaded under that name, or to its path.
ServedIsOwn == Attachments!ServedIsOwn

\* Presign: a link is renewed before it expires.
NeverExpired == Links!NeverExpired

\* Presign: a pass misses only what was moved past it or not signed.
PassReachesAll == Links!PassReachesAll

\* Migrator: the version on record counts no script that was not run.
VersionNotAhead == Schema!VersionNotAhead

\* Migrator: a release serves with its own schema, or is refused.
ServedSchemaFits == Schema!ServedSchemaFits

\* Migrator: no start fails but after a stop in one, or on a migration history.
FailsOnlyTornOrOld == Schema!FailsOnlyTornOrOld
=============================================================================

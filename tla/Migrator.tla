------------------------------ MODULE Migrator ------------------------------
(***************************************************************************)
(* Starting the server on a database of any age (store/migrator.go).  The  *)
(* schema is created or brought up to date in one transaction, and the     *)
(* version it then has is saved in another; the server may stop between    *)
(* any two steps and be started again, in another release.                 *)
(*                                                                         *)
(* A release is its minor version, a schema version is a pair of numbers,  *)
(* and a schema is the set of scripts that were run on it, each of which   *)
(* cannot be run a second time unless it is Repeatable.  The model is of   *)
(* production mode on SQLite, where a transaction covers the DDL in it.    *)
(***************************************************************************)
EXTENDS Naturals, FiniteSets

CONSTANTS
    Release,    \* releases of the server, by minor version
    Script,     \* migration scripts, <<minor, number in the directory>>
    Repeatable, \* scripts that run again without an error
    Normalized, \* the last minor version whose history is normalized: 22
    Legacy,     \* releases that kept the version in migration_history
    None        \* no database, no schema version, no release running

\* There are finitely many scripts, some for every release whose history is not
\* normalized (the directories store/migration/sqlite/0.2 to 0.22).
ReleasesAndScripts ==
    /\ Script \subseteq Nat \X Nat /\ IsFiniteSet(Script) /\ Repeatable \subseteq Script
    /\ Release \cup Legacy \subseteq Nat /\ Normalized \in Nat
    /\ \A old \in Legacy : old <= Normalized => \E s \in Script : s[1] = old
    /\ None \notin Nat \cup (Nat \X Nat) /\ \A schema \in SUBSET Script : schema # None

VARIABLES
    applied,    \* the scripts run on the schema, None before it is created
    history,    \* the versions in migration_history
    setting,    \* the schema version in the basic setting
    running,    \* the release being started or serving
    stage,      \* how far it has come
    torn        \* history: whether a stop has parted a schema from its version

vars == <<applied, history, setting, running, stage, torn>>

Stage == {"off", "check", "create", "stamp", "normalize", "carry", "compare", "apply",
          "record", "serving", "refused", "failed"}

\* Semantic versions; one that is no version is less than any.
Greater(v, w) ==
    v # None /\ (w = None \/ v[1] > w[1] \/ (v[1] = w[1] /\ v[2] > w[2]))
Newest(versions) == CHOOSE v \in versions : \A w \in versions : ~Greater(w, v)

\* getSchemaVersionOfMigrateScript: one more than the number of the script.
VersionOf(s) == <<s[1], s[2] + 1>>

\* GetCurrentSchemaVersion: that of the last script of the minor version.
Current(release) ==
    Newest({<<release, 0>>} \cup {VersionOf(s) : s \in {t \in Script : t[1] = release}})

\* LATEST.sql, and the schema a release expects.
Latest(release) == {s \in Script : s[1] <= release}

\* No database yet, or one of a release that kept a migration history, as it was
\* left or brought up to date by a release that kept the version in the setting.
Init ==
    /\ running = None
    /\ stage = "off"
    /\ torn = FALSE
    /\ \/ applied = None /\ history = {} /\ setting = None
       \/ \E old \in Legacy :
            /\ history = {<<old, 0>>}
            /\ \/ applied = Latest(old) /\ setting = None
               \/ \E release \in Release :
                    release >= old /\ applied = Latest(release) /\ setting = Current(release)

---------------------------------------------------------------------------
At(s) == stage = s
To(s) == stage' = s /\ UNCHANGED running

Start ==
    /\ At("off")
    /\ \E release \in Release : running' = release
    /\ stage' = "check"
    /\ UNCHANGED <<applied, history, setting, torn>>

\* preMigrate: a database without a memo table is not initialized.
Check ==
    /\ At("check")
    /\ To(IF applied = None THEN "create" ELSE "normalize")
    /\ UNCHANGED <<applied, history, setting, torn>>

Create ==
    /\ At("create")
    /\ applied' = Latest(running)
    /\ To("stamp")
    /\ UNCHANGED <<history, setting, torn>>

\* updateCurrentSchemaVersion after the schema was created.
Stamp ==
    /\ At("stamp")
    /\ setting' = Current(running)
    /\ To("normalize")
    /\ UNCHANGED <<applied, history, torn>>

\* normalizeMigrationHistoryList: a history that ends in an old minor version
\* gets that version's last schema version.
Normalize ==
    LET last == Newest(history)
        scripts == {s \in Script : s[1] = last[1]}
        full == Newest({VersionOf(s) : s \in scripts})
    IN
    /\ At("normalize")
    /\ IF history = {} \/ last[1] > Normalized
       THEN To("carry") /\ UNCHANGED history
       ELSE IF scripts = {}
       THEN To("failed") /\ UNCHANGED history
       ELSE To("carry") /\ history' = IF Greater(full, last) THEN history \cup {full} ELSE history
    /\ UNCHANGED <<applied, setting, torn>>

\* migrateSchemaVersionToSetting: the setting gets the version of the history when
\* it has one that is at least as new.
Carry ==
    /\ At("carry")
    /\ setting' = IF history = {} \/ Greater(Newest(history), setting) THEN setting
                  ELSE Newest(history)
    /\ To("compare")
    /\ UNCHANGED <<applied, history, torn>>

\* Mutant of Compare: a newer schema is taken for an up to date one.
CompareUp ==
    /\ At("compare")
    /\ To(IF Greater(Current(running), setting) THEN "apply" ELSE "serving")
    /\ UNCHANGED <<applied, history, setting, torn>>

\* Migrate: a newer schema is refused, an older one migrated.
Compare ==
    /\ At("compare")
    /\ To(IF Greater(setting, Current(running)) THEN "refused"
          ELSE IF Greater(Current(running), setting) THEN "apply" ELSE "serving")
    /\ UNCHANGED <<applied, history, setting, torn>>

\* Mutants of Pending: the last script that was run is run again, and those of
\* the releases in between are not.
PendingAgain == {s \in Script : ~Greater(setting, VersionOf(s)) /\ s[1] <= running}

PendingOwn == {s \in Script : Greater(VersionOf(s), setting) /\ s[1] = running}

\* The scripts newer than the recorded version, up to the release's own.
Pending == {s \in Script : /\ Greater(VersionOf(s), setting)
                           /\ ~Greater(VersionOf(s), Current(running))}

\* One transaction: a script that cannot be run rolls it back.
Apply ==
    /\ At("apply")
    /\ IF Pending \cap applied \subseteq Repeatable
       THEN To("record") /\ applied' = applied \cup Pending
       ELSE To("failed") /\ UNCHANGED applied
    /\ UNCHANGED <<history, setting, torn>>

\* updateCurrentSchemaVersion, after the commit.
Record ==
    /\ At("record")
    /\ setting' = Current(running)
    /\ To("serving")
    /\ UNCHANGED <<applied, history, torn>>

\* The server is stopped, or its start has failed; or it crashes or cannot
\* reach the database, anywhere.
Stop ==
    /\ running # None
    /\ running' = None
    /\ stage' = "off"
    /\ torn' = (torn \/ stage \in {"stamp", "record"})
    /\ UNCHANGED <<applied, history, setting>>

Next ==
    \/ Start
    \/ Check
    \/ Create
    \/ Stamp
    \/ Normalize
    \/ Carry
    \/ Compare
    \/ Apply
    \/ Record
    \/ Stop

Spec == Init /\ [][Next]_vars

---------------------------------------------------------------------------
(* Properties.                                                             *)

\* Type invariant.
TypeOK ==
    /\ applied \in (SUBSET Script) \cup {None}
    /\ history \subseteq Nat \X Nat
    /\ setting \in (Nat \X Nat) \cup {None}
    /\ running \in Release \cup {None}
    /\ stage \in Stage /\ (stage = "off" <=> running = None)
    /\ torn \in BOOLEAN

\* The recorded version is never ahead of the schema: no script it counts as
\* run is missing, wherever the server stopped.
VersionNotAhead ==
    setting # None =>
        applied # None /\ \A s \in Script : Greater(VersionOf(s), setting) \/ s \in applied

\* Scripts were run that the recorded version does not count.
Behind == applied # None /\ \E s \in applied : Greater(VersionOf(s), setting)

\* What is known at each stage of a start, and of the history it reads: the
\* parts of the inductive invariant.
Reached ==
    /\ stage = "create" => applied = None
    /\ stage = "stamp" => applied = Latest(running)
    /\ stage \in {"normalize", "carry", "compare", "apply", "record"} => applied # None
    /\ stage = "apply" => Greater(Current(running), setting)
    /\ stage = "record" => Latest(running) \subseteq applied
    /\ stage = "serving" => setting = Current(running)
    /\ stage = "failed" => Behind

HistoryHasScripts ==
    /\ IsFiniteSet(history)
    /\ \A v \in history : v[1] <= Normalized => \E s \in Script : s[1] = v[1]

\* Without a stop between a schema and its version, and without a history, the
\* version counts every script that was run.
VersionCountsAll ==
    ~torn /\ history = {} =>
        /\ stage \notin {"stamp", "record"} => ~Behind
        /\ stage = "record" => applied = Latest(running)

Inductive ==
    /\ TypeOK
    /\ VersionNotAhead
    /\ Reached
    /\ HistoryHasScripts
    /\ VersionCountsAll

\* Unless the version is behind the schema, a release serves with the schema
\* it was written for and no other; one older than the schema is refused
\* ("cannot downgrade schema version").
ServedSchemaFits == stage = "serving" /\ ~Behind => applied = Latest(running)

\* A start fails for one of two reasons: some start was stopped between creating
\* or migrating the schema and saving its version; or the database has a
\* migration history, where migrateSchemaVersionToSetting saves no version if
\* there is none ("It retrieves the migration history, sorts the versions, and
\* updates the workspace basic setting if necessary") and an older one if there
\* is one.  Both leave the version behind the schema.
FailsOnlyTornOrOld == stage = "failed" => Behind /\ (torn \/ history # {})

\* Migrate brings any database "to the latest version": no start fails.
StartsUp == stage # "failed"
=============================================================================

---------------------------- MODULE MCMigrator ----------------------------
\* TLC instances of Migrator with the scripts of SQLite from 0.21 on
\* (store/migration/sqlite) and the releases that have them.
EXTENDS Migrator

Scripts == {<<21, 0>>, <<21, 1>>, <<22, 0>>, <<22, 1>>, <<22, 2>>, <<22, 3>>,
            <<23, 0>>, <<24, 0>>, <<24, 1>>, <<25, 0>>}

\* UPDATE statements and DROP TABLE IF EXISTS.
RepeatableScripts == {<<23, 0>>, <<25, 0>>}
=============================================================================

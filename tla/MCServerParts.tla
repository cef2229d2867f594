--------------------------- MODULE MCServerParts ---------------------------
\* TLC instance of ServerParts: goroutines and attachments are
\* interchangeable; the schema has the scripts of SQLite from 0.21 on (store/migration/sqlite).
EXTENDS ServerParts, TLC

Scripts == {<<21, 0>>, <<21, 1>>, <<22, 0>>, <<22, 1>>, <<22, 2>>, <<22, 3>>,
            <<23, 0>>, <<24, 0>>, <<24, 1>>, <<25, 0>>}

\* UPDATE statements and DROP TABLE IF EXISTS.
RepeatableScripts == {<<23, 0>>, <<25, 0>>}

Symmetry == Permutations(Proc) \cup Permutations(Attachment) \cup Permutations(File)
=============================================================================

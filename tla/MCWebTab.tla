------------------------------ MODULE MCWebTab ------------------------------
\* TLC instance of WebTab: three memos on pages of one, of which the filter
\* "tag" selects the last.
EXTENDS WebTab

MatchesDef == [all |-> TabMemo, tag |-> {3}]

\* The comment above the check in PagedMemoList.tsx: "Only fetch if: page
\* isn't scrollable, we have more data, not currently loading, and have memos".
ChecksFetchWhenIdle ==
    [][tab = "list" => \A c \in checks : Pages!CheckFetches(c) => currentRequest = 0]_vars
=============================================================================

----------------------------- MODULE MemoPages -----------------------------
(* The memo list of one browser tab: memoStore (store/memo.ts), the paged     *)
(* list that fills it (PagedMemoList.tsx) and the handlers of a memo's card   *)
(* (MemoView.tsx, MemoActionMenu.tsx), against a server that handles the      *)
(* calls in any order.  A memo is the place it has in the listing, the newest *)
(* first, and its value a version; 0 is no memo.                              *)
EXTENDS Naturals, FiniteSets

CONSTANTS
    Memo,           \* 1..n
    Stored,         \* the memos there are at the start, the others are to be written
    Filter,         \* what a page may ask for
    Matches,        \* the memos a filter selects
    FirstFilter,
    PageSize,
    Slot,           \* calls about one memo at a time
    MaxWrites, MaxLoads, MaxLosses  \* bounds on writes, reloads and lost answers

VARIABLES
    rows,           \* the server's version of each memo
    known,          \* the memos there ever were: a uid is used once
    memoMapByName,  \* the tab's, what is on screen
    fetches,        \* listings under way
    currentRequest, \* the listing whose controller the store holds, 0 for null
    isRequesting, nextPageToken,    \* the list's own state; token 0 is ""
    filter,         \* what the page asks for now
    checks,         \* checkAndFetchIfNeeded calls in their 200 ms
    calls,          \* per slot: a call about one memo
    pageSpent,      \* history: how often each bound was used
    pageNotes       \* history: what the properties compare with

list == <<fetches, currentRequest, isRequesting, nextPageToken>>
pageVars == <<rows, known, memoMapByName, list, filter, checks, calls, pageSpent, pageNotes>>

NoCall == [op |-> "none", memo |-> 0, answer |-> << >>]

(* The listing of a filter, the place of a memo in it, the newest first, and  *)
(* the page at an offset with the token of the next one.                      *)
Listing(f) == {m \in Matches[f] : rows[m] # 0}
Place(f, m) == Cardinality({k \in Listing(f) : k <= m})

PageAt(f, offset) ==
    LET page == {m \in Listing(f) : Place(f, m) \in offset + 1 .. offset + PageSize}
        more == Cardinality(Listing(f)) > offset + PageSize
    IN  [memos |-> [m \in page |-> rows[m]], next |-> IF more THEN offset + PageSize ELSE 0]

Shown == {m \in Memo : memoMapByName[m] # 0}

(* The effect after a render: when the list is idle and not empty and its     *)
(* state or its length changed, a check starts that remembers this render; it *)
(* clears the timers of checks whose listing has just ended, which otherwise  *)
(* check again.                                                               *)
StartCheck(pending, timers) ==
    checks' =
        IF /\ ~isRequesting' /\ nextPageToken' # 0 /\ Shown' # {}
           /\ <<isRequesting, nextPageToken, Cardinality(Shown)>>'
                 # <<isRequesting, nextPageToken, Cardinality(Shown)>>
        THEN pending \cup {[token |-> nextPageToken', filter |-> filter']}
        ELSE pending \cup timers

(* Mutant of Aborted: the listing under way goes on.                          *)
Kept(fs) == fs

(* What is left of the listings under way when the controller aborts.         *)
Aborted(fs) == {}

(* fetchMoreMemos and fetchMemos up to the await.  Aborting the listing under *)
(* way runs the end of its fetchMoreMemos before the next event: no token and *)
(* no request, although the new one has begun.  A check that fetches waits for *)
(* the end.                                                                   *)
Fetch(f, offset, waiting) ==
    LET id == CHOOSE i \in 1 .. Cardinality(fetches) + 1 : \A x \in fetches : x.id # i
    IN  /\ fetches' = Aborted(fetches) \cup {[id |-> id, filter |-> f, offset |-> offset, answer |-> << >>,
                                         check |-> waiting]}
        /\ currentRequest' = id
        /\ isRequesting' = (currentRequest = 0)
        /\ nextPageToken' = IF currentRequest # 0 \/ offset = 0 THEN 0 ELSE nextPageToken

(* The checks whose listing is aborted now.                                   *)
Waiting == UNION {x.check : x \in fetches}

Init ==
    /\ rows = [m \in Memo |-> IF m \in Stored THEN 1 ELSE 0]
    /\ known = Stored
    /\ memoMapByName = [m \in Memo |-> 0]
    /\ fetches = {[id |-> 1, filter |-> FirstFilter, offset |-> 0, answer |-> << >>, check |-> {}]}
    /\ currentRequest = 1
    /\ isRequesting = TRUE
    /\ nextPageToken = 0
    /\ filter = FirstFilter
    /\ checks = {}
    /\ calls = [s \in Slot |-> NoCall]
    /\ pageSpent = [writes |-> 0, loads |-> 0, losses |-> 0]
    /\ pageNotes = [of |-> {}, failed |-> FALSE, overtaken |-> FALSE, skipped |-> FALSE,
                   moved |-> FALSE, crossed |-> {}]

Spend(bound) == pageSpent' = [pageSpent EXCEPT ![bound] = @ + 1]

(* refreshList, after a change of the filter or a pull.                       *)
RefreshList(f) ==
    /\ pageSpent.loads < MaxLoads
    /\ Fetch(f, 0, {})
    /\ filter' = f
    /\ Spend("loads")
    /\ pageNotes' = [pageNotes EXCEPT !.failed = FALSE, !.overtaken = FALSE, !.skipped = FALSE,
                                      !.moved = FALSE]
    /\ UNCHANGED <<rows, known, memoMapByName, calls>>
    /\ StartCheck(checks, Waiting)

(* handleScroll near the bottom.                                              *)
Scroll ==
    /\ nextPageToken # 0 /\ ~isRequesting
    /\ Fetch(filter, nextPageToken, {})
    /\ UNCHANGED <<rows, known, memoMapByName, filter, calls, pageSpent, pageNotes>>
    /\ StartCheck(checks, Waiting)

(* A check finds that the page fills the window.                              *)
CheckPasses(c) ==
    /\ UNCHANGED <<rows, known, memoMapByName, list, filter, calls, pageSpent, pageNotes>>
    /\ StartCheck(checks \ {c}, {})

(* It does not: the check fetches with the token and the filter of the render *)
(* it remembers, which also was the one that found the list idle.             *)
CheckFetches(c) ==
    /\ Fetch(c.filter, c.token, {c})
    /\ pageNotes' = [pageNotes EXCEPT !.overtaken = @ \/ fetches # {} \/ c.filter # filter,
                                      !.skipped = @ \/ nextPageToken \in 1 .. c.token - 1]
    /\ UNCHANGED <<rows, known, memoMapByName, filter, calls, pageSpent>>
    /\ StartCheck(checks \ {c}, Waiting)

ListMemos(x) ==
    /\ x.answer = << >>
    /\ fetches' = (fetches \ {x}) \cup {[x EXCEPT !.answer = <<PageAt(x.filter, x.offset)>>]}
    /\ UNCHANGED <<rows, known, memoMapByName, currentRequest, isRequesting, nextPageToken, filter, checks, calls,
                   pageSpent, pageNotes>>

(* Mutant of Filled: every page replaces the map.                             *)
FilledAnew(x) ==
    [m \in Memo |-> IF m \in DOMAIN x.answer[1].memos THEN x.answer[1].memos[m] ELSE 0]

(* The map after a listing: the first page replaces it, a later one is merged. *)
Filled(x) ==
    [m \in Memo |-> IF m \in DOMAIN x.answer[1].memos THEN x.answer[1].memos[m]
                    ELSE IF x.offset = 0 THEN 0 ELSE memoMapByName[m]]

(* Mutant of EndFetch: setIsRequesting(false) is left out.                    *)
EndFetchBusy(x) ==
    /\ fetches' = fetches \ {x}
    /\ currentRequest' = IF currentRequest = x.id THEN 0 ELSE currentRequest
    /\ UNCHANGED isRequesting

EndFetch(x) ==
    /\ fetches' = fetches \ {x}
    /\ currentRequest' = IF currentRequest = x.id THEN 0 ELSE currentRequest
    /\ isRequesting' = FALSE

ListAnswered(x) ==
    /\ x.answer # << >>
    /\ memoMapByName' = Filled(x)
    /\ EndFetch(x)
    /\ nextPageToken' = x.answer[1].next
    /\ pageNotes' = IF x.offset = 0 THEN [pageNotes EXCEPT !.of = {x.filter}] ELSE pageNotes
    /\ UNCHANGED <<rows, known, filter, calls, pageSpent>>
    /\ StartCheck(checks, x.check)

ListFails(x) ==
    /\ pageSpent.losses < MaxLosses
    /\ EndFetch(x)
    /\ Spend("losses")
    /\ pageNotes' = [pageNotes EXCEPT !.failed = TRUE]
    /\ UNCHANGED <<rows, known, memoMapByName, nextPageToken, filter, calls>>
    /\ StartCheck(checks, {})

-----------------------------------------------------------------------------
(* A call about one memo: updateMemo and deleteMemo from its card, createMemo *)
(* from the editor, getOrFetchMemoByName with skipCache after a reaction or a *)
(* comment.                                                                   *)
Ask(s, op, m) ==
    /\ calls[s] = NoCall
    /\ CASE op \in {"update", "delete"} -> m \in Shown /\ pageSpent.writes < MaxWrites
         [] op = "create" -> m \notin known /\ pageSpent.writes < MaxWrites
         [] op = "get" -> m \in Shown
    /\ calls' = [calls EXCEPT ![s] = [op |-> op, memo |-> m, answer |-> << >>]]
    /\ known' = known \cup {m}
    /\ IF op = "get" THEN UNCHANGED pageSpent ELSE Spend("writes")
    /\ UNCHANGED <<rows, memoMapByName, list, filter, checks, pageNotes>>

(* The answers under way that were made before a write of m.                  *)
Overtaken(s, m) ==
    \/ \E x \in fetches : x.answer # << >> /\ m \in Matches[x.filter]
    \/ \E t \in Slot \ {s} : calls[t].memo = m /\ calls[t].answer # << >>

(* The server's part; a memo that is gone is an error, here the answer 0.     *)
Serve(s) ==
    LET c == calls[s]
        version == CASE c.op = "get" -> rows[c.memo]
                     [] c.op = "create" -> 1
                     [] c.op = "update" -> IF rows[c.memo] = 0 THEN 0 ELSE rows[c.memo] + 1
                     [] c.op = "delete" -> 0
    IN  /\ c # NoCall /\ c.answer = << >>
        /\ rows' = [rows EXCEPT ![c.memo] = version]
        /\ calls' = [calls EXCEPT ![s].answer = <<version>>]
        /\ pageNotes' =
               IF c.op = "get" THEN pageNotes
               ELSE [pageNotes EXCEPT !.moved = TRUE,
                         !.crossed = IF Overtaken(s, c.memo) THEN @ \cup {c.memo} ELSE @]
        /\ UNCHANGED <<known, memoMapByName, list, filter, checks, pageSpent>>

(* Mutant of WithAnswer: a deleted memo stays.                                *)
WithDeleted(c) ==
    IF c.op = "delete" \/ c.answer = <<0>> THEN memoMapByName
    ELSE [memoMapByName EXCEPT ![c.memo] = c.answer[1]]

(* The map after the answer of a call: spread when the answer is there.       *)
WithAnswer(c) ==
    IF c.op # "delete" /\ c.answer = <<0>> THEN memoMapByName
    ELSE [memoMapByName EXCEPT ![c.memo] = c.answer[1]]

Answered(s) ==
    /\ calls[s] # NoCall
    /\ calls[s].answer # << >>
    /\ memoMapByName' = WithAnswer(calls[s])
    /\ calls' = [calls EXCEPT ![s] = NoCall]
    /\ UNCHANGED <<rows, known, list, filter, pageSpent, pageNotes>>
    /\ StartCheck(checks, {})

CallFails(s) ==
    /\ calls[s] # NoCall
    /\ pageSpent.losses < MaxLosses
    /\ calls' = [calls EXCEPT ![s] = NoCall]
    /\ Spend("losses")
    /\ pageNotes' = [pageNotes EXCEPT !.crossed = @ \cup {calls[s].memo}]
    /\ UNCHANGED <<rows, known, memoMapByName, list, filter, checks>>

FetchGoesOn == \E x \in fetches : ListMemos(x) \/ ListAnswered(x)
CheckEnds == \E c \in checks : CheckPasses(c) \/ CheckFetches(c)

Next ==
    \/ \E f \in Filter : RefreshList(f)
    \/ Scroll
    \/ CheckEnds
    \/ FetchGoesOn
    \/ \E x \in fetches : ListFails(x)
    \/ \E s \in Slot :
        \/ \E op \in {"update", "delete", "create", "get"}, m \in Memo : Ask(s, op, m)
        \/ Serve(s) \/ Answered(s) \/ CallFails(s)

(* The server answers and the browser runs its timers.                        *)
Fairness == WF_pageVars(FetchGoesOn) /\ WF_pageVars(CheckEnds)

Spec == Init /\ [][Next]_pageVars /\ Fairness

-----------------------------------------------------------------------------
(* What the properties rest on, holding in every state.                       *)

PagesAssumption ==
    /\ Memo \subseteq Nat \ {0} /\ IsFiniteSet(Memo) /\ Stored \subseteq Memo
    /\ FirstFilter \in Filter /\ Matches \in [Filter -> SUBSET Memo]
    /\ PageSize \in Nat \ {0}

IsPage(page) ==
    /\ page.memos \in [DOMAIN page.memos -> Nat \ {0}]
    /\ DOMAIN page.memos \subseteq Memo
    /\ page.next \in Nat

CheckType == [token : Nat \ {0}, filter : Filter]

TypeOK ==
    /\ rows \in [Memo -> Nat] /\ memoMapByName \in [Memo -> Nat] /\ known \subseteq Memo
    /\ currentRequest \in Nat /\ isRequesting \in BOOLEAN /\ nextPageToken \in Nat
    /\ filter \in Filter
    /\ checks \subseteq CheckType
    /\ \A x \in fetches :
        /\ x \in [id : Nat \ {0}, filter : Filter, offset : Nat, answer : {x.answer}, check : SUBSET CheckType]
        /\ x.answer # << >> => x.answer = <<x.answer[1]>> /\ IsPage(x.answer[1])
    /\ DOMAIN calls = Slot
    /\ \A s \in Slot :
        \/ calls[s] = NoCall
        \/ /\ calls[s] \in [op : {"update", "delete", "create", "get"}, memo : Memo, answer : {calls[s].answer}]
           /\ calls[s].answer # << >> => calls[s].answer = <<calls[s].answer[1]>> /\ calls[s].answer[1] \in Nat
    /\ pageNotes \in [of : SUBSET Filter, failed : BOOLEAN, overtaken : BOOLEAN, skipped : BOOLEAN,
                      moved : BOOLEAN, crossed : SUBSET Memo]

(* The store has the controller of the one listing under way; when the list   *)
(* does not know of it, it has no token either.                               *)
OneListing ==
    /\ \/ fetches = {} /\ currentRequest = 0
       \/ \E x \in fetches : fetches = {x} /\ currentRequest = x.id
    /\ fetches # {} /\ ~isRequesting => nextPageToken = 0

(* The listing under way is one of the page's filter, and merges into one.    *)
AsksForFilter ==
    ~pageNotes.failed /\ ~pageNotes.overtaken =>
        /\ fetches = {} => pageNotes.of = {filter}
        /\ \A x \in fetches : x.filter = filter /\ (x.offset # 0 => pageNotes.of = {filter})

(* The memos of the page's filter up to a place are on screen.                *)
ShownUpTo(place) == \A m \in Listing(filter) : Place(filter, m) <= place => m \in Shown

NoneLeftOut ==
    ~pageNotes.failed /\ ~pageNotes.overtaken /\ ~pageNotes.skipped /\ ~pageNotes.moved =>
        /\ fetches = {} =>
               IF nextPageToken = 0 THEN Listing(filter) \subseteq Shown ELSE ShownUpTo(nextPageToken)
        /\ \A x \in fetches :
               /\ ShownUpTo(x.offset)
               /\ x.answer # << >> => x.answer[1] = PageAt(filter, x.offset)

(* A memo that is still to be created is in no table, answer or other call.   *)
KnownBefore ==
    /\ \A m \in Memo : rows[m] # 0 \/ memoMapByName[m] # 0 => m \in known
    /\ \A s \in Slot : calls[s] # NoCall => calls[s].memo \in known
    /\ \A x \in fetches : x.answer # << >> => DOMAIN x.answer[1].memos \subseteq known \cap Matches[x.filter]

CreatedOnce ==
    \A s \in Slot : calls[s].op = "create" /\ calls[s].answer = << >> =>
        LET m == calls[s].memo
        IN  /\ rows[m] = 0 /\ memoMapByName[m] = 0
            /\ \A t \in Slot \ {s} : calls[t].memo # m
            /\ \A x \in fetches : x.answer # << >> => m \notin DOMAIN x.answer[1].memos

DeletedIsGone ==
    \A s \in Slot : calls[s].op = "delete" /\ calls[s].answer # << >> =>
        calls[s].answer = <<0>> /\ rows[calls[s].memo] = 0

(* What is under way about a memo is what the server has, and the write that  *)
(* the tab does not show yet is on its way to it.                             *)
OnItsWay ==
    \A m \in Memo \ pageNotes.crossed :
        /\ \A s \in Slot : calls[s].memo = m /\ calls[s].answer # << >> => calls[s].answer = <<rows[m]>>
        /\ \A x \in fetches :
               x.answer # << >> /\ m \in DOMAIN x.answer[1].memos => x.answer[1].memos[m] = rows[m]
        /\ \/ memoMapByName[m] \in {0, rows[m]}
           \/ \E s \in Slot : /\ calls[s].memo = m /\ calls[s].answer # << >> /\ calls[s].op # "get"
                              /\ calls[s].op = "delete" \/ calls[s].answer # <<0>>

Inductive ==
    /\ TypeOK /\ OneListing /\ AsksForFilter /\ NoneLeftOut
    /\ KnownBefore /\ CreatedOnce /\ DeletedIsGone /\ OnItsWay

-----------------------------------------------------------------------------
(* When no listing is under way the list is the one of the page's filter,     *)
(* unless a listing failed or a check of an earlier render overtook it.       *)
ListIsOfFilter ==
    fetches = {} /\ ~pageNotes.failed /\ ~pageNotes.overtaken => pageNotes.of = {filter}

(* A list without a next page has all the memos of its filter, if none was    *)
(* written since it was loaded: pages that are fetched twice or aborted leave *)
(* none out.  Not so when a check of an earlier render overtook the listing,  *)
(* or came after a refresh and asked for a page past those that are loaded.   *)
EndOfListHasAll ==
    fetches = {} /\ nextPageToken = 0
      /\ ~pageNotes.failed /\ ~pageNotes.overtaken /\ ~pageNotes.skipped /\ ~pageNotes.moved =>
        Listing(filter) \subseteq Shown

(* With nothing under way the tab shows what the server has, but for a memo   *)
(* whose write overtook an answer that was made before it, or whose answer    *)
(* was lost.                                                                  *)
ShownIsStored ==
    fetches = {} /\ (\A s \in Slot : calls[s] = NoCall) =>
        \A m \in Shown : memoMapByName[m] = rows[m] \/ m \in pageNotes.crossed
=============================================================================

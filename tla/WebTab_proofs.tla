---------------------------- MODULE WebTab_proofs ----------------------------
(***************************************************************************)
(* That each part of a browser tab keeps its promises, for every value of  *)
(* the constants: any number of memos, boxes, clicks, texts and files, any *)
(* size of a page and any bound.  The parts have no variable in common, so *)
(* a behaviour of the tab is one of each: Tasks, Pages and Editor.  Of the *)
(* wire it is what becomes of a point in time.                             *)
(***************************************************************************)
EXTENDS WebTab, SequenceTheorems, FiniteSetTheorems, TLAPS

---------------------------------------------------------------------------
(* Wire: points in time, of which the run has two at each end.             *)

\* A time of the server, and what it is in nanoseconds.
ServerTimes == {t \in [seconds : Int, nanos : Nat] : t.nanos < 1000000000}
NanoSeconds(t) == t.seconds * 1000000000 + t.nanos

\* Seconds and nanoseconds that carry make such a time.
LEMMA ServerTimeIs ==
    ASSUME NEW a \in Int, NEW b \in Nat, b < 1000000000
    PROVE  /\ [seconds |-> a, nanos |-> b] \in ServerTimes
           /\ NanoSeconds([seconds |-> a, nanos |-> b]) = a * 1000000000 + b
BY SMT DEF ServerTimes, NanoSeconds

\* What truncation leaves of a number.
LEMMA JsTruncIs ==
    ASSUME NEW a \in Int
    PROVE  JsTrunc(a, 1000) \in Int /\ a - 1000 * JsTrunc(a, 1000) \in -999 .. 999
<1>1. CASE a >= 0
    BY SMT, <1>1 DEF JsTrunc
<1>2. CASE a < 0
    <2>1. (-a) \div 1000 \in Int /\ (-a) - 1000 * ((-a) \div 1000) \in 0 .. 999
        BY SMT, <1>2
    <2> QED BY SMT, <1>2, <2>1 DEF JsTrunc
<1> QED BY SMT, <1>1, <1>2

\* A time the page sends (toTimestamp) is the same at the server (AsTime), to the
\* nanosecond and also before 1970.
THEOREM TimeReachesServer ==
    ASSUME NEW ms \in Int
    PROVE  /\ AsTime(toTimestamp(ms)) \in ServerTimes
           /\ NanoSeconds(AsTime(toTimestamp(ms))) = ms * 1000000
<1> DEFINE s == JsTrunc(ms, 1000)
           n == ms - 1000 * s
<1>1. s \in Int /\ n \in -999 .. 999 /\ ms = 1000 * s + n
    BY SMT, JsTruncIs
<1>2. toTimestamp(ms) = [seconds |-> s, nanos |-> n * 1000000]
    BY SMT DEF toTimestamp
<1> HIDE DEF s, n
<1>3. CASE n >= 0
    <2>1. AsTime(toTimestamp(ms)) = [seconds |-> s, nanos |-> n * 1000000]
        BY SMT, <1>1, <1>2, <1>3 DEF AsTime
    <2>2. n * 1000000 \in Nat /\ n * 1000000 < 1000000000
        BY SMT, <1>1, <1>3
    <2>3. s * 1000000000 + n * 1000000 = ms * 1000000
        BY SMT, <1>1
    <2> QED BY SMT, <1>1, <2>1, <2>2, <2>3, ServerTimeIs
<1>4. CASE n < 0
    <2>1. AsTime(toTimestamp(ms)) = [seconds |-> s - 1, nanos |-> n * 1000000 + 1000000000]
        BY SMT, <1>1, <1>2, <1>4 DEF AsTime
    <2> QED BY SMT, <1>1, <1>4, <2>1 DEF ServerTimes, NanoSeconds
<1> QED BY SMT, <1>1, <1>3, <1>4

\* In the page (fromTimestamp) a time of the server is off by less than a
\* millisecond.
THEOREM TimeReachesPage ==
    ASSUME NEW t \in ServerTimes
    PROVE  /\ fromTimestamp(t) \in Int
           /\ Apart(fromTimestamp(t) * 1000000, NanoSeconds(t)) < 1000000
<1> DEFINE s == t.seconds
           m == t.nanos \div 1000000
           r == t.nanos % 1000000
<1>1. s \in Int /\ t.nanos \in Nat
    BY SMT DEF ServerTimes
<1>2. m \in Int /\ r \in Nat /\ r < 1000000 /\ t.nanos = 1000000 * m + r
    BY SMT, <1>1
<1>3. fromTimestamp(t) = IF s * 1000 + m < 0 /\ r # 0 THEN s * 1000 + m + 1 ELSE s * 1000 + m
    BY SMT DEF fromTimestamp
<1>4. NanoSeconds(t) = s * 1000000000 + 1000000 * m + r
    BY SMT, <1>1, <1>2 DEF NanoSeconds
<1> HIDE DEF s, m, r
<1> QED BY SMT, <1>1, <1>2, <1>3, <1>4 DEF Apart

\* A time that goes to the page and back has lost less than a millisecond.
THEOREM TimeReturns ==
    ASSUME NEW t \in ServerTimes
    PROVE  LET back == AsTime(toTimestamp(fromTimestamp(t)))
           IN  back \in ServerTimes /\ Apart(NanoSeconds(back), NanoSeconds(t)) < 1000000
BY SMT, TimeReachesPage, TimeReachesServer

---------------------------------------------------------------------------
(* Tasks: the task boxes of a memo.                                        *)

\* The boxes show what is saved when nothing was clicked.
LEMMA TasksInit == Tasks!Init => Tasks!Inductive
BY DEF Tasks!Init, Tasks!Inductive, Tasks!TypeOK, Tasks!AnswerIsSaved, Tasks!CarriesAll,
   Tasks!Nodes, Tasks!Ready, Tasks!Running

\* What a handler that runs looks like.
LEMMA RunningIs ==
    ASSUME Tasks!TypeOK, NEW k \in Tasks!Running
    PROVE  /\ k \in Click
           /\ handlers[k] \in [at : {"restore", "update", "updated"}, nodes : Tasks!Nodes]
BY DEF Tasks!TypeOK, Tasks!Running, Tasks!Ready, Tasks!Ended

\* A click makes its handler one of those that run; it carries what it was given.
LEMMA BeginStep ==
    ASSUME Tasks!Inductive, NEW k \in Click, NEW n \in Tasks!Nodes, NEW w \in Tasks!Nodes,
           Tasks!Begin(k, n, w), UNCHANGED content, nodes' \in Tasks!Nodes,
           ~taskNotes.overlapped /\ taskNotes.failures = 0 /\ Tasks!Running = {} => n = w
    PROVE  Tasks!Inductive'
<1> USE DEF Tasks!Begin, Tasks!Inductive
<1>1. Tasks!TypeOK'
    BY DEF Tasks!TypeOK, Tasks!Ready, Tasks!Ended
<1>2. k \notin Tasks!Running /\ Tasks!Running' = Tasks!Running \cup {k}
    BY <1>1 DEF Tasks!TypeOK, Tasks!Running, Tasks!Ready
<1>3. /\ \A j \in Click \ {k} : handlers'[j] = handlers[j]
      /\ handlers'[k] = [at |-> "restore", nodes |-> n]
    BY DEF Tasks!TypeOK
<1>4. /\ taskNotes'.wanted = w /\ taskNotes'.failures = taskNotes.failures
      /\ taskNotes'.reordered = taskNotes.reordered
      /\ taskNotes'.overlapped = (taskNotes.overlapped \/ Tasks!Running # {})
    BY DEF Tasks!TypeOK
<1>5. Tasks!AnswerIsSaved'
    BY <1>2, <1>3, <1>4, RunningIs DEF Tasks!AnswerIsSaved
<1>6. ASSUME taskNotes'.failures = 0, ~taskNotes'.overlapped
      PROVE  n = w /\ Tasks!Running' = {k}
    BY <1>2, <1>4, <1>6
<1>7. Tasks!CarriesAll'
    BY <1>3, <1>4, <1>6 DEF Tasks!CarriesAll
<1> QED BY <1>1, <1>5, <1>7

\* The nodes that are sent are those after the click.
LEMMA TickStep ==
    ASSUME Tasks!Inductive, NEW k \in Click, NEW b \in Box, Tasks!Tick(k, b)
    PROVE  Tasks!Inductive'
<1> DEFINE on == IF nodes[b] = "todo" THEN "done" ELSE "todo"
           w == [taskNotes.wanted EXCEPT ![b] = on]
<1>1. nodes' = [nodes EXCEPT ![b] = on] /\ Tasks!Begin(k, nodes', w) /\ UNCHANGED content
    BY DEF Tasks!Tick
<1>2. nodes' \in Tasks!Nodes /\ w \in Tasks!Nodes
    BY <1>1 DEF Tasks!Inductive, Tasks!TypeOK, Tasks!Nodes
<1>3. ~taskNotes.overlapped /\ taskNotes.failures = 0 /\ Tasks!Running = {} => nodes' = w
    BY <1>1 DEF Tasks!Inductive, Tasks!CarriesAll
<1> HIDE DEF w
<1> QED BY <1>1, <1>2, <1>3, BeginStep

\* So are those without the ticked boxes.
LEMMA RemoveStep ==
    ASSUME Tasks!Inductive, NEW k \in Click, Tasks!RemoveCompleted(k)
    PROVE  Tasks!Inductive'
<1>1. Tasks!Removed(nodes) \in Tasks!Nodes /\ nodes \in Tasks!Nodes
    BY DEF Tasks!Inductive, Tasks!TypeOK, Tasks!Nodes, Tasks!Removed
<1> QED BY <1>1, BeginStep DEF Tasks!RemoveCompleted

\* A handler goes one step further.
LEMMA RestoredStep ==
    ASSUME Tasks!Inductive, NEW k \in Click, Tasks!Restored(k)
    PROVE  Tasks!Inductive'
<1> USE DEF Tasks!Restored, Tasks!Inductive
<1>1. k \in Tasks!Running
    BY DEF Tasks!Running
<1>2. handlers' = [handlers EXCEPT ![k] = [at |-> "update", nodes |-> handlers[k].nodes]]
    <2>1. handlers[k] \in [at : {"restore", "update", "updated"}, nodes : Tasks!Nodes]
        BY <1>1, RunningIs
    <2>2. [handlers[k] EXCEPT !.at = "update"] = [at |-> "update", nodes |-> handlers[k].nodes]
        BY <2>1
    <2> QED BY <2>2
<1>3. Tasks!TypeOK'
    BY <1>1, <1>2, RunningIs DEF Tasks!TypeOK
<1>4. Tasks!Running' = Tasks!Running
    <2>1. \A j \in Click \ {k} : handlers'[j] = handlers[j]
        BY DEF Tasks!TypeOK
    <2>2. handlers'[k].at = "update"
        BY <1>2 DEF Tasks!TypeOK
    <2> QED BY <1>1, <2>1, <2>2 DEF Tasks!Running
<1>5. Tasks!AnswerIsSaved' /\ Tasks!CarriesAll'
    BY <1>1, <1>2, <1>4, RunningIs DEF Tasks!AnswerIsSaved, Tasks!CarriesAll, Tasks!TypeOK
<1> QED BY <1>3, <1>5

\* The server saves what a handler carries; another answer under way is then passed.
LEMMA UpdateMemoStep ==
    ASSUME Tasks!Inductive, NEW k \in Click, Tasks!UpdateMemo(k)
    PROVE  Tasks!Inductive'
<1> USE DEF Tasks!UpdateMemo, Tasks!Inductive
<1>1. k \in Tasks!Running
    BY DEF Tasks!Running
<1>2. handlers' = [handlers EXCEPT ![k] = [at |-> "updated", nodes |-> handlers[k].nodes]]
    <2>1. handlers[k] \in [at : {"restore", "update", "updated"}, nodes : Tasks!Nodes]
        BY <1>1, RunningIs
    <2>2. [handlers[k] EXCEPT !.at = "updated"] = [at |-> "updated", nodes |-> handlers[k].nodes]
        BY <2>1
    <2> QED BY <2>2
<1>3. Tasks!TypeOK'
    BY <1>1, <1>2, RunningIs DEF Tasks!TypeOK
<1>4. Tasks!Running' = Tasks!Running
    <2>1. \A j \in Click \ {k} : handlers'[j] = handlers[j]
        BY DEF Tasks!TypeOK
    <2>2. handlers'[k].at = "updated"
        BY <1>2 DEF Tasks!TypeOK
    <2> QED BY <1>1, <2>1, <2>2 DEF Tasks!Running
<1>5. /\ taskNotes'.wanted = taskNotes.wanted /\ taskNotes'.failures = taskNotes.failures
      /\ taskNotes'.overlapped = taskNotes.overlapped
      /\ taskNotes'.reordered =
            (taskNotes.reordered \/ \E j \in Tasks!Running \ {k} : handlers[j].at = "updated")
    BY DEF Tasks!TypeOK
<1>6. Tasks!AnswerIsSaved'
    <2>1. \A j \in Click \ {k} : handlers'[j] = handlers[j]
        BY DEF Tasks!TypeOK
    <2>2. handlers'[k].at = "updated" /\ handlers'[k].nodes = handlers[k].nodes
        BY <1>2 DEF Tasks!TypeOK
    <2>3. \A j \in Tasks!Running : j \in Click
        BY DEF Tasks!Running
    <2>4. content' = handlers[k].nodes
        OBVIOUS
    <2> SUFFICES ASSUME taskNotes.failures = 0, ~taskNotes'.reordered,
                        NEW j \in Tasks!Running, handlers'[j].at = "updated"
                 PROVE  /\ handlers'[j].nodes = content'
                        /\ \A i \in Tasks!Running \ {j} : handlers'[i].at # "updated"
        BY <1>1, <1>4, <1>5 DEF Tasks!AnswerIsSaved
    <2>5. j = k
        BY <1>5, <2>1, <2>3
    <2> QED BY <1>5, <2>1, <2>2, <2>3, <2>4, <2>5
<1>7. Tasks!CarriesAll'
    BY <1>1, <1>2, <1>4, <1>5, RunningIs DEF Tasks!CarriesAll, Tasks!TypeOK
<1> QED BY <1>3, <1>6, <1>7

\* An answer is shown, and is what is saved.
LEMMA UpdatedStep ==
    ASSUME Tasks!Inductive, NEW k \in Click, Tasks!Updated(k)
    PROVE  Tasks!Inductive'
<1> USE DEF Tasks!Updated, Tasks!Inductive
<1>1. k \in Tasks!Running
    BY DEF Tasks!Running
<1>2. Tasks!TypeOK'
    BY <1>1, RunningIs DEF Tasks!TypeOK
<1>3. Tasks!Running' = Tasks!Running \ {k}
    BY <1>1 DEF Tasks!TypeOK, Tasks!Running, Tasks!Ended
<1>4. Tasks!AnswerIsSaved'
    BY <1>1, <1>3, RunningIs DEF Tasks!AnswerIsSaved, Tasks!TypeOK
<1>5. Tasks!CarriesAll'
    BY <1>1, <1>3, RunningIs DEF Tasks!CarriesAll, Tasks!TypeOK
<1> QED BY <1>2, <1>4, <1>5

\* Nothing is promised after a call that failed.
LEMMA FailsStep ==
    ASSUME Tasks!Inductive, NEW k \in Click, Tasks!Fails(k)
    PROVE  Tasks!Inductive'
<1> USE DEF Tasks!Fails, Tasks!Inductive
<1>1. Tasks!TypeOK' /\ taskNotes'.failures # 0
    BY DEF Tasks!TypeOK
<1> QED BY <1>1 DEF Tasks!AnswerIsSaved, Tasks!CarriesAll

\* Every step of a click and its handler keeps the invariant.
LEMMA TasksStep ==
    ASSUME Tasks!Inductive, [Tasks!Next]_(Tasks!taskVars)
    PROVE  Tasks!Inductive'
<1>1. CASE UNCHANGED Tasks!taskVars
    BY <1>1 DEF Tasks!taskVars, Tasks!Inductive, Tasks!TypeOK, Tasks!AnswerIsSaved,
       Tasks!CarriesAll, Tasks!Running
<1> QED BY <1>1, TickStep, RemoveStep, RestoredStep, UpdateMemoStep, UpdatedStep, FailsStep
        DEF Tasks!Next

---------------------------------------------------------------------------
(* Pages: listings and places.                                             *)

\* The cardinality of MemoPages is that of FiniteSets, and its finite sets are.
LEMMA CardinalityIs ==
    \A S : Pages!Cardinality(S) = Cardinality(S) /\ Pages!IsFiniteSet(S) = IsFiniteSet(S)
BY DEF Pages!Cardinality, Cardinality, Pages!IsFiniteSet, IsFiniteSet

\* A listing is finite, and the places in it are 1 to its length.
LEMMA PlaceIs ==
    ASSUME NEW f \in Filter
    PROVE  /\ Pages!Listing(f) \subseteq TabMemo
           /\ Pages!Cardinality(Pages!Listing(f)) \in Nat
           /\ \A m \in Pages!Listing(f) :
                Pages!Place(f, m) \in 1 .. Pages!Cardinality(Pages!Listing(f))
<1>1. Pages!Listing(f) \subseteq TabMemo /\ IsFiniteSet(TabMemo) /\ TabMemo \subseteq Nat
    BY ListAssumption, CardinalityIs DEF Pages!PagesAssumption, Pages!Listing
<1>2. IsFiniteSet(Pages!Listing(f)) /\ Cardinality(Pages!Listing(f)) \in Nat
    BY <1>1, FS_Subset, FS_CardinalityType
<1>3. ASSUME NEW m \in Pages!Listing(f)
      PROVE  Pages!Place(f, m) \in 1 .. Cardinality(Pages!Listing(f))
    <2> DEFINE S == {k \in Pages!Listing(f) : k <= m}
    <2>1. S \subseteq Pages!Listing(f) /\ m \in S
        <3>1. m \in Nat
            BY <1>1
        <3>2. m <= m
            BY <3>1
        <3> QED BY <3>2
    <2>2. Pages!Place(f, m) = Cardinality(S)
        BY CardinalityIs DEF Pages!Place
    <2> HIDE DEF S
    <2>3. IsFiniteSet(S) /\ Cardinality(S) \in Nat /\ Cardinality(S) <= Cardinality(Pages!Listing(f))
        BY <1>2, <2>1, FS_Subset, FS_CardinalityType
    <2>4. Cardinality(S) # 0
        BY <2>1, <2>3, FS_EmptySet
    <2> QED BY <1>2, <2>2, <2>3, <2>4
<1> QED BY <1>1, <1>2, <1>3, CardinalityIs

\* A step that writes no memo leaves the listings as they are.
LEMMA SameListing ==
    ASSUME rows' = rows
    PROVE  /\ Pages!Listing(filter)' = Pages!Listing(filter')
           /\ \A m : Pages!Place(filter, m)' = Pages!Place(filter', m)
           /\ \A n : Pages!PageAt(filter, n)' = Pages!PageAt(filter', n)
BY DEF Pages!Listing, Pages!Place, Pages!PageAt

\* No memo has place 0.
LEMMA NoneBefore ==
    ASSUME filter \in Filter
    PROVE  Pages!ShownUpTo(0)
<1> SUFFICES ASSUME NEW m \in Pages!Listing(filter), Pages!Place(filter, m) <= 0
             PROVE  m \in Pages!Shown
    BY DEF Pages!ShownUpTo
<1> QED BY PlaceIs

---------------------------------------------------------------------------
(* Pages: the steps.                                                       *)

\* The first listing has begun when the list is there.
LEMMA PagesInit == Pages!Init => Pages!Inductive
<1> SUFFICES ASSUME Pages!Init
             PROVE  Pages!Inductive
    OBVIOUS
<1> USE DEF Pages!Init
<1>1. Pages!TypeOK
    BY ListAssumption DEF Pages!TypeOK, Pages!PagesAssumption, Pages!NoCall
<1>2. Pages!OneListing /\ Pages!AsksForFilter
    <2> DEFINE first == [id |-> 1, filter |-> FirstFilter, offset |-> 0, answer |-> << >>, check |-> {}]
    <2>1. fetches = {first} /\ first.id = 1 /\ first.filter = filter /\ first.offset = 0
        OBVIOUS
    <2> HIDE DEF first
    <2> QED BY <2>1 DEF Pages!OneListing, Pages!AsksForFilter
<1>3. Pages!NoneLeftOut
    <2>1. filter \in Filter /\ \A x \in fetches : x.offset = 0 /\ x.answer = << >>
        BY <1>1 DEF Pages!TypeOK
    <2>2. fetches # {}
        OBVIOUS
    <2> HIDE DEF Pages!Init
    <2>3. Pages!ShownUpTo(0)
        BY <2>1, NoneBefore
    <2> QED BY <2>1, <2>2, <2>3 DEF Pages!NoneLeftOut
<1>4. Pages!KnownBefore /\ Pages!CreatedOnce /\ Pages!DeletedIsGone /\ Pages!OnItsWay
    BY ListAssumption DEF Pages!KnownBefore, Pages!CreatedOnce, Pages!DeletedIsGone,
       Pages!OnItsWay, Pages!NoCall, Pages!PagesAssumption
<1> QED BY <1>1, <1>2, <1>3, <1>4 DEF Pages!Inductive

\* The checks there are after a step: one more at most, with a token.
LEMMA ChecksStep ==
    ASSUME NEW pending \in SUBSET Pages!CheckType, NEW timers \in SUBSET Pages!CheckType,
           nextPageToken' \in Nat, filter' \in Filter, Pages!StartCheck(pending, timers)
    PROVE  checks' \subseteq Pages!CheckType
<1>1. CASE checks' = pending \cup timers
    BY <1>1
<1>2. CASE checks' = pending \cup {[token |-> nextPageToken', filter |-> filter']}
            /\ nextPageToken' # 0
    BY <1>2 DEF Pages!CheckType
<1> QED BY <1>1, <1>2 DEF Pages!StartCheck

\* The checks that wait for a listing are checks.
LEMMA WaitingIs ==
    ASSUME Pages!TypeOK
    PROVE  Pages!Waiting \in SUBSET Pages!CheckType
<1>1. \A x \in fetches : x.check \in SUBSET Pages!CheckType
    BY DEF Pages!TypeOK
<1> QED BY <1>1 DEF Pages!Waiting

\* The listing that begins is the only one under way.
LEMMA FetchIs ==
    ASSUME Pages!OneListing, Pages!TypeOK, NEW f \in Filter, NEW n \in Nat,
           NEW w \in SUBSET Pages!CheckType, Pages!Fetch(f, n, w)
    PROVE  /\ \E id \in Nat \ {0} :
                /\ fetches' = {[id |-> id, filter |-> f, offset |-> n, answer |-> << >>, check |-> w]}
                /\ currentRequest' = id
           /\ isRequesting' = (currentRequest = 0)
           /\ nextPageToken' = IF currentRequest # 0 \/ n = 0 THEN 0 ELSE nextPageToken
<1> DEFINE Free(i) == \A x \in fetches : x.id # i
           id == CHOOSE i \in 1 .. Pages!Cardinality(fetches) + 1 : Free(i)
<1>1. \E i \in 1 .. Pages!Cardinality(fetches) + 1 : Free(i)
    <2>1. CASE fetches = {}
        <3>1. Pages!Cardinality(fetches) = 0
            BY <2>1, FS_EmptySet, CardinalityIs
        <3> QED BY <2>1, <3>1
    <2>2. ASSUME NEW x \in fetches, fetches = {x}
          PROVE  \E i \in 1 .. Pages!Cardinality(fetches) + 1 : Free(i)
        <3>1. Pages!Cardinality(fetches) = 1
            BY <2>2, FS_Singleton, CardinalityIs
        <3>2. Free(1) \/ Free(2)
            BY <2>2
        <3> QED BY <3>1, <3>2
    <2> QED BY <2>1, <2>2 DEF Pages!OneListing
<1>2. Pages!Cardinality(fetches) \in Nat
    <2>1. IsFiniteSet(fetches)
        <3>1. CASE fetches = {}
            BY <3>1, FS_EmptySet
        <3>2. ASSUME NEW x \in fetches, fetches = {x}
              PROVE  IsFiniteSet(fetches)
            BY <3>2, FS_Singleton
        <3> QED BY <3>1, <3>2 DEF Pages!OneListing
    <2> QED BY <2>1, FS_CardinalityType, CardinalityIs
<1>3. id \in Nat \ {0}
    BY <1>1, <1>2
<1>4. /\ fetches' = {[id |-> id, filter |-> f, offset |-> n, answer |-> << >>, check |-> w]}
      /\ currentRequest' = id
      /\ isRequesting' = (currentRequest = 0)
      /\ nextPageToken' = IF currentRequest # 0 \/ n = 0 THEN 0 ELSE nextPageToken
    BY DEF Pages!Fetch, Pages!Aborted
<1> HIDE DEF id
<1> QED BY <1>3, <1>4

\* The types after a step that leaves the memos and the calls alone.
LEMMA TypesStay ==
    ASSUME Pages!TypeOK, UNCHANGED <<rows, known, memoMapByName, calls>>, filter' \in Filter,
           currentRequest' \in Nat, isRequesting' \in BOOLEAN, nextPageToken' \in Nat,
           checks' \subseteq Pages!CheckType,
           \A x \in fetches' :
                /\ x \in [id : Nat \ {0}, filter : Filter, offset : Nat, answer : {x.answer},
                 check : SUBSET Pages!CheckType]
                /\ x.answer # << >> => x.answer = <<x.answer[1]>> /\ Pages!IsPage(x.answer[1]),
           pageNotes' \in [of : SUBSET Filter, failed : BOOLEAN, overtaken : BOOLEAN,
                           skipped : BOOLEAN, moved : BOOLEAN, crossed : SUBSET TabMemo]
    PROVE  Pages!TypeOK'
BY DEF Pages!TypeOK, Pages!NoCall

\* It keeps the types and the one listing.
LEMMA FetchKeeps ==
    ASSUME Pages!TypeOK, Pages!OneListing, NEW f \in Filter, NEW n \in Nat,
           NEW w \in SUBSET Pages!CheckType, Pages!Fetch(f, n, w),
           UNCHANGED <<rows, known, memoMapByName, calls>>, filter' \in Filter,
           pageNotes' \in [of : SUBSET Filter, failed : BOOLEAN, overtaken : BOOLEAN,
                           skipped : BOOLEAN, moved : BOOLEAN, crossed : SUBSET TabMemo],
           NEW pending \in SUBSET checks, NEW timers \in SUBSET Pages!CheckType,
           Pages!StartCheck(pending, timers)
    PROVE  Pages!TypeOK' /\ Pages!OneListing'
<1>1. PICK id \in Nat \ {0} :
        /\ fetches' = {[id |-> id, filter |-> f, offset |-> n, answer |-> << >>, check |-> w]}
        /\ currentRequest' = id
    BY FetchIs
<1>2. /\ isRequesting' = (currentRequest = 0)
      /\ nextPageToken' = IF currentRequest # 0 \/ n = 0 THEN 0 ELSE nextPageToken
    BY FetchIs
<1>3. nextPageToken' \in Nat /\ isRequesting' \in BOOLEAN
    BY <1>2 DEF Pages!TypeOK
<1>4. checks' \subseteq Pages!CheckType
    BY <1>3, ChecksStep DEF Pages!TypeOK
<1>5. \A x \in fetches' :
        /\ x \in [id : Nat \ {0}, filter : Filter, offset : Nat, answer : {x.answer},
                 check : SUBSET Pages!CheckType]
        /\ x.answer = << >>
    BY <1>1
<1>6. Pages!TypeOK'
    BY <1>1, <1>3, <1>4, <1>5, TypesStay
<1>7. Pages!OneListing'
    <2> DEFINE new == [id |-> id, filter |-> f, offset |-> n, answer |-> << >>, check |-> w]
    <2>1. fetches' = {new} /\ new.id = currentRequest'
        BY <1>1
    <2> HIDE DEF new
    <2> QED BY <1>2, <2>1 DEF Pages!OneListing
<1> QED BY <1>6, <1>7

\* A listing without an answer changes nothing about the memos.
LEMMA MemosKept ==
    ASSUME Pages!Inductive, UNCHANGED <<rows, known, memoMapByName, calls>>,
           pageNotes'.crossed = pageNotes.crossed,
           \A x \in fetches' : x.answer # << >> => x \in fetches
    PROVE  Pages!KnownBefore' /\ Pages!CreatedOnce' /\ Pages!DeletedIsGone' /\ Pages!OnItsWay'
<1> USE DEF Pages!Inductive
<1>1. Pages!KnownBefore'
    BY DEF Pages!KnownBefore, Pages!NoCall
<1>2. Pages!CreatedOnce' /\ Pages!DeletedIsGone'
    BY DEF Pages!CreatedOnce, Pages!DeletedIsGone
<1>3. Pages!OnItsWay'
    BY DEF Pages!OnItsWay
<1> QED BY <1>1, <1>2, <1>3

\* What is shown up to a place after a step that writes no memo.
LEMMA ShownUpToIs ==
    ASSUME rows' = rows
    PROVE  \A n : Pages!ShownUpTo(n)' <=>
               \A m \in Pages!Listing(filter') : Pages!Place(filter', m) <= n => m \in Pages!Shown'
BY DEF Pages!ShownUpTo, Pages!Shown, Pages!Listing, Pages!Place

\* No memo is left out while the tables, the list and the notes stay.
LEMMA SameStore ==
    ASSUME Pages!NoneLeftOut, UNCHANGED <<rows, memoMapByName, fetches, nextPageToken, filter>>,
           UNCHANGED <<pageNotes.failed, pageNotes.overtaken, pageNotes.skipped, pageNotes.moved>>
    PROVE  Pages!NoneLeftOut'
<1>1. Pages!Listing(filter)' = Pages!Listing(filter) /\ Pages!Shown' = Pages!Shown
    BY SameListing DEF Pages!Shown
<1>2. \A n : Pages!ShownUpTo(n)' <=> Pages!ShownUpTo(n)
    BY ShownUpToIs, <1>1 DEF Pages!ShownUpTo
<1>3. \A n : Pages!PageAt(filter, n)' = Pages!PageAt(filter, n)
    BY SameListing
<1> QED BY <1>1, <1>2, <1>3 DEF Pages!NoneLeftOut

\* A listing that begins again has nothing to merge into.
LEMMA RefreshStep ==
    ASSUME Pages!Inductive, NEW f \in Filter, Pages!RefreshList(f)
    PROVE  Pages!Inductive'
<1>1. /\ Pages!Fetch(f, 0, {}) /\ filter' = f /\ Pages!StartCheck(checks, Pages!Waiting)
      /\ UNCHANGED <<rows, known, memoMapByName, calls>>
      /\ pageNotes' = [pageNotes EXCEPT !.failed = FALSE, !.overtaken = FALSE, !.skipped = FALSE,
                                        !.moved = FALSE]
    BY DEF Pages!RefreshList
<1>2. Pages!TypeOK /\ Pages!OneListing
    BY DEF Pages!Inductive
<1>3. PICK id \in Nat \ {0} :
        fetches' = {[id |-> id, filter |-> f, offset |-> 0, answer |-> << >>, check |-> {}]}
    BY <1>1, <1>2, FetchIs
<1>4. \A x \in fetches' : x.filter = f /\ x.offset = 0 /\ x.answer = << >>
    BY <1>3
<1>5. pageNotes'.crossed = pageNotes.crossed
    BY <1>1, <1>2 DEF Pages!TypeOK
<1>6. Pages!TypeOK' /\ Pages!OneListing'
    BY <1>1, <1>2, FetchKeeps, WaitingIs DEF Pages!TypeOK
<1>7. Pages!AsksForFilter'
    BY <1>1, <1>3, <1>4 DEF Pages!AsksForFilter
<1>8. Pages!NoneLeftOut'
    <2>1. Pages!ShownUpTo(0)'
        BY <1>1, PlaceIs, ShownUpToIs
    <2>2. fetches' # {}
        BY <1>3
    <2> QED BY <1>4, <2>1, <2>2 DEF Pages!NoneLeftOut
<1> QED BY <1>1, <1>4, <1>5, <1>6, <1>7, <1>8, MemosKept DEF Pages!Inductive

\* The next page continues where the shown ones end.
LEMMA NextPage ==
    ASSUME Pages!Inductive, UNCHANGED <<rows, known, memoMapByName, filter, calls>>,
           NEW f \in Filter, NEW n \in Nat,
           NEW w \in SUBSET Pages!CheckType, Pages!Fetch(f, n, w),
           NEW pending \in SUBSET checks, NEW timers \in SUBSET Pages!CheckType,
           Pages!StartCheck(pending, timers),
           pageNotes' \in [of : SUBSET Filter, failed : BOOLEAN, overtaken : BOOLEAN,
                           skipped : BOOLEAN, moved : BOOLEAN, crossed : SUBSET TabMemo],
           UNCHANGED <<pageNotes.of, pageNotes.failed, pageNotes.moved, pageNotes.crossed>>,
           ~pageNotes'.overtaken => ~pageNotes.overtaken /\ fetches = {} /\ f = filter,
           ~pageNotes'.skipped => ~pageNotes.skipped /\ (nextPageToken = 0 \/ n <= nextPageToken)
    PROVE  Pages!Inductive'
<1>1. Pages!TypeOK /\ Pages!OneListing /\ filter \in Filter /\ nextPageToken \in Nat
    BY DEF Pages!Inductive, Pages!TypeOK
<1>2. PICK id \in Nat \ {0} :
        fetches' = {[id |-> id, filter |-> f, offset |-> n, answer |-> << >>, check |-> w]}
    BY <1>1, FetchIs
<1>3. fetches' # {} /\ \A x \in fetches' : x.filter = f /\ x.offset = n /\ x.answer = << >>
    BY <1>2
<1>4. Pages!TypeOK' /\ Pages!OneListing'
    BY <1>1, FetchKeeps
<1>5. Pages!AsksForFilter'
    BY <1>3 DEF Pages!AsksForFilter, Pages!Inductive
<1>6. Pages!NoneLeftOut'
    <2> SUFFICES ASSUME ~pageNotes'.failed, ~pageNotes'.overtaken, ~pageNotes'.skipped, ~pageNotes'.moved
                 PROVE  Pages!ShownUpTo(n)'
        BY <1>3 DEF Pages!NoneLeftOut
    <2>1. IF nextPageToken = 0 THEN Pages!Listing(filter) \subseteq Pages!Shown
                               ELSE Pages!ShownUpTo(nextPageToken)
        BY DEF Pages!Inductive, Pages!NoneLeftOut
    <2>2. nextPageToken = 0 \/ n <= nextPageToken
        OBVIOUS
    <2>3. ASSUME NEW m \in Pages!Listing(filter), Pages!Place(filter, m) <= n
          PROVE  m \in Pages!Shown
        <3>1. Pages!Place(filter, m) \in Nat
            BY <1>1, PlaceIs
        <3>2. nextPageToken # 0 => Pages!Place(filter, m) <= nextPageToken
            BY <1>1, <2>2, <2>3, <3>1
        <3> QED BY <2>1, <3>2 DEF Pages!ShownUpTo
    <2>4. Pages!Shown' = Pages!Shown
        BY DEF Pages!Shown
    <2> QED BY <2>3, <2>4, ShownUpToIs
<1> QED BY <1>3, <1>4, <1>5, <1>6, MemosKept DEF Pages!Inductive

\* Scrolling finds the list idle.
LEMMA ScrollStep ==
    ASSUME Pages!Inductive, Pages!Scroll
    PROVE  Pages!Inductive'
<1>1. /\ nextPageToken # 0 /\ ~isRequesting
      /\ Pages!Fetch(filter, nextPageToken, {}) /\ Pages!StartCheck(checks, Pages!Waiting)
      /\ UNCHANGED <<rows, known, memoMapByName, filter, calls, pageNotes>>
    BY DEF Pages!Scroll
<1>2. fetches = {}
    BY <1>1 DEF Pages!Inductive, Pages!OneListing
<1>3. filter \in Filter /\ nextPageToken \in Nat
      /\ pageNotes' \in [of : SUBSET Filter, failed : BOOLEAN, overtaken : BOOLEAN,
                           skipped : BOOLEAN, moved : BOOLEAN, crossed : SUBSET TabMemo]
    BY <1>1 DEF Pages!Inductive, Pages!TypeOK
<1>4. nextPageToken <= nextPageToken
    BY <1>3
<1>5. Pages!Waiting \in SUBSET Pages!CheckType
    BY WaitingIs DEF Pages!Inductive
<1> QED BY <1>1, <1>2, <1>3, <1>4, <1>5, NextPage

\* A check fetches what its render had; the notes tell whether that still fits.
LEMMA CheckFetchesStep ==
    ASSUME Pages!Inductive, NEW c \in checks, Pages!CheckFetches(c)
    PROVE  Pages!Inductive'
<1>1. /\ Pages!Fetch(c.filter, c.token, {c}) /\ Pages!StartCheck(checks \ {c}, Pages!Waiting)
      /\ UNCHANGED <<rows, known, memoMapByName, filter, calls>>
    BY DEF Pages!CheckFetches
<1>2. /\ c.filter \in Filter /\ c.token \in Nat \ {0} /\ nextPageToken \in Nat
      /\ pageNotes \in [of : SUBSET Filter, failed : BOOLEAN, overtaken : BOOLEAN,
                           skipped : BOOLEAN, moved : BOOLEAN, crossed : SUBSET TabMemo]
    BY DEF Pages!Inductive, Pages!TypeOK, Pages!CheckType
<1>3. pageNotes' = [pageNotes EXCEPT !.overtaken = @ \/ fetches # {} \/ c.filter # filter,
                                     !.skipped = @ \/ nextPageToken \in 1 .. c.token - 1]
    BY DEF Pages!CheckFetches
<1>4. /\ pageNotes' \in [of : SUBSET Filter, failed : BOOLEAN, overtaken : BOOLEAN,
                           skipped : BOOLEAN, moved : BOOLEAN, crossed : SUBSET TabMemo]
      /\ UNCHANGED <<pageNotes.of, pageNotes.failed, pageNotes.moved, pageNotes.crossed>>
      /\ pageNotes'.overtaken = (pageNotes.overtaken \/ fetches # {} \/ c.filter # filter)
      /\ pageNotes'.skipped = (pageNotes.skipped \/ nextPageToken \in 1 .. c.token - 1)
    BY <1>2, <1>3
<1>5. nextPageToken \in 1 .. c.token - 1 \/ nextPageToken = 0 \/ c.token <= nextPageToken
    BY <1>2
<1>6. checks \ {c} \in SUBSET checks
    OBVIOUS
<1>7. {c} \in SUBSET Pages!CheckType /\ Pages!Waiting \in SUBSET Pages!CheckType
    BY WaitingIs DEF Pages!Inductive, Pages!TypeOK
<1> QED BY <1>1, <1>2, <1>4, <1>5, <1>6, <1>7, NextPage

\* A check that passes leaves the list as it is.
LEMMA CheckPassesStep ==
    ASSUME Pages!Inductive, NEW c \in checks, Pages!CheckPasses(c)
    PROVE  Pages!Inductive'
<1>1. UNCHANGED <<rows, known, memoMapByName, fetches, currentRequest, isRequesting,
                  nextPageToken, filter, calls, pageNotes>>
    BY DEF Pages!CheckPasses, Pages!list
<1>2. Pages!TypeOK'
    <2>1. checks' \subseteq Pages!CheckType
        BY <1>1, ChecksStep DEF Pages!CheckPasses, Pages!Inductive, Pages!TypeOK
    <2> QED BY <1>1, <2>1 DEF Pages!Inductive, Pages!TypeOK, Pages!NoCall
<1>3. Pages!OneListing' /\ Pages!AsksForFilter'
    BY <1>1 DEF Pages!Inductive, Pages!OneListing, Pages!AsksForFilter
<1>4. Pages!NoneLeftOut'
    BY <1>1, SameStore DEF Pages!Inductive
<1> QED BY <1>1, <1>2, <1>3, <1>4, MemosKept DEF Pages!Inductive

\* After a listing that failed only the memos matter.
LEMMA ListFailsStep ==
    ASSUME Pages!Inductive, NEW x \in fetches, Pages!ListFails(x)
    PROVE  Pages!Inductive'
<1>1. /\ UNCHANGED <<rows, known, memoMapByName, nextPageToken, filter, calls>>
      /\ fetches' = fetches \ {x} /\ isRequesting' = FALSE
      /\ currentRequest' = IF currentRequest = x.id THEN 0 ELSE currentRequest
      /\ pageNotes' = [pageNotes EXCEPT !.failed = TRUE]
      /\ Pages!StartCheck(checks, {})
    BY DEF Pages!ListFails, Pages!EndFetch
<1>2. fetches' = {} /\ currentRequest' = 0
    BY <1>1 DEF Pages!Inductive, Pages!OneListing
<1>3. Pages!TypeOK'
    <2>1. /\ checks \subseteq Pages!CheckType
          /\ nextPageToken' \in Nat /\ filter' \in Filter
        BY <1>1 DEF Pages!Inductive, Pages!TypeOK
    <2>2. checks' \subseteq Pages!CheckType
        BY <1>1, <2>1, ChecksStep
    <2>3. pageNotes' \in [of : SUBSET Filter, failed : BOOLEAN, overtaken : BOOLEAN, skipped : BOOLEAN,
                          moved : BOOLEAN, crossed : SUBSET TabMemo]
        BY <1>1 DEF Pages!Inductive, Pages!TypeOK
    <2>4. isRequesting' \in BOOLEAN
        BY <1>1
    <2>5. currentRequest' \in Nat /\ \A y \in fetches' : FALSE
        BY <1>2
    <2>6. Pages!TypeOK /\ UNCHANGED <<rows, known, memoMapByName, calls>>
        BY <1>1 DEF Pages!Inductive
    <2> QED BY <2>1, <2>2, <2>3, <2>4, <2>5, <2>6, TypesStay
<1>4. pageNotes'.failed /\ pageNotes'.crossed = pageNotes.crossed
    BY <1>1 DEF Pages!Inductive, Pages!TypeOK
<1>5. Pages!OneListing' /\ Pages!AsksForFilter' /\ Pages!NoneLeftOut'
    BY <1>2, <1>4 DEF Pages!OneListing, Pages!AsksForFilter, Pages!NoneLeftOut
<1> QED BY <1>1, <1>2, <1>3, <1>4, <1>5, MemosKept DEF Pages!Inductive

\* What a page has: memos of its filter that are stored, as they are.
LEMMA PageIs ==
    ASSUME Pages!TypeOK, NEW f \in Filter, NEW n \in Nat
    PROVE  LET p == Pages!PageAt(f, n)
           IN  /\ DOMAIN p.memos =
                    {m \in Pages!Listing(f) : Pages!Place(f, m) \in n + 1 .. n + PageSize}
               /\ \A m \in DOMAIN p.memos :
                    p.memos[m] = rows[m] /\ rows[m] # 0 /\ m \in Matches[f] /\ m \in TabMemo
               /\ p.next = IF Pages!Cardinality(Pages!Listing(f)) > n + PageSize THEN n + PageSize ELSE 0
               /\ Pages!IsPage(p)
<1> DEFINE p == Pages!PageAt(f, n)
<1>1. PageSize \in Nat
    BY ListAssumption DEF Pages!PagesAssumption
<1>2. /\ p.memos = [m \in {m \in Pages!Listing(f) : Pages!Place(f, m) \in n + 1 .. n + PageSize} |-> rows[m]]
      /\ p.next = IF Pages!Cardinality(Pages!Listing(f)) > n + PageSize THEN n + PageSize ELSE 0
    BY DEF Pages!PageAt
<1> HIDE DEF p
<1>3. \A m \in Pages!Listing(f) : m \in TabMemo /\ m \in Matches[f] /\ rows[m] \in Nat \ {0}
    BY PlaceIs DEF Pages!Listing, Pages!TypeOK
<1>4. p.next \in Nat
    BY <1>1, <1>2
<1>5. Pages!IsPage(p)
    BY <1>2, <1>3, <1>4 DEF Pages!IsPage
<1> QED BY <1>2, <1>3, <1>5 DEF p

\* The server answers with the page there is.
LEMMA ListMemosStep ==
    ASSUME Pages!Inductive, NEW x \in fetches, Pages!ListMemos(x)
    PROVE  Pages!Inductive'
<1>0. PICK y : y = [x EXCEPT !.answer = <<Pages!PageAt(x.filter, x.offset)>>]
    OBVIOUS
<1>1. /\ x.answer = << >>
      /\ UNCHANGED <<rows, known, memoMapByName, currentRequest, isRequesting, nextPageToken,
                     filter, checks, calls, pageNotes>>
      /\ fetches' = (fetches \ {x}) \cup {y}
    BY <1>0 DEF Pages!ListMemos
<1>2. Pages!TypeOK /\ Pages!OneListing
    BY DEF Pages!Inductive
<1>3. fetches = {x} /\ currentRequest = x.id
    BY <1>2 DEF Pages!OneListing
<1>4. x \in [id : Nat \ {0}, filter : Filter, offset : Nat, answer : {x.answer},
                 check : SUBSET Pages!CheckType]
    BY <1>2 DEF Pages!TypeOK
<1>5. /\ y.id = x.id /\ y.filter = x.filter /\ y.offset = x.offset
      /\ y.answer = <<Pages!PageAt(x.filter, x.offset)>>
      /\ y \in [id : Nat \ {0}, filter : Filter, offset : Nat, answer : {y.answer},
               check : SUBSET Pages!CheckType]
    BY <1>0, <1>4
<1>6. fetches' = {y}
    BY <1>1, <1>3
<1>7. Pages!TypeOK'
    BY <1>1, <1>2, <1>4, <1>5, <1>6, PageIs DEF Pages!TypeOK, Pages!NoCall
<1>8. Pages!OneListing' /\ Pages!AsksForFilter'
    BY <1>1, <1>2, <1>3, <1>5, <1>6 DEF Pages!OneListing, Pages!AsksForFilter, Pages!Inductive
<1>9. Pages!NoneLeftOut'
    <2> SUFFICES ASSUME ~pageNotes.failed, ~pageNotes.overtaken, ~pageNotes.skipped, ~pageNotes.moved
                 PROVE  Pages!ShownUpTo(y.offset)' /\ y.answer[1] = Pages!PageAt(filter, y.offset)'
        BY <1>1, <1>6 DEF Pages!NoneLeftOut
    <2>1. x.filter = filter /\ Pages!ShownUpTo(x.offset)
        BY DEF Pages!Inductive, Pages!AsksForFilter, Pages!NoneLeftOut
    <2>2. Pages!Shown' = Pages!Shown
        BY <1>1 DEF Pages!Shown
    <2>3. Pages!ShownUpTo(y.offset)'
        BY <1>1, <1>5, <2>1, <2>2, ShownUpToIs DEF Pages!ShownUpTo
    <2> QED BY <1>1, <1>5, <2>1, <2>3, SameListing
<1>10. Pages!KnownBefore' /\ Pages!CreatedOnce' /\ Pages!DeletedIsGone' /\ Pages!OnItsWay'
    <2>1. \A m \in DOMAIN y.answer[1].memos :
             y.answer[1].memos[m] = rows[m] /\ rows[m] # 0 /\ m \in Matches[y.filter] /\ m \in TabMemo
        BY <1>2, <1>4, <1>5, PageIs
    <2>2. Pages!KnownBefore'
        BY <1>1, <1>6, <2>1 DEF Pages!KnownBefore, Pages!Inductive
    <2>3. Pages!CreatedOnce'
        BY <1>1, <1>6, <2>1 DEF Pages!CreatedOnce, Pages!Inductive
    <2>4. Pages!DeletedIsGone'
        BY <1>1 DEF Pages!DeletedIsGone, Pages!Inductive
    <2>5. Pages!OnItsWay'
        BY <1>1, <1>6, <2>1 DEF Pages!OnItsWay, Pages!Inductive
    <2> QED BY <2>2, <2>3, <2>4, <2>5
<1> QED BY <1>7, <1>8, <1>9, <1>10 DEF Pages!Inductive

\* The answer of a listing: the page is on screen, and a first page only it.
LEMMA ListAnsweredStep ==
    ASSUME Pages!Inductive, NEW x \in fetches, Pages!ListAnswered(x)
    PROVE  Pages!Inductive'
<1> DEFINE p == x.answer[1]
<1>1. /\ x.answer # << >> /\ UNCHANGED <<rows, known, filter, calls>>
      /\ memoMapByName' = [m \in TabMemo |-> IF m \in DOMAIN p.memos THEN p.memos[m]
                                             ELSE IF x.offset = 0 THEN 0 ELSE memoMapByName[m]]
      /\ nextPageToken' = p.next
      /\ pageNotes' = IF x.offset = 0 THEN [pageNotes EXCEPT !.of = {x.filter}] ELSE pageNotes
      /\ Pages!StartCheck(checks, x.check)
    BY DEF Pages!ListAnswered, Pages!Filled
<1>2. /\ fetches' = fetches \ {x} /\ isRequesting' = FALSE
      /\ currentRequest' = IF currentRequest = x.id THEN 0 ELSE currentRequest
    BY DEF Pages!ListAnswered, Pages!EndFetch
<1>3. Pages!TypeOK /\ Pages!OneListing
    BY DEF Pages!Inductive
<1>4. fetches = {x} /\ currentRequest = x.id
    BY <1>3 DEF Pages!OneListing
<1>5. fetches' = {} /\ currentRequest' = 0
    BY <1>2, <1>4
<1>6. /\ x.filter \in Filter /\ x.offset \in Nat /\ Pages!IsPage(p)
    BY <1>1, <1>3 DEF Pages!TypeOK
<1> HIDE DEF p
<1>7. /\ pageNotes' \in [of : SUBSET Filter, failed : BOOLEAN, overtaken : BOOLEAN,
                         skipped : BOOLEAN, moved : BOOLEAN, crossed : SUBSET TabMemo]
      /\ pageNotes'.of = IF x.offset = 0 THEN {x.filter} ELSE pageNotes.of
      /\ UNCHANGED <<pageNotes.failed, pageNotes.overtaken, pageNotes.skipped,
                     pageNotes.moved, pageNotes.crossed>>
    BY <1>1, <1>3, <1>6 DEF Pages!TypeOK
<1>8. memoMapByName' \in [TabMemo -> Nat]
    BY <1>1, <1>3, <1>6 DEF Pages!TypeOK, Pages!IsPage
<1>9. Pages!TypeOK'
    <2>1. /\ checks \subseteq Pages!CheckType
          /\ x.check \in SUBSET Pages!CheckType
          /\ nextPageToken' \in Nat /\ filter' \in Filter
        BY <1>1, <1>3, <1>6 DEF Pages!TypeOK, Pages!IsPage
    <2>2. checks' \subseteq Pages!CheckType
        BY <1>1, <2>1, ChecksStep
    <2>3. isRequesting' \in BOOLEAN
        BY <1>2
    <2>4. currentRequest' \in Nat /\ \A y \in fetches' : FALSE
        BY <1>5
    <2>5. UNCHANGED <<rows, known, calls>>
        BY <1>1
    <2> QED BY <1>3, <1>7, <1>8, <2>1, <2>2, <2>3, <2>4, <2>5 DEF Pages!TypeOK, Pages!NoCall
<1>10. Pages!OneListing' /\ Pages!AsksForFilter'
    BY <1>1, <1>4, <1>5, <1>7 DEF Pages!OneListing, Pages!AsksForFilter, Pages!Inductive
<1>11. Pages!NoneLeftOut'
    <2> SUFFICES ASSUME ~pageNotes.failed, ~pageNotes.overtaken, ~pageNotes.skipped, ~pageNotes.moved
                 PROVE  IF nextPageToken' = 0 THEN Pages!Listing(filter)' \subseteq Pages!Shown'
                                              ELSE Pages!ShownUpTo(nextPageToken)'
        BY <1>5, <1>7 DEF Pages!NoneLeftOut
    <2>1. x.filter = filter /\ Pages!ShownUpTo(x.offset) /\ p = Pages!PageAt(filter, x.offset)
        BY <1>1 DEF Pages!Inductive, Pages!AsksForFilter, Pages!NoneLeftOut, p
    <2>2. /\ DOMAIN p.memos = {m \in Pages!Listing(filter) :
                                  Pages!Place(filter, m) \in x.offset + 1 .. x.offset + PageSize}
          /\ \A m \in DOMAIN p.memos : p.memos[m] # 0
          /\ p.next = IF Pages!Cardinality(Pages!Listing(filter)) > x.offset + PageSize
                      THEN x.offset + PageSize ELSE 0
        BY <1>3, <1>6, <2>1, PageIs
    <2>3. PageSize \in Nat \ {0}
        BY ListAssumption DEF Pages!PagesAssumption
    <2>4. ASSUME NEW m \in Pages!Listing(filter), Pages!Place(filter, m) <= x.offset + PageSize
          PROVE  m \in Pages!Shown'
        <3>1. Pages!Place(filter, m) \in Nat \ {0} /\ m \in TabMemo
            BY <1>6, <2>1, PlaceIs
        <3>2. CASE m \in DOMAIN p.memos
            BY <1>1, <2>2, <3>1, <3>2 DEF Pages!Shown
        <3>3. CASE m \notin DOMAIN p.memos
            <4>1. Pages!Place(filter, m) <= x.offset /\ x.offset # 0
                BY <1>6, <2>2, <2>3, <2>4, <3>1, <3>3
            <4>2. memoMapByName[m] # 0
                BY <2>1, <4>1 DEF Pages!ShownUpTo, Pages!Shown
            <4> QED BY <1>1, <3>1, <3>3, <4>1, <4>2 DEF Pages!Shown
        <3> QED BY <3>2, <3>3
    <2>5. CASE p.next = 0
        <3>1. Pages!Cardinality(Pages!Listing(filter)) <= x.offset + PageSize
            BY <1>6, <2>1, <2>2, <2>3, <2>5, PlaceIs
        <3>2. ASSUME NEW m \in Pages!Listing(filter)
              PROVE  Pages!Place(filter, m) <= x.offset + PageSize
            BY <1>6, <2>1, <2>3, <3>1, PlaceIs
        <3> QED BY <1>1, <2>4, <2>5, <3>2, SameListing
    <2>6. CASE p.next # 0
        <3>1. nextPageToken' = x.offset + PageSize
            BY <1>1, <2>2, <2>6
        <3> QED BY <1>1, <2>4, <2>6, <3>1, ShownUpToIs
    <2> QED BY <2>5, <2>6
<1>12. Pages!KnownBefore' /\ Pages!CreatedOnce' /\ Pages!DeletedIsGone' /\ Pages!OnItsWay'
    <2>1. ASSUME NEW m \in TabMemo
          PROVE  IF m \in DOMAIN p.memos THEN memoMapByName'[m] = p.memos[m] /\ m \in known
                 ELSE memoMapByName'[m] \in {0, memoMapByName[m]}
        BY <1>1 DEF Pages!KnownBefore, Pages!Inductive, p
    <2>2. Pages!KnownBefore'
        BY <1>1, <1>5, <2>1 DEF Pages!KnownBefore, Pages!Inductive
    <2>3. Pages!CreatedOnce'
        <3> SUFFICES ASSUME NEW s \in Slot, calls[s].op = "create", calls[s].answer = << >>
                     PROVE  memoMapByName'[calls[s].memo] = 0
            BY <1>1, <1>5 DEF Pages!CreatedOnce, Pages!Inductive
        <3>1. /\ memoMapByName[calls[s].memo] = 0 /\ calls[s].memo \notin DOMAIN p.memos
              /\ calls[s].memo \in TabMemo
            BY <1>1, <1>3 DEF Pages!CreatedOnce, Pages!Inductive, Pages!TypeOK, Pages!NoCall, p
        <3> QED BY <2>1, <3>1
    <2>4. Pages!DeletedIsGone'
        BY <1>1 DEF Pages!DeletedIsGone, Pages!Inductive
    <2>5. Pages!OnItsWay'
        <3> SUFFICES ASSUME NEW m \in TabMemo, m \notin pageNotes.crossed,
                            memoMapByName'[m] \notin {0, rows[m]}
                     PROVE  \E s \in Slot :
                                /\ calls[s].memo = m /\ calls[s].answer # << >> /\ calls[s].op # "get"
                                /\ calls[s].op = "delete" \/ calls[s].answer # <<0>>
            BY <1>1, <1>5, <1>7 DEF Pages!OnItsWay, Pages!Inductive
        <3>1. m \in DOMAIN p.memos => p.memos[m] = rows[m]
            BY <1>1 DEF Pages!OnItsWay, Pages!Inductive, p
        <3>2. memoMapByName[m] \notin {0, rows[m]}
            BY <2>1, <3>1
        <3> QED BY <3>2 DEF Pages!OnItsWay, Pages!Inductive
    <2> QED BY <2>2, <2>3, <2>4, <2>5
<1> QED BY <1>9, <1>10, <1>11, <1>12 DEF Pages!Inductive

\* What a call under way looks like; where none is, there is no memo and no answer.
LEMMA CallIs ==
    ASSUME Pages!TypeOK, NEW s \in Slot
    PROVE  /\ calls[s] = Pages!NoCall =>
                calls[s].op = "none" /\ calls[s].memo \notin TabMemo /\ calls[s].answer = << >>
           /\ calls[s] # Pages!NoCall =>
                /\ calls[s].op \in {"update", "delete", "create", "get"}
                /\ calls[s].memo \in TabMemo
                /\ calls[s] = [op |-> calls[s].op, memo |-> calls[s].memo, answer |-> calls[s].answer]
                /\ calls[s].answer # << >> =>
                     calls[s].answer = <<calls[s].answer[1]>> /\ calls[s].answer[1] \in Nat
BY ListAssumption DEF Pages!TypeOK, Pages!NoCall, Pages!PagesAssumption

\* The types after a step of a call.
LEMMA CallTypes ==
    ASSUME Pages!TypeOK, UNCHANGED <<fetches, currentRequest, isRequesting, nextPageToken, filter>>,
           rows' \in [TabMemo -> Nat], memoMapByName' \in [TabMemo -> Nat], known' \subseteq TabMemo,
           checks' \subseteq Pages!CheckType,
           NEW s \in Slot, NEW c, calls' = [calls EXCEPT ![s] = c],
           \/ c = Pages!NoCall
           \/ /\ c \in [op : {"update", "delete", "create", "get"}, memo : TabMemo, answer : {c.answer}]
              /\ c.answer # << >> => c.answer = <<c.answer[1]>> /\ c.answer[1] \in Nat,
           pageNotes' \in [of : SUBSET Filter, failed : BOOLEAN, overtaken : BOOLEAN,
                           skipped : BOOLEAN, moved : BOOLEAN, crossed : SUBSET TabMemo]
    PROVE  Pages!TypeOK'
<1>1. DOMAIN calls' = Slot /\ \A t \in Slot : calls'[t] = IF t = s THEN c ELSE calls[t]
    BY DEF Pages!TypeOK
<1>2. \A t \in Slot :
        \/ calls'[t] = Pages!NoCall
        \/ /\ calls'[t] \in [op : {"update", "delete", "create", "get"}, memo : TabMemo, answer : {calls'[t].answer}]
           /\ calls'[t].answer # << >> => calls'[t].answer = <<calls'[t].answer[1]>> /\ calls'[t].answer[1] \in Nat
    BY <1>1 DEF Pages!TypeOK
<1> QED BY <1>1, <1>2 DEF Pages!TypeOK, Pages!NoCall

\* The list stays what it is while a call goes on.
LEMMA ListKept ==
    ASSUME Pages!OneListing, Pages!AsksForFilter,
           UNCHANGED <<fetches, currentRequest, isRequesting, nextPageToken, filter>>,
           UNCHANGED <<pageNotes.of, pageNotes.failed, pageNotes.overtaken>>
    PROVE  Pages!OneListing' /\ Pages!AsksForFilter'
BY DEF Pages!OneListing, Pages!AsksForFilter

\* A call for a memo that is shown, or for one that never was.
LEMMA AskStep ==
    ASSUME Pages!Inductive, NEW s \in Slot, NEW op \in {"update", "delete", "create", "get"},
           NEW m \in TabMemo, Pages!Ask(s, op, m)
    PROVE  Pages!Inductive'
<1> DEFINE c == [op |-> op, memo |-> m, answer |-> << >>]
<1>1. /\ calls[s] = Pages!NoCall /\ calls' = [calls EXCEPT ![s] = c]
      /\ IF op = "create" THEN m \notin known ELSE m \in Pages!Shown
      /\ known' = known \cup {m}
      /\ UNCHANGED <<rows, memoMapByName, fetches, currentRequest, isRequesting, nextPageToken,
                     filter, checks, pageNotes>>
    BY DEF Pages!Ask, Pages!list
<1>2. c.op = op /\ c.memo = m /\ c.answer = << >>
    OBVIOUS
<1>3. Pages!TypeOK /\ Pages!OneListing /\ Pages!AsksForFilter /\ Pages!NoneLeftOut
    BY DEF Pages!Inductive
<1>4. Pages!TypeOK'
    <2>1. c \in [op : {"update", "delete", "create", "get"}, memo : TabMemo, answer : {c.answer}]
        OBVIOUS
    <2> HIDE DEF c
    <2>2. /\ rows \in [TabMemo -> Nat] /\ memoMapByName \in [TabMemo -> Nat]
          /\ known \cup {m} \subseteq TabMemo /\ checks \subseteq Pages!CheckType
          /\ pageNotes \in [of : SUBSET Filter, failed : BOOLEAN, overtaken : BOOLEAN,
                            skipped : BOOLEAN, moved : BOOLEAN, crossed : SUBSET TabMemo]
        BY <1>3 DEF Pages!TypeOK
    <2> QED BY <1>1, <1>2, <1>3, <2>1, <2>2, CallTypes
<1> HIDE DEF c
<1>5. \A t \in Slot : calls'[t] = IF t = s THEN c ELSE calls[t]
    BY <1>1, <1>3 DEF Pages!TypeOK
<1>6. calls[s].memo \notin TabMemo /\ calls[s].answer = << >>
    BY <1>1, <1>3, CallIs
<1>7. Pages!OneListing' /\ Pages!AsksForFilter' /\ Pages!NoneLeftOut'
    BY <1>1, <1>3, ListKept, SameStore
<1>8. Pages!KnownBefore'
    BY <1>1, <1>2, <1>5 DEF Pages!KnownBefore, Pages!Inductive
<1>9. Pages!CreatedOnce'
    <2> SUFFICES ASSUME NEW t \in Slot, calls'[t].op = "create", calls'[t].answer = << >>
                 PROVE  LET k == calls'[t].memo
                        IN  /\ rows[k] = 0 /\ memoMapByName[k] = 0
                            /\ \A u \in Slot \ {t} : calls'[u].memo # k
                            /\ \A x \in fetches : x.answer # << >> => k \notin DOMAIN x.answer[1].memos
        BY <1>1 DEF Pages!CreatedOnce
    <2>1. CASE t = s
        <3>1. m \notin known /\ calls'[t].memo = m
            BY <1>1, <1>2, <1>5, <2>1
        <3>2. \A u \in Slot \ {t} : calls[u].memo # m
            BY <1>3, <3>1, CallIs DEF Pages!KnownBefore, Pages!Inductive
        <3> QED BY <1>5, <2>1, <3>1, <3>2 DEF Pages!KnownBefore, Pages!Inductive
    <2>2. CASE t # s
        <3>1. /\ calls'[t] = calls[t]
              /\ rows[calls[t].memo] = 0 /\ memoMapByName[calls[t].memo] = 0
              /\ \A u \in Slot \ {t} : calls[u].memo # calls[t].memo
              /\ \A x \in fetches : x.answer # << >> => calls[t].memo \notin DOMAIN x.answer[1].memos
            BY <1>5, <2>2 DEF Pages!CreatedOnce, Pages!Inductive
        <3>2. calls[t].memo \in known
            BY <1>5, <2>2, <3>1, CallIs, <1>3 DEF Pages!KnownBefore, Pages!Inductive, Pages!NoCall
        <3>3. calls[t].memo # m
            BY <1>1, <3>1, <3>2 DEF Pages!Shown
        <3> QED BY <1>2, <1>5, <2>2, <3>1, <3>3
    <2> QED BY <2>1, <2>2
<1>10. Pages!DeletedIsGone'
    BY <1>1, <1>2, <1>5 DEF Pages!DeletedIsGone, Pages!Inductive
<1>11. Pages!OnItsWay'
    BY <1>1, <1>2, <1>5, <1>6 DEF Pages!OnItsWay, Pages!Inductive
<1> QED BY <1>4, <1>7, <1>8, <1>9, <1>10, <1>11 DEF Pages!Inductive

\* A call that fails leaves its memo in doubt.
LEMMA CallFailsStep ==
    ASSUME Pages!Inductive, NEW s \in Slot, Pages!CallFails(s)
    PROVE  Pages!Inductive'
<1>1. /\ calls[s] # Pages!NoCall /\ calls' = [calls EXCEPT ![s] = Pages!NoCall]
      /\ UNCHANGED <<rows, known, memoMapByName, fetches, currentRequest, isRequesting,
                     nextPageToken, filter, checks>>
      /\ pageNotes' = [pageNotes EXCEPT !.crossed = @ \cup {calls[s].memo}]
    BY DEF Pages!CallFails, Pages!list
<1>2. Pages!TypeOK /\ Pages!OneListing /\ Pages!AsksForFilter /\ Pages!NoneLeftOut
    BY DEF Pages!Inductive
<1>3. /\ pageNotes' \in [of : SUBSET Filter, failed : BOOLEAN, overtaken : BOOLEAN,
                         skipped : BOOLEAN, moved : BOOLEAN, crossed : SUBSET TabMemo]
      /\ pageNotes'.crossed = pageNotes.crossed \cup {calls[s].memo}
      /\ UNCHANGED <<pageNotes.of, pageNotes.failed, pageNotes.overtaken, pageNotes.skipped,
                     pageNotes.moved>>
    BY <1>1, <1>2, CallIs DEF Pages!TypeOK
<1>4. Pages!TypeOK'
    <2>1. /\ rows \in [TabMemo -> Nat] /\ memoMapByName \in [TabMemo -> Nat]
          /\ known \subseteq TabMemo /\ checks \subseteq Pages!CheckType
        BY <1>2 DEF Pages!TypeOK
    <2> QED BY <1>1, <1>2, <1>3, <2>1, CallTypes
<1>5. Pages!NoCall.op = "none" /\ Pages!NoCall.memo \notin TabMemo /\ Pages!NoCall.answer = << >>
    BY ListAssumption DEF Pages!NoCall, Pages!PagesAssumption
<1>6. \A t \in Slot : calls'[t] = IF t = s THEN Pages!NoCall ELSE calls[t]
    BY <1>1, <1>2 DEF Pages!TypeOK
<1>7. Pages!OneListing' /\ Pages!AsksForFilter' /\ Pages!NoneLeftOut'
    BY <1>1, <1>2, <1>3, ListKept, SameStore
<1>8. Pages!KnownBefore' /\ Pages!DeletedIsGone'
    BY <1>1, <1>5, <1>6 DEF Pages!KnownBefore, Pages!DeletedIsGone, Pages!Inductive
<1>9. Pages!CreatedOnce'
    <2>1. \A t \in Slot : t # s => calls'[t] = calls[t]
        BY <1>6
    <2>2. \A t \in Slot : calls[t].op = "create" => calls[t].memo \in TabMemo
        BY <1>2, CallIs
    <2> QED BY <1>1, <1>5, <1>6, <2>2 DEF Pages!CreatedOnce, Pages!Inductive
<1>10. Pages!OnItsWay'
    <2> SUFFICES ASSUME NEW m \in TabMemo, m \notin pageNotes.crossed, m # calls[s].memo
                 PROVE  /\ \A t \in Slot : calls'[t].memo = m /\ calls'[t].answer # << >> => calls'[t].answer = <<rows[m]>>
                        /\ \A x \in fetches :
                               x.answer # << >> /\ m \in DOMAIN x.answer[1].memos => x.answer[1].memos[m] = rows[m]
                        /\ \/ memoMapByName[m] \in {0, rows[m]}
                           \/ \E t \in Slot : /\ calls'[t].memo = m /\ calls'[t].answer # << >> /\ calls'[t].op # "get"
                                              /\ calls'[t].op = "delete" \/ calls'[t].answer # <<0>>
        BY <1>1, <1>3 DEF Pages!OnItsWay
    <2> QED BY <1>5, <1>6 DEF Pages!OnItsWay, Pages!Inductive
<1> QED BY <1>4, <1>7, <1>8, <1>9, <1>10 DEF Pages!Inductive

\* The server's part of a call: a write that passes no answer is on its way, and
\* one that passes an answer leaves its memo in doubt.
LEMMA ServeStep ==
    ASSUME Pages!Inductive, NEW s \in Slot, Pages!Serve(s)
    PROVE  Pages!Inductive'
<1> DEFINE m == calls[s].memo
           op == calls[s].op
           version == CASE op = "get" -> rows[m]
                        [] op = "create" -> 1
                        [] op = "update" -> IF rows[m] = 0 THEN 0 ELSE rows[m] + 1
                        [] op = "delete" -> 0
           passed == \/ \E x \in fetches : x.answer # << >> /\ m \in Matches[x.filter]
                     \/ \E t \in Slot \ {s} : calls[t].memo = m /\ calls[t].answer # << >>
<1>1. /\ calls[s] # Pages!NoCall /\ calls[s].answer = << >>
      /\ rows' = [rows EXCEPT ![m] = version]
      /\ calls' = [calls EXCEPT ![s].answer = <<version>>]
      /\ pageNotes' = IF op = "get" THEN pageNotes
                      ELSE [pageNotes EXCEPT !.moved = TRUE, !.crossed = IF passed THEN @ \cup {m} ELSE @]
      /\ UNCHANGED <<known, memoMapByName, fetches, currentRequest, isRequesting,
                     nextPageToken, filter, checks>>
    BY DEF Pages!Serve, Pages!Overtaken, Pages!list
<1>2. Pages!TypeOK /\ Pages!OneListing /\ Pages!AsksForFilter /\ Pages!NoneLeftOut
    BY DEF Pages!Inductive
<1>3. /\ op \in {"update", "delete", "create", "get"} /\ m \in TabMemo
      /\ calls[s] = [op |-> op, memo |-> m, answer |-> << >>]
    BY <1>1, <1>2, CallIs
<1>4. rows \in [TabMemo -> Nat]
    BY <1>2 DEF Pages!TypeOK
<1>5. PICK v \in Nat : v = version
    BY <1>3, <1>4
<1>6. PICK c : c = [op |-> op, memo |-> m, answer |-> <<v>>]
    OBVIOUS
<1>7. c.op = op /\ c.memo = m /\ c.answer = <<v>> /\ c.answer # << >>
    BY <1>6
<1>8. calls' = [calls EXCEPT ![s] = c]
    <2>1. [calls[s] EXCEPT !.answer = <<v>>] = c
        BY <1>3, <1>6
    <2> HIDE DEF version
    <2>2. calls' = [calls EXCEPT ![s].answer = <<v>>]
        BY <1>1, <1>5
    <2> QED BY <2>1, <2>2
<1>9. \A t \in Slot : calls'[t] = IF t = s THEN c ELSE calls[t]
    BY <1>2, <1>8 DEF Pages!TypeOK
<1>10. /\ rows' \in [TabMemo -> Nat] /\ rows'[m] = v
       /\ \A k \in TabMemo \ {m} : rows'[k] = rows[k]
    BY <1>1, <1>3, <1>4, <1>5
<1>11. /\ op = "get" => v = rows[m]
       /\ op = "create" => v = 1
       /\ op = "update" /\ v = 0 => rows[m] = 0
       /\ op # "create" /\ rows[m] = 0 => v = 0
       /\ op = "delete" => v = 0
    BY <1>3, <1>4, <1>5
<1>12. op = "get" => rows' = rows
    BY <1>1, <1>3, <1>4, <1>5, <1>11
<1>13. /\ pageNotes' \in [of : SUBSET Filter, failed : BOOLEAN, overtaken : BOOLEAN,
                          skipped : BOOLEAN, moved : BOOLEAN, crossed : SUBSET TabMemo]
       /\ UNCHANGED <<pageNotes.of, pageNotes.failed, pageNotes.overtaken, pageNotes.skipped>>
       /\ pageNotes'.moved = (pageNotes.moved \/ op # "get")
       /\ pageNotes'.crossed = IF op # "get" /\ passed THEN pageNotes.crossed \cup {m} ELSE pageNotes.crossed
    <2>1. CASE op = "get"
        BY <1>1, <1>2, <2>1 DEF Pages!TypeOK
    <2>2. CASE op # "get"
        BY <1>1, <1>2, <1>3, <2>2 DEF Pages!TypeOK
    <2> QED BY <2>1, <2>2
<1> HIDE DEF version, passed
<1>14. Pages!TypeOK'
    <2>1. /\ memoMapByName \in [TabMemo -> Nat] /\ known \subseteq TabMemo
          /\ checks \subseteq Pages!CheckType
        BY <1>2 DEF Pages!TypeOK
    <2>2. /\ c \in [op : {"update", "delete", "create", "get"}, memo : TabMemo, answer : {c.answer}]
          /\ c.answer = <<c.answer[1]>> /\ c.answer[1] \in Nat
        BY <1>3, <1>5, <1>6
    <2> QED BY <1>1, <1>2, <1>8, <1>10, <1>13, <2>1, <2>2, CallTypes
<1>15. Pages!OneListing' /\ Pages!AsksForFilter'
    BY <1>1, <1>2, <1>13, ListKept
<1>16. Pages!NoneLeftOut'
    <2>1. CASE op = "get"
        BY <1>1, <1>2, <1>12, <1>13, <2>1, SameStore
    <2>2. CASE op # "get"
        BY <1>13, <2>2 DEF Pages!NoneLeftOut
    <2> QED BY <2>1, <2>2
<1>17. Pages!KnownBefore'
    <2>1. m \in known
        BY <1>1 DEF Pages!KnownBefore, Pages!Inductive
    <2> QED BY <1>1, <1>7, <1>9, <1>10, <2>1 DEF Pages!KnownBefore, Pages!Inductive
<1>18. Pages!CreatedOnce'
    <2> SUFFICES ASSUME NEW t \in Slot, calls'[t].op = "create", calls'[t].answer = << >>
                 PROVE  LET k == calls'[t].memo
                        IN  /\ rows'[k] = 0 /\ memoMapByName[k] = 0
                            /\ \A u \in Slot \ {t} : calls'[u].memo # k
                            /\ \A x \in fetches : x.answer # << >> => k \notin DOMAIN x.answer[1].memos
        BY <1>1 DEF Pages!CreatedOnce
    <2>1. t # s /\ calls'[t] = calls[t]
        BY <1>7, <1>9
    <2>2. calls[t].memo # m /\ calls[t].memo \in TabMemo
        BY <1>2, <2>1, CallIs DEF Pages!CreatedOnce, Pages!Inductive
    <2>3. \A u \in Slot : calls'[u].memo = calls[u].memo
        BY <1>7, <1>9
    <2> QED BY <1>10, <2>1, <2>2, <2>3 DEF Pages!CreatedOnce, Pages!Inductive
<1>19. Pages!DeletedIsGone'
    <2> SUFFICES ASSUME NEW t \in Slot, calls'[t].op = "delete", calls'[t].answer # << >>
                 PROVE  calls'[t].answer = <<0>> /\ rows'[calls'[t].memo] = 0
        BY DEF Pages!DeletedIsGone
    <2>1. CASE t = s
        BY <1>7, <1>9, <1>10, <1>11, <2>1
    <2>2. CASE t # s
        <3>1. calls'[t] = calls[t] /\ calls[t].answer = <<0>> /\ rows[calls[t].memo] = 0
            BY <1>9, <2>2 DEF Pages!DeletedIsGone, Pages!Inductive
        <3>2. calls[t].memo \in TabMemo
            BY <1>2, <3>1, CallIs
        <3>3. calls[t].memo = m => op # "create"
            BY <1>1, <2>2 DEF Pages!CreatedOnce, Pages!Inductive
        <3> QED BY <1>10, <1>11, <3>1, <3>2, <3>3
    <2> QED BY <2>1, <2>2
<1>20. Pages!OnItsWay'
    <2> SUFFICES ASSUME NEW k \in TabMemo, k \notin pageNotes'.crossed
                 PROVE  /\ \A t \in Slot : calls'[t].memo = k /\ calls'[t].answer # << >> => calls'[t].answer = <<rows'[k]>>
                        /\ \A x \in fetches :
                               x.answer # << >> /\ k \in DOMAIN x.answer[1].memos => x.answer[1].memos[k] = rows'[k]
                        /\ \/ memoMapByName[k] \in {0, rows'[k]}
                           \/ \E t \in Slot : /\ calls'[t].memo = k /\ calls'[t].answer # << >> /\ calls'[t].op # "get"
                                              /\ calls'[t].op = "delete" \/ calls'[t].answer # <<0>>
        BY <1>1 DEF Pages!OnItsWay
    <2>1. k \notin pageNotes.crossed
        BY <1>13
    <2>2. /\ \A t \in Slot : calls[t].memo = k /\ calls[t].answer # << >> => calls[t].answer = <<rows[k]>>
          /\ \A x \in fetches :
                 x.answer # << >> /\ k \in DOMAIN x.answer[1].memos => x.answer[1].memos[k] = rows[k]
          /\ \/ memoMapByName[k] \in {0, rows[k]}
             \/ \E t \in Slot \ {s} : /\ calls[t].memo = k /\ calls[t].answer # << >> /\ calls[t].op # "get"
                                      /\ calls[t].op = "delete" \/ calls[t].answer # <<0>>
        BY <1>1, <2>1 DEF Pages!OnItsWay, Pages!Inductive
    <2>3. CASE k # m
        BY <1>7, <1>9, <1>10, <2>2, <2>3
    <2>4. CASE k = m /\ op = "get"
        <3>1. rows'[k] = rows[k] /\ v = rows[k]
            BY <1>11, <1>12, <2>4
        <3> QED BY <1>7, <1>9, <2>2, <3>1
    <2>5. CASE k = m /\ op # "get"
        <3>1. ~passed
            BY <1>13, <2>5
        <3>2. /\ \A t \in Slot \ {s} : calls[t].memo = k => calls[t].answer = << >>
              /\ \A x \in fetches : x.answer # << >> => k \notin DOMAIN x.answer[1].memos
            BY <2>5, <3>1 DEF passed, Pages!KnownBefore, Pages!Inductive
        <3>3. memoMapByName[k] \in {0, rows[k]}
            BY <2>2, <3>2
        <3>4. v = 0 => op = "delete" \/ rows[m] = v
            BY <1>3, <1>11, <2>5
        <3>5. v # 0 => <<v>> # <<0>>
            OBVIOUS
        <3>6. memoMapByName[k] \in {0, v} \/ op = "delete" \/ <<v>> # <<0>>
            BY <2>5, <3>3, <3>4, <3>5
        <3>7. calls'[s].memo = k /\ calls'[s].answer = <<v>> /\ calls'[s].answer # << >> /\ calls'[s].op = op
            BY <1>7, <1>9, <2>5
        <3> QED BY <1>7, <1>9, <1>10, <2>5, <3>2, <3>6, <3>7
    <2> QED BY <2>3, <2>4, <2>5
<1> QED BY <1>14, <1>15, <1>16, <1>17, <1>18, <1>19, <1>20 DEF Pages!Inductive

\* The answer of a call is shown; it is what is stored, or its memo is in doubt.
LEMMA AnsweredStep ==
    ASSUME Pages!Inductive, NEW s \in Slot, Pages!Answered(s)
    PROVE  Pages!Inductive'
<1> DEFINE m == calls[s].memo
           kept == calls[s].op # "delete" /\ calls[s].answer = <<0>>
<1>1. /\ calls[s] # Pages!NoCall /\ calls[s].answer # << >>
      /\ memoMapByName' = IF kept THEN memoMapByName
                          ELSE [memoMapByName EXCEPT ![m] = calls[s].answer[1]]
      /\ calls' = [calls EXCEPT ![s] = Pages!NoCall]
      /\ UNCHANGED <<rows, known, fetches, currentRequest, isRequesting, nextPageToken, filter, pageNotes>>
      /\ Pages!StartCheck(checks, {})
    BY DEF Pages!Answered, Pages!WithAnswer, Pages!list
<1>2. Pages!TypeOK /\ Pages!OneListing /\ Pages!AsksForFilter /\ Pages!NoneLeftOut
    BY DEF Pages!Inductive
<1>3. PICK v \in Nat : calls[s].answer = <<v>> /\ calls[s].answer[1] = v
    BY <1>1, <1>2, CallIs
<1>4. m \in TabMemo /\ calls[s].op # "none"
    BY <1>1, <1>2, CallIs
<1>5. /\ memoMapByName' \in [TabMemo -> Nat]
      /\ \A k \in TabMemo : memoMapByName'[k] = IF k = m /\ ~kept THEN v ELSE memoMapByName[k]
    BY <1>1, <1>2, <1>3, <1>4 DEF Pages!TypeOK
<1>6. ~kept => v # 0 \/ rows[m] = 0
    BY <1>1, <1>3 DEF Pages!DeletedIsGone, Pages!Inductive
<1>7. Pages!NoCall.op = "none" /\ Pages!NoCall.memo \notin TabMemo /\ Pages!NoCall.answer = << >>
    BY ListAssumption DEF Pages!NoCall, Pages!PagesAssumption
<1>8. \A t \in Slot : calls'[t] = IF t = s THEN Pages!NoCall ELSE calls[t]
    BY <1>1, <1>2 DEF Pages!TypeOK
<1> HIDE DEF kept
<1>9. Pages!TypeOK'
    <2>1. /\ checks \subseteq Pages!CheckType
          /\ nextPageToken' \in Nat /\ filter' \in Filter /\ known \subseteq TabMemo
          /\ rows \in [TabMemo -> Nat]
          /\ pageNotes' \in [of : SUBSET Filter, failed : BOOLEAN, overtaken : BOOLEAN,
                             skipped : BOOLEAN, moved : BOOLEAN, crossed : SUBSET TabMemo]
        BY <1>1, <1>2 DEF Pages!TypeOK
    <2>2. checks' \subseteq Pages!CheckType
        BY <1>1, <2>1, ChecksStep
    <2> QED BY <1>1, <1>2, <1>5, <2>1, <2>2, CallTypes
<1>10. Pages!OneListing' /\ Pages!AsksForFilter'
    BY <1>1, <1>2, ListKept
<1>11. Pages!NoneLeftOut'
    <2> SUFFICES ASSUME ~pageNotes.failed, ~pageNotes.overtaken, ~pageNotes.skipped, ~pageNotes.moved
                 PROVE  /\ fetches = {} =>
                               IF nextPageToken = 0 THEN Pages!Listing(filter)' \subseteq Pages!Shown'
                               ELSE Pages!ShownUpTo(nextPageToken)'
                        /\ \A x \in fetches :
                               /\ Pages!ShownUpTo(x.offset)'
                               /\ x.answer # << >> => x.answer[1] = Pages!PageAt(filter, x.offset)'
        BY <1>1 DEF Pages!NoneLeftOut
    <2>1. \A k \in Pages!Listing(filter) : k \in Pages!Shown => k \in Pages!Shown'
        <3> SUFFICES ASSUME NEW k \in Pages!Listing(filter), k \in Pages!Shown
                     PROVE  memoMapByName'[k] # 0
            BY DEF Pages!Shown
        <3>1. rows[k] # 0 /\ k \in TabMemo /\ memoMapByName[k] # 0
            BY DEF Pages!Listing, Pages!Shown
        <3> QED BY <1>5, <1>6, <3>1
    <2>2. \A n : Pages!ShownUpTo(n) => Pages!ShownUpTo(n)'
        BY <1>1, <2>1, ShownUpToIs DEF Pages!ShownUpTo
    <2>3. /\ Pages!Listing(filter)' = Pages!Listing(filter)
          /\ \A n : Pages!PageAt(filter, n)' = Pages!PageAt(filter, n)
        BY <1>1, SameListing
    <2> QED BY <1>1, <1>2, <2>1, <2>2, <2>3 DEF Pages!NoneLeftOut
<1>12. Pages!KnownBefore'
    <2>1. m \in known
        BY <1>1 DEF Pages!KnownBefore, Pages!Inductive
    <2> QED BY <1>1, <1>5, <1>8, <2>1 DEF Pages!KnownBefore, Pages!Inductive
<1>13. Pages!CreatedOnce'
    <2> SUFFICES ASSUME NEW t \in Slot, calls'[t].op = "create", calls'[t].answer = << >>
                 PROVE  LET k == calls'[t].memo
                        IN  /\ rows[k] = 0 /\ memoMapByName'[k] = 0
                            /\ \A u \in Slot \ {t} : calls'[u].memo # k
                            /\ \A x \in fetches : x.answer # << >> => k \notin DOMAIN x.answer[1].memos
        BY <1>1 DEF Pages!CreatedOnce
    <2>1. t # s /\ calls'[t] = calls[t]
        BY <1>7, <1>8
    <2>2. calls[t].memo # m /\ calls[t].memo \in TabMemo
        BY <1>2, <2>1, CallIs DEF Pages!CreatedOnce, Pages!Inductive
    <2> QED BY <1>5, <1>7, <1>8, <2>1, <2>2 DEF Pages!CreatedOnce, Pages!Inductive
<1>14. Pages!DeletedIsGone'
    BY <1>1, <1>7, <1>8 DEF Pages!DeletedIsGone, Pages!Inductive
<1>15. Pages!OnItsWay'
    <2> SUFFICES ASSUME NEW k \in TabMemo, k \notin pageNotes.crossed
                 PROVE  /\ \A t \in Slot : calls'[t].memo = k /\ calls'[t].answer # << >> => calls'[t].answer = <<rows[k]>>
                        /\ \A x \in fetches :
                               x.answer # << >> /\ k \in DOMAIN x.answer[1].memos => x.answer[1].memos[k] = rows[k]
                        /\ \/ memoMapByName'[k] \in {0, rows[k]}
                           \/ \E t \in Slot : /\ calls'[t].memo = k /\ calls'[t].answer # << >> /\ calls'[t].op # "get"
                                              /\ calls'[t].op = "delete" \/ calls'[t].answer # <<0>>
        BY <1>1 DEF Pages!OnItsWay
    <2>1. /\ \A t \in Slot : calls[t].memo = k /\ calls[t].answer # << >> => calls[t].answer = <<rows[k]>>
          /\ \A x \in fetches :
                 x.answer # << >> /\ k \in DOMAIN x.answer[1].memos => x.answer[1].memos[k] = rows[k]
          /\ \/ memoMapByName[k] \in {0, rows[k]}
             \/ \E t \in Slot : /\ calls[t].memo = k /\ calls[t].answer # << >> /\ calls[t].op # "get"
                                /\ calls[t].op = "delete" \/ calls[t].answer # <<0>>
        BY DEF Pages!OnItsWay, Pages!Inductive
    <2>2. \A t \in Slot : calls'[t].memo = k /\ calls'[t].answer # << >> => calls'[t].answer = <<rows[k]>>
        BY <1>7, <1>8, <2>1
    <2>3. CASE k = m /\ ~kept
        <3>1. <<v>> = <<rows[k]>>
            BY <1>1, <1>3, <2>1, <2>3
        <3>2. memoMapByName'[k] = rows[k]
            BY <1>5, <2>3, <3>1
        <3> QED BY <2>1, <2>2, <3>2
    <2>4. CASE k # m \/ kept
        <3>1. memoMapByName'[k] = memoMapByName[k]
            BY <1>5, <2>4
        <3>2. \A t \in Slot :
                  /\ calls[t].memo = k /\ calls[t].answer # << >> /\ calls[t].op # "get"
                  /\ calls[t].op = "delete" \/ calls[t].answer # <<0>>
                  => t # s /\ calls'[t] = calls[t]
            BY <1>8, <2>4 DEF kept
        <3> QED BY <2>1, <2>2, <3>1, <3>2
    <2> QED BY <2>3, <2>4
<1> QED BY <1>9, <1>10, <1>11, <1>12, <1>13, <1>14, <1>15 DEF Pages!Inductive

\* Every step of the list and of the calls about its memos keeps the invariant.
LEMMA PagesStep ==
    ASSUME Pages!Inductive, [Pages!Next]_(Pages!pageVars)
    PROVE  Pages!Inductive'
<1>1. CASE UNCHANGED Pages!pageVars
    <2>1. UNCHANGED <<rows, known, memoMapByName, fetches, currentRequest, isRequesting, nextPageToken,
                      filter, checks, calls, pageNotes>>
        BY <1>1 DEF Pages!pageVars, Pages!list
    <2>2. Pages!TypeOK'
        BY <2>1 DEF Pages!Inductive, Pages!TypeOK, Pages!NoCall
    <2> QED BY <2>1, <2>2, ListKept, SameStore, MemosKept DEF Pages!Inductive
<1>2. CASE Pages!Next
    BY <1>2, RefreshStep, ScrollStep, CheckPassesStep, CheckFetchesStep, ListMemosStep,
       ListAnsweredStep, ListFailsStep, AskStep, ServeStep, AnsweredStep, CallFailsStep
       DEF Pages!Next, Pages!CheckEnds, Pages!FetchGoesOn
<1> QED BY <1>1, <1>2

---------------------------------------------------------------------------
(* Editor: what the groups of its invariant leave alone.                   *)

\* The memos are a sequence; one that is edited is the only one.
LEMMA MemosAre ==
    ASSUME Editor!TypeOK, Editor!OneMode
    PROVE  /\ Len(memos) \in Nat /\ DOMAIN memos = 1 .. Len(memos)
           /\ memoName = 1 => DOMAIN memos = {1}
           /\ \A i \in DOMAIN memos : memos[i] \in Editor!MemoType
<1>1. memos \in Seq(Editor!MemoType)
    BY DEF Editor!TypeOK
<1>2. Len(memos) \in Nat /\ DOMAIN memos = 1 .. Len(memos)
    BY <1>1, LenProperties
<1>3. memoName = 1 => DOMAIN memos = {1}
    BY <1>2 DEF Editor!OneMode
<1> QED BY <1>1, <1>2, <1>3, ElementOfSeq

\* A sequence of one element is one of its other element.
LEMMA OneReplaced ==
    ASSUME NEW S, NEW q \in Seq(S), NEW m \in S, Len(q) = 1
    PROVE  [q EXCEPT ![1] = m] \in Seq(S) /\ Len([q EXCEPT ![1] = m]) = Len(q)
<1>1. 1 \in 1 .. Len(q)
    OBVIOUS
<1> QED BY <1>1, ExceptSeq

\* Steps of files do not touch the text.
LEMMA TextsKept ==
    ASSUME Editor!TextOnItsWay, Editor!TypedOnce, Editor!SentOnce,
           UNCHANGED <<memoName, saves, contentCache, storedMemo, editor.instance, editor.text>>,
           DOMAIN memos' = DOMAIN memos, \A i \in DOMAIN memos : memos'[i].content = memos[i].content,
           UNCHANGED <<draftNotes.typed, draftNotes.ever, draftNotes.failed,
                       draftNotes.textAtRisk, draftNotes.twice>>
    PROVE  Editor!TextOnItsWay' /\ Editor!TypedOnce' /\ Editor!SentOnce'
<1>1. \A t : Editor!IsSaved(t)' <=> Editor!IsSaved(t)
    BY DEF Editor!IsSaved
<1>2. Editor!TextOnItsWay'
    BY <1>1 DEF Editor!TextOnItsWay, Editor!IsOpen
<1>3. Editor!TypedOnce'
    BY DEF Editor!TypedOnce
<1>4. Editor!SentOnce'
    BY <1>1 DEF Editor!SentOnce, Editor!SavedOnce
<1> QED BY <1>2, <1>3, <1>4

\* Nor does writing touch the files.
LEMMA FilesKept ==
    ASSUME Editor!NotYetListed, Editor!FilesApart, Editor!ListIsWanted, Editor!SentAsWanted,
           Editor!HasItsFiles,
           UNCHANGED <<memoName, memos, owner, storedMemo, saves, uploads>>,
           UNCHANGED <<editor.instance, editor.attachmentList, editor.isUploadingAttachment,
                       editor.uploadingFlag, draftNotes.wanted, draftNotes.filesAtRisk>>
    PROVE  /\ Editor!NotYetListed' /\ Editor!FilesApart' /\ Editor!ListIsWanted'
           /\ Editor!SentAsWanted' /\ Editor!HasItsFiles'
<1>1. Editor!Uploading' = Editor!Uploading /\ \A i : Editor!FilesOf(i)' = Editor!FilesOf(i)
    BY DEF Editor!Uploading, Editor!FilesOf
<1>2. Editor!NotYetListed'
    BY DEF Editor!NotYetListed
<1>3. Editor!FilesApart'
    BY <1>1 DEF Editor!FilesApart
<1>4. Editor!ListIsWanted'
    BY <1>1 DEF Editor!ListIsWanted, Editor!ChosenIsListed, Editor!UploadsAreOwn,
                Editor!SavesAreOwn, Editor!FilesAreStored, Editor!IsOpen
<1>5. Editor!SentAsWanted' /\ Editor!HasItsFiles'
    BY <1>1 DEF Editor!SentAsWanted, Editor!HasItsFiles
<1> QED BY <1>2, <1>3, <1>4, <1>5

\* What a step of one upload keeps: the types, and all that is about saves and text.
LEMMA UploadShape ==
    ASSUME Editor!Inductive, UNCHANGED <<memoName, storedMemo, contentCache, saves, draftSpent.turns>>,
           editor' \in Editor!EditorType, ~Editor!IsOpen => editor' = editor,
           UNCHANGED <<editor.instance, editor.text, editor.isRequesting>>,
           NEW f \in TabFile, NEW u \in Editor!UploadType, uploads' = [uploads EXCEPT ![f] = u],
           u.at \in {"none", "ended"} \/ (u.instance \in 1 .. draftSpent.turns /\ u.by # "none"),
           memoName = 0 => u.at \notin {"attach", "attached"},
           memos' \in Seq(Editor!MemoType), Len(memos') = Len(memos), DOMAIN memos' = DOMAIN memos,
           \A i \in DOMAIN memos : memos'[i].content = memos[i].content,
           owner' \in [DOMAIN owner' -> 0 .. Len(memos)], DOMAIN owner' \subseteq TabFile,
           draftSpent' \in [turns : Nat \ {0}, faults : Nat], draftNotes' \in Editor!NotesType,
           UNCHANGED <<draftNotes.typed, draftNotes.ever, draftNotes.failed,
                       draftNotes.textAtRisk, draftNotes.twice>>
    PROVE  /\ Editor!TypeOK' /\ Editor!OneMode' /\ Editor!OneSave'
           /\ Editor!TextOnItsWay' /\ Editor!TypedOnce' /\ Editor!SentOnce'
           /\ \A g \in TabFile : uploads'[g] = IF g = f THEN u ELSE uploads[g]
<1>1. Editor!TypeOK /\ Editor!OneMode /\ Editor!OneSave
    BY DEF Editor!Inductive
<1>2. /\ uploads' \in [TabFile -> Editor!UploadType]
      /\ \A g \in TabFile : uploads'[g] = IF g = f THEN u ELSE uploads[g]
    BY <1>1 DEF Editor!TypeOK
<1>3. Editor!TypeOK'
    BY <1>1, <1>2 DEF Editor!TypeOK, Editor!IsSave
<1>4. Editor!OneMode'
    BY <1>1, <1>2 DEF Editor!OneMode
<1>5. Editor!OneSave'
    BY <1>1, <1>2 DEF Editor!OneSave, Editor!IsOpen, Editor!Uploading
<1>6. Editor!TextOnItsWay' /\ Editor!TypedOnce' /\ Editor!SentOnce'
    BY TextsKept DEF Editor!Inductive
<1> QED BY <1>2, <1>3, <1>4, <1>5, <1>6

\* An upload under way is of an editor there was; it ends with nothing left of it.
LEMMA UploadUnderWay ==
    ASSUME Editor!TypeOK, Editor!OneSave, NEW f \in TabFile, f \in Editor!Uploading
    PROVE  /\ uploads[f] \in Editor!UploadType /\ uploads[f].base \in SUBSET TabFile
           /\ uploads[f].instance \in 1 .. draftSpent.turns /\ uploads[f].by # "none"
           /\ uploads[f].instance # 0
           /\ uploads[f].instance = editor.instance => Editor!IsOpen
<1>1. uploads[f] \in Editor!UploadType /\ draftSpent.turns \in Nat
    BY DEF Editor!TypeOK
<1>2. uploads[f].instance \in 1 .. draftSpent.turns /\ uploads[f].by # "none"
    BY DEF Editor!OneSave
<1>3. uploads[f].instance # 0
    BY <1>1, <1>2
<1> QED BY <1>1, <1>2, <1>3 DEF Editor!UploadType, Editor!IsOpen

\* An upload that has ended captured no list.
LEMMA EndedIs ==
    Editor!Ended.at = "ended" /\ Editor!Ended.base = {} /\ Editor!Ended \in Editor!UploadType
BY DEF Editor!Ended, Editor!NotUploaded, Editor!UploadType

\* The editor is open on what is stored.
LEMMA EditorInit == Editor!Init => Editor!Inductive
<1> SUFFICES ASSUME Editor!Init
             PROVE  Editor!Inductive
    OBVIOUS
<1>1. PICK first \in SUBSET TabFile : first = IF memoName = 1 THEN {1} ELSE {}
    BY DraftAssumption DEF Editor!EditorAssumption
<1>2. PICK text \in Editor!Contents : text = IF memoName = 1 THEN "old" ELSE ""
    BY DEF Editor!Contents
<1>3. memoName \in {0, 1} /\ saves = {} /\ contentCache = editor.text
    BY DEF Editor!Init
<1>4. memos = IF memoName = 1 THEN <<[content |-> "old", wanted |-> {1}, sure |-> TRUE]>> ELSE << >>
    BY Zenon DEF Editor!Init
<1>5. memoName = 1 => memos = <<[content |-> "old", wanted |-> {1}, sure |-> TRUE]>>
    BY <1>4
<1>6. memoName = 0 => memos = << >>
    BY <1>4
<1>7. owner = [f \in first |-> 1]
    BY <1>1 DEF Editor!Init
<1>8. uploads = [f \in TabFile |-> IF f \in first
                                    THEN [at |-> "ended", by |-> "none", instance |-> 0, base |-> {}]
                                    ELSE [at |-> "none", by |-> "none", instance |-> 0, base |-> {}]]
    <2>1. uploads = [f \in TabFile |-> IF f \in first THEN Editor!Ended ELSE Editor!NotUploaded]
        BY <1>1 DEF Editor!Init
    <2> HIDE DEF Editor!Init
    <2>2. /\ Editor!NotUploaded = [at |-> "none", by |-> "none", instance |-> 0, base |-> {}]
          /\ Editor!Ended = [at |-> "ended", by |-> "none", instance |-> 0, base |-> {}]
        BY DEF Editor!Ended, Editor!NotUploaded
    <2> QED BY <2>1, <2>2
<1>9. draftSpent = [turns |-> 1, faults |-> 0]
    BY DEF Editor!Init
<1>10. draftNotes = [typed |-> "", ever |-> {}, wanted |-> first, failed |-> FALSE,
                    textAtRisk |-> FALSE, filesAtRisk |-> FALSE, twice |-> {}]
    BY <1>1 DEF Editor!Init
<1>11. storedMemo = [content |-> text, attachments |-> first]
    BY <1>1, <1>2 DEF Editor!Init
<1>12. editor = [instance |-> 1, text |-> text, attachmentList |-> first, isRequesting |-> FALSE,
                 isUploadingAttachment |-> FALSE, uploadingFlag |-> FALSE]
    <2>1. editor = Editor!Mounted(1, "", storedMemo)
        BY DEF Editor!Init
    <2> HIDE DEF Editor!Init
    <2>2. storedMemo.content = text /\ storedMemo.attachments = first
        BY <1>11
    <2> QED BY <2>1, <2>2 DEF Editor!Mounted, Editor!Closed
<1> HIDE DEF Editor!Init
<1>13. /\ memos \in Seq(Editor!MemoType)
       /\ Len(memos) = memoName
    <2>1. CASE memoName = 1
        <3>1. [content |-> "old", wanted |-> {1}, sure |-> TRUE]
                \in Editor!MemoType
            BY <1>1, <1>2, <2>1 DEF Editor!MemoType
        <3>2. memos = <<[content |-> "old", wanted |-> {1}, sure |-> TRUE]>>
            BY <1>5, <2>1
        <3> HIDE <1>5, <1>6, <1>4
        <3> QED BY <2>1, <3>1, <3>2
    <2>2. CASE memoName = 0
        <3>1. memos = << >>
            BY <1>6, <2>2
        <3> QED BY <2>2, <3>1
    <2> QED BY <1>3, <2>1, <2>2
<1>14. /\ memoName = 1 => DOMAIN memos = {1} /\ memos[1] = [content |-> "old", wanted |-> {1}, sure |-> TRUE]
       /\ memoName = 0 => DOMAIN memos = {}
    <2>1. CASE memoName = 1
        BY <1>5, <2>1
    <2>2. CASE memoName = 0
        BY <1>6, <2>2
    <2> QED BY <1>3, <2>1, <2>2
<1>15. memoName = 1 => Editor!FilesOf(1) = {1}
    BY <1>1, <1>7 DEF Editor!FilesOf
<1>16. Editor!Uploading = {} /\ Editor!IsOpen
    BY <1>8, <1>12 DEF Editor!Uploading, Editor!IsOpen
<1>17. Editor!TypeOK
    <2>1. owner \in [DOMAIN owner -> 0 .. Len(memos)] /\ DOMAIN owner \subseteq TabFile
        BY <1>1, <1>7, <1>13
    <2>2. /\ storedMemo \in Editor!StoredType
          /\ editor \in Editor!EditorType
          /\ contentCache \in Editor!Contents
        BY <1>3, <1>11, <1>12 DEF Editor!StoredType, Editor!EditorType
    <2>3. uploads \in [TabFile -> Editor!UploadType]
        BY <1>8 DEF Editor!UploadType
    <2>4. draftSpent \in [turns : Nat \ {0}, faults : Nat]
        BY <1>9
    <2>5. "" \in Editor!Contents
        BY DEF Editor!Contents
    <2>6. draftNotes \in Editor!NotesType
        BY <1>10, <2>5 DEF Editor!NotesType
    <2> QED BY <1>3, <1>13, <2>1, <2>2, <2>3, <2>4, <2>6 DEF Editor!TypeOK
<1>18. Editor!OneMode
    <2>1. Len(memos) = memoName
        BY <1>13
    <2>2. memoName = 0 => storedMemo = [content |-> "", attachments |-> {}]
        <3> SUFFICES ASSUME memoName = 0
                     PROVE  storedMemo = [content |-> "", attachments |-> {}]
            OBVIOUS
        <3>1. first = {}
            BY <1>1
        <3>2. memoName # 1
            OBVIOUS
        <3>3. text = ""
            BY <1>2, <3>2, Zenon
        <3> QED BY <1>11, <3>1, <3>3
    <2>3. \A f \in TabFile : uploads[f].at \notin {"attach", "attached"}
        BY <1>8
    <2> QED BY <1>3, <2>1, <2>2, <2>3 DEF Editor!OneMode
<1>19. Editor!OneSave
    BY <1>3, <1>9, <1>12, <1>16 DEF Editor!OneSave
<1>20. Editor!TextOnItsWay /\ Editor!TypedOnce /\ Editor!SentOnce
    BY <1>2, <1>3, <1>10, <1>12, <1>14 DEF Editor!TextOnItsWay, Editor!TypedOnce, Editor!SentOnce,
       Editor!SavedOnce, Editor!IsSaved
<1>21. Editor!NotYetListed
    BY <1>1, <1>3, <1>7, <1>8, <1>11, <1>12 DEF Editor!NotYetListed
<1>22. Editor!FilesApart /\ Editor!SentAsWanted
    BY <1>3 DEF Editor!FilesApart, Editor!SentAsWanted
<1>23. Editor!HasItsFiles
    <2>1. CASE memoName = 1
        BY <1>14, <1>15, <2>1 DEF Editor!HasItsFiles
    <2>2. CASE memoName = 0
        BY <1>14, <2>2 DEF Editor!HasItsFiles
    <2> QED BY <1>3, <2>1, <2>2
<1>24. Editor!ListIsWanted
    <2>1. Editor!ChosenIsListed /\ Editor!UploadsAreOwn /\ Editor!SavesAreOwn
        BY <1>3, <1>10, <1>12, <1>16 DEF Editor!ChosenIsListed, Editor!UploadsAreOwn, Editor!SavesAreOwn
    <2>2. Editor!FilesAreStored
        BY <1>1, <1>3, <1>7, <1>11, <1>12, <1>15 DEF Editor!FilesAreStored
    <2> QED BY <2>1, <2>2 DEF Editor!ListIsWanted
<1> QED BY <1>17, <1>19, <1>18, <1>20, <1>21, <1>22, <1>23, <1>24 DEF Editor!Inductive

\* What is typed is on screen and in the draft, and is new.
LEMMA TypeStep ==
    ASSUME Editor!Inductive, NEW t \in Text \cup {""}, Editor!Type(t)
    PROVE  Editor!Inductive'
<1>1. /\ Editor!IsOpen /\ t \notin draftNotes.ever /\ contentCache' = t
      /\ UNCHANGED <<memoName, memos, owner, storedMemo, uploads, saves, draftSpent>>
    BY DEF Editor!Type
<1>2. Editor!TypeOK /\ Editor!OneMode /\ Editor!OneSave /\ t \in Editor!Contents
    BY DEF Editor!Inductive, Editor!Contents
<1>3. /\ editor' \in Editor!EditorType
      /\ editor'.text = t
      /\ UNCHANGED <<editor.instance, editor.attachmentList, editor.isRequesting,
                     editor.isUploadingAttachment, editor.uploadingFlag>>
    BY <1>2 DEF Editor!Type, Editor!TypeOK, Editor!EditorType
<1>4. draftNotes' = [draftNotes EXCEPT !.typed = t, !.ever = @ \cup ({t} \ {""}), !.failed = FALSE,
                                       !.textAtRisk = saves # {} \/ Editor!StoreBehind(t)]
    BY DEF Editor!Type
<1>5. (saves # {} \/ Editor!StoreBehind(t)) \in BOOLEAN
    BY DEF Editor!StoreBehind
<1>6. /\ draftNotes' \in Editor!NotesType
      /\ draftNotes'.typed = t /\ draftNotes'.ever = draftNotes.ever \cup ({t} \ {""})
      /\ draftNotes'.textAtRisk = (saves # {} \/ Editor!StoreBehind(t))
      /\ UNCHANGED <<draftNotes.wanted, draftNotes.filesAtRisk, draftNotes.twice>>
    BY <1>2, <1>4, <1>5 DEF Editor!TypeOK, Editor!NotesType
<1>7. Editor!TypeOK'
    BY <1>1, <1>2, <1>3, <1>6 DEF Editor!TypeOK
<1>8. Editor!OneMode'
    BY <1>1, <1>2 DEF Editor!OneMode
<1>9. Editor!OneSave'
    BY <1>1, <1>2, <1>3 DEF Editor!OneSave, Editor!IsOpen, Editor!Uploading
<1>10. \A c : Editor!IsSaved(c)' <=> Editor!IsSaved(c)
    BY <1>1 DEF Editor!IsSaved
<1>11. Editor!TextOnItsWay'
    <2>1. memoName = 1 => Editor!IsSaved(memos[1].content)
        BY <1>2, MemosAre DEF Editor!IsSaved
    <2> QED BY <1>1, <1>3, <1>6, <1>10, <2>1 DEF Editor!TextOnItsWay, Editor!StoreBehind
<1>12. Editor!TypedOnce'
    BY <1>1, <1>3, <1>6 DEF Editor!TypedOnce, Editor!Inductive
<1>13. Editor!SentOnce'
    <2> SUFFICES ASSUME memoName = 0
                 PROVE  Editor!SentOnce'
        BY <1>1 DEF Editor!SentOnce
    <2>1. t # "" => ~Editor!IsSaved(t)
        BY <1>1 DEF Editor!TypedOnce, Editor!IsSaved, Editor!Inductive
    <2>2. Editor!SentOnce
        BY DEF Editor!Inductive
    <2> QED BY <1>1, <1>3, <1>6, <1>10, <2>1, <2>2 DEF Editor!SentOnce, Editor!SavedOnce
<1>14. /\ Editor!NotYetListed' /\ Editor!FilesApart' /\ Editor!ListIsWanted'
       /\ Editor!SentAsWanted' /\ Editor!HasItsFiles'
    BY <1>1, <1>3, <1>6, FilesKept DEF Editor!Inductive
<1> QED BY <1>7, <1>8, <1>9, <1>11, <1>12, <1>13, <1>14 DEF Editor!Inductive

\* A file is picked while none is uploaded by the button.
LEMMA PickFileStep ==
    ASSUME Editor!Inductive, NEW f \in TabFile, Editor!PickFile(f)
    PROVE  Editor!Inductive'
<1>1. /\ Editor!IsOpen /\ uploads[f] = Editor!NotUploaded
      /\ ~editor.uploadingFlag /\ ~editor.isUploadingAttachment
      /\ UNCHANGED <<memoName, memos, owner, storedMemo, contentCache, saves, draftSpent>>
    BY DEF Editor!PickFile
<1>2. Editor!TypeOK /\ Editor!OneMode /\ Editor!OneSave
    BY DEF Editor!Inductive
<1>3. /\ editor' \in Editor!EditorType /\ editor'.uploadingFlag
      /\ UNCHANGED <<editor.instance, editor.text, editor.attachmentList, editor.isRequesting,
                     editor.isUploadingAttachment>>
    BY <1>2 DEF Editor!PickFile, Editor!TypeOK, Editor!EditorType
<1>4. PICK u : u = [at |-> "asked", by |-> "button", instance |-> editor.instance,
                    base |-> editor.attachmentList]
    OBVIOUS
<1>5. uploads' = [uploads EXCEPT ![f] = u]
    BY <1>4 DEF Editor!PickFile
<1>6. /\ u.at = "asked" /\ u.by = "button" /\ u.instance = editor.instance /\ u.base = editor.attachmentList
      /\ u \in Editor!UploadType /\ u.instance \in 1 .. draftSpent.turns
    BY <1>1, <1>2, <1>4 DEF Editor!TypeOK, Editor!EditorType, Editor!UploadType, Editor!OneSave, Editor!IsOpen
<1>7. /\ draftNotes' \in Editor!NotesType
      /\ draftNotes'.wanted = draftNotes.wanted \cup {f}
      /\ draftNotes'.filesAtRisk = (draftNotes.filesAtRisk \/ saves # {})
      /\ UNCHANGED <<draftNotes.typed, draftNotes.ever, draftNotes.failed, draftNotes.textAtRisk,
                     draftNotes.twice>>
    BY <1>2 DEF Editor!PickFile, Editor!TypeOK, Editor!NotesType
<1>8. /\ Editor!TypeOK' /\ Editor!OneMode' /\ Editor!OneSave'
      /\ Editor!TextOnItsWay' /\ Editor!TypedOnce' /\ Editor!SentOnce'
      /\ \A g \in TabFile : uploads'[g] = IF g = f THEN u ELSE uploads[g]
    <2>1. /\ memos \in Seq(Editor!MemoType) /\ owner \in [DOMAIN owner -> 0 .. Len(memos)]
          /\ DOMAIN owner \subseteq TabFile /\ draftSpent \in [turns : Nat \ {0}, faults : Nat]
        BY <1>2 DEF Editor!TypeOK
    <2> QED BY <1>1, <1>3, <1>5, <1>6, <1>7, <2>1, UploadShape
<1>9. uploads[f].at = "none" /\ f \notin Editor!Uploading /\ Editor!Uploading' = Editor!Uploading \cup {f}
    BY <1>1, <1>6, <1>8 DEF Editor!Uploading, Editor!NotUploaded
<1>10. \A i : Editor!FilesOf(i)' = Editor!FilesOf(i)
    BY <1>1 DEF Editor!FilesOf
<1>11. Editor!NotYetListed'
    BY <1>1, <1>3, <1>6, <1>8, <1>9 DEF Editor!NotYetListed, Editor!Inductive
<1>12. Editor!FilesApart'
    BY <1>1, <1>3, <1>6, <1>8, <1>9 DEF Editor!FilesApart, Editor!Inductive, Editor!Uploading
<1>13. Editor!ListIsWanted'
    <2> SUFFICES ASSUME ~draftNotes.filesAtRisk, saves = {}
                 PROVE  Editor!ListIsWanted'
        BY <1>1, <1>7 DEF Editor!ListIsWanted
    <2>1. f \notin editor.attachmentList \cup storedMemo.attachments
        BY <1>9 DEF Editor!NotYetListed, Editor!Inductive
    <2>2. Editor!ChosenIsListed /\ Editor!UploadsAreOwn /\ Editor!SavesAreOwn /\ Editor!FilesAreStored
        BY <1>1 DEF Editor!ListIsWanted, Editor!Inductive
    <2>3. \A g \in Editor!Uploading : uploads[g].by # "button"
        BY <1>1, <2>2 DEF Editor!UploadsAreOwn
    <2>4. Editor!ChosenIsListed'
        BY <1>1, <1>3, <1>7, <1>9, <2>2 DEF Editor!ChosenIsListed
    <2>5. Editor!UploadsAreOwn'
        BY <1>1, <1>3, <1>6, <1>8, <1>9, <2>1, <2>3, <2>2 DEF Editor!UploadsAreOwn, Editor!Uploading
    <2>6. Editor!SavesAreOwn' /\ Editor!FilesAreStored'
        BY <1>1, <1>3, <1>8, <1>9, <1>10, <2>2
           DEF Editor!SavesAreOwn, Editor!FilesAreStored, Editor!FilesOf, Editor!TypeOK
    <2> QED BY <2>4, <2>5, <2>6 DEF Editor!ListIsWanted
<1>14. Editor!SentAsWanted' /\ Editor!HasItsFiles'
    BY <1>1, <1>10 DEF Editor!SentAsWanted, Editor!HasItsFiles, Editor!Inductive
<1> QED BY <1>8, <1>11, <1>12, <1>13, <1>14 DEF Editor!Inductive

\* A file is dropped; two dropped at a time are not promised anything.
LEMMA DropFileStep ==
    ASSUME Editor!Inductive, NEW f \in TabFile, Editor!DropFile(f)
    PROVE  Editor!Inductive'
<1>1. /\ Editor!IsOpen /\ uploads[f] = Editor!NotUploaded
      /\ UNCHANGED <<memoName, memos, owner, storedMemo, contentCache, saves, draftSpent>>
    BY DEF Editor!DropFile
<1>2. Editor!TypeOK /\ Editor!OneMode /\ Editor!OneSave
    BY DEF Editor!Inductive
<1>3. /\ editor' \in Editor!EditorType /\ editor'.isUploadingAttachment
      /\ UNCHANGED <<editor.instance, editor.text, editor.attachmentList, editor.isRequesting,
                     editor.uploadingFlag>>
    BY <1>2 DEF Editor!DropFile, Editor!TypeOK, Editor!EditorType
<1>4. PICK u : u = [at |-> "asked", by |-> "drop", instance |-> editor.instance, base |-> {}]
    OBVIOUS
<1>5. uploads' = [uploads EXCEPT ![f] = u]
    BY <1>4 DEF Editor!DropFile
<1>6. /\ u.at = "asked" /\ u.by = "drop" /\ u.instance = editor.instance /\ u.base = {}
      /\ u \in Editor!UploadType /\ u.instance \in 1 .. draftSpent.turns
    BY <1>1, <1>2, <1>4 DEF Editor!TypeOK, Editor!EditorType, Editor!UploadType, Editor!OneSave, Editor!IsOpen
<1>7. /\ draftNotes' \in Editor!NotesType
      /\ draftNotes'.wanted = draftNotes.wanted \cup {f}
      /\ draftNotes'.filesAtRisk = (draftNotes.filesAtRisk \/ saves # {}
                                      \/ \E g \in Editor!Uploading : uploads[g].by = "drop")
      /\ UNCHANGED <<draftNotes.typed, draftNotes.ever, draftNotes.failed, draftNotes.textAtRisk,
                     draftNotes.twice>>
    BY <1>2 DEF Editor!DropFile, Editor!TypeOK, Editor!NotesType
<1>8. /\ Editor!TypeOK' /\ Editor!OneMode' /\ Editor!OneSave'
      /\ Editor!TextOnItsWay' /\ Editor!TypedOnce' /\ Editor!SentOnce'
      /\ \A g \in TabFile : uploads'[g] = IF g = f THEN u ELSE uploads[g]
    <2>1. /\ memos \in Seq(Editor!MemoType) /\ owner \in [DOMAIN owner -> 0 .. Len(memos)]
          /\ DOMAIN owner \subseteq TabFile /\ draftSpent \in [turns : Nat \ {0}, faults : Nat]
        BY <1>2 DEF Editor!TypeOK
    <2> QED BY <1>1, <1>3, <1>5, <1>6, <1>7, <2>1, UploadShape
<1>9. uploads[f].at = "none" /\ f \notin Editor!Uploading /\ Editor!Uploading' = Editor!Uploading \cup {f}
    BY <1>1, <1>6, <1>8 DEF Editor!Uploading, Editor!NotUploaded
<1>10. \A i : Editor!FilesOf(i)' = Editor!FilesOf(i)
    BY <1>1 DEF Editor!FilesOf
<1>11. Editor!NotYetListed'
    BY <1>1, <1>3, <1>6, <1>8, <1>9 DEF Editor!NotYetListed, Editor!Inductive
<1>12. Editor!FilesApart'
    BY <1>1, <1>3, <1>6, <1>8, <1>9 DEF Editor!FilesApart, Editor!Inductive, Editor!Uploading
<1>13. Editor!ListIsWanted'
    <2> SUFFICES ASSUME ~draftNotes.filesAtRisk, saves = {},
                        \A g \in Editor!Uploading : uploads[g].by # "drop"
                 PROVE  Editor!ListIsWanted'
        BY <1>1, <1>7 DEF Editor!ListIsWanted
    <2>1. f \notin editor.attachmentList \cup storedMemo.attachments
        BY <1>9 DEF Editor!NotYetListed, Editor!Inductive
    <2>2. Editor!ChosenIsListed /\ Editor!UploadsAreOwn /\ Editor!SavesAreOwn /\ Editor!FilesAreStored
        BY <1>1 DEF Editor!ListIsWanted, Editor!Inductive
    <2>3. Editor!ChosenIsListed'
        BY <1>1, <1>3, <1>7, <1>9, <2>2 DEF Editor!ChosenIsListed
    <2>4. Editor!UploadsAreOwn'
        BY <1>1, <1>3, <1>6, <1>8, <1>9, <2>1, <2>2 DEF Editor!UploadsAreOwn, Editor!Uploading
    <2>5. Editor!SavesAreOwn' /\ Editor!FilesAreStored'
        BY <1>1, <1>3, <1>8, <1>9, <1>10, <2>2
           DEF Editor!SavesAreOwn, Editor!FilesAreStored, Editor!FilesOf, Editor!TypeOK
    <2> QED BY <2>3, <2>4, <2>5 DEF Editor!ListIsWanted
<1>14. Editor!SentAsWanted' /\ Editor!HasItsFiles'
    BY <1>1, <1>10 DEF Editor!SentAsWanted, Editor!HasItsFiles, Editor!Inductive
<1> QED BY <1>8, <1>11, <1>12, <1>13, <1>14 DEF Editor!Inductive

\* The server makes an attachment of no memo.
LEMMA CreateAttachmentStep ==
    ASSUME Editor!Inductive, NEW f \in TabFile, Editor!CreateAttachment(f)
    PROVE  Editor!Inductive'
<1>1. /\ uploads[f].at = "asked"
      /\ UNCHANGED <<memoName, memos, storedMemo, contentCache, editor, saves, draftSpent, draftNotes>>
      /\ owner' = [g \in DOMAIN owner \cup {f} |-> IF g = f THEN 0 ELSE owner[g]]
    BY DEF Editor!CreateAttachment
<1>2. Editor!TypeOK /\ Editor!OneMode /\ Editor!OneSave
    BY DEF Editor!Inductive
<1>3. PICK u : u = [uploads[f] EXCEPT !.at = "created"]
    OBVIOUS
<1>4. uploads' = [uploads EXCEPT ![f] = u]
    BY <1>3 DEF Editor!CreateAttachment
<1>5. /\ u \in Editor!UploadType /\ u.at = "created" /\ u.by = uploads[f].by
      /\ u.instance = uploads[f].instance /\ u.base = uploads[f].base
    <2>1. uploads[f] \in Editor!UploadType
        BY <1>2 DEF Editor!TypeOK
    <2> QED BY <1>3, <2>1 DEF Editor!UploadType
<1>6. f \in Editor!Uploading /\ f \notin DOMAIN owner
    BY <1>1 DEF Editor!Uploading, Editor!NotYetListed, Editor!Inductive
<1>7. /\ DOMAIN owner' = DOMAIN owner \cup {f} /\ owner'[f] = 0
      /\ \A g \in DOMAIN owner : owner'[g] = owner[g]
    BY <1>1, <1>6
<1>8. /\ Editor!TypeOK' /\ Editor!OneMode' /\ Editor!OneSave'
      /\ Editor!TextOnItsWay' /\ Editor!TypedOnce' /\ Editor!SentOnce'
      /\ \A g \in TabFile : uploads'[g] = IF g = f THEN u ELSE uploads[g]
    <2>1. /\ memos \in Seq(Editor!MemoType) /\ draftSpent \in [turns : Nat \ {0}, faults : Nat]
          /\ editor \in Editor!EditorType /\ draftNotes \in Editor!NotesType
        BY <1>2 DEF Editor!TypeOK
    <2>2. owner' \in [DOMAIN owner' -> 0 .. Len(memos)] /\ DOMAIN owner' \subseteq TabFile
        BY <1>1, <1>2, MemosAre DEF Editor!TypeOK
    <2>3. u.instance \in 1 .. draftSpent.turns /\ u.by # "none"
        BY <1>2, <1>5, <1>6 DEF Editor!OneSave
    <2> QED BY <1>1, <1>4, <1>5, <2>1, <2>2, <2>3, UploadShape
<1>9. Editor!Uploading' = Editor!Uploading
    BY <1>5, <1>6, <1>8 DEF Editor!Uploading
<1>10. \A i : i # 0 => Editor!FilesOf(i)' = Editor!FilesOf(i)
    BY <1>7 DEF Editor!FilesOf
<1>11. Editor!NotYetListed'
    BY <1>1, <1>5, <1>6, <1>7, <1>8 DEF Editor!NotYetListed, Editor!Inductive
<1>12. Editor!FilesApart'
    BY <1>1, <1>2, <1>5, <1>8, <1>9 DEF Editor!FilesApart, Editor!Inductive, Editor!Uploading
<1>13. Editor!ListIsWanted'
    <2> SUFFICES ASSUME Editor!IsOpen, ~draftNotes.filesAtRisk
                 PROVE  Editor!ListIsWanted'
        BY <1>1 DEF Editor!ListIsWanted, Editor!IsOpen
    <2>1. Editor!ChosenIsListed /\ Editor!UploadsAreOwn /\ Editor!SavesAreOwn /\ Editor!FilesAreStored
        BY DEF Editor!ListIsWanted, Editor!Inductive
    <2>2. Editor!ChosenIsListed' /\ Editor!SavesAreOwn'
        BY <1>1, <1>9, <2>1 DEF Editor!ChosenIsListed, Editor!SavesAreOwn
    <2>3. Editor!UploadsAreOwn'
        BY <1>1, <1>5, <1>8, <1>9, <2>1 DEF Editor!UploadsAreOwn, Editor!Uploading
    <2>4. Editor!FilesAreStored'
        <3>1. \A g \in Editor!FilesOf(1) : g \in DOMAIN owner /\ uploads'[g] = uploads[g]
            BY <1>2, <1>6, <1>8 DEF Editor!FilesOf, Editor!TypeOK
        <3>2. \A g \in editor.attachmentList : g \in DOMAIN owner' /\ g # f => g \in DOMAIN owner
            BY <1>7
        <3> QED BY <1>1, <1>7, <1>10, <2>1, <3>1, <3>2 DEF Editor!FilesAreStored
    <2> QED BY <2>2, <2>3, <2>4 DEF Editor!ListIsWanted
<1>14. Editor!SentAsWanted'
    BY <1>1, <1>7, <1>10 DEF Editor!SentAsWanted, Editor!Inductive
<1>15. Editor!HasItsFiles'
    BY <1>1, <1>2, <1>10, MemosAre DEF Editor!HasItsFiles, Editor!Inductive
<1> QED BY <1>8, <1>11, <1>12, <1>13, <1>14, <1>15 DEF Editor!Inductive

\* The end of an upload by the button sets the list there was when it began.
LEMMA PickedStep ==
    ASSUME Editor!Inductive, NEW f \in TabFile, Editor!Picked(f)
    PROVE  Editor!Inductive'
<1>1. /\ uploads[f].at = "created" /\ uploads[f].by = "button"
      /\ UNCHANGED <<memoName, memos, owner, storedMemo, contentCache, saves, draftSpent>>
    BY DEF Editor!Picked
<1>2. /\ Editor!TypeOK /\ Editor!OneMode /\ Editor!OneSave
      /\ Editor!NotYetListed /\ Editor!FilesApart
    BY DEF Editor!Inductive
<1>3. PICK own \in BOOLEAN : own = (uploads[f].instance = editor.instance)
    OBVIOUS
<1>4. f \in Editor!Uploading /\ uploads[f].base \in SUBSET TabFile /\ (own => Editor!IsOpen)
    BY <1>1, <1>2, <1>3, UploadUnderWay DEF Editor!Uploading
<1>5. PICK u : u = Editor!Ended
    OBVIOUS
<1>6. uploads' = [uploads EXCEPT ![f] = u]
    BY <1>5 DEF Editor!Picked, Editor!EndPick
<1>7. u.at = "ended" /\ u.base = {} /\ u \in Editor!UploadType
    BY <1>5, EndedIs
<1>8. editor' = IF own THEN [editor EXCEPT !.attachmentList = uploads[f].base \cup {f},
                                           !.uploadingFlag = FALSE]
                ELSE editor
    BY <1>3 DEF Editor!Picked, Editor!EndPick, Editor!InEditorOf
<1>9. /\ editor' \in Editor!EditorType
      /\ own => editor'.attachmentList = uploads[f].base \cup {f}
      /\ ~own => editor' = editor
      /\ UNCHANGED <<editor.instance, editor.text, editor.isRequesting, editor.isUploadingAttachment>>
    BY <1>2, <1>4, <1>8 DEF Editor!TypeOK, Editor!EditorType
<1>10. ~Editor!IsOpen => ~own
    BY <1>4
<1>11. /\ draftNotes' \in Editor!NotesType
       /\ draftNotes'.filesAtRisk = (draftNotes.filesAtRisk \/ uploads[f].base # editor.attachmentList)
       /\ UNCHANGED <<draftNotes.typed, draftNotes.ever, draftNotes.failed, draftNotes.textAtRisk,
                      draftNotes.twice, draftNotes.wanted>>
    BY <1>2 DEF Editor!Picked, Editor!TypeOK, Editor!NotesType
<1>12. /\ Editor!TypeOK' /\ Editor!OneMode' /\ Editor!OneSave'
       /\ Editor!TextOnItsWay' /\ Editor!TypedOnce' /\ Editor!SentOnce'
       /\ \A g \in TabFile : uploads'[g] = IF g = f THEN u ELSE uploads[g]
    <2>1. /\ memos \in Seq(Editor!MemoType) /\ owner \in [DOMAIN owner -> 0 .. Len(memos)]
          /\ DOMAIN owner \subseteq TabFile /\ draftSpent \in [turns : Nat \ {0}, faults : Nat]
        BY <1>2 DEF Editor!TypeOK
    <2> QED BY <1>1, <1>6, <1>7, <1>9, <1>10, <1>11, <2>1, UploadShape
<1>13. Editor!Uploading' = Editor!Uploading \ {f}
    BY <1>7, <1>12 DEF Editor!Uploading
<1>14. \A i : Editor!FilesOf(i)' = Editor!FilesOf(i)
    BY <1>1 DEF Editor!FilesOf
<1>15. Editor!NotYetListed'
    BY <1>1, <1>2, <1>7, <1>9, <1>12 DEF Editor!NotYetListed
<1>16. Editor!FilesApart'
    <2> SUFFICES ASSUME memoName = 0
                 PROVE  Editor!FilesApart'
        BY <1>1 DEF Editor!FilesApart
    <2>1. \A s \in saves : s.instance # editor.instance => s.attachments \cap editor'.attachmentList = {}
        BY <1>1, <1>2, <1>3, <1>4, <1>9 DEF Editor!FilesApart, Editor!NotYetListed
    <2> QED BY <1>1, <1>2, <1>7, <1>9, <1>12, <1>13, <2>1 DEF Editor!FilesApart, Editor!Uploading
<1>17. Editor!ListIsWanted'
    <2> SUFFICES ASSUME Editor!IsOpen, ~draftNotes.filesAtRisk,
                        uploads[f].base = editor.attachmentList
                 PROVE  Editor!ListIsWanted'
        BY <1>9, <1>11 DEF Editor!ListIsWanted, Editor!IsOpen
    <2>1. Editor!ChosenIsListed /\ Editor!UploadsAreOwn /\ Editor!SavesAreOwn /\ Editor!FilesAreStored
        BY DEF Editor!ListIsWanted, Editor!Inductive
    <2>2. own /\ saves = {}
        BY <1>3, <1>4, <2>1 DEF Editor!UploadsAreOwn, Editor!SavesAreOwn
    <2>3. editor'.attachmentList = editor.attachmentList \cup {f}
        BY <1>9, <2>2
    <2>4. Editor!ChosenIsListed'
        BY <1>4, <1>11, <1>13, <2>1, <2>3 DEF Editor!ChosenIsListed
    <2>5. \A g \in Editor!Uploading : uploads[g].by = "button" => g = f
        BY <1>1, <1>4, <2>1 DEF Editor!UploadsAreOwn
    <2>6. Editor!UploadsAreOwn'
        BY <1>1, <1>9, <1>12, <1>13, <2>1, <2>3, <2>5 DEF Editor!UploadsAreOwn, Editor!Uploading
    <2>7. Editor!SavesAreOwn'
        BY <1>1, <2>2 DEF Editor!SavesAreOwn
    <2>8. owner[f] = 0 /\ f \notin Editor!FilesOf(1)
        BY <1>1, <1>2 DEF Editor!NotYetListed, Editor!FilesOf
    <2>9. Editor!FilesAreStored'
        <3>1. \A g \in Editor!FilesOf(1) : uploads'[g] = uploads[g]
            BY <1>2, <1>12, <2>8 DEF Editor!FilesOf, Editor!TypeOK
        <3> QED BY <1>1, <1>14, <2>1, <2>3, <2>8, <3>1 DEF Editor!FilesAreStored
    <2> QED BY <2>4, <2>6, <2>7, <2>9 DEF Editor!ListIsWanted
<1>18. Editor!SentAsWanted' /\ Editor!HasItsFiles'
    BY <1>1, <1>14 DEF Editor!SentAsWanted, Editor!HasItsFiles, Editor!Inductive
<1> QED BY <1>12, <1>15, <1>16, <1>17, <1>18 DEF Editor!Inductive

\* A dropped file is added to the list there is, or goes on to be attached.
LEMMA DroppedStep ==
    ASSUME Editor!Inductive, NEW f \in TabFile, Editor!Dropped(f)
    PROVE  Editor!Inductive'
<1>1. /\ uploads[f].at = "created" /\ uploads[f].by = "drop"
      /\ UNCHANGED <<memoName, memos, owner, storedMemo, contentCache, saves, draftSpent, draftNotes>>
    BY DEF Editor!Dropped
<1>2. /\ Editor!TypeOK /\ Editor!OneMode /\ Editor!OneSave
      /\ Editor!NotYetListed /\ Editor!FilesApart
    BY DEF Editor!Inductive
<1>3. PICK own \in BOOLEAN : own = (uploads[f].instance = editor.instance)
    OBVIOUS
<1>4. /\ f \in Editor!Uploading /\ uploads[f] \in Editor!UploadType
      /\ uploads[f].instance \in 1 .. draftSpent.turns /\ uploads[f].by # "none" /\ (own => Editor!IsOpen)
    BY <1>1, <1>2, <1>3, UploadUnderWay DEF Editor!Uploading
<1>5. PICK u : u = IF memoName = 1 THEN [uploads[f] EXCEPT !.at = "attach"]
                   ELSE Editor!Ended
    OBVIOUS
<1>6. uploads' = [uploads EXCEPT ![f] = u]
    BY <1>5 DEF Editor!Dropped
<1>7. /\ u \in Editor!UploadType
      /\ memoName = 1 => /\ u.at = "attach" /\ u.by = uploads[f].by
                         /\ u.instance = uploads[f].instance /\ u.base = uploads[f].base
      /\ memoName # 1 => u.at = "ended" /\ u.base = {}
    BY <1>4, <1>5, EndedIs DEF Editor!UploadType
<1>8. editor' = IF own THEN [editor EXCEPT !.isUploadingAttachment = FALSE,
                                           !.attachmentList = IF memoName = 1 THEN @ ELSE @ \cup {f}]
                ELSE editor
    BY <1>3 DEF Editor!Dropped, Editor!InEditorOf
<1>9. /\ editor' \in Editor!EditorType
      /\ own /\ memoName # 1 => editor'.attachmentList = editor.attachmentList \cup {f}
      /\ own /\ memoName = 1 => editor'.attachmentList = editor.attachmentList
      /\ ~own => editor' = editor
      /\ UNCHANGED <<editor.instance, editor.text, editor.isRequesting, editor.uploadingFlag>>
    BY <1>2, <1>8 DEF Editor!TypeOK, Editor!EditorType
<1>10. (~Editor!IsOpen => ~own) /\ draftNotes \in Editor!NotesType
    BY <1>2, <1>4 DEF Editor!TypeOK
<1>11. /\ Editor!TypeOK' /\ Editor!OneMode' /\ Editor!OneSave'
       /\ Editor!TextOnItsWay' /\ Editor!TypedOnce' /\ Editor!SentOnce'
       /\ \A g \in TabFile : uploads'[g] = IF g = f THEN u ELSE uploads[g]
    <2>1. /\ memos \in Seq(Editor!MemoType) /\ owner \in [DOMAIN owner -> 0 .. Len(memos)]
          /\ DOMAIN owner \subseteq TabFile /\ draftSpent \in [turns : Nat \ {0}, faults : Nat]
        BY <1>2 DEF Editor!TypeOK
    <2>2. /\ memoName = 1 => u.by # "none" /\ u.instance \in 1 .. draftSpent.turns
          /\ u.at \in {"none", "ended"} \/ memoName = 1
          /\ u.at \notin {"attach", "attached"} \/ memoName = 1
        BY <1>4, <1>7
    <2>3. /\ u \in Editor!UploadType /\ (~Editor!IsOpen => editor' = editor)
          /\ u.at \in {"none", "ended"} \/ (u.instance \in 1 .. draftSpent.turns /\ u.by # "none")
          /\ memoName = 0 => u.at \notin {"attach", "attached"}
        BY <1>7, <1>9, <1>10, <2>2
    <2> QED BY <1>1, <1>6, <1>9, <1>10, <2>1, <2>3, UploadShape
<1>12. Editor!Uploading' = IF memoName = 1 THEN Editor!Uploading ELSE Editor!Uploading \ {f}
    BY <1>1, <1>4, <1>7, <1>11 DEF Editor!Uploading
<1>13. \A i : Editor!FilesOf(i)' = Editor!FilesOf(i)
    BY <1>1 DEF Editor!FilesOf
<1>14. Editor!NotYetListed'
    <2>1. CASE memoName = 1
        BY <1>1, <1>2, <1>7, <1>9, <1>11, <2>1 DEF Editor!NotYetListed
    <2>2. CASE memoName # 1
        BY <1>1, <1>2, <1>7, <1>9, <1>11, <2>2 DEF Editor!NotYetListed
    <2> QED BY <2>1, <2>2
<1>15. Editor!FilesApart'
    <2> SUFFICES ASSUME memoName = 0
                 PROVE  Editor!FilesApart'
        BY <1>1 DEF Editor!FilesApart
    <2>1. \A s \in saves : s.instance # editor.instance => s.attachments \cap editor'.attachmentList = {}
        BY <1>1, <1>2, <1>9 DEF Editor!FilesApart, Editor!NotYetListed
    <2> QED BY <1>1, <1>2, <1>7, <1>9, <1>11, <1>12, <2>1 DEF Editor!FilesApart, Editor!Uploading
<1>16. Editor!ListIsWanted'
    <2> SUFFICES ASSUME Editor!IsOpen, ~draftNotes.filesAtRisk
                 PROVE  Editor!ListIsWanted'
        BY <1>1, <1>9 DEF Editor!ListIsWanted, Editor!IsOpen
    <2>1. Editor!ChosenIsListed /\ Editor!UploadsAreOwn /\ Editor!SavesAreOwn /\ Editor!FilesAreStored
        BY DEF Editor!ListIsWanted, Editor!Inductive
    <2>2. own /\ saves = {}
        BY <1>3, <1>4, <2>1 DEF Editor!UploadsAreOwn, Editor!SavesAreOwn
    <2>3. editor'.attachmentList = IF memoName = 1 THEN editor.attachmentList
                                   ELSE editor.attachmentList \cup {f}
        BY <1>9, <2>2
    <2>4. Editor!ChosenIsListed'
        BY <1>1, <1>4, <1>12, <2>1, <2>3 DEF Editor!ChosenIsListed
    <2>5. \A g \in Editor!Uploading : uploads[g].by = "drop" => g = f
        BY <1>1, <1>4, <2>1 DEF Editor!UploadsAreOwn
    <2>6. Editor!UploadsAreOwn'
        BY <1>1, <1>7, <1>9, <1>11, <1>12, <2>1, <2>3, <2>5 DEF Editor!UploadsAreOwn, Editor!Uploading
    <2>7. Editor!SavesAreOwn'
        BY <1>1, <2>2 DEF Editor!SavesAreOwn
    <2>8. owner[f] = 0 /\ f \notin Editor!FilesOf(1)
        BY <1>1, <1>2 DEF Editor!NotYetListed, Editor!FilesOf
    <2>9. Editor!FilesAreStored'
        <3>1. \A g \in Editor!FilesOf(1) : uploads'[g] = uploads[g]
            BY <1>2, <1>11, <2>8 DEF Editor!FilesOf, Editor!TypeOK
        <3> QED BY <1>1, <1>13, <2>1, <2>3, <2>8, <3>1 DEF Editor!FilesAreStored
    <2> QED BY <2>4, <2>6, <2>7, <2>9 DEF Editor!ListIsWanted
<1>17. Editor!SentAsWanted' /\ Editor!HasItsFiles'
    BY <1>1, <1>13 DEF Editor!SentAsWanted, Editor!HasItsFiles, Editor!Inductive
<1> QED BY <1>11, <1>14, <1>15, <1>16, <1>17 DEF Editor!Inductive

\* The server makes a dropped file one of the edited memo.
LEMMA UpdateAttachmentStep ==
    ASSUME Editor!Inductive, NEW f \in TabFile, Editor!UpdateAttachment(f)
    PROVE  Editor!Inductive'
<1>1. /\ uploads[f].at = "attach" /\ f \in DOMAIN owner /\ owner' = [owner EXCEPT ![f] = 1]
      /\ UNCHANGED <<memoName, storedMemo, contentCache, editor, saves, draftSpent, draftNotes>>
    BY DEF Editor!UpdateAttachment
<1>2. /\ Editor!TypeOK /\ Editor!OneMode /\ Editor!OneSave /\ Editor!NotYetListed
    BY DEF Editor!Inductive
<1>3. memoName = 1 /\ Len(memos) = 1 /\ DOMAIN memos = {1} /\ memos[1] \in Editor!MemoType
      /\ memos \in Seq(Editor!MemoType)
    BY <1>1, <1>2, MemosAre DEF Editor!OneMode, Editor!TypeOK
<1>4. PICK m : m = [memos[1] EXCEPT !.wanted = @ \cup {f}, !.sure = @ /\ saves = {}]
    OBVIOUS
<1>5. memos' = [memos EXCEPT ![1] = m]
    BY <1>4 DEF Editor!UpdateAttachment
<1>6. /\ m \in Editor!MemoType /\ m.content = memos[1].content /\ m.wanted = memos[1].wanted \cup {f}
      /\ m.sure = (memos[1].sure /\ saves = {})
    BY <1>3, <1>4 DEF Editor!MemoType
<1>7. memos' \in Seq(Editor!MemoType) /\ Len(memos') = Len(memos) /\ DOMAIN memos' = {1} /\ memos'[1] = m
    <2>1. /\ [memos EXCEPT ![1] = m] \in Seq(Editor!MemoType)
          /\ Len([memos EXCEPT ![1] = m]) = Len(memos)
        BY <1>3, <1>6, OneReplaced
    <2> QED BY <1>3, <1>5, <2>1
<1>8. PICK u : u = [uploads[f] EXCEPT !.at = "attached"]
    OBVIOUS
<1>9. uploads' = [uploads EXCEPT ![f] = u]
    BY <1>8 DEF Editor!UpdateAttachment
<1>10. /\ u \in Editor!UploadType /\ u.at = "attached" /\ u.by = uploads[f].by
       /\ u.instance = uploads[f].instance /\ u.base = uploads[f].base
    <2>1. uploads[f] \in Editor!UploadType
        BY <1>2 DEF Editor!TypeOK
    <2> QED BY <1>8, <2>1 DEF Editor!UploadType
<1>11. f \in Editor!Uploading /\ u.instance \in 1 .. draftSpent.turns /\ u.by # "none"
    BY <1>1, <1>2, <1>10, UploadUnderWay DEF Editor!Uploading
<1>12. /\ owner' \in [DOMAIN owner' -> 0 .. Len(memos)] /\ DOMAIN owner' = DOMAIN owner
       /\ \A g \in DOMAIN owner : owner'[g] = IF g = f THEN 1 ELSE owner[g]
       /\ Editor!FilesOf(1)' = Editor!FilesOf(1) \cup {f}
    BY <1>1, <1>2, <1>3 DEF Editor!TypeOK, Editor!FilesOf
<1>13. /\ Editor!TypeOK' /\ Editor!OneMode' /\ Editor!OneSave'
       /\ Editor!TextOnItsWay' /\ Editor!TypedOnce' /\ Editor!SentOnce'
       /\ \A g \in TabFile : uploads'[g] = IF g = f THEN u ELSE uploads[g]
    <2>1. /\ DOMAIN owner \subseteq TabFile /\ draftSpent \in [turns : Nat \ {0}, faults : Nat]
          /\ editor \in Editor!EditorType /\ draftNotes \in Editor!NotesType
        BY <1>2 DEF Editor!TypeOK
    <2>2. /\ memos' \in Seq(Editor!MemoType) /\ Len(memos') = Len(memos) /\ DOMAIN memos' = DOMAIN memos
          /\ \A i \in DOMAIN memos : memos'[i].content = memos[i].content
        BY <1>3, <1>6, <1>7
    <2>3. /\ u \in Editor!UploadType /\ u.instance \in 1 .. draftSpent.turns /\ u.by # "none"
          /\ memoName # 0
        BY <1>3, <1>10, <1>11
    <2>4. /\ UNCHANGED <<memoName, storedMemo, contentCache, editor, saves, draftSpent, draftNotes>>
          /\ owner' \in [DOMAIN owner' -> 0 .. Len(memos)] /\ DOMAIN owner' \subseteq TabFile
        BY <1>1, <1>12, <2>1
    <2> QED BY <1>9, <2>1, <2>2, <2>3, <2>4, UploadShape
<1>14. Editor!Uploading' = Editor!Uploading
    BY <1>10, <1>11, <1>13 DEF Editor!Uploading
<1>15. Editor!NotYetListed'
    BY <1>1, <1>2, <1>10, <1>12, <1>13 DEF Editor!NotYetListed
<1>16. Editor!FilesApart'
    BY <1>1, <1>3 DEF Editor!FilesApart
<1>17. Editor!ListIsWanted'
    <2> SUFFICES ASSUME Editor!IsOpen, ~draftNotes.filesAtRisk
                 PROVE  Editor!ListIsWanted'
        BY <1>1 DEF Editor!ListIsWanted, Editor!IsOpen
    <2>1. Editor!ChosenIsListed /\ Editor!UploadsAreOwn /\ Editor!SavesAreOwn /\ Editor!FilesAreStored
        BY DEF Editor!ListIsWanted, Editor!Inductive
    <2>2. Editor!ChosenIsListed' /\ Editor!SavesAreOwn'
        BY <1>1, <1>14, <2>1 DEF Editor!ChosenIsListed, Editor!SavesAreOwn
    <2>3. Editor!UploadsAreOwn'
        BY <1>1, <1>10, <1>13, <1>14, <2>1 DEF Editor!UploadsAreOwn, Editor!Uploading
    <2>4. Editor!FilesAreStored'
        <3>1. \A g \in Editor!FilesOf(1) : g \in TabFile
            BY <1>2 DEF Editor!FilesOf, Editor!TypeOK
        <3>2. \A g \in Editor!FilesOf(1) \cup {f} :
                uploads'[g].at = "attached" \/ uploads'[g] = uploads[g]
            BY <1>10, <1>13, <3>1
        <3>3. uploads'[f].at = "attached"
            BY <1>10, <1>13
        <3>4. memos'[1].sure => memos[1].sure
            BY <1>6, <1>7
        <3> QED BY <1>1, <1>3, <1>12, <2>1, <3>2, <3>3, <3>4 DEF Editor!FilesAreStored
    <2> QED BY <2>2, <2>3, <2>4 DEF Editor!ListIsWanted
<1>18. Editor!SentAsWanted'
    BY <1>1, <1>3, <1>6, <1>7 DEF Editor!SentAsWanted, Editor!Inductive
<1>19. Editor!HasItsFiles'
    BY <1>3, <1>6, <1>7, <1>12 DEF Editor!HasItsFiles, Editor!Inductive
<1> QED BY <1>13, <1>15, <1>16, <1>17, <1>18, <1>19 DEF Editor!Inductive

\* An attached file is added to the list.
LEMMA AttachedStep ==
    ASSUME Editor!Inductive, NEW f \in TabFile, Editor!Attached(f)
    PROVE  Editor!Inductive'
<1>1. /\ uploads[f].at = "attached"
      /\ UNCHANGED <<memoName, memos, owner, storedMemo, contentCache, saves, draftSpent, draftNotes>>
    BY DEF Editor!Attached
<1>2. Editor!TypeOK /\ Editor!OneMode /\ Editor!OneSave /\ Editor!NotYetListed
    BY DEF Editor!Inductive
<1>3. PICK own \in BOOLEAN : own = (uploads[f].instance = editor.instance)
    OBVIOUS
<1>4. memoName = 1 /\ f \in Editor!Uploading /\ (own => Editor!IsOpen)
    BY <1>1, <1>2, <1>3, UploadUnderWay DEF Editor!Uploading, Editor!OneMode, Editor!TypeOK
<1>5. PICK u : u = Editor!Ended
    OBVIOUS
<1>6. uploads' = [uploads EXCEPT ![f] = u]
    BY <1>5 DEF Editor!Attached
<1>7. u.at = "ended" /\ u.base = {} /\ u \in Editor!UploadType
    BY <1>5, EndedIs
<1>8. editor' = IF own THEN [editor EXCEPT !.attachmentList = @ \cup {f}] ELSE editor
    BY <1>3 DEF Editor!Attached, Editor!InEditorOf
<1>9. /\ editor' \in Editor!EditorType
      /\ own => editor'.attachmentList = editor.attachmentList \cup {f}
      /\ ~own => editor' = editor
      /\ UNCHANGED <<editor.instance, editor.text, editor.isRequesting, editor.isUploadingAttachment,
                     editor.uploadingFlag>>
    BY <1>2, <1>8 DEF Editor!TypeOK, Editor!EditorType
<1>10. (~Editor!IsOpen => ~own) /\ draftNotes \in Editor!NotesType
    BY <1>2, <1>4 DEF Editor!TypeOK
<1>11. /\ Editor!TypeOK' /\ Editor!OneMode' /\ Editor!OneSave'
       /\ Editor!TextOnItsWay' /\ Editor!TypedOnce' /\ Editor!SentOnce'
       /\ \A g \in TabFile : uploads'[g] = IF g = f THEN u ELSE uploads[g]
    <2>1. /\ memos \in Seq(Editor!MemoType) /\ owner \in [DOMAIN owner -> 0 .. Len(memos)]
          /\ DOMAIN owner \subseteq TabFile /\ draftSpent \in [turns : Nat \ {0}, faults : Nat]
        BY <1>2 DEF Editor!TypeOK
    <2> QED BY <1>1, <1>6, <1>7, <1>9, <1>10, <2>1, UploadShape
<1>12. Editor!Uploading' = Editor!Uploading \ {f}
    BY <1>7, <1>11 DEF Editor!Uploading
<1>13. \A i : Editor!FilesOf(i)' = Editor!FilesOf(i)
    BY <1>1 DEF Editor!FilesOf
<1>14. Editor!NotYetListed'
    BY <1>1, <1>2, <1>7, <1>9, <1>11 DEF Editor!NotYetListed
<1>15. Editor!FilesApart'
    BY <1>1, <1>4 DEF Editor!FilesApart
<1>16. Editor!ListIsWanted'
    <2> SUFFICES ASSUME Editor!IsOpen, ~draftNotes.filesAtRisk
                 PROVE  Editor!ListIsWanted'
        BY <1>1, <1>9 DEF Editor!ListIsWanted, Editor!IsOpen
    <2>1. Editor!ChosenIsListed /\ Editor!UploadsAreOwn /\ Editor!SavesAreOwn /\ Editor!FilesAreStored
        BY DEF Editor!ListIsWanted, Editor!Inductive
    <2>2. own /\ saves = {}
        BY <1>3, <1>4, <2>1 DEF Editor!UploadsAreOwn, Editor!SavesAreOwn
    <2>3. editor'.attachmentList = editor.attachmentList \cup {f}
        BY <1>9, <2>2
    <2>4. Editor!ChosenIsListed'
        BY <1>1, <1>4, <1>12, <2>1, <2>3 DEF Editor!ChosenIsListed
    <2>5. Editor!UploadsAreOwn'
        BY <1>1, <1>7, <1>9, <1>11, <1>12, <2>1, <2>3 DEF Editor!UploadsAreOwn, Editor!Uploading
    <2>6. Editor!SavesAreOwn'
        BY <1>1, <2>2 DEF Editor!SavesAreOwn
    <2>7. Editor!FilesAreStored'
        <3>1. \A g \in Editor!FilesOf(1) : g = f \/ uploads'[g] = uploads[g]
            BY <1>2, <1>11 DEF Editor!FilesOf, Editor!TypeOK
        <3> QED BY <1>1, <1>4, <1>13, <2>1, <2>3, <3>1 DEF Editor!FilesAreStored
    <2> QED BY <2>4, <2>5, <2>6, <2>7 DEF Editor!ListIsWanted
<1>17. Editor!SentAsWanted' /\ Editor!HasItsFiles'
    BY <1>1, <1>13 DEF Editor!SentAsWanted, Editor!HasItsFiles, Editor!Inductive
<1> QED BY <1>11, <1>14, <1>15, <1>16, <1>17 DEF Editor!Inductive

\* An upload that fails adds nothing.
LEMMA UploadFailsStep ==
    ASSUME Editor!Inductive, NEW f \in TabFile, Editor!UploadFails(f)
    PROVE  Editor!Inductive'
<1>1. /\ f \in Editor!Uploading
      /\ UNCHANGED <<memoName, memos, owner, storedMemo, contentCache, saves>>
    BY DEF Editor!UploadFails
<1>2. /\ Editor!TypeOK /\ Editor!OneMode /\ Editor!OneSave
      /\ Editor!NotYetListed /\ Editor!FilesApart
    BY DEF Editor!Inductive
<1>3. PICK own \in BOOLEAN : own = (uploads[f].instance = editor.instance)
    OBVIOUS
<1>4. uploads[f].base \in SUBSET TabFile /\ (own => Editor!IsOpen)
    BY <1>1, <1>2, <1>3, UploadUnderWay
<1>5. PICK u : u = Editor!Ended
    OBVIOUS
<1>6. uploads' = [uploads EXCEPT ![f] = u]
    BY <1>5 DEF Editor!UploadFails, Editor!EndPick
<1>7. u.at = "ended" /\ u.base = {} /\ u \in Editor!UploadType
    BY <1>5, EndedIs
<1>8. editor' = IF ~own THEN editor
                ELSE IF uploads[f].by = "button"
                THEN [editor EXCEPT !.attachmentList = uploads[f].base, !.uploadingFlag = FALSE]
                ELSE IF uploads[f].at \in {"asked", "created"}
                THEN [editor EXCEPT !.isUploadingAttachment = FALSE] ELSE editor
    BY <1>3 DEF Editor!UploadFails, Editor!EndPick, Editor!InEditorOf
<1>9. /\ editor' \in Editor!EditorType
      /\ editor'.attachmentList = IF own /\ uploads[f].by = "button" THEN uploads[f].base
                                  ELSE editor.attachmentList
      /\ uploads[f].by # "button" => editor'.uploadingFlag = editor.uploadingFlag
      /\ uploads[f].by = "button" => editor'.isUploadingAttachment = editor.isUploadingAttachment
      /\ ~own => editor' = editor
      /\ UNCHANGED <<editor.instance, editor.text, editor.isRequesting>>
    BY <1>2, <1>4, <1>8 DEF Editor!TypeOK, Editor!EditorType
<1>10. draftSpent' \in [turns : Nat \ {0}, faults : Nat] /\ draftSpent'.turns = draftSpent.turns
    BY <1>2 DEF Editor!UploadFails, Editor!Spend, Editor!TypeOK
<1>11. /\ draftNotes' \in Editor!NotesType
       /\ draftNotes'.filesAtRisk =
            \/ draftNotes.filesAtRisk \/ uploads[f].at \in {"attach", "attached"}
            \/ uploads[f].by = "button" /\ uploads[f].base # editor.attachmentList
       /\ draftNotes'.wanted = draftNotes.wanted \ {f}
       /\ UNCHANGED <<draftNotes.typed, draftNotes.ever, draftNotes.failed, draftNotes.textAtRisk,
                      draftNotes.twice>>
    BY <1>2 DEF Editor!UploadFails, Editor!TypeOK, Editor!NotesType
<1>12. /\ Editor!TypeOK' /\ Editor!OneMode' /\ Editor!OneSave'
       /\ Editor!TextOnItsWay' /\ Editor!TypedOnce' /\ Editor!SentOnce'
       /\ \A g \in TabFile : uploads'[g] = IF g = f THEN u ELSE uploads[g]
    <2>1. /\ memos \in Seq(Editor!MemoType) /\ owner \in [DOMAIN owner -> 0 .. Len(memos)]
          /\ DOMAIN owner \subseteq TabFile /\ (~Editor!IsOpen => editor' = editor)
        BY <1>2, <1>4, <1>9 DEF Editor!TypeOK
    <2> QED BY <1>1, <1>6, <1>7, <1>9, <1>10, <1>11, <2>1, UploadShape
<1>13. Editor!Uploading' = Editor!Uploading \ {f}
    BY <1>7, <1>12 DEF Editor!Uploading
<1>14. \A i : Editor!FilesOf(i)' = Editor!FilesOf(i)
    BY <1>1 DEF Editor!FilesOf
<1>15. Editor!NotYetListed'
    BY <1>1, <1>2, <1>7, <1>9, <1>12 DEF Editor!NotYetListed
<1>16. Editor!FilesApart'
    <2> SUFFICES ASSUME memoName = 0
                 PROVE  Editor!FilesApart'
        BY <1>1 DEF Editor!FilesApart
    <2>1. \A s \in saves : s.instance # editor.instance => s.attachments \cap editor'.attachmentList = {}
        BY <1>1, <1>2, <1>3, <1>9 DEF Editor!FilesApart
    <2> QED BY <1>1, <1>2, <1>7, <1>9, <1>12, <1>13, <2>1 DEF Editor!FilesApart, Editor!Uploading
<1>17. Editor!ListIsWanted'
    <2> SUFFICES ASSUME Editor!IsOpen, ~draftNotes.filesAtRisk, uploads[f].at \notin {"attach", "attached"},
                        uploads[f].by = "button" => uploads[f].base = editor.attachmentList
                 PROVE  Editor!ListIsWanted'
        BY <1>9, <1>11 DEF Editor!ListIsWanted, Editor!IsOpen
    <2>1. Editor!ChosenIsListed /\ Editor!UploadsAreOwn /\ Editor!SavesAreOwn /\ Editor!FilesAreStored
        BY DEF Editor!ListIsWanted, Editor!Inductive
    <2>2. own /\ saves = {} /\ f \notin editor.attachmentList
        BY <1>1, <1>3, <2>1 DEF Editor!UploadsAreOwn, Editor!SavesAreOwn
    <2>3. editor'.attachmentList = editor.attachmentList
        BY <1>9
    <2>4. Editor!ChosenIsListed'
        BY <1>11, <1>13, <2>1, <2>2, <2>3 DEF Editor!ChosenIsListed
    <2>5. \A g \in Editor!Uploading : uploads[g].by = uploads[f].by => g = f
        BY <1>1, <2>1 DEF Editor!UploadsAreOwn
    <2>6. uploads[f].by \in {"button", "drop"}
        BY <1>1, <1>2 DEF Editor!OneSave, Editor!TypeOK, Editor!UploadType
    <2>7. Editor!UploadsAreOwn'
        BY <1>1, <1>9, <1>12, <1>13, <2>1, <2>3, <2>5, <2>6 DEF Editor!UploadsAreOwn, Editor!Uploading
    <2>8. Editor!SavesAreOwn'
        BY <1>1, <2>2 DEF Editor!SavesAreOwn
    <2>9. Editor!FilesAreStored'
        <3>1. \A g \in Editor!FilesOf(1) : g = f \/ uploads'[g] = uploads[g]
            BY <1>2, <1>12 DEF Editor!FilesOf, Editor!TypeOK
        <3> QED BY <1>1, <1>14, <2>1, <2>3, <3>1 DEF Editor!FilesAreStored
    <2> QED BY <2>4, <2>7, <2>8, <2>9 DEF Editor!ListIsWanted
<1>18. Editor!SentAsWanted' /\ Editor!HasItsFiles'
    BY <1>1, <1>14 DEF Editor!SentAsWanted, Editor!HasItsFiles, Editor!Inductive
<1> QED BY <1>12, <1>15, <1>16, <1>17, <1>18 DEF Editor!Inductive

\* A chip goes; the attachment stays where it is.
LEMMA RemoveChipStep ==
    ASSUME Editor!Inductive, NEW f \in TabFile, Editor!RemoveChip(f)
    PROVE  Editor!Inductive'
<1>1. /\ f \in editor.attachmentList
      /\ UNCHANGED <<memoName, memos, owner, storedMemo, contentCache, uploads, saves, draftSpent>>
    BY DEF Editor!RemoveChip
<1>2. /\ Editor!TypeOK /\ Editor!OneMode /\ Editor!OneSave
      /\ Editor!NotYetListed /\ Editor!FilesApart
    BY DEF Editor!Inductive
<1>3. /\ editor' \in Editor!EditorType /\ editor'.attachmentList = editor.attachmentList \ {f}
      /\ UNCHANGED <<editor.instance, editor.text, editor.isRequesting, editor.isUploadingAttachment,
                     editor.uploadingFlag>>
    BY <1>2 DEF Editor!RemoveChip, Editor!TypeOK, Editor!EditorType
<1>4. Editor!IsOpen
    <2>1. Editor!Closed.attachmentList = {}
        BY DEF Editor!Closed
    <2> QED BY <1>1, <1>2, <2>1 DEF Editor!OneSave
<1>5. /\ draftNotes' \in Editor!NotesType
      /\ draftNotes'.filesAtRisk = (draftNotes.filesAtRisk \/ f \in Editor!FilesOf(1) \ storedMemo.attachments)
      /\ draftNotes'.wanted = draftNotes.wanted \ {f}
      /\ UNCHANGED <<draftNotes.typed, draftNotes.ever, draftNotes.failed, draftNotes.textAtRisk,
                     draftNotes.twice>>
    BY <1>2 DEF Editor!RemoveChip, Editor!TypeOK, Editor!NotesType
<1>6. Editor!Uploading' = Editor!Uploading /\ \A i : Editor!FilesOf(i)' = Editor!FilesOf(i)
    BY <1>1 DEF Editor!Uploading, Editor!FilesOf
<1>7. Editor!TypeOK'
    BY <1>1, <1>2, <1>3, <1>5 DEF Editor!TypeOK
<1>8. Editor!OneMode' /\ Editor!OneSave'
    BY <1>1, <1>2, <1>3, <1>4, <1>6 DEF Editor!OneMode, Editor!OneSave, Editor!IsOpen
<1>9. Editor!TextOnItsWay' /\ Editor!TypedOnce' /\ Editor!SentOnce'
    BY <1>1, <1>3, <1>5, TextsKept DEF Editor!Inductive
<1>10. Editor!NotYetListed'
    BY <1>1, <1>2, <1>3 DEF Editor!NotYetListed
<1>11. Editor!FilesApart'
    BY <1>1, <1>2, <1>3, <1>6 DEF Editor!FilesApart
<1>12. Editor!ListIsWanted'
    <2> SUFFICES ASSUME ~draftNotes.filesAtRisk, f \notin Editor!FilesOf(1) \ storedMemo.attachments
                 PROVE  Editor!ListIsWanted'
        BY <1>5 DEF Editor!ListIsWanted
    <2>1. Editor!ChosenIsListed /\ Editor!UploadsAreOwn /\ Editor!SavesAreOwn /\ Editor!FilesAreStored
        BY <1>4 DEF Editor!ListIsWanted, Editor!Inductive
    <2>2. f \notin Editor!Uploading
        BY <1>1, <2>1 DEF Editor!UploadsAreOwn
    <2>3. Editor!ChosenIsListed'
        BY <1>3, <1>5, <1>6, <2>1, <2>2 DEF Editor!ChosenIsListed
    <2>4. Editor!UploadsAreOwn'
        BY <1>1, <1>3, <1>6, <2>1 DEF Editor!UploadsAreOwn
    <2>5. Editor!SavesAreOwn'
        BY <1>1, <1>3, <1>5, <1>6, <2>1 DEF Editor!SavesAreOwn
    <2>6. Editor!FilesAreStored'
        BY <1>1, <1>3, <1>6, <2>1 DEF Editor!FilesAreStored
    <2> QED BY <2>3, <2>4, <2>5, <2>6 DEF Editor!ListIsWanted
<1>13. Editor!SentAsWanted' /\ Editor!HasItsFiles'
    BY <1>1, <1>6 DEF Editor!SentAsWanted, Editor!HasItsFiles, Editor!Inductive
<1> QED BY <1>7, <1>8, <1>9, <1>10, <1>11, <1>12, <1>13 DEF Editor!Inductive

\* What the proofs need of a closed editor, of saves and of a place for new memos.
LEMMA ClosedIs ==
    /\ Editor!Closed \in Editor!EditorType /\ Editor!Closed.instance = 0
    /\ Editor!Closed.attachmentList = {} /\ ~Editor!Closed.isRequesting
BY DEF Editor!Closed, Editor!EditorType, Editor!Contents

\* A closed editor has no text.
LEMMA ClosedText == Editor!Closed.text = "" /\ Editor!Closed.text \in Editor!Contents
BY DEF Editor!Closed, Editor!Contents

\* What a save under way looks like.
LEMMA SaveIs ==
    ASSUME Editor!TypeOK
    PROVE  \A s \in saves : Editor!IsSave(s) /\ s.instance \in Nat /\ s.instance # 0
<1>1. \A s \in saves : Editor!IsSave(s)
    BY DEF Editor!TypeOK
<1> QED BY <1>1 DEF Editor!IsSave

\* Where new memos are written there is no stored one.
LEMMA StoredOfNew ==
    ASSUME Editor!OneMode, memoName = 0
    PROVE  storedMemo.content = "" /\ storedMemo.attachments = {}
<1>1. storedMemo = [content |-> "", attachments |-> {}]
    BY DEF Editor!OneMode
<1> QED BY <1>1

\* What the end of a save or of an editor keeps: all but what the text and the chosen files need.
LEMMA EditorEnds ==
    ASSUME Editor!Inductive, UNCHANGED <<memoName, memos, owner, uploads>>,
           saves' \subseteq saves, contentCache' \in {contentCache, Editor!Closed.text},
           editor' \in Editor!EditorType, editor'.instance \in {editor.instance, 0},
           editor'.instance = 0 => editor' = Editor!Closed,
           editor'.text \in {editor.text, Editor!Closed.text}, editor'.attachmentList \subseteq editor.attachmentList,
           \A s \in saves' : s.instance = editor'.instance => editor'.isRequesting,
           storedMemo' \in Editor!StoredType, memoName = 0 => storedMemo' = storedMemo,
           \A f \in TabFile : uploads[f].at \in {"none", "asked", "created", "attach"} =>
                                 f \notin storedMemo'.attachments,
           draftSpent' \in [turns : Nat \ {0}, faults : Nat], draftSpent.turns <= draftSpent'.turns,
           draftNotes' \in Editor!NotesType, draftNotes'.ever = draftNotes.ever
    PROVE  /\ Editor!TypeOK' /\ Editor!OneMode' /\ Editor!OneSave' /\ Editor!TypedOnce'
           /\ Editor!NotYetListed' /\ Editor!FilesApart' /\ Editor!SentAsWanted' /\ Editor!HasItsFiles'
           /\ Editor!Uploading' = Editor!Uploading
<1>1. /\ Editor!TypeOK /\ Editor!OneMode /\ Editor!OneSave /\ Editor!TypedOnce
      /\ Editor!NotYetListed /\ Editor!FilesApart /\ Editor!SentAsWanted /\ Editor!HasItsFiles
    BY DEF Editor!Inductive
<1>2. Editor!Uploading' = Editor!Uploading /\ \A i : Editor!FilesOf(i)' = Editor!FilesOf(i)
    BY DEF Editor!Uploading, Editor!FilesOf
<1>3. Editor!TypeOK'
    <2>1. contentCache' \in Editor!Contents
        BY <1>1, ClosedText DEF Editor!TypeOK
    <2> QED BY <1>1, <2>1 DEF Editor!TypeOK, Editor!IsSave
<1>4. Editor!OneMode'
    BY <1>1 DEF Editor!OneMode
<1>5. Editor!OneSave'
    <2>1. draftSpent.turns \in Nat /\ draftSpent'.turns \in Nat /\ editor.instance \in Nat
        BY <1>1 DEF Editor!TypeOK, Editor!EditorType
    <2>2. \A s \in saves : s.instance \in Nat
        BY <1>1 DEF Editor!TypeOK, Editor!IsSave
    <2>3. /\ editor.instance <= draftSpent.turns
          /\ \A s \in saves : s.instance <= draftSpent.turns
          /\ \A f \in Editor!Uploading : uploads[f].instance \in 1 .. draftSpent.turns /\ uploads[f].by # "none"
        BY <1>1 DEF Editor!OneSave
    <2>4. editor'.instance <= draftSpent'.turns /\ (~Editor!IsOpen' => editor' = Editor!Closed)
        BY <2>1, <2>3 DEF Editor!IsOpen
    <2>5. \A s \in saves' : s.instance <= draftSpent'.turns
        BY <2>1, <2>2, <2>3
    <2>6. \A f \in Editor!Uploading' :
            uploads'[f].instance \in 1 .. draftSpent'.turns /\ uploads'[f].by # "none"
        BY <1>2, <2>1, <2>3
    <2>7. \A s, t \in saves' : s.instance = t.instance => s = t
        BY <1>1 DEF Editor!OneSave
    <2> QED BY <2>4, <2>5, <2>6, <2>7 DEF Editor!OneSave
<1>6. Editor!TypedOnce'
    BY <1>1, ClosedText, Zenon DEF Editor!TypedOnce
<1>7. Editor!NotYetListed'
    BY <1>1 DEF Editor!NotYetListed
<1>8. Editor!FilesApart'
    <2> SUFFICES ASSUME memoName = 0
                 PROVE  Editor!FilesApart'
        BY DEF Editor!FilesApart
    <2>1. CASE editor'.instance = 0
        <3>1. editor'.attachmentList = {}
            BY <2>1, ClosedIs
        <3>2. \A f \in Editor!Uploading : uploads[f].instance # 0
            BY <1>1, UploadUnderWay DEF Editor!Uploading
        <3> QED BY <1>1, <1>2, <2>1, <3>1, <3>2 DEF Editor!FilesApart
    <2>2. CASE editor'.instance = editor.instance
        BY <1>1, <1>2, <2>2 DEF Editor!FilesApart
    <2> QED BY <2>1, <2>2
<1>9. Editor!SentAsWanted' /\ Editor!HasItsFiles'
    BY <1>1, <1>2 DEF Editor!SentAsWanted, Editor!HasItsFiles
<1> QED BY <1>2, <1>3, <1>4, <1>5, <1>6, <1>7, <1>8, <1>9

\* The editor is cancelled: nothing of it is left to be saved.
LEMMA CancelStep ==
    ASSUME Editor!Inductive, Editor!Cancel
    PROVE  Editor!Inductive'
<1>1. /\ Editor!IsOpen /\ ~editor.isRequesting /\ editor' = Editor!Closed
      /\ UNCHANGED <<memoName, memos, owner, storedMemo, uploads, saves, draftSpent>>
    BY DEF Editor!Cancel
<1>2. Editor!TypeOK /\ Editor!NotYetListed /\ Editor!OneSave /\ Editor!SentOnce
    BY DEF Editor!Inductive
<1>3. /\ draftNotes' \in Editor!NotesType /\ draftNotes'.typed = ""
      /\ draftNotes'.ever = draftNotes.ever /\ draftNotes'.twice = draftNotes.twice
    <2>1. draftNotes' = [draftNotes EXCEPT !.typed = ""] /\ "" \in Editor!Contents
        BY DEF Editor!Cancel, Editor!Contents
    <2> QED BY <1>2, <2>1 DEF Editor!TypeOK, Editor!NotesType
<1>4. draftNotes' \in Editor!NotesType /\ draftNotes'.ever = draftNotes.ever
    BY <1>3
<1>5. \A s \in saves' : s.instance = editor'.instance => editor'.isRequesting
    BY <1>1, <1>2, ClosedIs, SaveIs
<1>6. /\ Editor!TypeOK' /\ Editor!OneMode' /\ Editor!OneSave' /\ Editor!TypedOnce'
      /\ Editor!NotYetListed' /\ Editor!FilesApart' /\ Editor!SentAsWanted' /\ Editor!HasItsFiles'
    <2>1. /\ storedMemo \in Editor!StoredType /\ draftSpent \in [turns : Nat \ {0}, faults : Nat]
          /\ draftSpent.turns <= draftSpent.turns
        BY <1>2 DEF Editor!TypeOK
    <2>2. editor'.instance = 0 /\ editor'.text = Editor!Closed.text
        BY <1>1, ClosedIs
    <2>3. contentCache' \in {contentCache, Editor!Closed.text}
        BY ClosedText DEF Editor!Cancel
    <2>4. \A f \in TabFile : uploads[f].at \in {"none", "asked", "created", "attach"} =>
                                 f \notin storedMemo.attachments
        BY <1>2 DEF Editor!NotYetListed
    <2> QED BY <1>1, <1>5, <1>4, <2>1, <2>4, <2>2, <2>3, ClosedIs, EditorEnds
<1>7. Editor!TextOnItsWay' /\ Editor!SentOnce'
    <2>1. draftNotes'.typed = ""
        BY <1>3
    <2>2. Editor!TextOnItsWay'
        BY <2>1 DEF Editor!TextOnItsWay
    <2>3. \A t : Editor!IsSaved(t)' <=> Editor!IsSaved(t)
        BY <1>1 DEF Editor!IsSaved
    <2>4. editor'.text = "" /\ contentCache' = ""
        BY <1>1, ClosedText DEF Editor!Cancel
    <2>5. \A s \in saves : s.instance # editor.instance
        BY <1>1, <1>2 DEF Editor!OneSave
    <2>6. Editor!SentOnce'
        BY <1>1, <1>2, <1>3, <2>3, <2>4, <2>5 DEF Editor!SentOnce, Editor!SavedOnce
    <2> QED BY <2>2, <2>6
<1>8. Editor!ListIsWanted'
    BY <1>1, ClosedIs DEF Editor!ListIsWanted, Editor!IsOpen
<1> QED BY <1>6, <1>8, <1>7 DEF Editor!Inductive

\* The page is left: what is typed is in the draft, and what is being saved may be saved twice.
LEMMA LeaveStep ==
    ASSUME Editor!Inductive, Editor!Leave
    PROVE  Editor!Inductive'
<1>1. /\ Editor!IsOpen /\ editor' = Editor!Closed
      /\ UNCHANGED <<memoName, memos, owner, storedMemo, contentCache, uploads, saves, draftSpent>>
    BY DEF Editor!Leave
<1>2. Editor!TypeOK /\ Editor!NotYetListed /\ Editor!TextOnItsWay /\ Editor!SentOnce
    BY DEF Editor!Inductive
<1>3. /\ draftNotes' \in Editor!NotesType
      /\ draftNotes'.textAtRisk = (draftNotes.textAtRisk \/ draftNotes.failed)
      /\ draftNotes'.twice = draftNotes.twice \cup {s.content : s \in saves}
      /\ UNCHANGED <<draftNotes.typed, draftNotes.ever, draftNotes.failed>>
    <2>1. {s.content : s \in saves} \subseteq Editor!Contents
        BY <1>2, SaveIs DEF Editor!IsSave
    <2> QED BY <1>2, <2>1 DEF Editor!Leave, Editor!TypeOK, Editor!NotesType
<1>4. \A s \in saves' : s.instance = editor'.instance => editor'.isRequesting
    BY <1>1, <1>2, ClosedIs, SaveIs
<1>5. /\ Editor!TypeOK' /\ Editor!OneMode' /\ Editor!OneSave' /\ Editor!TypedOnce'
      /\ Editor!NotYetListed' /\ Editor!FilesApart' /\ Editor!SentAsWanted' /\ Editor!HasItsFiles'
    <2>1. /\ storedMemo \in Editor!StoredType /\ draftSpent \in [turns : Nat \ {0}, faults : Nat]
          /\ draftSpent.turns <= draftSpent.turns
        BY <1>2 DEF Editor!TypeOK
    <2>2. editor'.instance = 0 /\ editor'.text = Editor!Closed.text
        BY <1>1, ClosedIs
    <2>3. contentCache' \in {contentCache, Editor!Closed.text}
        BY ClosedText DEF Editor!Leave
    <2>4. \A f \in TabFile : uploads[f].at \in {"none", "asked", "created", "attach"} =>
                                 f \notin storedMemo.attachments
        BY <1>2 DEF Editor!NotYetListed
    <2> QED BY <1>1, <1>3, <1>4, <2>1, <2>4, <2>2, <2>3, ClosedIs, EditorEnds
<1>6. (\A t : Editor!IsSaved(t)' <=> Editor!IsSaved(t)) /\ ~Editor!IsOpen'
    BY <1>1, ClosedIs DEF Editor!IsSaved, Editor!IsOpen
<1>7. Editor!TextOnItsWay'
    BY <1>1, <1>2, <1>3, <1>6 DEF Editor!TextOnItsWay
<1>8. Editor!SentOnce'
    <2>1. editor'.text = ""
        BY <1>1, ClosedText
    <2>2. \A s \in saves : s.content \in draftNotes'.twice
        BY <1>3
    <2>3. draftNotes.twice \subseteq draftNotes'.twice
        BY <1>3
    <2> QED BY <1>1, <1>2, <1>6, <2>1, <2>2, <2>3 DEF Editor!SentOnce, Editor!SavedOnce
<1>9. Editor!ListIsWanted'
    BY <1>6 DEF Editor!ListIsWanted
<1> QED BY <1>5, <1>7, <1>8, <1>9 DEF Editor!Inductive

\* The editor is mounted: it shows the draft, else what is stored.
LEMMA OpenStep ==
    ASSUME Editor!Inductive, Editor!Open
    PROVE  Editor!Inductive'
<1>1. /\ ~Editor!IsOpen /\ contentCache' = editor'.text
      /\ UNCHANGED <<memoName, memos, owner, storedMemo, uploads, saves>>
    BY DEF Editor!Open
<1>2. /\ Editor!TypeOK /\ Editor!OneMode /\ Editor!OneSave /\ Editor!NotYetListed /\ Editor!FilesApart
      /\ Editor!TextOnItsWay /\ Editor!TypedOnce /\ Editor!SentOnce
    BY DEF Editor!Inductive
<1>3. /\ draftSpent.turns \in Nat /\ draftSpent' \in [turns : Nat \ {0}, faults : Nat]
      /\ draftSpent'.turns = draftSpent.turns + 1
    BY <1>2 DEF Editor!Open, Editor!Spend, Editor!TypeOK
<1>4. PICK n \in Nat \ {0} : n = draftSpent.turns + 1
    BY <1>3
<1>5. PICK text \in Editor!Contents : text = IF contentCache = "" THEN storedMemo.content ELSE contentCache
    BY <1>2 DEF Editor!TypeOK, Editor!StoredType
<1>6. PICK list \in SUBSET TabFile : list = storedMemo.attachments
    BY <1>2 DEF Editor!TypeOK, Editor!StoredType
<1>7. editor' = [instance |-> n, text |-> text, attachmentList |-> list, isRequesting |-> FALSE,
                 isUploadingAttachment |-> FALSE, uploadingFlag |-> FALSE]
    BY <1>4, <1>5, <1>6 DEF Editor!Open, Editor!Mounted, Editor!Closed
<1>8. /\ editor' \in Editor!EditorType /\ editor'.instance = draftSpent'.turns /\ editor'.text = text
      /\ editor'.attachmentList = list /\ Editor!IsOpen'
    BY <1>3, <1>4, <1>7 DEF Editor!EditorType, Editor!IsOpen
<1>9. /\ draftNotes' \in Editor!NotesType /\ draftNotes'.wanted = list
      /\ draftNotes'.filesAtRisk = (saves # {} \/ Editor!Uploading # {}
                                      \/ (memoName = 1 /\ Editor!FilesOf(1) # storedMemo.attachments))
      /\ UNCHANGED <<draftNotes.typed, draftNotes.ever, draftNotes.failed, draftNotes.textAtRisk,
                     draftNotes.twice>>
    BY <1>2, <1>6 DEF Editor!Open, Editor!TypeOK, Editor!NotesType
<1>10. /\ Editor!Uploading' = Editor!Uploading /\ \A i : Editor!FilesOf(i)' = Editor!FilesOf(i)
       /\ \A t : Editor!IsSaved(t)' <=> Editor!IsSaved(t)
    BY <1>1 DEF Editor!Uploading, Editor!FilesOf, Editor!IsSaved
<1>11. \A s \in saves : s.instance # 0 /\ s.instance # editor'.instance /\ s.instance <= draftSpent'.turns
    BY <1>2, <1>3, <1>8, SaveIs DEF Editor!OneSave
<1>12. \A f \in Editor!Uploading :
         /\ uploads[f].instance \in 1 .. draftSpent'.turns
         /\ uploads[f].instance # editor'.instance
    BY <1>2, <1>3, <1>8 DEF Editor!OneSave
<1>13. Editor!TypeOK'
    BY <1>1, <1>2, <1>3, <1>5, <1>8, <1>9 DEF Editor!TypeOK
<1>14. Editor!OneMode'
    BY <1>1, <1>2 DEF Editor!OneMode
<1>15. Editor!OneSave'
    BY <1>1, <1>2, <1>3, <1>8, <1>10, <1>11, <1>12 DEF Editor!OneSave
<1>16. Editor!TextOnItsWay'
    BY <1>1, <1>2, <1>5, <1>8, <1>9, <1>10 DEF Editor!TextOnItsWay
<1>17. Editor!TypedOnce'
    BY <1>1, <1>2, <1>5, <1>8, <1>9, StoredOfNew DEF Editor!TypedOnce
<1>18. Editor!SentOnce'
    <2> SUFFICES ASSUME memoName = 0
                 PROVE  Editor!SentOnce'
        BY <1>1 DEF Editor!SentOnce
    <2>1. text \in {"", contentCache}
        BY <1>2, <1>5, StoredOfNew
    <2>2. \A s \in saves : s.content \in {""} \cup draftNotes.twice
        BY <1>1, <1>2, <1>11 DEF Editor!SentOnce, Editor!IsOpen
    <2> QED BY <1>1, <1>2, <1>8, <1>9, <1>10, <2>1, <2>2 DEF Editor!SentOnce, Editor!SavedOnce
<1>19. Editor!NotYetListed'
    BY <1>1, <1>2, <1>6, <1>8 DEF Editor!NotYetListed
<1>20. Editor!FilesApart'
    <2> SUFFICES ASSUME memoName = 0
                 PROVE  Editor!FilesApart'
        BY <1>1 DEF Editor!FilesApart
    <2>1. list = {}
        BY <1>2, <1>6, StoredOfNew
    <2> QED BY <1>1, <1>2, <1>8, <1>10, <1>12, <2>1 DEF Editor!FilesApart
<1>21. Editor!ListIsWanted'
    <2> SUFFICES ASSUME saves = {}, Editor!Uploading = {},
                        memoName = 1 => Editor!FilesOf(1) = storedMemo.attachments
                 PROVE  Editor!ListIsWanted'
        BY <1>9 DEF Editor!ListIsWanted
    <2>1. Editor!ChosenIsListed' /\ Editor!UploadsAreOwn' /\ Editor!SavesAreOwn'
        BY <1>1, <1>8, <1>9, <1>10 DEF Editor!ChosenIsListed, Editor!UploadsAreOwn, Editor!SavesAreOwn
    <2>2. memoName = 0 => list = {}
        BY <1>2, <1>6, StoredOfNew
    <2>3. Editor!FilesAreStored'
        BY <1>1, <1>8, <1>10, <2>2 DEF Editor!FilesAreStored
    <2> QED BY <2>1, <2>3 DEF Editor!ListIsWanted
<1>22. Editor!SentAsWanted' /\ Editor!HasItsFiles'
    BY <1>1, <1>10 DEF Editor!SentAsWanted, Editor!HasItsFiles, Editor!Inductive
<1> QED BY <1>13, <1>14, <1>15, <1>16, <1>17, <1>18, <1>19, <1>20, <1>21, <1>22 DEF Editor!Inductive

\* The tab is reloaded: nothing is under way, and the store holds what the server does.
LEMMA ReloadStep ==
    ASSUME Editor!Inductive, Editor!Reload
    PROVE  Editor!Inductive'
<1>1. /\ editor' = Editor!Closed /\ saves' = {}
      /\ uploads' = [f \in TabFile |-> IF f \in Editor!Uploading THEN Editor!Ended ELSE uploads[f]]
      /\ UNCHANGED <<memoName, memos, owner, contentCache>>
    BY DEF Editor!Reload
<1>2. /\ Editor!TypeOK /\ Editor!OneMode /\ Editor!OneSave /\ Editor!NotYetListed
      /\ Editor!TextOnItsWay /\ Editor!TypedOnce /\ Editor!SentOnce
    BY DEF Editor!Inductive
<1>3. /\ memoName = 0 => storedMemo' = storedMemo
      /\ memoName = 1 => /\ storedMemo'.content = memos[1].content
                         /\ storedMemo'.attachments = Editor!FilesOf(1)
      /\ storedMemo' \in Editor!StoredType
    <2>1. CASE memoName = 1
        <3>1. memos[1] \in Editor!MemoType /\ Editor!FilesOf(1) \in SUBSET TabFile
            BY <1>2, <2>1, MemosAre DEF Editor!TypeOK, Editor!FilesOf
        <3>2. storedMemo' = [content |-> memos[1].content, attachments |-> Editor!FilesOf(1)]
            BY <2>1 DEF Editor!Reload
        <3> QED BY <2>1, <3>1, <3>2 DEF Editor!MemoType, Editor!StoredType
    <2>2. CASE memoName # 1
        BY <1>2, <2>2 DEF Editor!Reload, Editor!TypeOK
    <2> QED BY <2>1, <2>2
<1>4. /\ draftNotes' \in Editor!NotesType
      /\ draftNotes'.textAtRisk = (draftNotes.textAtRisk \/ draftNotes.failed)
      /\ draftNotes'.twice = draftNotes.twice \cup {s.content : s \in saves}
      /\ UNCHANGED <<draftNotes.typed, draftNotes.ever, draftNotes.failed>>
    <2>1. {s.content : s \in saves} \subseteq Editor!Contents
        BY <1>2, SaveIs DEF Editor!IsSave
    <2> QED BY <1>2, <2>1 DEF Editor!Reload, Editor!TypeOK, Editor!NotesType
<1>5. draftSpent' \in [turns : Nat \ {0}, faults : Nat] /\ draftSpent'.turns = draftSpent.turns
    BY <1>2 DEF Editor!Reload, Editor!Spend, Editor!TypeOK
<1>6. \A f \in TabFile :
        /\ uploads'[f] \in Editor!UploadType
        /\ uploads'[f].at \in {"none", "ended"}
        /\ uploads'[f].at = "none" => uploads[f].at = "none"
        /\ uploads'[f].base \subseteq uploads[f].base
    BY <1>1, <1>2, EndedIs DEF Editor!Uploading, Editor!TypeOK
<1>7. Editor!Uploading' = {} /\ ~Editor!IsOpen'
    BY <1>1, <1>6, ClosedIs DEF Editor!Uploading, Editor!IsOpen
<1>8. (\A i : Editor!FilesOf(i)' = Editor!FilesOf(i)) /\ (\A t : Editor!IsSaved(t)' <=> Editor!IsSaved(t))
    BY <1>1 DEF Editor!FilesOf, Editor!IsSaved
<1>9. Editor!TypeOK'
    <2>1. uploads' \in [TabFile -> Editor!UploadType]
        BY <1>1, <1>6
    <2> QED BY <1>1, <1>2, <1>3, <1>4, <1>5, <2>1, ClosedIs DEF Editor!TypeOK
<1>10. Editor!OneMode'
    <2>1. \A f \in TabFile : uploads'[f].at \notin {"attach", "attached"}
        BY <1>6
    <2> QED BY <1>1, <1>2, <1>3, <2>1 DEF Editor!OneMode
<1>11. Editor!OneSave'
    BY <1>1, <1>2, <1>5, <1>7, ClosedIs DEF Editor!OneSave, Editor!TypeOK
<1>12. Editor!TextOnItsWay'
    <2>1. memoName = 1 => \A t : Editor!IsSaved(t) <=> memos[1].content = t
        BY <1>2, MemosAre DEF Editor!IsSaved
    <2> QED BY <1>1, <1>2, <1>3, <1>4, <1>7, <1>8, <2>1 DEF Editor!TextOnItsWay
<1>13. editor'.text = ""
    BY <1>1, ClosedText
<1>14. Editor!TypedOnce'
    BY <1>1, <1>2, <1>4, <1>13 DEF Editor!TypedOnce
<1>15. Editor!SentOnce'
    <2>1. \A s \in saves : s.content \in draftNotes'.twice
        BY <1>4
    <2>2. draftNotes.twice \subseteq draftNotes'.twice
        BY <1>4
    <2> QED BY <1>1, <1>2, <1>8, <1>13, <2>1, <2>2 DEF Editor!SentOnce, Editor!SavedOnce
<1>16. Editor!NotYetListed'
    <2>1. \A f \in TabFile : uploads[f].at = "none" => f \notin storedMemo'.attachments
        <3>1. \A f \in TabFile : uploads[f].at = "none" => f \notin Editor!FilesOf(1)
            BY <1>2 DEF Editor!NotYetListed, Editor!FilesOf
        <3>2. memoName \in {0, 1}
            BY <1>2 DEF Editor!TypeOK
        <3> QED BY <1>2, <1>3, <3>1, <3>2 DEF Editor!NotYetListed
    <2> QED BY <1>1, <1>2, <1>6, <2>1, ClosedIs DEF Editor!NotYetListed
<1>17. Editor!FilesApart' /\ Editor!ListIsWanted'
    BY <1>1, <1>7 DEF Editor!FilesApart, Editor!ListIsWanted
<1>18. Editor!SentAsWanted' /\ Editor!HasItsFiles'
    BY <1>1, <1>8 DEF Editor!SentAsWanted, Editor!HasItsFiles, Editor!Inductive
<1> QED BY <1>9, <1>10, <1>11, <1>12, <1>14, <1>15, <1>16, <1>17, <1>18 DEF Editor!Inductive

\* A save that fails leaves the text on screen, and in the draft no more.
LEMMA SaveFailsStep ==
    ASSUME Editor!Inductive, NEW s \in saves, Editor!SaveFails(s)
    PROVE  Editor!Inductive'
<1>1. /\ saves' = saves \ {s}
      /\ UNCHANGED <<memoName, memos, owner, storedMemo, uploads>>
    BY DEF Editor!SaveFails, Editor!EndSave
<1>2. /\ Editor!TypeOK /\ Editor!OneSave /\ Editor!NotYetListed
      /\ Editor!TextOnItsWay /\ Editor!SentOnce
    BY DEF Editor!Inductive
<1>3. PICK own \in BOOLEAN : own = (s.instance = editor.instance)
    OBVIOUS
<1>4. contentCache' = Editor!Closed.text
    BY ClosedText DEF Editor!SaveFails, Editor!EndSave
<1>5. /\ editor' \in Editor!EditorType /\ editor'.text = editor.text
      /\ editor'.instance = editor.instance
      /\ own => editor'.attachmentList = {} /\ ~editor'.isRequesting
      /\ ~own => editor' = editor
    <2>1. editor' = IF own THEN [editor EXCEPT !.text = editor.text, !.attachmentList = {},
                                               !.isRequesting = FALSE]
                    ELSE editor
        BY <1>3 DEF Editor!SaveFails, Editor!EndSave
    <2> QED BY <1>2, <2>1 DEF Editor!TypeOK, Editor!EditorType
<1>6. own => Editor!IsOpen
    BY <1>2, <1>3, SaveIs DEF Editor!IsOpen
<1>7. draftSpent' \in [turns : Nat \ {0}, faults : Nat] /\ draftSpent'.turns = draftSpent.turns
      /\ draftSpent.turns \in Nat
    BY <1>2 DEF Editor!SaveFails, Editor!Spend, Editor!TypeOK
<1>8. /\ draftNotes' \in Editor!NotesType /\ draftNotes'.failed /\ draftNotes'.filesAtRisk
      /\ draftNotes'.textAtRisk = (draftNotes.textAtRisk \/ ~own)
      /\ draftNotes'.twice = IF s.at = "sent" THEN draftNotes.twice ELSE draftNotes.twice \cup {s.content}
      /\ UNCHANGED <<draftNotes.typed, draftNotes.ever>>
    <2>1. s.content \in Editor!Contents
        BY <1>2, SaveIs DEF Editor!IsSave
    <2> QED BY <1>2, <1>3, <2>1 DEF Editor!SaveFails, Editor!TypeOK, Editor!NotesType
<1>9. /\ Editor!TypeOK' /\ Editor!OneMode' /\ Editor!OneSave' /\ Editor!TypedOnce'
      /\ Editor!NotYetListed' /\ Editor!FilesApart' /\ Editor!SentAsWanted' /\ Editor!HasItsFiles'
    <2>1. \A q \in saves' : q.instance = editor'.instance => editor'.isRequesting
        <3>1. /\ \A q, r \in saves : q.instance = r.instance => q = r
              /\ \A q \in saves : q.instance = editor.instance => editor.isRequesting
            BY <1>2 DEF Editor!OneSave
        <3>2. CASE own
            <4>1. s.instance = editor.instance
                BY <1>3, <3>2
            <4> QED BY <1>1, <1>5, <3>1, <4>1
        <3>3. CASE ~own
            BY <1>1, <1>5, <3>1, <3>3
        <3> QED BY <3>2, <3>3
    <2>2. /\ storedMemo \in Editor!StoredType
          /\ \A f \in TabFile : uploads[f].at \in {"none", "asked", "created", "attach"} =>
                                 f \notin storedMemo.attachments
        BY <1>2 DEF Editor!TypeOK, Editor!NotYetListed
    <2>3. editor'.instance = 0 => editor' = Editor!Closed
        BY <1>2, <1>5, <1>6 DEF Editor!OneSave, Editor!IsOpen
    <2>4. draftSpent.turns <= draftSpent'.turns
        BY <1>7
    <2> QED BY <1>1, <1>4, <1>5, <1>7, <1>8, <2>1, <2>2, <2>3, <2>4, EditorEnds
<1>10. /\ \A t : Editor!IsSaved(t)' <=> Editor!IsSaved(t)
       /\ Editor!IsOpen' <=> Editor!IsOpen
    BY <1>1, <1>5 DEF Editor!IsSaved, Editor!IsOpen
<1>11. contentCache' = ""
    BY <1>4, ClosedText
<1>12. Editor!TextOnItsWay'
    BY <1>1, <1>2, <1>5, <1>6, <1>8, <1>10, <1>11 DEF Editor!TextOnItsWay
<1>13. Editor!SentOnce'
    <2> SUFFICES ASSUME memoName = 0
                 PROVE  Editor!SentOnce'
        BY <1>1 DEF Editor!SentOnce
    <2>1. Editor!SavedOnce'
        BY <1>1, <1>2, <1>8 DEF Editor!SentOnce, Editor!SavedOnce
    <2>2. draftNotes.twice \subseteq draftNotes'.twice
        BY <1>8
    <2>3. \A q \in saves' : q.content \notin {""} \cup draftNotes'.twice =>
            q.instance = editor'.instance /\ (q.at = "sent" => ~Editor!IsSaved(q.content)')
        BY <1>1, <1>2, <1>5, <1>10, <2>2 DEF Editor!SentOnce
    <2>4. ASSUME editor.text \notin {""} \cup draftNotes'.twice, Editor!IsSaved(editor.text)
          PROVE  \E q \in saves' : q.content = editor.text
        <3>1. PICK q \in saves : q.content = editor.text
            BY <1>2, <2>2, <2>4 DEF Editor!SentOnce
        <3>2. q.at # "sent"
            BY <1>2, <2>2, <2>4, <3>1 DEF Editor!SentOnce
        <3>3. q # s
            BY <1>8, <2>4, <3>1, <3>2
        <3> QED BY <1>1, <3>1, <3>3
    <2> QED BY <1>1, <1>5, <1>10, <1>11, <2>1, <2>3, <2>4 DEF Editor!SentOnce
<1>14. Editor!ListIsWanted'
    BY <1>8 DEF Editor!ListIsWanted
<1> QED BY <1>9, <1>12, <1>13, <1>14 DEF Editor!Inductive

\* A save is over: its text is saved, and cleared where it was written.
LEMMA SavedStep ==
    ASSUME Editor!Inductive, NEW s \in saves, Editor!Saved(s)
    PROVE  Editor!Inductive'
<1>1. /\ s.at = "served" /\ saves' = saves \ {s}
      /\ UNCHANGED <<memoName, memos, owner, uploads, draftSpent>>
    BY DEF Editor!Saved, Editor!EndSave
<1>2. /\ Editor!TypeOK /\ Editor!OneSave /\ Editor!NotYetListed
      /\ Editor!TextOnItsWay /\ Editor!SentOnce
    BY DEF Editor!Inductive
<1>3. PICK own \in BOOLEAN : own = (s.instance = editor.instance)
    OBVIOUS
<1>4. contentCache' = Editor!Closed.text
    BY ClosedText DEF Editor!Saved, Editor!EndSave
<1>5. PICK blank \in Editor!Contents : blank = Editor!Closed.text
    BY ClosedText
<1>6. editor' = IF ~own THEN editor
                ELSE IF memoName = 1 THEN Editor!Closed
                ELSE [editor EXCEPT !.text = blank, !.attachmentList = {}, !.isRequesting = FALSE]
    BY <1>3, <1>5, ClosedText DEF Editor!Saved, Editor!EndSave
<1>7. /\ editor' \in Editor!EditorType
      /\ ~own => editor' = editor
      /\ own /\ memoName = 1 => editor' = Editor!Closed
      /\ own => editor'.attachmentList = {} /\ ~editor'.isRequesting /\ editor'.text = Editor!Closed.text
      /\ own /\ memoName # 1 => editor'.instance = editor.instance
    BY <1>2, <1>5, <1>6, ClosedIs DEF Editor!TypeOK, Editor!EditorType
<1>8. own => Editor!IsOpen
    BY <1>2, <1>3, SaveIs DEF Editor!IsOpen
<1>9. /\ \A q, r \in saves : q.instance = r.instance => q = r
      /\ \A q \in saves : q.instance = editor.instance => editor.isRequesting
      /\ \A q \in saves : q.instance # 0
    BY <1>2, SaveIs DEF Editor!OneSave
<1>10. /\ draftNotes' \in Editor!NotesType
       /\ ~own => draftNotes' = draftNotes
       /\ own => draftNotes'.wanted = draftNotes.wanted \ s.wanted
       /\ UNCHANGED <<draftNotes.typed, draftNotes.ever, draftNotes.failed, draftNotes.textAtRisk,
                      draftNotes.filesAtRisk, draftNotes.twice>>
    <2>1. draftNotes' = IF own THEN [draftNotes EXCEPT !.wanted = @ \ s.wanted] ELSE draftNotes
        BY <1>3 DEF Editor!Saved
    <2> QED BY <1>2, <2>1 DEF Editor!TypeOK, Editor!NotesType
<1>11. /\ storedMemo' \in Editor!StoredType
       /\ memoName = 0 => storedMemo' = storedMemo
       /\ memoName = 1 => storedMemo' = s.answer[1]
       /\ \A f \in TabFile : uploads[f].at \in {"none", "asked", "created", "attach"} =>
                                f \notin storedMemo'.attachments
    <2>1. s.answer[1] \in Editor!StoredType
        BY <1>1, <1>2, SaveIs DEF Editor!IsSave
    <2>2. storedMemo' = IF memoName = 1 THEN s.answer[1] ELSE storedMemo
        BY DEF Editor!Saved
    <2> QED BY <1>1, <1>2, <2>1, <2>2 DEF Editor!TypeOK, Editor!NotYetListed
<1>12. /\ Editor!TypeOK' /\ Editor!OneMode' /\ Editor!OneSave' /\ Editor!TypedOnce'
       /\ Editor!NotYetListed' /\ Editor!FilesApart' /\ Editor!SentAsWanted' /\ Editor!HasItsFiles'
       /\ Editor!Uploading' = Editor!Uploading
    <2>1. \A q \in saves' : q.instance = editor'.instance => editor'.isRequesting
        <3>1. CASE own
            <4>1. s.instance = editor.instance
                BY <1>3, <3>1
            <4>2. editor'.instance \in {editor.instance, 0}
                BY <1>7, <3>1, ClosedIs
            <4> QED BY <1>1, <1>9, <4>1, <4>2
        <3>2. CASE ~own
            BY <1>1, <1>7, <1>9, <3>2
        <3> QED BY <3>1, <3>2
    <2>2. /\ editor'.instance \in {editor.instance, 0}
          /\ editor'.instance = 0 => editor' = Editor!Closed
          /\ editor'.text \in {editor.text, Editor!Closed.text}
          /\ editor'.attachmentList \subseteq editor.attachmentList
        BY <1>2, <1>7, <1>8, ClosedIs DEF Editor!OneSave, Editor!IsOpen
    <2>3. /\ draftSpent' \in [turns : Nat \ {0}, faults : Nat] /\ draftSpent.turns <= draftSpent'.turns
        BY <1>1, <1>2 DEF Editor!TypeOK
    <2> QED BY <1>1, <1>4, <1>7, <1>10, <1>11, <2>1, <2>2, <2>3, EditorEnds
<1>13. /\ \A t : Editor!IsSaved(t)' <=> Editor!IsSaved(t)
       /\ \A i : Editor!FilesOf(i)' = Editor!FilesOf(i)
       /\ Editor!IsOpen' => Editor!IsOpen /\ (~own \/ memoName # 1)
    BY <1>1, <1>7, ClosedIs DEF Editor!IsSaved, Editor!FilesOf, Editor!IsOpen
<1>14. contentCache' = "" /\ (own => editor'.text = "") /\ memoName \in {0, 1}
    BY <1>2, <1>4, <1>7, ClosedText DEF Editor!TypeOK
<1>15. Editor!TextOnItsWay'
    <2> DEFINE t == draftNotes.typed
    <2> SUFFICES ASSUME t # "", ~draftNotes.textAtRisk, ~(memoName = 0 /\ Editor!IsSaved(t))
                 PROVE  Editor!TextOnItsWay'
        BY <1>1, <1>10, <1>13 DEF Editor!TextOnItsWay
    <2>1. /\ Editor!IsOpen => editor.text = t
          /\ \A q \in saves : /\ q.content = t
                              /\ q.at = "served" \/ "content" \notin q.mask => Editor!IsSaved(t)
                              /\ q.at = "served" /\ memoName = 1 => q.answer[1].content = t
        BY <1>2 DEF Editor!TextOnItsWay
    <2>2. Editor!IsSaved(t) /\ memoName = 1 /\ s.answer[1].content = t
        BY <1>1, <1>14, <2>1
    <2>3. memoName' = 1 /\ storedMemo'.content = t /\ Editor!IsSaved(t)' /\ draftNotes'.typed = t
        BY <1>1, <1>10, <1>11, <1>13, <2>2
    <2>4. Editor!IsOpen' => editor'.text = t
        BY <1>7, <1>13, <2>1, <2>2
    <2> QED BY <1>1, <1>14, <2>1, <2>3, <2>4 DEF Editor!TextOnItsWay
<1>16. Editor!SentOnce'
    <2> SUFFICES ASSUME memoName = 0
                 PROVE  Editor!SentOnce'
        BY <1>1 DEF Editor!SentOnce
    <2>1. editor'.instance = editor.instance
        BY <1>7
    <2>2. \A q \in saves' : q.content \notin {""} \cup draftNotes.twice =>
            q.instance = editor'.instance /\ (q.at = "sent" => ~Editor!IsSaved(q.content)')
        BY <1>1, <1>2, <1>13, <2>1 DEF Editor!SentOnce
    <2>3. ASSUME ~own, editor.text \notin {""} \cup draftNotes.twice, Editor!IsSaved(editor.text)
          PROVE  \E q \in saves' : q.content = editor.text
        <3>1. PICK q \in saves : q.content = editor.text
            BY <1>2, <2>3 DEF Editor!SentOnce
        <3>2. q.instance = editor.instance
            BY <1>2, <2>3, <3>1 DEF Editor!SentOnce
        <3>3. q # s
            BY <1>3, <2>3, <3>2
        <3> QED BY <1>1, <3>1, <3>3
    <2>4. Editor!SavedOnce'
        BY <1>1, <1>2, <1>10 DEF Editor!SentOnce, Editor!SavedOnce
    <2>5. ~own => editor'.text = editor.text
        BY <1>7
    <2> QED BY <1>1, <1>10, <1>13, <1>14, <2>2, <2>3, <2>4, <2>5 DEF Editor!SentOnce
<1>17. Editor!ListIsWanted'
    <2> SUFFICES ASSUME Editor!IsOpen', ~draftNotes.filesAtRisk
                 PROVE  Editor!ListIsWanted'
        BY <1>10 DEF Editor!ListIsWanted
    <2>1. Editor!ChosenIsListed /\ Editor!SavesAreOwn
        BY <1>13 DEF Editor!ListIsWanted, Editor!Inductive
    <2>2. own /\ Editor!Uploading = {} /\ draftNotes.wanted \subseteq s.wanted
        BY <1>3, <2>1 DEF Editor!SavesAreOwn
    <2>3. saves' = {}
        BY <1>1, <1>9, <2>1, <2>2 DEF Editor!SavesAreOwn
    <2>4. memoName = 0 /\ memoName' = 0
        BY <1>1, <1>13, <1>14, <2>2
    <2>5. editor'.attachmentList = {} /\ draftNotes'.wanted = {} /\ Editor!Uploading' = {}
        BY <1>7, <1>10, <1>12, <2>2
    <2> QED BY <2>3, <2>4, <2>5 DEF Editor!ListIsWanted, Editor!ChosenIsListed, Editor!UploadsAreOwn,
                                    Editor!SavesAreOwn, Editor!FilesAreStored
<1> QED BY <1>12, <1>15, <1>16, <1>17 DEF Editor!Inductive

\* A save without a difference closes the editor of a memo.
LEMMA NothingToSaveStep ==
    ASSUME Editor!Inductive, NEW byKey \in BOOLEAN, Editor!IsOpen, Editor!HandleSave(byKey),
           Editor!SaveRequest.mask = {}
    PROVE  Editor!Inductive'
<1>1. /\ editor' = Editor!Closed
      /\ UNCHANGED <<memoName, memos, owner, storedMemo, contentCache, uploads, saves>>
    BY DEF Editor!HandleSave
<1>2. Editor!TypeOK /\ Editor!NotYetListed /\ Editor!TextOnItsWay
    BY DEF Editor!Inductive
<1>3. memoName = 1 /\ editor.text = storedMemo.content
    <2>1. memoName \in {0, 1}
        BY <1>2 DEF Editor!TypeOK
    <2>2. /\ memoName = 0 \/ editor.text # storedMemo.content => "content" \in Editor!SaveRequest.mask
          /\ "content" \notin Editor!SaveRequest.mask
        BY DEF Editor!SaveRequest
    <2> QED BY <2>1, <2>2
<1>4. /\ draftNotes' \in Editor!NotesType
      /\ UNCHANGED <<draftNotes.typed, draftNotes.ever, draftNotes.failed, draftNotes.textAtRisk>>
    BY <1>2 DEF Editor!HandleSave, Editor!TypeOK, Editor!NotesType
<1>5. draftSpent' \in [turns : Nat \ {0}, faults : Nat] /\ draftSpent.turns <= draftSpent'.turns
    BY <1>2 DEF Editor!HandleSave, Editor!Spend, Editor!TypeOK
<1>6. /\ Editor!TypeOK' /\ Editor!OneMode' /\ Editor!OneSave' /\ Editor!TypedOnce'
      /\ Editor!NotYetListed' /\ Editor!FilesApart' /\ Editor!SentAsWanted' /\ Editor!HasItsFiles'
    <2>1. \A s \in saves' : s.instance = editor'.instance => editor'.isRequesting
        BY <1>1, <1>2, ClosedIs, SaveIs
    <2>2. /\ storedMemo \in Editor!StoredType
          /\ \A f \in TabFile : uploads[f].at \in {"none", "asked", "created", "attach"} =>
                                 f \notin storedMemo.attachments
        BY <1>2 DEF Editor!TypeOK, Editor!NotYetListed
    <2>3. editor'.instance = 0 /\ editor'.text = Editor!Closed.text
        BY <1>1, ClosedIs
    <2> QED BY <1>1, <1>4, <1>5, <2>1, <2>2, <2>3, ClosedIs, EditorEnds
<1>7. /\ \A t : Editor!IsSaved(t)' <=> Editor!IsSaved(t)
      /\ ~Editor!IsOpen'
    BY <1>1, ClosedIs DEF Editor!IsSaved, Editor!IsOpen
<1>8. Editor!TextOnItsWay'
    <2> DEFINE t == draftNotes.typed
    <2>1. memoName # 0
        BY <1>3
    <2> SUFFICES ASSUME t # "", ~draftNotes.textAtRisk
                 PROVE  Editor!TextOnItsWay'
        BY <1>4 DEF Editor!TextOnItsWay
    <2> QED BY <1>1, <1>2, <1>3, <1>4, <1>7, <2>1 DEF Editor!TextOnItsWay
<1>9. Editor!SentOnce' /\ Editor!ListIsWanted'
    BY <1>1, <1>3, <1>7 DEF Editor!SentOnce, Editor!ListIsWanted
<1> QED BY <1>6, <1>8, <1>9 DEF Editor!Inductive

\* A save sends what is on screen; where nothing went wrong that is what the user chose.
LEMMA HandleSaveStep ==
    ASSUME Editor!Inductive, NEW byKey \in BOOLEAN, Editor!IsOpen, ~editor.isRequesting,
           ~byKey => ~editor.isUploadingAttachment,
           Editor!HandleSave(byKey), Editor!SaveRequest.mask # {}
    PROVE  Editor!Inductive'
<1>1. UNCHANGED <<memoName, memos, owner, storedMemo, contentCache, uploads>>
    BY DEF Editor!HandleSave
<1>2. /\ Editor!TypeOK /\ Editor!OneMode /\ Editor!OneSave /\ Editor!NotYetListed /\ Editor!FilesApart
      /\ Editor!TextOnItsWay /\ Editor!TypedOnce /\ Editor!SentOnce
      /\ Editor!SentAsWanted /\ Editor!HasItsFiles
    BY DEF Editor!Inductive
<1>3. PICK mask \in SUBSET {"content", "attachments"} : mask = Editor!SaveRequest.mask
    BY DEF Editor!SaveRequest
<1>4. /\ memoName = 0 => mask = {"content", "attachments"}
      /\ memoName = 1 /\ "content" \notin mask => editor.text = storedMemo.content
      /\ memoName = 1 /\ "attachments" \notin mask => editor.attachmentList = storedMemo.attachments
    BY <1>3 DEF Editor!SaveRequest
<1>5. PICK sure \in BOOLEAN : sure = (Editor!SaveRequest.sure /\ ~(byKey /\ Editor!Uploading # {}))
    OBVIOUS
<1>6. sure => /\ ~draftNotes.filesAtRisk /\ ~editor.uploadingFlag
              /\ \A f \in Editor!Uploading : uploads[f].at \notin {"attach", "attached"}
              /\ byKey => Editor!Uploading = {}
    BY <1>5 DEF Editor!SaveRequest
<1>7. PICK r : r = [instance |-> editor.instance, at |-> "sent", content |-> editor.text,
                    attachments |-> editor.attachmentList, mask |-> mask, wanted |-> draftNotes.wanted,
                    sure |-> sure, answer |-> << >>]
    OBVIOUS
<1>8. r = [Editor!SaveRequest EXCEPT !.sure = @ /\ ~(byKey /\ Editor!Uploading # {})]
    <2>1. PICK asked : asked = Editor!SaveRequest.sure
        OBVIOUS
    <2>2. Editor!SaveRequest =
            [instance |-> editor.instance, at |-> "sent", content |-> editor.text,
             attachments |-> editor.attachmentList, mask |-> mask, wanted |-> draftNotes.wanted,
             sure |-> asked, answer |-> << >>]
        BY <1>3, <2>1 DEF Editor!SaveRequest
    <2> QED BY <1>5, <1>7, <2>1, <2>2
<1>9. saves' = saves \cup {r}
    BY <1>8 DEF Editor!HandleSave
<1>10. /\ r.instance = editor.instance /\ r.at = "sent" /\ r.content = editor.text
       /\ r.attachments = editor.attachmentList /\ r.mask = mask /\ r.wanted = draftNotes.wanted
       /\ r.sure = sure
    BY <1>7
<1>11. Editor!IsSave(r)
    <2>1. /\ editor.instance \in Nat \ {0} /\ editor.text \in Editor!Contents
          /\ editor.attachmentList \in SUBSET TabFile /\ draftNotes.wanted \in SUBSET TabFile
        BY <1>2 DEF Editor!TypeOK, Editor!EditorType, Editor!NotesType, Editor!IsOpen
    <2> QED BY <1>7, <2>1 DEF Editor!IsSave
<1>12. /\ editor' \in Editor!EditorType /\ editor'.isRequesting
       /\ UNCHANGED <<editor.instance, editor.text, editor.attachmentList, editor.isUploadingAttachment,
                      editor.uploadingFlag>>
    <2>1. editor' = [editor EXCEPT !.isRequesting = TRUE]
        BY DEF Editor!HandleSave
    <2> QED BY <1>2, <2>1 DEF Editor!TypeOK, Editor!EditorType
<1>13. /\ draftNotes' \in Editor!NotesType
       /\ draftNotes'.filesAtRisk = (draftNotes.filesAtRisk \/ Editor!Uploading # {})
       /\ UNCHANGED <<draftNotes.typed, draftNotes.ever, draftNotes.wanted, draftNotes.failed,
                      draftNotes.textAtRisk, draftNotes.twice>>
    BY <1>2 DEF Editor!HandleSave, Editor!TypeOK, Editor!NotesType
<1>14. /\ draftSpent' \in [turns : Nat \ {0}, faults : Nat] /\ draftSpent'.turns = draftSpent.turns + 1
       /\ draftSpent.turns \in Nat
    BY <1>2 DEF Editor!HandleSave, Editor!Spend, Editor!TypeOK
<1>15. /\ Editor!Uploading' = Editor!Uploading /\ \A i : Editor!FilesOf(i)' = Editor!FilesOf(i)
       /\ \A t : Editor!IsSaved(t)' <=> Editor!IsSaved(t)
       /\ Editor!IsOpen'
    BY <1>1, <1>12 DEF Editor!Uploading, Editor!FilesOf, Editor!IsSaved, Editor!IsOpen
<1>16. \A s \in saves : s.instance # editor.instance
    BY <1>2 DEF Editor!OneSave
<1>17. Editor!TypeOK'
    BY <1>1, <1>2, <1>9, <1>11, <1>12, <1>13, <1>14 DEF Editor!TypeOK, Editor!IsSave
<1>18. Editor!OneMode'
    BY <1>1, <1>2, <1>4, <1>9, <1>10 DEF Editor!OneMode
<1>19. Editor!OneSave'
    <2>1. /\ editor.instance <= draftSpent.turns /\ editor.instance \in Nat
          /\ \A s \in saves : s.instance <= draftSpent.turns /\ s.instance \in Nat
          /\ \A f \in Editor!Uploading : uploads[f].instance \in 1 .. draftSpent.turns /\ uploads[f].by # "none"
        BY <1>2, SaveIs DEF Editor!OneSave, Editor!TypeOK, Editor!EditorType
    <2>2. /\ editor'.instance <= draftSpent'.turns
          /\ \A s \in saves' : s.instance <= draftSpent'.turns
        BY <1>9, <1>10, <1>12, <1>14, <2>1
    <2>3. \A f \in Editor!Uploading' :
            uploads'[f].instance \in 1 .. draftSpent'.turns /\ uploads'[f].by # "none"
        BY <1>1, <1>14, <1>15, <2>1
    <2>4. \A s, t \in saves' : s.instance = t.instance => s = t
        BY <1>2, <1>9, <1>10, <1>16 DEF Editor!OneSave
    <2> QED BY <1>12, <1>15, <2>2, <2>3, <2>4 DEF Editor!OneSave
<1>20. Editor!TextOnItsWay'
    BY <1>1, <1>2, <1>4, <1>9, <1>10, <1>12, <1>13, <1>15 DEF Editor!TextOnItsWay, Editor!TypeOK
<1>21. Editor!TypedOnce'
    BY <1>1, <1>2, <1>9, <1>10, <1>12, <1>13 DEF Editor!TypedOnce
<1>22. Editor!SentOnce'
    <2> SUFFICES ASSUME memoName = 0
                 PROVE  Editor!SentOnce'
        BY <1>1 DEF Editor!SentOnce
    <2>1. editor.text \notin {""} \cup draftNotes.twice => ~Editor!IsSaved(editor.text)
        BY <1>2, <1>16 DEF Editor!SentOnce
    <2> QED BY <1>1, <1>2, <1>9, <1>10, <1>12, <1>13, <1>15, <2>1 DEF Editor!SentOnce, Editor!SavedOnce
<1>23. Editor!NotYetListed'
    BY <1>1, <1>2, <1>9, <1>10, <1>12 DEF Editor!NotYetListed
<1>24. Editor!FilesApart'
    <2> SUFFICES ASSUME memoName = 0
                 PROVE  Editor!FilesApart'
        BY <1>1 DEF Editor!FilesApart
    <2>1. \A s \in saves : s.attachments \cap r.attachments = {}
        BY <1>2, <1>10, <1>16 DEF Editor!FilesApart
    <2> QED BY <1>1, <1>2, <1>9, <1>10, <1>12, <1>15, <2>1 DEF Editor!FilesApart
<1>25. Editor!ListIsWanted'
    <2> SUFFICES ASSUME ~draftNotes.filesAtRisk, Editor!Uploading = {}
                 PROVE  Editor!ListIsWanted'
        BY <1>13 DEF Editor!ListIsWanted
    <2>1. Editor!ChosenIsListed /\ Editor!SavesAreOwn
        BY DEF Editor!ListIsWanted, Editor!Inductive
    <2>2. saves' # {}
        BY <1>9
    <2>3. Editor!ChosenIsListed'
        BY <1>12, <1>13, <1>15, <2>1 DEF Editor!ChosenIsListed
    <2>4. Editor!SavesAreOwn'
        BY <1>9, <1>10, <1>12, <1>13, <1>15, <2>1 DEF Editor!SavesAreOwn
    <2> QED BY <1>15, <2>2, <2>3, <2>4 DEF Editor!ListIsWanted, Editor!UploadsAreOwn, Editor!FilesAreStored
<1>26. ASSUME sure
       PROVE  /\ saves = {} /\ r.attachments = r.wanted
              /\ memoName = 0 => \A f \in r.attachments \cap DOMAIN owner : owner[f] = 0
              /\ memoName = 1 /\ "attachments" \notin mask /\ memos[1].sure => Editor!FilesOf(1) = r.wanted
    <2>1. Editor!ChosenIsListed /\ Editor!UploadsAreOwn /\ Editor!SavesAreOwn /\ Editor!FilesAreStored
        BY <1>6, <1>26 DEF Editor!ListIsWanted, Editor!Inductive
    <2>2. saves = {}
        BY <1>16, <2>1 DEF Editor!SavesAreOwn
    <2>3. Editor!Uploading = {}
        <3> SUFFICES ASSUME NEW f \in Editor!Uploading
                     PROVE  FALSE
            OBVIOUS
        <3>1. uploads[f] \in Editor!UploadType /\ uploads[f].by # "none"
            BY <1>2, UploadUnderWay DEF Editor!Uploading
        <3>2. uploads[f].at \in {"asked", "created"}
            BY <1>6, <1>26, <3>1 DEF Editor!Uploading, Editor!UploadType
        <3>3. uploads[f].by \in {"button", "drop"}
            BY <3>1 DEF Editor!UploadType
        <3>4. editor.isUploadingAttachment
            BY <1>6, <1>26, <2>1, <3>2, <3>3 DEF Editor!UploadsAreOwn
        <3> QED BY <1>6, <1>26, <3>4
    <2>4. r.attachments = r.wanted
        BY <1>10, <2>1, <2>3 DEF Editor!ChosenIsListed
    <2>5. ASSUME memoName = 1, "attachments" \notin mask, memos[1].sure
          PROVE  Editor!FilesOf(1) = r.wanted
        <3>1. \A f \in Editor!FilesOf(1) : uploads[f].at # "attached"
            BY <1>2, <2>3 DEF Editor!Uploading, Editor!FilesOf, Editor!TypeOK
        <3>2. editor.attachmentList = storedMemo.attachments
            BY <1>4, <2>5
        <3>3. Editor!FilesOf(1) = storedMemo.attachments
            BY <2>1, <2>2, <2>5, <3>1, <3>2 DEF Editor!FilesAreStored
        <3> QED BY <1>10, <2>4, <3>2, <3>3
    <2> QED BY <1>10, <2>1, <2>2, <2>4, <2>5 DEF Editor!FilesAreStored
<1>27. Editor!SentAsWanted'
    <2>1. \A s, t \in saves' : s.sure /\ t.sure => s = t
        BY <1>2, <1>9, <1>10, <1>26 DEF Editor!SentAsWanted
    <2> QED BY <1>1, <1>2, <1>9, <1>10, <1>15, <1>26, <2>1 DEF Editor!SentAsWanted
<1>28. Editor!HasItsFiles'
    BY <1>1, <1>2, <1>15 DEF Editor!HasItsFiles
<1> QED BY <1>17, <1>18, <1>19, <1>20, <1>21, <1>22, <1>23, <1>24, <1>25, <1>27, <1>28 DEF Editor!Inductive

\* A save that is served is the same save, with an answer.
Answered(s, c, files) ==
    [s EXCEPT !.at = "served", !.answer = <<[content |-> c, attachments |-> files]>>]

\* A save that was answered is the one that was sent, with the answer.
LEMMA SaveAnswered ==
    ASSUME NEW s, Editor!IsSave(s), NEW c \in Editor!Contents, NEW files \in SUBSET TabFile,
           NEW r, r = Answered(s, c, files)
    PROVE  /\ Editor!IsSave(r)
           /\ r.instance = s.instance /\ r.at = "served" /\ r.content = s.content
           /\ r.attachments = s.attachments /\ r.mask = s.mask
           /\ r.wanted = s.wanted /\ r.sure = s.sure
           /\ r.answer[1].content = c /\ r.answer[1].attachments = files
<1>1. PICK a : a = [content |-> c, attachments |-> files]
    OBVIOUS
<1>2. a \in Editor!StoredType /\ a.content = c /\ a.attachments = files
    BY <1>1 DEF Editor!StoredType
<1>3. PICK answer : answer = <<a>>
    OBVIOUS
<1>4. r = [s EXCEPT !.at = "served", !.answer = answer]
    BY <1>1, <1>3 DEF Answered
<1>5. answer[1] = a
    BY <1>3
<1>6. /\ r.instance = s.instance /\ r.at = "served" /\ r.content = s.content
      /\ r.attachments = s.attachments /\ r.mask = s.mask /\ r.wanted = s.wanted /\ r.sure = s.sure
      /\ r.answer = answer
    BY <1>4 DEF Editor!IsSave
<1>7. Editor!IsSave(r)
    BY <1>2, <1>4, <1>5, <1>6 DEF Editor!IsSave
<1> QED BY <1>2, <1>5, <1>6, <1>7

\* What it keeps, whatever the server did.
LEMMA SaveServed ==
    ASSUME Editor!Inductive, NEW s \in saves, s.at = "sent",
           NEW r, Editor!IsSave(r), r.instance = s.instance, r.attachments = s.attachments,
           r.wanted = s.wanted, saves' = (saves \ {s}) \cup {r},
           UNCHANGED <<memoName, storedMemo, contentCache, editor, uploads, draftNotes>>,
           draftSpent'.turns = draftSpent.turns
    PROVE  /\ \A q \in saves' : Editor!IsSave(q)
           /\ Editor!OneSave' /\ Editor!FilesApart' /\ Editor!ListIsWanted'
<1>1. Editor!TypeOK /\ Editor!OneSave /\ Editor!FilesApart
    BY DEF Editor!Inductive
<1>2. \A q \in saves' : Editor!IsSave(q)
    BY <1>1 DEF Editor!TypeOK
<1>3. Editor!Uploading' = Editor!Uploading
    BY DEF Editor!Uploading
<1>4. Editor!OneSave'
    <2>1. \A q, t \in saves' : q.instance = t.instance => q = t
        BY <1>1 DEF Editor!OneSave
    <2> QED BY <1>1, <1>3, <2>1 DEF Editor!OneSave, Editor!IsOpen
<1>5. Editor!FilesApart'
    <2> SUFFICES ASSUME memoName = 0
                 PROVE  Editor!FilesApart'
        BY DEF Editor!FilesApart
    <2>1. \A t \in saves \ {s} : t.attachments \cap r.attachments = {}
        BY <1>1 DEF Editor!FilesApart
    <2>2. \A q, t \in saves' : q # t => q.attachments \cap t.attachments = {}
        BY <1>1, <2>1 DEF Editor!FilesApart
    <2> QED BY <1>1, <1>3, <2>2 DEF Editor!FilesApart
<1>6. Editor!ListIsWanted'
    <2> SUFFICES ASSUME Editor!IsOpen, ~draftNotes.filesAtRisk
                 PROVE  Editor!ListIsWanted'
        BY DEF Editor!ListIsWanted, Editor!IsOpen
    <2>1. Editor!ChosenIsListed /\ Editor!UploadsAreOwn /\ Editor!SavesAreOwn
        BY DEF Editor!ListIsWanted, Editor!Inductive
    <2>2. Editor!ChosenIsListed' /\ Editor!UploadsAreOwn'
        BY <1>3, <2>1 DEF Editor!ChosenIsListed, Editor!UploadsAreOwn
    <2>3. Editor!SavesAreOwn'
        BY <1>3, <2>1 DEF Editor!SavesAreOwn
    <2>4. Editor!FilesAreStored'
        BY DEF Editor!FilesAreStored
    <2> QED BY <2>2, <2>3, <2>4 DEF Editor!ListIsWanted
<1> QED BY <1>2, <1>4, <1>5, <1>6

\* UpdateMemo: the memo gets the text and the files of the mask.
LEMMA ServeEditStep ==
    ASSUME Editor!Inductive, NEW s \in saves, memoName = 1, Editor!ServeSave(s)
    PROVE  Editor!Inductive'
<1>1. /\ s.at = "sent"
      /\ UNCHANGED <<memoName, storedMemo, contentCache, editor, uploads, draftSpent, draftNotes>>
    BY DEF Editor!ServeSave
<1>2. /\ Editor!TypeOK /\ Editor!OneMode /\ Editor!OneSave /\ Editor!NotYetListed
      /\ Editor!TextOnItsWay /\ Editor!SentAsWanted /\ Editor!HasItsFiles
    BY DEF Editor!Inductive
<1>3. Len(memos) = 1 /\ DOMAIN memos = {1} /\ memos[1] \in Editor!MemoType /\ memos \in Seq(Editor!MemoType)
    BY <1>2, MemosAre DEF Editor!OneMode, Editor!TypeOK
<1>4. /\ s.content \in Editor!Contents /\ s.wanted \in SUBSET TabFile /\ s.sure \in BOOLEAN
      /\ s.attachments \in SUBSET TabFile
    BY <1>2, SaveIs DEF Editor!IsSave
<1>5. PICK c \in Editor!Contents : c = IF "content" \in s.mask THEN s.content ELSE memos[1].content
    BY <1>3, <1>4 DEF Editor!MemoType
<1>6. PICK sure \in BOOLEAN : sure = (s.sure /\ memos[1].sure)
    OBVIOUS
<1>7. PICK m : m = [content |-> c, wanted |-> s.wanted, sure |-> sure]
    OBVIOUS
<1>8. memos' = [memos EXCEPT ![1] = m]
    <2>1. memoName # 0
        OBVIOUS
    <2>2. memos' = [memos EXCEPT ![1] =
                       [[content |-> s.content, wanted |-> s.wanted, sure |-> s.sure] EXCEPT
                            !.content = IF "content" \in s.mask THEN @ ELSE memos[1].content,
                            !.sure = @ /\ memos[1].sure]]
        BY <2>1 DEF Editor!ServeSave
    <2>3. PICK note : note = [content |-> s.content, wanted |-> s.wanted, sure |-> s.sure]
        OBVIOUS
    <2>4. PICK edited : edited = [content |-> c, wanted |-> s.wanted, sure |-> s.sure]
        OBVIOUS
    <2>5. memos' = [memos EXCEPT ![1] = [note EXCEPT !.content = c, !.sure = sure]]
        BY <1>5, <1>6, <2>2, <2>3
    <2>6. [note EXCEPT !.content = c] = edited
        BY <2>3, <2>4
    <2>7. [edited EXCEPT !.sure = sure] = m
        BY <1>7, <2>4
    <2> QED BY <2>5, <2>6, <2>7
<1>9. /\ m \in Editor!MemoType /\ m.wanted = s.wanted /\ m.sure = (s.sure /\ memos[1].sure)
      /\ m.content = IF "content" \in s.mask THEN s.content ELSE memos[1].content
    BY <1>4, <1>7, <1>5, <1>6 DEF Editor!MemoType
<1>10. memos' \in Seq(Editor!MemoType) /\ Len(memos') = 1 /\ DOMAIN memos' = {1} /\ memos'[1] = m
    <2>1. /\ [memos EXCEPT ![1] = m] \in Seq(Editor!MemoType)
          /\ Len([memos EXCEPT ![1] = m]) = Len(memos)
        BY <1>3, <1>9, OneReplaced
    <2> QED BY <1>3, <1>8, <2>1
<1>11. /\ "attachments" \in s.mask => s.attachments \subseteq DOMAIN owner
      /\ owner' = IF "attachments" \in s.mask
                  THEN [f \in (DOMAIN owner \ Editor!FilesOf(1)) \cup s.attachments |->
                            IF f \in s.attachments THEN 1 ELSE owner[f]]
                  ELSE owner
    BY DEF Editor!ServeSave
<1>12. PICK files \in SUBSET TabFile :
            files = IF "attachments" \in s.mask THEN s.attachments ELSE Editor!FilesOf(1)
    BY <1>2, <1>4 DEF Editor!FilesOf, Editor!TypeOK
<1>13. /\ Editor!FilesOf(1)' = files
       /\ DOMAIN owner' \subseteq DOMAIN owner
       /\ \A f \in DOMAIN owner' : owner'[f] = owner[f] \/ owner'[f] = 1
       /\ \A f \in DOMAIN owner : f \notin Editor!FilesOf(1) \cup s.attachments =>
                f \in DOMAIN owner' /\ owner'[f] = owner[f]
    <2>1. CASE "attachments" \in s.mask
        <3>1. /\ DOMAIN owner' = (DOMAIN owner \ Editor!FilesOf(1)) \cup s.attachments
              /\ \A f \in DOMAIN owner' : owner'[f] = IF f \in s.attachments THEN 1 ELSE owner[f]
            BY <1>11, <2>1
        <3> QED BY <1>11, <1>12, <2>1, <3>1 DEF Editor!FilesOf
    <2>2. CASE "attachments" \notin s.mask
        BY <1>11, <1>12, <2>2 DEF Editor!FilesOf
    <2> QED BY <2>1, <2>2
<1>14. m.content \in Editor!Contents
    BY <1>9 DEF Editor!MemoType
<1>15. PICK r : r = Answered(s, m.content, files)
    OBVIOUS
<1>16. /\ Editor!IsSave(r)
       /\ r.instance = s.instance /\ r.at = "served" /\ r.content = s.content
       /\ r.attachments = s.attachments /\ r.mask = s.mask
       /\ r.wanted = s.wanted /\ r.sure = s.sure
       /\ r.answer[1].content = m.content /\ r.answer[1].attachments = files
    <2>1. Editor!IsSave(s)
        BY <1>2, SaveIs
    <2> QED BY <1>12, <1>14, <1>15, <2>1, SaveAnswered
<1>17. saves' = (saves \ {s}) \cup {r}
    <2>1. {f \in DOMAIN owner' : owner'[f] = 1} = files
        BY <1>13 DEF Editor!FilesOf
    <2>2. saves' = (saves \ {s}) \cup
            {[s EXCEPT !.at = "served",
                       !.answer = <<[content |-> memos'[1].content,
                                     attachments |-> {f \in DOMAIN owner' : owner'[f] = 1}]>>]}
        BY DEF Editor!ServeSave
    <2> QED BY <1>10, <1>15, <2>1, <2>2 DEF Answered
<1>18. /\ \A q \in saves' : Editor!IsSave(q)
       /\ Editor!OneSave' /\ Editor!FilesApart' /\ Editor!ListIsWanted'
    <2>1. Editor!IsSave(r) /\ r.instance = s.instance /\ r.attachments = s.attachments /\ r.wanted = s.wanted
        BY <1>16
    <2> QED BY <1>1, <1>17, <2>1, SaveServed
<1>19. /\ r.instance = s.instance /\ r.at = "served" /\ r.content = s.content
       /\ r.attachments = s.attachments /\ r.mask = s.mask /\ r.wanted = s.wanted /\ r.sure = s.sure
       /\ r.answer[1].content = m.content /\ r.answer[1].attachments = files
    BY <1>16
<1>20. Editor!TypeOK'
    <2>1. owner' \in [DOMAIN owner' -> 0 .. Len(memos')] /\ DOMAIN owner' \subseteq TabFile
        <3>1. /\ owner \in [DOMAIN owner -> 0 .. 1] /\ DOMAIN owner \subseteq TabFile
            BY <1>2, <1>3 DEF Editor!TypeOK
        <3>2. \A f \in DOMAIN owner' : owner'[f] \in 0 .. 1
            BY <1>13, <3>1
        <3>3. owner' = [f \in DOMAIN owner' |-> owner'[f]]
            BY <1>11, <3>1
        <3> QED BY <1>10, <1>13, <3>1, <3>2, <3>3
    <2> QED BY <1>1, <1>2, <1>10, <1>18, <2>1 DEF Editor!TypeOK, Editor!IsSave
<1>21. Editor!OneMode'
    BY <1>1, <1>10 DEF Editor!OneMode
<1>22. Editor!TextOnItsWay'
    <2> DEFINE t == draftNotes.typed
    <2>1. \A x : Editor!IsSaved(x) <=> memos[1].content = x
        BY <1>3 DEF Editor!IsSaved
    <2>2. \A x : Editor!IsSaved(x)' <=> m.content = x
        BY <1>10 DEF Editor!IsSaved
    <2>3. memoName # 0
        OBVIOUS
    <2>4. \A x : s.content = x /\ ("content" \notin s.mask => Editor!IsSaved(x)) => m.content = x
        BY <1>9, <2>1
    <2> SUFFICES ASSUME t # "", ~draftNotes.textAtRisk
                 PROVE  Editor!TextOnItsWay'
        BY <1>1 DEF Editor!TextOnItsWay
    <2>5. /\ Editor!IsOpen => editor.text = t
          /\ contentCache \in {"", t}
          /\ \A q \in saves : /\ q.content = t
                              /\ q.at = "served" \/ "content" \notin q.mask => Editor!IsSaved(t)
                              /\ q.at = "served" => q.answer[1].content = t
          /\ contentCache = t \/ (Editor!IsOpen /\ draftNotes.failed) \/ storedMemo.content = t
        BY <1>2, <2>3 DEF Editor!TextOnItsWay
    <2>6. m.content = t /\ Editor!IsSaved(t)'
        <3>1. s.content = t /\ ("content" \notin s.mask => Editor!IsSaved(t))
            BY <2>5
        <3>2. m.content = t
            BY <2>4, <3>1
        <3> QED BY <1>1, <2>2, <3>2
    <2>7. \A q \in saves' : q.content = t /\ (q.at = "served" => q.answer[1].content = t)
        BY <1>17, <1>19, <2>5, <2>6
    <2> QED BY <1>1, <2>5, <2>6, <2>7 DEF Editor!TextOnItsWay, Editor!IsOpen
<1>23. Editor!TypedOnce' /\ Editor!SentOnce'
    BY <1>1 DEF Editor!TypedOnce, Editor!SentOnce
<1>24. Editor!NotYetListed'
    <2>1. \A f \in TabFile : uploads[f].at \in {"none", "asked", "created", "attach"} => f \notin files
        BY <1>2, <1>12 DEF Editor!NotYetListed, Editor!FilesOf
    <2>2. \A f \in TabFile : uploads[f].at \in {"created", "attach"} =>
                f \in DOMAIN owner' /\ owner'[f] = 0
        BY <1>2, <1>13 DEF Editor!NotYetListed, Editor!FilesOf
    <2> QED BY <1>1, <1>2, <1>13, <1>17, <1>19, <2>1, <2>2 DEF Editor!NotYetListed
<1>25. Editor!SentAsWanted'
    <2>1. \A q, t \in saves' : q.sure /\ t.sure => q = t
        BY <1>2, <1>17, <1>19 DEF Editor!SentAsWanted
    <2>2. \A q \in saves' : q.at = "sent" => q \in saves /\ q # s
        BY <1>17, <1>19
    <2>3. \A q \in saves' : q.at = "sent" /\ q.sure => ~memos'[1].sure
        BY <1>2, <1>9, <1>10, <2>2 DEF Editor!SentAsWanted
    <2> QED BY <1>1, <1>2, <2>1, <2>2, <2>3 DEF Editor!SentAsWanted
<1>26. Editor!HasItsFiles'
    <2>1. m.sure => files = m.wanted
        BY <1>1, <1>2, <1>3, <1>9, <1>12 DEF Editor!SentAsWanted
    <2> QED BY <1>10, <1>13, <2>1 DEF Editor!HasItsFiles
<1> QED BY <1>18, <1>20, <1>21, <1>22, <1>23, <1>24, <1>25, <1>26 DEF Editor!Inductive

\* A memo that is added comes last; the others keep their place.
LEMMA MemoAdded ==
    ASSUME NEW S, NEW q \in Seq(S), NEW p, DOMAIN p = DOMAIN q, p = [j \in DOMAIN p |-> p[j]],
           \A j \in DOMAIN q : p[j] \in S, NEW m \in S
    PROVE  /\ Append(p, m) \in Seq(S) /\ Len(Append(p, m)) = Len(q) + 1
           /\ DOMAIN Append(p, m) = 1 .. Len(q) + 1
           /\ \A j \in DOMAIN q : Append(p, m)[j] = p[j]
           /\ Append(p, m)[Len(q) + 1] = m
<1>1. Len(q) \in Nat /\ DOMAIN q = 1 .. Len(q)
    BY LenProperties
<1>2. p \in [1 .. Len(q) -> S]
    BY <1>1
<1>3. p \in Seq(S)
    BY <1>1, <1>2, SeqDef
<1>4. Len(p) \in Nat /\ DOMAIN p = 1 .. Len(p)
    BY <1>3, LenProperties
<1>5. Len(p) = Len(q)
    BY <1>1, <1>4
<1>6. /\ Append(p, m) \in Seq(S) /\ Len(Append(p, m)) = Len(p) + 1
      /\ \A j \in 1 .. Len(p) : Append(p, m)[j] = p[j]
      /\ Append(p, m)[Len(p) + 1] = m
    BY <1>3, AppendProperties
<1>7. DOMAIN Append(p, m) = 1 .. Len(Append(p, m))
    BY <1>6, LenProperties
<1> QED BY <1>1, <1>5, <1>6, <1>7

\* A text that becomes a memo was on its way, and is saved once.
LEMMA NewMemoText ==
    ASSUME Editor!Inductive, NEW s \in saves, memoName = 0, s.at = "sent",
           NEW r, r.instance = s.instance, r.content = s.content, r.at # "sent",
           saves' = (saves \ {s}) \cup {r}, UNCHANGED <<memoName, contentCache, editor, draftNotes>>,
           NEW i, i \notin DOMAIN memos, DOMAIN memos' = DOMAIN memos \cup {i},
           \A j \in DOMAIN memos : memos'[j].content = memos[j].content, memos'[i].content = s.content
    PROVE  Editor!TextOnItsWay' /\ Editor!TypedOnce' /\ Editor!SentOnce'
<1>1. Editor!OneSave /\ Editor!TextOnItsWay /\ Editor!TypedOnce /\ Editor!SentOnce
    BY DEF Editor!Inductive
<1>2. \A x : Editor!IsSaved(x)' <=> Editor!IsSaved(x) \/ x = s.content
    BY DEF Editor!IsSaved
<1>3. Editor!TextOnItsWay'
    <2>1. PICK t : t = draftNotes.typed
        OBVIOUS
    <2>2. memoName # 1 /\ memoName' = 0 /\ t = draftNotes'.typed
        BY <2>1
    <2>3. Editor!IsSaved(t) \/ t = s.content => Editor!IsSaved(t)'
        BY <1>2
    <2> SUFFICES ASSUME t # "", ~draftNotes.textAtRisk
                 PROVE  Editor!TextOnItsWay'
        BY <2>1 DEF Editor!TextOnItsWay
    <2>4. Editor!IsSaved(t) \/ s.content = t
        BY <1>1, <2>1 DEF Editor!TextOnItsWay
    <2> QED BY <2>2, <2>3, <2>4 DEF Editor!TextOnItsWay
<1>4. Editor!TypedOnce'
    <2>1. PICK ever : ever = draftNotes.ever \cup {""}
        OBVIOUS
    <2>2. /\ editor.text \in ever /\ contentCache \in ever
          /\ \A q \in saves : q.content \in ever
          /\ \A j \in DOMAIN memos : memos[j].content \in ever
        BY <1>1, <2>1 DEF Editor!TypedOnce
    <2>3. \A q \in saves' : q.content \in ever
        BY <2>2
    <2>4. \A j \in DOMAIN memos' : memos'[j].content \in ever
        BY <2>2
    <2> QED BY <2>1, <2>2, <2>3, <2>4 DEF Editor!TypedOnce
<1>5. Editor!SentOnce'
    <2>1. PICK out : out = {""} \cup draftNotes.twice
        OBVIOUS
    <2>2. /\ \A j, k \in DOMAIN memos : j # k /\ memos[j].content = memos[k].content => memos[j].content \in out
          /\ \A q \in saves : q.content \notin out =>
                q.instance = editor.instance /\ (q.at = "sent" => ~Editor!IsSaved(q.content))
          /\ \A t \in {editor.text, contentCache} :
                t \notin out /\ Editor!IsSaved(t) => \E q \in saves : q.content = t
        BY <1>1, <2>1 DEF Editor!SentOnce, Editor!SavedOnce
    <2>3. s.content \notin out => \A j \in DOMAIN memos : memos[j].content # s.content
        BY <2>2 DEF Editor!IsSaved
    <2>4. \A j, k \in DOMAIN memos' : j # k /\ memos'[j].content = memos'[k].content => memos'[j].content \in out
        BY <2>2, <2>3
    <2>5. \A q \in saves' : q.content \notin out =>
                q.instance = editor.instance /\ (q.at = "sent" => ~Editor!IsSaved(q.content)')
        <3>1. \A q, t \in saves : q.instance = t.instance => q = t
            BY <1>1 DEF Editor!OneSave
        <3>2. \A q \in saves : q # s /\ q.content \notin out => q.content # s.content
            BY <2>2, <3>1
        <3> QED BY <1>2, <2>2, <3>2
    <2>6. \A t \in {editor.text, contentCache} :
                t \notin out /\ Editor!IsSaved(t)' => \E q \in saves' : q.content = t
        BY <1>2, <2>2
    <2> QED BY <2>1, <2>4, <2>5, <2>6 DEF Editor!SentOnce, Editor!SavedOnce
<1> QED BY <1>3, <1>4, <1>5

\* Memos a save of doubtful files takes some from have doubtful files too.
LessSure(s) ==
    [j \in DOMAIN memos |-> [memos[j] EXCEPT !.sure = @ /\ (s.sure \/ Editor!FilesOf(j) \cap s.attachments = {})]]

\* But for that they are as they were.
LEMMA OthersLessSure ==
    ASSUME \A j \in DOMAIN memos : memos[j] \in Editor!MemoType, NEW s, NEW p, p = LessSure(s)
    PROVE  \A j \in DOMAIN memos :
            /\ p[j] \in Editor!MemoType /\ p[j].content = memos[j].content /\ p[j].wanted = memos[j].wanted
            /\ p[j].sure => memos[j].sure /\ (s.sure \/ Editor!FilesOf(j) \cap s.attachments = {})
<1> SUFFICES ASSUME NEW j \in DOMAIN memos
      PROVE  /\ p[j] \in Editor!MemoType /\ p[j].content = memos[j].content
             /\ p[j].wanted = memos[j].wanted
             /\ p[j].sure => memos[j].sure /\ (s.sure \/ Editor!FilesOf(j) \cap s.attachments = {})
    OBVIOUS
<1>1. PICK sure \in BOOLEAN :
        sure = (memos[j].sure /\ (s.sure \/ Editor!FilesOf(j) \cap s.attachments = {}))
    OBVIOUS
<1>2. p[j] = [memos[j] EXCEPT !.sure = sure]
    BY <1>1 DEF LessSure
<1> QED BY <1>1, <1>2 DEF Editor!MemoType

\* CreateMemo: a memo more, with its text and its files.
LEMMA ServeNewStep ==
    ASSUME Editor!Inductive, NEW s \in saves, memoName = 0, Editor!ServeSave(s)
    PROVE  Editor!Inductive'
<1>1. /\ s.at = "sent"
      /\ UNCHANGED <<memoName, storedMemo, contentCache, editor, uploads, draftSpent, draftNotes>>
    BY DEF Editor!ServeSave
<1>2. /\ Editor!TypeOK /\ Editor!OneMode /\ Editor!OneSave /\ Editor!NotYetListed /\ Editor!FilesApart
      /\ Editor!TextOnItsWay /\ Editor!TypedOnce /\ Editor!SentOnce
      /\ Editor!SentAsWanted /\ Editor!HasItsFiles
    BY DEF Editor!Inductive
<1>3. PICK n \in Nat : n = Len(memos)
    BY <1>2, MemosAre
<1>4. /\ DOMAIN memos = 1 .. n /\ memos \in Seq(Editor!MemoType)
      /\ \A j \in DOMAIN memos : memos[j] \in Editor!MemoType
    BY <1>2, <1>3, MemosAre DEF Editor!TypeOK
<1>5. /\ s.content \in Editor!Contents /\ s.wanted \in SUBSET TabFile /\ s.sure \in BOOLEAN
      /\ s.attachments \in SUBSET TabFile
    BY <1>2, SaveIs DEF Editor!IsSave
<1>6. "content" \in s.mask /\ "attachments" \in s.mask
    BY <1>2 DEF Editor!OneMode
<1>7. PICK m : m = [content |-> s.content, wanted |-> s.wanted, sure |-> s.sure]
    OBVIOUS
<1>8. m \in Editor!MemoType /\ m.content = s.content /\ m.wanted = s.wanted /\ m.sure = s.sure
    BY <1>5, <1>7 DEF Editor!MemoType
<1>9. PICK p : p = LessSure(s)
    OBVIOUS
<1>10. memos' = Append(p, m)
    BY <1>7, <1>9 DEF Editor!ServeSave, LessSure
<1>11. /\ DOMAIN p = DOMAIN memos /\ p = [j \in DOMAIN p |-> p[j]]
       /\ \A j \in DOMAIN memos :
            /\ p[j] \in Editor!MemoType /\ p[j].content = memos[j].content /\ p[j].wanted = memos[j].wanted
            /\ p[j].sure => memos[j].sure /\ (s.sure \/ Editor!FilesOf(j) \cap s.attachments = {})
    <2>1. DOMAIN p = DOMAIN memos /\ p = [j \in DOMAIN p |-> p[j]]
        BY <1>9 DEF LessSure
    <2>2. \A j \in DOMAIN memos : memos[j] \in Editor!MemoType
        BY <1>4
    <2> QED BY <1>9, <2>1, <2>2, OthersLessSure
<1>12. /\ memos' \in Seq(Editor!MemoType) /\ Len(memos') = n + 1 /\ DOMAIN memos' = 1 .. n + 1
       /\ \A j \in DOMAIN memos : memos'[j] = p[j]
       /\ memos'[n + 1] = m
    BY <1>3, <1>4, <1>8, <1>10, <1>11, MemoAdded
<1>13. /\ s.attachments \subseteq DOMAIN owner
       /\ owner' = [f \in (DOMAIN owner \ Editor!FilesOf(n + 1)) \cup s.attachments |->
                        IF f \in s.attachments THEN n + 1 ELSE owner[f]]
    <2>1. memoName # 1
        OBVIOUS
    <2> QED BY <1>3, <1>6, <2>1 DEF Editor!ServeSave
<1>14. \A f \in DOMAIN owner : f \in TabFile /\ owner[f] \in 0 .. n
    BY <1>2, <1>3 DEF Editor!TypeOK
<1>15. /\ DOMAIN owner' = DOMAIN owner /\ owner' = [f \in DOMAIN owner' |-> owner'[f]]
       /\ \A f \in DOMAIN owner : owner'[f] = IF f \in s.attachments THEN n + 1 ELSE owner[f]
    <2>1. Editor!FilesOf(n + 1) = {}
        BY <1>14 DEF Editor!FilesOf
    <2> QED BY <1>13, <2>1
<1>16. /\ Editor!FilesOf(n + 1)' = s.attachments
       /\ \A j \in 1 .. n : Editor!FilesOf(j)' = Editor!FilesOf(j) \ s.attachments
    BY <1>13, <1>14, <1>15 DEF Editor!FilesOf
<1>17. PICK r : r = Answered(s, m.content, s.attachments)
    OBVIOUS
<1>18. /\ Editor!IsSave(r)
       /\ r.instance = s.instance /\ r.at = "served" /\ r.content = s.content
       /\ r.attachments = s.attachments /\ r.mask = s.mask
       /\ r.wanted = s.wanted /\ r.sure = s.sure
       /\ r.answer[1].content = m.content /\ r.answer[1].attachments = s.attachments
    <2>1. Editor!IsSave(s) /\ m.content \in Editor!Contents
        BY <1>2, <1>5, <1>8, SaveIs
    <2> QED BY <1>5, <1>17, <2>1, SaveAnswered
<1>19. saves' = (saves \ {s}) \cup {r}
    <2>1. {f \in DOMAIN owner' : owner'[f] = n + 1} = s.attachments
        BY <1>16 DEF Editor!FilesOf
    <2>2. saves' = (saves \ {s}) \cup
            {[s EXCEPT !.at = "served",
                       !.answer = <<[content |-> memos'[n + 1].content,
                                     attachments |-> {f \in DOMAIN owner' : owner'[f] = n + 1}]>>]}
        <3>1. memoName # 1
            OBVIOUS
        <3> QED BY <1>3, <3>1 DEF Editor!ServeSave
    <2> QED BY <1>12, <1>17, <2>1, <2>2 DEF Answered
<1>20. /\ \A q \in saves' : Editor!IsSave(q)
       /\ Editor!OneSave' /\ Editor!FilesApart' /\ Editor!ListIsWanted'
    <2>1. Editor!IsSave(r) /\ r.instance = s.instance /\ r.attachments = s.attachments /\ r.wanted = s.wanted
        BY <1>18
    <2> QED BY <1>1, <1>19, <2>1, SaveServed
<1>21. Editor!TypeOK'
    <2>1. owner' \in [DOMAIN owner' -> 0 .. Len(memos')] /\ DOMAIN owner' \subseteq TabFile
        <3>1. \A f \in DOMAIN owner' : owner'[f] \in 0 .. n + 1
            BY <1>14, <1>15
        <3> QED BY <1>12, <1>14, <1>15, <3>1
    <2> QED BY <1>1, <1>2, <1>12, <1>20, <2>1 DEF Editor!TypeOK, Editor!IsSave
<1>22. Editor!OneMode'
    <2>1. memoName' # 1 /\ memoName' = 0
        BY <1>1
    <2> QED BY <1>1, <1>2, <1>18, <1>19, <2>1 DEF Editor!OneMode
<1>23. DOMAIN memos' = DOMAIN memos \cup {n + 1} /\ n + 1 \notin DOMAIN memos
    BY <1>4, <1>12
<1>24. /\ \A j \in DOMAIN memos : memos'[j].content = memos[j].content
       /\ memos'[n + 1].content = s.content
    BY <1>8, <1>11, <1>12
<1>25. r.at # "sent" /\ UNCHANGED <<memoName, contentCache, editor, draftNotes>>
    BY <1>1, <1>18
<1>26. Editor!TextOnItsWay' /\ Editor!TypedOnce' /\ Editor!SentOnce'
    BY <1>1, <1>18, <1>19, <1>23, <1>24, <1>25, NewMemoText
<1>28. Editor!NotYetListed'
    <2>1. \A f \in TabFile : uploads[f].at \in {"none", "asked", "created", "attach"} => f \notin s.attachments
        BY <1>2 DEF Editor!NotYetListed
    <2>2. \A f \in TabFile : uploads[f].at \in {"created", "attach"} =>
                f \in DOMAIN owner' /\ owner'[f] = 0
        BY <1>2, <1>15, <2>1 DEF Editor!NotYetListed
    <2> QED BY <1>1, <1>2, <1>15, <1>18, <1>19, <2>1, <2>2 DEF Editor!NotYetListed
<1>29. Editor!SentAsWanted'
    <2>1. \A q, t \in saves' : q.sure /\ t.sure => q = t
        BY <1>2, <1>18, <1>19 DEF Editor!SentAsWanted
    <2>2. \A q \in saves' : q.at = "sent" => q \in saves /\ q.attachments \cap s.attachments = {}
        BY <1>2, <1>18, <1>19 DEF Editor!FilesApart
    <2>3. memoName' # 1
        BY <1>1
    <2> QED BY <1>2, <1>15, <2>1, <2>2, <2>3 DEF Editor!SentAsWanted
<1>30. Editor!HasItsFiles'
    <2>1. s.sure => s.attachments = s.wanted /\ \A f \in s.attachments \cap DOMAIN owner : owner[f] = 0
        BY <1>1, <1>2 DEF Editor!SentAsWanted
    <2>2. ASSUME NEW j \in DOMAIN memos, memos'[j].sure
          PROVE  Editor!FilesOf(j)' = memos'[j].wanted
        <3>1. memos[j].sure /\ (s.sure \/ Editor!FilesOf(j) \cap s.attachments = {})
            BY <1>11, <1>12, <2>2
        <3>2. j # 0
            BY <1>4
        <3>3. Editor!FilesOf(j) \cap s.attachments = {}
            BY <2>1, <3>1, <3>2 DEF Editor!FilesOf
        <3>4. Editor!FilesOf(j) = memos[j].wanted
            BY <1>2, <3>1 DEF Editor!HasItsFiles
        <3>5. Editor!FilesOf(j)' = Editor!FilesOf(j) \ s.attachments
            BY <1>4, <1>16
        <3>6. memos'[j].wanted = memos[j].wanted
            BY <1>11, <1>12
        <3> QED BY <3>3, <3>4, <3>5, <3>6
    <2>3. memos'[n + 1].sure => Editor!FilesOf(n + 1)' = memos'[n + 1].wanted
        BY <1>8, <1>12, <1>16, <2>1
    <2> QED BY <1>23, <2>2, <2>3 DEF Editor!HasItsFiles
<1> QED BY <1>20, <1>21, <1>22, <1>26, <1>28, <1>29, <1>30 DEF Editor!Inductive

\* What a save leaves that the server broke off: fewer files or moved ones, and the rest
\* as it was.
LEMMA HalfServed ==
    ASSUME Editor!Inductive, NEW s \in saves, Editor!ServeHalf(s)
    PROVE  \E r :
           /\ Editor!IsSave(r) /\ r.at = "broken" /\ r.instance = s.instance
           /\ r.content = s.content /\ r.attachments = s.attachments /\ r.mask = s.mask
           /\ r.wanted = s.wanted /\ r.sure = s.sure
           /\ saves' = (saves \ {s}) \cup {r}
           /\ \A q \in saves' : Editor!IsSave(q)
           /\ draftSpent' \in [turns : Nat \ {0}, faults : Nat]
           /\ Editor!OneSave' /\ Editor!FilesApart' /\ Editor!ListIsWanted'
<1>1. /\ s.at = "sent"
      /\ UNCHANGED <<memoName, storedMemo, contentCache, editor, uploads, draftNotes>>
    BY DEF Editor!ServeHalf
<1>2. Editor!TypeOK
    BY DEF Editor!Inductive
<1>3. PICK r : r = [s EXCEPT !.at = "broken"]
    OBVIOUS
<1>4. Editor!IsSave(s)
    BY <1>2, SaveIs
<1>5. /\ r.at = "broken" /\ r.instance = s.instance
      /\ r.content = s.content /\ r.attachments = s.attachments /\ r.mask = s.mask
      /\ r.wanted = s.wanted /\ r.sure = s.sure /\ r.answer = s.answer
    BY <1>3, <1>4 DEF Editor!IsSave
<1>6. Editor!IsSave(r)
    BY <1>3, <1>4, <1>5 DEF Editor!IsSave
<1>7. saves' = (saves \ {s}) \cup {r}
    BY <1>3 DEF Editor!ServeHalf
<1>8. draftSpent' \in [turns : Nat \ {0}, faults : Nat] /\ draftSpent'.turns = draftSpent.turns
    BY <1>2 DEF Editor!ServeHalf, Editor!Spend, Editor!TypeOK
<1>9. /\ \A q \in saves' : Editor!IsSave(q)
      /\ Editor!OneSave' /\ Editor!FilesApart' /\ Editor!ListIsWanted'
    BY <1>1, <1>5, <1>6, <1>7, <1>8, SaveServed
<1> QED BY <1>5, <1>6, <1>7, <1>8, <1>9

\* The memo a save is of.
SavedMemo == IF memoName = 1 THEN 1 ELSE Len(memos) + 1

\* The files of the save may be of its memo then; others are not touched.
LEMMA HalfOfFiles ==
    ASSUME Editor!Inductive, NEW s \in saves, Editor!ServeHalf(s),
           NEW i, i = IF memoName = 1 THEN 1 ELSE Len(memos) + 1
    PROVE  /\ DOMAIN owner' \subseteq DOMAIN owner
           /\ owner' = [f \in DOMAIN owner' |-> owner'[f]]
           /\ \A f \in DOMAIN owner \ DOMAIN owner' : owner[f] = i
           /\ \A f \in DOMAIN owner' : owner'[f] = owner[f] \/ (f \in s.attachments /\ owner'[f] = i)
           /\ Editor!NotYetListed'
<1>1. \E gone \in SUBSET (IF "attachments" \in s.mask THEN Editor!FilesOf(SavedMemo) \ s.attachments ELSE {}),
          taken \in SUBSET (IF "attachments" \in s.mask THEN s.attachments \cap DOMAIN owner ELSE {}) :
        owner' = [f \in DOMAIN owner \ gone |-> IF f \in taken THEN SavedMemo ELSE owner[f]]
    BY Zenon DEF Editor!ServeHalf, SavedMemo
<1>2. i = SavedMemo
    BY DEF SavedMemo
<1>3. PICK gone, taken :
        /\ gone \subseteq Editor!FilesOf(SavedMemo) /\ taken \subseteq s.attachments
        /\ owner' = [f \in DOMAIN owner \ gone |-> IF f \in taken THEN SavedMemo ELSE owner[f]]
    <2>1. CASE "attachments" \in s.mask
        <3>1. PICK gone \in SUBSET (Editor!FilesOf(SavedMemo) \ s.attachments),
                   taken \in SUBSET (s.attachments \cap DOMAIN owner) :
                owner' = [f \in DOMAIN owner \ gone |-> IF f \in taken THEN SavedMemo ELSE owner[f]]
            BY <1>1, <2>1, Zenon
        <3>2. gone \subseteq Editor!FilesOf(SavedMemo) /\ taken \subseteq s.attachments
            BY <3>1
        <3> QED BY <3>1, <3>2, Zenon
    <2>2. CASE "attachments" \notin s.mask
        <3>1. PICK gone \in SUBSET {}, taken \in SUBSET {} :
                owner' = [f \in DOMAIN owner \ gone |-> IF f \in taken THEN SavedMemo ELSE owner[f]]
            BY <1>1, <2>2, Zenon
        <3>2. gone \subseteq Editor!FilesOf(SavedMemo) /\ taken \subseteq s.attachments
            BY <3>1
        <3> QED BY <3>1, <3>2, Zenon
    <2> QED BY <2>1, <2>2
<1>4. /\ DOMAIN owner' = DOMAIN owner \ gone
      /\ \A f \in DOMAIN owner' : owner'[f] = IF f \in taken THEN i ELSE owner[f]
      /\ owner' = [f \in DOMAIN owner' |-> owner'[f]]
    BY <1>2, <1>3
<1>5. \A f \in DOMAIN owner \ DOMAIN owner' : owner[f] = i
    BY <1>2, <1>3, <1>4 DEF Editor!FilesOf
<1>6. \A f \in DOMAIN owner' : owner'[f] = owner[f] \/ (f \in s.attachments /\ owner'[f] = i)
    BY <1>3, <1>4
<1>7. Editor!NotYetListed'
    <2>1. Editor!NotYetListed /\ Editor!TypeOK
        BY DEF Editor!Inductive
    <2>2. UNCHANGED <<storedMemo, editor, uploads>>
        BY DEF Editor!ServeHalf
    <2>3. PICK r : /\ saves' = (saves \ {s}) \cup {r}
                   /\ r.at = "broken" /\ r.attachments = s.attachments
        BY HalfServed
    <2>4. i # 0
        BY <2>1, MemosAre DEF Editor!Inductive
    <2>5. \A f \in TabFile : uploads[f].at \in {"none", "asked", "created", "attach"} => f \notin s.attachments
        BY <2>1 DEF Editor!NotYetListed
    <2>6. \A f \in TabFile : uploads[f].at \in {"created", "attach"} =>
                f \in DOMAIN owner' /\ owner'[f] = 0
        BY <1>5, <1>6, <2>1, <2>4, <2>5 DEF Editor!NotYetListed
    <2> QED BY <1>4, <2>1, <2>2, <2>3, <2>5, <2>6 DEF Editor!NotYetListed
<1> QED BY <1>4, <1>5, <1>6, <1>7

\* UpdateMemo, broken off among the attachments or before the row.
LEMMA HalfEditStep ==
    ASSUME Editor!Inductive, NEW s \in saves, memoName = 1, Editor!ServeHalf(s)
    PROVE  Editor!Inductive'
<1>1. /\ s.at = "sent"
      /\ UNCHANGED <<memoName, storedMemo, contentCache, editor, uploads, draftNotes>>
    BY DEF Editor!ServeHalf
<1>2. /\ Editor!TypeOK /\ Editor!OneMode /\ Editor!TextOnItsWay /\ Editor!SentAsWanted
    BY DEF Editor!Inductive
<1>3. Len(memos) = 1 /\ DOMAIN memos = {1} /\ memos[1] \in Editor!MemoType /\ memos \in Seq(Editor!MemoType)
    BY <1>2, MemosAre DEF Editor!OneMode, Editor!TypeOK
<1>4. PICK m : m = [memos[1] EXCEPT !.sure = FALSE]
    OBVIOUS
<1>5. m \in Editor!MemoType /\ m.content = memos[1].content /\ ~m.sure
    BY <1>3, <1>4 DEF Editor!MemoType
<1>6. memos' = [memos EXCEPT ![1] = m]
    <2>1. memoName # 0
        OBVIOUS
    <2> QED BY <1>4, <2>1 DEF Editor!ServeHalf
<1>7. memos' \in Seq(Editor!MemoType) /\ Len(memos') = 1 /\ DOMAIN memos' = {1} /\ memos'[1] = m
    <2>1. /\ [memos EXCEPT ![1] = m] \in Seq(Editor!MemoType)
          /\ Len([memos EXCEPT ![1] = m]) = Len(memos)
        BY <1>3, <1>5, OneReplaced
    <2> QED BY <1>3, <1>6, <2>1
<1>8. PICK r :
        /\ Editor!IsSave(r) /\ r.at = "broken" /\ r.instance = s.instance
        /\ r.content = s.content /\ r.attachments = s.attachments /\ r.mask = s.mask
        /\ r.wanted = s.wanted /\ r.sure = s.sure
        /\ saves' = (saves \ {s}) \cup {r}
        /\ \A q \in saves' : Editor!IsSave(q)
        /\ draftSpent' \in [turns : Nat \ {0}, faults : Nat]
        /\ Editor!OneSave' /\ Editor!FilesApart' /\ Editor!ListIsWanted'
    BY HalfServed
<1>9. PICK i \in {1} : i = IF memoName = 1 THEN 1 ELSE Len(memos) + 1
    OBVIOUS
<1>10. /\ DOMAIN owner' \subseteq DOMAIN owner
       /\ owner' = [f \in DOMAIN owner' |-> owner'[f]]
       /\ \A f \in DOMAIN owner' : owner'[f] = owner[f] \/ (f \in s.attachments /\ owner'[f] = i)
       /\ Editor!NotYetListed'
    BY <1>9, HalfOfFiles
<1>11. Editor!TypeOK'
    <2>1. owner' \in [DOMAIN owner' -> 0 .. Len(memos')] /\ DOMAIN owner' \subseteq TabFile
        <3>1. owner \in [DOMAIN owner -> 0 .. 1] /\ DOMAIN owner \subseteq TabFile
            BY <1>2, <1>3 DEF Editor!TypeOK
        <3>2. \A f \in DOMAIN owner' : owner'[f] \in 0 .. 1
            BY <1>10, <3>1
        <3> QED BY <1>7, <1>10, <3>1, <3>2
    <2> QED BY <1>1, <1>2, <1>7, <1>8, <2>1 DEF Editor!TypeOK
<1>12. Editor!OneMode'
    BY <1>1, <1>7 DEF Editor!OneMode
<1>13. Editor!TextOnItsWay'
    <2>1. \A x : Editor!IsSaved(x)' <=> Editor!IsSaved(x)
        BY <1>3, <1>5, <1>7 DEF Editor!IsSaved
    <2> QED BY <1>1, <1>2, <1>8, <2>1 DEF Editor!TextOnItsWay, Editor!IsOpen
<1>14. Editor!TypedOnce' /\ Editor!SentOnce'
    BY <1>1 DEF Editor!TypedOnce, Editor!SentOnce
<1>15. Editor!SentAsWanted'
    <2>1. \A q, t \in saves' : q.sure /\ t.sure => q = t
        BY <1>2, <1>8 DEF Editor!SentAsWanted
    <2>2. \A q \in saves' : q.at = "sent" => q \in saves
        BY <1>8
    <2>3. ~memos'[1].sure /\ memoName' # 0
        BY <1>1, <1>5, <1>7
    <2> QED BY <1>2, <2>1, <2>2, <2>3 DEF Editor!SentAsWanted
<1>16. Editor!HasItsFiles'
    BY <1>5, <1>7 DEF Editor!HasItsFiles
<1> QED BY <1>8, <1>10, <1>11, <1>12, <1>13, <1>14, <1>15, <1>16 DEF Editor!Inductive

\* CreateMemo, broken off among the attachments: the memo stays.
LEMMA HalfNewStep ==
    ASSUME Editor!Inductive, NEW s \in saves, memoName = 0, Editor!ServeHalf(s)
    PROVE  Editor!Inductive'
<1>1. /\ s.at = "sent"
      /\ UNCHANGED <<memoName, storedMemo, contentCache, editor, uploads, draftNotes>>
    BY DEF Editor!ServeHalf
<1>2. /\ Editor!TypeOK /\ Editor!OneMode /\ Editor!FilesApart
      /\ Editor!SentAsWanted /\ Editor!HasItsFiles
    BY DEF Editor!Inductive
<1>3. PICK n \in Nat : n = Len(memos)
    BY <1>2, MemosAre
<1>4. /\ DOMAIN memos = 1 .. n /\ memos \in Seq(Editor!MemoType)
      /\ \A j \in DOMAIN memos : memos[j] \in Editor!MemoType
    BY <1>2, <1>3, MemosAre DEF Editor!TypeOK
<1>5. PICK m : m = [content |-> s.content, wanted |-> s.wanted, sure |-> FALSE]
    OBVIOUS
<1>6. m \in Editor!MemoType /\ m.content = s.content /\ ~m.sure
    <2>1. Editor!IsSave(s)
        BY <1>2, SaveIs
    <2> QED BY <1>5, <2>1 DEF Editor!MemoType, Editor!IsSave
<1>7. PICK p : p = LessSure(s)
    OBVIOUS
<1>8. memos' = Append(p, m)
    BY <1>5, <1>7 DEF Editor!ServeHalf, LessSure
<1>9. /\ DOMAIN p = DOMAIN memos /\ p = [j \in DOMAIN p |-> p[j]]
      /\ \A j \in DOMAIN memos :
            /\ p[j] \in Editor!MemoType /\ p[j].content = memos[j].content /\ p[j].wanted = memos[j].wanted
            /\ p[j].sure => memos[j].sure /\ (s.sure \/ Editor!FilesOf(j) \cap s.attachments = {})
    <2>1. DOMAIN p = DOMAIN memos /\ p = [j \in DOMAIN p |-> p[j]]
        BY <1>7 DEF LessSure
    <2>2. \A j \in DOMAIN memos : memos[j] \in Editor!MemoType
        BY <1>4
    <2> QED BY <1>7, <2>1, <2>2, OthersLessSure
<1>10. /\ memos' \in Seq(Editor!MemoType) /\ Len(memos') = n + 1 /\ DOMAIN memos' = 1 .. n + 1
       /\ \A j \in DOMAIN memos : memos'[j] = p[j]
       /\ memos'[n + 1] = m
    BY <1>3, <1>4, <1>6, <1>8, <1>9, MemoAdded
<1>11. PICK r :
        /\ Editor!IsSave(r) /\ r.at = "broken" /\ r.instance = s.instance
        /\ r.content = s.content /\ r.attachments = s.attachments /\ r.mask = s.mask
        /\ r.wanted = s.wanted /\ r.sure = s.sure
        /\ saves' = (saves \ {s}) \cup {r}
        /\ \A q \in saves' : Editor!IsSave(q)
        /\ draftSpent' \in [turns : Nat \ {0}, faults : Nat]
        /\ Editor!OneSave' /\ Editor!FilesApart' /\ Editor!ListIsWanted'
    BY HalfServed
<1>12. PICK i : i = IF memoName = 1 THEN 1 ELSE Len(memos) + 1
    OBVIOUS
<1>13. i = n + 1
    BY <1>3, <1>12
<1>14. /\ DOMAIN owner' \subseteq DOMAIN owner
       /\ owner' = [f \in DOMAIN owner' |-> owner'[f]]
       /\ \A f \in DOMAIN owner \ DOMAIN owner' : owner[f] = i
       /\ \A f \in DOMAIN owner' : owner'[f] = owner[f] \/ (f \in s.attachments /\ owner'[f] = i)
       /\ Editor!NotYetListed'
    BY <1>12, HalfOfFiles
<1>15. \A f \in DOMAIN owner : f \in TabFile /\ owner[f] \in 0 .. n
    BY <1>2, <1>3 DEF Editor!TypeOK
<1>16. DOMAIN owner' = DOMAIN owner
    BY <1>13, <1>14, <1>15
<1>17. Editor!TypeOK'
    <2>1. owner' \in [DOMAIN owner' -> 0 .. Len(memos')] /\ DOMAIN owner' \subseteq TabFile
        <3>1. \A f \in DOMAIN owner' : owner'[f] \in 0 .. n + 1
            BY <1>13, <1>14, <1>15
        <3> QED BY <1>10, <1>14, <1>15, <3>1
    <2> QED BY <1>1, <1>2, <1>10, <1>11, <2>1 DEF Editor!TypeOK
<1>18. Editor!OneMode'
    <2>1. memoName' # 1 /\ memoName' = 0
        BY <1>1
    <2> QED BY <1>1, <1>2, <1>11, <2>1 DEF Editor!OneMode
<1>19. DOMAIN memos' = DOMAIN memos \cup {n + 1} /\ n + 1 \notin DOMAIN memos
    BY <1>4, <1>10
<1>20. Editor!TextOnItsWay' /\ Editor!TypedOnce' /\ Editor!SentOnce'
    <2>1. /\ \A j \in DOMAIN memos : memos'[j].content = memos[j].content
          /\ memos'[n + 1].content = s.content
        BY <1>6, <1>9, <1>10
    <2>2. r.at # "sent" /\ UNCHANGED <<memoName, contentCache, editor, draftNotes>>
        BY <1>1, <1>11
    <2> QED BY <1>1, <1>11, <1>19, <2>1, <2>2, NewMemoText
<1>21. s.sure => \A f \in s.attachments \cap DOMAIN owner : owner[f] = 0
    BY <1>1, <1>2 DEF Editor!SentAsWanted
<1>22. Editor!SentAsWanted'
    <2>1. \A q, t \in saves' : q.sure /\ t.sure => q = t
        BY <1>2, <1>11 DEF Editor!SentAsWanted
    <2>2. \A q \in saves' : q.at = "sent" => q \in saves /\ q.attachments \cap s.attachments = {}
        BY <1>2, <1>11 DEF Editor!FilesApart
    <2>3. memoName' # 1
        BY <1>1
    <2> QED BY <1>2, <1>14, <2>1, <2>2, <2>3 DEF Editor!SentAsWanted
<1>23. Editor!HasItsFiles'
    <2>1. ASSUME NEW j \in DOMAIN memos, memos'[j].sure
          PROVE  Editor!FilesOf(j)' = memos'[j].wanted
        <3>1. memos[j].sure /\ (s.sure \/ Editor!FilesOf(j) \cap s.attachments = {})
            BY <1>9, <1>10, <2>1
        <3>2. j # 0 /\ j # i
            BY <1>4, <1>13
        <3>3. Editor!FilesOf(j) \cap s.attachments = {}
            BY <1>21, <3>1, <3>2 DEF Editor!FilesOf
        <3>4. Editor!FilesOf(j)' = Editor!FilesOf(j)
            BY <1>14, <1>16, <3>2, <3>3 DEF Editor!FilesOf
        <3>5. Editor!FilesOf(j) = memos[j].wanted
            BY <1>2, <3>1 DEF Editor!HasItsFiles
        <3>6. memos'[j].wanted = memos[j].wanted
            BY <1>9, <1>10
        <3> QED BY <3>4, <3>5, <3>6
    <2>2. ~memos'[n + 1].sure
        BY <1>6, <1>10
    <2> QED BY <1>19, <2>1, <2>2 DEF Editor!HasItsFiles
<1> QED BY <1>11, <1>14, <1>17, <1>18, <1>20, <1>22, <1>23 DEF Editor!Inductive

\* Every step of the editor keeps its invariant.
LEMMA EditorStep == Editor!Inductive /\ [Editor!Next]_(Editor!editorVars) => Editor!Inductive'
<1> SUFFICES ASSUME Editor!Inductive, [Editor!Next]_(Editor!editorVars)
             PROVE  Editor!Inductive'
    OBVIOUS
<1>1. ASSUME NEW t \in Text \cup {""}, Editor!Type(t)
      PROVE  Editor!Inductive'
    BY <1>1, TypeStep
<1>2. ASSUME NEW f \in TabFile,
             \/ Editor!PickFile(f) \/ Editor!DropFile(f) \/ Editor!CreateAttachment(f)
             \/ Editor!Picked(f) \/ Editor!Dropped(f) \/ Editor!UpdateAttachment(f)
             \/ Editor!Attached(f) \/ Editor!UploadFails(f) \/ Editor!RemoveChip(f)
      PROVE  Editor!Inductive'
    BY <1>2, PickFileStep, DropFileStep, CreateAttachmentStep, PickedStep, DroppedStep,
       UpdateAttachmentStep, AttachedStep, UploadFailsStep, RemoveChipStep
<1>3. CASE Editor!ClickSave
    <2>1. /\ Editor!IsOpen /\ ~editor.isRequesting /\ ~editor.isUploadingAttachment
          /\ Editor!HandleSave(FALSE)
        BY <1>3 DEF Editor!ClickSave, Editor!AllowSave
    <2> QED BY <2>1, NothingToSaveStep, HandleSaveStep
<1>4. CASE Editor!KeySave
    <2>1. Editor!IsOpen /\ ~editor.isRequesting /\ Editor!HandleSave(TRUE)
        BY <1>4 DEF Editor!KeySave
    <2> QED BY <2>1, NothingToSaveStep, HandleSaveStep
<1>5. ASSUME NEW s \in saves,
             Editor!ServeSave(s) \/ Editor!ServeHalf(s) \/ Editor!Saved(s) \/ Editor!SaveFails(s)
      PROVE  Editor!Inductive'
    <2>1. memoName = 0 \/ memoName = 1
        BY DEF Editor!Inductive, Editor!TypeOK
    <2> QED BY <1>5, <2>1, ServeNewStep, ServeEditStep, HalfNewStep, HalfEditStep,
           SavedStep, SaveFailsStep
<1>6. CASE Editor!Cancel \/ Editor!Leave \/ Editor!Open \/ Editor!Reload
    BY <1>6, CancelStep, LeaveStep, OpenStep, ReloadStep
<1>7. CASE UNCHANGED Editor!editorVars
    <2>1. UNCHANGED <<memoName, memos, owner, storedMemo, contentCache, editor, uploads, saves,
                      draftSpent, draftNotes>>
        BY <1>7 DEF Editor!editorVars
    <2>2. Editor!TypeOK'
        BY <2>1 DEF Editor!Inductive, Editor!TypeOK
    <2>3. Editor!OneMode' /\ Editor!OneSave'
        BY <2>1 DEF Editor!Inductive, Editor!OneMode, Editor!OneSave, Editor!IsOpen, Editor!Uploading
    <2>4. Editor!TextOnItsWay' /\ Editor!TypedOnce' /\ Editor!SentOnce'
        BY <2>1, TextsKept DEF Editor!Inductive
    <2>5. /\ Editor!NotYetListed' /\ Editor!FilesApart' /\ Editor!ListIsWanted'
          /\ Editor!SentAsWanted' /\ Editor!HasItsFiles'
        BY <2>1, FilesKept DEF Editor!Inductive
    <2> QED BY <2>2, <2>3, <2>4, <2>5 DEF Editor!Inductive
<1> QED BY <1>1, <1>2, <1>3, <1>4, <1>5, <1>6, <1>7 DEF Editor!Next

---------------------------------------------------------------------------
(* The tab: a behaviour of it is one of each part.                         *)

\* A step of the tab is a step of a part or leaves it alone.
LEMMA TabStep ==
    ASSUME [Next]_vars
    PROVE  /\ [Pages!Next]_(Pages!pageVars) /\ [Tasks!Next]_(Tasks!taskVars)
           /\ [Editor!Next]_(Editor!editorVars)
<1> USE DEF listVars, taskListVars, memoEditorVars, Pages!pageVars, Pages!list, Tasks!taskVars,
        Editor!editorVars
<1>1. CASE UNCHANGED vars
    BY <1>1 DEF vars
<1>2. CASE Next
    BY <1>2 DEF Next, OfList
<1> QED BY <1>1, <1>2

\* The list of memos, whatever the page asks for, scrolls, writes and misses.
THEOREM PagesInductive == Spec => []Pages!Inductive
<1>1. Init => Pages!Inductive
    BY PagesInit DEF Init
<1>2. Pages!Inductive /\ [Next]_vars => Pages!Inductive'
    BY PagesStep, TabStep
<1> QED BY <1>1, <1>2, PTL DEF Spec

\* The task boxes, however many clicks there are and in whatever order they end.
THEOREM TasksInductive == Spec => []Tasks!Inductive
<1>1. Init => Tasks!Inductive
    BY TasksInit DEF Init
<1>2. Tasks!Inductive /\ [Next]_vars => Tasks!Inductive'
    BY TasksStep, TabStep
<1> QED BY <1>1, <1>2, PTL DEF Spec

\* The editor, whatever is typed, uploaded, saved, left and lost, in any order.
THEOREM EditorInductive == Spec => []Editor!Inductive
<1>1. Init => Editor!Inductive
    BY EditorInit DEF Init
<1>2. Editor!Inductive /\ [Next]_vars => Editor!Inductive'
    BY EditorStep, TabStep
<1> QED BY <1>1, <1>2, PTL DEF Spec

\* With no listing under way the list is the one of the page's filter
\* (PagedMemoList.tsx), for any filters and any interleaving of refreshes,
\* scrolls and checks.
THEOREM ListFollowsFilter == Spec => []ListIsOfFilter
<1>1. Pages!Inductive => ListIsOfFilter
    BY DEF Pages!Inductive, Pages!AsksForFilter, ListIsOfFilter, Pages!ListIsOfFilter
<1> QED BY <1>1, PagesInductive, PTL

\* A list without a next page has every memo of its filter, for any size of a
\* page and any number of memos.
THEOREM EndHasAll == Spec => []EndOfListHasAll
<1>1. Pages!Inductive => EndOfListHasAll
    BY DEF Pages!Inductive, Pages!NoneLeftOut, EndOfListHasAll, Pages!EndOfListHasAll
<1> QED BY <1>1, PagesInductive, PTL

\* With nothing under way the tab shows what the server has (memoStore), but for
\* a memo that the notes name.
THEOREM ShownFollowsStored == Spec => []ShownIsStored
<1>1. Pages!Inductive => ShownIsStored
    BY CallIs DEF Pages!Inductive, Pages!TypeOK, Pages!OnItsWay, Pages!Shown, ShownIsStored,
       Pages!ShownIsStored
<1> QED BY <1>1, PagesInductive, PTL

\* When every click is done the boxes show what is saved (TaskListItem.tsx).
THEOREM BoxesFollow == Spec => []BoxesShowContent
<1>1. Tasks!Inductive => BoxesShowContent
    BY DEF Tasks!Inductive, Tasks!AnswerIsSaved, BoxesShowContent, Tasks!BoxesShowContent
<1> QED BY <1>1, TasksInductive, PTL

\* Clicks one after the other are all saved.
THEOREM ClicksSaved == Spec => []ClicksAreSaved
<1>1. Tasks!Inductive => ClicksAreSaved
    BY DEF Tasks!Inductive, Tasks!CarriesAll, ClicksAreSaved, Tasks!ClicksAreSaved
<1> QED BY <1>1, TasksInductive, PTL

\* What was typed last is not lost (handleContentChange and handleSaveBtnClick
\* in MemoEditor/index.tsx), for any texts and any number of saves and openings.
THEOREM TextIsKept == Spec => []TextKept
<1>1. ASSUME Editor!Inductive
      PROVE  TextKept
    <2>1. Editor!IsOpen \/ ~Editor!IsOpen
        OBVIOUS
    <2> QED BY <1>1, <2>1 DEF Editor!Inductive, Editor!TextOnItsWay, Editor!IsSaved, TextKept,
            Editor!TextKept
<1> QED BY <1>1, EditorInductive, PTL

\* A text makes one memo, by button or by key: an edited memo stays the only one,
\* and a new one is not sent again while its save is under way.
THEOREM SavedAtMostOnce == Spec => []SavedOnce
<1>1. ASSUME Editor!Inductive
      PROVE  SavedOnce
    <2>1. CASE memoName = 0
        BY <1>1, <2>1 DEF Editor!Inductive, Editor!SentOnce, SavedOnce
    <2>2. CASE memoName = 1
        BY <1>1, <2>2, MemosAre DEF Editor!Inductive, SavedOnce, Editor!SavedOnce
    <2> QED BY <1>1, <2>1, <2>2 DEF Editor!Inductive, Editor!TypeOK
<1> QED BY <1>1, EditorInductive, PTL

\* A memo has the files its writer chose, however uploads, saves and removals
\* follow each other, but for the memos the notes are not sure of.
THEOREM MemoGetsItsFiles == Spec => []MemoHasItsFiles
<1>1. Editor!Inductive => MemoHasItsFiles
    BY DEF Editor!Inductive, Editor!HasItsFiles, MemoHasItsFiles, Editor!MemoHasItsFiles
<1> QED BY <1>1, EditorInductive, PTL
=============================================================================

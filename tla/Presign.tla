------------------------------ MODULE Presign ------------------------------
(***************************************************************************)
(* The runner that renews the presigned links of attachments in S3 before  *)
(* they expire (server/runner/s3presign/runner.go), running next to the    *)
(* requests that upload, change and delete attachments.  It wakes up when   *)
(* the server starts and every half day after that, and pages through the  *)
(* attachments with an offset.                                             *)
(*                                                                         *)
(* Time is counted in half days, rounded: a link of age n was signed at    *)
(* most n half days ago.  A pass takes much less than half a day.          *)
(***************************************************************************)
EXTENDS Naturals, Sequences, SequencesExt

CONSTANTS
    File,       \* ids of attachments in S3
    BatchSize,  \* attachments in a page
    KeepFor,    \* half days a link is left alone: 8
    ValidFor    \* half days a link is valid: 10

\* A link that is left alone outlives the next pass.
Periods ==
    /\ BatchSize \in Nat \ {0} /\ KeepFor \in Nat /\ ValidFor \in Nat
    /\ KeepFor + 1 < ValidFor

VARIABLES
    listed, \* the attachments in the order they are listed: last changed first
    used,   \* ids handed out
    age,    \* the age of each link in half days; not counted beyond ValidFor
    page,   \* what is left of the page the pass is on
    offset, \* where the pass will list next
    running,\* whether a pass is going on
    missed  \* history: attachments no pass has reached since one may have missed them

vars == <<listed, used, age, page, offset, running, missed>>

Present == ToSet(listed)

\* The links the pass has still to come to.
Ahead == ToSet(page) \cup {listed[i] : i \in offset + 1 .. Len(listed)}

Init ==
    /\ listed = <<>>
    /\ used = {}
    /\ age = [f \in File |-> 0]
    /\ page = <<>>
    /\ offset = 0
    /\ running = FALSE
    /\ missed = {}

---------------------------------------------------------------------------
(* Requests.                                                               *)

Upload ==
    /\ \E f \in File \ used :
        /\ used' = used \cup {f}
        /\ listed' = <<f>> \o listed
        /\ age' = [age EXCEPT ![f] = 0]
    /\ UNCHANGED <<page, offset, running, missed>>

\* Everything behind a deleted attachment moves up in the list.
Delete ==
    /\ \E i \in DOMAIN listed :
        /\ listed' = RemoveAt(listed, i)
        /\ missed' = IF running THEN Present' ELSE missed \ {listed[i]}
    /\ UNCHANGED <<used, age, page, offset, running>>

\* UpdateAttachment sets the time of the last change, and so does setting the
\* attachments of a memo.
Rename ==
    /\ \E i \in DOMAIN listed :
        /\ listed' = <<listed[i]>> \o RemoveAt(listed, i)
        /\ missed' = IF running THEN missed \cup {listed[i]} ELSE missed
    /\ UNCHANGED <<used, age, page, offset, running>>

---------------------------------------------------------------------------
(* The runner.                                                             *)

Older(n) ==
    [f \in File |-> IF f \notin Present THEN age[f]
                    ELSE IF age[f] + n < ValidFor THEN age[f] + n ELSE ValidFor]

WakeUp ==
    /\ ~running
    /\ running' = TRUE
    /\ age' = Older(1)
    /\ offset' = 0
    /\ UNCHANGED <<listed, used, page, missed>>

\* The server stops, in a pass or between two, and starts again `since` half
\* days after the last pass was begun: a pass at once, and the next half a day
\* later.  What the broken pass had ahead was missed unless the start follows at once, and
\* everything when the server was down for a day.
Restart ==
    /\ \E since \in 0 .. ValidFor :
        /\ age' = Older(since)
        /\ missed' = CASE since = 0 -> missed
                       [] since = 1 -> IF running THEN missed \cup (Ahead \cap Present) ELSE missed
                       [] OTHER -> Present
    /\ running' = TRUE
    /\ page' = <<>>
    /\ offset' = 0
    /\ UNCHANGED <<listed, used>>

PageAt(o) ==
    SubSeq(listed, o + 1, IF o + BatchSize < Len(listed) THEN o + BatchSize ELSE Len(listed))

\* Mutant of ListPage: the offset moves one too far.
ListFar ==
    /\ running /\ page = <<>>
    /\ LET next == PageAt(offset) IN
        IF next = <<>>
        THEN /\ running' = FALSE
             /\ UNCHANGED <<page, offset>>
        ELSE /\ page' = next
             /\ offset' = offset + Len(next) + 1
             /\ UNCHANGED running
    /\ UNCHANGED <<listed, used, age, missed>>

\* The pass ends with the first page that is empty.
ListPage ==
    /\ running /\ page = <<>>
    /\ LET next == PageAt(offset) IN
        IF next = <<>>
        THEN /\ running' = FALSE
             /\ UNCHANGED <<page, offset>>
        ELSE /\ page' = next
             /\ offset' = offset + Len(next)
             /\ UNCHANGED running
    /\ UNCHANGED <<listed, used, age, missed>>

\* The storage setting or the next page cannot be read: the pass is given up.
ListFails ==
    /\ running /\ page = <<>>
    /\ running' = FALSE
    /\ missed' = missed \cup (Ahead \cap Present)
    /\ UNCHANGED <<listed, used, age, page, offset>>

\* Whether the clock is past the time a link is left alone: between two
\* wake-ups a little more or less than half a day passes.
Due(f) == age[f] >= KeepFor

\* Mutant of Keep: the link is left alone until it has less than a wake-up to
\* live.
KeepLonger(f) == age[f] < ValidFor

Keep(f) == age[f] <= KeepFor

\* One attachment of the page: kept, renewed, or passed over when signing or
\* the update fails.
Renew ==
    LET f == Head(page) IN
    /\ running /\ page # <<>>
    /\ page' = Tail(page)
    /\ \/ Keep(f) /\ UNCHANGED age /\ missed' = missed \ {f}
       \/ Due(f) /\ age' = [age EXCEPT ![f] = 0] /\ missed' = missed \ {f}
       \/ Due(f) /\ missed' = missed \cup {f} /\ UNCHANGED age
    /\ UNCHANGED <<listed, used, offset, running>>

Next ==
    \/ Upload \/ Delete \/ Rename
    \/ WakeUp \/ Restart \/ ListPage \/ ListFails \/ Renew

Spec == Init /\ [][Next]_vars

---------------------------------------------------------------------------
(* Properties.                                                             *)

\* Type invariant.
TypeOK ==
    /\ listed \in Seq(File) /\ IsInjective(listed)
    /\ Present \subseteq used /\ used \subseteq File
    /\ age \in [File -> 0 .. ValidFor]
    /\ page \in Seq(File) /\ Len(page) <= BatchSize
    /\ offset \in Nat
    /\ running \in BOOLEAN
    /\ missed \subseteq File

\* A link is renewed before it expires, whatever is uploaded, changed and
\* deleted meanwhile and whenever the server restarts, unless a pass missed it
\* and none has reached it since.
NeverExpired == \A f \in Present \ missed : age[f] < ValidFor

\* A pass of CheckAndPresign renews every link that would not live to the next
\* but one, except of attachments that could not be signed, that were moved out
\* of its reach (a delete may move any past the offset, a change its own) or
\* that it had still ahead when it was given up.
Ends == running /\ ~running'
PassReachesAll ==
    [][Ends => \A f \in Present \ missed' : age[f] <= KeepFor]_vars

---------------------------------------------------------------------------
(* The inductive invariant.                                                *)

Inductive ==
    /\ TypeOK
    /\ ~running => page = <<>>
    /\ \A f \in Present \ missed :
        \/ age[f] <= KeepFor
        \/ running /\ f \in Ahead /\ age[f] <= KeepFor + 1
=============================================================================

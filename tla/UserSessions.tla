---------------------------- MODULE UserSessions ----------------------------
(***************************************************************************)
(* The web sessions of one user: the SESSIONS cell of user_setting         *)
(* (SettingCell), the requests that sign in, authenticate, refresh, list   *)
(* and revoke sessions (server/router/api/v1/auth_service.go, acl.go,      *)
(* user_service.go) and the store calls they make one after another        *)
(* (store/user_setting.go).                                                *)
(*                                                                         *)
(* A list of sessions is a function from Session to the last access time,  *)
(* None for a session that is not in the list; the order of the list and   *)
(* the other fields of a session decide nothing.                           *)
(***************************************************************************)
EXTENDS SettingCell

CONSTANTS
    Session,    \* session ids
    Window,     \* SessionSlidingDuration
    MaxClock    \* bound on the clock, for model checking

ASSUME NoneIsNoTime == None \notin Nat
ASSUME WindowIsNat == Window \in Nat

VARIABLES
    req,    \* the request each goroutine serves, and how far it is
    stamp,  \* the time.Now() each store call was given
    clock,
    issued, \* session ids handed out in a cookie
    alone,  \* history: no other store call overlapped the current one
    floor,  \* history: the access time a session is known to have
    lastUse,\* history: the last time a session was signed in or refreshed
    gone    \* history: sessions whose removal no other call overlapped

history == <<alone, floor, lastUse, gone>>
vars == <<cellVars, req, stamp, clock, issued, history>>

Time == Nat
Empty == [s \in Session |-> None]
List == [Session -> Time \cup {None}]

\* What the SESSIONS row holds, and what a goroutine holds of it: no row and
\* an empty list are the same to every reader.
View(p) == IF ref[p] = None THEN Empty ELSE heap[ref[p]]

---------------------------------------------------------------------------
(* Requests.  "call" stands for every method that needs a session and does *)
(* nothing with the sessions; DeleteSession (sign out) is a "revoke" of    *)
(* the session it came with.                                               *)

Kind == {"signin", "call", "current", "list", "revoke"}
Stage == {"auth", "touch", "handler"}
Request == [kind : Kind, stage : Stage, by : Session, on : Session]

ASSUME NoneIsNoValue == None \notin List /\ None \notin Request

\* What the current store call does, to session by (to session on for a
\* removal).
Handles(p, kind) == req[p].stage = "handler" /\ req[p].kind = kind
Touches(p) == req[p].stage = "touch" \/ Handles(p, "current")
Adds(p) == Handles(p, "signin")
Removes(p) == Handles(p, "revoke")

\* Mutants of Valid: no sliding window, and a window one tick short.
ValidForever(p, s) == View(p)[s] # None

ValidTooShort(p, s) == View(p)[s] # None /\ clock < View(p)[s] + Window

\* authenticateBySession and validateUserSession: a session is good for
\* Window after its last access.
Valid(p, s) == View(p)[s] # None /\ ~(View(p)[s] + Window < clock)

Init ==
    /\ CellInit
    /\ req = [p \in Proc |-> None]
    /\ stamp = [p \in Proc |-> 0]
    /\ clock = 0
    /\ issued = {}
    /\ alone = [p \in Proc |-> FALSE]
    /\ floor = Empty
    /\ lastUse = Empty
    /\ gone = {}

\* A store call starts: its timestamp is taken, and it overlaps the calls in
\* flight.
StartCall(p) ==
    /\ stamp' = [stamp EXCEPT ![p] = clock]
    /\ alone' = [q \in Proc |->
                    IF q = p THEN \A o \in Proc \ {p} : ~Busy(o)
                    ELSE alone[q] /\ ~Busy(q)]

EndCall(p) ==
    /\ stamp' = [stamp EXCEPT ![p] = 0]
    /\ alone' = [alone EXCEPT ![p] = FALSE]

---------------------------------------------------------------------------
(* Requests arrive.                                                        *)

\* CreateSession: a fresh id from GenerateSessionID.
SignIn(p) ==
    /\ ~Busy(p)
    /\ \E s \in Session \ issued :
        /\ req' = [req EXCEPT ![p] =
                      [kind |-> "signin", stage |-> "handler", by |-> s, on |-> s]]
        /\ issued' = issued \cup {s}
        /\ lastUse' = [lastUse EXCEPT ![s] = clock]
    /\ Goto(p, "get")
    /\ StartCall(p)
    /\ UNCHANGED <<row, cached, heap, ref, draft, clock, floor, gone>>

\* A request with the cookie of session by; a revocation names a session.
Arrive(p) ==
    /\ ~Busy(p)
    /\ \E kind \in Kind \ {"signin"}, by \in issued, on \in issued :
        /\ kind # "revoke" => on = by
        /\ req' = [req EXCEPT ![p] =
                      [kind |-> kind, stage |-> "auth", by |-> by, on |-> on]]
    /\ Goto(p, "get")
    /\ StartCall(p)
    /\ UNCHANGED <<row, cached, heap, ref, draft, clock, issued, floor, lastUse, gone>>

---------------------------------------------------------------------------
(* The steps of a store call.                                              *)

\* The request goes on to its next store call; known is what is known of the
\* sessions so far, and a call that removes one ends what is known of it.
NextCall(p, stage, known) ==
    LET r == req[p] IN
    /\ req' = [req EXCEPT ![p] = [kind |-> r.kind, stage |-> stage, by |-> r.by, on |-> r.on]]
    /\ StartCall(p)
    /\ lastUse' = IF stage = "touch" \/ r.kind = "current"
                  THEN [lastUse EXCEPT ![r.by] = clock] ELSE lastUse
    /\ floor' = IF stage = "handler" /\ r.kind = "revoke"
                THEN [known EXCEPT ![r.on] = None] ELSE known

EndRequest(p, known) ==
    /\ req' = [req EXCEPT ![p] = None]
    /\ EndCall(p)
    /\ floor' = known
    /\ UNCHANGED lastUse

\* The interceptor goes on with the handler, whatever became of the refresh.
HasHandler(p) == req[p].stage = "touch" /\ req[p].kind # "call"

Continue(p, known) ==
    IF HasHandler(p) THEN NextCall(p, "handler", known) ELSE EndRequest(p, known)

Onward(p) == IF HasHandler(p) THEN "get" ELSE "idle"

ReadStep(p) ==
    /\ Get(p)
    /\ UNCHANGED <<req, stamp, clock, issued, history>>

Accept(p) ==
    /\ pc[p] = "got"
    /\ req[p].stage = "auth"
    /\ Valid(p, req[p].by)
    /\ Return(p, "get")
    /\ NextCall(p, "touch", floor)
    /\ UNCHANGED <<clock, issued, gone>>

Reject(p) ==
    /\ pc[p] = "got"
    /\ req[p].stage = "auth"
    /\ ~Valid(p, req[p].by)
    /\ Return(p, "idle")
    /\ EndRequest(p, floor)
    /\ UNCHANGED <<clock, issued, gone>>

\* ListUserSessions
Listed(p) ==
    /\ pc[p] = "got"
    /\ Handles(p, "list")
    /\ Return(p, "idle")
    /\ EndRequest(p, floor)
    /\ UNCHANGED <<clock, issued, gone>>

\* Mutant of Touch: the time of a zero timestamp is written.
TouchZero(p) ==
    LET v == [View(p) EXCEPT ![req[p].by] = IF @ = None THEN None ELSE 0] IN
    /\ pc[p] = "got"
    /\ Touches(p)
    /\ Prepare(p, v, IF ref[p] = None THEN heap ELSE [heap EXCEPT ![ref[p]] = v])
    /\ UNCHANGED <<req, stamp, clock, issued, history>>

\* UpdateUserSessionLastAccessed changes the session it finds IN the object
\* it holds, and writes the list back whether or not it found it.
Touch(p) ==
    LET s == req[p].by
        v == IF View(p)[s] = None THEN View(p)
             ELSE [View(p) EXCEPT ![s] = stamp[p]]
    IN
    /\ pc[p] = "got"
    /\ Touches(p)
    /\ Prepare(p, v, IF ref[p] = None THEN heap ELSE [heap EXCEPT ![ref[p]] = v])
    /\ UNCHANGED <<req, stamp, clock, issued, history>>

\* Mutant of Add: the list is replaced and not extended.
AddAlone(p) ==
    /\ pc[p] = "got"
    /\ Adds(p)
    /\ Prepare(p, [Empty EXCEPT ![req[p].by] = stamp[p]], heap)
    /\ UNCHANGED <<req, stamp, clock, issued, history>>

\* AddUserSession and RemoveUserSession build a new list.
Add(p) ==
    /\ pc[p] = "got"
    /\ Adds(p)
    /\ Prepare(p, [View(p) EXCEPT ![req[p].by] = stamp[p]], heap)
    /\ UNCHANGED <<req, stamp, clock, issued, history>>

Remove(p) ==
    /\ pc[p] = "got"
    /\ Removes(p)
    /\ Prepare(p, [View(p) EXCEPT ![req[p].on] = None], heap)
    /\ UNCHANGED <<req, stamp, clock, issued, history>>

WriteRow(p) ==
    /\ Exec(p) \/ ExecFails(p)
    /\ UNCHANGED <<req, stamp, clock, issued, history>>

\* The call succeeds.  When no other call overlapped it, what it wrote is
\* what everyone reads from now on.
Done(p) ==
    LET s == req[p].by
        known == IF alone[p] /\ (Adds(p) \/ Touches(p)) /\ heap[ref[p]][s] # None
                 THEN [floor EXCEPT ![s] = stamp[p]] ELSE floor
    IN
    /\ SetCache(p, Onward(p))
    /\ Continue(p, known)
    /\ gone' = IF alone[p] /\ Removes(p) THEN gone \cup {req[p].on} ELSE gone
    /\ UNCHANGED <<clock, issued>>

\* A store call fails: authentication refuses the request, a failed refresh
\* is ignored, a handler reports or logs the error.
Fail(p) ==
    /\ pc[p] = "error"
    /\ Return(p, Onward(p))
    /\ Continue(p, floor)
    /\ UNCHANGED <<clock, issued, gone>>

---------------------------------------------------------------------------

Expire ==
    /\ Evict
    /\ UNCHANGED <<req, stamp, clock, issued, history>>

Restart ==
    /\ CellRestart
    /\ req' = [p \in Proc |-> None]
    /\ stamp' = [p \in Proc |-> 0]
    /\ alone' = [p \in Proc |-> FALSE]
    /\ UNCHANGED <<clock, issued, floor, lastUse, gone>>

Tick ==
    /\ clock < MaxClock
    /\ clock' = clock + 1
    /\ UNCHANGED <<cellVars, req, stamp, issued, history>>

Step(p) ==
    \/ SignIn(p)
    \/ Arrive(p)
    \/ ReadStep(p)
    \/ Accept(p)
    \/ Reject(p)
    \/ Listed(p)
    \/ Touch(p)
    \/ Add(p)
    \/ Remove(p)
    \/ WriteRow(p)
    \/ Done(p)
    \/ Fail(p)

Next ==
    \/ \E p \in Proc : Step(p)
    \/ Expire
    \/ Restart
    \/ Tick

Spec == Init /\ [][Next]_vars

---------------------------------------------------------------------------
(* Types.                                                                  *)

\* Type invariant: every pointer leads to a list, and a goroutine carries a
\* request exactly while it is in a store call.
TypeOK ==
    /\ row \in List \cup {None}
    /\ cached \in Ref \cup {None}
    /\ heap \in [Ref -> List \cup {None}]
    /\ pc \in [Proc -> PC]
    /\ ref \in [Proc -> Ref \cup {None}]
    /\ draft \in [Proc -> List \cup {None}]
    /\ req \in [Proc -> Request \cup {None}]
    /\ stamp \in [Proc -> Time]
    /\ clock \in Time
    /\ issued \in SUBSET Session
    /\ alone \in [Proc -> BOOLEAN]
    /\ floor \in List
    /\ lastUse \in List
    /\ gone \in SUBSET Session

---------------------------------------------------------------------------
(* What the requests promise.                                              *)

\* A session that was revoked while no other store call of the user was in
\* flight never authenticates a request again: neither a cache entry, nor
\* a call that writes the list back, nor a restart brings it back.
RevokedStayRevoked ==
    [][\A p \in Proc : Accept(p) => req[p].by \notin gone]_vars

\* A session whose sign-in or last refresh no other store call overlapped,
\* and that nobody revoked since, is accepted for the whole sliding window,
\* whatever requests run at the same time, fail or are cut off by a restart.
ActiveSessionAccepted ==
    [][\A p \in Proc : Reject(p) =>
          LET s == req[p].by IN floor[s] = None \/ floor[s] + Window < clock]_vars

\* A session nobody signed in with or used for longer than the window is
\* refused, however stale the list the request reads.
IdleSessionRefused ==
    [][\A p \in Proc : Accept(p) =>
          LET s == req[p].by IN lastUse[s] # None /\ clock <= lastUse[s] + Window]_vars

InRow(s) == row # None /\ row[s] # None

\* A session enters the stored list by its own sign-in and by nothing else:
\* refreshing a session "updates the last accessed time" and adds nothing.
OnlySignInAdds ==
    [][\A s \in Session :
          InRow(s)' /\ ~InRow(s) =>
            \E p \in Proc :
                Busy(p) /\ Adds(p) /\ req[p].by = s /\ WriteRow(p)]_vars

---------------------------------------------------------------------------
(* The inductive invariant behind the three promises.                      *)

\* What a goroutine holds depends on where it is.
Placed(p) ==
    /\ Busy(p) <=> req[p] # None
    /\ pc[p] \notin {"fill", "refill", "got", "set"} => ref[p] = None
    /\ pc[p] \in {"fill", "refill", "set"} => ref[p] # None
    /\ draft[p] # None <=> pc[p] = "put"
    /\ pc[p] \in {"put", "set"} => Touches(p) \/ Adds(p) \/ Removes(p)
    /\ Busy(p) =>
        /\ req[p].by \in issued /\ req[p].on \in issued
        /\ stamp[p] <= clock
        /\ req[p].kind = "signin" => req[p].stage = "handler"

Shape ==
    /\ \A p \in Proc : Placed(p)
    /\ \A r \in Ref : Held(r) <=> heap[r] # None

\* A call marked alone is alone, and the row is what it has just written.
Solitude ==
    \A p \in Proc : alone[p] =>
        /\ Busy(p)
        /\ \A q \in Proc \ {p} : ~Busy(q)
        /\ pc[p] = "set" => row = heap[ref[p]]

\* What a call writes of its own session.
Written(p, list) ==
    /\ (Touches(p) /\ list[req[p].by] # None) => list[req[p].by] = stamp[p]
    /\ Adds(p) => list[req[p].by] = stamp[p]
    /\ Removes(p) => list[req[p].on] = None

Drafts ==
    \A p \in Proc :
        /\ pc[p] = "put" => Written(p, draft[p])
        /\ pc[p] = "set" /\ alone[p] => Written(p, heap[ref[p]])

\* The lists someone may still read or write.
Lists ==
    ({row} \cup {heap[r] : r \in Ref} \cup {draft[p] : p \in Proc}) \ {None}

\* A session with a known access time is, with that time or a later one, in
\* every list, and no call in flight takes it out or has an older time.
Known(s) ==
    /\ s \in issued
    /\ floor[s] <= clock
    /\ row # None
    /\ \A list \in Lists : list[s] # None /\ floor[s] <= list[s]
    /\ \A p \in Proc : Busy(p) =>
        /\ (Touches(p) \/ Adds(p)) /\ req[p].by = s => floor[s] <= stamp[p]
        /\ Removes(p) => req[p].on # s
        /\ pc[p] = "got" => ref[p] # None

\* A session that is gone is in no list, and no call in flight adds it.
Gone(s) ==
    /\ s \in issued
    /\ \A list \in Lists : list[s] = None
    /\ \A p \in Proc : Busy(p) /\ Adds(p) => req[p].by # s

\* No list and no call in flight has a later access time than the last use.
Used(s) ==
    /\ lastUse[s] # None => lastUse[s] <= clock
    /\ \A list \in Lists : list[s] # None => lastUse[s] # None /\ list[s] <= lastUse[s]
    /\ \A p \in Proc : Busy(p) /\ (Touches(p) \/ Adds(p)) /\ req[p].by = s =>
        lastUse[s] # None /\ stamp[p] <= lastUse[s]

Inductive ==
    /\ TypeOK
    /\ Shape
    /\ Solitude
    /\ Drafts
    /\ \A s \in Session : floor[s] # None => Known(s)
    /\ \A s \in gone : Gone(s)
    /\ \A s \in Session : Used(s)
=============================================================================

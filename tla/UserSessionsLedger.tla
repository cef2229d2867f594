-------------------------- MODULE UserSessionsLedger -------------------------
(***************************************************************************)
(* UserSessions, with one request of the user in flight at a time and a    *)
(* database that answers, implements SessionLedger: the row is the table,  *)
(* and the cache, the pointers and the steps of a store call are invisible.*)
(***************************************************************************)
EXTENDS UserSessions

ASSUME NoneIsNoRole == None \notin [role : {"guest", "member"}, as : Session]

\* The session a request runs under: a sign-in has one from the start, any
\* other request once it is authenticated.
Under(p) ==
    IF pc[p] = "idle" \/ req[p].stage = "auth" THEN None
    ELSE [role |-> IF req[p].kind = "signin" THEN "guest" ELSE "member",
          as |-> req[p].by]

\* The live sessions: no row is no session.
Table == IF row = None THEN Empty ELSE row

Ledger == INSTANCE SessionLedger WITH
    sessions <- Table,
    serving <- [p \in Proc |-> Under(p)],
    used <- issued

\* Every step of the store is a step of the ledger or none: a request that
\* comes after another one sees all the other one did, whichever of the
\* cache, the row or a fresh process answers it.
ImplementsLedger == Ledger!Spec

---------------------------------------------------------------------------
(* Why it does.                                                            *)

\* One request of the user is in flight at a time.
OneAtATime == \A p, q \in Proc : Busy(p) /\ Busy(q) => p = q

\* The table as a store call leaves it.
Outcome(p) ==
    IF Removes(p) THEN [Table EXCEPT ![req[p].on] = None]
    ELSE IF Touches(p) /\ Table[req[p].by] = None THEN Table
    ELSE [Table EXCEPT ![req[p].by] = stamp[p]]

\* What a call has read is the table, what it is about to write is the table
\* with its own change, and no session was used after its time was taken.
InStep(p) ==
    /\ pc[p] \in {"fill", "refill", "set"} => heap[ref[p]] = row
    /\ pc[p] = "got" => View(p) = Table
    /\ pc[p] = "put" => draft[p] = Outcome(p)
    /\ \A s \in Session : Table[s] # None => Table[s] <= stamp[p]

\* The cache follows the row, but while a call writes.
CacheInStep ==
    cached # None /\ (\A p \in Proc : pc[p] \notin {"put", "set"}) => heap[cached] = row

\* What makes every step one of the ledger, next to Inductive.
Stepwise ==
    /\ \A p \in Proc : Busy(p) => InStep(p)
    /\ CacheInStep
=============================================================================

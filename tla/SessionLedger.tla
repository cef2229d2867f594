---------------------------- MODULE SessionLedger ----------------------------
(***************************************************************************)
(* What the session store promises a user who sends one request at a time  *)
(* to a database that answers: one table of live sessions, in which        *)
(* signing in, refreshing and revoking take effect at once and for good.   *)
(* There is no cache, no row and no pointer.                               *)
(***************************************************************************)
EXTENDS Naturals

CONSTANTS Proc, Session, Window, None

VARIABLES
    sessions, \* the last access time of every live session
    serving,  \* the session each request runs under
    used,     \* session ids ever handed out
    clock

vars == <<sessions, serving, used, clock>>

Init ==
    /\ sessions = [s \in Session |-> None]
    /\ serving = [p \in Proc |-> None]
    /\ used = {}
    /\ clock = 0

Serve(p, role, s) == serving' = [serving EXCEPT ![p] = [role |-> role, as |-> s]]

\* A guest is given a fresh session, and then enrolled in it.
Enter(p) ==
    /\ serving[p] = None
    /\ \E s \in Session \ used :
        /\ Serve(p, "guest", s)
        /\ used' = used \cup {s}
    /\ UNCHANGED <<sessions, clock>>

Enroll(p) ==
    /\ serving[p] # None
    /\ serving[p].role = "guest"
    /\ \E t \in 0..clock : sessions' = [sessions EXCEPT ![serving[p].as] = t]
    /\ UNCHANGED <<serving, used, clock>>

\* A request is served under a session exactly while the session is live.
Admit(p) ==
    /\ serving[p] = None
    /\ \E s \in used :
        /\ sessions[s] # None
        /\ clock <= sessions[s] + Window
        /\ Serve(p, "member", s)
    /\ UNCHANGED <<sessions, used, clock>>

\* A member refreshes its session; its access time never goes back.
Refresh(p) ==
    /\ serving[p] # None
    /\ serving[p].role = "member"
    /\ LET s == serving[p].as IN
        /\ sessions[s] # None
        /\ \E t \in sessions[s]..clock : sessions' = [sessions EXCEPT ![s] = t]
    /\ UNCHANGED <<serving, used, clock>>

Expel(p) ==
    /\ serving[p] # None
    /\ serving[p].role = "member"
    /\ \E s \in used : sessions' = [sessions EXCEPT ![s] = None]
    /\ UNCHANGED <<serving, used, clock>>

Leave(p) ==
    /\ serving' = [serving EXCEPT ![p] = None]
    /\ UNCHANGED <<sessions, used, clock>>

Restart ==
    /\ serving' = [p \in Proc |-> None]
    /\ UNCHANGED <<sessions, used, clock>>

Tick ==
    /\ clock' = clock + 1
    /\ UNCHANGED <<sessions, serving, used>>

Next ==
    \/ \E p \in Proc :
        Enter(p) \/ Enroll(p) \/ Admit(p) \/ Refresh(p) \/ Expel(p) \/ Leave(p)
    \/ Restart
    \/ Tick

Spec == Init /\ [][Next]_vars
=============================================================================

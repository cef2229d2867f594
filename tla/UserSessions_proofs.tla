------------------------- MODULE UserSessions_proofs -------------------------
(***************************************************************************)
(* The promises of UserSessions, for every set of goroutines, objects and  *)
(* sessions, every window and every clock.  Inductive holds initially and  *)
(* every step keeps it, one lemma per conjunct; RevocationHolds,           *)
(* ActiveAccepted and IdleRefused then look at the one step that accepts   *)
(* or refuses a request.                                                   *)
(*                                                                         *)
(* LedgerImplemented is the refinement of UserSessionsLedger: Stepwise,    *)
(* next to Inductive, makes every step one of SessionLedger or none.       *)
(***************************************************************************)
EXTENDS UserSessionsLedger, TLAPS

USE NoneIsNoRef, NoneIsNoTime, NoneIsNoValue, WindowIsNat

\* The empty cell of a new server satisfies every part of Inductive.
LEMMA InitInductive == Init => Inductive
<1> SUFFICES ASSUME Init PROVE Inductive
    OBVIOUS
<1> USE DEF Init, CellInit, Empty
<1>1. TypeOK
    BY DEF TypeOK, List, Time, PC
<1>2. Shape
    BY DEF Shape, Placed, Busy, Held
<1>3. Solitude
    BY DEF Solitude
<1>4. Drafts
    BY DEF Drafts
<1>5. Lists = {}
    BY DEF Lists
<1>6. \A s \in Session : floor[s] # None => Known(s)
    OBVIOUS
<1>7. \A s \in gone : Gone(s)
    OBVIOUS
<1>8. \A s \in Session : Used(s)
    BY <1>5 DEF Used, Busy
<1> QED BY <1>1, <1>2, <1>3, <1>4, <1>6, <1>7, <1>8 DEF Inductive

\* What a goroutine reads of the row or of the cache is a list of sessions.
LEMMA ViewIsList ==
    ASSUME TypeOK, Shape, NEW p \in Proc
    PROVE  View(p) \in List
BY DEF TypeOK, Shape, Placed, View, Held, Empty, List

\* A request that goes on, or ends, stays a request and keeps its session.
LEMMA RequestEffect ==
    ASSUME TypeOK, NEW p \in Proc, req[p] \in Request,
           NEW known \in List, NEW stage \in Stage,
           NextCall(p, stage, known) \/ EndRequest(p, known)
    PROVE  /\ req' \in [Proc -> Request \cup {None}]
           /\ stamp' \in [Proc -> Time]
           /\ alone' \in [Proc -> BOOLEAN]
           /\ floor' \in List
           /\ lastUse' \in List
<1> USE DEF TypeOK, Request, Stage, Time
<1>1. CASE NextCall(p, stage, known)
    <2>1. req' \in [Proc -> Request \cup {None}]
        BY <1>1 DEF NextCall
    <2>2. stamp' \in [Proc -> Time] /\ alone' \in [Proc -> BOOLEAN]
        BY <1>1 DEF NextCall, StartCall
    <2>3. floor' \in List /\ lastUse' \in List
        BY <1>1 DEF NextCall, List
    <2> QED BY <2>1, <2>2, <2>3
<1>2. CASE EndRequest(p, known)
    BY <1>2 DEF EndRequest, EndCall
<1> QED BY <1>1, <1>2

\* Every step keeps every variable in its type.
LEMMA TypeStep == Inductive /\ [Next]_vars => TypeOK'
<1> SUFFICES ASSUME Inductive, [Next]_vars PROVE TypeOK'
    OBVIOUS
<1> USE DEF Inductive, TypeOK, PC, Goto, Hold, Drop, Swept, Request, Kind, Stage, List, Time, cellVars, history, Shape, Placed, Busy, View
<1>1. ASSUME NEW p \in Proc, SignIn(p) PROVE TypeOK'
    <2>1. PICK s \in Session \ issued :
            /\ req' = [req EXCEPT ![p] =
                          [kind |-> "signin", stage |-> "handler", by |-> s, on |-> s]]
            /\ issued' = issued \cup {s}
            /\ lastUse' = [lastUse EXCEPT ![s] = clock]
        BY <1>1 DEF SignIn
    <2>2. req' \in [Proc -> Request \cup {None}]
        BY <2>1
    <2>3. lastUse' \in List
        BY <2>1
    <2>4. issued' \in SUBSET Session
        BY <2>1
    <2>5. stamp' \in [Proc -> Time] /\ alone' \in [Proc -> BOOLEAN] /\ pc' \in [Proc -> PC]
        BY <1>1 DEF SignIn, StartCall
    <2>6. UNCHANGED <<row, cached, heap, ref, draft, clock, floor, gone>>
        BY <1>1 DEF SignIn
    <2> QED BY <2>2, <2>3, <2>4, <2>5, <2>6
<1>2. ASSUME NEW p \in Proc, Arrive(p) PROVE TypeOK'
    <2> USE <1>2 DEF Arrive, StartCall
    <2> PICK kind \in Kind \ {"signin"}, by \in issued, on \in issued :
            req' = [req EXCEPT ![p] =
                       [kind |-> kind, stage |-> "auth", by |-> by, on |-> on]]
        OBVIOUS
    <2>1. req' \in [Proc -> Request \cup {None}]
        OBVIOUS
    <2> QED BY <2>1
<1>3. ASSUME NEW p \in Proc, ReadStep(p), CacheHit(p) PROVE TypeOK'
    BY <1>3 DEF ReadStep, CacheHit
<1>4. ASSUME NEW p \in Proc, ReadStep(p), CacheMiss(p) PROVE TypeOK'
    BY <1>4 DEF ReadStep, CacheMiss
<1>5. ASSUME NEW p \in Proc, ReadStep(p), ListRow(p) PROVE TypeOK'
    BY <1>5 DEF ReadStep, ListRow
<1>6. ASSUME NEW p \in Proc, ReadStep(p), ListNoRow(p) PROVE TypeOK'
    BY <1>6 DEF ReadStep, ListNoRow
<1>7. ASSUME NEW p \in Proc, ReadStep(p), ListFails(p) PROVE TypeOK'
    BY <1>7 DEF ReadStep, ListFails
<1>8. ASSUME NEW p \in Proc, ReadStep(p), Fill(p) PROVE TypeOK'
    BY <1>8 DEF ReadStep, Fill
<1>9. ASSUME NEW p \in Proc, Accept(p) PROVE TypeOK'
    BY <1>9 DEF Accept, Return, NextCall, StartCall
<1>10. ASSUME NEW p \in Proc, Reject(p) PROVE TypeOK'
    BY <1>10 DEF Reject, Return, EndRequest, EndCall
<1>11. ASSUME NEW p \in Proc, Listed(p) PROVE TypeOK'
    BY <1>11 DEF Listed, Return, EndRequest, EndCall
<1>12. ASSUME NEW p \in Proc, Touch(p) PROVE TypeOK'
    <2> DEFINE v == IF View(p)[req[p].by] = None THEN View(p)
                 ELSE [View(p) EXCEPT ![req[p].by] = stamp[p]]
    <2>1. req[p] \in Request
        BY <1>12 DEF Touch, Prepare
    <2>2. v \in List
        BY ViewIsList, <2>1 DEF View
    <2>3. heap' \in [Ref -> List \cup {None}]
        BY <1>12, <2>2 DEF Touch, Prepare
    <2>4. draft' \in [Proc -> List \cup {None}]
        BY <1>12, <2>2 DEF Touch, Prepare
    <2> HIDE DEF v
    <2> QED BY <1>12, <2>3, <2>4 DEF Touch, Prepare
<1>13. ASSUME NEW p \in Proc, Add(p) PROVE TypeOK'
    <2> DEFINE v == [View(p) EXCEPT ![req[p].by] = stamp[p]]
    <2>1. req[p] \in Request
        BY <1>13 DEF Add, Prepare
    <2>2. v \in List
        BY ViewIsList, <2>1 DEF View
    <2>3. heap' \in [Ref -> List \cup {None}]
        BY <1>13, <2>2 DEF Add, Prepare
    <2>4. draft' \in [Proc -> List \cup {None}]
        BY <1>13, <2>2 DEF Add, Prepare
    <2> HIDE DEF v
    <2> QED BY <1>13, <2>3, <2>4 DEF Add, Prepare
<1>14. ASSUME NEW p \in Proc, Remove(p) PROVE TypeOK'
    <2> DEFINE v == [View(p) EXCEPT ![req[p].on] = None]
    <2>1. req[p] \in Request
        BY <1>14 DEF Remove, Prepare
    <2>2. v \in List
        BY ViewIsList, <2>1 DEF View
    <2>3. heap' \in [Ref -> List \cup {None}]
        BY <1>14, <2>2 DEF Remove, Prepare
    <2>4. draft' \in [Proc -> List \cup {None}]
        BY <1>14, <2>2 DEF Remove, Prepare
    <2> HIDE DEF v
    <2> QED BY <1>14, <2>3, <2>4 DEF Remove, Prepare
<1>15. ASSUME NEW p \in Proc, WriteRow(p), Exec(p) PROVE TypeOK'
    BY <1>15 DEF WriteRow, Exec
<1>16. ASSUME NEW p \in Proc, WriteRow(p), ExecFails(p) PROVE TypeOK'
    BY <1>16 DEF WriteRow, ExecFails
<1>17. ASSUME NEW p \in Proc, Done(p) PROVE TypeOK'
    <2> DEFINE known == IF alone[p] /\ (Adds(p) \/ Touches(p)) /\ heap[ref[p]][req[p].by] # None
                     THEN [floor EXCEPT ![req[p].by] = stamp[p]] ELSE floor
    <2>1. req[p] \in Request
        BY <1>17 DEF Done, SetCache, Onward, Continue, HasHandler, NextCall, StartCall, EndRequest, EndCall
    <2>2. known \in List
        BY <2>1
    <2>3. NextCall(p, "handler", known) \/ EndRequest(p, known)
        BY <1>17 DEF Done, Continue
    <2>4. /\ req' \in [Proc -> Request \cup {None}]
          /\ stamp' \in [Proc -> Time]
          /\ alone' \in [Proc -> BOOLEAN]
          /\ floor' \in List
          /\ lastUse' \in List
        <3> HIDE DEF known
        <3> QED BY <2>1, <2>2, <2>3, RequestEffect
    <2>5. gone' \in SUBSET Session /\ clock' = clock /\ issued' = issued
        BY <1>17, <2>1 DEF Done
    <2>6. heap' \in [Ref -> List \cup {None}] /\ draft' = draft /\ row' = row
        BY <1>17 DEF Done, SetCache, Return
    <2>7. pc' \in [Proc -> PC]
        BY <1>17 DEF Done, SetCache, Return, Onward
    <2>8. ref' \in [Proc -> Ref \cup {None}] /\ cached' \in Ref \cup {None}
        BY <1>17 DEF Done, SetCache, Return
    <2> QED BY <2>4, <2>5, <2>6, <2>7, <2>8
<1>18. ASSUME NEW p \in Proc, Fail(p) PROVE TypeOK'
    <2> DEFINE known == floor
    <2>1. req[p] \in Request
        BY <1>18 DEF Fail, Return, Onward, Continue, HasHandler, NextCall, StartCall, EndRequest, EndCall
    <2>2. known \in List
        BY <2>1
    <2>3. NextCall(p, "handler", known) \/ EndRequest(p, known)
        BY <1>18 DEF Fail, Continue
    <2>4. /\ req' \in [Proc -> Request \cup {None}]
          /\ stamp' \in [Proc -> Time]
          /\ alone' \in [Proc -> BOOLEAN]
          /\ floor' \in List
          /\ lastUse' \in List
        <3> HIDE DEF known
        <3> QED BY <2>1, <2>2, <2>3, RequestEffect
    <2>5. gone' \in SUBSET Session /\ clock' = clock /\ issued' = issued
        BY <1>18, <2>1 DEF Fail
    <2>6. heap' \in [Ref -> List \cup {None}] /\ draft' = draft /\ row' = row
        BY <1>18 DEF Fail, Return
    <2>7. pc' \in [Proc -> PC]
        BY <1>18 DEF Fail, Return, Onward
    <2>8. ref' \in [Proc -> Ref \cup {None}] /\ cached' \in Ref \cup {None}
        BY <1>18 DEF Fail, Return
    <2> QED BY <2>4, <2>5, <2>6, <2>7, <2>8
<1>19. ASSUME Expire PROVE TypeOK'
    BY <1>19 DEF Expire, Evict
<1>20. ASSUME Restart PROVE TypeOK'
    BY <1>20 DEF Restart, CellRestart
<1>21. ASSUME Tick PROVE TypeOK'
    BY <1>21 DEF Tick
<1>22. ASSUME UNCHANGED vars PROVE TypeOK'
    BY <1>22 DEF vars
<1> QED
    BY <1>1, <1>2, <1>3, <1>4, <1>5, <1>6, <1>7, <1>8, <1>9, <1>10, <1>11, <1>12, <1>13, <1>14, <1>15, <1>16, <1>17, <1>18, <1>19, <1>20, <1>21, <1>22
    DEF Next, Step, ReadStep, Get, WriteRow

\* A step of one goroutine leaves what the others hold as it is.
LEMMA Others ==
    ASSUME TypeOK, NEW p \in Proc, Step(p), NEW q \in Proc, q # p
    PROVE  /\ pc'[q] = pc[q] /\ ref'[q] = ref[q] /\ draft'[q] = draft[q]
           /\ req'[q] = req[q] /\ stamp'[q] = stamp[q]
           /\ alone'[q] => alone[q]
           /\ issued \subseteq issued' /\ clock' = clock
<1> DEFINE Same ==
        /\ pc'[q] = pc[q] /\ ref'[q] = ref[q] /\ draft'[q] = draft[q]
        /\ req'[q] = req[q] /\ stamp'[q] = stamp[q]
        /\ alone'[q] => alone[q]
        /\ issued \subseteq issued' /\ clock' = clock
<1> USE DEF TypeOK, Goto, Hold, Drop, history
<1>1. ASSUME SignIn(p) PROVE Same
    BY <1>1 DEF SignIn, StartCall
<1>2. ASSUME Arrive(p) PROVE Same
    BY <1>2 DEF Arrive, StartCall
<1>3. ASSUME ReadStep(p), CacheHit(p) PROVE Same
    BY <1>3 DEF ReadStep, CacheHit
<1>4. ASSUME ReadStep(p), CacheMiss(p) PROVE Same
    BY <1>4 DEF ReadStep, CacheMiss
<1>5. ASSUME ReadStep(p), ListRow(p) PROVE Same
    BY <1>5 DEF ReadStep, ListRow
<1>6. ASSUME ReadStep(p), ListNoRow(p) PROVE Same
    BY <1>6 DEF ReadStep, ListNoRow
<1>7. ASSUME ReadStep(p), ListFails(p) PROVE Same
    BY <1>7 DEF ReadStep, ListFails
<1>8. ASSUME ReadStep(p), Fill(p) PROVE Same
    BY <1>8 DEF ReadStep, Fill
<1>9. ASSUME Accept(p) PROVE Same
    BY <1>9 DEF Accept, Return, NextCall, StartCall
<1>10. ASSUME Reject(p) PROVE Same
    BY <1>10 DEF Reject, Return, EndRequest, EndCall
<1>11. ASSUME Listed(p) PROVE Same
    BY <1>11 DEF Listed, Return, EndRequest, EndCall
<1>12. ASSUME Touch(p) PROVE Same
    BY <1>12 DEF Touch, Prepare
<1>13. ASSUME Add(p) PROVE Same
    BY <1>13 DEF Add, Prepare
<1>14. ASSUME Remove(p) PROVE Same
    BY <1>14 DEF Remove, Prepare
<1>15. ASSUME WriteRow(p), Exec(p) PROVE Same
    BY <1>15 DEF WriteRow, Exec
<1>16. ASSUME WriteRow(p), ExecFails(p) PROVE Same
    BY <1>16 DEF WriteRow, ExecFails
<1>17. ASSUME Done(p) PROVE Same
    BY <1>17 DEF Done, SetCache, Onward, Continue, HasHandler, NextCall, StartCall, EndRequest, EndCall
<1>18. ASSUME Fail(p) PROVE Same
    BY <1>18 DEF Fail, Return, Onward, Continue, HasHandler, NextCall, StartCall, EndRequest, EndCall
<1> QED
    BY <1>1, <1>2, <1>3, <1>4, <1>5, <1>6, <1>7, <1>8, <1>9, <1>10, <1>11, <1>12, <1>13, <1>14, <1>15, <1>16, <1>17, <1>18
    DEF Step, ReadStep, Get, WriteRow

\* A step of one goroutine puts it where it may be.
LEMMA SelfPlaced ==
    ASSUME TypeOK, NEW p \in Proc, Placed(p), Shape, Step(p)
    PROVE  Placed(p)'
<1> USE DEF TypeOK, Placed, Goto, Hold, Drop, Busy, Request, Kind, Stage, List, Time, Handles, Touches, Adds, Removes, history
<1>1. ASSUME SignIn(p) PROVE Placed(p)'
    <2>1. PICK s \in Session :
            /\ req'[p] = [kind |-> "signin", stage |-> "handler", by |-> s, on |-> s]
            /\ s \in issued'
        BY <1>1 DEF SignIn
    <2>2. pc'[p] = "get" /\ ref'[p] = None /\ draft'[p] = None /\ stamp'[p] = clock /\ clock' = clock
        BY <1>1 DEF SignIn, StartCall
    <2> QED BY <2>1, <2>2
<1>2. ASSUME Arrive(p) PROVE Placed(p)'
    <2>1. PICK kind \in Kind \ {"signin"}, by \in issued, on \in issued :
            req'[p] = [kind |-> kind, stage |-> "auth", by |-> by, on |-> on]
        BY <1>2 DEF Arrive
    <2>2. pc'[p] = "get" /\ ref'[p] = None /\ draft'[p] = None /\ stamp'[p] = clock
          /\ clock' = clock /\ issued' = issued
        BY <1>2 DEF Arrive, StartCall
    <2> QED BY <2>1, <2>2
<1>3. ASSUME ReadStep(p), CacheHit(p) PROVE Placed(p)'
    BY <1>3 DEF ReadStep, CacheHit
<1>4. ASSUME ReadStep(p), CacheMiss(p) PROVE Placed(p)'
    BY <1>4 DEF ReadStep, CacheMiss
<1>5. ASSUME ReadStep(p), ListRow(p) PROVE Placed(p)'
    BY <1>5 DEF ReadStep, ListRow
<1>6. ASSUME ReadStep(p), ListNoRow(p) PROVE Placed(p)'
    BY <1>6 DEF ReadStep, ListNoRow
<1>7. ASSUME ReadStep(p), ListFails(p) PROVE Placed(p)'
    BY <1>7 DEF ReadStep, ListFails
<1>8. ASSUME ReadStep(p), Fill(p) PROVE Placed(p)'
    BY <1>8 DEF ReadStep, Fill
<1>9. ASSUME Accept(p) PROVE Placed(p)'
    <2>1. req'[p] = [kind |-> req[p].kind, stage |-> "touch", by |-> req[p].by, on |-> req[p].on]
        BY <1>9 DEF Accept, NextCall
    <2>2. pc'[p] = "get" /\ ref'[p] = None /\ draft'[p] = None /\ stamp'[p] = clock
          /\ clock' = clock /\ issued' = issued
        BY <1>9 DEF Accept, NextCall, StartCall, Return
    <2> QED BY <1>9, <2>1, <2>2 DEF Accept
<1>10. ASSUME Reject(p) PROVE Placed(p)'
    BY <1>10 DEF Reject, Return, EndRequest, EndCall
<1>11. ASSUME Listed(p) PROVE Placed(p)'
    BY <1>11 DEF Listed, Return, EndRequest, EndCall
<1>12. ASSUME Touch(p) PROVE Placed(p)'
    <2>1. draft'[p] \in List /\ pc'[p] = "put" /\ ref'[p] = None
        BY <1>12, ViewIsList DEF Touch, Prepare
    <2>2. req' = req /\ stamp' = stamp /\ clock' = clock /\ issued' = issued
        BY <1>12 DEF Touch, Prepare
    <2>3. pc[p] = "got" /\ (Touches(p) \/ Adds(p) \/ Removes(p))
        BY <1>12 DEF Touch, Prepare
    <2> QED BY <2>1, <2>2, <2>3
<1>13. ASSUME Add(p) PROVE Placed(p)'
    <2>1. draft'[p] \in List /\ pc'[p] = "put" /\ ref'[p] = None
        BY <1>13, ViewIsList DEF Add, Prepare
    <2>2. req' = req /\ stamp' = stamp /\ clock' = clock /\ issued' = issued
        BY <1>13 DEF Add, Prepare
    <2>3. pc[p] = "got" /\ (Touches(p) \/ Adds(p) \/ Removes(p))
        BY <1>13 DEF Add, Prepare
    <2> QED BY <2>1, <2>2, <2>3
<1>14. ASSUME Remove(p) PROVE Placed(p)'
    <2>1. draft'[p] \in List /\ pc'[p] = "put" /\ ref'[p] = None
        BY <1>14, ViewIsList DEF Remove, Prepare
    <2>2. req' = req /\ stamp' = stamp /\ clock' = clock /\ issued' = issued
        BY <1>14 DEF Remove, Prepare
    <2>3. pc[p] = "got" /\ (Touches(p) \/ Adds(p) \/ Removes(p))
        BY <1>14 DEF Remove, Prepare
    <2> QED BY <2>1, <2>2, <2>3
<1>15. ASSUME WriteRow(p), Exec(p) PROVE Placed(p)'
    BY <1>15 DEF WriteRow, Exec
<1>16. ASSUME WriteRow(p), ExecFails(p) PROVE Placed(p)'
    BY <1>16 DEF WriteRow, ExecFails
<1>17. ASSUME Done(p) PROVE Placed(p)'
    <2>1. ref'[p] = None /\ draft'[p] = None /\ clock' = clock /\ issued' = issued
        BY <1>17 DEF Done, SetCache
    <2>2. CASE HasHandler(p)
        <3>1. req'[p] = [kind |-> req[p].kind, stage |-> "handler", by |-> req[p].by, on |-> req[p].on]
            BY <1>17, <2>2 DEF Done, Continue, NextCall
        <3>2. pc'[p] = "get" /\ stamp'[p] = clock
            BY <1>17, <2>2 DEF Done, SetCache, Onward, Continue, NextCall, StartCall
        <3> QED BY <1>17, <2>1, <3>1, <3>2 DEF Done, SetCache
    <2>3. CASE ~HasHandler(p)
        <3>1. req'[p] = None
            BY <1>17, <2>3 DEF Done, Continue, EndRequest
        <3>2. pc'[p] = "idle"
            BY <1>17, <2>3 DEF Done, SetCache, Onward
        <3> QED BY <2>1, <3>1, <3>2
    <2> QED BY <2>2, <2>3
<1>18. ASSUME Fail(p) PROVE Placed(p)'
    <2>1. ref'[p] = None /\ draft'[p] = None /\ clock' = clock /\ issued' = issued
        BY <1>18 DEF Fail, Return
    <2>2. CASE HasHandler(p)
        <3>1. req'[p] = [kind |-> req[p].kind, stage |-> "handler", by |-> req[p].by, on |-> req[p].on]
            BY <1>18, <2>2 DEF Fail, Continue, NextCall
        <3>2. pc'[p] = "get" /\ stamp'[p] = clock
            BY <1>18, <2>2 DEF Fail, Return, Onward, Continue, NextCall, StartCall
        <3> QED BY <1>18, <2>1, <3>1, <3>2 DEF Fail, Return
    <2>3. CASE ~HasHandler(p)
        <3>1. req'[p] = None
            BY <1>18, <2>3 DEF Fail, Continue, EndRequest
        <3>2. pc'[p] = "idle"
            BY <1>18, <2>3 DEF Fail, Return, Onward
        <3> QED BY <2>1, <3>1, <3>2
    <2> QED BY <2>2, <2>3
<1> QED
    BY <1>1, <1>2, <1>3, <1>4, <1>5, <1>6, <1>7, <1>8, <1>9, <1>10, <1>11, <1>12, <1>13, <1>14, <1>15, <1>16, <1>17, <1>18
    DEF Step, ReadStep, Get, WriteRow

\* Objects are kept exactly while something points to them.
LEMMA HeapHeld ==
    ASSUME TypeOK, Shape, NEW p \in Proc, Step(p), NEW r \in Ref
    PROVE  (Held(r) <=> heap[r] # None)'
<1> USE DEF TypeOK, Shape, Placed, Held, Swept, Goto, Hold, Drop, history
<1>1. ASSUME SignIn(p) PROVE (Held(r) <=> heap[r] # None)'
    BY <1>1 DEF SignIn, StartCall
<1>2. ASSUME Arrive(p) PROVE (Held(r) <=> heap[r] # None)'
    BY <1>2 DEF Arrive, StartCall
<1>3. ASSUME ReadStep(p), CacheHit(p) PROVE (Held(r) <=> heap[r] # None)'
    BY <1>3 DEF ReadStep, CacheHit
<1>4. ASSUME ReadStep(p), CacheMiss(p) PROVE (Held(r) <=> heap[r] # None)'
    BY <1>4 DEF ReadStep, CacheMiss
<1>5. ASSUME ReadStep(p), ListRow(p) PROVE (Held(r) <=> heap[r] # None)'
    BY <1>5 DEF ReadStep, ListRow
<1>6. ASSUME ReadStep(p), ListNoRow(p) PROVE (Held(r) <=> heap[r] # None)'
    BY <1>6 DEF ReadStep, ListNoRow
<1>7. ASSUME ReadStep(p), ListFails(p) PROVE (Held(r) <=> heap[r] # None)'
    BY <1>7 DEF ReadStep, ListFails
<1>8. ASSUME ReadStep(p), Fill(p) PROVE (Held(r) <=> heap[r] # None)'
    BY <1>8 DEF ReadStep, Fill
<1>9. ASSUME Accept(p) PROVE (Held(r) <=> heap[r] # None)'
    BY <1>9 DEF Accept, Return, NextCall, StartCall
<1>10. ASSUME Reject(p) PROVE (Held(r) <=> heap[r] # None)'
    BY <1>10 DEF Reject, Return, EndRequest, EndCall
<1>11. ASSUME Listed(p) PROVE (Held(r) <=> heap[r] # None)'
    BY <1>11 DEF Listed, Return, EndRequest, EndCall
<1>12. ASSUME Touch(p) PROVE (Held(r) <=> heap[r] # None)'
    <2> DEFINE v == IF View(p)[req[p].by] = None THEN View(p)
                    ELSE [View(p) EXCEPT ![req[p].by] = stamp[p]]
    <2>0. v \in List
        BY ViewIsList DEF List, Time
    <2>1. heap' = Swept(IF ref[p] = None THEN heap ELSE [heap EXCEPT ![ref[p]] = v])
        BY <1>12 DEF Touch, Prepare
    <2> HIDE DEF v
    <2>2. cached' = cached /\ ref' = [ref EXCEPT ![p] = None]
        BY <1>12 DEF Touch, Prepare
    <2> QED BY <2>0, <2>1, <2>2
<1>13. ASSUME Add(p) PROVE (Held(r) <=> heap[r] # None)'
    BY <1>13 DEF Add, Prepare
<1>14. ASSUME Remove(p) PROVE (Held(r) <=> heap[r] # None)'
    BY <1>14 DEF Remove, Prepare
<1>15. ASSUME WriteRow(p), Exec(p) PROVE (Held(r) <=> heap[r] # None)'
    BY <1>15 DEF WriteRow, Exec
<1>16. ASSUME WriteRow(p), ExecFails(p) PROVE (Held(r) <=> heap[r] # None)'
    BY <1>16 DEF WriteRow, ExecFails
<1>17. ASSUME Done(p) PROVE (Held(r) <=> heap[r] # None)'
    BY <1>17 DEF Done, SetCache, Onward, Continue, HasHandler, NextCall, StartCall, EndRequest, EndCall
<1>18. ASSUME Fail(p) PROVE (Held(r) <=> heap[r] # None)'
    BY <1>18 DEF Fail, Return, Onward, Continue, HasHandler, NextCall, StartCall, EndRequest, EndCall
<1> QED
    BY <1>1, <1>2, <1>3, <1>4, <1>5, <1>6, <1>7, <1>8, <1>9, <1>10, <1>11, <1>12, <1>13, <1>14, <1>15, <1>16, <1>17, <1>18
    DEF Step, ReadStep, Get, WriteRow

\* A step of one goroutine keeps the shape of every goroutine and object.
LEMMA ShapeStep == Inductive /\ [Next]_vars => Shape'
<1> SUFFICES ASSUME Inductive, [Next]_vars PROVE Shape'
    OBVIOUS
<1> USE DEF Inductive
<1>1. ASSUME NEW p \in Proc, Step(p) PROVE Shape'
    <2>1. ASSUME NEW q \in Proc PROVE Placed(q)'
        <3>1. CASE q = p
            BY <1>1, <3>1, SelfPlaced DEF Shape
        <3>2. CASE q # p
            BY <1>1, <3>2, Others
            DEF Shape, Placed, Busy, Handles, Touches, Adds, Removes
        <3> QED BY <3>1, <3>2
    <2>2. ASSUME NEW r \in Ref PROVE (Held(r) <=> heap[r] # None)'
        BY <1>1, HeapHeld
    <2> QED BY <2>1, <2>2 DEF Shape
<1> USE DEF Shape, Placed, Held, Swept, Busy, Handles, Touches, Adds, Removes, TypeOK, Time
<1>2. CASE Expire
    BY <1>2 DEF Expire, Evict
<1>3. CASE Restart
    BY <1>3 DEF Restart, CellRestart
<1>4. CASE Tick
    BY <1>4 DEF Tick, cellVars, history
<1>5. CASE UNCHANGED vars
    BY <1>5 DEF vars, cellVars, history
<1> QED BY <1>1, <1>2, <1>3, <1>4, <1>5 DEF Next

\* A step of one goroutine adds a list of its own at most while it computes
\* one; every other step hands on lists that are there already.
LEMMA ListsStep ==
    ASSUME TypeOK, Shape, NEW p \in Proc, Step(p)
    PROVE  \/ Lists' \subseteq Lists
           \/ /\ Touch(p) \/ Add(p) \/ Remove(p)
              /\ Lists' \subseteq Lists \cup {draft'[p]}
<1> DEFINE Kept ==
        \/ Lists' \subseteq Lists
        \/ /\ Touch(p) \/ Add(p) \/ Remove(p)
           /\ Lists' \subseteq Lists \cup {draft'[p]}
<1> USE DEF TypeOK, Shape, Placed, Lists, Held, Swept, Goto, Hold, Drop, history
<1>1. ASSUME SignIn(p) PROVE Kept
    BY <1>1 DEF SignIn, StartCall
<1>2. ASSUME Arrive(p) PROVE Kept
    BY <1>2 DEF Arrive, StartCall
<1>3. ASSUME ReadStep(p), CacheHit(p) PROVE Kept
    BY <1>3 DEF ReadStep, CacheHit
<1>4. ASSUME ReadStep(p), CacheMiss(p) PROVE Kept
    BY <1>4 DEF ReadStep, CacheMiss
<1>5. ASSUME ReadStep(p), ListRow(p) PROVE Kept
    BY <1>5 DEF ReadStep, ListRow
<1>6. ASSUME ReadStep(p), ListNoRow(p) PROVE Kept
    BY <1>6 DEF ReadStep, ListNoRow
<1>7. ASSUME ReadStep(p), ListFails(p) PROVE Kept
    BY <1>7 DEF ReadStep, ListFails
<1>8. ASSUME ReadStep(p), Fill(p) PROVE Kept
    BY <1>8 DEF ReadStep, Fill
<1>9. ASSUME Accept(p) PROVE Kept
    BY <1>9 DEF Accept, Return, NextCall, StartCall
<1>10. ASSUME Reject(p) PROVE Kept
    BY <1>10 DEF Reject, Return, EndRequest, EndCall
<1>11. ASSUME Listed(p) PROVE Kept
    BY <1>11 DEF Listed, Return, EndRequest, EndCall
<1>12. ASSUME Touch(p) PROVE Kept
    BY <1>12 DEF Touch, Prepare
<1>13. ASSUME Add(p) PROVE Kept
    BY <1>13 DEF Add, Prepare
<1>14. ASSUME Remove(p) PROVE Kept
    BY <1>14 DEF Remove, Prepare
<1>15. ASSUME WriteRow(p), Exec(p) PROVE Kept
    BY <1>15 DEF WriteRow, Exec
<1>16. ASSUME WriteRow(p), ExecFails(p) PROVE Kept
    BY <1>16 DEF WriteRow, ExecFails
<1>17. ASSUME Done(p) PROVE Kept
    BY <1>17 DEF Done, SetCache, Onward, Continue, HasHandler, NextCall, StartCall, EndRequest, EndCall
<1>18. ASSUME Fail(p) PROVE Kept
    BY <1>18 DEF Fail, Return, Onward, Continue, HasHandler, NextCall, StartCall, EndRequest, EndCall
<1> QED
    BY <1>1, <1>2, <1>3, <1>4, <1>5, <1>6, <1>7, <1>8, <1>9, <1>10, <1>11, <1>12, <1>13, <1>14, <1>15, <1>16, <1>17, <1>18
    DEF Step, ReadStep, Get, WriteRow

\* The floor of a session moves up only when its call was alone.
LEMMA FloorStep ==
    ASSUME TypeOK, Shape, NEW p \in Proc, Step(p), NEW s \in Session, floor'[s] # None
    PROVE  \/ floor'[s] = floor[s]
           \/ /\ Done(p) /\ alone[p] /\ (Adds(p) \/ Touches(p))
              /\ s = req[p].by /\ floor'[s] = stamp[p] /\ heap[ref[p]][s] # None
<1> DEFINE Moved ==
        \/ floor'[s] = floor[s]
        \/ /\ Done(p) /\ alone[p] /\ (Adds(p) \/ Touches(p))
           /\ s = req[p].by /\ floor'[s] = stamp[p] /\ heap[ref[p]][s] # None
<1> USE DEF TypeOK, Shape, Placed, Busy, Goto, Hold, Drop, Request, List, history
<1>1. ASSUME SignIn(p) PROVE Moved
    BY <1>1 DEF SignIn, StartCall
<1>2. ASSUME Arrive(p) PROVE Moved
    BY <1>2 DEF Arrive, StartCall
<1>3. ASSUME ReadStep(p), CacheHit(p) PROVE Moved
    BY <1>3 DEF ReadStep, CacheHit
<1>4. ASSUME ReadStep(p), CacheMiss(p) PROVE Moved
    BY <1>4 DEF ReadStep, CacheMiss
<1>5. ASSUME ReadStep(p), ListRow(p) PROVE Moved
    BY <1>5 DEF ReadStep, ListRow
<1>6. ASSUME ReadStep(p), ListNoRow(p) PROVE Moved
    BY <1>6 DEF ReadStep, ListNoRow
<1>7. ASSUME ReadStep(p), ListFails(p) PROVE Moved
    BY <1>7 DEF ReadStep, ListFails
<1>8. ASSUME ReadStep(p), Fill(p) PROVE Moved
    BY <1>8 DEF ReadStep, Fill
<1>9. ASSUME Accept(p) PROVE Moved
    BY <1>9 DEF Accept, Return, NextCall, StartCall
<1>10. ASSUME Reject(p) PROVE Moved
    BY <1>10 DEF Reject, Return, EndRequest, EndCall
<1>11. ASSUME Listed(p) PROVE Moved
    BY <1>11 DEF Listed, Return, EndRequest, EndCall
<1>12. ASSUME Touch(p) PROVE Moved
    BY <1>12 DEF Touch, Prepare
<1>13. ASSUME Add(p) PROVE Moved
    BY <1>13 DEF Add, Prepare
<1>14. ASSUME Remove(p) PROVE Moved
    BY <1>14 DEF Remove, Prepare
<1>15. ASSUME WriteRow(p), Exec(p) PROVE Moved
    BY <1>15 DEF WriteRow, Exec
<1>16. ASSUME WriteRow(p), ExecFails(p) PROVE Moved
    BY <1>16 DEF WriteRow, ExecFails
<1>17. ASSUME Done(p) PROVE Moved
    <2> DEFINE known == IF alone[p] /\ (Adds(p) \/ Touches(p)) /\ heap[ref[p]][req[p].by] # None
                        THEN [floor EXCEPT ![req[p].by] = stamp[p]] ELSE floor
    <2>1. Continue(p, known)
        BY <1>17 DEF Done
    <2>2. floor'[s] = known[s]
        BY <2>1 DEF Continue, NextCall, EndRequest
    <2> QED BY <1>17, <2>2
<1>18. ASSUME Fail(p) PROVE Moved
    BY <1>18 DEF Fail, Return, Onward, Continue, HasHandler, NextCall, StartCall, EndRequest, EndCall
<1> QED
    BY <1>1, <1>2, <1>3, <1>4, <1>5, <1>6, <1>7, <1>8, <1>9, <1>10, <1>11, <1>12, <1>13, <1>14, <1>15, <1>16, <1>17, <1>18
    DEF Step, ReadStep, Get, WriteRow

\* A call that starts while another is in flight is not alone; one that is
\* alone has the row to itself until it returns.
LEMMA OwnStep ==
    ASSUME TypeOK, Shape, Solitude, NEW p \in Proc, Step(p)
    PROVE  /\ alone'[p] => Busy(p)' /\ ((alone[p] /\ Busy(p)) \/ \A q \in Proc \ {p} : ~Busy(q))
           /\ pc'[p] = "set" =>
               /\ req'[p] = req[p] /\ stamp'[p] = stamp[p] /\ alone'[p] = alone[p]
               /\ row' = heap'[ref'[p]] /\ heap'[ref'[p]] = draft[p] /\ pc[p] = "put"
           /\ pc'[p] = "put" =>
               /\ req'[p] = req[p] /\ stamp'[p] = stamp[p] /\ alone'[p] = alone[p]
               /\ Written(p, draft[p])'
<1> DEFINE Own ==
        /\ alone'[p] => Busy(p)' /\ ((alone[p] /\ Busy(p)) \/ \A q \in Proc \ {p} : ~Busy(q))
        /\ pc'[p] = "set" =>
            /\ req'[p] = req[p] /\ stamp'[p] = stamp[p] /\ alone'[p] = alone[p]
            /\ row' = heap'[ref'[p]] /\ heap'[ref'[p]] = draft[p] /\ pc[p] = "put"
        /\ pc'[p] = "put" =>
            /\ req'[p] = req[p] /\ stamp'[p] = stamp[p] /\ alone'[p] = alone[p]
            /\ Written(p, draft[p])'
<1> USE DEF TypeOK, Shape, Placed, Solitude, Busy, Goto, Hold, Drop, history, Handles, Touches, Adds, Removes, Written, Request
<1>1. ASSUME SignIn(p) PROVE Own
    BY <1>1 DEF SignIn, StartCall
<1>2. ASSUME Arrive(p) PROVE Own
    BY <1>2 DEF Arrive, StartCall
<1>3. ASSUME ReadStep(p), CacheHit(p) PROVE Own
    BY <1>3 DEF ReadStep, CacheHit
<1>4. ASSUME ReadStep(p), CacheMiss(p) PROVE Own
    BY <1>4 DEF ReadStep, CacheMiss
<1>5. ASSUME ReadStep(p), ListRow(p) PROVE Own
    BY <1>5 DEF ReadStep, ListRow
<1>6. ASSUME ReadStep(p), ListNoRow(p) PROVE Own
    BY <1>6 DEF ReadStep, ListNoRow
<1>7. ASSUME ReadStep(p), ListFails(p) PROVE Own
    BY <1>7 DEF ReadStep, ListFails
<1>8. ASSUME ReadStep(p), Fill(p) PROVE Own
    BY <1>8 DEF ReadStep, Fill
<1>9. ASSUME Accept(p) PROVE Own
    BY <1>9 DEF Accept, Return, NextCall, StartCall
<1>10. ASSUME Reject(p) PROVE Own
    BY <1>10 DEF Reject, Return, EndRequest, EndCall
<1>11. ASSUME Listed(p) PROVE Own
    BY <1>11 DEF Listed, Return, EndRequest, EndCall
<1>12. ASSUME Touch(p) PROVE Own
    <2> DEFINE v == IF View(p)[req[p].by] = None THEN View(p)
                    ELSE [View(p) EXCEPT ![req[p].by] = stamp[p]]
    <2>1. req[p] \in Request /\ View(p) \in List
        BY <1>12, ViewIsList DEF Touch, Prepare
    <2>2. draft'[p] = v /\ pc'[p] = "put" /\ req' = req /\ stamp' = stamp /\ alone' = alone
        BY <1>12 DEF Touch, Prepare
    <2>3. Touches(p) /\ ~Adds(p) /\ ~Removes(p)
        BY <1>12 DEF Touch, Prepare
    <2>4. v[req[p].by] # None => v[req[p].by] = stamp[p]
        BY <2>1 DEF List
    <2> HIDE DEF v
    <2> QED BY <1>12, <2>2, <2>3, <2>4 DEF Touch, Prepare
<1>13. ASSUME Add(p) PROVE Own
    <2> DEFINE v == [View(p) EXCEPT ![req[p].by] = stamp[p]]
    <2>1. req[p] \in Request /\ View(p) \in List
        BY <1>13, ViewIsList DEF Add, Prepare
    <2>2. draft'[p] = v /\ pc'[p] = "put" /\ req' = req /\ stamp' = stamp /\ alone' = alone
        BY <1>13 DEF Add, Prepare
    <2>3. Adds(p) /\ ~Touches(p) /\ ~Removes(p)
        BY <1>13 DEF Add, Prepare
    <2>4. v[req[p].by] = stamp[p]
        BY <2>1 DEF List
    <2> HIDE DEF v
    <2> QED BY <1>13, <2>2, <2>3, <2>4 DEF Add, Prepare
<1>14. ASSUME Remove(p) PROVE Own
    <2> DEFINE v == [View(p) EXCEPT ![req[p].on] = None]
    <2>1. req[p] \in Request /\ View(p) \in List
        BY <1>14, ViewIsList DEF Remove, Prepare
    <2>2. draft'[p] = v /\ pc'[p] = "put" /\ req' = req /\ stamp' = stamp /\ alone' = alone
        BY <1>14 DEF Remove, Prepare
    <2>3. Removes(p) /\ ~Touches(p) /\ ~Adds(p)
        BY <1>14 DEF Remove, Prepare
    <2>4. v[req[p].on] = None
        BY <2>1 DEF List
    <2> HIDE DEF v
    <2> QED BY <1>14, <2>2, <2>3, <2>4 DEF Remove, Prepare
<1>15. ASSUME WriteRow(p), Exec(p) PROVE Own
    BY <1>15 DEF WriteRow, Exec
<1>16. ASSUME WriteRow(p), ExecFails(p) PROVE Own
    BY <1>16 DEF WriteRow, ExecFails
<1>17. ASSUME Done(p) PROVE Own
    <2>1. pc'[p] \in {"get", "idle"}
        BY <1>17 DEF Done, SetCache, Onward
    <2>2. CASE HasHandler(p)
        <3>0. StartCall(p)
            BY <1>17, <2>2 DEF Done, Continue, NextCall
        <3>1. alone'[p] => \A q \in Proc \ {p} : ~Busy(q)
            BY <3>0 DEF StartCall
        <3>2. pc'[p] = "get"
            BY <1>17, <2>2 DEF Done, SetCache, Onward, HasHandler
        <3> QED BY <3>1, <3>2
    <2>3. CASE ~HasHandler(p)
        BY <1>17, <2>3 DEF Done, SetCache, Onward, Continue, EndRequest, EndCall
    <2> QED BY <2>1, <2>2, <2>3
<1>18. ASSUME Fail(p) PROVE Own
    <2>1. pc'[p] \in {"get", "idle"}
        BY <1>18 DEF Fail, Return, Onward
    <2>2. CASE HasHandler(p)
        <3>0. StartCall(p)
            BY <1>18, <2>2 DEF Fail, Continue, NextCall
        <3>1. alone'[p] => \A q \in Proc \ {p} : ~Busy(q)
            BY <3>0 DEF StartCall
        <3>2. pc'[p] = "get"
            BY <1>18, <2>2 DEF Fail, Return, Onward, HasHandler
        <3> QED BY <3>1, <3>2
    <2>3. CASE ~HasHandler(p)
        BY <1>18, <2>3 DEF Fail, Return, Onward, Continue, EndRequest, EndCall
    <2> QED BY <2>1, <2>2, <2>3
<1> QED
    BY <1>1, <1>2, <1>3, <1>4, <1>5, <1>6, <1>7, <1>8, <1>9, <1>10, <1>11, <1>12, <1>13, <1>14, <1>15, <1>16, <1>17, <1>18
    DEF Step, ReadStep, Get, WriteRow

\* Only a request that arrives starts from idle.
LEMMA IdleStep ==
    ASSUME TypeOK, NEW p \in Proc, Step(p), ~Busy(p)
    PROVE  StartCall(p)
<1> USE DEF TypeOK, Busy
<1>1. ASSUME SignIn(p) PROVE StartCall(p)
    BY <1>1 DEF SignIn, StartCall
<1>2. ASSUME Arrive(p) PROVE StartCall(p)
    BY <1>2 DEF Arrive, StartCall
<1>3. ASSUME ReadStep(p), CacheHit(p) PROVE StartCall(p)
    BY <1>3 DEF ReadStep, CacheHit
<1>4. ASSUME ReadStep(p), CacheMiss(p) PROVE StartCall(p)
    BY <1>4 DEF ReadStep, CacheMiss
<1>5. ASSUME ReadStep(p), ListRow(p) PROVE StartCall(p)
    BY <1>5 DEF ReadStep, ListRow
<1>6. ASSUME ReadStep(p), ListNoRow(p) PROVE StartCall(p)
    BY <1>6 DEF ReadStep, ListNoRow
<1>7. ASSUME ReadStep(p), ListFails(p) PROVE StartCall(p)
    BY <1>7 DEF ReadStep, ListFails
<1>8. ASSUME ReadStep(p), Fill(p) PROVE StartCall(p)
    BY <1>8 DEF ReadStep, Fill
<1>9. ASSUME Accept(p) PROVE StartCall(p)
    BY <1>9 DEF Accept, Return, NextCall, StartCall
<1>10. ASSUME Reject(p) PROVE StartCall(p)
    BY <1>10 DEF Reject, Return, EndRequest, EndCall
<1>11. ASSUME Listed(p) PROVE StartCall(p)
    BY <1>11 DEF Listed, Return, EndRequest, EndCall
<1>12. ASSUME Touch(p) PROVE StartCall(p)
    BY <1>12 DEF Touch, Prepare
<1>13. ASSUME Add(p) PROVE StartCall(p)
    BY <1>13 DEF Add, Prepare
<1>14. ASSUME Remove(p) PROVE StartCall(p)
    BY <1>14 DEF Remove, Prepare
<1>15. ASSUME WriteRow(p), Exec(p) PROVE StartCall(p)
    BY <1>15 DEF WriteRow, Exec
<1>16. ASSUME WriteRow(p), ExecFails(p) PROVE StartCall(p)
    BY <1>16 DEF WriteRow, ExecFails
<1>17. ASSUME Done(p) PROVE StartCall(p)
    BY <1>17 DEF Done, SetCache, Onward, Continue, HasHandler, NextCall, StartCall, EndRequest, EndCall
<1>18. ASSUME Fail(p) PROVE StartCall(p)
    BY <1>18 DEF Fail, Return, Onward, Continue, HasHandler, NextCall, StartCall, EndRequest, EndCall
<1> QED
    BY <1>1, <1>2, <1>3, <1>4, <1>5, <1>6, <1>7, <1>8, <1>9, <1>10, <1>11, <1>12, <1>13, <1>14, <1>15, <1>16, <1>17, <1>18
    DEF Step, ReadStep, Get, WriteRow

\* What one step of a goroutine does to its own call.
LEMMA CallStep ==
    ASSUME TypeOK, Shape, NEW p \in Proc, Step(p)
    PROVE  /\ Busy(p)' =>
              \/ Busy(p) /\ stamp'[p] = stamp[p] /\ req'[p] = req[p]
              \/ /\ pc'[p] = "get" /\ stamp'[p] = clock
                 /\ Adds(p)' => req'[p].by \notin issued
                 /\ Touches(p)' \/ Adds(p)' => lastUse'[req'[p].by] = clock
                 /\ Removes(p)' => floor'[req'[p].on] = None
           /\ \A s \in Session : lastUse'[s] = lastUse[s] \/ lastUse'[s] = clock
           /\ row' = row \/ (pc[p] = "put" /\ row' = draft[p])
           /\ pc'[p] = "got" => ref'[p] # None \/ row = None
           /\ gone' = gone \/ (Done(p) /\ alone[p] /\ Removes(p) /\ gone' = gone \cup {req[p].on})
           /\ issued \subseteq issued' /\ clock' = clock
<1> DEFINE Call ==
        /\ Busy(p)' =>
           \/ Busy(p) /\ stamp'[p] = stamp[p] /\ req'[p] = req[p]
           \/ /\ pc'[p] = "get" /\ stamp'[p] = clock
              /\ Adds(p)' => req'[p].by \notin issued
              /\ Touches(p)' \/ Adds(p)' => lastUse'[req'[p].by] = clock
              /\ Removes(p)' => floor'[req'[p].on] = None
        /\ \A s \in Session : lastUse'[s] = lastUse[s] \/ lastUse'[s] = clock
        /\ row' = row \/ (pc[p] = "put" /\ row' = draft[p])
        /\ pc'[p] = "got" => ref'[p] # None \/ row = None
        /\ gone' = gone \/ (Done(p) /\ alone[p] /\ Removes(p) /\ gone' = gone \cup {req[p].on})
        /\ issued \subseteq issued' /\ clock' = clock
<1> USE DEF TypeOK, Shape, Placed, Busy, Goto, Hold, Drop, history, Handles, Touches, Adds, Removes, Request, List
<1>1. ASSUME SignIn(p) PROVE Call
    <2>1. PICK s \in Session \ issued :
            /\ req'[p] = [kind |-> "signin", stage |-> "handler", by |-> s, on |-> s]
            /\ lastUse' = [lastUse EXCEPT ![s] = clock]
        BY <1>1 DEF SignIn
    <2>2. pc'[p] = "get" /\ stamp'[p] = clock /\ issued \subseteq issued' /\ UNCHANGED <<row, clock, gone>>
        BY <1>1 DEF SignIn, StartCall
    <2> QED BY <2>1, <2>2
<1>2. ASSUME Arrive(p) PROVE Call
    <2>1. PICK kind \in Kind \ {"signin"}, by \in issued, on \in issued :
            req'[p] = [kind |-> kind, stage |-> "auth", by |-> by, on |-> on]
        BY <1>2 DEF Arrive
    <2>2. pc'[p] = "get" /\ stamp'[p] = clock /\ UNCHANGED <<row, clock, gone, issued, lastUse>>
        BY <1>2 DEF Arrive, StartCall
    <2> QED BY <2>1, <2>2
<1>3. ASSUME ReadStep(p), CacheHit(p) PROVE Call
    BY <1>3 DEF ReadStep, CacheHit
<1>4. ASSUME ReadStep(p), CacheMiss(p) PROVE Call
    BY <1>4 DEF ReadStep, CacheMiss
<1>5. ASSUME ReadStep(p), ListRow(p) PROVE Call
    BY <1>5 DEF ReadStep, ListRow
<1>6. ASSUME ReadStep(p), ListNoRow(p) PROVE Call
    BY <1>6 DEF ReadStep, ListNoRow
<1>7. ASSUME ReadStep(p), ListFails(p) PROVE Call
    BY <1>7 DEF ReadStep, ListFails
<1>8. ASSUME ReadStep(p), Fill(p) PROVE Call
    BY <1>8 DEF ReadStep, Fill
<1>9. ASSUME Accept(p) PROVE Call
    <2>1. req[p] \in Request
        BY <1>9 DEF Accept
    <2>2. NextCall(p, "touch", floor) /\ pc'[p] = "get" /\ UNCHANGED <<clock, issued, gone, row>>
        BY <1>9 DEF Accept, Return
    <2>3. /\ req'[p] = [kind |-> req[p].kind, stage |-> "touch", by |-> req[p].by, on |-> req[p].on]
          /\ stamp'[p] = clock
          /\ lastUse' = [lastUse EXCEPT ![req[p].by] = clock]
        BY <2>2 DEF NextCall, StartCall
    <2> QED BY <2>1, <2>2, <2>3
<1>10. ASSUME Reject(p) PROVE Call
    BY <1>10 DEF Reject, Return, EndRequest, EndCall
<1>11. ASSUME Listed(p) PROVE Call
    BY <1>11 DEF Listed, Return, EndRequest, EndCall
<1>12. ASSUME Touch(p) PROVE Call
    BY <1>12 DEF Touch, Prepare
<1>13. ASSUME Add(p) PROVE Call
    BY <1>13 DEF Add, Prepare
<1>14. ASSUME Remove(p) PROVE Call
    BY <1>14 DEF Remove, Prepare
<1>15. ASSUME WriteRow(p), Exec(p) PROVE Call
    BY <1>15 DEF WriteRow, Exec
<1>16. ASSUME WriteRow(p), ExecFails(p) PROVE Call
    BY <1>16 DEF WriteRow, ExecFails
<1>17. ASSUME Done(p) PROVE Call
    <2>1. req[p] \in Request /\ UNCHANGED <<clock, issued, row>> /\ pc'[p] = Onward(p)
        BY <1>17 DEF Done, SetCache
    <2>2. gone' = gone \/ (Done(p) /\ alone[p] /\ Removes(p) /\ gone' = gone \cup {req[p].on})
        BY <1>17 DEF Done
    <2>3. PICK known \in List : Continue(p, known)
        BY <1>17, <2>1 DEF Done
    <2>4. CASE HasHandler(p)
        <3>1. NextCall(p, "handler", known) /\ pc'[p] = "get" /\ req[p].kind # "signin"
            BY <2>1, <2>3, <2>4 DEF Continue, Onward, HasHandler
        <3>2. /\ req'[p] = [kind |-> req[p].kind, stage |-> "handler", by |-> req[p].by, on |-> req[p].on]
              /\ stamp'[p] = clock
              /\ lastUse' = IF req[p].kind = "current" THEN [lastUse EXCEPT ![req[p].by] = clock] ELSE lastUse
              /\ req[p].kind = "revoke" => floor' = [known EXCEPT ![req[p].on] = None]
            BY <3>1 DEF NextCall, StartCall
        <3> QED BY <2>1, <2>2, <3>1, <3>2
    <2>5. CASE ~HasHandler(p)
        BY <2>1, <2>2, <2>3, <2>5 DEF Continue, Onward, EndRequest
    <2> QED BY <2>4, <2>5
<1>18. ASSUME Fail(p) PROVE Call
    <2>1. req[p] \in Request /\ UNCHANGED <<clock, issued, row>> /\ pc'[p] = Onward(p)
        BY <1>18 DEF Fail, Return
    <2>2. gone' = gone \/ (Done(p) /\ alone[p] /\ Removes(p) /\ gone' = gone \cup {req[p].on})
        BY <1>18 DEF Fail
    <2>3. PICK known \in List : Continue(p, known)
        BY <1>18, <2>1 DEF Fail
    <2>4. CASE HasHandler(p)
        <3>1. NextCall(p, "handler", known) /\ pc'[p] = "get" /\ req[p].kind # "signin"
            BY <2>1, <2>3, <2>4 DEF Continue, Onward, HasHandler
        <3>2. /\ req'[p] = [kind |-> req[p].kind, stage |-> "handler", by |-> req[p].by, on |-> req[p].on]
              /\ stamp'[p] = clock
              /\ lastUse' = IF req[p].kind = "current" THEN [lastUse EXCEPT ![req[p].by] = clock] ELSE lastUse
              /\ req[p].kind = "revoke" => floor' = [known EXCEPT ![req[p].on] = None]
            BY <3>1 DEF NextCall, StartCall
        <3> QED BY <2>1, <2>2, <3>1, <3>2
    <2>5. CASE ~HasHandler(p)
        BY <2>1, <2>2, <2>3, <2>5 DEF Continue, Onward, EndRequest
    <2> QED BY <2>4, <2>5
<1> QED
    BY <1>1, <1>2, <1>3, <1>4, <1>5, <1>6, <1>7, <1>8, <1>9, <1>10, <1>11, <1>12, <1>13, <1>14, <1>15, <1>16, <1>17, <1>18
    DEF Step, ReadStep, Get, WriteRow

\* What a lone writer leaves: its list is the only one.
LEMMA LoneWriter ==
    ASSUME TypeOK, Shape, Solitude, NEW p \in Proc, Done(p), alone[p]
    PROVE  /\ Lists' \subseteq {row}
           /\ row = heap[ref[p]] /\ row # None /\ row' = row
           /\ pc[p] = "set"
<1>1. pc[p] = "set" /\ row = heap[ref[p]] /\ row' = row
    BY DEF Done, SetCache, Solitude
<1>2. cached' = ref[p] /\ ref'[p] = None /\ draft' = draft /\ heap' = Swept(heap)
    BY DEF Done, SetCache, Drop, Hold, TypeOK
<1>3. \A q \in Proc : draft[q] = None /\ ref'[q] = None
    BY <1>1, <1>2 DEF Solitude, Shape, Placed, Busy, Done, SetCache, Drop, Hold, TypeOK
<1>4. ref[p] \in Ref /\ heap[ref[p]] # None
    BY <1>1 DEF Shape, Placed, Held, TypeOK
<1>5. \A r \in Ref : heap'[r] # None => heap'[r] = row
    BY <1>1, <1>2, <1>3, <1>4 DEF Swept, Held, TypeOK
<1> QED BY <1>1, <1>2, <1>3, <1>4, <1>5 DEF Lists

\* Solitude and what a call writes, step by step.
LEMMA SolitudeStep ==
    ASSUME Inductive, NEW p \in Proc, Step(p)
    PROVE  Solitude'
<1> USE DEF Inductive
<1> SUFFICES ASSUME NEW q \in Proc, alone'[q]
             PROVE  /\ Busy(q)'
                    /\ \A o \in Proc \ {q} : ~Busy(o)'
                    /\ pc'[q] = "set" => row' = heap'[ref'[q]]
    BY DEF Solitude
<1>1. CASE q = p
    <2>1. Busy(p)' /\ \A o \in Proc \ {p} : ~Busy(o)
        BY <1>1, OwnStep DEF Solitude
    <2>2. \A o \in Proc \ {p} : ~Busy(o)'
        BY <2>1, Others DEF Busy
    <2>3. pc'[q] = "set" => row' = heap'[ref'[q]]
        BY <1>1, OwnStep
    <2> QED BY <1>1, <2>1, <2>2, <2>3
<1>2. CASE q # p
    <2>1. alone[q]
        BY <1>2, Others
    <2>2. Busy(q) /\ ~Busy(p)
        BY <1>2, <2>1 DEF Solitude
    <2>3. StartCall(p)
        BY <2>2, IdleStep
    <2> QED BY <1>2, <2>2, <2>3 DEF StartCall
<1> QED BY <1>1, <1>2

\* A call that writes its own session writes what it was called for.
LEMMA DraftsStep ==
    ASSUME Inductive, NEW p \in Proc, Step(p)
    PROVE  Drafts'
<1> USE DEF Inductive
<1> SUFFICES ASSUME NEW q \in Proc
             PROVE  /\ pc'[q] = "put" => Written(q, draft[q])'
                    /\ pc'[q] = "set" /\ alone'[q] => Written(q, heap[ref[q]])'
    BY DEF Drafts
<1>1. CASE q = p
    <2>1. pc'[q] = "put" => Written(q, draft[q])'
        BY <1>1, OwnStep
    <2>2. ASSUME pc'[q] = "set", alone'[q] PROVE Written(q, heap[ref[q]])'
        <3>1. Written(p, draft[p])
            BY <1>1, <2>2, OwnStep DEF Drafts
        <3>2. heap'[ref'[p]] = draft[p] /\ req'[p] = req[p] /\ stamp'[p] = stamp[p]
            BY <1>1, <2>2, OwnStep
        <3> QED BY <1>1, <3>1, <3>2 DEF Written, Touches, Adds, Removes, Handles
    <2> QED BY <2>1, <2>2
<1>2. CASE q # p
    <2>1. /\ pc'[q] = pc[q] /\ draft'[q] = draft[q]
          /\ req'[q] = req[q] /\ stamp'[q] = stamp[q]
        BY <1>2, Others
    <2>2. pc'[q] = "put" => Written(q, draft[q])'
        BY <2>1 DEF Drafts, Written, Touches, Adds, Removes, Handles
    <2>3. ~alone'[q]
        BY <1>2, SolitudeStep, IdleStep, Others DEF StartCall, Solitude
    <2> QED BY <2>2, <2>3
<1> QED BY <1>1, <1>2

\* What a call computes, of any session s.
LEMMA Computed ==
    ASSUME Inductive, NEW p \in Proc, Touch(p) \/ Add(p) \/ Remove(p),
           NEW s \in Session
    PROVE  /\ pc[p] = "got"
           /\ View(p) = Empty \/ View(p) \in Lists
           /\ ref[p] # None => View(p) \in Lists
           /\ \/ draft'[p][s] = View(p)[s]
              \/ /\ Touches(p) \/ Adds(p)
                 /\ s = req[p].by /\ draft'[p][s] = stamp[p]
                 /\ Adds(p) \/ View(p)[s] # None
              \/ Removes(p) /\ s = req[p].on /\ draft'[p][s] = None
<1> USE DEF Inductive
<1>1. pc[p] = "got"
    BY DEF Touch, Add, Remove, Prepare
<1>2. req[p] \in Request /\ View(p) \in List
    BY <1>1, ViewIsList DEF Shape, Placed, Busy, TypeOK
<1>3. ref[p] # None => View(p) \in Lists
    BY DEF View, Lists, Shape, Held, TypeOK
<1>4. View(p) = Empty \/ View(p) \in Lists
    BY <1>3 DEF View
<1>5. CASE Touch(p)
    <2>1. draft'[p] = IF View(p)[req[p].by] = None THEN View(p)
                      ELSE [View(p) EXCEPT ![req[p].by] = stamp[p]]
        BY <1>5 DEF Touch, Prepare, TypeOK
    <2> QED BY <1>1, <1>2, <1>3, <1>4, <1>5, <2>1 DEF Touch, List
<1>6. CASE Add(p)
    <2>1. draft'[p] = [View(p) EXCEPT ![req[p].by] = stamp[p]]
        BY <1>6 DEF Add, Prepare, TypeOK
    <2> QED BY <1>1, <1>2, <1>3, <1>4, <1>6, <2>1 DEF Add, List
<1>7. CASE Remove(p)
    <2>1. draft'[p] = [View(p) EXCEPT ![req[p].on] = None]
        BY <1>7 DEF Remove, Prepare, TypeOK
    <2> QED BY <1>1, <1>2, <1>3, <1>4, <1>7, <2>1 DEF Remove, List
<1> QED BY <1>5, <1>6, <1>7

\* A session that is gone stays out of every list and every call.
LEMMA GoneStep ==
    ASSUME Inductive, NEW p \in Proc, Step(p), NEW s \in gone'
    PROVE  Gone(s)'
<1> USE DEF Inductive
<1>1. CASE s \in gone
    <2>1. Gone(s) /\ s \in Session
        BY <1>1 DEF TypeOK
    <2>2. s \in issued'
        BY <2>1, CallStep DEF Gone
    <2>3. ASSUME NEW list \in Lists' PROVE list[s] = None
        <3>1. CASE list \in Lists
            BY <2>1, <3>1 DEF Gone
        <3>2. CASE (Touch(p) \/ Add(p) \/ Remove(p)) /\ list = draft'[p]
            <4>1. View(p)[s] = None
                BY <2>1, <3>2, Computed DEF Gone, Empty
            <4>2. ~(Adds(p) /\ req[p].by = s)
                BY <2>1, <3>2, Computed DEF Gone, Busy
            <4> QED BY <2>1, <3>2, <4>1, <4>2, Computed
        <3> QED BY <3>1, <3>2, ListsStep
    <2>4. ASSUME NEW q \in Proc, Busy(q)', Adds(q)' PROVE req'[q].by # s
        <3>1. CASE q = p
            BY <2>1, <2>4, <3>1, CallStep DEF Gone, Adds, Handles
        <3>2. CASE q # p
            BY <2>1, <2>4, <3>2, Others DEF Gone, Adds, Handles, Busy
        <3> QED BY <3>1, <3>2
    <2> QED BY <2>2, <2>3, <2>4 DEF Gone
<1>2. CASE s \notin gone
    <2>1. Done(p) /\ alone[p] /\ Removes(p) /\ s = req[p].on
        BY <1>2, CallStep
    <2>2. pc[p] = "set" /\ row = heap[ref[p]] /\ Lists' \subseteq {row}
        BY <2>1, LoneWriter
    <2>3. row[s] = None
        BY <2>1, <2>2 DEF Drafts, Written
    <2>4. s \in issued'
        BY <2>1, <2>2, CallStep DEF Shape, Placed, Busy
    <2>5. ASSUME NEW q \in Proc PROVE ~Busy(q)'
        <3>1. CASE q = p
            BY <2>1, <3>1 DEF Done, SetCache, Onward, HasHandler, Removes, Handles, Goto, Busy, TypeOK
        <3>2. CASE q # p
            BY <2>1, <3>2, Others DEF Solitude, Busy
        <3> QED BY <3>1, <3>2
    <2> QED BY <2>2, <2>3, <2>4, <2>5 DEF Gone
<1> QED BY <1>1, <1>2

\* A session with a known access time keeps it, in every list and call.
LEMMA KnownStep ==
    ASSUME Inductive, NEW p \in Proc, Step(p),
           NEW s \in Session, floor'[s] # None
    PROVE  Known(s)'
<1> USE DEF Inductive
<1>1. CASE floor'[s] = floor[s]
    <2>1. Known(s) /\ floor[s] \in Nat /\ clock \in Nat /\ stamp \in [Proc -> Nat]
        BY <1>1 DEF TypeOK, List, Time
    <2>2. s \in issued' /\ floor'[s] <= clock'
        BY <1>1, <2>1, CallStep DEF Known
    <2>3. row' # None
        BY <2>1, CallStep DEF Known, Shape, Placed
    <2>4. ASSUME NEW list \in Lists' PROVE list[s] # None /\ floor'[s] <= list[s]
        <3>1. CASE list \in Lists
            BY <1>1, <2>1, <3>1 DEF Known
        <3>2. CASE (Touch(p) \/ Add(p) \/ Remove(p)) /\ list = draft'[p]
            <4>1. ref[p] # None /\ View(p) \in Lists
                BY <2>1, <3>2, Computed DEF Known, Busy
            <4>2. View(p)[s] # None /\ floor[s] <= View(p)[s]
                BY <2>1, <4>1 DEF Known
            <4>3. (Touches(p) \/ Adds(p)) /\ req[p].by = s => floor[s] <= stamp[p]
                BY <2>1, <3>2, Computed DEF Known, Busy
            <4>4. Removes(p) => req[p].on # s
                BY <2>1, <3>2, Computed DEF Known, Busy
            <4>5. stamp[p] # None
                BY <2>1
            <4> QED BY <1>1, <3>2, <4>2, <4>3, <4>4, <4>5, Computed
        <3> QED BY <3>1, <3>2, ListsStep
    <2>5. ASSUME NEW q \in Proc, Busy(q)'
          PROVE  /\ (Touches(q) \/ Adds(q))' /\ req'[q].by = s => floor'[s] <= stamp'[q]
                 /\ Removes(q)' => req'[q].on # s
                 /\ pc'[q] = "got" => ref'[q] # None
        <3>1. CASE q = p
            <4>1. CASE Busy(p) /\ stamp'[p] = stamp[p] /\ req'[p] = req[p]
                BY <1>1, <2>1, <3>1, <4>1, CallStep DEF Known, Touches, Adds, Removes, Handles
            <4>2. CASE pc'[p] = "get" /\ stamp'[p] = clock /\ (Removes(p)' => floor'[req'[p].on] = None)
                BY <1>1, <2>1, <3>1, <4>2 DEF Known
            <4> QED BY <2>5, <3>1, <4>1, <4>2, CallStep
        <3>2. CASE q # p
            BY <1>1, <2>1, <2>5, <3>2, Others DEF Known, Busy, Touches, Adds, Removes, Handles
        <3> QED BY <3>1, <3>2
    <2> QED BY <2>2, <2>3, <2>4, <2>5 DEF Known
<1>2. CASE floor'[s] # floor[s]
    <2>1. /\ Done(p) /\ alone[p] /\ (Adds(p) \/ Touches(p))
          /\ s = req[p].by /\ floor'[s] = stamp[p] /\ heap[ref[p]][s] # None
        BY <1>2, FloorStep
    <2>2. /\ pc[p] = "set" /\ row = heap[ref[p]] /\ Lists' \subseteq {row}
          /\ row' = row /\ row # None
        BY <2>1, LoneWriter
    <2>3. row[s] = stamp[p]
        BY <2>1, <2>2 DEF Drafts, Written
    <2>4. stamp[p] \in Nat /\ stamp[p] <= clock /\ clock \in Nat /\ s \in issued
        BY <2>1, <2>2 DEF Shape, Placed, Busy, TypeOK, Time
    <2>5. s \in issued' /\ floor'[s] <= clock'
        BY <2>1, <2>4, CallStep
    <2>6. ASSUME NEW q \in Proc, Busy(q)'
          PROVE  /\ (Touches(q) \/ Adds(q))' /\ req'[q].by = s => floor'[s] <= stamp'[q]
                 /\ Removes(q)' => req'[q].on # s
                 /\ pc'[q] = "got" => ref'[q] # None
        <3>1. q = p
            BY <2>1, <2>6, Others DEF Solitude, Busy
        <3>2. pc'[p] = "get" /\ stamp'[p] = clock
            BY <2>1, <2>6, <3>1 DEF Done, SetCache, Onward, Continue, HasHandler, NextCall, StartCall, Goto, Busy, TypeOK
        <3>3. Removes(p)' => floor'[req'[p].on] = None
            BY <2>1, <2>6, <3>1, CallStep DEF Removes, Handles, Touches, Adds
        <3> QED BY <2>1, <2>4, <3>1, <3>2, <3>3
    <2> QED BY <2>1, <2>2, <2>3, <2>4, <2>5, <2>6 DEF Known
<1> QED BY <1>1, <1>2

\* No list and no call gets ahead of the last use of a session.
LEMMA UsedStep ==
    ASSUME Inductive, NEW p \in Proc, Step(p), NEW s \in Session
    PROVE  Used(s)'
<1> USE DEF Inductive
<1>1. Used(s) /\ clock \in Nat /\ lastUse[s] \in Nat \cup {None} /\ clock' = clock
    BY CallStep DEF TypeOK, List, Time
<1>2. lastUse'[s] # None => lastUse'[s] <= clock'
    BY <1>1, CallStep DEF Used
<1>3. ASSUME NEW t \in Nat, lastUse[s] # None, t <= lastUse[s]
      PROVE  lastUse'[s] # None /\ t <= lastUse'[s]
    BY <1>1, <1>3, CallStep DEF Used
<1>4. ASSUME NEW list \in Lists', list[s] # None
      PROVE  lastUse'[s] # None /\ list[s] <= lastUse'[s]
    <2>1. \A l \in Lists : l[s] \in Nat \cup {None}
        BY DEF Lists, TypeOK, List, Time
    <2>2. CASE list \in Lists
        BY <1>1, <1>3, <1>4, <2>1, <2>2 DEF Used
    <2>3. CASE (Touch(p) \/ Add(p) \/ Remove(p)) /\ list = draft'[p]
        <3>1. View(p)[s] # None => View(p)[s] \in Nat /\ lastUse[s] # None /\ View(p)[s] <= lastUse[s]
            BY <1>1, <2>1, <2>3, Computed DEF Used, Empty
        <3>2. (Touches(p) \/ Adds(p)) /\ s = req[p].by =>
                stamp[p] \in Nat /\ lastUse[s] # None /\ stamp[p] <= lastUse[s]
            BY <1>1, <2>3, Computed DEF Used, Busy, TypeOK, Time
        <3>3. list[s] \in Nat /\ lastUse[s] # None /\ list[s] <= lastUse[s]
            BY <1>4, <2>3, <3>1, <3>2, Computed
        <3> QED BY <1>3, <3>3
    <2> QED BY <2>2, <2>3, ListsStep
<1>5. ASSUME NEW q \in Proc, Busy(q)', (Touches(q) \/ Adds(q))', req'[q].by = s
      PROVE  lastUse'[s] # None /\ stamp'[q] <= lastUse'[s]
    <2>1. stamp[q] \in Nat
        BY DEF TypeOK, Time
    <2>2. CASE Busy(q) /\ req'[q] = req[q] /\ stamp'[q] = stamp[q]
        BY <1>1, <1>3, <1>5, <2>1, <2>2 DEF Used, Touches, Adds, Handles
    <2>3. CASE stamp'[q] = clock /\ lastUse'[s] = clock
        BY <1>1, <2>3
    <2>4. CASE q = p
        BY <1>5, <2>2, <2>3, <2>4, CallStep
    <2>5. CASE q # p
        BY <1>5, <2>2, <2>5, Others DEF Busy
    <2> QED BY <2>4, <2>5
<1> QED BY <1>2, <1>4, <1>5 DEF Used

\* The cache entry expires, the server restarts, time passes: no list appears,
\* and no call starts.
LEMMA EnvironmentStep ==
    ASSUME Inductive, Expire \/ Restart \/ Tick \/ UNCHANGED vars
    PROVE  /\ Solitude' /\ Drafts'
           /\ \A s \in Session : floor'[s] # None => Known(s)'
           /\ \A s \in gone' : Gone(s)'
           /\ \A s \in Session : Used(s)'
<1> USE DEF Inductive
<1>1. /\ Lists' \subseteq Lists /\ row' = row
      /\ UNCHANGED <<floor, gone, lastUse, issued>>
      /\ clock' \in {clock, clock + 1}
    BY DEF Lists, Expire, Evict, Swept, Restart, CellRestart, Tick, vars, cellVars, history, TypeOK
<1>2. ASSUME NEW p \in Proc
      PROVE  \/ ~Busy(p)' /\ ~alone'[p] /\ pc'[p] = "idle"
             \/ /\ pc'[p] = pc[p] /\ ref'[p] = ref[p] /\ draft'[p] = draft[p]
                /\ req'[p] = req[p] /\ stamp'[p] = stamp[p] /\ alone'[p] = alone[p]
    BY DEF Expire, Evict, Restart, CellRestart, Tick, vars, cellVars, history, Busy
<1>3. ASSUME NEW p \in Proc, pc'[p] = "set"
      PROVE  pc[p] = "set" /\ ref'[p] = ref[p] /\ heap'[ref'[p]] = heap[ref[p]]
    <2>1. pc[p] = "set" /\ ref'[p] = ref[p]
        BY <1>2, <1>3
    <2>2. ref[p] \in Ref
        BY <2>1 DEF Shape, Placed, TypeOK
    <2> QED BY <1>3, <2>1, <2>2 DEF Expire, Evict, Swept, Held, Restart, CellRestart, Tick, vars, cellVars
<1>4. Solitude'
    BY <1>1, <1>2, <1>3 DEF Solitude, Busy
<1>5. Drafts'
    BY <1>2, <1>3 DEF Drafts, Written, Touches, Adds, Removes, Handles
<1>6. ASSUME NEW s \in Session, floor'[s] # None PROVE Known(s)'
    <2>1. Known(s) /\ floor[s] \in Nat /\ clock \in Nat
        BY <1>1, <1>6 DEF TypeOK, List, Time
    <2> QED BY <1>1, <1>2, <2>1 DEF Known, Busy, Touches, Adds, Removes, Handles
<1>7. ASSUME NEW s \in gone' PROVE Gone(s)'
    BY <1>1, <1>2, <1>7 DEF Gone, Busy, Adds, Handles
<1>8. ASSUME NEW s \in Session PROVE Used(s)'
    <2>1. Used(s) /\ clock \in Nat /\ lastUse[s] \in Nat \cup {None}
        BY DEF TypeOK, List, Time
    <2> QED BY <1>1, <1>2, <2>1 DEF Used, Busy, Touches, Adds, Handles
<1> QED BY <1>4, <1>5, <1>6, <1>7, <1>8

\* Every step keeps Inductive.
LEMMA InductiveStep == Inductive /\ [Next]_vars => Inductive'
<1> SUFFICES ASSUME Inductive, [Next]_vars PROVE Inductive'
    OBVIOUS
<1>1. TypeOK' /\ Shape'
    BY TypeStep, ShapeStep
<1>2. ASSUME NEW p \in Proc, Step(p) PROVE Inductive'
    <2>1. \A s \in Session : floor'[s] # None => Known(s)'
        BY <1>2, KnownStep
    <2>2. \A s \in gone' : Gone(s)'
        BY <1>2, GoneStep
    <2>3. \A s \in Session : Used(s)'
        BY <1>2, UsedStep
    <2> QED BY <1>1, <1>2, SolitudeStep, DraftsStep, <2>1, <2>2, <2>3 DEF Inductive
<1>3. CASE Expire \/ Restart \/ Tick \/ UNCHANGED vars
    BY <1>1, <1>3, EnvironmentStep DEF Inductive
<1> QED BY <1>2, <1>3 DEF Next

\* Every list, pointer and request is what Inductive says, in every state.
THEOREM AlwaysInductive == Spec => []Inductive
BY InitInductive, InductiveStep, PTL DEF Spec

\* Type correctness, for any sessions, goroutines, window and clock.
THEOREM TypeCorrect == Spec => []TypeOK
<1>1. Inductive => TypeOK
    BY DEF Inductive
<1> QED BY <1>1, AlwaysInductive, PTL

\* What a goroutine reads is one of the lists Inductive speaks of.
LEMMA ViewListed ==
    ASSUME Inductive, NEW p \in Proc, ref[p] # None
    PROVE  View(p) \in Lists
BY DEF Inductive, View, Lists, Shape, Held, TypeOK

\* A session revoked while no other store call was in flight never
\* authenticates a request again.
THEOREM RevocationHolds == Spec => RevokedStayRevoked
<1>1. ASSUME Inductive, NEW p \in Proc, Accept(p) PROVE req[p].by \notin gone
    <2>1. View(p)[req[p].by] # None
        BY <1>1 DEF Accept, Valid
    <2>2. req[p].by \in Session
        BY <1>1 DEF Inductive, Accept, Shape, Placed, Busy, TypeOK
    <2>3. ref[p] # None
        BY <2>1, <2>2 DEF View, Empty
    <2> QED BY <1>1, <2>1, <2>3, ViewListed DEF Inductive, Gone
<1>2. Inductive => [\A p \in Proc : Accept(p) => req[p].by \notin gone]_vars
    BY <1>1
<1> QED BY <1>2, AlwaysInductive, PTL DEF RevokedStayRevoked

\* A session last refreshed by a call nothing overlapped is accepted for the
\* whole window.
THEOREM ActiveAccepted == Spec => ActiveSessionAccepted
<1> DEFINE A == \A p \in Proc : Reject(p) =>
                    LET s == req[p].by IN floor[s] = None \/ floor[s] + Window < clock
<1>1. ASSUME Inductive, NEW p \in Proc, Reject(p), floor[req[p].by] # None
      PROVE  floor[req[p].by] + Window < clock
    <2> DEFINE s == req[p].by
    <2>1. s \in Session /\ pc[p] = "got"
        BY <1>1 DEF Inductive, Reject, Shape, Placed, Busy, TypeOK
    <2>2. Known(s)
        BY <1>1, <2>1 DEF Inductive
    <2>3. View(p) \in Lists
        BY <1>1, <2>1, <2>2, ViewListed DEF Known, Busy
    <2>4. View(p)[s] # None /\ floor[s] <= View(p)[s]
        BY <2>2, <2>3 DEF Known
    <2>5. View(p)[s] + Window < clock
        BY <1>1, <2>4 DEF Reject, Valid
    <2>6. View(p)[s] \in Nat /\ floor[s] \in Nat /\ clock \in Nat
        BY <1>1, <2>1, <2>3, <2>4 DEF Inductive, Lists, TypeOK, List, Time
    <2> QED BY <2>4, <2>5, <2>6
<1>2. Inductive => [A]_vars
    BY <1>1
<1> QED BY <1>2, AlwaysInductive, PTL DEF ActiveSessionAccepted

\* A session nobody used for longer than the window is refused.
THEOREM IdleRefused == Spec => IdleSessionRefused
<1> DEFINE A == \A p \in Proc : Accept(p) =>
                    LET s == req[p].by IN lastUse[s] # None /\ clock <= lastUse[s] + Window
<1>1. ASSUME Inductive, NEW p \in Proc, Accept(p)
      PROVE  lastUse[req[p].by] # None /\ clock <= lastUse[req[p].by] + Window
    <2> DEFINE s == req[p].by
    <2>1. View(p)[s] # None /\ ~(View(p)[s] + Window < clock)
        BY <1>1 DEF Accept, Valid
    <2>2. s \in Session
        BY <1>1 DEF Inductive, Accept, Shape, Placed, Busy, TypeOK
    <2>3. View(p) \in Lists
        BY <1>1, <2>1, <2>2, ViewListed DEF View, Empty
    <2>4. lastUse[s] # None /\ View(p)[s] <= lastUse[s]
        BY <1>1, <2>1, <2>2, <2>3 DEF Inductive, Used
    <2>5. View(p)[s] \in Nat /\ lastUse[s] \in Nat /\ clock \in Nat
        BY <1>1, <2>1, <2>2, <2>3, <2>4 DEF Inductive, Lists, TypeOK, List, Time
    <2> QED BY <2>1, <2>4, <2>5
<1>2. Inductive => [A]_vars
    BY <1>1
<1> QED BY <1>2, AlwaysInductive, PTL DEF IdleSessionRefused

---------------------------------------------------------------------------
(* The ledger.                                                             *)

\* The table is a list of sessions, none of them used after now.
LEMMA TableIs ==
    ASSUME Inductive
    PROVE  /\ Table \in List
           /\ \A s \in Session : Table[s] # None => Table[s] \in Nat /\ Table[s] <= clock
<1>1. Table \in List
    BY DEF Inductive, TypeOK, Table, Empty, List
<1>2. ASSUME NEW s \in Session, Table[s] # None
      PROVE  Table[s] \in Nat /\ Table[s] <= clock
    <2>1. row # None /\ Table = row
        BY <1>2 DEF Table, Empty
    <2>2. row \in Lists
        BY <2>1 DEF Lists
    <2>3. lastUse[s] # None /\ row[s] <= lastUse[s] /\ lastUse[s] <= clock
        BY <1>2, <2>1, <2>2 DEF Inductive, Used
    <2>4. row[s] \in Nat /\ lastUse[s] \in Nat /\ clock \in Nat
        BY <1>2, <2>1, <2>3 DEF Inductive, TypeOK, List, Time
    <2> QED BY <2>1, <2>3, <2>4
<1> QED BY <1>1, <1>2

\* A goroutine that takes a step serves a request before or after it.
LEMMA Acts ==
    ASSUME TypeOK, NEW p \in Proc, Step(p)
    PROVE  Busy(p) \/ Busy(p)'
<1>1. SignIn(p) \/ Arrive(p) => pc'[p] = "get"
    BY DEF SignIn, Arrive, Goto, TypeOK
<1>2. Step(p) /\ ~(SignIn(p) \/ Arrive(p)) => pc[p] # "idle"
    BY DEF Step, ReadStep, Get, CacheHit, CacheMiss, ListRow, ListNoRow, ListFails, Fill, Accept,
       Reject, Listed, Touch, Add, Remove, WriteRow, Exec, ExecFails, Done, SetCache, Fail, Prepare
<1> QED BY <1>1, <1>2 DEF Busy

\* What a call is about to write, or holds, is the table, after every step of it.
LEMMA OwnInStep ==
    ASSUME ~DriverFails, Inductive, CacheInStep, NEW p \in Proc, Busy(p) => InStep(p), Step(p),
           \A q \in Proc \ {p} : ~Busy(q), Busy(p)'
    PROVE  InStep(p)'
<1> DEFINE Timely == \A s \in Session : Table'[s] # None => Table'[s] <= stamp'[p]
<1>0. /\ Table \in List /\ \A s \in Session : Table[s] # None => Table[s] \in Nat /\ Table[s] <= clock
      /\ View(p) \in List
    BY TableIs, ViewIsList DEF Inductive
<1>p. Placed(p) /\ TypeOK /\ \A r \in Ref : Held(r) <=> heap[r] # None
    BY DEF Inductive, Shape
<1>t. TypeOK
    BY DEF Inductive
<1> USE <1>t DEF TypeOK, Goto, Hold, Drop, history
<1>a. ASSUME row' = row, pc'[p] = "get", stamp'[p] = clock PROVE InStep(p)'
    BY <1>0, <1>a DEF InStep, Table
<1>b. ASSUME Busy(p), row' = row, stamp'[p] = stamp[p] PROVE Timely
    BY <1>b DEF InStep, Table
<1>1. ASSUME SignIn(p) PROVE InStep(p)'
    BY <1>1, <1>a DEF SignIn, StartCall
<1>2. ASSUME Arrive(p) PROVE InStep(p)'
    BY <1>2, <1>a DEF Arrive, StartCall
<1>3. ASSUME ReadStep(p), CacheHit(p) PROVE InStep(p)'
    <2>1. /\ pc[p] = "get" /\ cached # None /\ ref'[p] = cached /\ pc'[p] = "got"
          /\ UNCHANGED <<row, heap, stamp>>
        BY <1>3 DEF ReadStep, CacheHit
    <2>2. heap[cached] = row
        BY <2>1 DEF CacheInStep, Busy
    <2>3. heap[cached] # None
        BY <1>p, <2>1 DEF Held
    <2>4. View(p)' = Table'
        BY <2>1, <2>2, <2>3 DEF View, Table
    <2> QED BY <1>b, <2>1, <2>4 DEF InStep, Busy
<1>4. ASSUME ReadStep(p), CacheMiss(p) PROVE InStep(p)'
    <2>1. pc[p] = "get" /\ pc'[p] = "list" /\ UNCHANGED <<row, stamp>>
        BY <1>4 DEF ReadStep, CacheMiss
    <2> QED BY <1>b, <2>1 DEF InStep, Busy
<1>5. ASSUME ReadStep(p), ListRow(p) PROVE InStep(p)'
    <2>1. pc[p] = "list" /\ pc'[p] = "fill" /\ UNCHANGED <<row, stamp>> /\ heap'[ref'[p]] = row
        BY <1>5 DEF ReadStep, ListRow
    <2> QED BY <1>b, <2>1 DEF InStep, Busy
<1>6. ASSUME ReadStep(p), ListNoRow(p) PROVE InStep(p)'
    <2>1. pc[p] = "list" /\ pc'[p] = "got" /\ UNCHANGED <<row, stamp, ref>> /\ row = None
        BY <1>6 DEF ReadStep, ListNoRow
    <2>2. View(p)' = Table'
        BY <1>p, <2>1 DEF View, Table, Placed
    <2> QED BY <1>b, <2>1, <2>2 DEF InStep, Busy
<1>7. ~ListFails(p) /\ ~ExecFails(p)
    BY DEF ListFails, ExecFails
<1>8. ASSUME ReadStep(p), Fill(p) PROVE InStep(p)'
    <2>1. /\ pc[p] \in {"fill", "refill"} /\ UNCHANGED <<row, stamp, ref>> /\ heap' = Swept(heap)
          /\ pc'[p] = IF pc[p] = "fill" THEN "refill" ELSE "got"
        BY <1>8 DEF ReadStep, Fill
    <2>2. ref[p] \in Ref /\ heap[ref[p]] = row /\ heap[ref[p]] # None
        BY <1>p, <2>1 DEF Placed, InStep, Held, Busy
    <2>3. heap'[ref'[p]] = row'
        BY <2>1, <2>2 DEF Swept, Held
    <2>4. View(p)' = Table'
        BY <2>1, <2>2, <2>3, NoneIsNoRef DEF View, Table
    <2> QED BY <1>b, <2>1, <2>3, <2>4 DEF InStep, Busy
<1>9. ASSUME Accept(p) PROVE InStep(p)'
    BY <1>9, <1>a DEF Accept, Return, NextCall, StartCall
<1>10. ~Reject(p) /\ ~Listed(p)
    BY DEF Reject, Listed, Return, Busy
<1>11. ASSUME NEW v \in List, NEW h, Prepare(p, v, h), UNCHANGED <<req, stamp>>, v = Outcome(p)
       PROVE  InStep(p)'
    <2>1. pc[p] = "got" /\ pc'[p] = "put" /\ row' = row /\ draft'[p] = v
        BY <1>11 DEF Prepare
    <2>2. draft'[p] = Outcome(p)'
        BY <1>11, <2>1 DEF Outcome, Table, Removes, Touches, Handles
    <2> QED BY <1>11, <1>b, <2>1, <2>2 DEF InStep, Busy
<1>12. ASSUME Touch(p) PROVE InStep(p)'
    <2> DEFINE s == req[p].by
               v == IF View(p)[s] = None THEN View(p) ELSE [View(p) EXCEPT ![s] = stamp[p]]
               h == IF ref[p] = None THEN heap ELSE [heap EXCEPT ![ref[p]] = v]
    <2>1. Prepare(p, v, h) /\ UNCHANGED <<req, stamp>> /\ Touches(p)
        BY <1>12 DEF Touch
    <2>2. View(p) = Table
        BY <2>1 DEF InStep, Busy, Prepare
    <2>3. ~Removes(p)
        BY <2>1 DEF Touches, Removes, Handles
    <2>4. v = Outcome(p)
        BY <2>1, <2>2, <2>3 DEF Outcome
    <2>5. v \in List
        BY <1>0 DEF List, Time
    <2> HIDE DEF v, h
    <2> QED BY <1>11, <2>1, <2>4, <2>5
<1>13. ASSUME Add(p) PROVE InStep(p)'
    <2> DEFINE v == [View(p) EXCEPT ![req[p].by] = stamp[p]]
    <2>1. Prepare(p, v, heap) /\ UNCHANGED <<req, stamp>> /\ Adds(p)
        BY <1>13 DEF Add
    <2>2. View(p) = Table
        BY <2>1 DEF InStep, Busy, Prepare
    <2>3. ~Removes(p) /\ ~Touches(p)
        BY <2>1 DEF Touches, Removes, Adds, Handles
    <2>4. v = Outcome(p)
        BY <2>2, <2>3 DEF Outcome
    <2>5. v \in List
        BY <1>0 DEF List, Time
    <2> HIDE DEF v
    <2> QED BY <1>11, <2>1, <2>4, <2>5
<1>14. ASSUME Remove(p) PROVE InStep(p)'
    <2> DEFINE v == [View(p) EXCEPT ![req[p].on] = None]
    <2>1. Prepare(p, v, heap) /\ UNCHANGED <<req, stamp>> /\ Removes(p)
        BY <1>14 DEF Remove
    <2>2. View(p) = Table
        BY <2>1 DEF InStep, Busy, Prepare
    <2>4. v = Outcome(p)
        BY <2>1, <2>2 DEF Outcome
    <2>5. v \in List
        BY <1>0 DEF List, Time
    <2> HIDE DEF v
    <2> QED BY <1>11, <2>1, <2>4, <2>5
<1>15. ASSUME WriteRow(p), Exec(p) PROVE InStep(p)'
    <2>1. /\ pc[p] = "put" /\ pc'[p] = "set" /\ row' = draft[p] /\ heap'[ref'[p]] = draft[p]
          /\ stamp' = stamp
        BY <1>15 DEF WriteRow, Exec
    <2>2. row' = Outcome(p) /\ row' # None
        BY <1>p, <2>1 DEF InStep, Busy, Placed
    <2>3. Table' = Outcome(p)
        BY <2>2 DEF Table
    <2>4. req[p] \in Request /\ stamp[p] \in Nat
        BY <1>p, <2>1 DEF Placed, Busy, Time
    <2>5. \A s \in Session : Table[s] # None => Table[s] <= stamp[p]
        BY <2>1 DEF InStep, Busy
    <2>6. Timely
        BY <1>0, <2>1, <2>3, <2>4, <2>5 DEF Outcome, List, Request
    <2> QED BY <2>1, <2>6 DEF InStep
<1>16. ASSUME Done(p) PROVE InStep(p)'
    <2>1. row' = row /\ pc'[p] = Onward(p)
        BY <1>16 DEF Done, SetCache, Onward
    <2>2. HasHandler(p)
        BY <2>1 DEF Onward, Busy
    <2>3. stamp'[p] = clock
        BY <1>16, <2>2 DEF Done, Continue, NextCall, StartCall
    <2> QED BY <1>a, <2>1, <2>2, <2>3 DEF Onward
<1>17. ASSUME Fail(p) PROVE InStep(p)'
    <2>1. row' = row /\ pc'[p] = Onward(p)
        BY <1>17 DEF Fail, Return, Onward
    <2>2. HasHandler(p)
        BY <2>1 DEF Onward, Busy
    <2>3. stamp'[p] = clock
        BY <1>17, <2>2 DEF Fail, Continue, NextCall, StartCall
    <2> QED BY <1>a, <2>1, <2>2, <2>3 DEF Onward
<1> QED
    BY <1>1, <1>2, <1>3, <1>4, <1>5, <1>6, <1>7, <1>8, <1>9, <1>10, <1>12, <1>13, <1>14, <1>15,
       <1>16, <1>17
    DEF Step, ReadStep, Get, WriteRow

\* The cache follows the row, but while a call writes, after every step.
LEMMA CacheInStepStep ==
    ASSUME ~DriverFails, Inductive, CacheInStep, NEW p \in Proc, Busy(p) => InStep(p), Step(p),
           \A q \in Proc \ {p} : ~Busy(q)
    PROVE  CacheInStep'
<1> SUFFICES ASSUME cached' # None, pc'[p] \notin {"put", "set"}
             PROVE  heap'[cached'] = row'
    BY DEF CacheInStep
<1>t. TypeOK /\ Placed(p) /\ \A r \in Ref : Held(r) <=> heap[r] # None
    BY DEF Inductive, Shape
<1> USE <1>t DEF TypeOK, Goto, Hold, Drop
<1>a. ASSUME cached' = cached, row' = row, heap'[cached] = heap[cached],
             pc[p] \notin {"put", "set"}
      PROVE  heap'[cached'] = row'
    BY <1>a DEF CacheInStep, Busy
<1>b. ASSUME cached' = cached, heap' = Swept(heap)
      PROVE  heap'[cached] = heap[cached]
    BY <1>b DEF Swept, Held
<1>1. ASSUME SignIn(p) PROVE heap'[cached'] = row'
    BY <1>1, <1>a DEF SignIn, Busy
<1>2. ASSUME Arrive(p) PROVE heap'[cached'] = row'
    BY <1>2, <1>a DEF Arrive, Busy
<1>3. ASSUME ReadStep(p), CacheHit(p) PROVE heap'[cached'] = row'
    BY <1>3, <1>a DEF CacheHit
<1>4. ASSUME ReadStep(p), CacheMiss(p) PROVE heap'[cached'] = row'
    BY <1>4, <1>a DEF CacheMiss
<1>5. ASSUME ReadStep(p), ListRow(p) PROVE heap'[cached'] = row'
    <2>1. PICK r \in Ref : ~Held(r) /\ heap' = [heap EXCEPT ![r] = row]
        BY <1>5 DEF ListRow
    <2>2. cached' = cached /\ row' = row /\ pc[p] = "list"
        BY <1>5 DEF ListRow
    <2>3. heap'[cached] = heap[cached]
        BY <2>1, <2>2 DEF Held
    <2> QED BY <1>a, <2>2, <2>3
<1>6. ASSUME ReadStep(p), ListNoRow(p) PROVE heap'[cached'] = row'
    BY <1>6, <1>a DEF ListNoRow
<1>7. ~ListFails(p) /\ ~ExecFails(p)
    BY DEF ListFails, ExecFails
<1>8. ASSUME ReadStep(p), Fill(p) PROVE heap'[cached'] = row'
    <2>1. /\ pc[p] \in {"fill", "refill"} /\ UNCHANGED <<row, ref>> /\ heap' = Swept(heap)
          /\ cached' = ref[p]
        BY <1>8 DEF Fill
    <2>2. ref[p] \in Ref /\ heap[ref[p]] = row
        BY <2>1 DEF Placed, InStep, Busy
    <2> QED BY <2>1, <2>2 DEF Swept, Held
<1>9. ASSUME NEW next, Return(p, next), pc[p] \notin {"put", "set"}
      PROVE  heap'[cached'] = row'
    BY <1>9, <1>a, <1>b DEF Return
<1>10. ASSUME Accept(p) PROVE heap'[cached'] = row'
    BY <1>9, <1>10 DEF Accept
<1>11. ASSUME Reject(p) PROVE heap'[cached'] = row'
    BY <1>9, <1>11 DEF Reject
<1>12. ASSUME Listed(p) PROVE heap'[cached'] = row'
    BY <1>9, <1>12 DEF Listed
<1>13. ~Touch(p) /\ ~Add(p) /\ ~Remove(p) /\ ~Exec(p)
    BY DEF Touch, Add, Remove, Prepare, Exec
<1>14. ASSUME Done(p) PROVE heap'[cached'] = row'
    <2>1. /\ pc[p] = "set" /\ cached' = ref[p] /\ row' = row /\ heap' = Swept(heap)
        BY <1>14 DEF Done, SetCache
    <2>2. ref[p] \in Ref /\ heap[ref[p]] = row
        BY <2>1 DEF Placed, InStep, Busy
    <2> QED BY <2>1, <2>2 DEF Swept, Held
<1>15. ASSUME Fail(p) PROVE heap'[cached'] = row'
    BY <1>9, <1>15 DEF Fail
<1> QED
    BY <1>1, <1>2, <1>3, <1>4, <1>5, <1>6, <1>7, <1>8, <1>10, <1>11, <1>12, <1>13, <1>14, <1>15
    DEF Step, ReadStep, Get, WriteRow

\* Every step keeps what makes the steps those of the ledger.
LEMMA StepwiseStep ==
    ASSUME ~DriverFails, Inductive, OneAtATime, OneAtATime', Stepwise, [Next]_vars
    PROVE  Stepwise'
<1>t. TypeOK /\ CacheInStep /\ (\A p \in Proc : Busy(p) => InStep(p))
      /\ (\A r \in Ref : Held(r) <=> heap[r] # None)
    BY DEF Inductive, Shape, Stepwise
<1>1. ASSUME NEW p \in Proc, Step(p) PROVE Stepwise'
    <2>1. ASSUME NEW q \in Proc \ {p} PROVE ~Busy(q) /\ ~Busy(q)'
        <3>1. Busy(q) <=> Busy(q)'
            BY <1>t, <1>1, Others DEF Busy
        <3>2. Busy(p) \/ Busy(p)'
            BY <1>t, <1>1, Acts
        <3> QED BY <3>1, <3>2 DEF OneAtATime
    <2>2. Busy(p)' => InStep(p)'
        BY <1>t, <1>1, <2>1, OwnInStep
    <2>3. CacheInStep'
        BY <1>t, <1>1, <2>1, CacheInStepStep
    <2> QED BY <2>1, <2>2, <2>3 DEF Stepwise
<1>2. CASE Expire
    <2>1. cached' = None /\ UNCHANGED <<row, pc, ref, draft, req, stamp>> /\ heap' = Swept(heap)
        BY <1>2 DEF Expire, Evict
    <2>2. ASSUME NEW p \in Proc, Busy(p)' PROVE InStep(p)'
        <3>1. InStep(p) /\ Placed(p)
            BY <1>t, <2>1, <2>2 DEF Busy, Inductive, Shape
        <3>2. ref[p] # None => heap'[ref[p]] = heap[ref[p]]
            BY <1>t, <2>1 DEF Swept, Held, TypeOK
        <3>3. View(p)' = View(p)
            BY <2>1, <3>2 DEF View
        <3>4. Outcome(p)' = Outcome(p) /\ Table' = Table
            BY <2>1 DEF Outcome, Table, Removes, Touches, Handles
        <3> QED BY <2>1, <3>1, <3>2, <3>3, <3>4 DEF InStep, Placed
    <2> QED BY <2>1, <2>2 DEF Stepwise, CacheInStep
<1>3. CASE Restart
    BY <1>3 DEF Restart, CellRestart, Stepwise, CacheInStep, Busy
<1>4. CASE UNCHANGED <<cellVars, req, stamp>>
    BY <1>4 DEF Stepwise, CacheInStep, Busy, InStep, Outcome, Table, View, Removes, Touches,
       Handles, cellVars
<1> QED BY <1>1, <1>2, <1>3, <1>4 DEF Next, Tick, vars, Stepwise

\* The session each request runs under, as the ledger sees it.
Serving == [p \in Proc |-> Under(p)]

\* A step changes what one goroutine serves and no other.
LEMMA ServesOne ==
    ASSUME TypeOK, NEW p \in Proc, Step(p), NEW u, Under(p)' = u
    PROVE  Serving' = [Serving EXCEPT ![p] = u]
<1>1. ASSUME NEW q \in Proc, q # p PROVE Under(q)' = Under(q)
    BY <1>1, Others DEF Under
<1> QED BY <1>1 DEF Serving

\* Every step is one of the ledger, or none.
LEMMA LedgerStep ==
    ASSUME ~DriverFails, Inductive, Stepwise, [Next]_vars
    PROVE  [Ledger!Next]_(Ledger!vars)
<1>t. TypeOK /\ (\A p \in Proc : Placed(p)) /\ (\A p \in Proc : Busy(p) => InStep(p))
    BY DEF Inductive, Shape, Stepwise
<1>l. /\ Table \in List
      /\ \A s \in Session : Table[s] # None => Table[s] \in Nat /\ Table[s] <= clock
    BY TableIs
<1>s. Ledger!vars = <<Table, Serving, issued, clock>>
    BY DEF Ledger!vars, Serving
<1>k. ASSUME Table' = Table, Serving' = Serving, issued' = issued, clock' = clock
      PROVE  UNCHANGED Ledger!vars
    BY <1>k DEF Ledger!vars, Serving
<1>i. ASSUME NEW p \in Proc, Busy(p)
      PROVE  /\ req[p] \in Request /\ req[p].by \in issued /\ req[p].on \in issued
             /\ issued \subseteq Session /\ stamp[p] \in Nat /\ stamp[p] <= clock /\ clock \in Nat
             /\ req[p].kind = "signin" => req[p].stage = "handler"
             /\ pc[p] \in {"put", "set"} => Touches(p) \/ Adds(p) \/ Removes(p)
    BY <1>t, <1>i DEF TypeOK, Placed, Time
<1>n. ASSUME NEW p \in Proc,
             \/ Ledger!Enter(p) \/ Ledger!Enroll(p) \/ Ledger!Admit(p)
             \/ Ledger!Refresh(p) \/ Ledger!Expel(p) \/ Ledger!Leave(p)
      PROVE  Ledger!Next
    BY <1>n DEF Ledger!Next
<1>r. ASSUME NEW p \in Proc, Step(p), Table' = Table, issued' = issued, clock' = clock,
             Under(p)' = None
      PROVE  Ledger!Next
    <2>1. Serving' = [Serving EXCEPT ![p] = None]
        BY <1>t, <1>r, ServesOne
    <2> QED BY <1>n, <1>r, <2>1 DEF Ledger!Leave, Serving
<1>u. ASSUME NEW p \in Proc, Step(p), Table' = Table, issued' = issued, clock' = clock,
             Under(p)' = Under(p)
      PROVE  UNCHANGED Ledger!vars
    <2>1. Serving' = [Serving EXCEPT ![p] = Under(p)]
        BY <1>t, <1>u, ServesOne
    <2>2. Serving' = Serving
        BY <2>1 DEF Serving
    <2> QED BY <1>k, <1>u, <2>2
<1>1. ASSUME NEW p \in Proc, SignIn(p) PROVE Ledger!Next
    <2>1. PICK s \in Session \ issued :
            /\ req' = [req EXCEPT ![p] =
                          [kind |-> "signin", stage |-> "handler", by |-> s, on |-> s]]
            /\ issued' = issued \cup {s}
        BY <1>1 DEF SignIn
    <2>2. pc[p] = "idle" /\ pc'[p] = "get" /\ UNCHANGED <<row, clock>>
        BY <1>1, <1>t DEF SignIn, Busy, Goto, TypeOK
    <2>3. Under(p) = None /\ Under(p)' = [role |-> "guest", as |-> s]
        BY <1>t, <2>1, <2>2 DEF Under, TypeOK
    <2>4. Serving' = [Serving EXCEPT ![p] = [role |-> "guest", as |-> s]]
        BY <1>1, <1>t, <2>3, ServesOne DEF Step
    <2>5. Serving[p] = None /\ Table' = Table
        BY <2>2, <2>3 DEF Serving, Table
    <2>6. Ledger!Enter(p)
        BY <2>1, <2>2, <2>4, <2>5 DEF Ledger!Enter, Ledger!Serve, Serving
    <2> QED BY <1>n, <2>6
<1>2. ASSUME NEW p \in Proc, Arrive(p) PROVE UNCHANGED Ledger!vars
    <2>1. PICK kind \in Kind \ {"signin"}, by \in issued, on \in issued :
            req' = [req EXCEPT ![p] =
                      [kind |-> kind, stage |-> "auth", by |-> by, on |-> on]]
        BY <1>2 DEF Arrive
    <2>2. pc[p] = "idle" /\ UNCHANGED <<row, issued, clock>>
        BY <1>2 DEF Arrive, Busy
    <2>3. Under(p) = None /\ Under(p)' = None
        BY <1>t, <2>1, <2>2 DEF Under, TypeOK
    <2> QED BY <1>2, <1>u, <2>2, <2>3 DEF Step, Table
<1>3. ASSUME NEW p \in Proc, Step(p), UNCHANGED <<row, req, issued, clock>>, Busy(p), Busy(p)'
      PROVE  UNCHANGED Ledger!vars
    <2>1. Under(p)' = Under(p)
        BY <1>3 DEF Under, Busy
    <2> QED BY <1>3, <1>u, <2>1 DEF Table
<1>4. ASSUME NEW p \in Proc, ReadStep(p) PROVE UNCHANGED Ledger!vars
    <2>1. pc[p] # "idle" /\ pc'[p] # "idle" /\ UNCHANGED <<row, req, issued, clock>>
        BY <1>4, <1>t DEF ReadStep, Get, CacheHit, CacheMiss, ListRow, ListNoRow, ListFails, Fill,
           Goto, TypeOK
    <2> QED BY <1>3, <1>4, <2>1 DEF Step, Busy
<1>5. ASSUME NEW p \in Proc, Touch(p) \/ Add(p) \/ Remove(p) PROVE UNCHANGED Ledger!vars
    <2>1. pc[p] # "idle" /\ pc'[p] # "idle" /\ UNCHANGED <<row, req, issued, clock>>
        BY <1>5, <1>t DEF Touch, Add, Remove, Prepare, Goto, TypeOK
    <2> QED BY <1>3, <1>5, <2>1 DEF Step, Busy
<1>6. ASSUME NEW p \in Proc, Accept(p) PROVE Ledger!Next
    <2> DEFINE s == req[p].by
    <2>1. /\ pc[p] = "got" /\ req[p].stage = "auth" /\ Valid(p, s)
          /\ UNCHANGED <<row, issued, clock>> /\ pc'[p] = "get"
          /\ req' = [req EXCEPT ![p] = [kind |-> req[p].kind, stage |-> "touch",
                                        by |-> req[p].by, on |-> req[p].on]]
        BY <1>6, <1>t DEF Accept, Return, NextCall, Goto, TypeOK
    <2>2. /\ req[p].kind # "signin" /\ s \in issued /\ s \in Session /\ View(p) = Table
        BY <1>i, <1>t, <2>1 DEF Busy, InStep
    <2>3. Under(p) = None /\ Under(p)' = [role |-> "member", as |-> s]
        BY <1>t, <2>1, <2>2 DEF Under, TypeOK
    <2>4. Serving' = [Serving EXCEPT ![p] = [role |-> "member", as |-> s]]
        BY <1>6, <1>t, <2>3, ServesOne DEF Step
    <2>5. Serving[p] = None /\ Table' = Table
        BY <2>1, <2>3 DEF Serving, Table
    <2>6. Table[s] # None /\ clock <= Table[s] + Window
        <3>1. Table[s] # None /\ ~(Table[s] + Window < clock)
            BY <2>1, <2>2 DEF Valid
        <3> QED BY <1>l, <1>t, <2>2, <3>1, WindowIsNat DEF TypeOK, Time
    <2>7. Ledger!Admit(p)
        BY <2>1, <2>2, <2>4, <2>5, <2>6 DEF Ledger!Admit, Ledger!Serve, Serving
    <2> QED BY <1>n, <2>7
<1>7. ASSUME NEW p \in Proc, Reject(p) \/ Listed(p) PROVE Ledger!Next
    <2>1. UNCHANGED <<row, issued, clock>> /\ pc'[p] = "idle"
        BY <1>7, <1>t DEF Reject, Listed, Return, Goto, TypeOK
    <2> QED BY <1>7, <1>r, <2>1 DEF Step, Table, Under
<1>8. ASSUME NEW p \in Proc, WriteRow(p) PROVE [Ledger!Next]_(Ledger!vars)
    <2> DEFINE s == req[p].by
    <2>1. /\ pc[p] = "put" /\ row' = draft[p] /\ pc'[p] = "set"
          /\ UNCHANGED <<req, issued, clock>>
        BY <1>8, <1>t DEF WriteRow, Exec, ExecFails, Goto, TypeOK
    <2>2. draft[p] = Outcome(p) /\ draft[p] # None
        BY <1>t, <2>1 DEF InStep, Placed, Busy
    <2>3. Table' = Outcome(p)
        BY <2>1, <2>2 DEF Table
    <2>4. Serving' = Serving
        <3>1. Under(p)' = Under(p)
            BY <2>1 DEF Under
        <3>2. Serving' = [Serving EXCEPT ![p] = Under(p)]
            BY <1>8, <1>t, <3>1, ServesOne DEF Step
        <3> QED BY <3>2 DEF Serving
    <2>5. /\ req[p] \in Request /\ s \in issued /\ s \in Session /\ req[p].on \in issued
          /\ stamp[p] \in Nat /\ stamp[p] <= clock /\ clock \in Nat
          /\ req[p].kind = "signin" => req[p].stage = "handler"
          /\ Touches(p) \/ Adds(p) \/ Removes(p)
        BY <1>i, <2>1 DEF Busy
    <2>6. CASE Adds(p)
        <3>1. Serving[p] = [role |-> "guest", as |-> s]
            BY <2>1, <2>6 DEF Serving, Under, Adds, Handles
        <3>n. Serving[p] # None
            BY <2>5, <3>1, NoneIsNoRole
        <3>2. Table' = [Table EXCEPT ![s] = stamp[p]]
            BY <2>3, <2>6 DEF Outcome, Adds, Removes, Touches, Handles
        <3>3. Ledger!Enroll(p)
            <4>1. Serving[p].role = "guest" /\ Serving[p].as = s
                BY <3>1
            <4>2. stamp[p] \in 0 .. clock
                BY <2>5
            <4> QED BY <2>1, <2>4, <3>n, <3>2, <4>1, <4>2 DEF Ledger!Enroll, Serving
        <3> QED BY <1>n, <3>3
    <2>7. ASSUME Touches(p) \/ Removes(p)
          PROVE  Serving[p] # None /\ Serving[p].role = "member" /\ Serving[p].as = s
        <3>1. Serving[p] = [role |-> "member", as |-> s]
            BY <2>1, <2>5, <2>7 DEF Serving, Under, Touches, Removes, Handles
        <3> QED BY <2>5, <3>1, NoneIsNoRole
    <2>8. CASE Touches(p) /\ Table[s] # None
        <3>1. Table' = [Table EXCEPT ![s] = stamp[p]]
            BY <2>3, <2>8 DEF Outcome, Removes, Touches, Handles
        <3>2. Table[s] \in Nat /\ Table[s] <= stamp[p]
            BY <1>l, <1>t, <2>1, <2>5, <2>8 DEF InStep, Busy
        <3>3. Ledger!Refresh(p)
            <4>1. stamp[p] \in Table[s] .. clock
                BY <2>5, <3>2
            <4>2. Serving[p] # None /\ Serving[p].role = "member" /\ Serving[p].as = s
                BY <2>7, <2>8
            <4> QED BY <2>1, <2>4, <2>8, <3>1, <4>1, <4>2 DEF Ledger!Refresh, Serving
        <3> QED BY <1>n, <3>3
    <2>9. CASE Touches(p) /\ Table[s] = None
        <3>1. Table' = Table
            BY <2>3, <2>9 DEF Outcome, Removes, Touches, Handles
        <3> QED BY <1>k, <2>1, <2>4, <3>1
    <2>10. CASE Removes(p)
        <3>1. Table' = [Table EXCEPT ![req[p].on] = None]
            BY <2>3, <2>10 DEF Outcome
        <3>2. Ledger!Expel(p)
            <4>1. Serving[p] # None /\ Serving[p].role = "member" /\ Serving[p].as = s
                BY <2>7, <2>10
            <4> QED BY <2>1, <2>4, <2>5, <3>1, <4>1 DEF Ledger!Expel, Serving
        <3> QED BY <1>n, <3>2
    <2> QED BY <2>5, <2>6, <2>8, <2>9, <2>10
<1>9. ASSUME NEW p \in Proc, Done(p) \/ Fail(p) PROVE [Ledger!Next]_(Ledger!vars)
    <2>1. Busy(p) /\ UNCHANGED <<row, issued, clock>> /\ pc'[p] = Onward(p)
        BY <1>9, <1>t DEF Done, Fail, SetCache, Return, Goto, TypeOK, Busy, Onward
    <2>2. CASE HasHandler(p)
        <3>1. req' = [req EXCEPT ![p] = [kind |-> req[p].kind, stage |-> "handler",
                                         by |-> req[p].by, on |-> req[p].on]]
            BY <1>9, <2>2 DEF Done, Fail, Continue, NextCall
        <3>2. Under(p)' = Under(p)
            BY <1>t, <2>1, <2>2, <3>1 DEF Under, HasHandler, Onward, TypeOK, Busy
        <3> QED BY <1>9, <1>u, <2>1, <3>2 DEF Step, Table
    <2>3. CASE ~HasHandler(p)
        <3>1. Under(p)' = None
            BY <2>1, <2>3 DEF Onward, Under
        <3> QED BY <1>9, <1>r, <2>1, <3>1 DEF Step, Table
    <2> QED BY <2>2, <2>3
<1>10. CASE Expire \/ UNCHANGED vars
    <2>1. UNCHANGED <<row, pc, req, issued, clock>>
        BY <1>10 DEF Expire, Evict, vars, cellVars
    <2> QED BY <1>k, <2>1 DEF Table, Serving, Under
<1>11. CASE Restart
    <2>1. UNCHANGED <<row, issued, clock>> /\ \A p \in Proc : pc'[p] = "idle"
        BY <1>11 DEF Restart, CellRestart
    <2>2. Serving' = [p \in Proc |-> None]
        BY <2>1 DEF Serving, Under
    <2> QED BY <2>1, <2>2 DEF Ledger!Next, Ledger!Restart, Table, Serving
<1>12. CASE Tick
    <2>1. UNCHANGED <<row, pc, req, issued>> /\ clock' = clock + 1
        BY <1>12 DEF Tick, cellVars
    <2>2. Table' = Table /\ Serving' = Serving
        BY <2>1 DEF Table, Serving, Under
    <2> QED BY <2>1, <2>2 DEF Ledger!Next, Ledger!Tick, Serving
<1> QED
    BY <1>1, <1>2, <1>4, <1>5, <1>6, <1>7, <1>8, <1>9, <1>10, <1>11, <1>12 DEF Next, Step

\* For any number of goroutines of which one at a time serves the user, and a
\* database that answers, the session store is one table of live sessions: a
\* sign-in, a refresh and a revocation take effect at once and for good, whatever
\* the cache drops and whenever the server restarts (store/user_setting.go).
THEOREM LedgerImplemented ==
    ASSUME ~DriverFails
    PROVE  Spec /\ []OneAtATime => ImplementsLedger
<1>1. Init => Ledger!Init
    BY DEF Init, CellInit, Ledger!Init, Table, Under, Empty
<1>2. Init => Stepwise
    BY DEF Init, CellInit, Stepwise, CacheInStep, Busy
<1>3. Inductive /\ OneAtATime /\ OneAtATime' /\ Stepwise /\ [Next]_vars => Stepwise'
    BY StepwiseStep
<1>4. Inductive /\ Stepwise /\ [Next]_vars => [Ledger!Next]_(Ledger!vars)
    BY LedgerStep
<1> QED BY <1>1, <1>2, <1>3, <1>4, AlwaysInductive, PTL DEF Spec, ImplementsLedger, Ledger!Spec
=============================================================================

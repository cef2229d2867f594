------------------------- MODULE UserAccounts_proofs -------------------------
(***************************************************************************)
(* What UserAccounts promises of the user cache and of the first host, for *)
(* any number of requests and users.  There is a lemma for each part of    *)
(* Inductive.                                                              *)
(***************************************************************************)
EXTENDS UserAccounts, TLAPS, WellFoundedInduction

\* An id that was not handed out is the next one.
LEMMA NextIdIsNew ==
    ASSUME UsersAndIds, userIds # UserId, userIds \subseteq UserId
    PROVE  NextId \in UserId \ userIds
<1> DEFINE Free == UserId \ userIds
<1>1. Free \subseteq Nat /\ Free # {}
    BY DEF UsersAndIds
<1>2. PICK i \in Free : \A j \in Free : ~(<<j, i>> \in OpToRel(<, Nat))
    <2> HIDE DEF Free
    <2> QED BY <1>1, NatLessThanWellFounded, WFMin
<1>3. ASSUME NEW j \in Free
      PROVE  i <= j
    <2>1. <<j, i>> \in Nat \X Nat /\ <<j, i>>[1] = j /\ <<j, i>>[2] = i
        BY <1>1
    <2>2. ~(j < i)
        BY <1>2, <2>1 DEF OpToRel
    <2> QED BY <1>1, <2>2
<1> QED BY <1>3 DEF NextId

\* The query of call c goes on as r, with rows of the table, or with none as a
\* sign-up that saw no host.
RowsFound(c, r) ==
    /\ r \in Call /\ calls' = [calls EXCEPT ![c] = r]
    /\ r.kind = calls[c].kind /\ r.id = calls[c].id /\ r.late = calls[c].late
    /\ \A u \in r.held : u.id \in Created /\ u = users[u.id]
    /\ IF r.kind \in {"all", "signup"} THEN r.found = NoUser ELSE r.found \in r.held
    /\ IF r.held = {} THEN r.kind = "signup" /\ r.stage = "put" /\ r.since = userIds /\ Hosts = {}
       ELSE r.stage = "fill" /\ r.since = {} /\ r.first = FALSE
    /\ UNCHANGED <<users, userIds, userCache, crossed, founders>>

LEMMA FoundRows ==
    ASSUME UsersAndIds, TypeOK, OwnIds, NEW c \in Caller, ListRows(c), ~End(c)
    PROVE  \E r \in Call : RowsFound(c, r)
<1> DEFINE found == {users[i] : i \in Asked(calls[c])}
           one == IF calls[c].kind \in {"all", "signup"} THEN NoUser
                  ELSE CHOOSE u \in found : TRUE
<1>1. calls[c] \in Call /\ Asked(calls[c]) \subseteq Created
    BY DEF ListRows, At, Idle, TypeOK, Asked, Hosts
<1>2. found \in SUBSET User /\ \A u \in found : u.id \in Created /\ u = users[u.id]
    BY <1>1 DEF TypeOK, OwnIds, Created
<1>3. found = {} => calls[c].kind = "signup" /\ Hosts = {}
    <2>1. CASE found = {}
        <3>1. calls[c].kind = "signup"
            BY <2>1 DEF ListRows
        <3>2. Asked(calls[c]) = Hosts
            BY <3>1 DEF Asked
        <3> QED BY <2>1, <3>1, <3>2
    <2> QED BY <2>1
<1>4. IF calls[c].kind \in {"all", "signup"} THEN one = NoUser ELSE one \in found
    BY <1>3
<1>5. one \in User \cup {NoUser}
    BY <1>2, <1>4
<1> DEFINE r == [calls[c] EXCEPT !.stage = IF found = {} THEN "put" ELSE "fill",
                    !.held = found, !.found = one, !.first = (found = {}),
                    !.since = IF found = {} THEN userIds ELSE {}]
<1>6. calls' = [calls EXCEPT ![c] = r]
    <2> HIDE DEF one
    <2>1. calls' = [calls EXCEPT
            ![c].stage = IF found = {} THEN "put" ELSE "fill",
            ![c].held = found, ![c].found = one, ![c].first = (found = {}),
            ![c].since = IF found = {} THEN userIds ELSE {}]
        BY DEF ListRows, one
    <2> HIDE DEF found
    <2> QED BY <1>1, <2>1 DEF TypeOK, Call
<1> HIDE DEF found, one
<1>7. /\ r \in Call /\ r.kind = calls[c].kind /\ r.id = calls[c].id /\ r.late = calls[c].late
      /\ r.held = found /\ r.found = one
      /\ r.stage = (IF found = {} THEN "put" ELSE "fill")
      /\ r.since = (IF found = {} THEN userIds ELSE {})
      /\ found # {} => r.first = FALSE
    BY <1>1, <1>2, <1>5 DEF Call, Stage, TypeOK
<1> HIDE DEF r
<1>8. RowsFound(c, r)
    BY <1>2, <1>3, <1>4, <1>6, <1>7 DEF RowsFound, ListRows
<1> QED BY <1>7, <1>8

Writes(c) == Insert(c) \/ Update(c) \/ Delete(c)

\* Call c has its statement write the row of id as u.
Statement(c, id, u) ==
    /\ Wrote(c, id, u, IF u = NoUser THEN "drop" ELSE "set")
    /\ calls[c] \in Call /\ calls[c].stage = "put"
    /\ u # NoUser => u.id = id
    /\ userIds' = userIds \cup {id}
    /\ id \notin userIds => users[id] = NoUser
    /\ calls[c].kind # "signup" => id = calls[c].id
    /\ founders' = founders \/ \E late \in (SUBSET UserId) \cup {NoUser} :
          founders' = [founders EXCEPT ![id] = late] /\ (late = NoUser \/ id \notin userIds)

LEMMA RowWritten ==
    ASSUME UsersAndIds, TypeOK, OwnIds, NEW c \in Caller, CallShape(c), Writes(c)
    PROVE  \E id \in UserId, u \in User \cup {NoUser} : Statement(c, id, u)
<1>1. CASE Insert(c)
    <2>1. NextId \in UserId \ userIds
        BY <1>1, NextIdIsNew DEF Insert, TypeOK
    <2>2. PICK role \in Role : Wrote(c, NextId, [id |-> NextId, role |-> role], "set")
        BY <1>1 DEF Insert, Role
    <2> DEFINE u == [id |-> NextId, role |-> role]
    <2>3. u \in User /\ u.id = NextId /\ u # NoUser
        BY <2>1 DEF User, UsersAndIds
    <2>4. /\ userIds' = userIds \cup {NextId} /\ calls[c].kind = "signup"
          /\ calls[c].stage = "put" /\ calls[c] \in Call
        BY <1>1 DEF Insert, At, Idle, TypeOK
    <2>5. users[NextId] = NoUser
        BY <2>1 DEF TypeOK, Created
    <2>6. founders' = founders \/ founders' = [founders EXCEPT ![NextId] = userIds \ calls[c].since]
        BY <1>1 DEF Insert
    <2>7. userIds \ calls[c].since \in SUBSET UserId
        BY DEF TypeOK
    <2>8. Wrote(c, NextId, u, IF u = NoUser THEN "drop" ELSE "set")
        BY <2>2, <2>3
    <2> HIDE DEF u
    <2>9. Statement(c, NextId, u)
        BY <2>1, <2>3, <2>4, <2>5, <2>6, <2>7, <2>8 DEF Statement
    <2> QED BY <2>1, <2>3, <2>9
<1>2. CASE Update(c)
    <2> DEFINE id == calls[c].id
    <2>1. /\ calls[c] \in Call /\ id \in UserId /\ id \in Created /\ id \in userIds
          /\ calls[c].stage = "put" /\ userIds' = userIds
        BY <1>2 DEF Update, At, Idle, TypeOK, Created
    <2>2. PICK role \in Role : Wrote(c, id, [users[id] EXCEPT !.role = role], "set")
        BY <1>2 DEF Update
    <2> DEFINE u == [users[id] EXCEPT !.role = role]
    <2>3. users[id] \in User /\ users[id].id = id
        BY <2>1 DEF TypeOK, OwnIds, Created
    <2>4. u \in User /\ u.id = id /\ u # NoUser
        BY <2>3 DEF User, UsersAndIds, Role
    <2>5. founders' = founders \/ founders' = [founders EXCEPT ![id] = NoUser]
        BY <1>2 DEF Update
    <2>6. Wrote(c, id, u, IF u = NoUser THEN "drop" ELSE "set")
        BY <2>2, <2>4
    <2> HIDE DEF u
    <2>7. Statement(c, id, u)
        BY <2>1, <2>4, <2>5, <2>6 DEF Statement
    <2> QED BY <2>1, <2>4, <2>7
<1>3. CASE Delete(c)
    <2> DEFINE id == calls[c].id
    <2>1. calls[c] \in Call /\ calls[c].stage = "put" /\ userIds' = userIds
        BY <1>3 DEF Delete, At, Idle, TypeOK
    <2>2. id \in userIds /\ id \in UserId
        BY <1>3, <2>1 DEF Delete, CallShape, TypeOK
    <2>3. Wrote(c, id, NoUser, "drop") /\ founders' = [founders EXCEPT ![id] = NoUser]
        BY <1>3 DEF Delete
    <2>4. Statement(c, id, NoUser)
        BY <2>1, <2>2, <2>3 DEF Statement
    <2> QED BY <2>2, <2>4
<1> QED BY <1>1, <1>2, <1>3 DEF Writes

\* What it does to the calls: each other that holds the user is late from now on,
\* and the writer goes on to the cache or leaves with an error.
CallsAfter(c, id, u, stage) ==
    /\ users' = [users EXCEPT ![id] = u]
    /\ userCache' = userCache
    /\ calls' \in [Caller -> Call \cup {NoUser}]
    /\ \A d \in Caller \ {c} :
         /\ calls[d] = NoUser => calls'[d] = NoUser
         /\ calls[d] # NoUser =>
              /\ calls'[d] \in Call
              /\ \A f \in {"kind", "stage", "id", "held", "found", "first", "since"} :
                    calls'[d][f] = calls[d][f]
              /\ calls'[d].late \in {calls[d].late, calls[d].late \cup {id}}
              /\ Overtakes(d, id) => id \in calls'[d].late
    /\ IF calls'[c] = NoUser THEN crossed' = crossed \cup {KeyOf(id)}
       ELSE /\ calls'[c] \in Call
            /\ calls'[c].stage = stage /\ calls'[c].found = u /\ calls'[c].id = id
            /\ \A f \in {"kind", "held", "late", "first", "since"} : calls'[c][f] = calls[c][f]
            /\ crossed' = crossed

LEMMA CallsAtWrite ==
    ASSUME UsersAndIds, TypeOK, NEW c \in Caller, NEW id \in UserId,
           NEW u \in User \cup {NoUser}, NEW stage \in {"set", "drop"},
           calls[c] \in Call, Wrote(c, id, u, stage)
    PROVE  CallsAfter(c, id, u, stage)
<1> DEFINE others == [d \in Caller |->
            IF d # c /\ Overtakes(d, id) THEN [calls[d] EXCEPT !.late = @ \cup {id}]
            ELSE calls[d]]
<1>1. others \in [Caller -> Call \cup {NoUser}] /\ others[c] = calls[c]
    <2>1. ASSUME NEW d \in Caller
          PROVE  others[d] \in Call \cup {NoUser}
        <3>1. CASE Overtakes(d, id)
            <4>1. calls[d] \in Call
                BY <3>1 DEF Overtakes, Idle, TypeOK
            <4> QED BY <4>1 DEF Call, TypeOK
        <3> QED BY <3>1 DEF TypeOK
    <2> QED BY <2>1
<1>2. ASSUME NEW d \in Caller \ {c}
      PROVE  /\ calls[d] = NoUser => others[d] = NoUser
             /\ calls[d] # NoUser =>
                  /\ others[d] \in Call
                  /\ \A f \in {"kind", "stage", "id", "held", "found", "first", "since"} :
                        others[d][f] = calls[d][f]
                  /\ others[d].late \in {calls[d].late, calls[d].late \cup {id}}
                  /\ Overtakes(d, id) => id \in others[d].late
    <2>1. CASE Overtakes(d, id)
        <3>1. calls[d] \in Call /\ calls[d] # NoUser
            BY <2>1 DEF Overtakes, Idle, TypeOK
        <3>2. others[d] = [calls[d] EXCEPT !.late = @ \cup {id}]
            BY <2>1
        <3> HIDE DEF others
        <3> QED BY <3>1, <3>2 DEF Call
    <2>2. CASE ~Overtakes(d, id)
        BY <2>2 DEF TypeOK
    <2> QED BY <2>1, <2>2
<1>3. \/ /\ calls' = [others EXCEPT ![c].stage = stage, ![c].found = u, ![c].id = id]
         /\ crossed' = crossed
      \/ /\ calls' = [others EXCEPT ![c] = NoUser]
         /\ crossed' = crossed \cup {KeyOf(id)}
    BY DEF Wrote
<1>4. users' = [users EXCEPT ![id] = u] /\ userCache' = userCache
    BY DEF Wrote
<1> DEFINE mine == [calls[c] EXCEPT !.stage = stage, !.found = u, !.id = id]
<1>5. /\ mine \in Call /\ mine # NoUser
      /\ mine.stage = stage /\ mine.found = u /\ mine.id = id
      /\ \A f \in {"kind", "held", "late", "first", "since"} : mine[f] = calls[c][f]
    BY DEF Call, Stage, UsersAndIds
<1> HIDE DEF others
<1>6. \/ calls' = [others EXCEPT ![c] = mine] /\ crossed' = crossed
      \/ calls' = [others EXCEPT ![c] = NoUser] /\ crossed' = crossed \cup {KeyOf(id)}
    BY <1>1, <1>3
<1> HIDE DEF mine
<1>7. /\ calls' \in [Caller -> Call \cup {NoUser}]
      /\ \A d \in Caller \ {c} : calls'[d] = others[d]
      /\ \/ calls'[c] = mine /\ crossed' = crossed
         \/ calls'[c] = NoUser /\ crossed' = crossed \cup {KeyOf(id)}
    BY <1>1, <1>5, <1>6
<1> QED BY <1>2, <1>4, <1>5, <1>7 DEF CallsAfter

\* A statement writes a row.
WritesRow(c, id, u) ==
    Statement(c, id, u) /\ CallsAfter(c, id, u, IF u = NoUser THEN "drop" ELSE "set")

LEMMA StatementWrites ==
    ASSUME UsersAndIds, TypeOK, OwnIds, NEW c \in Caller, CallShape(c), Writes(c)
    PROVE  \E id \in UserId, u \in User \cup {NoUser} : WritesRow(c, id, u)
<1>1. PICK id \in UserId, u \in User \cup {NoUser} : Statement(c, id, u)
    BY RowWritten
<1> DEFINE stage == IF u = NoUser THEN "drop" ELSE "set"
<1>2. stage \in {"set", "drop"} /\ Wrote(c, id, u, stage) /\ calls[c] \in Call
    BY <1>1 DEF Statement
<1>3. CallsAfter(c, id, u, stage)
    <2> HIDE DEF stage
    <2> QED BY <1>2, CallsAtWrite
<1> QED BY <1>1, <1>3 DEF WritesRow

\* A step leaves rows, entries and calls in their sets.
LEMMA TypeStep ==
    ASSUME UsersAndIds, TypeOK, OwnIds, \A d \in Caller : ~Idle(d) => CallShape(d) /\
       HoldsCurrent(d) /\ LooksForFirst(d), NEW c \in Caller, Step(c)
    PROVE  TypeOK'
<1>a. ListRows(c) /\ ~End(c) => \E r \in Call : RowsFound(c, r)
    BY FoundRows
<1>b. Writes(c) => \E id \in UserId, u \in User \cup {NoUser} : WritesRow(c, id, u)
    BY StatementWrites DEF Writes, Insert, Update, Delete, At
<1> USE DEF UsersAndIds, TypeOK, Idle, At, End, Created, User, Role, Call, Stage, Key,
   CallShape, OwnIds
<1>1. CASE GetUser(c)
    BY <1>1 DEF GetUser, Arrive
<1>2. CASE ListUsers(c)
    BY <1>2 DEF ListUsers, Arrive
<1>3. CASE CreateUser(c)
    BY <1>3 DEF CreateUser, Arrive
<1>4. CASE UpdateUser(c)
    <2>1. \E stage \in {"list", "put"}, id \in UserId : Arrive(c, "update", stage, id)
        BY <1>4 DEF UpdateUser, Change
    <2> QED BY <2>1 DEF Arrive
<1>5. CASE DeleteUser(c)
    <2>1. \E stage \in {"list", "put"}, id \in UserId : Arrive(c, "delete", stage, id)
        BY <1>5 DEF DeleteUser, Change
    <2> QED BY <2>1 DEF Arrive
<1>6. CASE ListRows(c)
    <2>1. CASE End(c)
        BY <1>6, <2>1 DEF ListRows
    <2>2. CASE ~End(c)
        BY <1>6, <1>a, <2>2 DEF RowsFound
    <2> QED BY <2>1, <2>2
<1>7. CASE Fill(c)
    BY <1>7 DEF Fill, Caches
<1>8. CASE FillAgain(c)
    BY <1>8 DEF FillAgain, Caches
<1>9. CASE Writes(c)
    BY <1>9, <1>b DEF WritesRow, Statement, CallsAfter, Overtakes
<1>10. CASE UpdateNoRow(c)
    BY <1>10 DEF UpdateNoRow
<1>11. CASE SetCache(c)
    BY <1>11 DEF SetCache, Caches
<1>12. CASE DropCache(c)
    BY <1>12 DEF DropCache
<1>13. CASE Fail(c)
    BY <1>13 DEF Fail
<1> QED BY <1>1, <1>2, <1>3, <1>4, <1>5, <1>6, <1>7, <1>8, <1>9, <1>10, <1>11, <1>12,
   <1>13 DEF Step, Writes

\* A row is written under its own id, and the cache is given users the table had.
LEMMA OwnIdsStep ==
    ASSUME UsersAndIds, TypeOK, OwnIds, \A d \in Caller : ~Idle(d) => CallShape(d) /\
       HoldsCurrent(d) /\ LooksForFirst(d), NEW c \in Caller, Step(c)
    PROVE  OwnIds'
<1>a. ListRows(c) /\ ~End(c) => \E r \in Call : RowsFound(c, r)
    BY FoundRows
<1>b. Writes(c) => \E id \in UserId, u \in User \cup {NoUser} : WritesRow(c, id, u)
    BY StatementWrites DEF Writes, Insert, Update, Delete, At
<1> USE DEF UsersAndIds, TypeOK, Idle, At, End, Created, User, Role, Call, Stage, Key,
   CallShape, OwnIds, HoldsCurrent
<1>1. CASE GetUser(c)
    BY <1>1 DEF GetUser, Arrive
<1>2. CASE ListUsers(c)
    BY <1>2 DEF ListUsers, Arrive
<1>3. CASE CreateUser(c)
    BY <1>3 DEF CreateUser, Arrive
<1>4. CASE UpdateUser(c)
    BY <1>4 DEF UpdateUser, Change, Arrive
<1>5. CASE DeleteUser(c)
    BY <1>5 DEF DeleteUser, Change, Arrive
<1>6. CASE ListRows(c)
    <2>1. CASE End(c)
        BY <1>6, <2>1 DEF ListRows
    <2>2. CASE ~End(c)
        BY <1>6, <1>a, <2>2 DEF RowsFound
    <2> QED BY <2>1, <2>2
<1>7. CASE Fill(c)
    BY <1>7 DEF Fill, Caches
<1>8. CASE FillAgain(c)
    BY <1>8 DEF FillAgain, Caches
<1>9. CASE Writes(c)
    BY <1>9, <1>b DEF WritesRow, Statement, CallsAfter, Overtakes
<1>10. CASE UpdateNoRow(c)
    BY <1>10 DEF UpdateNoRow
<1>11. CASE SetCache(c)
    BY <1>11 DEF SetCache, Caches
<1>12. CASE DropCache(c)
    BY <1>12 DEF DropCache
<1>13. CASE Fail(c)
    BY <1>13 DEF Fail
<1> QED BY <1>1, <1>2, <1>3, <1>4, <1>5, <1>6, <1>7, <1>8, <1>9, <1>10, <1>11, <1>12,
   <1>13 DEF Step, Writes

\* A request keeps what its later stages need.
LEMMA ShapeStep ==
    ASSUME UsersAndIds, TypeOK, OwnIds, \A d \in Caller : ~Idle(d) => CallShape(d) /\
       HoldsCurrent(d) /\ LooksForFirst(d), NEW c \in Caller, Step(c)
    PROVE  \A d \in Caller : ~Idle(d)' => CallShape(d)'
<1>a. ListRows(c) /\ ~End(c) => \E r \in Call : RowsFound(c, r)
    BY FoundRows
<1>b. Writes(c) => \E id \in UserId, u \in User \cup {NoUser} : WritesRow(c, id, u)
    BY StatementWrites DEF Writes, Insert, Update, Delete, At
<1> USE DEF UsersAndIds, TypeOK, Idle, At, End, Created, User, Role, Call, Stage,
   CallShape, OwnIds, HoldsCurrent, Key
<1>1. CASE GetUser(c)
    BY <1>1 DEF GetUser, Arrive
<1>2. CASE ListUsers(c)
    BY <1>2 DEF ListUsers, Arrive
<1>3. CASE CreateUser(c)
    BY <1>3 DEF CreateUser, Arrive
<1>4. CASE UpdateUser(c)
    BY <1>4 DEF UpdateUser, Change, Arrive
<1>5. CASE DeleteUser(c)
    BY <1>5 DEF DeleteUser, Change, Arrive
<1>6. CASE ListRows(c)
    <2>1. CASE End(c)
        BY <1>6, <2>1 DEF ListRows
    <2>2. CASE ~End(c)
        <3>1. PICK r \in Call : RowsFound(c, r)
            BY <1>6, <1>a, <2>2
        <3>2. r # NoUser /\ calls'[c] = r /\ \A d \in Caller \ {c} : calls'[d] = calls[d]
            BY <3>1 DEF RowsFound
        <3>3. /\ r.kind = calls[c].kind /\ r.id = calls[c].id
              /\ IF r.kind \in {"all", "signup"} THEN r.found = NoUser
                 ELSE r.found \in r.held /\ r.found # NoUser
              /\ IF r.held = {} THEN r.kind = "signup" /\ r.stage = "put"
                 ELSE r.stage = "fill"
              /\ userIds' = userIds
            BY <3>1 DEF RowsFound
        <3>4. CallShape(c)'
            BY <1>6, <3>2, <3>3 DEF ListRows
        <3> QED BY <3>2, <3>3, <3>4
    <2> QED BY <2>1, <2>2
<1>7. CASE Fill(c)
    BY <1>7 DEF Fill, Caches
<1>8. CASE FillAgain(c)
    BY <1>8 DEF FillAgain, Caches
<1>9. CASE Writes(c)
    BY <1>9, <1>b DEF WritesRow, Statement, CallsAfter, Overtakes
<1>10. CASE UpdateNoRow(c)
    BY <1>10 DEF UpdateNoRow
<1>11. CASE SetCache(c)
    BY <1>11 DEF SetCache, Caches
<1>12. CASE DropCache(c)
    BY <1>12 DEF DropCache
<1>13. CASE Fail(c)
    BY <1>13 DEF Fail
<1> QED BY <1>1, <1>2, <1>3, <1>4, <1>5, <1>6, <1>7, <1>8, <1>9, <1>10, <1>11, <1>12,
   <1>13 DEF Step, Writes

\* Who writes a row marks every other call that holds the user.
LEMMA HoldsStep ==
    ASSUME UsersAndIds, TypeOK, OwnIds, \A d \in Caller : ~Idle(d) => CallShape(d) /\
       HoldsCurrent(d) /\ LooksForFirst(d), NEW c \in Caller, Step(c)
    PROVE  \A d \in Caller : ~Idle(d)' => HoldsCurrent(d)'
<1>a. ListRows(c) /\ ~End(c) => \E r \in Call : RowsFound(c, r)
    BY FoundRows
<1>b. Writes(c) => \E id \in UserId, u \in User \cup {NoUser} : WritesRow(c, id, u)
    BY StatementWrites DEF Writes, Insert, Update, Delete, At
<1> USE DEF UsersAndIds, TypeOK, Idle, At, End, Created, User, Role, Call, Stage,
   CallShape, OwnIds, HoldsCurrent, Key
<1>1. CASE GetUser(c)
    BY <1>1 DEF GetUser, Arrive
<1>2. CASE ListUsers(c)
    BY <1>2 DEF ListUsers, Arrive
<1>3. CASE CreateUser(c)
    BY <1>3 DEF CreateUser, Arrive
<1>4. CASE UpdateUser(c)
    BY <1>4 DEF UpdateUser, Change, Arrive
<1>5. CASE DeleteUser(c)
    BY <1>5 DEF DeleteUser, Change, Arrive
<1>6. CASE ListRows(c)
    <2>1. CASE End(c)
        BY <1>6, <2>1 DEF ListRows
    <2>2. CASE ~End(c)
        BY <1>6, <1>a, <2>2 DEF RowsFound
    <2> QED BY <2>1, <2>2
<1>7. CASE Fill(c)
    BY <1>7 DEF Fill, Caches
<1>8. CASE FillAgain(c)
    BY <1>8 DEF FillAgain, Caches
<1>9. CASE Writes(c)
    BY <1>9, <1>b DEF WritesRow, Statement, CallsAfter, Overtakes
<1>10. CASE UpdateNoRow(c)
    BY <1>10 DEF UpdateNoRow
<1>11. CASE SetCache(c)
    BY <1>11 DEF SetCache, Caches
<1>12. CASE DropCache(c)
    BY <1>12 DEF DropCache
<1>13. CASE Fail(c)
    BY <1>13 DEF Fail
<1> QED BY <1>1, <1>2, <1>3, <1>4, <1>5, <1>6, <1>7, <1>8, <1>9, <1>10, <1>11, <1>12,
   <1>13 DEF Step, Writes

\* None of the users a sign-up has seen becomes a host by sign-up.
LEMMA LooksStep ==
    ASSUME UsersAndIds, TypeOK, OwnIds, \A d \in Caller : ~Idle(d) => CallShape(d) /\
       HoldsCurrent(d) /\ LooksForFirst(d), FoundersAreHosts, NEW c \in Caller, Step(c)
    PROVE  \A d \in Caller : ~Idle(d)' => LooksForFirst(d)'
<1>a. ListRows(c) /\ ~End(c) => \E r \in Call : RowsFound(c, r)
    BY FoundRows
<1>b. Writes(c) => \E id \in UserId, u \in User \cup {NoUser} : WritesRow(c, id, u)
    BY StatementWrites DEF Writes, Insert, Update, Delete, At
<1> USE DEF UsersAndIds, TypeOK, Idle, At, End, Created, User, Role, Call, Stage,
   CallShape, OwnIds, LooksForFirst, FoundersAreHosts, Key
<1>1. CASE GetUser(c)
    BY <1>1 DEF GetUser, Arrive
<1>2. CASE ListUsers(c)
    BY <1>2 DEF ListUsers, Arrive
<1>3. CASE CreateUser(c)
    BY <1>3 DEF CreateUser, Arrive
<1>4. CASE UpdateUser(c)
    BY <1>4 DEF UpdateUser, Change, Arrive
<1>5. CASE DeleteUser(c)
    BY <1>5 DEF DeleteUser, Change, Arrive
<1>6. CASE ListRows(c)
    <2>1. CASE End(c)
        BY <1>6, <2>1 DEF ListRows
    <2>2. CASE ~End(c)
        BY <1>6, <1>a, <2>2 DEF RowsFound, Hosts
    <2> QED BY <2>1, <2>2
<1>7. CASE Fill(c)
    BY <1>7 DEF Fill, Caches
<1>8. CASE FillAgain(c)
    BY <1>8 DEF FillAgain, Caches
<1>9. CASE Writes(c)
    BY <1>9, <1>b DEF WritesRow, Statement, CallsAfter, Overtakes
<1>10. CASE UpdateNoRow(c)
    BY <1>10 DEF UpdateNoRow
<1>11. CASE SetCache(c)
    BY <1>11 DEF SetCache, Caches
<1>12. CASE DropCache(c)
    BY <1>12 DEF DropCache
<1>13. CASE Fail(c)
    BY <1>13 DEF Fail
<1> QED BY <1>1, <1>2, <1>3, <1>4, <1>5, <1>6, <1>7, <1>8, <1>9, <1>10, <1>11, <1>12,
   <1>13 DEF Step, Writes

\* What is not of the table is being written, was overtaken, or shares its key.
LEMMA CacheStep ==
    ASSUME UsersAndIds, TypeOK, OwnIds, \A d \in Caller : ~Idle(d) => CallShape(d) /\
       HoldsCurrent(d) /\ LooksForFirst(d), CacheFollowsTable, NEW c \in Caller, Step(c)
    PROVE  CacheFollowsTable'
<1>a. ListRows(c) /\ ~End(c) => \E r \in Call : RowsFound(c, r)
    BY FoundRows
<1>b. Writes(c) => \E id \in UserId, u \in User \cup {NoUser} : WritesRow(c, id, u)
    BY StatementWrites DEF Writes, Insert, Update, Delete, At
<1> USE DEF UsersAndIds, TypeOK, Idle, At, End, Created, User, Role, Call, Stage, Key,
   CallShape, OwnIds, HoldsCurrent, CacheFollowsTable, Writing, Shared
<1>1. CASE GetUser(c)
    BY <1>1 DEF GetUser, Arrive
<1>2. CASE ListUsers(c)
    BY <1>2 DEF ListUsers, Arrive
<1>3. CASE CreateUser(c)
    BY <1>3 DEF CreateUser, Arrive
<1>4. CASE UpdateUser(c)
    BY <1>4 DEF UpdateUser, Change, Arrive
<1>5. CASE DeleteUser(c)
    BY <1>5 DEF DeleteUser, Change, Arrive
<1>6. CASE ListRows(c)
    <2>1. CASE End(c)
        BY <1>6, <2>1 DEF ListRows
    <2>2. CASE ~End(c)
        <3>1. PICK r \in Call : RowsFound(c, r)
            BY <1>6, <1>a, <2>2
        <3>2. /\ \A d \in Caller \ {c} : calls'[d] = calls[d]
              /\ calls[c].stage = "list"
              /\ UNCHANGED <<users, userIds, userCache, crossed>>
            BY <1>6, <3>1 DEF RowsFound, ListRows
        <3>3. \A id \in userIds : Writing(id) => Writing(id)'
            BY <3>2
        <3> HIDE DEF Writing, Idle, At, End, TypeOK, OwnIds
        <3> QED BY <3>2, <3>3
    <2> QED BY <2>1, <2>2
<1>7. CASE Fill(c)
    BY <1>7 DEF Fill, Caches
<1>8. CASE FillAgain(c)
    BY <1>8 DEF FillAgain, Caches
<1>9. CASE Writes(c)
    BY <1>9, <1>b DEF WritesRow, Statement, CallsAfter, Overtakes
<1>10. CASE UpdateNoRow(c)
    BY <1>10 DEF UpdateNoRow
<1>11. CASE SetCache(c)
    BY <1>11 DEF SetCache, Caches
<1>12. CASE DropCache(c)
    BY <1>12 DEF DropCache
<1>13. CASE Fail(c)
    BY <1>13 DEF Fail
<1> QED BY <1>1, <1>2, <1>3, <1>4, <1>5, <1>6, <1>7, <1>8, <1>9, <1>10, <1>11, <1>12,
   <1>13 DEF Step, Writes

\* A host by sign-up who is given another role, or deleted, is one no more.
LEMMA FoundersStep ==
    ASSUME UsersAndIds, TypeOK, OwnIds, \A d \in Caller : ~Idle(d) => CallShape(d) /\
       HoldsCurrent(d) /\ LooksForFirst(d), FoundersAreHosts, NEW c \in Caller, Step(c)
    PROVE  FoundersAreHosts'
<1> USE DEF UsersAndIds, TypeOK, Idle, At, End, Created, User, Role, Call, Stage,
   CallShape, OwnIds, FoundersAreHosts
<1>1. CASE GetUser(c)
    BY <1>1 DEF GetUser, Arrive
<1>2. CASE ListUsers(c)
    BY <1>2 DEF ListUsers, Arrive
<1>3. CASE CreateUser(c)
    BY <1>3 DEF CreateUser, Arrive
<1>4. CASE UpdateUser(c)
    BY <1>4 DEF UpdateUser, Change, Arrive
<1>5. CASE DeleteUser(c)
    BY <1>5 DEF DeleteUser, Change, Arrive
<1>6. CASE ListRows(c)
    BY <1>6 DEF ListRows, Asked, Hosts
<1>7. CASE Fill(c)
    BY <1>7 DEF Fill, Caches
<1>8. CASE FillAgain(c)
    BY <1>8 DEF FillAgain, Caches
<1>9. CASE UpdateNoRow(c)
    BY <1>9 DEF UpdateNoRow
<1>10. CASE SetCache(c)
    BY <1>10 DEF SetCache, Caches
<1>11. CASE DropCache(c)
    BY <1>11 DEF DropCache
<1>12. CASE Fail(c)
    BY <1>12 DEF Fail
<1>13. CASE Insert(c)
    BY <1>13, NextIdIsNew DEF Insert, Wrote, Overtakes
<1>14. CASE Update(c)
    BY <1>14 DEF Update, Wrote, Overtakes
<1>15. CASE Delete(c)
    BY <1>15 DEF Delete, Wrote, Overtakes
<1> QED BY <1>1, <1>2, <1>3, <1>4, <1>5, <1>6, <1>7, <1>8, <1>9, <1>10, <1>11, <1>12,
   <1>13, <1>14, <1>15 DEF Step

\* A second host by sign-up knows that the first was created after its look.
LEMMA FirstStep ==
    ASSUME UsersAndIds, TypeOK, OwnIds, \A d \in Caller : ~Idle(d) => CallShape(d) /\
       HoldsCurrent(d) /\ LooksForFirst(d), FoundersAreHosts, OneFirstHost,
       NEW c \in Caller, Step(c)
    PROVE  OneFirstHost'
<1> USE DEF UsersAndIds, TypeOK, Idle, At, End, Created, User, Role, Call, Stage,
   CallShape, OwnIds, LooksForFirst, FoundersAreHosts, OneFirstHost
<1>1. CASE GetUser(c)
    BY <1>1 DEF GetUser, Arrive
<1>2. CASE ListUsers(c)
    BY <1>2 DEF ListUsers, Arrive
<1>3. CASE CreateUser(c)
    BY <1>3 DEF CreateUser, Arrive
<1>4. CASE UpdateUser(c)
    BY <1>4 DEF UpdateUser, Change, Arrive
<1>5. CASE DeleteUser(c)
    BY <1>5 DEF DeleteUser, Change, Arrive
<1>6. CASE ListRows(c)
    BY <1>6 DEF ListRows, Asked, Hosts
<1>7. CASE Fill(c)
    BY <1>7 DEF Fill, Caches
<1>8. CASE FillAgain(c)
    BY <1>8 DEF FillAgain, Caches
<1>9. CASE UpdateNoRow(c)
    BY <1>9 DEF UpdateNoRow
<1>10. CASE SetCache(c)
    BY <1>10 DEF SetCache, Caches
<1>11. CASE DropCache(c)
    BY <1>11 DEF DropCache
<1>12. CASE Fail(c)
    BY <1>12 DEF Fail
<1>13. CASE Insert(c)
    BY <1>13, NextIdIsNew DEF Insert, Wrote, Overtakes
<1>14. CASE Update(c)
    BY <1>14 DEF Update, Wrote, Overtakes
<1>15. CASE Delete(c)
    BY <1>15 DEF Delete, Wrote, Overtakes
<1> QED BY <1>1, <1>2, <1>3, <1>4, <1>5, <1>6, <1>7, <1>8, <1>9, <1>10, <1>11, <1>12,
   <1>13, <1>14, <1>15 DEF Step

\* An entry that goes leaves nothing to disagree with the table.
LEMMA EvictStep ==
    ASSUME UsersAndIds, Inductive, Evict
    PROVE  Inductive'
BY DEF UsersAndIds, Inductive, Evict, TypeOK, OwnIds, CallShape, HoldsCurrent, LooksForFirst,
       CacheFollowsTable, FoundersAreHosts, OneFirstHost, Created, Idle, At, Writing, Shared, Key

LEMMA InductiveStep ==
    ASSUME UsersAndIds, Inductive, [UsersNext]_userVars
    PROVE  Inductive'
<1> USE DEF Inductive
<1>1. ASSUME NEW c \in Caller, Step(c)
      PROVE  Inductive'
    <2>1. \A d \in Caller : ~Idle(d)' => CallShape(d)' /\ HoldsCurrent(d)' /\ LooksForFirst(d)'
        BY <1>1, ShapeStep, HoldsStep, LooksStep
    <2> QED BY <1>1, <2>1, TypeStep, OwnIdsStep, CacheStep, FoundersStep, FirstStep
<1>2. CASE Evict
    BY <1>2, EvictStep
<1>3. CASE UNCHANGED userVars
    BY <1>3 DEF userVars, TypeOK, OwnIds, CallShape, HoldsCurrent, LooksForFirst,
       CacheFollowsTable, FoundersAreHosts, OneFirstHost, Created, Idle, At, Writing, Shared
<1> QED BY <1>1, <1>2, <1>3 DEF UsersNext

---------------------------------------------------------------------------

\* Whatever requests run into each other or fail, what is known of the table, the
\* cache and the requests holds.
THEOREM AlwaysInductive ==
    ASSUME UsersAndIds
    PROVE  UsersSpec => []Inductive
<1>1. UsersInit => Inductive
    BY DEF UsersAndIds, UsersInit, Inductive, TypeOK, OwnIds, Created, Idle, CacheFollowsTable,
       FoundersAreHosts, OneFirstHost, Key
<1>2. Inductive /\ [UsersNext]_userVars => Inductive'
    BY InductiveStep
<1> QED BY <1>1, <1>2, PTL DEF UsersSpec

\* Type correctness.
THEOREM TypeCorrect ==
    ASSUME UsersAndIds
    PROVE  UsersSpec => []TypeOK
<1>1. Inductive => TypeOK
    BY DEF Inductive
<1> QED BY <1>1, AlwaysInductive, PTL

\* A user who was changed or deleted is not accepted from the cache as before once
\* the request that did it has returned, but for what a call that was overtaken,
\* or one told of an error, has left there (Store.userCache).
THEOREM CacheFollows ==
    ASSUME UsersAndIds
    PROVE  UsersSpec => []CacheFollowsTable
<1>1. Inductive => CacheFollowsTable
    BY DEF Inductive
<1> QED BY <1>1, AlwaysInductive, PTL

\* Sign-up makes two hosts only when one was created while the other's request was
\* past its look for hosts (CreateUser: "Create the first user as HOST").
THEOREM FirstHost ==
    ASSUME UsersAndIds
    PROVE  UsersSpec => []OneFirstHost
<1>1. Inductive => OneFirstHost
    BY DEF Inductive
<1> QED BY <1>1, AlwaysInductive, PTL
=============================================================================

---------------------------- MODULE UserAccounts ----------------------------
(***************************************************************************)
(* The users of a workspace: the user table, Store.userCache               *)
(* (store/user.go) and the requests that sign up, look up, list, update    *)
(* and delete users (server/router/api/v1/user_service.go, acl.go).  No    *)
(* lock spans a call: it reads the cache or the table, puts each user it   *)
(* read into the cache, runs its statement, then changes the cache.        *)
(* Cached users are replaced and never changed, so a user is a value.      *)
(*                                                                         *)
(* The user who makes a request is looked up as any other is, by a call    *)
(* that ends before the next one starts.                                   *)
(***************************************************************************)
EXTENDS Naturals

CONSTANTS
    Caller,     \* goroutines serving requests
    UserId,     \* the ids the table will hand out
    NoUser      \* no row, no entry, no request

VARIABLES
    users,      \* the rows of the user table, NoUser without one
    userIds,    \* ids handed out: AUTOINCREMENT uses none twice
    userCache,  \* the user each key of the cache leads to
    calls,      \* the request of each goroutine
    crossed,    \* history: keys that may hold what a write has overtaken
    founders    \* history: hosts by sign-up, and who was created after they looked

userVars == <<users, userIds, userCache, calls, crossed, founders>>

Role == {"HOST", "USER"}
User == [id : UserId, role : Role]

Stage == {"list", "fill", "again", "put", "set", "drop"}
Call == [kind : {"lookup", "all", "signup", "update", "delete"}, stage : Stage,
         id : UserId \cup {NoUser}, held : SUBSET User, found : User \cup {NoUser},
         late : SUBSET UserId, first : BOOLEAN, since : SUBSET UserId]

\* string(user.ID) is the character whose code the id is, and U+FFFD for an
\* id that is the code of none.
KeyOf(id) == IF id \in 55296 .. 57343 \/ id > 1114111 THEN 65533 ELSE id
Key == {KeyOf(id) : id \in UserId}

\* What NoUser and the ids stand for is told apart.
UsersAndIds ==
    /\ UserId \subseteq Nat
    /\ NoUser \notin UserId \cup User \cup Call /\ \A ids \in SUBSET UserId : ids # NoUser

Created == {i \in UserId : users[i] # NoUser}
Idle(c) == calls[c] = NoUser
At(c, stage) == ~Idle(c) /\ calls[c].stage = stage
End(c) == calls' = [calls EXCEPT ![c] = NoUser]

UsersInit ==
    /\ users = [i \in UserId |-> NoUser]
    /\ userIds = {}
    /\ userCache = [k \in Key |-> NoUser]
    /\ calls = [c \in Caller |-> NoUser]
    /\ crossed = {}
    /\ founders = [i \in UserId |-> NoUser]

---------------------------------------------------------------------------
(* Requests.  Store.GetUser by id asks the cache first.                    *)

Arrive(c, kind, stage, id) ==
    /\ Idle(c)
    /\ calls' = [calls EXCEPT ![c] =
            [kind |-> kind, stage |-> stage, id |-> id, held |-> {}, found |-> NoUser,
             late |-> {}, first |-> FALSE, since |-> {}]]
    /\ UNCHANGED <<users, userIds, userCache, crossed, founders>>

\* A request with the user's cookie or token, or for a user by name, which
\* asks the table in any case; one that finds the user in the cache changes
\* nothing.
GetUser(c) ==
    \E id \in userIds : Arrive(c, "lookup", "list", id)

\* The handler looks the user up and goes on with the id of the one it found.
Change(c, kind) ==
    \E id \in userIds :
        LET hit == userCache[KeyOf(id)] IN
        IF hit = NoUser THEN Arrive(c, kind, "list", id) ELSE Arrive(c, kind, "put", hit.id)

ListUsers(c) == Arrive(c, "all", "list", NoUser)
CreateUser(c) == userIds # UserId /\ Arrive(c, "signup", "list", NoUser)
UpdateUser(c) == Change(c, "update")
DeleteUser(c) == Change(c, "delete")

---------------------------------------------------------------------------
(* Store.GetUser without an entry, and Store.ListUsers.                    *)

Hosts == {i \in Created : users[i].role = "HOST"}

\* Mutant of Asked: sign-up looks for users of another role.
AskedUsers(call) ==
    CASE call.kind = "all" -> Created
      [] call.kind = "signup" -> Created \ Hosts
      [] OTHER -> Created \cap {call.id}

\* The rows the query of a call selects.
Asked(call) ==
    CASE call.kind = "all" -> Created
      [] call.kind = "signup" -> Hosts
      [] OTHER -> Created \cap {call.id}

\* The query.  Who signs up while there is no host will be the host.
ListRows(c) ==
    LET call == calls[c]
        found == {users[i] : i \in Asked(call)} IN
    /\ At(c, "list")
    /\ IF found = {} /\ call.kind # "signup" THEN End(c)
       ELSE calls' = [calls EXCEPT
            ![c].stage = IF found = {} THEN "put" ELSE "fill",
            ![c].held = found,
            ![c].found = IF call.kind \in {"all", "signup"} THEN NoUser
                         ELSE CHOOSE u \in found : TRUE,
            ![c].first = (found = {}),
            ![c].since = IF found = {} THEN userIds ELSE {}]
    /\ UNCHANGED <<users, userIds, userCache, crossed, founders>>

\* cache.Set by call c of user u; what a write has overtaken stays crossed.
Caches(c, u) ==
    /\ userCache' = [userCache EXCEPT ![KeyOf(u.id)] = u]
    /\ crossed' = IF u.id \in calls[c].late THEN crossed \cup {KeyOf(u.id)}
                  ELSE crossed \ {KeyOf(u.id)}
    /\ UNCHANGED <<users, userIds, founders>>

\* ListUsers caches each user it found.
Fill(c) ==
    /\ At(c, "fill")
    /\ \E u \in calls[c].held :
        /\ Caches(c, u)
        /\ IF calls[c].held # {u} THEN calls' = [calls EXCEPT ![c].held = @ \ {u}]
           ELSE IF calls[c].kind = "all" THEN End(c)
           ELSE calls' = [calls EXCEPT
                    ![c].held = {},
                    ![c].stage = IF calls[c].kind = "signup" THEN "put" ELSE "again"]

\* GetUser caches the one it found again.
FillAgain(c) ==
    /\ At(c, "again")
    /\ Caches(c, calls[c].found)
    /\ IF calls[c].kind = "lookup" THEN End(c)
       ELSE calls' = [calls EXCEPT ![c].stage = "put", ![c].found = NoUser, ![c].late = {}]

---------------------------------------------------------------------------
(* The statements, and what is done to the cache after them.               *)

\* Call d holds the row of id, read or written before a write of it.
Overtakes(d, id) ==
    ~Idle(d) /\ ((calls[d].found # NoUser /\ calls[d].found.id = id)
                 \/ \E u \in calls[d].held : u.id = id)

\* Call c has written the row of id as u and goes on to the cache, or is told
\* of an error though it has.
Wrote(c, id, u, stage) ==
    LET others == [d \in Caller |->
            IF d # c /\ Overtakes(d, id) THEN [calls[d] EXCEPT !.late = @ \cup {id}]
            ELSE calls[d]] IN
    /\ users' = [users EXCEPT ![id] = u]
    /\ UNCHANGED userCache
    /\ \/ /\ calls' = [others EXCEPT ![c].stage = stage, ![c].found = u, ![c].id = id]
          /\ UNCHANGED crossed
       \/ /\ calls' = [others EXCEPT ![c] = NoUser]
          /\ crossed' = crossed \cup {KeyOf(id)}

\* The least id never handed out.
NextId == CHOOSE i \in UserId \ userIds : \A j \in UserId \ userIds : i <= j

\* The first user is the host; a host may create users of any role.
Insert(c) ==
    /\ At(c, "put") /\ calls[c].kind = "signup"
    /\ userIds # UserId
    /\ \E role \in IF calls[c].first THEN {"HOST"} ELSE Role :
        Wrote(c, NextId, [id |-> NextId, role |-> role], "set")
    /\ userIds' = userIds \cup {NextId}
    /\ founders' = IF calls[c].first
                   THEN [founders EXCEPT ![NextId] = userIds \ calls[c].since]
                   ELSE founders

\* UpdateUser, here of the role; another column, as the one that archives a
\* user, is a change of the row alike.  A host by sign-up who is given another
\* role is one no more.
Update(c) ==
    LET id == calls[c].id IN
    /\ At(c, "put") /\ calls[c].kind = "update"
    /\ id \in Created
    /\ \E role \in Role \ {users[id].role} :
        /\ Wrote(c, id, [users[id] EXCEPT !.role = role], "set")
        /\ founders' = IF role = "HOST" THEN founders ELSE [founders EXCEPT ![id] = NoUser]
    /\ UNCHANGED userIds

UpdateNoRow(c) ==
    /\ At(c, "put") /\ calls[c].kind = "update"
    /\ calls[c].id \notin Created
    /\ End(c)
    /\ UNCHANGED <<users, userIds, userCache, crossed, founders>>

Delete(c) ==
    /\ At(c, "put") /\ calls[c].kind = "delete"
    /\ Wrote(c, calls[c].id, NoUser, "drop")
    /\ founders' = [founders EXCEPT ![calls[c].id] = NoUser]
    /\ UNCHANGED userIds

SetCache(c) ==
    /\ At(c, "set")
    /\ Caches(c, calls[c].found)
    /\ End(c)

\* Mutant of DropCache: the entry stays.
KeepCache(c) ==
    /\ At(c, "drop")
    /\ End(c)
    /\ UNCHANGED <<users, userIds, userCache, crossed, founders>>

\* cache.Delete of string(delete.ID)
DropCache(c) ==
    /\ At(c, "drop")
    /\ userCache' = [userCache EXCEPT ![KeyOf(calls[c].id)] = NoUser]
    /\ crossed' = crossed \ {KeyOf(calls[c].id)}
    /\ End(c)
    /\ UNCHANGED <<users, userIds, founders>>

\* A query or a statement fails and changed nothing.
Fail(c) ==
    /\ At(c, "list") \/ At(c, "put")
    /\ End(c)
    /\ UNCHANGED <<users, userIds, userCache, crossed, founders>>

\* An entry expires, or makes room for another.
Evict ==
    \E k \in Key :
        /\ userCache[k] # NoUser
        /\ userCache' = [userCache EXCEPT ![k] = NoUser]
        /\ crossed' = crossed \ {k}
        /\ UNCHANGED <<users, userIds, calls, founders>>

Step(c) ==
    \/ GetUser(c)
    \/ ListUsers(c)
    \/ CreateUser(c)
    \/ UpdateUser(c)
    \/ DeleteUser(c)
    \/ ListRows(c)
    \/ Fill(c)
    \/ FillAgain(c)
    \/ Insert(c)
    \/ Update(c)
    \/ UpdateNoRow(c)
    \/ Delete(c)
    \/ SetCache(c)
    \/ DropCache(c)
    \/ Fail(c)

UsersNext == (\E c \in Caller : Step(c)) \/ Evict

UsersSpec == UsersInit /\ [][UsersNext]_userVars

---------------------------------------------------------------------------
(* Properties.                                                             *)

\* Type invariant.
TypeOK ==
    /\ users \in [UserId -> User \cup {NoUser}] /\ Created \subseteq userIds
    /\ userIds \subseteq UserId
    /\ userCache \in [Key -> User \cup {NoUser}]
    /\ calls \in [Caller -> Call \cup {NoUser}]
    /\ crossed \subseteq Key
    /\ founders \in [UserId -> (SUBSET UserId) \cup {NoUser}]

\* Ids that are the code of no character, and that of U+FFFD itself, lead to the
\* same entry.
Shared(id) == \E j \in userIds \ {id} : KeyOf(j) = KeyOf(id)

Writing(id) ==
    \E c \in Caller : (At(c, "set") \/ At(c, "drop")) /\ calls[c].id = id

\* A user who was changed or deleted is not accepted from the cache as before
\* once the request that did it has returned: the cache leads to the row or to
\* nothing, but for an entry of a call that had read the user before the write
\* and set it after, one whose write was reported to have failed though it had
\* not, and those of ids that share a key.
CacheFollowsTable ==
    \A id \in userIds :
        \/ userCache[KeyOf(id)] \in {NoUser, users[id]}
        \/ Writing(id)
        \/ KeyOf(id) \in crossed
        \/ Shared(id)

\* "Create the first user as HOST": two hosts are made by sign-up only when
\* one was created while the other's request was past its look for hosts.
OneFirstHost ==
    \A i, j \in userIds :
        (i # j /\ founders[i] # NoUser /\ founders[j] # NoUser)
            => i \in founders[j] \/ j \in founders[i]

---------------------------------------------------------------------------
(* The inductive invariant.                                                *)

\* A row and an entry are of their own id.
OwnIds ==
    /\ \A i \in Created : users[i].id = i
    /\ \A k \in Key : userCache[k] # NoUser =>
        userCache[k].id \in userIds /\ KeyOf(userCache[k].id) = k

\* What a call is about and what it still holds, by where it is.
CallShape(c) ==
    LET call == calls[c] IN
    /\ call.kind \in {"lookup", "update", "delete"} => call.id \in userIds
    /\ At(c, "list") \/ At(c, "put") => call.found = NoUser
    /\ At(c, "put") => call.kind \notin {"lookup", "all"}
    /\ At(c, "again") => call.found # NoUser /\ call.kind \notin {"all", "signup"}
    /\ At(c, "fill") => (call.found = NoUser <=> call.kind \in {"all", "signup"})
    /\ At(c, "set") => call.found # NoUser /\ call.found.id = call.id
    /\ ~At(c, "fill") => call.held = {}

\* The users a call holds are those of the table, or it is known to be late.
HoldsCurrent(c) ==
    \A u \in calls[c].held \cup ({calls[c].found} \ {NoUser}) :
        u.id \in userIds /\ (u = users[u.id] \/ u.id \in calls[c].late)

\* Who found no host finds that none of the users there were has become host by
\* sign-up since.
LooksForFirst(c) ==
    /\ calls[c].since \subseteq userIds
    /\ calls[c].first => \A i \in calls[c].since : founders[i] = NoUser

FoundersAreHosts ==
    \A i \in UserId : founders[i] # NoUser => i \in Created /\ users[i].role = "HOST"

Inductive ==
    /\ TypeOK
    /\ OwnIds
    /\ \A c \in Caller : ~Idle(c) => CallShape(c) /\ HoldsCurrent(c) /\ LooksForFirst(c)
    /\ CacheFollowsTable
    /\ FoundersAreHosts
    /\ OneFirstHost
=============================================================================

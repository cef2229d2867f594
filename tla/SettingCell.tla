----------------------------- MODULE SettingCell -----------------------------
(***************************************************************************)
(* One (user, key) cell of store/user_setting.go: the row of the           *)
(* user_setting table, the entry of Store.userSettingCache for the same    *)
(* key, and the store calls in flight on it.  Every call of the API        *)
(* server runs in a goroutine of its own and no lock spans a call: it      *)
(* reads the cache, on a miss reads the row and fills the cache, computes  *)
(* a new value, writes the row, then sets the cache.                       *)
(*                                                                         *)
(* The cache holds POINTERS: a call that hits it gets the object the cache *)
(* and other calls hold.  heap is the store of those objects; the garbage  *)
(* collector runs at once (Swept), so that heap never tells two equal      *)
(* states apart.                                                           *)
(*                                                                         *)
(* A module that EXTENDS this one says what the calls compute.             *)
(***************************************************************************)
EXTENDS Naturals

CONSTANTS
    Proc,   \* goroutines serving requests on this cell
    Ref,    \* addresses of cached objects
    None,   \* no row, no cache entry, no pointer, no value
    DriverFails \* whether the database may answer with an error

ASSUME NoneIsNoRef == None \notin Ref
ASSUME DriverFailsIsBool == DriverFails \in BOOLEAN

VARIABLES
    row,    \* the value of the user_setting row, or None
    cached, \* the object the cache entry points to, or None
    heap,   \* the value of every object a pointer leads to
    pc,     \* where each goroutine is in its store call
    ref,    \* the object each goroutine holds
    draft   \* the value each goroutine is about to write to the row

cellVars == <<row, cached, heap, pc, ref, draft>>

PC == {"idle", "get", "list", "fill", "refill", "got", "put", "set", "error"}

CellInit ==
    /\ row = None
    /\ cached = None
    /\ heap = [r \in Ref |-> None]
    /\ pc = [p \in Proc |-> "idle"]
    /\ ref = [p \in Proc |-> None]
    /\ draft = [p \in Proc |-> None]

Busy(p) == pc[p] # "idle"

Goto(p, label) == pc' = [pc EXCEPT ![p] = label]
Hold(p, r) == ref' = [ref EXCEPT ![p] = r]
Drop(p) == Hold(p, None)

Held(r) == r = cached \/ \E p \in Proc : ref[p] = r

Swept(h) == [r \in Ref |-> IF Held(r)' THEN h[r] ELSE None]

---------------------------------------------------------------------------
(* GetUserSetting: the cache first, then the row.                          *)

CacheHit(p) ==
    /\ pc[p] = "get"
    /\ cached # None
    /\ Hold(p, cached)
    /\ Goto(p, "got")
    /\ UNCHANGED <<row, cached, heap, draft>>

CacheMiss(p) ==
    /\ pc[p] = "get"
    /\ cached = None
    /\ Goto(p, "list")
    /\ UNCHANGED <<row, cached, heap, ref, draft>>

\* ListUserSettings decodes the row into an object of its own.
ListRow(p) ==
    /\ pc[p] = "list"
    /\ row # None
    /\ \E r \in Ref :
        /\ ~Held(r)
        /\ heap' = [heap EXCEPT ![r] = row]
        /\ Hold(p, r)
    /\ Goto(p, "fill")
    /\ UNCHANGED <<row, cached, draft>>

\* No row: GetUserSetting returns nil and caches nothing.
ListNoRow(p) ==
    /\ pc[p] = "list"
    /\ row = None
    /\ Goto(p, "got")
    /\ UNCHANGED <<row, cached, heap, ref, draft>>

ListFails(p) ==
    /\ DriverFails
    /\ pc[p] = "list"
    /\ Goto(p, "error")
    /\ UNCHANGED <<row, cached, heap, ref, draft>>

\* The object is put in the cache twice, by ListUserSettings and again by
\* GetUserSetting, with other calls between the two.
Fill(p) ==
    /\ pc[p] \in {"fill", "refill"}
    /\ cached' = ref[p]
    /\ Goto(p, IF pc[p] = "fill" THEN "refill" ELSE "got")
    /\ UNCHANGED <<row, ref, draft>>
    /\ heap' = Swept(heap)

Get(p) ==
    \/ CacheHit(p)
    \/ CacheMiss(p)
    \/ ListRow(p)
    \/ ListNoRow(p)
    \/ ListFails(p)
    \/ Fill(p)

---------------------------------------------------------------------------
(* UpsertUserSetting: the row, then the cache.                             *)

\* The value v is encoded; h is the heap after what the call changed in the
\* object it holds.  The call keeps no pointer to that object.
Prepare(p, v, h) ==
    /\ pc[p] = "got"
    /\ draft' = [draft EXCEPT ![p] = v]
    /\ Drop(p)
    /\ Goto(p, "put")
    /\ UNCHANGED <<row, cached>>
    /\ heap' = Swept(h)

\* The statement is executed and its value decoded into a fresh object.
Exec(p) ==
    /\ pc[p] = "put"
    /\ row' = draft[p]
    /\ \E r \in Ref :
        /\ ~Held(r)
        /\ heap' = [heap EXCEPT ![r] = draft[p]]
        /\ Hold(p, r)
    /\ draft' = [draft EXCEPT ![p] = None]
    /\ Goto(p, "set")
    /\ UNCHANGED cached

\* The driver returns an error: the statement was not executed, or it was
\* and the request's context ended before the answer came.
ExecFails(p) ==
    /\ DriverFails
    /\ pc[p] = "put"
    /\ row' \in {row, draft[p]}
    /\ draft' = [draft EXCEPT ![p] = None]
    /\ Goto(p, "error")
    /\ UNCHANGED <<cached, heap, ref>>

\* Mutant of SetCache: the entry is left as it was.
LeaveCache(p, next) ==
    /\ pc[p] = "set"
    /\ Drop(p)
    /\ Goto(p, next)
    /\ UNCHANGED <<row, cached, draft>>
    /\ heap' = Swept(heap)

\* cache.Set of the value just written; the call returns and next is where
\* the goroutine goes on.
SetCache(p, next) ==
    /\ pc[p] = "set"
    /\ cached' = ref[p]
    /\ Drop(p)
    /\ Goto(p, next)
    /\ UNCHANGED <<row, draft>>
    /\ heap' = Swept(heap)

\* A call that only read, or that failed, returns.
Return(p, next) ==
    /\ Drop(p)
    /\ Goto(p, next)
    /\ UNCHANGED <<row, cached, draft>>
    /\ heap' = Swept(heap)

---------------------------------------------------------------------------
(* The cache drops an entry at any time: it expires, it is the oldest of a *)
(* full cache, or another call's Set is between its Delete and its Store.  *)

Evict ==
    /\ cached # None
    /\ cached' = None
    /\ UNCHANGED <<row, pc, ref, draft>>
    /\ heap' = Swept(heap)

\* The server stops and starts again: the row is what survives.
CellRestart ==
    /\ cached' = None
    /\ heap' = [r \in Ref |-> None]
    /\ pc' = [p \in Proc |-> "idle"]
    /\ ref' = [p \in Proc |-> None]
    /\ draft' = [p \in Proc |-> None]
    /\ UNCHANGED row
=============================================================================

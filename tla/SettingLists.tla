---------------------------- MODULE SettingLists ----------------------------
(***************************************************************************)
(* The lists of access tokens and of webhooks of one user: the             *)
(* ACCESS_TOKENS or the WEBHOOKS cell of user_setting (SettingCell) and    *)
(* the requests that read and rewrite it (server/router/api/v1/            *)
(* user_service.go, acl.go; store/user_setting.go).  Each writes the whole *)
(* list it computed from the one it read.                                  *)
(*                                                                         *)
(* A list is a function from Item to what it holds of the item, None for   *)
(* an item that is not in it.  The lists are too short for append to write *)
(* into an array another goroutine holds: one of three elements has room   *)
(* for a fourth.                                                           *)
(***************************************************************************)
EXTENDS SettingCell

CONSTANTS
    Item,       \* tokens, or ids of webhooks
    Url,        \* what a webhook may lead to
    Unknown     \* history: nothing is promised of the item

\* What an item leads to, and the request of a goroutine.
List == [Item -> Url \cup {None}]
Order == [kind : {"read", "create", "update", "delete"}, item : Item \cup {None},
          url : Url \cup {None}, looks : BOOLEAN, alone : BOOLEAN]

ASSUME NoneIsNoList == None \notin List /\ None \notin Order

VARIABLES
    webhooks,   \* whether the list is the one of webhooks
    orders,     \* the request of each goroutine
    handed,     \* items created so far
    expected    \* history: what the calls so far make of each item

listVars == <<cellVars, webhooks, orders, handed, expected>>

Blank == [i \in Item |-> None]
View(p) == IF ref[p] = None THEN Blank ELSE heap[ref[p]]

Writes(p) == Busy(p) /\ orders[p].kind # "read"

ListsInit ==
    /\ CellInit
    /\ webhooks \in BOOLEAN
    /\ orders = [p \in Proc |-> None]
    /\ handed = {}
    /\ expected = Blank

---------------------------------------------------------------------------
(* Requests.                                                               *)

\* The change of a webhook and its removal look it up before they start over.
\* History: alone says that no other call has overlapped this one, and that a
\* webhook to be changed was certain to be there or not.
Start(p, kind, i, url) ==
    LET others == {q \in Proc : Busy(q)} IN
    /\ ~Busy(p)
    /\ orders' = [q \in Proc |->
            IF q = p THEN [kind |-> kind, item |-> i, url |-> url,
                           looks |-> webhooks /\ kind \in {"update", "delete"},
                           alone |-> /\ others = {}
                                     /\ kind = "update" => expected[i] # Unknown]
            ELSE IF q \in others THEN [orders[q] EXCEPT !.alone = FALSE]
            ELSE orders[q]]
    /\ Goto(p, "get")
    \* A call that writes and overlaps another leaves nothing certain, and one
    \* by itself is not certain of its item until it has returned.
    /\ expected' =
            IF \E q \in others : kind # "read" \/ Writes(q) THEN [j \in Item |-> Unknown]
            ELSE IF kind # "read" THEN [expected EXCEPT ![i] = Unknown] ELSE expected
    /\ UNCHANGED <<row, cached, heap, ref, draft, webhooks>>

\* authenticateByJWT, ListUserAccessTokens, ListUserWebhooks, and the dispatch
\* of webhooks.
Read(p) == Start(p, "read", None, None) /\ UNCHANGED handed

\* CreateUserAccessToken, a sign in that asks for a token; CreateUserWebhook.
Create(p) ==
    \E i \in Item \ handed, u \in Url :
        Start(p, "create", i, u) /\ handed' = handed \cup {i}

\* UpdateUserWebhook; a token is never changed.
Update(p) ==
    /\ webhooks
    /\ \E i \in handed, u \in Url : Start(p, "update", i, u)
    /\ UNCHANGED handed

\* DeleteUserAccessToken, DeleteUserWebhook.
Delete(p) == \E i \in handed : Start(p, "delete", i, None) /\ UNCHANGED handed

---------------------------------------------------------------------------
(* What they do with the list.                                             *)

Same == UNCHANGED <<webhooks, orders, handed, expected>>

Finish(p) == orders' = [orders EXCEPT ![p] = None] /\ UNCHANGED <<webhooks, handed>>

\* The list is answered, or the token or webhook is found in it or not.
Answer(p) ==
    /\ pc[p] = "got"
    /\ orders[p].kind = "read" \/ (orders[p].looks /\ View(p)[orders[p].item] = None)
    /\ Return(p, "idle")
    /\ Finish(p)
    /\ UNCHANGED expected

\* The webhook is there: the list is read once more.
Found(p) ==
    /\ pc[p] = "got" /\ orders[p].looks
    /\ View(p)[orders[p].item] # None
    /\ orders' = [orders EXCEPT ![p].looks = FALSE]
    /\ Return(p, "get")
    /\ UNCHANGED <<webhooks, handed, expected>>

Computes(p, kind) == pc[p] = "got" /\ orders[p].kind = kind /\ ~orders[p].looks
With(p, url) == [View(p) EXCEPT ![orders[p].item] = url]

\* UpsertAccessTokenToStore, AddUserWebhook.
Add(p) ==
    /\ Computes(p, "create")
    /\ Prepare(p, With(p, orders[p].url), heap)
    /\ Same

\* Mutant of Remove: the list is written as it was read.
RemoveNothing(p) ==
    /\ Computes(p, "delete")
    /\ Prepare(p, View(p), heap)
    /\ Same

\* RemoveUserWebhook, and DeleteUserAccessToken without the token.
Remove(p) ==
    /\ Computes(p, "delete")
    /\ Prepare(p, With(p, None), heap)
    /\ Same

\* Store.UpdateUserWebhook replaces the element in the list it was given, the
\* one in the cache; when it is gone the list is written as it is.
Replace(p) ==
    /\ Computes(p, "update")
    /\ LET list == IF View(p)[orders[p].item] = None THEN View(p) ELSE With(p, orders[p].url) IN
        Prepare(p, list, IF ref[p] = None THEN heap ELSE [heap EXCEPT ![ref[p]] = list])
    /\ Same

\* The call returns: of one that no other overlapped, the item is as it left it.
Done(p) ==
    /\ SetCache(p, "idle")
    /\ Finish(p)
    /\ expected' = IF orders[p].alone
                   THEN [expected EXCEPT ![orders[p].item] = orders[p].url]
                   ELSE expected

GiveUp(p) ==
    /\ pc[p] = "error"
    /\ Return(p, "idle")
    /\ Finish(p)
    /\ UNCHANGED expected

Expire == Evict /\ Same

\* The server stops and starts.
Restart ==
    /\ \E p \in Proc : Busy(p)
    /\ CellRestart
    /\ orders' = [p \in Proc |-> None]
    /\ UNCHANGED <<webhooks, handed, expected>>

ListsNext ==
    \/ \E p \in Proc :
        \/ Read(p)
        \/ Create(p)
        \/ Update(p)
        \/ Delete(p)
        \/ Get(p) /\ Same
        \/ Answer(p)
        \/ Found(p)
        \/ Add(p)
        \/ Remove(p)
        \/ Replace(p)
        \/ Exec(p) /\ Same
        \/ ExecFails(p) /\ Same
        \/ Done(p)
        \/ GiveUp(p)
    \/ Expire
    \/ Restart

---------------------------------------------------------------------------
(* Properties.                                                             *)

\* Type invariant.
TypeOK ==
    /\ row \in List \cup {None}
    /\ cached \in Ref \cup {None}
    /\ heap \in [Ref -> List \cup {None}]
    /\ pc \in [Proc -> PC]
    /\ ref \in [Proc -> Ref \cup {None}]
    /\ draft \in [Proc -> List \cup {None}]
    /\ webhooks \in BOOLEAN
    /\ orders \in [Proc -> Order \cup {None}]
    /\ handed \subseteq Item
    /\ expected \in [Item -> Url \cup {None, Unknown}]

\* What a goroutine holds follows from where it is; no pointer leads nowhere.
Shape ==
    /\ \A r \in Ref : Held(r) => heap[r] # None
    /\ \A p \in Proc :
        /\ Busy(p) <=> orders[p] # None
        /\ ref[p] # None => pc[p] \in {"fill", "refill", "got", "set"}
        /\ pc[p] \in {"fill", "refill", "set"} => ref[p] # None
        /\ pc[p] = "put" => draft[p] # None
        /\ pc[p] \in {"put", "set"} => orders[p].kind # "read" /\ ~orders[p].looks
        /\ Writes(p) => orders[p].item \in Item
        /\ Busy(p) => (orders[p].looks => orders[p].kind \in {"update", "delete"})
        /\ Busy(p) => (orders[p].kind = "delete" => orders[p].url = None)

Alone(p) == Busy(p) /\ orders[p].alone

\* A call marked alone is; while a call that writes overlaps another nothing is
\* certain, and while it is by itself its item is not.
Solitude ==
    /\ \A p, q \in Proc : Alone(p) /\ Busy(q) => p = q
    /\ \A p, q \in Proc : Writes(p) /\ Busy(q) /\ p # q => \A i \in Item : expected[i] = Unknown
    /\ \A p \in Proc : Writes(p) => expected[orders[p].item] = Unknown

\* Every list that can still be read or written holds v of item i.
Everywhere(i, v) ==
    /\ row = None => v = None
    /\ row # None => row[i] = v
    /\ \A r \in Ref : heap[r] # None => heap[r][i] = v
    /\ \A p \in Proc : pc[p] = "got" => View(p)[i] = v
    /\ \A p \in Proc : pc[p] = "put" => draft[p][i] = v

Known == \A i \in Item : expected[i] # Unknown => Everywhere(i, expected[i])

\* A change of a webhook that is alone finds it in every list, or in none, and
\* in every one once it was found.
Looked ==
    \A p \in Proc :
        Alone(p) /\ orders[p].kind = "update" /\ pc[p] \in {"get", "list", "fill", "refill", "got"} =>
            \E v \in Url \cup {None, Unknown} :
                Everywhere(orders[p].item, v) /\ (~orders[p].looks => v # None)

\* What a call that is alone writes and has written is what it is for.
Wrote ==
    \A p \in Proc : Alone(p) =>
        /\ pc[p] = "put" => draft[p][orders[p].item] = orders[p].url
        /\ pc[p] = "set" => row = heap[ref[p]] /\ row[orders[p].item] = orders[p].url

ListsInductive == TypeOK /\ Shape /\ Solitude /\ Known /\ Looked /\ Wrote

\* A token or a webhook is found as the calls left it: created ones are there,
\* deleted ones are not, a changed webhook leads where it was changed to, across
\* evictions, failures of other calls and restarts.  Nothing is promised of an
\* item while a call on it runs or after one failed, nor of any after a call
\* that writes overlapped another, until a later call on it returns alone.
AnswersFollowCalls ==
    [][\A p \in Proc :
          (Answer(p) /\ orders[p].kind = "read") =>
              \A i \in Item : expected[i] \in {Unknown, View(p)[i]}]_listVars
=============================================================================

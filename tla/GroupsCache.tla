---------------------------- MODULE GroupsCache ----------------------------
(***************************************************************************)
(* The cached list of partner groups (api/groups.py): GET /groups answers  *)
(* from groups_cache while its rows are young, and otherwise pages through *)
(* b2_list_groups and replaces all the rows in one transaction.  The rows, *)
(* the listing and the cached_at of the answer are read at different       *)
(* times, and meanwhile groups come and go, other requests refresh and the *)
(* partner account may be another one.                                     *)
(*                                                                         *)
(* An account is that of the token in use; how the token follows a change  *)
(* of the settings is TokenCache's subject.                                *)
(***************************************************************************)
EXTENDS Integers, FiniteSets

CONSTANTS
  Request,        \* concurrent requests for the list
  Group,          \* group ids, in the order in which they are listed
  Account,        \* partner accounts
  OwnerOf,        \* the account each group belongs to
  TTL,            \* _CACHE_TTL_SECONDS, in ticks
  MaxChanges      \* bound: changes of groups or account, and failures, in a run

ASSUME GroupsAssumption ==
  /\ Group \subseteq Nat \ {0}
  /\ OwnerOf \in [Group -> Account]
  /\ Account # {}
  /\ TTL \in Nat
  /\ MaxChanges \in Nat

VARIABLES
  live,      \* the groups that exist at Backblaze
  account,   \* the account whose token is in use
  cache,     \* the rows of groups_cache
  age,       \* the age of their cached_at; TTL + 1 stands for any greater
  pc,        \* per request: "idle", "page", "write" or "stamp"
  cursor,    \* per request: startGroupId of the next page, 0 for the first
  listed,    \* per request: the groups of the pages so far
  retried,   \* per request: the listing is its second one
  rowsAge,   \* per request: the age of the rows it will answer with
  steady,    \* per request: the account's groups that were there all through its listing
  seen,      \* per request: the groups that were there at some time of its listing
  changes    \* changes and failures so far

cached == <<cache, age>>
listing == <<cursor, listed, retried>>
watched == <<steady, seen>>
vars == <<live, account, cached, pc, listing, rowsAge, watched, changes>>

Of(a) == {g \in live : OwnerOf[g] = a}
Listing(t) == pc[t] \in {"page", "write"}
Goto(t, where) == pc' = [pc EXCEPT ![t] = where]

Init ==
  /\ live \in SUBSET Group
  /\ account \in Account
  /\ cache = {} /\ age = 0
  /\ pc = [t \in Request |-> "idle"]
  /\ cursor = [t \in Request |-> 0]
  /\ listed = [t \in Request |-> {}]
  /\ retried = [t \in Request |-> FALSE]
  /\ rowsAge = [t \in Request |-> 0]
  /\ steady = [t \in Request |-> {}]
  /\ seen = [t \in Request |-> {}]
  /\ changes = 0

-----------------------------------------------------------------------------
(* list_groups *)

NeverStale == cache # {}                      \* mutant: the age is not looked at
Fresh == cache # {} /\ age <= TTL             \* _groups_from_cache

(* A listing starts with the first page. *)
StartListing(t, again) ==
  /\ Goto(t, "page")
  /\ cursor' = [cursor EXCEPT ![t] = 0]
  /\ listed' = [listed EXCEPT ![t] = {}]
  /\ retried' = [retried EXCEPT ![t] = again]
  /\ steady' = [steady EXCEPT ![t] = Of(account)]
  /\ seen' = [seen EXCEPT ![t] = Of(account)]

(* What the request held is dropped, and its rows are new or gone. *)
Forget(t, where) ==
  /\ Goto(t, where)
  /\ cursor' = [cursor EXCEPT ![t] = 0]
  /\ listed' = [listed EXCEPT ![t] = {}]
  /\ retried' = [retried EXCEPT ![t] = FALSE]
  /\ rowsAge' = [rowsAge EXCEPT ![t] = 0]
  /\ steady' = [steady EXCEPT ![t] = {}]
  /\ seen' = [seen EXCEPT ![t] = {}]

(* The request answers from the cache; refresh=true does not look at it. *)
FromCache(t) ==
  /\ pc[t] = "idle" /\ Fresh
  /\ rowsAge' = [rowsAge EXCEPT ![t] = age]
  /\ Goto(t, "stamp")
  /\ UNCHANGED <<live, account, cached, listing, watched, changes>>

Refresh(t, forced) ==
  /\ pc[t] = "idle"
  /\ forced \/ ~Fresh
  /\ StartListing(t, FALSE)
  /\ UNCHANGED <<live, account, cached, rowsAge, changes>>

(* b2_list_groups with a page of one group: the first group from the       *)
(* cursor on, and nextGroupId, the one after it.                           *)
From(c) == {g \in Of(account) : g >= c}
First(S) == CHOOSE g \in S : \A h \in S : g <= h
NextGroup(g) == From(g + 1)

Page(t) ==
  /\ pc[t] = "page"
  /\ LET page == IF From(cursor[t]) = {} THEN {} ELSE {First(From(cursor[t]))}
         rest == UNION {NextGroup(g) : g \in page}
     IN  /\ listed' = [listed EXCEPT ![t] = @ \cup page]
         /\ cursor' = [cursor EXCEPT ![t] = IF rest = {} THEN @ ELSE First(rest)]
         /\ Goto(t, IF rest = {} THEN "write" ELSE "page")
  /\ UNCHANGED <<live, account, cached, retried, rowsAge, watched, changes>>

(* The token has expired: the token cache is cleared and the whole listing *)
(* is done again, once.                                                    *)
Expired(t) ==
  /\ pc[t] = "page" /\ ~retried[t]
  /\ changes < MaxChanges /\ changes' = changes + 1
  /\ StartListing(t, TRUE)
  /\ UNCHANGED <<live, account, cached, rowsAge>>

(* _refresh_groups_cache: DELETE and INSERT in one transaction, stamped    *)
(* with the time of the writing.                                           *)
NewRowsMerged(t) == cache \cup listed[t]         \* mutant: no DELETE
NewRows(t) == listed[t]
NewAgeKept == age                             \* mutant: cached_at is not written again
NewAge == 0

Write(t) ==
  /\ pc[t] = "write"
  /\ cache' = NewRows(t)
  /\ age' = NewAge
  /\ Forget(t, "stamp")
  /\ UNCHANGED <<live, account, changes>>

(* cached_at is read again, in a transaction of its own; without rows the  *)
(* answer carries the present time.                                        *)
StampAge == IF cache = {} THEN 0 ELSE age

Stamp(t) ==
  /\ pc[t] = "stamp"
  /\ Forget(t, "idle")
  /\ UNCHANGED <<live, account, cached, changes>>

(* An error answer of Backblaze (401, 403 or 502 to the caller), a database *)
(* error, or the end of the process: what was listed is dropped.            *)
Abandon(t) ==
  /\ pc[t] # "idle"
  /\ changes < MaxChanges /\ changes' = changes + 1
  /\ Forget(t, "idle")
  /\ UNCHANGED <<live, account, cached>>

-----------------------------------------------------------------------------
(* Backblaze, the settings and the time *)

Watch(now) ==
  /\ steady' = [t \in Request |-> IF Listing(t) THEN steady[t] \cap now ELSE {}]
  /\ seen' = [t \in Request |-> IF Listing(t) THEN seen[t] \cup now ELSE {}]

(* A group is made or deleted, in the Backblaze console. *)
GroupChanges(g) ==
  /\ changes < MaxChanges /\ changes' = changes + 1
  /\ live' = IF g \in live THEN live \ {g} ELSE live \cup {g}
  /\ Watch({h \in live' : OwnerOf[h] = account})
  /\ UNCHANGED <<account, cached, pc, listing, rowsAge>>

(* update_settings clears the token cache, and leaves groups_cache alone. *)
SwitchAccount(a) ==
  /\ a # account
  /\ changes < MaxChanges /\ changes' = changes + 1
  /\ account' = a
  /\ Watch(Of(a))
  /\ UNCHANGED <<live, cached, pc, listing, rowsAge>>

Older(n) == IF n > TTL THEN n ELSE n + 1

Tick ==
  /\ age' = Older(age)
  /\ rowsAge' = [t \in Request |-> IF pc[t] = "stamp" THEN Older(rowsAge[t]) ELSE 0]
  /\ UNCHANGED <<live, account, cache, pc, listing, watched, changes>>

Step(t) == Page(t) \/ Write(t) \/ Stamp(t)

Next ==
  \/ \E t \in Request :
       \/ Step(t) \/ FromCache(t) \/ Expired(t) \/ Abandon(t)
       \/ \E forced \in BOOLEAN : Refresh(t, forced)
  \/ \E g \in Group : GroupChanges(g)
  \/ \E a \in Account : SwitchAccount(a)
  \/ Tick

(* The event loop resumes what Backblaze or the database has answered, time *)
(* passes, and somebody opens the list again when it is not fresh.          *)
Fairness ==
  /\ \A t \in Request : WF_vars(Step(t)) /\ SF_vars(Refresh(t, FALSE))
  /\ WF_vars(Tick)

Spec == Init /\ [][Next]_vars
FairSpec == Spec /\ Fairness
-----------------------------------------------------------------------------
(* Properties *)

TypeOK ==
  /\ live \subseteq Group /\ account \in Account
  /\ cache \subseteq Group /\ age \in 0..TTL + 1
  /\ pc \in [Request -> {"idle", "page", "write", "stamp"}]
  /\ cursor \in [Request -> Group \cup {0}]
  /\ listed \in [Request -> SUBSET Group]
  /\ retried \in [Request -> BOOLEAN]
  /\ rowsAge \in [Request -> 0..TTL + 1]
  /\ steady \in [Request -> SUBSET Group]
  /\ seen \in [Request -> SUBSET Group]
  /\ changes \in 0..MaxChanges

(* A refresh writes every group of the account that was there all through  *)
(* its listing, and none that was not there at some time of it, although   *)
(* the pages are read one by one while groups come and go, the account may *)
(* change between two pages, and an expired token starts it again.         *)
ListingIsExact ==
  [][\A t \in Request :
       pc[t] = "write" /\ pc'[t] = "stamp" => steady[t] \subseteq cache' /\ cache' \subseteq seen[t]]_vars

(* The cached_at of an answer, read after its rows, is never that of an    *)
(* older listing, whatever refreshes were written in between.              *)
StampNotOlder ==
  [][\A t \in Request :
       pc[t] = "stamp" /\ pc'[t] = "idle" /\ changes' = changes => StampAge <= rowsAge[t]]_vars

(* When groups and account stop changing, the cache ends up with the       *)
(* account's groups and keeps them: the rows of the former account, those  *)
(* of an older listing written last and those of a listing that mixed two  *)
(* accounts all go.                                                        *)
Converges == <>[](cache = Of(account))
=============================================================================

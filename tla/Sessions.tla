------------------------------ MODULE Sessions ------------------------------
(***************************************************************************)
(* One local account: its failed-login counter and lock, its refresh       *)
(* tokens, and the tabs of a browser that use them (api/auth.py, the       *)
(* revocations of api/users.py, api() and boot() of static/js/app.js).     *)
(*                                                                         *)
(* login and refresh read in one transaction and write in another, so      *)
(* other requests run in between.  Each write is one transaction.  A tab   *)
(* keeps the refresh token in memory and, with the other tabs, in          *)
(* localStorage; it has several calls under way, and each refreshes the    *)
(* token on a 401.                                                         *)
(***************************************************************************)
EXTENDS Integers, FiniteSets

CONSTANTS
  Login,       \* login requests that may run at once
  Call,        \* calls the tabs may have under way at once
  Tab, NoTab,  \* the browser's tabs, and the absence of one
  Threshold,   \* _LOCKOUT_THRESHOLD
  LockTime,    \* _LOCKOUT_MINUTES
  Horizon,     \* bound: the last value of now
  MaxFails,    \* bound: the last value of failed_login_attempts
  MaxErrors,   \* bound: answers that are neither a grant nor a refusal
  MaxToken     \* bound: refresh tokens issued

ASSUME SessionsAssumption ==
  /\ Login \cap Call = {} /\ NoTab \notin Tab
  /\ MaxErrors \in Nat
  /\ {Threshold, LockTime, Horizon, MaxFails, MaxToken} \subseteq Nat \ {0}

VARIABLES
  now,       \* the time
  active,    \* is_active
  attempts,  \* failed_login_attempts
  locked,    \* locked_until, 0 for NULL
  live,      \* the refresh tokens that are neither revoked nor expired
  parent,    \* per issued token: the token it replaced, 0 after a login
  stored,    \* the refresh token in localStorage, 0 when there is none
  page,      \* per tab: the token in its state, 0 when it is closed or signed out
  pc,        \* per request: where it is
  seen,      \* per login: the row it read
  at,        \* per call: the tab that made it, NoTab when that has gone
  used,      \* per call: the token it refreshes with
  got,       \* per call: the token in the answer
  fails,     \* history: wrong logins written since the last right one, 0 when raced
  raced,     \* history: a login wrote while another had read, since then
  late,      \* history: requests under way when all tokens were revoked
  slipped,   \* history: the tokens such requests issued, and their heirs
  lost,      \* history: tokens replaced by one that no tab ever got
  shared,    \* history: tokens that a tab or a call took up while another had them
  errors     \* history: how many 429 and 500 were answered to a refresh or to /me

user == <<active, attempts, locked>>
tokens == <<live, parent>>
client == <<stored, page, at, used, got>>
history == <<late, slipped, lost, shared, errors>>
lockHistory == <<fails, raced>>
vars == <<now, user, tokens, client, pc, seen, lockHistory, history>>

Token == 1..MaxToken
Issued == DOMAIN parent
NewToken == Cardinality(Issued) + 1
Replaced == {parent[k] : k \in Issued}
Unread == [attempts |-> 0, locked |-> 0, active |-> FALSE]

Init ==
  /\ now = 1 /\ active = TRUE /\ attempts = 0 /\ locked = 0
  /\ live = {} /\ parent = <<>>
  /\ stored = 0 /\ page = [t \in Tab |-> 0]
  /\ pc = [h \in Login \cup Call |-> "idle"]
  /\ seen = [l \in Login |-> Unread]
  /\ at = [c \in Call |-> NoTab] /\ used = [c \in Call |-> 0] /\ got = [c \in Call |-> 0]
  /\ fails = 0 /\ raced = FALSE
  /\ late = {} /\ slipped = {} /\ lost = {} /\ shared = {}
  /\ errors = 0

Goto(h, where) == pc' = [pc EXCEPT ![h] = where]

(* INSERT INTO refresh_tokens by request h, in place of token t (or 0). *)
Issue(h, t) ==
  /\ NewToken \in Token
  /\ parent' = [k \in Issued \cup {NewToken} |-> IF k = NewToken THEN t ELSE parent[k]]
  /\ live' = (live \ {t}) \cup {NewToken}
  /\ slipped' = IF h \in late \/ t \in slipped THEN slipped \cup {NewToken} ELSE slipped
  /\ late' = late \ {h}

-----------------------------------------------------------------------------
(* login *)

NeverLocked == FALSE                         \* mutant: no lock check
LockedRow == locked # 0 /\ now < locked

LoginRead(l) ==
  /\ pc[l] = "idle"
  /\ ~LockedRow
  /\ seen' = [seen EXCEPT ![l] = [attempts |-> attempts, locked |-> locked, active |-> active]]
  /\ Goto(l, "verify")
  /\ UNCHANGED <<now, user, tokens, client, lockHistory, history>>

Alone(l) == \A m \in Login \ {l} : pc[m] # "verify"
Finish(l) ==
  /\ Goto(l, "idle")
  /\ seen' = [seen EXCEPT ![l] = Unread]

LockExtended ==                              \* mutant: from the last lock's end
  (IF locked > now THEN locked ELSE now) + LockTime
LockEnd == now + LockTime

(* A wrong password, or an account that was not active when it was read. *)
LoginFails(l) ==
  /\ pc[l] = "verify" /\ seen[l].attempts < MaxFails
  /\ attempts' = seen[l].attempts + 1
  /\ locked' = IF attempts' >= Threshold THEN LockEnd ELSE 0
  /\ raced' = (raced \/ ~Alone(l))
  /\ fails' = IF raced' THEN 0 ELSE fails + 1
  /\ late' = late \ {l}
  /\ Finish(l)
  /\ UNCHANGED <<now, active, tokens, client, slipped, lost, shared, errors>>

LoginKeepsCount(l) ==                        \* mutant: the counter is kept
  /\ pc[l] = "verify" /\ seen[l].active
  /\ Issue(l, 0)
  /\ locked' = 0
  /\ fails' = 0
  /\ raced' = ~Alone(l)
  /\ stored' \in {stored, NewToken}
  /\ Finish(l)
  /\ UNCHANGED <<now, active, attempts, page, at, used, got, lost, shared, errors>>

(* The right password: the answer goes into localStorage (login.html) or to *)
(* another device.                                                         *)
LoginSucceeds(l) ==
  /\ pc[l] = "verify" /\ seen[l].active
  /\ Issue(l, 0)
  /\ attempts' = 0
  /\ locked' = 0
  /\ fails' = 0
  /\ raced' = ~Alone(l)
  /\ stored' \in {stored, NewToken}
  /\ Finish(l)
  /\ UNCHANGED <<now, active, page, at, used, got, lost, shared, errors>>

-----------------------------------------------------------------------------
(* The tabs.  A tab that opens takes the token from localStorage.          *)

Holders(k) == {t \in Tab : page[t] = k}
Users(k) == {c \in Call : used[c] = k}

Share(k, others) == shared' = IF others = {} THEN shared ELSE shared \cup {k}

Open(t) ==
  /\ page[t] = 0 /\ stored # 0
  /\ page' = [page EXCEPT ![t] = stored]
  /\ Share(stored, Holders(stored) \cup Users(stored))
  /\ UNCHANGED <<now, user, tokens, stored, at, used, got, pc, seen, lockHistory, late, slipped,
                 lost, errors>>

(* The tab goes, by closing, reloading or navigating to /login: answers to *)
(* its calls reach nobody, but what the server has begun it finishes, but  *)
(* for the calls that are over.                                            *)
Leave(t, over) ==
  LET kept == {c \in Call \ over : at[c] = t /\ pc[c] = "rotate"}
      gone == {c \in Call \ kept : at[c] = t}
  IN /\ page' = [page EXCEPT ![t] = 0]
     /\ pc' = [h \in DOMAIN pc |-> IF h \in kept THEN "orphan" ELSE IF h \in gone THEN "idle" ELSE pc[h]]
     /\ at' = [c \in Call |-> IF at[c] = t THEN NoTab ELSE at[c]]
     /\ used' = [c \in Call |-> IF c \in gone THEN 0 ELSE used[c]]
     /\ got' = [c \in Call |-> IF c \in gone THEN 0 ELSE got[c]]
     /\ lost' = lost \cup {used[c] : c \in {d \in gone : pc[d] = "granted"}}

Close(t) ==
  /\ page[t] # 0
  /\ Leave(t, {})
  /\ UNCHANGED <<now, user, tokens, stored, seen, lockHistory, late, slipped, shared, errors>>

(* logout() of app.js: localStorage is every tab's. *)
SignOut(c) == Leave(at[c], {c}) /\ stored' = 0

(* boot(): a tab opens, and /me is answered by an error. *)
BootFails ==
  /\ stored # 0 /\ errors < MaxErrors
  /\ stored' = 0
  /\ errors' = errors + 1
  /\ UNCHANGED <<now, user, tokens, page, at, used, got, pc, seen, lockHistory, late, slipped,
                 lost, shared>>

-----------------------------------------------------------------------------
(* A call that is answered 401 (its access token and its cookie have       *)
(* expired, or the account is not active), and the refresh it makes.       *)

(* The call is over, and its tab goes on. *)
Over(c) ==
  /\ Goto(c, "idle")
  /\ at' = [at EXCEPT ![c] = NoTab]
  /\ used' = [used EXCEPT ![c] = 0]
  /\ got' = [got EXCEPT ![c] = 0]

Unauthorized(c, t) ==
  /\ pc[c] = "idle" /\ page[t] # 0
  /\ at' = [at EXCEPT ![c] = t]
  /\ used' = [used EXCEPT ![c] = page[t]]
  /\ Share(page[t], Users(page[t]))
  /\ Goto(c, "refresh")
  /\ UNCHANGED <<now, user, tokens, stored, page, got, seen, lockHistory, late, slipped, lost,
                 errors>>

(* SELECT ... revoked=0 and the expiry check. *)
HonouredOnce(k) == k \in Issued                  \* mutant: revoked not looked at
Honoured(k) == k \in live

RefreshRead(c) ==
  /\ pc[c] = "refresh"
  /\ IF Honoured(used[c]) THEN Goto(c, "rotate") /\ UNCHANGED <<client, lost>> ELSE SignOut(c)
  /\ UNCHANGED <<now, user, tokens, seen, lockHistory, late, slipped, shared, errors>>

(* The old token is revoked and a new one inserted, in one transaction. *)
RefreshWrite(c) ==
  /\ pc[c] \in {"rotate", "orphan"}
  /\ Issue(c, used[c])
  /\ IF pc[c] = "orphan" THEN Over(c) /\ lost' = lost \cup {used[c]}
     ELSE /\ got' = [got EXCEPT ![c] = NewToken]
          /\ Goto(c, "granted")
          /\ UNCHANGED <<at, used, lost>>
  /\ UNCHANGED <<now, user, stored, page, seen, lockHistory, shared, errors>>

(* The limiter answers 429, or a read or a write fails and changes nothing: *)
(* the page takes any answer that is not ok for a refusal.                 *)
RefreshFails(c) ==
  /\ pc[c] \in {"refresh", "rotate", "orphan"} /\ errors < MaxErrors
  /\ errors' = errors + 1
  /\ IF pc[c] = "orphan" THEN Over(c) /\ UNCHANGED <<stored, page, lost>> ELSE SignOut(c)
  /\ late' = late \ {c}
  /\ UNCHANGED <<now, user, tokens, seen, lockHistory, slipped, shared>>

ForgetAnswer(c) ==                               \* mutant: the old token is kept
  /\ pc[c] = "granted"
  /\ Over(c)
  /\ UNCHANGED <<now, user, tokens, stored, page, seen, lockHistory, late, slipped, lost, shared, errors>>
(* The tab stores the new token and repeats the call, which an account     *)
(* that is not active refuses again.                                       *)
Adopt(c) ==
  /\ pc[c] = "granted"
  /\ IF active
     THEN stored' = got[c] /\ page' = [page EXCEPT ![at[c]] = got[c]] /\ Over(c) /\ lost' = lost
     ELSE SignOut(c)
  /\ UNCHANGED <<now, user, tokens, seen, lockHistory, late, slipped, shared, errors>>

(* fetch fails: the request was lost, or its answer, and then the tab keeps *)
(* a token that is no longer valid.                                        *)
LoseAnswer(c) ==
  /\ pc[c] \in {"refresh", "granted"}
  /\ lost' = IF pc[c] = "granted" THEN lost \cup {used[c]} ELSE lost
  /\ Over(c)
  /\ UNCHANGED <<now, user, tokens, stored, page, seen, lockHistory, late, slipped, shared, errors>>

-----------------------------------------------------------------------------
(* What ends tokens: logout, expiry, and the three routes that revoke all. *)

EndToken(t) ==
  /\ t \in live
  /\ live' = live \ {t}
  /\ UNCHANGED <<now, user, parent, client, pc, seen, lockHistory, late, slipped, lost, shared, errors>>

RevokeNone == UNCHANGED live /\ late' = {}          \* mutant
RevokeAll ==
  /\ live' = {}
  /\ late' = {h \in Login \cup Call : pc[h] \in {"verify", "rotate", "orphan"}}

(* delete_user, and update_user with is_active. *)
Deactivate ==
  /\ active /\ active' = FALSE
  /\ RevokeAll
  /\ UNCHANGED <<now, attempts, locked, parent, client, pc, seen, lockHistory, slipped, lost, shared, errors>>

Activate ==
  /\ ~active /\ active' = TRUE
  /\ UNCHANGED <<now, attempts, locked, tokens, client, pc, seen, lockHistory, history>>

(* complete_password_reset leaves the counter and the lock alone. *)
CompleteReset ==
  /\ Issued # {}
  /\ RevokeAll
  /\ UNCHANGED <<now, user, parent, client, pc, seen, lockHistory, slipped, lost, shared, errors>>

Tick ==
  /\ now < Horizon /\ now' = now + 1
  /\ UNCHANGED <<user, tokens, client, pc, seen, lockHistory, history>>

Next ==
  \/ \E l \in Login : LoginRead(l) \/ LoginFails(l) \/ LoginSucceeds(l)
  \/ \E t \in Tab : Open(t) \/ Close(t) \/ \E c \in Call : Unauthorized(c, t)
  \/ \E c \in Call : \/ RefreshRead(c) \/ RefreshWrite(c) \/ RefreshFails(c)
                     \/ Adopt(c) \/ LoseAnswer(c)
  \/ BootFails
  \/ \E t \in Token : EndToken(t)
  \/ Deactivate \/ Activate \/ CompleteReset \/ Tick

Spec == Init /\ [][Next]_vars
-----------------------------------------------------------------------------
TypeOK ==
  /\ now \in 1..Horizon /\ active \in BOOLEAN
  /\ attempts \in Nat /\ locked \in 0..Horizon + LockTime
  /\ Issued = 1..Cardinality(Issued) /\ Issued \subseteq Token
  /\ live \subseteq Issued
  /\ \A k \in Issued : parent[k] \in 0..k - 1
  /\ stored \in Issued \cup {0} /\ page \in [Tab -> Issued \cup {0}]
  /\ at \in [Call -> Tab \cup {NoTab}] /\ errors \in 0..MaxErrors
  /\ pc \in [Login \cup Call -> {"idle", "verify", "refresh", "rotate", "orphan", "granted"}]

(* A lock that has not run out is lifted only by a login that had read the *)
(* account before that lock was set.                                       *)
LockLiftedByStale ==
  [][now < locked /\ locked' < locked =>
       \E l \in Login : pc[l] = "verify" /\ pc'[l] = "idle" /\ seen[l].locked # locked]_vars

(* Unless logins overlapped since the last success, the counter is the     *)
(* number of failures since then, and from the Threshold-th on the account *)
(* has a lock.                                                             *)
CounterExact ==
  ~raced => attempts = fails /\ (locked # 0 <=> fails >= Threshold)

(* "Rotate: revoke old token, issue new one": only calls that looked the   *)
(* token up before the first of them rotated it are given another.         *)
RotatedIsRefused ==
  [][\A c \in Call : pc[c] = "refresh" /\ pc'[c] = "rotate" =>
       \A k \in Issued : parent[k] # used[c]]_vars

(* A deactivated account has no valid token, but those of requests that    *)
(* were under way when it was deactivated, and what these were traded for. *)
DeactivatedHasNoTokens == ~active => live \subseteq slipped

(* The browser loses its session only if the account is not active, the    *)
(* server answered an error, or a refresh was refused whose token was      *)
(* ended, whose answer was lost, or which two calls or two tabs shared.     *)
SignOutHasCause ==
  [][stored # 0 /\ stored' = 0 =>
       \/ ~active
       \/ errors' > errors
       \/ \E c \in Call : /\ pc[c] = "refresh" /\ pc'[c] = "idle"
                          /\ used[c] \in (Issued \ (live \cup Replaced)) \cup lost \cup shared]_vars
=============================================================================

---------------------------- MODULE TokenCache -----------------------------
(***************************************************************************)
(* The authorization of the Backblaze client (services/backblaze_client.py) *)
(* and the settings that feed it (api/settings.py).  One row of             *)
(* api_token_cache is shared by every call of every worker; looking it up,  *)
(* reading the credentials, authorizing, storing the token and reading it   *)
(* back are separate steps, with other calls and update_settings between.   *)
(***************************************************************************)
EXTENDS Integers, FiniteSets

CONSTANTS
  Retrying,    \* calls made through a ..._with_retry method
  Plain,       \* calls without one: download_file_by_name, eject_group_member
  Testing,     \* test_connection requests
  Admin,       \* update_settings requests
  AdminStops,  \* whether an update may stop half-way
  RowsExpire,  \* whether behaviours last the 23 hours of a cached row
  PartnerAccount,  \* the partner accounts, each with its key
  FirstAccount,
  NoToken,
  MaxToken,    \* how many names there are for tokens
  MaxUpdate    \* bound: updates of the settings

Caller == Retrying \cup Plain \cup Testing

ASSUME TokenAssumption ==
  /\ Retrying \cap Plain = {} /\ (Retrying \cup Plain) \cap Testing = {}
  /\ FirstAccount \in PartnerAccount
  /\ AdminStops \in BOOLEAN /\ RowsExpire \in BOOLEAN
  /\ MaxToken \in Nat /\ MaxUpdate \in Nat
  /\ NoToken \notin [id : Nat, account : PartnerAccount]

VARIABLES
  creds,     \* partner_credentials: the account they are of
  bucketOf,  \* report_bucket: the account it is of
  token,     \* the unexpired row of api_token_cache, or NoToken
  valid,     \* the tokens Backblaze accepts
  updates,   \* how many updates of the settings have begun
  callPc,    \* per caller: where it is in _get_auth or its request
  attempt,   \* per caller: 1, or 2 in the retry
  readAs,    \* per caller: the account whose credentials it read
  auth,      \* per caller: the token it holds
  rejected,  \* per caller: the token of its first attempt that was refused, 0 if none
  adPc, adNew   \* per admin: where it is in update_settings, and for which account

tokenVars ==
  <<creds, bucketOf, token, valid, updates, callPc, attempt, readAs, auth, rejected,
    adPc, adNew>>
settings == <<creds, bucketOf, updates, adPc, adNew>>

Token == [id : 1..MaxToken, account : PartnerAccount]

TokenInit ==
  /\ creds = FirstAccount /\ bucketOf = FirstAccount
  /\ token = NoToken
  /\ valid = {} /\ updates = 0
  /\ callPc = [c \in Caller |-> "idle"]
  /\ attempt = [c \in Caller |-> 1]
  /\ readAs = [c \in Caller |-> FirstAccount]
  /\ auth = [c \in Caller |-> NoToken]
  /\ rejected = [c \in Caller |-> 0]
  /\ adPc = [a \in Admin |-> "idle"]
  /\ adNew = [a \in Admin |-> FirstAccount]

CallGoto(c, where) == callPc' = [callPc EXCEPT ![c] = where]
locals == <<attempt, readAs, auth, rejected>>

(* The coroutine ends, and its local variables with it. *)
End(c) ==
  /\ CallGoto(c, "idle")
  /\ attempt' = [attempt EXCEPT ![c] = 1]
  /\ readAs' = [readAs EXCEPT ![c] = FirstAccount]
  /\ auth' = [auth EXCEPT ![c] = NoToken]
  /\ rejected' = [rejected EXCEPT ![c] = 0]

-----------------------------------------------------------------------------
(* A call *)

Call(c) ==
  /\ callPc[c] = "idle"
  /\ CallGoto(c, IF c \in Testing THEN "creds" ELSE "lookup")
  /\ UNCHANGED <<settings, valid, token, locals>>

(* _get_cached_token at the head of _get_auth *)
Lookup(c) ==
  /\ callPc[c] = "lookup"
  /\ auth' = [auth EXCEPT ![c] = token]
  /\ CallGoto(c, IF token # NoToken THEN "request" ELSE "creds")
  /\ UNCHANGED <<settings, valid, token, attempt, readAs, rejected>>

ReadCredsOnce(c) ==                         \* mutant: the key read when the worker started
  /\ callPc[c] = "creds"
  /\ readAs' = [readAs EXCEPT ![c] = FirstAccount]
  /\ CallGoto(c, "authorize")
  /\ UNCHANGED <<settings, valid, token, attempt, auth, rejected>>

ReadCreds(c) ==
  /\ callPc[c] = "creds"
  /\ readAs' = [readAs EXCEPT ![c] = creds]
  /\ CallGoto(c, "authorize")
  /\ UNCHANGED <<settings, valid, token, attempt, auth, rejected>>

(* Backblaze never issues a token twice.  A name is used again only when    *)
(* the token that bore it is in nobody's hands any more, so that tokens go *)
(* on being issued for ever; one row, and at most two names in the hands   *)
(* of a call, leave a free name when there are enough of them.             *)
Unheld ==
  {i \in 1..MaxToken :
     /\ token # NoToken => token.id # i
     /\ \A d \in Caller : rejected[d] # i /\ (auth[d] # NoToken => auth[d].id # i)}

(* authorize_account: Backblaze issues a new token for the account. *)
Authorize(c) ==
  /\ callPc[c] = "authorize"
  /\ \E i \in Unheld :
       /\ \A j \in Unheld : i <= j
       /\ valid' = (valid \ Unheld) \cup {i}
       /\ auth' = [auth EXCEPT ![c] = [id |-> i, account |-> readAs[c]]]
  /\ CallGoto(c, "store")
  /\ UNCHANGED <<settings, token, attempt, readAs, rejected>>

(* _cache_token *)
Store(c) ==
  /\ callPc[c] = "store"
  /\ token' = auth[c]
  /\ IF c \in Testing THEN End(c) ELSE CallGoto(c, "reread") /\ UNCHANGED locals
  /\ UNCHANGED <<settings, valid>>

(* _get_auth returns what it reads back, whatever that is. *)
Reread(c) ==
  /\ callPc[c] = "reread"
  /\ auth' = [auth EXCEPT ![c] = token]
  /\ CallGoto(c, "request")
  /\ UNCHANGED <<settings, valid, token, attempt, readAs, rejected>>

(* The request is accepted; a listing may go on to its next page, which    *)
(* begins with _get_auth again.                                            *)
Accepted(c) ==
  /\ callPc[c] = "request"
  /\ auth[c] # NoToken /\ auth[c].id \in valid
  /\ \/ End(c)
     \/ c \in Retrying /\ CallGoto(c, "lookup") /\ UNCHANGED locals
  /\ UNCHANGED <<settings, valid, token>>

(* expired_auth_token: a ..._with_retry method catches it once. *)
Rejected(c) ==
  /\ callPc[c] = "request"
  /\ auth[c] # NoToken /\ auth[c].id \notin valid
  /\ IF c \in Retrying /\ attempt[c] = 1
     THEN /\ rejected' = [rejected EXCEPT ![c] = auth[c].id]
          /\ CallGoto(c, "invalidate")
          /\ UNCHANGED <<attempt, readAs, auth>>
     ELSE End(c)
  /\ UNCHANGED <<settings, valid, token>>

InvalidateNothing(c) ==                     \* mutant: retries with the same cache
  /\ callPc[c] = "invalidate"
  /\ attempt' = [attempt EXCEPT ![c] = 2]
  /\ CallGoto(c, "lookup")
  /\ UNCHANGED <<settings, valid, token, readAs, auth, rejected>>

Invalidate(c) ==
  /\ callPc[c] = "invalidate"
  /\ token' = NoToken
  /\ attempt' = [attempt EXCEPT ![c] = 2]
  /\ CallGoto(c, "lookup")
  /\ UNCHANGED <<settings, valid, readAs, auth, rejected>>

(* Any other way out: bad credentials, a status that is not retried, no    *)
(* token (subscripting None), a lost connection, the end of the worker.    *)
Fail(c) ==
  /\ callPc[c] # "idle"
  /\ End(c)
  /\ UNCHANGED <<settings, valid, token>>

-----------------------------------------------------------------------------
(* update_settings: two set_config, then invalidate_token_cache *)

AdGoto(a, where) == adPc' = [adPc EXCEPT ![a] = where]

SaveCreds(a, new) ==
  /\ adPc[a] = "idle" /\ updates < MaxUpdate
  /\ updates' = updates + 1
  /\ creds' = new
  /\ adNew' = [adNew EXCEPT ![a] = new]
  /\ AdGoto(a, "bucket")
  /\ UNCHANGED <<bucketOf, token, valid, callPc, locals>>

SaveBucket(a) ==
  /\ adPc[a] = "bucket"
  /\ bucketOf' = adNew[a]
  /\ AdGoto(a, "invalidate")
  /\ UNCHANGED <<creds, updates, adNew, token, valid, callPc, locals>>

SettingsInvalidate(a) ==
  /\ adPc[a] = "invalidate"
  /\ token' = NoToken
  /\ AdGoto(a, "idle")
  /\ UNCHANGED <<creds, bucketOf, updates, adNew, valid, callPc, locals>>

StopUpdate(a) ==
  /\ AdminStops /\ adPc[a] # "idle"
  /\ AdGoto(a, "idle")
  /\ UNCHANGED <<creds, bucketOf, updates, adNew, token, valid, callPc, locals>>

-----------------------------------------------------------------------------
(* The environment *)

(* A token ends at Backblaze: its 24 hours are over, or its key is gone. *)
TokenEnds(i) ==
  /\ i \in valid \ Unheld
  /\ valid' = valid \ {i}
  /\ UNCHANGED <<settings, token, callPc, locals>>

(* expires_at passes, 23 hours after the row was stored: _get_cached_token *)
(* takes the row for absent.                                               *)
RowExpires ==
  /\ RowsExpire /\ token # NoToken
  /\ token' = NoToken
  /\ UNCHANGED <<settings, valid, callPc, locals>>

CallStep(c) ==
  \/ Lookup(c) \/ ReadCreds(c) \/ Authorize(c) \/ Store(c) \/ Reread(c)
  \/ Accepted(c) \/ Rejected(c) \/ Invalidate(c) \/ Fail(c)

UpdateStep(a) == SaveBucket(a) \/ SettingsInvalidate(a)

TokenNext ==
  \/ \E c \in Caller : Call(c) \/ CallStep(c)
  \/ \E a \in Admin : UpdateStep(a) \/ StopUpdate(a) \/ \E new \in PartnerAccount : SaveCreds(a, new)
  \/ \E i \in valid : TokenEnds(i)
  \/ RowExpires

TokenSpec == TokenInit /\ [][TokenNext]_tokenVars

(* A coroutine that can go on does, and time passes. *)
TokenFairSpec ==
  /\ TokenSpec
  /\ \A c \in Caller : WF_tokenVars(CallStep(c))
  /\ \A a \in Admin : WF_tokenVars(UpdateStep(a))
  /\ WF_tokenVars(RowExpires)

-----------------------------------------------------------------------------
(* Properties *)

TokenTypeOK ==
  /\ creds \in PartnerAccount /\ bucketOf \in PartnerAccount
  /\ token \in Token \cup {NoToken}
  /\ valid \subseteq 1..MaxToken /\ updates \in 0..MaxUpdate
  /\ callPc \in [Caller -> {"idle", "lookup", "creds", "authorize", "store", "reread",
                            "request", "invalidate"}]
  /\ attempt \in [Caller -> {1, 2}]
  /\ readAs \in [Caller -> PartnerAccount]
  /\ auth \in [Caller -> Token \cup {NoToken}]
  /\ rejected \in [Caller -> 0..MaxToken]
  /\ adPc \in [Admin -> {"idle", "bucket", "invalidate"}]
  /\ adNew \in [Admin -> PartnerAccount]

(* The retry never sends the token that was just refused: between the      *)
(* invalidation and the second lookup no other call, test or update can    *)
(* bring that token back into the cache.                                   *)
RetryUsesNewToken ==
  \A c \in Caller :
    callPc[c] = "request" /\ attempt[c] = 2 /\ auth[c] # NoToken => auth[c].id # rejected[c]

(* Once the settings have stopped changing, the old account's token is     *)
(* out of the cache for good: late calls may bring it back, but not past   *)
(* the 23 hours of a row.                                                  *)
NewAccountSettles ==
  <>[](token # NoToken => token.account = creds)
=============================================================================

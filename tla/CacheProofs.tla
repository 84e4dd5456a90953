---------------------------- MODULE CacheProofs ----------------------------
(***************************************************************************)
(* What is kept of Backblaze's answers.  First the token: why the retry    *)
(* after expired_auth_token makes progress, for any number of calls, tests *)
(* and updates: a token enters the cache once, by the call that authorized *)
(* it, and before any request can have sent it.  Then the groups: what a   *)
(* refresh writes and how old it says it is, for any number of groups,     *)
(* accounts and requests, any expiry and any changes under way.            *)
(***************************************************************************)
EXTENDS TokenCache, GroupsCache, WellFoundedInduction, TLAPS

(* t is not the token numbered i. *)
Differs(t, i) == t # NoToken => t.id # i

(* A token about to be stored is known to nobody else yet. *)
StoreIsNew ==
  \A c \in Caller : callPc[c] = "store" =>
    /\ auth[c] # NoToken
    /\ Differs(token, auth[c].id)
    /\ \A d \in Caller \ {c} : Differs(auth[d], auth[c].id)
    /\ \A d \in Caller : rejected[d] # auth[c].id

(* In its second attempt a call finds its refused token neither in the     *)
(* cache nor in its hands.                                                 *)
RefusedIsGone ==
  \A c \in Caller : attempt[c] = 2 =>
    /\ Differs(token, rejected[c])
    /\ callPc[c] = "request" => Differs(auth[c], rejected[c])

TokenInv == TokenTypeOK /\ StoreIsNew /\ RefusedIsGone

-----------------------------------------------------------------------------
(* A token is not the absent one. *)
LEMMA TokenIsSome == NoToken \notin Token
<1>1. Token \subseteq [id : Nat, account : PartnerAccount]
  BY TokenAssumption DEF Token
<1>2. QED BY <1>1, TokenAssumption

LEMMA TokenInitOK == TokenInit => TokenInv
<1> SUFFICES ASSUME TokenInit PROVE TokenInv
  OBVIOUS
<1> USE TokenAssumption DEF TokenInit
<1>1. TokenTypeOK
  BY DEF TokenTypeOK
<1>2. StoreIsNew /\ RefusedIsGone
  BY DEF StoreIsNew, RefusedIsGone
<1>3. QED BY <1>1, <1>2 DEF TokenInv

(* The state space is closed under every step. *)
LEMMA TokenTypeStep == TokenTypeOK /\ [TokenNext]_tokenVars => TokenTypeOK'
<1> SUFFICES ASSUME TokenTypeOK, [TokenNext]_tokenVars PROVE TokenTypeOK'
  OBVIOUS
<1> USE TokenAssumption, TokenIsSome DEF TokenTypeOK, Token, CallGoto, locals, settings
<1>1. ASSUME NEW c \in Caller, Call(c) PROVE TokenTypeOK'
  BY <1>1 DEF Call
<1>2. ASSUME NEW c \in Caller, Lookup(c) PROVE TokenTypeOK'
  BY <1>2 DEF Lookup
<1>3. ASSUME NEW c \in Caller, ReadCreds(c) PROVE TokenTypeOK'
  BY <1>3 DEF ReadCreds
<1>4. ASSUME NEW c \in Caller, Authorize(c) PROVE TokenTypeOK'
  <2>1. PICK i \in 1..MaxToken :
          /\ valid' = (valid \ Unheld) \cup {i}
          /\ auth' = [auth EXCEPT ![c] = [id |-> i, account |-> readAs[c]]]
    BY <1>4 DEF Authorize, Unheld
  <2>2. valid' \subseteq 1..MaxToken
    BY <2>1
  <2>3. auth' \in [Caller -> Token \cup {NoToken}]
    BY <2>1
  <2>4. QED BY <1>4, <2>2, <2>3 DEF Authorize
<1>5. ASSUME NEW c \in Caller, Store(c) PROVE TokenTypeOK'
  BY <1>5 DEF Store, End
<1>6. ASSUME NEW c \in Caller, Reread(c) PROVE TokenTypeOK'
  BY <1>6 DEF Reread
<1>7. ASSUME NEW c \in Caller, Accepted(c) PROVE TokenTypeOK'
  BY <1>7 DEF Accepted, End
<1>8. ASSUME NEW c \in Caller, Rejected(c) PROVE TokenTypeOK'
  BY <1>8 DEF Rejected, End
<1>9. ASSUME NEW c \in Caller, Invalidate(c) PROVE TokenTypeOK'
  BY <1>9 DEF Invalidate
<1>10. ASSUME NEW c \in Caller, Fail(c) PROVE TokenTypeOK'
  BY <1>10 DEF Fail, End
<1>11. ASSUME NEW a \in Admin, UpdateStep(a) \/ StopUpdate(a) PROVE TokenTypeOK'
  BY <1>11 DEF UpdateStep, SaveBucket, SettingsInvalidate, StopUpdate, AdGoto
<1>12. ASSUME NEW a \in Admin, NEW new \in PartnerAccount, SaveCreds(a, new) PROVE TokenTypeOK'
  BY <1>12 DEF SaveCreds, AdGoto
<1>13. ASSUME NEW i \in valid, TokenEnds(i) PROVE TokenTypeOK'
  BY <1>13 DEF TokenEnds
<1>14. CASE RowExpires
  BY <1>14 DEF RowExpires
<1>15. CASE UNCHANGED tokenVars
  BY <1>15 DEF tokenVars
<1>16. QED
  BY <1>1, <1>2, <1>3, <1>4, <1>5, <1>6, <1>7, <1>8, <1>9, <1>10, <1>11, <1>12, <1>13, <1>14, <1>15
     DEF TokenNext, CallStep

(* The name of a new token is in nobody's hands. *)
LEMMA StoreStep == TokenInv /\ [TokenNext]_tokenVars => StoreIsNew'
<1> SUFFICES ASSUME TokenInv, [TokenNext]_tokenVars PROVE StoreIsNew'
  OBVIOUS
<1> USE TokenAssumption, TokenIsSome DEF TokenTypeOK, Token, CallGoto, locals, settings,
        TokenInv, StoreIsNew, Differs
<1>1. ASSUME NEW c \in Caller, Call(c) PROVE StoreIsNew'
  BY <1>1 DEF Call
<1>2. ASSUME NEW c \in Caller, Lookup(c) PROVE StoreIsNew'
  BY <1>2 DEF Lookup
<1>3. ASSUME NEW c \in Caller, ReadCreds(c) PROVE StoreIsNew'
  BY <1>3 DEF ReadCreds
<1>4. ASSUME NEW c \in Caller, Authorize(c) PROVE StoreIsNew'
  BY <1>4 DEF Authorize, Unheld
<1>5. ASSUME NEW c \in Caller, Store(c) PROVE StoreIsNew'
  BY <1>5 DEF Store, End
<1>6. ASSUME NEW c \in Caller, Reread(c) PROVE StoreIsNew'
  BY <1>6 DEF Reread
<1>7. ASSUME NEW c \in Caller, Accepted(c) PROVE StoreIsNew'
  BY <1>7 DEF Accepted, End
<1>8. ASSUME NEW c \in Caller, Rejected(c) PROVE StoreIsNew'
  BY <1>8 DEF Rejected, End
<1>9. ASSUME NEW c \in Caller, Invalidate(c) PROVE StoreIsNew'
  BY <1>9 DEF Invalidate
<1>10. ASSUME NEW c \in Caller, Fail(c) PROVE StoreIsNew'
  BY <1>10 DEF Fail, End
<1>11. ASSUME NEW a \in Admin, UpdateStep(a) \/ StopUpdate(a) PROVE StoreIsNew'
  BY <1>11 DEF UpdateStep, SaveBucket, SettingsInvalidate, StopUpdate, AdGoto
<1>12. ASSUME NEW a \in Admin, NEW new \in PartnerAccount, SaveCreds(a, new) PROVE StoreIsNew'
  BY <1>12 DEF SaveCreds, AdGoto
<1>13. ASSUME NEW i \in valid, TokenEnds(i) PROVE StoreIsNew'
  BY <1>13 DEF TokenEnds
<1>14. CASE RowExpires
  BY <1>14 DEF RowExpires
<1>15. CASE UNCHANGED tokenVars
  BY <1>15 DEF tokenVars
<1>16. QED
  BY <1>1, <1>2, <1>3, <1>4, <1>5, <1>6, <1>7, <1>8, <1>9, <1>10, <1>11, <1>12, <1>13, <1>14, <1>15
     DEF TokenNext, CallStep

(* Nobody is left to store the refused token again. *)
LEMMA RefusedStep == TokenInv /\ [TokenNext]_tokenVars => RefusedIsGone'
<1> SUFFICES ASSUME TokenInv, [TokenNext]_tokenVars PROVE RefusedIsGone'
  OBVIOUS
<1> USE TokenAssumption, TokenIsSome DEF TokenTypeOK, Token, CallGoto, locals, settings,
        TokenInv, StoreIsNew, RefusedIsGone, Differs
<1>1. ASSUME NEW c \in Caller, Call(c) PROVE RefusedIsGone'
  BY <1>1 DEF Call
<1>2. ASSUME NEW c \in Caller, Lookup(c) PROVE RefusedIsGone'
  BY <1>2 DEF Lookup
<1>3. ASSUME NEW c \in Caller, ReadCreds(c) PROVE RefusedIsGone'
  BY <1>3 DEF ReadCreds
<1>4. ASSUME NEW c \in Caller, Authorize(c) PROVE RefusedIsGone'
  BY <1>4 DEF Authorize, Unheld
<1>5. ASSUME NEW c \in Caller, Store(c) PROVE RefusedIsGone'
  BY <1>5 DEF Store, End
<1>6. ASSUME NEW c \in Caller, Reread(c) PROVE RefusedIsGone'
  BY <1>6 DEF Reread
<1>7. ASSUME NEW c \in Caller, Accepted(c) PROVE RefusedIsGone'
  BY <1>7 DEF Accepted, End
<1>8. ASSUME NEW c \in Caller, Rejected(c) PROVE RefusedIsGone'
  BY <1>8 DEF Rejected, End
<1>9. ASSUME NEW c \in Caller, Invalidate(c) PROVE RefusedIsGone'
  BY <1>9 DEF Invalidate
<1>10. ASSUME NEW c \in Caller, Fail(c) PROVE RefusedIsGone'
  BY <1>10 DEF Fail, End
<1>11. ASSUME NEW a \in Admin, UpdateStep(a) \/ StopUpdate(a) PROVE RefusedIsGone'
  BY <1>11 DEF UpdateStep, SaveBucket, SettingsInvalidate, StopUpdate, AdGoto
<1>12. ASSUME NEW a \in Admin, NEW new \in PartnerAccount, SaveCreds(a, new) PROVE RefusedIsGone'
  BY <1>12 DEF SaveCreds, AdGoto
<1>13. ASSUME NEW i \in valid, TokenEnds(i) PROVE RefusedIsGone'
  BY <1>13 DEF TokenEnds
<1>14. CASE RowExpires
  BY <1>14 DEF RowExpires
<1>15. CASE UNCHANGED tokenVars
  BY <1>15 DEF tokenVars
<1>16. QED
  BY <1>1, <1>2, <1>3, <1>4, <1>5, <1>6, <1>7, <1>8, <1>9, <1>10, <1>11, <1>12, <1>13, <1>14, <1>15
     DEF TokenNext, CallStep

-----------------------------------------------------------------------------
LEMMA TokenInvariance == TokenSpec => []TokenInv
<1>1. TokenInit => TokenInv
  BY TokenInitOK
<1>2. TokenInv /\ [TokenNext]_tokenVars => TokenInv'
  BY TokenTypeStep, StoreStep, RefusedStep DEF TokenInv
<1>3. QED BY <1>1, <1>2, PTL DEF TokenSpec

(* The variables of the client and of the settings stay in their types. *)
THEOREM TokenTypeCorrect == TokenSpec => []TokenTypeOK
BY TokenInvariance, PTL DEF TokenInv

(* Whatever other calls, connection tests and settings updates do, a       *)
(* ..._with_retry method never sends the token that was just refused.      *)
THEOREM RetryIsFresh == TokenSpec => []RetryUsesNewToken
<1>1. TokenInv => RetryUsesNewToken
  BY DEF TokenInv, RefusedIsGone, RetryUsesNewToken, Differs
<1>2. QED BY <1>1, TokenInvariance, PTL

-----------------------------------------------------------------------------
(* The safety half of NewAccountSettles.  No former account is left: the   *)
(* row is not of one, and no call is about to store a token of one.        *)
Settled ==
  /\ token # NoToken => token.account = creds
  /\ \A c \in Caller :
       /\ callPc[c] = "authorize" => readAs[c] = creds
       /\ callPc[c] = "store" => auth[c].account = creds

LEMMA SettledStep ==
  TokenTypeOK /\ Settled /\ [TokenNext]_tokenVars /\ creds' = creds => Settled'
<1> SUFFICES ASSUME TokenTypeOK, Settled, [TokenNext]_tokenVars, creds' = creds PROVE Settled'
  OBVIOUS
<1> USE TokenAssumption, TokenIsSome DEF TokenTypeOK, Token, CallGoto, locals, Settled
<1>1. ASSUME NEW c \in Caller, Authorize(c) PROVE Settled'
  BY <1>1 DEF Authorize
<1>2. ASSUME NEW c \in Caller, Store(c) PROVE Settled'
  BY <1>2 DEF Store, End
<1>3. ASSUME NEW c \in Caller, Call(c) \/ Lookup(c) \/ ReadCreds(c) \/ Reread(c) PROVE Settled'
  BY <1>3 DEF Call, Lookup, ReadCreds, Reread
<1>4. ASSUME NEW c \in Caller, Accepted(c) \/ Rejected(c) \/ Invalidate(c) \/ Fail(c) PROVE Settled'
  BY <1>4 DEF Accepted, Rejected, Invalidate, Fail, End
<1>5. ASSUME token' = token \/ token' = NoToken, UNCHANGED <<callPc, locals>> PROVE Settled'
  BY <1>5
<1>6. ASSUME NEW a \in Admin,
             UpdateStep(a) \/ StopUpdate(a) \/ \E new \in PartnerAccount : SaveCreds(a, new)
      PROVE  Settled'
  BY <1>5, <1>6 DEF UpdateStep, SaveBucket, SettingsInvalidate, StopUpdate, SaveCreds
<1>7. CASE RowExpires \/ (\E i \in valid : TokenEnds(i)) \/ UNCHANGED tokenVars
  BY <1>5, <1>7 DEF RowExpires, TokenEnds, tokenVars
<1>8. QED
  BY <1>1, <1>2, <1>3, <1>4, <1>6, <1>7 DEF TokenNext, CallStep

(* Once the calls that had read the former credentials are over and the    *)
(* row is gone, nothing but another update_settings brings a token of      *)
(* another account into api_token_cache, however updates stop half-way.    *)
THEOREM AccountStaysSettled == TokenSpec => [][Settled /\ creds' = creds => Settled']_tokenVars
BY SettledStep, TokenTypeCorrect, PTL DEF TokenSpec

-----------------------------------------------------------------------------
(* GroupsCache *)

(* What a request watches is what its account has now, before or since. *)
WatchOK ==
  \A t \in Request : Listing(t) =>
    /\ steady[t] \subseteq Of(account) /\ Of(account) \subseteq seen[t]
    /\ listed[t] \subseteq seen[t]

(* The pages read so far hold every lasting group before the cursor. *)
PagesOK ==
  \A t \in Request :
    /\ pc[t] = "page" => \A g \in steady[t] : g < cursor[t] => g \in listed[t]
    /\ pc[t] = "write" => steady[t] \subseteq listed[t]

IInv == TypeOK /\ WatchOK /\ PagesOK

-----------------------------------------------------------------------------
(* A set of group ids that is not empty has a first one. *)
LEMMA FirstOf ==
  ASSUME NEW S \in SUBSET Group, S # {}
  PROVE  First(S) \in S /\ \A h \in S : First(S) <= h
<1>1. S \subseteq Nat
  BY GroupsAssumption
<1>2. PICK g \in S : \A h \in S : <<h, g>> \notin OpToRel(<, Nat)
  BY <1>1, NatLessThanWellFounded, WFMin, Zenon
<1>3. ASSUME NEW h \in S PROVE g <= h
  <2>1. ~(h < g)
    BY <1>1, <1>2 DEF OpToRel
  <2>2. QED BY <1>1, <2>1
<1>4. QED BY <1>2, <1>3, Zenon DEF First

LEMMA OfType == TypeOK => Of(account) \subseteq Group
BY DEF TypeOK, Of

(* What one page adds, and where it leaves the cursor. *)
LEMMA PageStep ==
  ASSUME TypeOK, NEW t \in Request, Page(t)
  PROVE  \/ /\ From(cursor[t]) = {}
            /\ listed'[t] = listed[t] /\ cursor'[t] = cursor[t] /\ pc'[t] = "write"
         \/ \E g \in From(cursor[t]) :
              /\ \A h \in From(cursor[t]) : g <= h
              /\ listed'[t] = listed[t] \cup {g}
              /\ \/ From(g + 1) = {} /\ cursor'[t] = cursor[t] /\ pc'[t] = "write"
                 \/ /\ cursor'[t] \in From(g + 1) /\ \A h \in From(g + 1) : cursor'[t] <= h
                    /\ pc'[t] = "page"
<1> DEFINE page == IF From(cursor[t]) = {} THEN {} ELSE {First(From(cursor[t]))}
           rest == UNION {NextGroup(g) : g \in page}
<1>1. /\ listed'[t] = listed[t] \cup page
      /\ cursor'[t] = IF rest = {} THEN cursor[t] ELSE First(rest)
      /\ pc'[t] = IF rest = {} THEN "write" ELSE "page"
  BY DEF Page, Goto, TypeOK
<1>2. \A c : From(c) \in SUBSET Group
  BY OfType DEF From
<1>3. CASE From(cursor[t]) = {}
  <2>1. page = {} /\ rest = {}
    BY <1>3
  <2>2. QED BY <1>1, <1>3, <2>1
<1>4. CASE From(cursor[t]) # {}
  <2> DEFINE g == First(From(cursor[t]))
  <2>1. g \in From(cursor[t]) /\ \A h \in From(cursor[t]) : g <= h
    BY <1>2, <1>4, FirstOf
  <2>2. page = {g} /\ rest = From(g + 1)
    BY <1>4 DEF NextGroup
  <2> HIDE DEF page, rest, g
  <2>3. From(g + 1) # {} =>
          First(From(g + 1)) \in From(g + 1) /\ \A h \in From(g + 1) : First(From(g + 1)) <= h
    BY <1>2, FirstOf
  <2>4. QED BY <1>1, <2>1, <2>2, <2>3
<1>5. QED BY <1>3, <1>4

(* A request that starts a listing, or drops one, keeps the invariant. *)
LEMMA ListingFields ==
  ASSUME TypeOK, NEW t \in Request
  PROVE  /\ \A again \in BOOLEAN : StartListing(t, again) =>
              /\ pc' = [pc EXCEPT ![t] = "page"]
              /\ cursor'[t] = 0 /\ listed'[t] = {} /\ steady'[t] = Of(account) /\ seen'[t] = Of(account)
         /\ \A where \in {"idle", "stamp"} : Forget(t, where) =>
              pc' = [pc EXCEPT ![t] = where]
         /\ (\E again \in BOOLEAN : StartListing(t, again)) \/ (\E where \in {"idle", "stamp"} : Forget(t, where)) =>
              \A u \in Request \ {t} : UNCHANGED <<cursor[u], listed[u], steady[u], seen[u], pc[u]>>
BY DEF StartListing, Forget, Goto, TypeOK

-----------------------------------------------------------------------------
LEMMA TypeStep == TypeOK /\ [Next]_vars => TypeOK'
<1> SUFFICES ASSUME TypeOK, [Next]_vars PROVE TypeOK'
  OBVIOUS
<1> USE GroupsAssumption, OfType DEF TypeOK, Goto, cached, listing, watched
<1>1. ASSUME NEW t \in Request, Page(t) PROVE TypeOK'
  <2>1. \A c : From(c) \in SUBSET Group
    BY DEF From
  <2>2. listed' \in [Request -> SUBSET Group]
    <3>1. From(cursor[t]) # {} => First(From(cursor[t])) \in Group
      BY <2>1, FirstOf
    <3>2. QED BY <1>1, <3>1 DEF Page
  <2>3. cursor' \in [Request -> Group \cup {0}]
    <3>1. cursor'[t] \in Group \cup {0}
      BY <1>1, <2>1, PageStep
    <3>2. \E c : cursor' = [cursor EXCEPT ![t] = c]
      BY <1>1 DEF Page
    <3>3. QED BY <3>1, <3>2
  <2>4. pc' \in [Request -> {"idle", "page", "write", "stamp"}]
    BY <1>1 DEF Page
  <2>5. UNCHANGED <<live, account, cache, age, retried, rowsAge, steady, seen, changes>>
    BY <1>1 DEF Page
  <2>6. QED BY <2>2, <2>3, <2>4, <2>5
<1>2. ASSUME NEW t \in Request, Write(t) PROVE TypeOK'
  BY <1>2 DEF Write, Forget, NewRows, NewAge
<1>3. ASSUME NEW t \in Request, Stamp(t) PROVE TypeOK'
  BY <1>3 DEF Stamp, Forget
<1>4. ASSUME NEW t \in Request, FromCache(t) PROVE TypeOK'
  BY <1>4 DEF FromCache
<1>5. ASSUME NEW t \in Request, Expired(t) PROVE TypeOK'
  BY <1>5 DEF Expired, StartListing
<1>6. ASSUME NEW t \in Request, Abandon(t) PROVE TypeOK'
  BY <1>6 DEF Abandon, Forget
<1>7. ASSUME NEW t \in Request, NEW forced \in BOOLEAN, Refresh(t, forced) PROVE TypeOK'
  BY <1>7 DEF Refresh, StartListing
<1>8. ASSUME NEW now \in SUBSET Group, Watch(now)
      PROVE  steady' \in [Request -> SUBSET Group] /\ seen' \in [Request -> SUBSET Group]
  BY <1>8 DEF Watch
<1>9. ASSUME NEW g \in Group, GroupChanges(g) PROVE TypeOK'
  <2>1. live' \subseteq Group
    BY <1>9 DEF GroupChanges
  <2>2. {h \in live' : OwnerOf[h] = account} \in SUBSET Group
    BY <2>1
  <2>3. QED BY <1>8, <1>9, <2>1, <2>2 DEF GroupChanges
<1>10. ASSUME NEW a \in Account, SwitchAccount(a) PROVE TypeOK'
  <2>1. Of(a) \in SUBSET Group
    BY DEF Of
  <2>2. QED BY <1>8, <1>10, <2>1 DEF SwitchAccount
<1>11. CASE Tick
  BY <1>11 DEF Tick, Older
<1>12. CASE UNCHANGED vars
  BY <1>12 DEF vars
<1>13. QED
  BY <1>1, <1>2, <1>3, <1>4, <1>5, <1>6, <1>7, <1>9, <1>10, <1>11, <1>12 DEF Next, Step

LEMMA ListingStep == IInv /\ [Next]_vars => WatchOK' /\ PagesOK'
<1> SUFFICES ASSUME IInv, [Next]_vars, NEW u \in Request
             PROVE  /\ Listing(u)' =>
                         /\ steady'[u] \subseteq Of(account)' /\ Of(account)' \subseteq seen'[u]
                         /\ listed'[u] \subseteq seen'[u]
                    /\ pc'[u] = "page" => \A g \in steady'[u] : g < cursor'[u] => g \in listed'[u]
                    /\ pc'[u] = "write" => steady'[u] \subseteq listed'[u]
  BY DEF WatchOK, PagesOK
<1> DEFINE G == /\ Listing(u)' =>
                     /\ steady'[u] \subseteq Of(account)' /\ Of(account)' \subseteq seen'[u]
                     /\ listed'[u] \subseteq seen'[u]
                /\ pc'[u] = "page" => \A g \in steady'[u] : g < cursor'[u] => g \in listed'[u]
                /\ pc'[u] = "write" => steady'[u] \subseteq listed'[u]
<1> USE DEF IInv, WatchOK, PagesOK, Listing
<1>1. ASSUME UNCHANGED <<live, account, pc[u], cursor[u], listed[u], steady[u], seen[u]>> PROVE G
  BY <1>1 DEF Of
<1>2. ASSUME pc'[u] \notin {"page", "write"} PROVE G
  BY <1>2
<1>3. ASSUME NEW t \in Request, Page(t) PROVE G
  <2>1. CASE t = u
    <3>1. UNCHANGED <<live, account, steady, seen>> /\ pc[u] = "page"
      BY <1>3, <2>1 DEF Page, watched
    <3>2. steady[u] \subseteq Of(account) /\ listed[u] \subseteq seen[u] /\ Of(account) \subseteq seen[u]
      BY <3>1
    <3>3. \A g \in Of(account) : g \in Nat
      BY OfType, GroupsAssumption
    <3>4. cursor[u] \in Nat
      <4>1. cursor[u] \in Group \cup {0}
        BY DEF TypeOK
      <4>2. Group \subseteq Nat
        BY GroupsAssumption
      <4>3. 0 \in Nat
        OBVIOUS
      <4>4. QED BY <4>1, <4>2, <4>3, Zenon
    <3>5. CASE /\ From(cursor[u]) = {}
               /\ listed'[u] = listed[u] /\ cursor'[u] = cursor[u] /\ pc'[u] = "write"
      BY <3>1, <3>2, <3>3, <3>4, <3>5 DEF From, Of
    <3>6. ASSUME NEW g \in From(cursor[u]), \A h \in From(cursor[u]) : g <= h,
                 listed'[u] = listed[u] \cup {g}
          PROVE  /\ listed'[u] \subseteq seen[u]
                 /\ \A h \in steady[u] : h <= g => h \in listed'[u]
      BY <3>1, <3>2, <3>3, <3>4, <3>6 DEF From
    <3>7. ASSUME NEW g \in From(cursor[u]), \A h \in From(cursor[u]) : g <= h,
                 listed'[u] = listed[u] \cup {g},
                 From(g + 1) = {} /\ cursor'[u] = cursor[u] /\ pc'[u] = "write"
          PROVE  G
      <4>1. \A h \in steady[u] : h <= g
        BY <3>2, <3>3, <3>7 DEF From
      <4>2. QED BY <3>1, <3>2, <3>6, <3>7, <4>1 DEF Of
    <3>8. ASSUME NEW g \in From(cursor[u]), \A h \in From(cursor[u]) : g <= h,
                 listed'[u] = listed[u] \cup {g},
                 cursor'[u] \in From(g + 1) /\ \A h \in From(g + 1) : cursor'[u] <= h,
                 pc'[u] = "page"
          PROVE  G
      <4>1. \A h \in steady[u] : h < cursor'[u] => h <= g
        BY <3>2, <3>3, <3>8 DEF From
      <4>2. QED BY <3>1, <3>2, <3>6, <3>8, <4>1 DEF Of
    <3>9. QED BY <1>3, <2>1, <3>5, <3>7, <3>8, PageStep
  <2>2. CASE t # u
    BY <1>1, <1>3, <2>2 DEF Page, Goto, TypeOK, watched
  <2>3. QED BY <2>1, <2>2
<1>4. ASSUME NEW t \in Request, NEW again \in BOOLEAN, StartListing(t, again), UNCHANGED <<live, account>>
      PROVE  G
  <2>1. CASE t = u
    <3>1. /\ cursor'[u] = 0 /\ listed'[u] = {} /\ steady'[u] = Of(account) /\ seen'[u] = Of(account)
          /\ pc'[u] = "page"
      BY <1>4, <2>1, ListingFields DEF TypeOK
    <3>2. \A g \in Of(account) : g \in Nat
      BY OfType, GroupsAssumption
    <3>3. QED BY <1>4, <3>1, <3>2 DEF Of
  <2>2. CASE t # u
    BY <1>1, <1>4, <2>2, ListingFields
  <2>3. QED BY <2>1, <2>2
<1>5. ASSUME NEW t \in Request, NEW where \in {"idle", "stamp"}, Forget(t, where), UNCHANGED <<live, account>>
      PROVE  G
  <2>1. CASE t = u
    BY <1>2, <1>5, <2>1, ListingFields DEF TypeOK
  <2>2. CASE t # u
    BY <1>1, <1>5, <2>2, ListingFields
  <2>3. QED BY <2>1, <2>2
<1>6. ASSUME NEW t \in Request, Write(t) \/ Stamp(t) \/ Abandon(t) PROVE G
  BY <1>5, <1>6 DEF Write, Stamp, Abandon
<1>7. ASSUME NEW t \in Request, Expired(t) \/ \E forced \in BOOLEAN : Refresh(t, forced) PROVE G
  BY <1>4, <1>7 DEF Expired, Refresh
<1>8. ASSUME NEW t \in Request, FromCache(t) PROVE G
  <2>1. CASE t = u
    BY <1>2, <1>8, <2>1 DEF FromCache, Goto, TypeOK
  <2>2. CASE t # u
    BY <1>1, <1>8, <2>2 DEF FromCache, Goto, TypeOK, listing, watched
  <2>3. QED BY <2>1, <2>2
<1>9. ASSUME Watch(Of(account)'), UNCHANGED <<pc, listing>> PROVE G
  BY <1>9 DEF Watch, listing, TypeOK
<1>10. ASSUME NEW g \in Group, GroupChanges(g) PROVE G
  <2>1. Of(account)' = {h \in live' : OwnerOf[h] = account}
    BY <1>10 DEF GroupChanges, Of
  <2>2. QED BY <1>9, <1>10, <2>1 DEF GroupChanges
<1>11. ASSUME NEW a \in Account, SwitchAccount(a) PROVE G
  <2>1. Of(account)' = Of(a)
    BY <1>11 DEF SwitchAccount, Of
  <2>2. QED BY <1>9, <1>11, <2>1 DEF SwitchAccount
<1>12. CASE Tick \/ UNCHANGED vars
  BY <1>1, <1>12 DEF Tick, vars, listing, watched
<1>13. QED
  BY <1>3, <1>6, <1>7, <1>8, <1>10, <1>11, <1>12 DEF Next, Step

LEMMA Invariance == Spec => []IInv
<1>1. Init => IInv
  <2> SUFFICES ASSUME Init PROVE IInv
    OBVIOUS
  <2>1. TypeOK
    BY GroupsAssumption DEF Init, TypeOK
  <2>2. WatchOK /\ PagesOK
    BY DEF Init, WatchOK, PagesOK, Listing
  <2>3. QED BY <2>1, <2>2 DEF IInv
<1>2. IInv /\ [Next]_vars => IInv'
  BY TypeStep, ListingStep DEF IInv
<1>3. QED BY <1>1, <1>2, PTL DEF Spec

(* Every variable of the groups cache stays in its type. *)
THEOREM GroupsTypeCorrect == Spec => []TypeOK
BY Invariance, PTL DEF IInv

(* _refresh_groups_cache writes every group that was the account's all     *)
(* through the paging of list_groups, and none that was not its at some    *)
(* time of it, for any number of pages and of changes between them.        *)
THEOREM ListingsAreExact == Spec => ListingIsExact
<1> DEFINE A == \A t \in Request : pc[t] = "write" /\ pc'[t] = "stamp" =>
                  steady[t] \subseteq cache' /\ cache' \subseteq seen[t]
<1>1. IInv /\ [Next]_vars => [A]_vars
  <2> SUFFICES ASSUME IInv, Next, NEW t \in Request, pc[t] = "write", pc'[t] = "stamp"
               PROVE  steady[t] \subseteq cache' /\ cache' \subseteq seen[t]
    OBVIOUS
  <2>1. CASE Write(t)
    BY <2>1 DEF Write, NewRows, IInv, WatchOK, PagesOK, Listing
  <2>2. CASE ~Write(t)
    <3>1. ASSUME NEW q \in Request,
                 \/ Page(q) \/ Stamp(q) \/ FromCache(q) \/ Expired(q) \/ Abandon(q)
                 \/ \E forced \in BOOLEAN : Refresh(q, forced)
          PROVE  pc'[t] # "stamp"
      BY <3>1 DEF IInv, TypeOK, Page, Stamp, FromCache, Expired, Abandon, Refresh, Goto,
                  StartListing, Forget
    <3>2. ASSUME NEW q \in Request \ {t}, Write(q) PROVE pc'[t] # "stamp"
      BY <3>2 DEF IInv, TypeOK, Write, Forget, Goto
    <3>3. UNCHANGED pc => FALSE
      OBVIOUS
    <3>4. QED
      BY <2>2, <3>1, <3>2, <3>3 DEF Next, Step, GroupChanges, SwitchAccount, Tick
  <2>3. QED BY <2>1, <2>2
<1>2. QED BY <1>1, Invariance, PTL DEF Spec, ListingIsExact

-----------------------------------------------------------------------------
(* A request that holds rows holds them from no later a listing than the   *)
(* one in the cache, so both grow old together.                            *)
StampOK == \A t \in Request : pc[t] = "stamp" => StampAge <= rowsAge[t]

LEMMA OlderMonotone ==
  ASSUME NEW m \in 0..TTL + 1, NEW n \in 0..TTL + 1, m <= n
  PROVE  Older(m) <= Older(n) /\ 0 <= Older(n)
BY GroupsAssumption DEF Older

LEMMA StampStep == TypeOK /\ StampOK /\ [Next]_vars => StampOK'
<1> SUFFICES ASSUME TypeOK, StampOK, [Next]_vars, NEW u \in Request, pc'[u] = "stamp"
             PROVE  (StampAge <= rowsAge[u])'
  BY DEF StampOK
<1> USE GroupsAssumption DEF TypeOK, Goto, cached, listing, watched
<1>1. ASSUME UNCHANGED <<cache, age>>, rowsAge'[u] = rowsAge[u], pc[u] = "stamp" PROVE (StampAge <= rowsAge[u])'
  BY <1>1 DEF StampOK, StampAge
<1>2. ASSUME NEW t \in Request, Write(t) PROVE (StampAge <= rowsAge[u])'
  BY <1>2 DEF Write, Forget, NewAge, StampAge
<1>3. ASSUME NEW t \in Request, FromCache(t) PROVE (StampAge <= rowsAge[u])'
  <2>1. CASE u = t
    BY <1>3, <2>1 DEF FromCache, StampAge
  <2>2. CASE u # t
    BY <1>1, <1>3, <2>2 DEF FromCache
  <2>3. QED BY <2>1, <2>2
<1>4. ASSUME NEW t \in Request,
             \/ Page(t) \/ Stamp(t) \/ Expired(t) \/ Abandon(t)
             \/ \E forced \in BOOLEAN : Refresh(t, forced)
      PROVE  (StampAge <= rowsAge[u])'
  <2>1. UNCHANGED <<cache, age>>
    BY <1>4 DEF Page, Stamp, Expired, Abandon, Refresh
  <2>2. u # t
    BY <1>4 DEF Page, Stamp, Expired, Abandon, Refresh, Forget, StartListing
  <2>3. pc[u] = "stamp" /\ rowsAge'[u] = rowsAge[u]
    BY <1>4, <2>2 DEF Page, Stamp, Expired, Abandon, Refresh, Forget, StartListing
  <2>4. QED BY <1>1, <2>1, <2>3
<1>5. ASSUME NEW g, GroupChanges(g) \/ SwitchAccount(g) PROVE (StampAge <= rowsAge[u])'
  BY <1>1, <1>5 DEF GroupChanges, SwitchAccount
<1>6. CASE Tick
  <2>1. /\ pc[u] = "stamp" /\ cache' = cache
        /\ age' = Older(age) /\ rowsAge'[u] = Older(rowsAge[u])
    BY <1>6 DEF Tick
  <2>2. StampAge <= rowsAge[u]
    BY <2>1 DEF StampOK
  <2>3. age \in 0..TTL + 1 /\ rowsAge[u] \in 0..TTL + 1
    OBVIOUS
  <2>4. CASE cache = {}
    <3>1. 0 <= Older(rowsAge[u])
      BY <2>3, OlderMonotone
    <3>2. QED BY <2>1, <2>4, <3>1 DEF StampAge
  <2>5. CASE cache # {}
    <3>1. Older(age) <= Older(rowsAge[u])
      BY <2>2, <2>3, <2>5, OlderMonotone DEF StampAge
    <3>2. QED BY <2>1, <2>5, <3>1 DEF StampAge
  <2>6. QED BY <2>4, <2>5
<1>7. CASE UNCHANGED vars
  BY <1>1, <1>7 DEF vars
<1>8. QED BY <1>2, <1>3, <1>4, <1>5, <1>6, <1>7 DEF Next, Step

(* The cached_at of an answer is not that of an older listing than its     *)
(* rows, although list_groups reads it in a transaction of its own.        *)
THEOREM StampsAreNotOlder == Spec => StampNotOlder
<1> DEFINE A == \A t \in Request :
                  pc[t] = "stamp" /\ pc'[t] = "idle" /\ changes' = changes => StampAge <= rowsAge[t]
<1>1. Init => StampOK
  BY DEF Init, StampOK
<1>2. StampOK /\ [Next]_vars => [A]_vars
  BY DEF StampOK
<1>3. QED BY <1>1, <1>2, StampStep, GroupsTypeCorrect, PTL DEF Spec, StampNotOlder

-----------------------------------------------------------------------------
(* The safety half of Converges.  The cache holds the account's groups,    *)
(* and nothing has changed since any listing under way began.              *)
UpToDate ==
  /\ cache = Of(account)
  /\ \A t \in Request : Listing(t) => steady[t] = seen[t]

LEMMA UpToDateStep ==
  IInv /\ UpToDate /\ [Next]_vars /\ UNCHANGED <<live, account>> => UpToDate'
<1> SUFFICES ASSUME IInv, UpToDate, [Next]_vars, UNCHANGED <<live, account>> PROVE UpToDate'
  OBVIOUS
<1> USE DEF IInv, TypeOK, UpToDate, Listing, Goto, cached, listing, watched
<1>1. Of(account)' = Of(account)
  BY DEF Of
<1>2. ASSUME NEW t \in Request, Write(t) PROVE UpToDate'
  <2>1. steady[t] \subseteq listed[t] /\ listed[t] \subseteq seen[t]
        /\ steady[t] \subseteq Of(account) /\ Of(account) \subseteq seen[t]
    BY <1>2 DEF Write, WatchOK, PagesOK
  <2>2. steady[t] = seen[t]
    BY <1>2 DEF Write
  <2>3. cache' = Of(account)
    BY <1>2, <2>1, <2>2 DEF Write, NewRows
  <2>4. QED BY <1>1, <1>2, <2>3 DEF Write, Forget
<1>3. ASSUME NEW t \in Request, Page(t) \/ Stamp(t) \/ FromCache(t) \/ Abandon(t) PROVE UpToDate'
  BY <1>1, <1>3 DEF Page, Stamp, FromCache, Abandon, Forget
<1>4. ASSUME NEW t \in Request, Expired(t) \/ \E forced \in BOOLEAN : Refresh(t, forced)
      PROVE  UpToDate'
  BY <1>1, <1>4 DEF Expired, Refresh, StartListing
<1>5. ASSUME NEW g \in Group, GroupChanges(g) PROVE FALSE
  BY <1>5 DEF GroupChanges
<1>6. ASSUME NEW a \in Account, SwitchAccount(a) PROVE FALSE
  BY <1>6 DEF SwitchAccount
<1>7. CASE Tick \/ UNCHANGED vars
  BY <1>1, <1>7 DEF Tick, vars
<1>8. QED BY <1>2, <1>3, <1>4, <1>5, <1>6, <1>7 DEF Next, Step

(* A right cache stays right until a group or the account changes: no      *)
(* listing written late, begun again after an expired token or abandoned   *)
(* half-way spoils it (list_groups, _refresh_groups_cache).                *)
THEOREM CacheStaysUpToDate == Spec => [][UpToDate /\ UNCHANGED <<live, account>> => UpToDate']_vars
BY UpToDateStep, Invariance, PTL DEF Spec
=============================================================================

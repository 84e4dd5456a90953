---------------------------- MODULE SessionsProofs ----------------------------
(***************************************************************************)
(* What login, refresh and the revocations keep, and why the browser loses *)
(* its session, for any number of logins, tabs, calls, tokens, failures    *)
(* and errors, any threshold and any lock time.                                            *)
(***************************************************************************)
EXTENDS Sessions, FiniteSetTheorems, TLAPS

Request == Login \cup Call

(* The types the steps rely on. *)
Types ==
  /\ now \in Nat \ {0} /\ active \in BOOLEAN /\ raced \in BOOLEAN
  /\ attempts \in Nat /\ locked \in Nat /\ fails \in Nat
  /\ pc \in [Request -> {"idle", "verify", "refresh", "rotate", "orphan", "granted"}]
  /\ seen \in [Login -> [attempts : Nat, locked : Nat, active : BOOLEAN]]
  /\ stored \in Nat /\ page \in [Tab -> Nat] /\ errors \in 0..MaxErrors
  /\ at \in [Call -> Tab \cup {NoTab}]
  /\ used \in [Call -> Nat] /\ got \in [Call -> Nat]
  /\ \A c \in Call : /\ pc[c] # "verify"
                     /\ at[c] \in Tab <=> pc[c] \in {"refresh", "rotate", "granted"}
  /\ \A l \in Login : pc[l] \in {"idle", "verify"}

(* Tokens are numbered as they are issued, and each replaced an older one. *)
TokensOK ==
  /\ Issued = 1..Cardinality(Issued) /\ Cardinality(Issued) \in Nat
  /\ live \subseteq Issued
  /\ \A c \in Call : pc[c] # "idle" => used[c] \in Issued
  /\ \A c \in Call : pc[c] = "granted" => got[c] \in Issued
  /\ stored \in Issued \cup {0} /\ page \in [Tab -> Issued \cup {0}]
  /\ \A k \in Issued : parent[k] \in 0..k - 1

(* No token that is still valid has been traded for another. *)
LiveNotRotated == \A k \in Issued : parent[k] \notin live

(* While the account is not active, whoever can still issue a token was    *)
(* under way when it was deactivated, or holds a token of such a request.  *)
Slipping ==
  ~active =>
    /\ live \subseteq slipped
    /\ \A l \in Login : pc[l] = "verify" /\ seen[l].active => l \in late
    /\ \A c \in Call : pc[c] \in {"rotate", "orphan"} => c \in late \/ used[c] \in slipped

(* Unless logins overlapped, whoever has read the row has read its counter. *)
Counting ==
  ~raced =>
    /\ attempts = fails
    /\ locked # 0 <=> fails >= Threshold
    /\ \A l \in Login : pc[l] = "verify" => seen[l].attempts = attempts

(* A login goes on only from a row without a lock, or whose lock was over. *)
ReadUnlocked ==
  \A l \in Login : pc[l] = "verify" => seen[l].locked = 0 \/ now >= seen[l].locked

IInv == Types /\ TokensOK /\ LiveNotRotated /\ Slipping /\ Counting /\ ReadUnlocked

-----------------------------------------------------------------------------
Place == {"idle", "verify", "refresh", "rotate", "orphan", "granted"}

(* What a tab that goes leaves of a call: it stays, is an orphan, or is over. *)
LEMMA LeaveFields ==
  ASSUME Types, NEW t \in Tab, NEW over \in SUBSET Call, Leave(t, over)
  PROVE  /\ page' = [page EXCEPT ![t] = 0] /\ lost \subseteq lost'
         /\ pc' \in [Request -> Place] /\ at' \in [Call -> Tab \cup {NoTab}]
         /\ used' \in [Call -> Nat] /\ got' \in [Call -> Nat]
         /\ \A l \in Login : pc'[l] = pc[l]
         /\ \A d \in Call :
              \/ /\ at[d] # t /\ at'[d] = at[d] /\ pc'[d] = pc[d]
                 /\ used'[d] = used[d] /\ got'[d] = got[d]
              \/ /\ at[d] = t /\ at'[d] = NoTab /\ d \notin over
                 /\ pc[d] = "rotate" /\ pc'[d] = "orphan"
                 /\ used'[d] = used[d] /\ got'[d] = got[d]
              \/ /\ at[d] = t /\ at'[d] = NoTab /\ pc'[d] = "idle" /\ used'[d] = 0
                 /\ pc[d] = "granted" => used[d] \in lost'
         /\ \A d \in over : at[d] = t => pc'[d] = "idle"
<1> USE SessionsAssumption DEF Types, Request, Place
<1> DEFINE kept == {c \in Call \ over : at[c] = t /\ pc[c] = "rotate"}
           gone == {c \in Call \ kept : at[c] = t}
<1>1. /\ page' = [page EXCEPT ![t] = 0]
      /\ pc' = [h \in DOMAIN pc |-> IF h \in kept THEN "orphan" ELSE IF h \in gone THEN "idle" ELSE pc[h]]
      /\ at' = [c \in Call |-> IF at[c] = t THEN NoTab ELSE at[c]]
      /\ used' = [c \in Call |-> IF c \in gone THEN 0 ELSE used[c]]
      /\ got' = [c \in Call |-> IF c \in gone THEN 0 ELSE got[c]]
      /\ lost' = lost \cup {used[c] : c \in {d \in gone : pc[d] = "granted"}}
  BY DEF Leave
<1>2. ASSUME NEW d \in Call
      PROVE  \/ /\ at[d] # t /\ at'[d] = at[d] /\ pc'[d] = pc[d]
                /\ used'[d] = used[d] /\ got'[d] = got[d]
             \/ /\ at[d] = t /\ at'[d] = NoTab /\ d \notin over
                /\ pc[d] = "rotate" /\ pc'[d] = "orphan"
                /\ used'[d] = used[d] /\ got'[d] = got[d]
             \/ /\ at[d] = t /\ at'[d] = NoTab /\ pc'[d] = "idle" /\ used'[d] = 0
                /\ pc[d] = "granted" => used[d] \in lost'
  <2>1. CASE at[d] # t
    <3>1. d \notin kept /\ d \notin gone
      BY <2>1
    <3>2. QED BY <1>1, <2>1, <3>1
  <2>2. CASE d \in kept
    <3>1. d \notin gone
      BY <2>2
    <3>2. QED BY <1>1, <2>2, <3>1
  <2>3. CASE at[d] = t /\ d \notin kept
    <3>1. d \in gone
      BY <2>3
    <3>2. QED BY <1>1, <2>3, <3>1
  <2>4. QED BY <2>1, <2>2, <2>3
<1>3. \A l \in Login : pc'[l] = pc[l]
  BY <1>1
<1>4. pc' \in [Request -> Place]
  BY <1>1
<1>5. at' \in [Call -> Tab \cup {NoTab}] /\ used' \in [Call -> Nat] /\ got' \in [Call -> Nat]
  BY <1>1
<1>6. \A d \in over : at[d] = t => pc'[d] = "idle"
  <2>1. ASSUME NEW d \in over, at[d] = t PROVE pc'[d] = "idle"
    <3>1. d \in gone /\ d \notin kept /\ d \in DOMAIN pc
      BY <2>1
    <3>2. QED BY <1>1, <3>1
  <2>2. QED BY <2>1
<1>7. lost \subseteq lost'
  BY <1>1
<1>8. QED BY <1>1, <1>2, <1>3, <1>4, <1>5, <1>6, <1>7

(* A call that is over holds nothing, and leaves the others alone. *)
LEMMA OverFields ==
  ASSUME Types, NEW c \in Call, Over(c)
  PROVE  /\ pc' \in [Request -> Place] /\ at' \in [Call -> Tab \cup {NoTab}]
         /\ used' \in [Call -> Nat] /\ got' \in [Call -> Nat]
         /\ pc'[c] = "idle" /\ at'[c] = NoTab /\ used'[c] = 0
         /\ \A h \in Request \ {c} : pc'[h] = pc[h]
         /\ \A d \in Call \ {c} : /\ pc'[d] = pc[d] /\ at'[d] = at[d]
                                  /\ used'[d] = used[d] /\ got'[d] = got[d]
BY SessionsAssumption DEF Over, Goto, Types, Request, Place

(* A new token gets the next number, and ends the one it replaces. *)
LEMMA IssueFields ==
  ASSUME TokensOK, LiveNotRotated, NEW h \in Request, NEW t \in Issued \cup {0}, Issue(h, t)
  PROVE  /\ Issued' = 1..Cardinality(Issued') /\ Cardinality(Issued') \in Nat
         /\ Issued' = Issued \cup {NewToken} /\ NewToken \notin Issued
         /\ live' = (live \ {t}) \cup {NewToken}
         /\ \A k \in Issued' : parent'[k] \notin live' /\ parent'[k] \in 0..k - 1
<1> DEFINE n == Cardinality(Issued)
<1>1. n \in Nat /\ Issued = 1..n /\ NewToken = n + 1
  BY DEF TokensOK, NewToken
<1>2. Issued' = Issued \cup {NewToken}
  BY DEF Issue, Issued
<1>3. Issued' = 1..(n + 1)
  BY <1>1, <1>2
<1>4. Cardinality(Issued') = n + 1
  BY <1>1, <1>3, FS_Interval
<1>5. NewToken \notin Issued /\ NewToken # t
  BY <1>1
<1>6. live' = (live \ {t}) \cup {NewToken}
  BY DEF Issue
<1>7. ASSUME NEW k \in Issued' PROVE parent'[k] \notin live' /\ parent'[k] \in 0..k - 1
  <2>1. parent'[k] = IF k = NewToken THEN t ELSE parent[k]
    BY <1>2 DEF Issue
  <2>2. CASE k = NewToken
    BY <1>1, <1>5, <1>6, <2>1, <2>2
  <2>3. CASE k # NewToken
    <3>1. k \in Issued /\ parent'[k] = parent[k]
      BY <1>2, <2>1, <2>3
    <3>2. parent[k] \notin live
      BY <3>1 DEF LiveNotRotated
    <3>3. parent[k] # NewToken
      BY <1>1, <3>1 DEF TokensOK
    <3>4. QED BY <1>6, <3>1, <3>2, <3>3 DEF TokensOK
  <2>4. QED BY <2>2, <2>3
<1>8. QED BY <1>1, <1>2, <1>3, <1>4, <1>5, <1>6, <1>7

-----------------------------------------------------------------------------
LEMMA TypesStep == IInv /\ [Next]_vars => Types'
<1> SUFFICES ASSUME IInv, [Next]_vars PROVE Types'
  OBVIOUS
<1> USE SessionsAssumption
        DEF IInv, Types, Goto, Request, Place, user, tokens, client, history, lockHistory
<1>1. ASSUME NEW l \in Login, LoginRead(l) PROVE Types'
  BY <1>1 DEF LoginRead
<1>2. ASSUME NEW l \in Login, LoginFails(l) PROVE Types'
  BY <1>2 DEF LoginFails, Finish, LockEnd, Unread, Alone
<1>3. ASSUME NEW l \in Login, LoginSucceeds(l) PROVE Types'
  <2>1. stored' \in Nat
    BY <1>3 DEF LoginSucceeds, NewToken, TokensOK
  <2>2. QED BY <1>3, <2>1 DEF LoginSucceeds, Finish, Unread, Alone
<1>4. ASSUME NEW t \in Tab, NEW over \in SUBSET Call, Leave(t, over), stored' \in {stored, 0},
             errors' \in 0..MaxErrors, UNCHANGED <<now, user, seen, lockHistory>>
      PROVE  Types'
  BY <1>4, LeaveFields
<1>5. ASSUME NEW c \in Call, pc[c] \in {"refresh", "rotate", "granted"}, SignOut(c),
             errors' \in 0..MaxErrors, UNCHANGED <<now, user, seen, lockHistory>>
      PROVE  Types'
  BY <1>4, <1>5 DEF SignOut
<1>6. ASSUME NEW c \in Call, Over(c), stored' \in Nat, page' \in [Tab -> Nat],
             errors' \in 0..MaxErrors, UNCHANGED <<now, user, seen, lockHistory>>
      PROVE  Types'
  BY <1>6, OverFields
<1>7. ASSUME NEW t \in Tab, Open(t) PROVE Types'
  BY <1>7 DEF Open
<1>8. ASSUME NEW t \in Tab, Close(t) PROVE Types'
  BY <1>4, <1>8 DEF Close
<1>9. ASSUME NEW c \in Call, NEW t \in Tab, Unauthorized(c, t) PROVE Types'
  BY <1>9 DEF Unauthorized
<1>10. ASSUME NEW c \in Call, RefreshRead(c) PROVE Types'
  BY <1>5, <1>10 DEF RefreshRead
<1>11. ASSUME NEW c \in Call, RefreshWrite(c) PROVE Types'
  <2>1. NewToken \in Nat
    BY DEF NewToken, TokensOK
  <2>2. CASE pc[c] = "orphan"
    BY <1>6, <1>11, <2>2 DEF RefreshWrite
  <2>3. CASE pc[c] # "orphan"
    BY <1>11, <2>1, <2>3 DEF RefreshWrite
  <2>4. QED BY <2>2, <2>3
<1>12. ASSUME NEW c \in Call, RefreshFails(c) PROVE Types'
  <2>1. errors' \in 0..MaxErrors
    BY <1>12 DEF RefreshFails
  <2>2. CASE pc[c] = "orphan"
    BY <1>6, <1>12, <2>1, <2>2 DEF RefreshFails
  <2>3. CASE pc[c] # "orphan"
    BY <1>5, <1>12, <2>1, <2>3 DEF RefreshFails
  <2>4. QED BY <2>2, <2>3
<1>13. ASSUME NEW c \in Call, Adopt(c) PROVE Types'
  BY <1>5, <1>6, <1>13 DEF Adopt
<1>14. ASSUME NEW c \in Call, LoseAnswer(c) PROVE Types'
  BY <1>6, <1>14 DEF LoseAnswer
<1>15. ASSUME NEW t \in Token, EndToken(t) PROVE Types'
  BY <1>15 DEF EndToken
<1>16. CASE Deactivate \/ Activate \/ CompleteReset
  BY <1>16 DEF Deactivate, Activate, CompleteReset
<1>17. CASE BootFails
  <2>1. errors' \in 0..MaxErrors /\ stored' = 0
    BY <1>17 DEF BootFails
  <2>2. UNCHANGED <<now, user, page, at, used, got, pc, seen, lockHistory>>
    BY <1>17 DEF BootFails
  <2>3. QED BY <2>1, <2>2
<1>18. CASE Tick \/ UNCHANGED vars
  BY <1>18 DEF Tick, vars
<1>19. QED
  BY <1>1, <1>2, <1>3, <1>7, <1>8, <1>9, <1>10, <1>11, <1>12, <1>13, <1>14, <1>15, <1>16, <1>17, <1>18 DEF Next

LEMMA TokensStep == IInv /\ [Next]_vars => TokensOK' /\ LiveNotRotated'
<1> SUFFICES ASSUME IInv, [Next]_vars PROVE TokensOK' /\ LiveNotRotated'
  OBVIOUS
<1> USE DEF IInv, Types, Goto, Request, user, tokens, client, history, lockHistory, TokensOK, LiveNotRotated
<1>0. ASSUME UNCHANGED parent PROVE Issued' = Issued
  BY <1>0 DEF Issued
<1>1. ASSUME NEW l \in Login, LoginRead(l) PROVE TokensOK' /\ LiveNotRotated'
  BY <1>0, <1>1, SessionsAssumption DEF LoginRead
<1>2. ASSUME NEW l \in Login, LoginFails(l) PROVE TokensOK' /\ LiveNotRotated'
  BY <1>0, <1>2 DEF LoginFails, Finish
<1>3. ASSUME NEW l \in Login, LoginSucceeds(l) PROVE TokensOK' /\ LiveNotRotated'
  <2>1. Issue(l, 0)
    BY <1>3 DEF LoginSucceeds
  <2>2. stored' \in {stored, NewToken} /\ UNCHANGED <<page, used, got>>
    BY <1>3 DEF LoginSucceeds
  <2>3. \A c \in Call : pc'[c] = pc[c]
    BY <1>3, SessionsAssumption DEF LoginSucceeds, Finish
  <2>4. /\ Issued' = 1..Cardinality(Issued') /\ Cardinality(Issued') \in Nat
        /\ Issued' = Issued \cup {NewToken}
        /\ live' = (live \ {0}) \cup {NewToken}
        /\ \A k \in Issued' : parent'[k] \notin live' /\ parent'[k] \in 0..k - 1
    BY <2>1, IssueFields
  <2>5. /\ \A d \in Call : pc'[d] # "idle" => used'[d] \in Issued'
        /\ \A d \in Call : pc'[d] = "granted" => got'[d] \in Issued'
    BY <2>2, <2>3, <2>4
  <2>6. stored' \in Issued' \cup {0} /\ page' \in [Tab -> Issued' \cup {0}]
    BY <2>2, <2>4
  <2>7. live' \subseteq Issued'
    BY <2>4
  <2>8. \A k \in Issued' : parent'[k] \notin live' /\ parent'[k] \in 0..k - 1
    BY <2>4
  <2>9. Issued' = 1..Cardinality(Issued') /\ Cardinality(Issued') \in Nat
    BY <2>4
  <2>10. QED BY <2>5, <2>6, <2>7, <2>8, <2>9
<1>4. ASSUME NEW t \in Tab, NEW over \in SUBSET Call, Leave(t, over), stored' \in {stored, 0}, UNCHANGED tokens
      PROVE  TokensOK' /\ LiveNotRotated'
  <2>1. /\ page' \in [Tab -> Issued \cup {0}] /\ stored' \in Issued \cup {0}
        /\ live' = live /\ parent' = parent /\ Issued' = Issued
    BY <1>0, <1>4, LeaveFields
  <2>2. ASSUME NEW d \in Call
        PROVE  /\ pc'[d] # "idle" => used'[d] \in Issued'
               /\ pc'[d] = "granted" => got'[d] \in Issued'
    <3>1. /\ pc'[d] # "idle" => pc[d] # "idle" /\ used'[d] = used[d]
          /\ pc'[d] = "granted" => pc[d] = "granted" /\ got'[d] = got[d]
      BY <1>4, LeaveFields
    <3>2. QED BY <2>1, <3>1
  <2>3. \A k \in Issued' : parent'[k] \notin live' /\ parent'[k] \in 0..k - 1
    BY <2>1
  <2>4. Issued' = 1..Cardinality(Issued') /\ Cardinality(Issued') \in Nat /\ live' \subseteq Issued'
    BY <2>1
  <2>5. QED BY <2>1, <2>2, <2>3, <2>4
<1>5. ASSUME NEW c \in Call, pc[c] \in {"refresh", "rotate", "granted"}, SignOut(c), UNCHANGED tokens
      PROVE  TokensOK' /\ LiveNotRotated'
  BY <1>4, <1>5 DEF SignOut
<1>6. ASSUME NEW c \in Call, Over(c), UNCHANGED tokens,
             stored' \in Issued \cup {0}, page' \in [Tab -> Issued \cup {0}]
      PROVE  TokensOK' /\ LiveNotRotated'
  BY <1>0, <1>6, OverFields
<1>7. ASSUME NEW t \in Tab, Open(t) PROVE TokensOK' /\ LiveNotRotated'
  BY <1>0, <1>7 DEF Open
<1>8. ASSUME NEW t \in Tab, Close(t) PROVE TokensOK' /\ LiveNotRotated'
  BY <1>4, <1>8 DEF Close
<1>9. ASSUME NEW c \in Call, NEW t \in Tab, Unauthorized(c, t) PROVE TokensOK' /\ LiveNotRotated'
  BY <1>0, <1>9 DEF Unauthorized
<1>10. ASSUME NEW c \in Call, RefreshRead(c) PROVE TokensOK' /\ LiveNotRotated'
  BY <1>0, <1>5, <1>10 DEF RefreshRead
<1>11. ASSUME NEW c \in Call, RefreshWrite(c) PROVE TokensOK' /\ LiveNotRotated'
  <2>1. Issue(c, used[c]) /\ used[c] \in Issued /\ page' = page /\ stored' = stored
    BY <1>11 DEF RefreshWrite
  <2>2. \A d \in Call \ {c} : pc'[d] = pc[d] /\ used'[d] = used[d] /\ got'[d] = got[d]
    BY <1>11, OverFields DEF RefreshWrite
  <2>3. pc'[c] # "idle" => pc'[c] = "granted" /\ used'[c] = used[c] /\ got'[c] = NewToken
    BY <1>11, OverFields DEF RefreshWrite
  <2>4. /\ Issued' = 1..Cardinality(Issued') /\ Cardinality(Issued') \in Nat
        /\ Issued' = Issued \cup {NewToken}
        /\ live' = (live \ {used[c]}) \cup {NewToken}
        /\ \A k \in Issued' : parent'[k] \notin live' /\ parent'[k] \in 0..k - 1
    BY <2>1, IssueFields
  <2>5. \A d \in Call : pc'[d] # "idle" => used'[d] \in Issued'
    BY <2>1, <2>2, <2>3, <2>4
  <2>6. \A d \in Call : pc'[d] = "granted" => got'[d] \in Issued'
    BY <2>2, <2>3, <2>4
  <2>7. QED BY <2>1, <2>4, <2>5, <2>6
<1>12. ASSUME NEW c \in Call, RefreshFails(c) PROVE TokensOK' /\ LiveNotRotated'
  BY <1>5, <1>6, <1>12 DEF RefreshFails
<1>13. ASSUME NEW c \in Call, Adopt(c) PROVE TokensOK' /\ LiveNotRotated'
  BY <1>5, <1>6, <1>13 DEF Adopt
<1>14. ASSUME NEW c \in Call, LoseAnswer(c) PROVE TokensOK' /\ LiveNotRotated'
  BY <1>6, <1>14 DEF LoseAnswer
<1>15. ASSUME NEW t \in Token, EndToken(t) PROVE TokensOK' /\ LiveNotRotated'
  BY <1>0, <1>15 DEF EndToken
<1>16. CASE Deactivate \/ Activate \/ CompleteReset
  BY <1>0, <1>16 DEF Deactivate, Activate, CompleteReset, RevokeAll
<1>17. CASE BootFails
  BY <1>0, <1>17 DEF BootFails
<1>18. CASE Tick \/ UNCHANGED vars
  BY <1>0, <1>18 DEF Tick, vars
<1>19. QED
  BY <1>1, <1>2, <1>3, <1>7, <1>8, <1>9, <1>10, <1>11, <1>12, <1>13, <1>14, <1>15, <1>16, <1>17, <1>18 DEF Next

LEMMA SlippingStep == IInv /\ [Next]_vars => Slipping'
<1> SUFFICES ASSUME IInv, [Next]_vars, ~active' PROVE Slipping'
  BY DEF Slipping
<1> USE SessionsAssumption
        DEF IInv, Types, Goto, Request, user, tokens, client, history, lockHistory, Slipping
<1>0. ASSUME NEW h \in Request, NEW t, Issue(h, t), h \in late \/ t \in slipped, live \subseteq slipped
      PROVE  live' \subseteq slipped' /\ slipped \subseteq slipped' /\ late' = late \ {h}
  BY <1>0 DEF Issue
<1>1. ASSUME NEW l \in Login, LoginRead(l) PROVE Slipping'
  BY <1>1 DEF LoginRead
<1>2. ASSUME NEW l \in Login, LoginFails(l) PROVE Slipping'
  BY <1>2 DEF LoginFails, Finish
<1>3. ASSUME NEW l \in Login, LoginSucceeds(l) PROVE Slipping'
  <2>1. ~active /\ Issue(l, 0) /\ l \in late /\ used' = used
    BY <1>3 DEF LoginSucceeds
  <2>2. live' \subseteq slipped' /\ slipped \subseteq slipped' /\ late' = late \ {l}
    BY <1>0, <2>1
  <2>3. \A h \in Request \ {l} : pc'[h] = pc[h] /\ (h \in Login => seen'[h] = seen[h])
    BY <1>3 DEF LoginSucceeds, Finish
  <2>4. pc'[l] = "idle"
    BY <1>3 DEF LoginSucceeds, Finish
  <2>5. QED BY <2>1, <2>2, <2>3, <2>4
<1>4. ASSUME NEW t \in Tab, NEW over \in SUBSET Call, Leave(t, over), UNCHANGED <<active, live, seen, slipped>>,
             \A h \in Request : h \in late /\ h \notin late' => h \in over /\ at[h] = t
      PROVE  Slipping'
  BY <1>4, LeaveFields
<1>5. ASSUME NEW c \in Call, pc[c] \in {"refresh", "rotate", "granted"}, SignOut(c),
             UNCHANGED <<active, live, seen, slipped>>, late' \in {late, late \ {c}}
      PROVE  Slipping'
  <2>1. at[c] \in Tab /\ {c} \in SUBSET Call /\ Leave(at[c], {c})
    BY <1>5 DEF SignOut
  <2>2. \A h \in Request : h \in late /\ h \notin late' => h \in {c} /\ at[h] = at[c]
    BY <1>5
  <2>3. QED BY <1>4, <1>5, <2>1, <2>2
<1>6. ASSUME NEW c \in Call, Over(c), UNCHANGED <<active, live, seen, slipped>>, late' \in {late, late \ {c}}
      PROVE  Slipping'
  BY <1>6, OverFields
<1>7. ASSUME NEW t \in Tab, Open(t) \/ Close(t) PROVE Slipping'
  <2>1. CASE Open(t)
    BY <2>1 DEF Open
  <2>2. CASE Close(t)
    BY <1>4, <2>2 DEF Close
  <2>3. QED BY <1>7, <2>1, <2>2
<1>8. ASSUME NEW c \in Call, NEW t \in Tab, Unauthorized(c, t) PROVE Slipping'
  BY <1>8 DEF Unauthorized
<1>9. ASSUME NEW c \in Call, RefreshRead(c) PROVE Slipping'
  BY <1>5, <1>9 DEF RefreshRead, Honoured
<1>10. ASSUME NEW c \in Call, RefreshWrite(c) PROVE Slipping'
  <2>1. ~active /\ Issue(c, used[c]) /\ seen' = seen
    BY <1>10 DEF RefreshWrite
  <2>2. live' \subseteq slipped' /\ slipped \subseteq slipped' /\ late' = late \ {c}
    BY <1>0, <1>10, <2>1 DEF RefreshWrite
  <2>3. \A d \in Call \ {c} : used'[d] = used[d]
    BY <1>10, OverFields DEF RefreshWrite
  <2>4. \A h \in Request \ {c} : pc'[h] = pc[h]
    BY <1>10, OverFields DEF RefreshWrite
  <2>5. pc'[c] \in {"idle", "granted"}
    BY <1>10, OverFields DEF RefreshWrite
  <2>6. QED BY <2>1, <2>2, <2>3, <2>4, <2>5
<1>11. ASSUME NEW c \in Call, RefreshFails(c) PROVE Slipping'
  BY <1>5, <1>6, <1>11 DEF RefreshFails
<1>12. ASSUME NEW c \in Call, Adopt(c) PROVE Slipping'
  BY <1>5, <1>6, <1>12 DEF Adopt
<1>13. ASSUME NEW c \in Call, LoseAnswer(c) PROVE Slipping'
  BY <1>6, <1>13 DEF LoseAnswer
<1>14. ASSUME NEW t \in Token, EndToken(t) PROVE Slipping'
  BY <1>14 DEF EndToken
<1>15. CASE Deactivate \/ Activate \/ CompleteReset \/ BootFails
  BY <1>15 DEF Deactivate, Activate, CompleteReset, RevokeAll, BootFails
<1>16. CASE Tick \/ UNCHANGED vars
  BY <1>16 DEF Tick, vars
<1>17. QED
  BY <1>1, <1>2, <1>3, <1>7, <1>8, <1>9, <1>10, <1>11, <1>12, <1>13, <1>14, <1>15, <1>16 DEF Next

LEMMA LockStep == IInv /\ [Next]_vars => Counting' /\ ReadUnlocked'
<1> SUFFICES ASSUME IInv, [Next]_vars PROVE Counting' /\ ReadUnlocked'
  OBVIOUS
<1> USE SessionsAssumption DEF IInv, Types, Goto, Request, user, Counting, ReadUnlocked
<1>1. ASSUME NEW l \in Login, LoginRead(l) PROVE Counting' /\ ReadUnlocked'
  BY <1>1 DEF LoginRead, LockedRow, lockHistory
<1>2. ASSUME NEW l \in Login, LoginFails(l) PROVE Counting' /\ ReadUnlocked'
  <2>1. ReadUnlocked'
    BY <1>2 DEF LoginFails, Finish
  <2>2. ASSUME ~raced'
        PROVE  /\ attempts' = fails'
               /\ locked' # 0 <=> fails' >= Threshold
               /\ \A m \in Login : pc'[m] # "verify"
    <3>1. ~raced /\ Alone(l) /\ pc[l] = "verify"
      BY <1>2, <2>2 DEF LoginFails
    <3>2. attempts' = fails + 1 /\ fails' = fails + 1
      BY <1>2, <3>1 DEF LoginFails
    <3>3. locked' = IF attempts' >= Threshold THEN now + LockTime ELSE 0
      BY <1>2 DEF LoginFails, LockEnd
    <3>4. now + LockTime # 0
      OBVIOUS
    <3>5. \A m \in Login : pc'[m] # "verify"
      BY <1>2, <3>1 DEF LoginFails, Finish, Alone
    <3>6. QED BY <3>2, <3>3, <3>4, <3>5
  <2>3. QED BY <2>1, <2>2, Zenon DEF Counting
<1>3. ASSUME NEW l \in Login, LoginSucceeds(l) PROVE Counting' /\ ReadUnlocked'
  BY <1>3 DEF LoginSucceeds, Finish, Alone
<1>4. ASSUME \A l \in Login : pc'[l] = pc[l], UNCHANGED <<user, seen, lockHistory>>, now' >= now, now' \in Nat
      PROVE  Counting' /\ ReadUnlocked'
  BY <1>4 DEF lockHistory
<1>5. ASSUME NEW t \in Tab, NEW over \in SUBSET Call, Leave(t, over), UNCHANGED <<now, user, seen, lockHistory>>
      PROVE  Counting' /\ ReadUnlocked'
  BY <1>4, <1>5, LeaveFields
<1>6. ASSUME NEW c \in Call, Over(c), UNCHANGED <<now, user, seen, lockHistory>>
      PROVE  Counting' /\ ReadUnlocked'
  BY <1>4, <1>6, OverFields
<1>7. ASSUME NEW t \in Tab, \/ Open(t) \/ Close(t) \/ \E c \in Call : Unauthorized(c, t)
      PROVE  Counting' /\ ReadUnlocked'
  BY <1>4, <1>5, <1>7 DEF Open, Close, Unauthorized
<1>8. ASSUME NEW c \in Call, \/ RefreshRead(c) \/ RefreshWrite(c) \/ RefreshFails(c) \/ Adopt(c) \/ LoseAnswer(c)
      PROVE  Counting' /\ ReadUnlocked'
  <2>1. UNCHANGED <<now, user, seen, lockHistory>>
    BY <1>8 DEF RefreshRead, RefreshWrite, RefreshFails, Adopt, LoseAnswer
  <2>2. \/ Over(c) \/ pc' = pc
        \/ Goto(c, "rotate") \/ Goto(c, "granted")
        \/ SignOut(c) /\ pc[c] \in {"refresh", "rotate", "granted"}
    BY <1>8 DEF RefreshRead, RefreshWrite, RefreshFails, Adopt, LoseAnswer
  <2>3. QED BY <1>4, <1>5, <1>6, <2>1, <2>2 DEF SignOut
<1>9. ASSUME UNCHANGED <<attempts, locked, pc, seen, lockHistory, now>> PROVE Counting' /\ ReadUnlocked'
  BY <1>9 DEF lockHistory
<1>10. CASE \/ Deactivate \/ Activate \/ CompleteReset \/ BootFails \/ UNCHANGED vars
            \/ \E t \in Token : EndToken(t)
  BY <1>9, <1>10 DEF Deactivate, Activate, CompleteReset, BootFails, EndToken, vars
<1>11. CASE Tick
  BY <1>4, <1>11 DEF Tick
<1>12. QED
  BY <1>1, <1>2, <1>3, <1>7, <1>8, <1>10, <1>11 DEF Next
-----------------------------------------------------------------------------
LEMMA Invariance == Spec => []IInv
<1>1. Init => IInv
  <2> SUFFICES ASSUME Init PROVE IInv
    OBVIOUS
  <2> USE SessionsAssumption DEF Init, Request
  <2>1. Types
    <3>1. Unread \in [attempts : Nat, locked : Nat, active : BOOLEAN]
      BY DEF Unread
    <3>2. seen \in [Login -> [attempts : Nat, locked : Nat, active : BOOLEAN]]
      BY <3>1
    <3>3. pc \in [Request -> {"idle", "verify", "refresh", "rotate", "orphan", "granted"}]
      OBVIOUS
    <3>4. /\ used \in [Call -> Nat] /\ got \in [Call -> Nat] /\ at \in [Call -> Tab \cup {NoTab}]
          /\ stored \in Nat /\ page \in [Tab -> Nat] /\ errors \in 0..MaxErrors
          /\ \A c \in Call : at[c] \notin Tab
      OBVIOUS
    <3>5. active \in BOOLEAN /\ raced \in BOOLEAN
      BY Zenon
    <3>6. now \in Nat \ {0} /\ attempts \in Nat /\ locked \in Nat /\ fails \in Nat
      OBVIOUS
    <3>7. \A h \in Request : pc[h] = "idle"
      OBVIOUS
    <3>8. QED BY <3>2, <3>3, <3>4, <3>5, <3>6, <3>7 DEF Types
  <2>2. Issued = {} /\ Cardinality(Issued) = 0
    BY FS_EmptySet DEF Issued
  <2>3. TokensOK /\ LiveNotRotated
    BY <2>2 DEF TokensOK, LiveNotRotated
  <2>4. Slipping /\ Counting /\ ReadUnlocked
    BY DEF Slipping, Counting, ReadUnlocked
  <2>5. QED BY <2>1, <2>3, <2>4 DEF IInv
<1>2. IInv /\ [Next]_vars => IInv'
  BY TypesStep, TokensStep, SlippingStep, LockStep DEF IInv
<1>3. QED BY <1>1, <1>2, PTL DEF Spec

(* A deactivated account (delete_user, update_user) has no valid refresh   *)
(* token but those of requests that were under way, however many there are. *)
THEOREM DeactivatedCannotReturn == Spec => []DeactivatedHasNoTokens
BY Invariance, PTL DEF IInv, Slipping, DeactivatedHasNoTokens

(* The failed-login counter of login is exact, and from the threshold on   *)
(* the account has a lock, unless logins overlapped since the last success. *)
THEOREM CounterIsExact == Spec => []CounterExact
BY Invariance, PTL DEF IInv, Counting, CounterExact

(* refresh gives a new token only for one that was not yet rotated when it *)
(* looked it up.                                                           *)
THEOREM RotationHolds == Spec => RotatedIsRefused
<1> DEFINE A == \A c \in Call : pc[c] = "refresh" /\ pc'[c] = "rotate" =>
                  \A k \in Issued : parent[k] # used[c]
<1>1. IInv /\ [Next]_vars => [A]_vars
  <2> SUFFICES ASSUME IInv, Next, NEW c \in Call, pc[c] = "refresh", pc'[c] = "rotate"
               PROVE  \A k \in Issued : parent[k] # used[c]
    OBVIOUS
  <2> USE SessionsAssumption DEF IInv, Types, Goto, Request
  <2>1. used[c] \in live
    <3>1. ASSUME NEW t \in Tab, NEW over \in SUBSET Call, Leave(t, over) PROVE FALSE
      BY <3>1, LeaveFields
    <3>2. ASSUME NEW d \in Call, Over(d) PROVE FALSE
      BY <3>2, OverFields
    <3>3. ASSUME NEW d \in Call, pc[d] \in {"refresh", "rotate", "granted"}, SignOut(d) PROVE FALSE
      BY <3>1, <3>3 DEF SignOut
    <3>4. ASSUME NEW d \in Call, RefreshRead(d) PROVE used[c] \in live
      BY <3>3, <3>4 DEF RefreshRead, Honoured
    <3>5. ASSUME NEW d \in Call, RefreshWrite(d) \/ RefreshFails(d) \/ LoseAnswer(d) \/ Adopt(d) PROVE FALSE
      BY <3>2, <3>3, <3>5 DEF RefreshWrite, RefreshFails, LoseAnswer, Adopt
    <3>6. ASSUME NEW t \in Tab, Open(t) \/ Close(t) \/ \E d \in Call : Unauthorized(d, t) PROVE FALSE
      BY <3>1, <3>6 DEF Open, Close, Unauthorized
    <3>7. ASSUME NEW l \in Login, LoginRead(l) \/ LoginFails(l) \/ LoginSucceeds(l) PROVE FALSE
      BY <3>7 DEF LoginRead, LoginFails, LoginSucceeds, Finish
    <3>8. QED
      BY <3>4, <3>5, <3>6, <3>7 DEF Next, EndToken, Deactivate, Activate, CompleteReset, BootFails, Tick
  <2>2. QED BY <2>1 DEF LiveNotRotated
<1>2. QED BY <1>1, Invariance, PTL DEF Spec, RotatedIsRefused

(* A lock that has not run out is lifted only by a login that read the row *)
(* before that lock was set.                                               *)
THEOREM LockHolds == Spec => LockLiftedByStale
<1> DEFINE A == now < locked /\ locked' < locked =>
                  \E l \in Login : pc[l] = "verify" /\ pc'[l] = "idle" /\ seen[l].locked # locked
<1>1. IInv /\ [Next]_vars => [A]_vars
  <2> SUFFICES ASSUME IInv, Next, now < locked, locked' < locked
               PROVE  \E l \in Login : pc[l] = "verify" /\ pc'[l] = "idle" /\ seen[l].locked # locked
    OBVIOUS
  <2> USE SessionsAssumption DEF IInv, Types, Goto, Request
  <2>1. ASSUME NEW l \in Login, LoginFails(l) \/ LoginSucceeds(l)
        PROVE  pc[l] = "verify" /\ pc'[l] = "idle" /\ seen[l].locked # locked
    BY <2>1 DEF LoginFails, LoginSucceeds, Finish, ReadUnlocked
  <2>2. ~UNCHANGED locked
    OBVIOUS
  <2>3. PICK l \in Login : LoginFails(l) \/ LoginSucceeds(l)
    BY <2>2 DEF Next, LoginRead, Open, Close, Unauthorized, RefreshRead, RefreshWrite, RefreshFails, Adopt,
                LoseAnswer, EndToken, Deactivate, Activate, CompleteReset, BootFails, Tick, user
  <2>4. QED BY <2>1, <2>3
<1>2. QED BY <1>1, Invariance, PTL DEF Spec, LockLiftedByStale

-----------------------------------------------------------------------------
(* Where each token that a tab, a call or localStorage holds has gone: it  *)
(* was not replaced, or nobody got the one that replaced it, or it was     *)
(* shared.  Only the request that replaces a token takes it out of these.  *)
Accounted == (Issued \ Replaced) \cup lost \cup shared

Granted(k) == \E d \in Call : pc[d] = "granted" /\ used[d] = k
Held(k) == k # 0 => k \in Accounted \/ Granted(k)
BrowserTraced == Held(stored) /\ \A t \in Tab : Held(page[t])

(* An idle call holds nothing, and one to refresh nothing that is replaced. *)
Traced(c) ==
  /\ pc[c] = "idle" => used[c] = 0
  /\ pc[c] = "refresh" => used[c] \in Accounted

(* What two tabs, two calls, or a call and another tab hold, is shared. *)
Meets(c) ==
  used[c] # 0 =>
    /\ \A d \in Call \ {c} : used[c] = used[d] => used[c] \in shared
    /\ \A t \in Tab : t # at[c] /\ page[t] = used[c] => used[c] \in shared
TabsMeet ==
  \A t \in Tab : \A u \in Tab \ {t} : page[t] = page[u] /\ page[t] # 0 => page[t] \in shared

(* Nobody but the call that was granted a token holds it. *)
Fresh(c) ==
  pc[c] = "granted" =>
    /\ got[c] \in Accounted /\ got[c] # stored /\ \A t \in Tab : got[c] # page[t]
    /\ \A d \in Call : used[d] # got[c] /\ (d # c /\ pc[d] = "granted" => got[d] # got[c])

TraceInv == BrowserTraced /\ TabsMeet /\ \A c \in Call : Traced(c) /\ Meets(c) /\ Fresh(c)

LEMMA TraceKept ==
  ASSUME TraceInv, UNCHANGED <<stored, page, at, used, got>>, \A c \in Call : pc'[c] = pc[c],
         shared \subseteq shared', Accounted \subseteq Accounted'
  PROVE  TraceInv'
BY DEF TraceInv, BrowserTraced, Held, Granted, TabsMeet, Traced, Meets, Fresh

LEMMA AccountedGrows ==
  ASSUME UNCHANGED parent, lost \subseteq lost', shared \subseteq shared'
  PROVE  Accounted \subseteq Accounted'
BY DEF Accounted, Issued, Replaced

(* A new token is nobody's yet, and only the token it replaces is replaced. *)
LEMMA NewTokenFresh ==
  ASSUME IInv, TraceInv
  PROVE  /\ NewToken \notin Issued /\ NewToken # 0
         /\ \A d \in Call : used[d] \in Issued \cup {0} /\ used[d] # NewToken
         /\ \A d \in Call : pc[d] = "granted" => got[d] # NewToken
         /\ stored # NewToken /\ \A t \in Tab : page[t] # NewToken
<1>1. NewToken \notin Issued /\ NewToken # 0
  BY DEF IInv, TokensOK, NewToken
<1>2. \A d \in Call : used[d] \in Issued \cup {0}
  BY DEF IInv, TokensOK, TraceInv, Traced
<1>3. \A d \in Call : pc[d] = "granted" => got[d] \in Issued
  BY DEF IInv, TokensOK
<1>4. stored \in Issued \cup {0} /\ \A t \in Tab : page[t] \in Issued \cup {0}
  BY DEF IInv, TokensOK
<1>5. QED BY <1>1, <1>2, <1>3, <1>4

LEMMA IssueAccounted ==
  ASSUME IInv, TraceInv, NEW h \in Request, NEW k \in Issued \cup {0}, Issue(h, k),
         lost \subseteq lost', shared' = shared
  PROVE  NewToken \in Accounted' /\ \A j \in Accounted : j # k => j \in Accounted'
<1>1. /\ Issued' = Issued \cup {NewToken} /\ NewToken \notin Issued /\ NewToken \in Nat
      /\ \A j \in Issued' : parent'[j] \in 0..j - 1
  BY IssueFields DEF IInv, TokensOK, NewToken
<1>2. \A j \in Issued' : parent'[j] = IF j = NewToken THEN k ELSE parent[j]
  BY <1>1 DEF Issue
<1>3. Replaced' = Replaced \cup {k}
  BY <1>1, <1>2 DEF Replaced
<1>4. NewToken \notin Replaced'
  <2>1. \A j \in Issued : parent[j] \in 0..j - 1 /\ j < NewToken /\ j \in Nat
    BY DEF IInv, TokensOK, NewToken
  <2>2. NewToken # k
    BY <1>1, NewTokenFresh
  <2>3. NewToken \notin Replaced
    BY <1>1, <2>1 DEF Replaced
  <2>4. QED BY <1>3, <2>2, <2>3
<1>5. QED BY <1>1, <1>3, <1>4 DEF Accounted

(* A tab goes, and with it what it and its calls hold. *)
LEMMA LeaveTrace ==
  ASSUME IInv, TraceInv, NEW t \in Tab, NEW over \in SUBSET Call, Leave(t, over),
         stored' \in {stored, 0}, UNCHANGED <<parent, shared>>
  PROVE  TraceInv'
<1>1. /\ page' = [page EXCEPT ![t] = 0] /\ lost \subseteq lost'
      /\ \A d \in Call :
           \/ /\ at[d] # t /\ at'[d] = at[d] /\ pc'[d] = pc[d]
              /\ used'[d] = used[d] /\ got'[d] = got[d]
           \/ /\ at[d] = t /\ at'[d] = NoTab
              /\ pc[d] = "rotate" /\ pc'[d] = "orphan" /\ used'[d] = used[d]
           \/ /\ at[d] = t /\ at'[d] = NoTab /\ pc'[d] = "idle" /\ used'[d] = 0
              /\ pc[d] = "granted" => used[d] \in lost'
  BY LeaveFields DEF IInv
<1>2. Accounted \subseteq Accounted'
  BY <1>1, AccountedGrows
<1>3. \A u \in Tab : page'[u] = IF u = t THEN 0 ELSE page[u]
  BY <1>1 DEF IInv, Types
<1>4. ASSUME NEW k, Held(k) PROVE Held(k)'
  <2>1. SUFFICES ASSUME k # 0, k \notin Accounted PROVE k \in Accounted' \/ Granted(k)'
    BY <1>2 DEF Held
  <2>2. PICK d \in Call : pc[d] = "granted" /\ used[d] = k
    BY <1>4, <2>1 DEF Held, Granted
  <2>3. CASE at[d] # t
    BY <1>1, <2>2, <2>3 DEF Granted
  <2>4. CASE at[d] = t
    BY <1>1, <2>2, <2>4 DEF Accounted
  <2>5. QED BY <2>3, <2>4
<1>5. BrowserTraced'
  <2>1. Held(stored)'
    BY <1>4 DEF TraceInv, BrowserTraced, Held
  <2>2. \A u \in Tab : Held(page[u])'
    BY <1>3, <1>4 DEF TraceInv, BrowserTraced, Held
  <2>3. QED BY <2>1, <2>2 DEF BrowserTraced
<1>6. TabsMeet'
  BY <1>3 DEF TraceInv, TabsMeet
<1>7. ASSUME NEW d \in Call PROVE Traced(d)'
  BY <1>1, <1>2 DEF TraceInv, Traced
<1>8. ASSUME NEW d \in Call PROVE Meets(d)'
  BY <1>1, <1>3 DEF TraceInv, Meets
<1>9. ASSUME NEW d \in Call PROVE Fresh(d)'
  <2>1. SUFFICES ASSUME pc'[d] = "granted" PROVE Fresh(d)'
    BY DEF Fresh
  <2>2. pc[d] = "granted" /\ got'[d] = got[d] /\ got[d] # 0
    BY <1>1, <2>1 DEF IInv, TokensOK
  <2>3. \A e \in Call : used'[e] \in {used[e], 0} /\ (pc'[e] = "granted" => pc[e] = "granted" /\ got'[e] = got[e])
    BY <1>1
  <2>4. QED BY <1>2, <1>3, <2>2, <2>3 DEF TraceInv, Fresh
<1>10. QED BY <1>5, <1>6, <1>7, <1>8, <1>9 DEF TraceInv

LEMMA SignOutTrace ==
  ASSUME IInv, TraceInv, NEW c \in Call, pc[c] \in {"refresh", "rotate", "granted"}, SignOut(c),
         UNCHANGED <<parent, shared>>
  PROVE  TraceInv'
BY LeaveTrace DEF SignOut, IInv, Types

LEMMA OpenTrace ==
  ASSUME IInv, TraceInv, NEW t \in Tab, Open(t)
  PROVE  TraceInv'
<1>1. /\ stored # 0 /\ page[t] = 0 /\ UNCHANGED <<stored, at, used, got, pc>>
      /\ \A u \in Tab : page'[u] = IF u = t THEN stored ELSE page[u]
      /\ shared \subseteq shared' /\ Accounted \subseteq Accounted'
      /\ \A u \in Tab : page[u] = stored => stored \in shared'
      /\ \A c \in Call : used[c] = stored => stored \in shared'
  <2>1. shared' = IF Holders(stored) \cup Users(stored) = {} THEN shared ELSE shared \cup {stored}
    BY DEF Open, Share
  <2>2. \A u \in Tab : page[u] = stored => u \in Holders(stored)
    BY DEF Holders
  <2>3. \A c \in Call : used[c] = stored => c \in Users(stored)
    BY DEF Users
  <2>4. shared \subseteq shared'
    BY <2>1
  <2>5. Accounted \subseteq Accounted'
    BY <2>4, AccountedGrows DEF Open, tokens
  <2>6. QED BY <2>1, <2>2, <2>3, <2>4, <2>5 DEF Open, IInv, Types
<1>2. BrowserTraced'
  BY <1>1 DEF TraceInv, BrowserTraced, Held, Granted
<1>3. TabsMeet'
  BY <1>1 DEF TraceInv, TabsMeet
<1>4. ASSUME NEW c \in Call PROVE Traced(c)' /\ Meets(c)'
  BY <1>1 DEF TraceInv, Traced, Meets
<1>5. ASSUME NEW c \in Call PROVE Fresh(c)'
  BY <1>1 DEF TraceInv, Fresh
<1>6. QED BY <1>2, <1>3, <1>4, <1>5 DEF TraceInv

LEMMA UnauthorizedTrace ==
  ASSUME IInv, TraceInv, NEW c \in Call, NEW t \in Tab, Unauthorized(c, t)
  PROVE  TraceInv'
<1>1. /\ page[t] # 0 /\ UNCHANGED <<stored, page, got>>
      /\ pc[c] = "idle" /\ pc'[c] = "refresh" /\ used'[c] = page[t] /\ at'[c] = t
      /\ \A d \in Call \ {c} : pc'[d] = pc[d] /\ used'[d] = used[d] /\ at'[d] = at[d]
      /\ shared \subseteq shared' /\ Accounted \subseteq Accounted'
      /\ \A d \in Call : used[d] = page[t] => page[t] \in shared'
  <2>1. shared' = IF Users(page[t]) = {} THEN shared ELSE shared \cup {page[t]}
    BY DEF Unauthorized, Share
  <2>2. \A d \in Call : used[d] = page[t] => d \in Users(page[t])
    BY DEF Users
  <2>3. shared \subseteq shared'
    BY <2>1
  <2>4. Accounted \subseteq Accounted'
    BY <2>3, AccountedGrows DEF Unauthorized, tokens
  <2>5. QED BY <2>1, <2>2, <2>3, <2>4 DEF Unauthorized, Goto, IInv, Types, Request
<1>2. \A d \in Call : pc[d] = "granted" => pc'[d] = "granted" /\ used'[d] = used[d]
  BY <1>1
<1>3. BrowserTraced' /\ TabsMeet'
  BY <1>1, <1>2 DEF TraceInv, BrowserTraced, Held, Granted, TabsMeet
<1>4. ASSUME NEW d \in Call PROVE Traced(d)'
  <2>1. CASE d = c
    <3>1. page[t] \in Accounted \/ page[t] \in shared'
      BY <1>1 DEF TraceInv, BrowserTraced, Held, Granted
    <3>2. QED BY <1>1, <2>1, <3>1 DEF Traced, Accounted
  <2>2. CASE d # c
    BY <1>1, <2>2 DEF TraceInv, Traced
  <2>3. QED BY <2>1, <2>2
<1>5. ASSUME NEW d \in Call PROVE Meets(d)'
  <2>1. CASE d = c
    BY <1>1, <2>1 DEF TraceInv, Meets, TabsMeet
  <2>2. CASE d # c
    BY <1>1, <2>2 DEF TraceInv, Meets
  <2>3. QED BY <2>1, <2>2
<1>6. ASSUME NEW d \in Call PROVE Fresh(d)'
  BY <1>1 DEF TraceInv, Fresh
<1>7. QED BY <1>3, <1>4, <1>5, <1>6 DEF TraceInv

LEMMA LoginTrace ==
  ASSUME IInv, TraceInv, NEW l \in Login, LoginSucceeds(l)
  PROVE  TraceInv'
<1>1. /\ UNCHANGED <<page, at, used, got, shared>> /\ stored' \in {stored, NewToken}
      /\ \A c \in Call : pc'[c] = pc[c]
  BY SessionsAssumption DEF LoginSucceeds, Finish, Goto, IInv, Types, Request
<1>2. NewToken \in Accounted' /\ Accounted \subseteq Accounted'
  <2>1. Issue(l, 0) /\ lost' = lost
    BY DEF LoginSucceeds
  <2>2. NewToken \in Accounted' /\ \A j \in Accounted : j # 0 => j \in Accounted'
    BY <1>1, <2>1, IssueAccounted DEF Request
  <2>3. 0 \in Accounted => 0 \in lost \cup shared
    BY DEF Accounted, IInv, TokensOK
  <2>4. QED BY <1>1, <2>1, <2>2, <2>3 DEF Accounted
<1>3. CASE stored' = stored
  BY <1>1, <1>2, <1>3, TraceKept
<1>4. CASE stored' = NewToken
  <2>1. \A d \in Call : pc[d] = "granted" => got[d] # NewToken
    BY NewTokenFresh
  <2>2. BrowserTraced' /\ TabsMeet'
    BY <1>1, <1>2, <1>4 DEF TraceInv, BrowserTraced, Held, Granted, TabsMeet
  <2>3. \A c \in Call : Traced(c)' /\ Meets(c)' /\ Fresh(c)'
    BY <1>1, <1>2, <1>4, <2>1 DEF TraceInv, Traced, Meets, Fresh
  <2>4. QED BY <2>2, <2>3 DEF TraceInv
<1>5. QED BY <1>1, <1>3, <1>4

(* A token is replaced.  Whoever else held it shared it. *)
LEMMA RefreshWriteTrace ==
  ASSUME IInv, TraceInv, NEW c \in Call, RefreshWrite(c)
  PROVE  TraceInv'
<1>1. /\ UNCHANGED <<stored, page, shared>> /\ pc[c] \in {"rotate", "orphan"} /\ Issue(c, used[c])
      /\ used[c] \in Issued /\ used[c] # 0
  BY DEF RefreshWrite, IInv, TokensOK
<1>2. /\ \A d \in Call \ {c} : /\ pc'[d] = pc[d] /\ at'[d] = at[d]
                               /\ used'[d] = used[d] /\ got'[d] = got[d]
      /\ lost \subseteq lost'
      /\ \/ pc'[c] = "idle" /\ used'[c] = 0 /\ used[c] \in lost'
         \/ pc'[c] = "granted" /\ used'[c] = used[c] /\ at'[c] = at[c] /\ got'[c] = NewToken
  <2>1. CASE pc[c] = "orphan"
    BY <2>1, OverFields DEF RefreshWrite, IInv
  <2>2. CASE pc[c] # "orphan"
    BY <2>2 DEF RefreshWrite, Goto, IInv, Types, Request
  <2>3. QED BY <2>1, <2>2
<1>3. NewToken \in Accounted' /\ \A j \in Accounted : j # used[c] => j \in Accounted'
  BY <1>1, <1>2, IssueAccounted DEF Request
<1>4. used[c] \in lost' \cup shared' => used[c] \in Accounted'
  BY DEF Accounted
<1>5. /\ NewToken # 0 /\ stored # NewToken /\ \A t \in Tab : page[t] # NewToken
      /\ \A d \in Call : used[d] # NewToken
      /\ \A d \in Call : pc[d] = "granted" => got[d] # NewToken
  BY NewTokenFresh
<1>6. ASSUME NEW k, Held(k) PROVE Held(k)'
  <2>1. CASE k = used[c]
    BY <1>1, <1>2, <1>4, <2>1 DEF Held, Granted
  <2>2. CASE k # used[c] /\ k \in Accounted
    BY <1>3, <2>2 DEF Held
  <2>3. CASE k # used[c] /\ Granted(k)
    BY <1>2, <2>3 DEF Held, Granted
  <2>4. QED BY <1>6, <2>1, <2>2, <2>3 DEF Held
<1>7. BrowserTraced' /\ TabsMeet'
  BY <1>1, <1>6 DEF TraceInv, BrowserTraced, Held, TabsMeet
<1>8. ASSUME NEW d \in Call PROVE Traced(d)'
  <2>1. CASE d = c
    BY <1>2, <2>1 DEF Traced
  <2>2. CASE d # c
    <3>1. used[d] = used[c] => used[d] \in shared'
      BY <1>1, <2>2 DEF TraceInv, Meets
    <3>2. QED BY <1>2, <1>3, <1>4, <2>2, <3>1 DEF TraceInv, Traced
  <2>3. QED BY <2>1, <2>2
<1>9. ASSUME NEW d \in Call PROVE Meets(d)'
  BY <1>1, <1>2 DEF TraceInv, Meets
<1>10. ASSUME NEW d \in Call PROVE Fresh(d)'
  <2>1. CASE d = c
    BY <1>1, <1>2, <1>3, <1>5, <2>1 DEF TraceInv, Fresh
  <2>2. CASE d # c
    <3>1. ASSUME pc[d] = "granted"
          PROVE  got[d] \in Accounted' /\ \A e \in Call : used'[e] # got[d]
      <4>1. got[d] # 0 /\ got[d] # used[c]
        BY <3>1 DEF IInv, TokensOK, TraceInv, Fresh
      <4>2. QED BY <1>2, <1>3, <3>1, <4>1 DEF TraceInv, Fresh
    <3>2. QED BY <1>1, <1>2, <1>5, <2>2, <3>1 DEF TraceInv, Fresh
  <2>3. QED BY <2>1, <2>2
<1>11. QED BY <1>7, <1>8, <1>9, <1>10 DEF TraceInv

(* A call is over: its answer is the browser's token, or was lost, or it   *)
(* never had one.                                                          *)
LEMMA OverTrace ==
  ASSUME IInv, TraceInv, NEW c \in Call, Over(c), UNCHANGED <<parent, shared>>, lost \subseteq lost',
         \/ /\ pc[c] = "granted" /\ stored' = got[c]
            /\ page' = [page EXCEPT ![at[c]] = got[c]]
         \/ UNCHANGED <<stored, page>> /\ (pc[c] = "granted" => used[c] \in lost')
  PROVE  TraceInv'
<1>1. /\ pc'[c] = "idle" /\ used'[c] = 0
      /\ \A d \in Call \ {c} : /\ pc'[d] = pc[d] /\ at'[d] = at[d]
                               /\ used'[d] = used[d] /\ got'[d] = got[d]
  BY OverFields DEF IInv
<1>2. Accounted \subseteq Accounted'
  BY AccountedGrows
<1>3. ASSUME NEW k, Held(k), k # used[c] \/ k \in Accounted' \/ pc[c] # "granted" PROVE Held(k)'
  BY <1>1, <1>2, <1>3 DEF Held, Granted
<1>4. ASSUME NEW d \in Call PROVE Traced(d)'
  BY <1>1, <1>2 DEF TraceInv, Traced
<1>5. CASE UNCHANGED <<stored, page>> /\ (pc[c] = "granted" => used[c] \in lost')
  <2>1. \A k : Held(k) => Held(k)'
    BY <1>3, <1>5 DEF Accounted
  <2>2. BrowserTraced' /\ TabsMeet'
    BY <1>5, <2>1 DEF TraceInv, BrowserTraced, TabsMeet
  <2>3. ASSUME NEW d \in Call PROVE Meets(d)'
    BY <1>1, <1>5 DEF TraceInv, Meets
  <2>4. ASSUME NEW d \in Call PROVE Fresh(d)'
    <3>1. pc[d] = "granted" => got[d] # 0
      BY DEF IInv, TokensOK
    <3>2. QED BY <1>1, <1>2, <1>5, <3>1 DEF TraceInv, Fresh
  <2>5. QED BY <1>4, <2>2, <2>3, <2>4 DEF TraceInv
<1>6. CASE pc[c] = "granted" /\ stored' = got[c] /\ page' = [page EXCEPT ![at[c]] = got[c]]
  <2>1. /\ got[c] \in Accounted /\ got[c] # 0 /\ \A t \in Tab : got[c] # page[t]
        /\ \A d \in Call : used[d] # got[c] /\ (d # c /\ pc[d] = "granted" => got[d] # got[c])
    BY <1>6 DEF TraceInv, Fresh, IInv, TokensOK
  <2>2. \A t \in Tab : page'[t] = IF t = at[c] THEN got[c] ELSE page[t]
    BY <1>6 DEF IInv, Types
  <2>3. ASSUME NEW t \in Tab, t # at[c] PROVE Held(page[t])'
    <3>1. page[t] = used[c] => page[t] = 0 \/ page[t] \in Accounted
      BY <2>3 DEF TraceInv, Meets, Accounted
    <3>2. Held(page[t])
      BY DEF TraceInv, BrowserTraced
    <3>3. page'[t] = page[t]
      BY <2>2, <2>3
    <3>4. QED BY <1>1, <1>2, <3>1, <3>2, <3>3 DEF Held, Granted
  <2>4. BrowserTraced'
    <3>1. Held(stored)'
      BY <1>2, <1>6, <2>1 DEF Held
    <3>2. ASSUME NEW t \in Tab PROVE Held(page[t])'
      <4>1. CASE t = at[c]
        BY <1>2, <2>1, <2>2, <4>1 DEF Held
      <4>2. CASE t # at[c]
        BY <2>3, <4>2
      <4>3. QED BY <4>1, <4>2
    <3>3. QED BY <3>1, <3>2 DEF BrowserTraced
  <2>5. TabsMeet'
    BY <2>1, <2>2 DEF TraceInv, TabsMeet
  <2>6. ASSUME NEW d \in Call PROVE Meets(d)'
    BY <1>1, <2>1, <2>2 DEF TraceInv, Meets
  <2>7. ASSUME NEW d \in Call PROVE Fresh(d)'
    <3>1. pc[d] = "granted" => got[d] # 0
      BY DEF IInv, TokensOK
    <3>2. QED BY <1>1, <1>2, <1>6, <2>1, <2>2, <3>1 DEF TraceInv, Fresh
  <2>8. QED BY <1>4, <2>4, <2>5, <2>6, <2>7 DEF TraceInv
<1>7. QED BY <1>5, <1>6

LEMMA TraceStep == IInv /\ TraceInv /\ [Next]_vars => TraceInv'
<1> SUFFICES ASSUME IInv, TraceInv, [Next]_vars PROVE TraceInv'
  OBVIOUS
<1>1. ASSUME NEW l \in Login, LoginRead(l) \/ LoginFails(l) PROVE TraceInv'
  <2>1. /\ UNCHANGED <<stored, page, at, used, got, parent, lost, shared>>
        /\ \A c \in Call : pc'[c] = pc[c]
    BY <1>1, SessionsAssumption
       DEF LoginRead, LoginFails, Finish, Goto, tokens, client, history, IInv, Types, Request
  <2>2. QED BY <2>1, AccountedGrows, TraceKept
<1>2. ASSUME NEW l \in Login, LoginSucceeds(l) PROVE TraceInv'
  BY <1>2, LoginTrace
<1>3. ASSUME NEW t \in Tab, Open(t) PROVE TraceInv'
  BY <1>3, OpenTrace
<1>4. ASSUME NEW t \in Tab, Close(t) PROVE TraceInv'
  BY <1>4, LeaveTrace DEF Close, tokens
<1>5. ASSUME NEW c \in Call, NEW t \in Tab, Unauthorized(c, t) PROVE TraceInv'
  BY <1>5, UnauthorizedTrace
<1>6. ASSUME NEW c \in Call, RefreshRead(c) PROVE TraceInv'
  <2>1. UNCHANGED <<parent, shared>> /\ pc[c] = "refresh"
    BY <1>6 DEF RefreshRead, tokens
  <2>2. CASE SignOut(c)
    BY <2>1, <2>2, SignOutTrace
  <2>3. CASE ~SignOut(c)
    <3>1. Goto(c, "rotate") /\ UNCHANGED <<stored, page, at, used, got, lost>>
      BY <1>6, <2>3 DEF RefreshRead, client
    <3>2. pc'[c] = "rotate" /\ \A d \in Call \ {c} : pc'[d] = pc[d]
      BY <3>1 DEF Goto, IInv, Types, Request
    <3>3. Accounted' = Accounted
      BY <2>1, <3>1 DEF Accounted, Issued, Replaced
    <3>4. \A k : Held(k) => Held(k)'
      BY <2>1, <3>1, <3>2, <3>3 DEF Held, Granted
    <3>5. QED BY <2>1, <3>1, <3>2, <3>3, <3>4 DEF TraceInv, BrowserTraced, TabsMeet, Traced, Meets, Fresh
  <2>4. QED BY <2>2, <2>3
<1>7. ASSUME NEW c \in Call, RefreshWrite(c) PROVE TraceInv'
  BY <1>7, RefreshWriteTrace
<1>8. ASSUME NEW c \in Call, RefreshFails(c) PROVE TraceInv'
  <2>1. UNCHANGED <<parent, shared>>
    BY <1>8 DEF RefreshFails, tokens
  <2>2. CASE pc[c] = "orphan"
    BY <1>8, <2>1, <2>2, OverTrace DEF RefreshFails
  <2>3. CASE pc[c] # "orphan"
    BY <1>8, <2>1, <2>3, SignOutTrace DEF RefreshFails
  <2>4. QED BY <2>2, <2>3
<1>9. ASSUME NEW c \in Call, Adopt(c) PROVE TraceInv'
  <2>1. UNCHANGED <<parent, shared>> /\ pc[c] = "granted"
    BY <1>9 DEF Adopt, tokens
  <2>2. CASE active
    BY <1>9, <2>1, <2>2, OverTrace DEF Adopt
  <2>3. CASE ~active
    BY <1>9, <2>1, <2>3, SignOutTrace DEF Adopt
  <2>4. QED BY <2>2, <2>3
<1>10. ASSUME NEW c \in Call, LoseAnswer(c) PROVE TraceInv'
  BY <1>10, OverTrace DEF LoseAnswer, tokens
<1>11. CASE BootFails
  <2>1. stored' = 0 /\ UNCHANGED <<page, at, used, got, pc, parent, lost, shared>>
    BY <1>11 DEF BootFails, tokens
  <2>2. Accounted' = Accounted
    BY <2>1 DEF Accounted, Issued, Replaced
  <2>3. \A c \in Call : pc[c] = "granted" => got[c] # 0
    BY DEF IInv, TokensOK
  <2>4. QED BY <2>1, <2>2, <2>3 DEF TraceInv, BrowserTraced, Held, Granted, TabsMeet, Traced, Meets, Fresh
<1>12. CASE \/ Deactivate \/ Activate \/ CompleteReset \/ Tick \/ UNCHANGED vars
            \/ \E t \in Token : EndToken(t)
  <2>1. UNCHANGED <<stored, page, at, used, got, pc, parent, lost, shared>>
    BY <1>12 DEF Deactivate, Activate, CompleteReset, Tick, EndToken, vars, tokens, client, history
  <2>2. QED BY <2>1, AccountedGrows, TraceKept
<1>13. QED
  BY <1>1, <1>2, <1>3, <1>4, <1>5, <1>6, <1>7, <1>8, <1>9, <1>10, <1>11, <1>12 DEF Next

LEMMA TraceInvariance == Spec => []TraceInv
<1>1. Init => TraceInv
  BY DEF Init, TraceInv, BrowserTraced, Held, TabsMeet, Traced, Meets, Fresh
<1>2. QED BY <1>1, TraceStep, Invariance, PTL DEF Spec

(* The browser loses its session only if the account is not active, the    *)
(* server answered an error, or a refresh was refused whose token was      *)
(* ended, whose answer was lost, or which two calls or two tabs shared     *)
(* (api(), boot() and logout() of app.js, refresh and the routes that      *)
(* revoke of auth.py): for any number of tabs, calls, tokens and errors.   *)
THEOREM SignOutIsCaused == Spec => SignOutHasCause
<1> DEFINE Cause(c) == /\ pc[c] = "refresh" /\ pc'[c] = "idle"
                       /\ used[c] \in (Issued \ (live \cup Replaced)) \cup lost \cup shared
           A == stored # 0 /\ stored' = 0 => ~active \/ errors' > errors \/ \E c \in Call : Cause(c)
<1>1. IInv /\ TraceInv /\ [Next]_vars => [A]_vars
  <2> SUFFICES ASSUME IInv, TraceInv, Next, stored # 0, stored' = 0, active, ~(errors' > errors)
               PROVE  \E c \in Call : Cause(c)
    OBVIOUS
  <2>1. PICK c \in Call : RefreshRead(c)
    <3>1. ASSUME NEW l \in Login, LoginRead(l) \/ LoginFails(l) \/ LoginSucceeds(l) PROVE FALSE
      BY <3>1, NewTokenFresh DEF LoginRead, LoginFails, LoginSucceeds, client
    <3>2. ASSUME NEW t \in Tab, Open(t) \/ Close(t) \/ \E d \in Call : Unauthorized(d, t) PROVE FALSE
      BY <3>2 DEF Open, Close, Unauthorized
    <3>3. ASSUME NEW d \in Call, RefreshWrite(d) \/ LoseAnswer(d) \/ Adopt(d) PROVE FALSE
      BY <3>3 DEF RefreshWrite, LoseAnswer, Adopt, IInv, TokensOK
    <3>4. ASSUME BootFails \/ \E d \in Call : RefreshFails(d) PROVE FALSE
      <4>1. errors \in Int /\ errors' = errors + 1
        BY <3>4 DEF BootFails, RefreshFails, IInv, Types
      <4>2. QED BY <4>1
    <3>5. QED
      BY <3>1, <3>2, <3>3, <3>4
         DEF Next, EndToken, Deactivate, Activate, CompleteReset, Tick, client
  <2>2. SignOut(c) /\ used[c] \notin live /\ pc[c] = "refresh"
    BY <2>1 DEF RefreshRead, Honoured, client
  <2>3. pc'[c] = "idle"
    BY <2>2, LeaveFields DEF SignOut, IInv, Types
  <2>4. used[c] \in Accounted
    BY <2>2 DEF TraceInv, Traced
  <2>5. Cause(c)
    BY <2>2, <2>3, <2>4 DEF Accounted
  <2>6. QED BY <2>5
<1>2. QED BY <1>1, Invariance, TraceInvariance, PTL DEF Spec, SignOutHasCause

-----------------------------------------------------------------------------
(* The bounds of the model. *)
Bounded == now <= Horizon /\ locked <= Horizon + LockTime /\ Issued \subseteq Token

LEMMA BoundedStep == IInv /\ Bounded /\ [Next]_vars => Bounded'
<1> SUFFICES ASSUME IInv, Bounded, [Next]_vars PROVE Bounded'
  OBVIOUS
<1>1. /\ now \in Nat /\ Horizon \in Nat /\ LockTime \in Nat /\ locked \in Nat
      /\ now <= Horizon /\ locked <= Horizon + LockTime /\ Issued \subseteq Token
  BY SessionsAssumption DEF IInv, Types, Bounded
<1>2. Issued' = Issued \/ (Issued' = Issued \cup {NewToken} /\ NewToken \in Token)
  <2>1. UNCHANGED parent => Issued' = Issued
    BY DEF Issued
  <2>2. ASSUME NEW h, NEW t, Issue(h, t) PROVE Issued' = Issued \cup {NewToken} /\ NewToken \in Token
    BY <2>2 DEF Issue, Issued
  <2>3. UNCHANGED parent \/ \E h, t : Issue(h, t)
    BY DEF Next, vars, tokens, LoginRead, LoginFails, LoginSucceeds, Open, Close, Unauthorized, RefreshRead,
           RefreshWrite, RefreshFails, Adopt, LoseAnswer, EndToken, Deactivate, Activate, CompleteReset,
           BootFails, Tick
  <2>4. QED BY <2>1, <2>2, <2>3
<1>3. Issued' \subseteq Token
  BY <1>1, <1>2 DEF Token
<1>4. now' = now \/ (now < Horizon /\ now' = now + 1 /\ locked' = locked)
  BY DEF Next, vars, user, LoginRead, LoginFails, LoginSucceeds, Open, Close, Unauthorized, RefreshRead,
         RefreshWrite, RefreshFails, Adopt, LoseAnswer, EndToken, Deactivate, Activate, CompleteReset,
         BootFails, Tick
<1>5. locked' = locked \/ locked' = 0 \/ locked' = now + LockTime
  BY DEF Next, vars, user, LoginRead, LoginFails, LoginSucceeds, Open, Close, Unauthorized, RefreshRead,
         RefreshWrite, RefreshFails, Adopt, LoseAnswer, EndToken, Deactivate, Activate, CompleteReset,
         BootFails, Tick, LockEnd
<1>6. now' <= Horizon /\ locked' <= Horizon + LockTime
  BY <1>1, <1>4, <1>5
<1>7. QED BY <1>3, <1>6 DEF Bounded

(* The type invariant: refresh tokens are numbered as they are issued, and *)
(* each replaced an older one or none.                                     *)
THEOREM SessionsTypeCorrect == Spec => []TypeOK
<1>1. Init => Bounded
  BY SessionsAssumption DEF Init, Bounded, Issued
<1>2. IInv /\ Bounded => TypeOK
  BY SessionsAssumption DEF IInv, Types, TokensOK, Bounded, TypeOK, Request
<1>3. QED BY <1>1, <1>2, BoundedStep, Invariance, PTL DEF Spec
=============================================================================

-------------------------- MODULE ProvisioningProofs --------------------------
(***************************************************************************)
(* Proofs about Provisioning, for every set of requests and addresses,     *)
(* every length of an import and every combination of faults.  The         *)
(* inductive invariant follows an account from the call that created it:   *)
(* unless a failure fell on it, the request that made it is either still   *)
(* between the call and its answer or has a result that says ok.           *)
(***************************************************************************)
EXTENDS Provisioning, TLAPS

Result == {"ok", "failed", "skipped"}

(* The shape of what TypeOK leaves open. *)
Shapes ==
  /\ rows \in [Request -> Seq(Email \cup {Blank, Short})]
  /\ out \in [Request -> Seq(Result)]
  /\ maker \in [Email -> {<<>>} \cup (Request \X (Nat \ {0}))]

(* Where a request may be: a call is about a row that is left, a write     *)
(* comes after the call it is about, and a retrieval has one row.          *)
Position(r) ==
  /\ pc[r] = "idle" => out[r] = <<>>
  /\ pc[r] \in {"call", "audit", "store"} => Len(out[r]) < Len(rows[r]) /\ Row(r) \in Email
  /\ pc[r] = "call" => job[r] \in {"create", "eject"}
  /\ pc[r] \in {"row", "audit"} /\ job[r] = "read" =>
       Len(rows[r]) = 1 /\ (pc[r] = "row" => Len(out[r]) = 1)
  /\ pc[r] \in {"audit", "store"} /\ job[r] = "create" => member[Row(r)] # "none"
  /\ pc[r] = "store" => job[r] = "create" /\ Event(r) \in audit

(* The i-th row of r has everything a result that says ok promises. *)
Recorded(r, i) ==
  /\ <<job[r], rows[r][i]>> \in audit
  /\ job[r] = "create" => member[rows[r][i]] # "none" /\ (vaultOn => rows[r][i] \in vault)
Promises(r) == \A i \in DOMAIN out[r] :
  /\ out[r][i] = "ok" => Recorded(r, i)
  /\ out[r][i] = "failed" => rows[r][i] \in Email

(* The i-th row of r created e, and is answered or about to be. *)
MadeBy(e, r, i) ==
  /\ maker[e] = <<r, i>> /\ job[r] = "create" /\ rows[r][i] = e
  /\ \/ i \in DOMAIN out[r] /\ out[r][i] = "ok"
     \/ i = Len(out[r]) + 1 /\ pc[r] \in {"audit", "store"}
Made(e) ==
  /\ member[e] = "none" => maker[e] = <<>>
  /\ e \notin struck /\ member[e] # "none" => \E r \in Request, i \in Nat \ {0} : MadeBy(e, r, i)
Gone(e) ==
  e \notin struck /\ member[e] = "ejected" =>
    \/ <<"eject", e>> \in audit
    \/ \E r \in Request : pc[r] = "audit" /\ job[r] = "eject" /\ Row(r) = e

Typed == TypeOK /\ Shapes
IInv ==
  /\ Typed
  /\ \A r \in Request : Position(r) /\ Promises(r)
  /\ VaultedIsAudited
  /\ \A e \in Email : Made(e) /\ Gone(e)

LEMMA InitInv == Init => IInv
<1> SUFFICES ASSUME Init PROVE IInv OBVIOUS
<1> USE ProvisioningAssumption DEF Init
<1>1. Shapes BY DEF Shapes, Result
<1>2. TypeOK
  <2>1. renewed \in [Request -> BOOLEAN] BY Zenon
  <2>2. attempt \in [Request -> 0..MaxRetries - 1]
    <3>1. 0 \in 0..MaxRetries - 1 BY ProvisioningAssumption
    <3> QED BY <3>1, Zenon
  <2>3. ASSUME NEW r \in Request PROVE Len(out[r]) <= Len(rows[r])
    <3>1. out[r] = <<>> /\ rows[r] = <<>> OBVIOUS
    <3> QED BY <3>1
  <2>4. vaultOn \in BOOLEAN BY Zenon
  <2>5. /\ job \in [Request -> {"create", "eject", "read"}]
        /\ member \in [Email -> {"none", "member", "ejected"}]
        /\ pc \in [Request -> {"idle", "row", "call", "audit", "store"} \cup Ended]
    OBVIOUS
  <2> QED BY <2>1, <2>2, <2>3, <2>4, <2>5 DEF TypeOK
<1>3. ASSUME NEW r \in Request PROVE Position(r) /\ Promises(r)
  <2>1. out[r] = <<>> /\ pc[r] = "idle" OBVIOUS
  <2> QED BY <2>1 DEF Position, Promises
<1>4. VaultedIsAudited BY DEF VaultedIsAudited
<1>5. \A e \in Email : Made(e) /\ Gone(e) BY DEF Made, Gone
<1> QED BY <1>1, <1>2, <1>3, <1>4, <1>5 DEF IInv, Typed

-----------------------------------------------------------------------------
(* What a step may never take back. *)
Grows ==
  /\ UNCHANGED <<job, rows, vaultOn>>
  /\ audit \subseteq audit' /\ vault \subseteq vault' /\ struck \subseteq struck'
  /\ \A e \in Email : member'[e] = "none" => member[e] = "none"

(* A row that ends leaves the results before it alone and starts the next  *)
(* one with a fresh call.                                                  *)
LEMMA RowEnds ==
  ASSUME IInv, NEW r \in Request, NEW result \in Result,
         pc[r] \in {"row", "call", "audit", "store"}, pc[r] = "row" => result = "skipped",
         Len(out[r]) < Len(rows[r]), EndRow(r, result), Grows,
         member' \in [Email -> {"none", "member", "ejected"}],
         result = "ok" =>
           /\ <<job[r], Row(r)>> \in audit'
           /\ job[r] = "create" => member'[Row(r)] # "none" /\ (vaultOn => Row(r) \in vault')
  PROVE  /\ out' \in [Request -> Seq(Result)]
         /\ \A q \in Request : Len(out'[q]) <= Len(rows'[q])
         /\ pc' \in [Request -> {"idle", "row", "call", "audit", "store"} \cup Ended]
         /\ attempt' \in [Request -> 0..MaxRetries - 1] /\ renewed' \in [Request -> BOOLEAN]
         /\ \A q \in Request : Position(q)' /\ Promises(q)'
<1> USE ProvisioningAssumption DEF Goto
<1>1. Typed /\ \A q \in Request : Position(q) /\ Promises(q) BY DEF IInv
<1>2. /\ out' = [out EXCEPT ![r] = Append(@, result)]
      /\ pc' = [pc EXCEPT ![r] = "row"]
      /\ attempt' = [attempt EXCEPT ![r] = 0] /\ renewed' = [renewed EXCEPT ![r] = FALSE]
  BY DEF EndRow
<1>3. out' \in [Request -> Seq(Result)] BY <1>1, <1>2 DEF Typed, Shapes
<1>4. \A q \in Request : Len(out'[q]) <= Len(rows'[q])
  BY <1>1, <1>2 DEF Typed, TypeOK, Shapes, Grows
<1>5. pc' \in [Request -> {"idle", "row", "call", "audit", "store"} \cup Ended]
  BY <1>1, <1>2 DEF Typed, TypeOK
<1>6. attempt' \in [Request -> 0..MaxRetries - 1] BY <1>1, <1>2 DEF Typed, TypeOK
<1>7. renewed' \in [Request -> BOOLEAN] BY <1>1, <1>2, Zenon DEF Typed, TypeOK
<1>8. ASSUME NEW q \in Request PROVE Position(q)' /\ Promises(q)'
  <2>1. CASE q = r
    <3>1. out'[q] = Append(out[q], result) /\ pc'[q] = "row" BY <1>1, <1>2, <2>1 DEF Typed, TypeOK, Shapes
    <3>2. Position(q)'
      <4>1. Position(r) /\ out[r] \in Seq(Result) /\ rows[r] \in Seq(Email \cup {Blank, Short})
        BY <1>1 DEF Typed, Shapes
      <4>2. job[r] = "read" => Len(rows[r]) = 1 /\ Len(out'[r]) = 1
        BY <4>1, <3>1, <2>1 DEF Position
      <4> QED BY <3>1, <4>2, <2>1 DEF Position, Grows
    <3>3. ASSUME NEW i \in DOMAIN out'[q], out'[q][i] = "ok" PROVE Recorded(q, i)'
      <4>1. out[q] \in Seq(Result) /\ rows[q] \in Seq(Email \cup {Blank, Short}) BY <1>1 DEF Typed, Shapes
      <4>2. CASE i = Len(out[q]) + 1
        <5>1. result = "ok" BY <3>1, <3>3, <4>1, <4>2
        <5> QED BY <5>1, <4>2, <2>1 DEF Recorded, Row, Grows
      <4>3. CASE i # Len(out[q]) + 1
        <5>1. i \in DOMAIN out[q] /\ out[q][i] = "ok" BY <3>1, <3>3, <4>1, <4>3
        <5>2. Recorded(q, i) BY <1>1, <5>1 DEF Promises
        <5>3. \A e \in Email : member[e] # "none" => member'[e] # "none" BY DEF Grows
        <5>4. <<job[q], rows[q][i]>> \in {"create", "eject", "read"} \X Email
          BY <1>1, <5>2 DEF Typed, TypeOK, Recorded
        <5>5. rows[q][i] \in Email BY <5>4
        <5> QED BY <5>2, <5>3, <5>5 DEF Recorded, Grows
      <4> QED BY <4>2, <4>3
    <3>4. ASSUME NEW i \in DOMAIN out'[q], out'[q][i] = "failed" PROVE rows[q][i] \in Email
      <4>1. out[q] \in Seq(Result) /\ Position(r) BY <1>1 DEF Typed, Shapes
      <4>2. CASE i = Len(out[q]) + 1
        <5>1. result = "failed" BY <3>1, <3>4, <4>1, <4>2
        <5> QED BY <5>1, <4>1, <4>2, <2>1 DEF Position, Row
      <4>3. CASE i # Len(out[q]) + 1
        <5>1. i \in DOMAIN out[q] /\ out[q][i] = "failed" BY <3>1, <3>4, <4>1, <4>3
        <5> QED BY <1>1, <5>1 DEF Promises
      <4> QED BY <4>2, <4>3
    <3> QED BY <3>2, <3>3, <3>4 DEF Promises, Grows
  <2>2. CASE q # r
    <3>1. out'[q] = out[q] /\ pc'[q] = pc[q] BY <1>1, <1>2, <2>2 DEF Typed, TypeOK, Shapes
    <3>2. Position(q) /\ Promises(q) BY <1>1
    <3>3. Position(q)' BY <3>1, <3>2 DEF Position, Row, Event, Grows
    <3>4. ASSUME NEW i \in DOMAIN out[q], out[q][i] = "ok" PROVE Recorded(q, i)'
      <4>1. Recorded(q, i) BY <3>2, <3>4 DEF Promises
      <4>2. <<job[q], rows[q][i]>> \in {"create", "eject", "read"} \X Email
        BY <1>1, <4>1 DEF Typed, TypeOK, Recorded
      <4>3. rows[q][i] \in Email BY <4>2
      <4> QED BY <4>1, <4>3 DEF Recorded, Grows
    <3> QED BY <3>1, <3>2, <3>3, <3>4 DEF Promises, Grows
  <2> QED BY <2>1, <2>2
<1> QED BY <1>3, <1>4, <1>5, <1>6, <1>7, <1>8

(* A step of r moves it without ending a row. *)
LEMMA RowGoesOn ==
  ASSUME IInv, NEW r \in Request, NEW w \in {"row", "call", "audit", "store"} \cup Ended,
         pc' = [pc EXCEPT ![r] = w], out' = out, Grows, Position(r)'
  PROVE  /\ pc' \in [Request -> {"idle", "row", "call", "audit", "store"} \cup Ended]
         /\ out' \in [Request -> Seq(Result)]
         /\ \A q \in Request : Len(out'[q]) <= Len(rows'[q])
         /\ \A q \in Request : Position(q)' /\ Promises(q)'
<1>1. Typed /\ \A q \in Request : Position(q) /\ Promises(q) BY DEF IInv
<1>2. pc' \in [Request -> {"idle", "row", "call", "audit", "store"} \cup Ended]
  BY <1>1 DEF Typed, TypeOK
<1>3. out' \in [Request -> Seq(Result)] BY <1>1 DEF Typed, Shapes
<1>4. \A q \in Request : Len(out'[q]) <= Len(rows'[q]) BY <1>1 DEF Typed, TypeOK, Grows
<1>5. ASSUME NEW q \in Request PROVE Position(q)'
  <2>1. CASE q = r BY <2>1
  <2>2. CASE q # r
    <3>1. pc'[q] = pc[q] BY <1>1, <2>2 DEF Typed, TypeOK
    <3> QED BY <3>1, <1>1 DEF Position, Row, Event, Grows
  <2> QED BY <2>1, <2>2
<1>6. ASSUME NEW q \in Request, NEW i \in DOMAIN out[q], out[q][i] = "ok" PROVE Recorded(q, i)'
  <2>1. Recorded(q, i) BY <1>1, <1>6 DEF Promises
  <2>2. <<job[q], rows[q][i]>> \in {"create", "eject", "read"} \X Email
    BY <1>1, <2>1 DEF Typed, TypeOK, Recorded
  <2>3. rows[q][i] \in Email BY <2>2
  <2> QED BY <2>1, <2>3 DEF Recorded, Grows
<1> QED BY <1>1, <1>2, <1>3, <1>4, <1>5, <1>6 DEF Promises, Grows

(* An account the step does not touch keeps the request that answers for   *)
(* it, unless that request's row ends badly, which strikes the account.    *)
LEMMA AccountKept ==
  ASSUME IInv, NEW r \in Request, NEW e \in Email, Grows,
         member'[e] = member[e], maker'[e] = maker[e],
         \A q \in Request \ {r} : out'[q] = out[q] /\ pc'[q] = pc[q],
         \/ out'[r] = out[r] /\ (pc[r] \in {"audit", "store"} => pc'[r] \in {"audit", "store"})
         \/ \E result \in Result :
              /\ out'[r] = Append(out[r], result)
              /\ pc[r] \in {"audit", "store"} /\ Row(r) = e => result = "ok" \/ e \in struck',
         pc[r] = "audit" /\ job[r] = "eject" /\ Row(r) = e =>
           (out'[r] = out[r] /\ pc'[r] = "audit") \/ <<"eject", e>> \in audit' \/ e \in struck'
  PROVE  Made(e)' /\ Gone(e)'
<1>1. Typed /\ Made(e) /\ Gone(e) BY DEF IInv
<1>2. \A q \in Request : out[q] \in Seq(Result) BY <1>1 DEF Typed, Shapes
<1>3. Made(e)'
  <2>1. SUFFICES ASSUME e \notin struck', member[e] # "none"
                 PROVE  \E q \in Request, i \in Nat \ {0} : MadeBy(e, q, i)'
    BY <1>1 DEF Made
  <2>2. PICK q \in Request, i \in Nat \ {0} : MadeBy(e, q, i) BY <1>1, <2>1 DEF Made, Grows
  <2>3. CASE q # r BY <2>2, <2>3 DEF MadeBy, Grows
  <2>4. CASE q = r
    <3>1. CASE out'[r] = out[r] /\ (pc[r] \in {"audit", "store"} => pc'[r] \in {"audit", "store"})
      BY <2>2, <2>4, <3>1 DEF MadeBy, Grows
    <3>2. ASSUME NEW result \in Result, out'[r] = Append(out[r], result),
                 pc[r] \in {"audit", "store"} /\ Row(r) = e => result = "ok" \/ e \in struck'
          PROVE  MadeBy(e, q, i)'
      <4>1. /\ maker[e] = <<q, i>> /\ job[q] = "create" /\ rows[q][i] = e
            /\ \/ i \in DOMAIN out[q] /\ out[q][i] = "ok"
               \/ i = Len(out[q]) + 1 /\ pc[q] \in {"audit", "store"}
        BY <2>2 DEF MadeBy
      <4>2. i \in DOMAIN out'[q] /\ out'[q][i] = "ok"
        BY <4>1, <3>2, <2>4, <2>1, <1>2 DEF Row
      <4> QED BY <4>1, <4>2 DEF MadeBy, Grows
    <3> QED BY <3>1, <3>2, <2>4
  <2> QED BY <2>3, <2>4
<1>4. Gone(e)'
  <2>1. SUFFICES ASSUME e \notin struck', member[e] = "ejected", <<"eject", e>> \notin audit'
                 PROVE  \E q \in Request : (pc[q] = "audit" /\ job[q] = "eject" /\ Row(q) = e)'
    BY DEF Gone
  <2>2. PICK q \in Request : pc[q] = "audit" /\ job[q] = "eject" /\ Row(q) = e
    BY <1>1, <2>1 DEF Gone, Grows
  <2>3. out'[q] = out[q] /\ pc'[q] = "audit" BY <2>1, <2>2
  <2> QED BY <2>2, <2>3 DEF Row, Grows
<1> QED BY <1>3, <1>4

-----------------------------------------------------------------------------
(* A new request touches nothing but its own place. *)
LEMMA StartKeeps ==
  ASSUME IInv, NEW r \in Request, NEW j \in {"create", "eject", "read"},
         NEW rs \in Seq(Email \cup {Blank, Short}), Start(r, j, rs),
         NEW w \in {"row", "audit", "done"}, Goto(r, w),
         w = "row" => j # "read",
         w = "audit" => j = "read" /\ Len(rs) = 1 /\ rs[1] \in Email
  PROVE  IInv'
<1>1. Typed /\ \A q \in Request : Position(q) /\ Promises(q) BY DEF IInv
<1>2. /\ pc[r] = "idle" /\ out[r] = <<>>
      /\ pc' = [pc EXCEPT ![r] = w]
      /\ job' = [job EXCEPT ![r] = j] /\ rows' = [rows EXCEPT ![r] = rs]
      /\ UNCHANGED <<vaultOn, member, maker, audit, vault, out, attempt, renewed, struck>>
  BY <1>1 DEF Start, Goto, Position, remote, stored, calls
<1>3. \A q \in Request \ {r} : pc'[q] = pc[q] /\ job'[q] = job[q] /\ rows'[q] = rows[q]
  BY <1>1, <1>2 DEF Typed, TypeOK, Shapes
<1>4. pc'[r] = w /\ job'[r] = j /\ rows'[r] = rs /\ out'[r] = <<>>
  BY <1>1, <1>2 DEF Typed, TypeOK, Shapes
<1>5. Shapes' BY <1>1, <1>2 DEF Typed, Shapes
<1>6. TypeOK'
  <2>1. /\ pc' \in [Request -> {"idle", "row", "call", "audit", "store"} \cup Ended]
        /\ job' \in [Request -> {"create", "eject", "read"}]
    BY <1>1, <1>2 DEF Typed, TypeOK, Ended
  <2>2. ASSUME NEW q \in Request PROVE Len(out'[q]) <= Len(rows'[q])
    BY <1>1, <1>2, <1>3, <1>4 DEF Typed, TypeOK
  <2>3. attempt' \in [Request -> 0..MaxRetries - 1] /\ renewed' \in [Request -> BOOLEAN]
    BY <1>1, <1>2, Zenon DEF Typed, TypeOK
  <2> QED BY <1>1, <1>2, <2>1, <2>2, <2>3 DEF Typed, TypeOK
<1>7. ASSUME NEW q \in Request PROVE Position(q)' /\ Promises(q)'
  <2>1. CASE q = r
    <3>1. w = "audit" => Len(rs) = 1 /\ rs[1] \in Email OBVIOUS
    <3> QED BY <1>2, <1>4, <2>1, <3>1 DEF Position, Promises, Row
  <2>2. CASE q # r
    <3>1. Position(q)' BY <1>1, <1>2, <1>3, <2>2 DEF Position, Row, Event
    <3>2. Promises(q)' BY <1>1, <1>2, <1>3, <2>2 DEF Promises, Recorded
    <3> QED BY <3>1, <3>2
  <2> QED BY <2>1, <2>2
<1>8. VaultedIsAudited' BY <1>2 DEF IInv, VaultedIsAudited
<1>9. ASSUME NEW e \in Email PROVE Made(e)' /\ Gone(e)'
  <2>1. Made(e) /\ Gone(e) BY DEF IInv
  <2>2. Made(e)'
    <3>1. SUFFICES ASSUME e \notin struck, member[e] # "none"
                   PROVE  \E q \in Request, i \in Nat \ {0} : MadeBy(e, q, i)'
      BY <1>2, <2>1 DEF Made
    <3>2. PICK q \in Request, i \in Nat \ {0} : MadeBy(e, q, i) BY <2>1, <3>1 DEF Made
    <3>3. q # r BY <1>2, <3>2 DEF MadeBy
    <3> QED BY <1>2, <1>3, <3>2, <3>3 DEF MadeBy
  <2>3. Gone(e)' BY <1>2, <1>3, <2>1 DEF Gone, Row
  <2> QED BY <2>2, <2>3
<1> QED BY <1>5, <1>6, <1>7, <1>8, <1>9 DEF IInv, Typed

LEMMA ArriveKeeps == ASSUME IInv, NEW r \in Request, Arrive(r) PROVE IInv'
<1>1. ASSUME NEW e \in Email PROVE <<e>> \in Seq(Email \cup {Blank, Short}) /\ Len(<<e>>) = 1 /\ <<e>>[1] = e
  OBVIOUS
<1>2. ASSUME NEW e \in Email, Create(r, e) PROVE IInv'
  BY <1>1, <1>2, StartKeeps DEF Create
<1>3. ASSUME NEW e \in Email, Eject(r, e) PROVE IInv'
  BY <1>1, <1>3, StartKeeps DEF Eject
<1>4. ASSUME NEW e \in Email, Retrieve(r, e) PROVE IInv'
  <2>1. Start(r, "read", <<e>>) /\ (Goto(r, "audit") \/ Goto(r, "done")) BY <1>4 DEF Retrieve
  <2>2. CASE Goto(r, "audit") BY <1>1, <2>1, <2>2, StartKeeps
  <2>3. CASE Goto(r, "done") BY <1>1, <2>1, <2>3, StartKeeps
  <2> QED BY <2>1, <2>2, <2>3
<1>5. ASSUME NEW n \in 1..MaxRows, NEW rs \in [1..n -> Email \cup {Blank, Short}], Import(r, rs)
      PROVE  IInv'
  <2>1. rs \in Seq(Email \cup {Blank, Short}) OBVIOUS
  <2> QED BY <1>5, <2>1, StartKeeps DEF Import
<1> QED BY <1>2, <1>3, <1>4, <1>5 DEF Arrive

-----------------------------------------------------------------------------
(* The sets a step may only add to keep their elements' types. *)
StaysTyped ==
  /\ member' \in [Email -> {"none", "member", "ejected"}]
  /\ maker' \in [Email -> {<<>>} \cup (Request \X (Nat \ {0}))]
  /\ audit' \subseteq {"create", "eject", "read"} \X Email
  /\ vault' \subseteq Email /\ struck' \subseteq Email

Spared(e) ==
  \/ member'[e] = member[e] /\ maker'[e] = maker[e]
  \/ e \in struck' /\ member'[e] # "none"

LEMMA RowEndsKeeps ==
  ASSUME IInv, NEW r \in Request, NEW result \in Result,
         pc[r] \in {"row", "call", "audit", "store"}, pc[r] = "row" => result = "skipped",
         Len(out[r]) < Len(rows[r]), EndRow(r, result), Grows, StaysTyped,
         result = "ok" =>
           /\ <<job[r], Row(r)>> \in audit'
           /\ job[r] = "create" => member'[Row(r)] # "none" /\ (vaultOn => Row(r) \in vault'),
         VaultedIsAudited',
         \A e \in Email : Spared(e),
         pc[r] \in {"audit", "store"} => result = "ok" \/ Row(r) \in struck'
  PROVE  IInv'
<1>1. /\ out' \in [Request -> Seq(Result)]
      /\ \A q \in Request : Len(out'[q]) <= Len(rows'[q])
      /\ pc' \in [Request -> {"idle", "row", "call", "audit", "store"} \cup Ended]
      /\ attempt' \in [Request -> 0..MaxRetries - 1] /\ renewed' \in [Request -> BOOLEAN]
      /\ \A q \in Request : Position(q)' /\ Promises(q)'
  BY RowEnds DEF StaysTyped
<1>2. Typed /\ vaultOn \in BOOLEAN /\ job \in [Request -> {"create", "eject", "read"}]
  BY DEF IInv, Typed, TypeOK
<1>3. Shapes' BY <1>1, <1>2 DEF Typed, Shapes, Grows, StaysTyped
<1>4. TypeOK' BY <1>1, <1>2 DEF TypeOK, Grows, StaysTyped
<1>5. ASSUME NEW e \in Email PROVE Made(e)' /\ Gone(e)'
  <2>1. CASE e \in struck' /\ member'[e] # "none" BY <2>1 DEF Made, Gone
  <2>2. CASE member'[e] = member[e] /\ maker'[e] = maker[e]
    <3>1. /\ out' = [out EXCEPT ![r] = Append(@, result)]
          /\ pc' = [pc EXCEPT ![r] = "row"]
      BY DEF EndRow, Goto
    <3>2. \A q \in Request \ {r} : out'[q] = out[q] /\ pc'[q] = pc[q]
      BY <3>1, <1>2 DEF Typed, TypeOK, Shapes
    <3>3. out'[r] = Append(out[r], result) BY <3>1, <1>2 DEF Typed, Shapes
    <3>4. pc[r] \in {"audit", "store"} /\ Row(r) = e => result = "ok" \/ e \in struck' OBVIOUS
    <3>5. pc[r] = "audit" /\ job[r] = "eject" /\ Row(r) = e => <<"eject", e>> \in audit' \/ e \in struck'
      OBVIOUS
    <3> QED BY <3>2, <3>3, <3>4, <3>5, <2>2, AccountKept
  <2> QED BY <2>1, <2>2 DEF Spared
<1> QED BY <1>1, <1>3, <1>4, <1>5 DEF IInv, Typed

LEMMA RowGoesOnKeeps ==
  ASSUME IInv, NEW r \in Request, NEW w \in {"row", "call", "audit", "store"} \cup Ended,
         pc' = [pc EXCEPT ![r] = w], out' = out, Grows, StaysTyped, Position(r)',
         attempt' \in [Request -> 0..MaxRetries - 1], renewed' \in [Request -> BOOLEAN],
         VaultedIsAudited',
         \A e \in Email : Spared(e) \/ (Made(e) /\ Gone(e))',
         pc[r] \in {"audit", "store"} => w \in {"audit", "store"},
         pc[r] = "audit" => w = "audit" \/ job[r] # "eject"
  PROVE  IInv'
<1>1. /\ pc' \in [Request -> {"idle", "row", "call", "audit", "store"} \cup Ended]
      /\ out' \in [Request -> Seq(Result)]
      /\ \A q \in Request : Len(out'[q]) <= Len(rows'[q])
      /\ \A q \in Request : Position(q)' /\ Promises(q)'
  BY RowGoesOn
<1>2. Typed /\ vaultOn \in BOOLEAN /\ job \in [Request -> {"create", "eject", "read"}]
  BY DEF IInv, Typed, TypeOK
<1>3. Shapes' BY <1>1, <1>2 DEF Typed, Shapes, Grows, StaysTyped
<1>4. TypeOK' BY <1>1, <1>2 DEF TypeOK, Grows, StaysTyped
<1>5. ASSUME NEW e \in Email PROVE Made(e)' /\ Gone(e)'
  <2>1. CASE e \in struck' /\ member'[e] # "none" BY <2>1 DEF Made, Gone
  <2>2. CASE member'[e] = member[e] /\ maker'[e] = maker[e]
    <3>1. pc'[r] = w /\ \A q \in Request \ {r} : out'[q] = out[q] /\ pc'[q] = pc[q]
      BY <1>2 DEF Typed, TypeOK
    <3> QED BY <3>1, <2>2, AccountKept
  <2> QED BY <2>1, <2>2 DEF Spared
<1> QED BY <1>1, <1>3, <1>4, <1>5 DEF IInv, Typed

-----------------------------------------------------------------------------
LEMMA NextRowKeeps == ASSUME IInv, NEW r \in Request, NextRow(r) PROVE IInv'
<1>1. Typed /\ Position(r) /\ VaultedIsAudited /\ (\A e \in Email : Made(e) /\ Gone(e)) BY DEF IInv
<1>2. /\ pc[r] = "row" /\ Grows /\ StaysTyped /\ VaultedIsAudited' /\ \A e \in Email : Spared(e)
      /\ Len(out[r]) <= Len(rows[r])
      /\ Len(out[r]) \in Nat /\ Len(rows[r]) \in Nat
      /\ UNCHANGED <<vaultOn, member, maker, audit, vault, job, rows, struck>>
  BY <1>1 DEF NextRow, remote, stored, Grows, StaysTyped, Spared, Typed, TypeOK, Shapes, VaultedIsAudited
<1>3. ASSUME NEW w \in {"done", "aborted"}, Goto(r, w), UNCHANGED <<out, calls>> PROVE IInv'
  <2>1. pc' = [pc EXCEPT ![r] = w] /\ pc'[r] = w BY <1>1, <1>3 DEF Goto, Typed, TypeOK
  <2>2. Position(r)' BY <2>1 DEF Position
  <2>3. attempt' \in [Request -> 0..MaxRetries - 1] BY <1>1, <1>3 DEF calls, Typed, TypeOK
  <2>4. renewed' \in [Request -> BOOLEAN] BY <1>1, <1>3, Zenon DEF calls, Typed, TypeOK
  <2> QED BY <1>2, <1>3, <2>1, <2>2, <2>3, <2>4, RowGoesOnKeeps DEF Ended
<1>4. CASE Len(out[r]) = Len(rows[r]) BY <1>3, <1>4 DEF NextRow
<1>5. CASE Len(out[r]) # Len(rows[r])
  <2>1. Len(out[r]) < Len(rows[r]) BY <1>2, <1>5
  <2>2. ASSUME EndRow(r, "skipped") PROVE IInv' BY <1>2, <2>1, <2>2, RowEndsKeeps DEF Result
  <2>3. ASSUME Row(r) \in Email, Goto(r, "call"), UNCHANGED <<out, calls>>,
               job[r] \in {"create", "eject"} PROVE IInv'
    <3>1. pc' = [pc EXCEPT ![r] = "call"] /\ pc'[r] = "call" BY <1>1, <2>3 DEF Goto, Typed, TypeOK
    <3>2. Position(r)' BY <3>1, <1>2, <2>1, <2>3 DEF Position, Row
    <3>3. attempt' \in [Request -> 0..MaxRetries - 1] BY <1>1, <2>3 DEF calls, Typed, TypeOK
    <3>4. renewed' \in [Request -> BOOLEAN] BY <1>1, <2>3, Zenon DEF calls, Typed, TypeOK
    <3> QED BY <1>2, <2>3, <3>1, <3>2, <3>3, <3>4, RowGoesOnKeeps
  <2>4. job[r] \in {"create", "eject"} BY <1>1, <1>2, <1>5 DEF Position, Typed, TypeOK
  <2> QED BY <1>3, <1>5, <2>2, <2>3, <2>4 DEF NextRow
<1> QED BY <1>4, <1>5

(* What a call that Backblaze carries out leaves behind. *)
LEMMA EffectGrows ==
  ASSUME IInv, NEW r \in Request, pc[r] = "call", Effect(r)
  PROVE  /\ member' \in [Email -> {"none", "member", "ejected"}]
         /\ maker' \in [Email -> {<<>>} \cup (Request \X (Nat \ {0}))]
         /\ Row(r) \in Email /\ member'[Row(r)] = (IF job[r] = "create" THEN "member" ELSE "ejected")
         /\ \A e \in Email : member'[e] = "none" => member[e] = "none"
         /\ \A e \in Email \ {Row(r)} : member'[e] = member[e] /\ maker'[e] = maker[e]
         /\ job[r] = "create" => maker'[Row(r)] = <<r, Len(out[r]) + 1>>
         /\ job[r] # "create" => maker' = maker /\ member[Row(r)] = "member"
<1>1. Typed /\ Position(r) BY DEF IInv
<1>2. PICK n \in Nat \ {0} : n = Len(out[r]) + 1 BY <1>1 DEF Typed, Shapes
<1>3. PICK m \in {"member", "ejected"} : m = IF job[r] = "create" THEN "member" ELSE "ejected" OBVIOUS
<1>4. Row(r) \in Email /\ member' = [member EXCEPT ![Row(r)] = m] BY <1>1, <1>3 DEF Position, Effect
<1>5. maker' = IF job[r] = "create" THEN [maker EXCEPT ![Row(r)] = <<r, n>>] ELSE maker
  BY <1>2 DEF Effect
<1>6. maker' \in [Email -> {<<>>} \cup (Request \X (Nat \ {0}))] BY <1>1, <1>4, <1>5 DEF Typed, Shapes
<1>7. member' \in [Email -> {"none", "member", "ejected"}] BY <1>1, <1>4 DEF Typed, TypeOK
<1>8. /\ member'[Row(r)] = m
      /\ \A e \in Email : member'[e] = "none" => member[e] = "none"
      /\ \A e \in Email \ {Row(r)} : member'[e] = member[e]
  BY <1>1, <1>4 DEF Typed, TypeOK
<1>9. /\ \A e \in Email \ {Row(r)} : maker'[e] = maker[e]
      /\ job[r] = "create" => maker'[Row(r)] = <<r, n>>
  BY <1>1, <1>4, <1>5 DEF Typed, Shapes
<1>10. job[r] # "create" => maker' = maker /\ member[Row(r)] = "member" BY <1>5 DEF Effect, Possible
<1> QED BY <1>2, <1>3, <1>4, <1>6, <1>7, <1>8, <1>9, <1>10

LEMMA CarriedKeeps == ASSUME IInv, NEW r \in Request, Carried(r) PROVE IInv'
<1>1. Typed /\ Position(r) /\ VaultedIsAudited BY DEF IInv
<1>2. /\ pc[r] = "call" /\ Effect(r) /\ pc' = [pc EXCEPT ![r] = "audit"] /\ pc'[r] = "audit"
      /\ UNCHANGED <<vaultOn, audit, vault, job, rows, out, attempt, renewed, struck>>
  BY <1>1 DEF Carried, Goto, stored, calls, Typed, TypeOK
<1>3. /\ member' \in [Email -> {"none", "member", "ejected"}]
      /\ maker' \in [Email -> {<<>>} \cup (Request \X (Nat \ {0}))]
      /\ Row(r) \in Email /\ member'[Row(r)] = (IF job[r] = "create" THEN "member" ELSE "ejected")
      /\ \A e \in Email : member'[e] = "none" => member[e] = "none"
      /\ \A e \in Email \ {Row(r)} : member'[e] = member[e] /\ maker'[e] = maker[e]
      /\ job[r] = "create" => maker'[Row(r)] = <<r, Len(out[r]) + 1>>
      /\ job[r] # "create" => maker' = maker /\ member[Row(r)] = "member"
  BY <1>2, EffectGrows
<1>4. Grows /\ StaysTyped /\ VaultedIsAudited'
  BY <1>1, <1>2, <1>3 DEF Grows, StaysTyped, VaultedIsAudited, Typed, TypeOK
<1>5. Position(r)' BY <1>1, <1>2, <1>3 DEF Position, Row
<1>6. attempt' \in [Request -> 0..MaxRetries - 1] BY <1>1, <1>2 DEF Typed, TypeOK
<1>7. renewed' \in [Request -> BOOLEAN] BY <1>1, <1>2, Zenon DEF Typed, TypeOK
<1>8. ASSUME NEW e \in Email PROVE Spared(e) \/ (Made(e) /\ Gone(e))'
  <2>1. CASE e # Row(r) BY <1>3, <2>1 DEF Spared
  <2>2. CASE e = Row(r)
    <3>1. Len(out[r]) + 1 \in Nat \ {0} BY <1>1 DEF Typed, Shapes
    <3>2. CASE job[r] = "create"
      <4>1. MadeBy(e, r, Len(out[r]) + 1)' BY <1>2, <1>3, <2>2, <3>2 DEF MadeBy, Row
      <4>2. Made(e)' BY <1>2, <1>3, <2>2, <3>1, <3>2, <4>1 DEF Made, MadeBy
      <4> QED BY <4>2, <1>3, <2>2, <3>2 DEF Gone
    <3>3. CASE job[r] # "create"
      <4>1. Made(e)'
        <5>1. SUFFICES ASSUME e \notin struck
                       PROVE \E q \in Request, i \in Nat \ {0} : MadeBy(e, q, i)'
          BY <1>2, <1>3, <2>2, <3>3 DEF Made
        <5>2. PICK q \in Request, i \in Nat \ {0} : MadeBy(e, q, i)
          BY <1>3, <2>2, <3>3, <5>1 DEF IInv, Made
        <5>3. q # r => pc'[q] = pc[q] BY <1>1, <1>2 DEF Typed, TypeOK
        <5> QED BY <1>2, <1>3, <3>3, <5>2, <5>3 DEF MadeBy
      <4>2. Gone(e)'
        <5>1. job[r] = "eject" BY <1>1, <1>2, <3>3 DEF Position
        <5> QED BY <1>2, <2>2, <5>1 DEF Gone, Row
      <4> QED BY <4>1, <4>2
    <3> QED BY <3>2, <3>3
  <2> QED BY <2>1, <2>2
<1> QED BY <1>2, <1>4, <1>5, <1>6, <1>7, <1>8, RowGoesOnKeeps

LEMMA CallsAgain ==
  ASSUME IInv, NEW r \in Request, pc[r] = "call", UNCHANGED <<out, pc>>,
         Grows, StaysTyped, VaultedIsAudited', \A e \in Email : Spared(e),
         attempt' \in [Request -> 0..MaxRetries - 1], renewed' \in [Request -> BOOLEAN]
  PROVE  IInv'
<1>1. Typed /\ Position(r) BY DEF IInv
<1>2. pc' = [pc EXCEPT ![r] = "call"] BY <1>1 DEF Typed, TypeOK
<1>3. Position(r)' BY <1>1 DEF Position, Row, Grows
<1> QED BY <1>2, <1>3, RowGoesOnKeeps

LEMMA CallFails ==
  ASSUME IInv, NEW r \in Request, pc[r] = "call", EndRow(r, "failed"),
         Grows, StaysTyped, VaultedIsAudited', \A e \in Email : Spared(e)
  PROVE  IInv'
<1>1. Len(out[r]) < Len(rows[r]) BY DEF IInv, Position
<1> QED BY <1>1, RowEndsKeeps DEF Result

LEMMA RetryKeeps ==
  ASSUME IInv, NEW r \in Request, pc[r] = "call", Retry(r),
         Grows, StaysTyped, VaultedIsAudited', \A e \in Email : Spared(e)
  PROVE  IInv'
<1>1. CASE attempt[r] < MaxRetries - 1
  <2>1. /\ attempt \in [Request -> 0..MaxRetries - 1] /\ renewed \in [Request -> BOOLEAN]
        /\ MaxRetries \in Nat
    BY ProvisioningAssumption, Zenon DEF IInv, Typed, TypeOK
  <2>2. /\ attempt' = [attempt EXCEPT ![r] = @ + 1]
        /\ UNCHANGED renewed /\ UNCHANGED <<out, pc>> BY <1>1 DEF Retry
  <2>3. attempt' \in [Request -> 0..MaxRetries - 1] BY <1>1, <2>1, <2>2
  <2>4. renewed' \in [Request -> BOOLEAN] BY <2>1, <2>2, Zenon
  <2> QED BY <2>2, <2>3, <2>4, CallsAgain
<1>2. CASE ~(attempt[r] < MaxRetries - 1)
  <2>1. EndRow(r, "failed") BY <1>2 DEF Retry
  <2> QED BY <2>1, CallFails
<1> QED BY <1>1, <1>2

(* Nothing happened outside the request. *)
LEMMA NothingHappened ==
  ASSUME IInv, UNCHANGED <<vaultOn, remote, stored, job, rows, struck>>
  PROVE  Grows /\ StaysTyped /\ VaultedIsAudited' /\ \A e \in Email : Spared(e)
BY DEF IInv, remote, stored, Grows, StaysTyped, Spared, Typed, TypeOK, Shapes, VaultedIsAudited

LEMMA AnswerKeeps ==
  ASSUME IInv, NEW r \in Request, Refused(r) \/ Busy(r) \/ Expired(r)
  PROVE  IInv'
<1>1. /\ pc[r] = "call" /\ UNCHANGED <<vaultOn, remote, stored, job, rows, struck>>
      /\ \/ EndRow(r, "failed")
         \/ Retry(r)
         \/ /\ renewed' = [renewed EXCEPT ![r] = TRUE] /\ attempt' = [attempt EXCEPT ![r] = 0]
            /\ UNCHANGED <<out, pc>>
  BY DEF Refused, Busy, Expired
<1>2. Grows /\ StaysTyped /\ VaultedIsAudited' /\ \A e \in Email : Spared(e)
  BY <1>1, NothingHappened
<1>3. CASE EndRow(r, "failed") BY <1>1, <1>2, <1>3, CallFails
<1>4. CASE Retry(r) BY <1>1, <1>2, <1>4, RetryKeeps
<1>5. CASE /\ renewed' = [renewed EXCEPT ![r] = TRUE] /\ attempt' = [attempt EXCEPT ![r] = 0]
           /\ UNCHANGED <<out, pc>>
  <2>1. attempt' \in [Request -> 0..MaxRetries - 1]
    BY <1>5, ProvisioningAssumption DEF IInv, Typed, TypeOK
  <2>2. renewed' \in [Request -> BOOLEAN] BY <1>5, Zenon DEF IInv, Typed, TypeOK
  <2> QED BY <1>1, <1>2, <1>5, <2>1, <2>2, CallsAgain
<1> QED BY <1>1, <1>3, <1>4, <1>5

LEMMA LostAnswerKeeps == ASSUME IInv, NEW r \in Request, LostAnswer(r) PROVE IInv'
<1>1. /\ pc[r] = "call" /\ Effect(r) /\ struck' = struck \cup {Row(r)}
      /\ UNCHANGED <<vaultOn, audit, vault, job, rows>> /\ (Retry(r) \/ EndRow(r, "failed"))
  BY DEF LostAnswer, stored
<1>2. /\ member' \in [Email -> {"none", "member", "ejected"}]
      /\ maker' \in [Email -> {<<>>} \cup (Request \X (Nat \ {0}))]
      /\ Row(r) \in Email /\ member'[Row(r)] = (IF job[r] = "create" THEN "member" ELSE "ejected")
      /\ \A e \in Email : member'[e] = "none" => member[e] = "none"
      /\ \A e \in Email \ {Row(r)} : member'[e] = member[e] /\ maker'[e] = maker[e]
  BY <1>1, EffectGrows
<1>3. Grows /\ StaysTyped /\ VaultedIsAudited' /\ \A e \in Email : Spared(e)
  BY <1>1, <1>2 DEF IInv, Grows, StaysTyped, Spared, Typed, TypeOK, VaultedIsAudited
<1>4. CASE Retry(r) BY <1>1, <1>3, <1>4, RetryKeeps
<1>5. CASE EndRow(r, "failed") BY <1>1, <1>3, <1>5, CallFails
<1> QED BY <1>1, <1>4, <1>5

LEMMA AuditKeeps == ASSUME IInv, NEW r \in Request, Audit(r) PROVE IInv'
<1>1. Typed /\ Position(r) /\ VaultedIsAudited BY DEF IInv
<1>2. /\ pc[r] = "audit" /\ audit' = audit \cup {Event(r)} /\ AfterAudit(r)
      /\ UNCHANGED <<vaultOn, member, maker, vault, job, rows, struck>>
  BY DEF Audit, remote, AfterAudit
<1>3. Row(r) \in Email /\ Event(r) \in {"create", "eject", "read"} \X Email
      /\ Len(out[r]) < Len(rows[r])
  BY <1>1, <1>2 DEF Position, Event, Typed, TypeOK
<1>4. Grows /\ StaysTyped /\ VaultedIsAudited' /\ \A e \in Email : Spared(e)
  BY <1>1, <1>2, <1>3 DEF Grows, StaysTyped, Spared, VaultedIsAudited, Typed, TypeOK, Shapes
<1>5. CASE vaultOn /\ job[r] = "create"
  <2>1. pc' = [pc EXCEPT ![r] = "store"] /\ pc'[r] = "store" /\ UNCHANGED <<out, attempt, renewed>>
    BY <1>1, <1>2, <1>5 DEF AfterAudit, Goto, calls, Typed, TypeOK
  <2>2. Position(r)' BY <1>1, <1>2, <1>5, <2>1 DEF Position, Row, Event
  <2>3. attempt' \in [Request -> 0..MaxRetries - 1] BY <1>1, <2>1 DEF Typed, TypeOK
  <2>4. renewed' \in [Request -> BOOLEAN] BY <1>1, <2>1, Zenon DEF Typed, TypeOK
  <2> QED BY <1>2, <1>4, <1>5, <2>1, <2>2, <2>3, <2>4, RowGoesOnKeeps
<1>6. CASE ~(vaultOn /\ job[r] = "create")
  <2>1. EndRow(r, "ok") BY <1>2, <1>6 DEF AfterAudit
  <2>2. job[r] = "create" => member'[Row(r)] # "none" BY <1>1, <1>2 DEF Position
  <2>3. <<job[r], Row(r)>> \in audit' BY <1>2 DEF Event
  <2> QED BY <1>2, <1>3, <1>4, <1>6, <2>1, <2>2, <2>3, RowEndsKeeps DEF Result
<1> QED BY <1>5, <1>6

LEMMA StoreKeeps == ASSUME IInv, NEW r \in Request, Store(r) PROVE IInv'
<1>1. Typed /\ Position(r) /\ VaultedIsAudited BY DEF IInv
<1>2. /\ pc[r] = "store" /\ vault' = vault \cup {Row(r)} /\ EndRow(r, "ok")
      /\ UNCHANGED <<vaultOn, member, maker, audit, job, rows, struck>>
  BY DEF Store, remote
<1>3. /\ Row(r) \in Email /\ Len(out[r]) < Len(rows[r])
      /\ job[r] = "create" /\ <<job[r], Row(r)>> \in audit /\ member[Row(r)] # "none"
  BY <1>1, <1>2 DEF Position, Event
<1>4. Grows /\ StaysTyped /\ VaultedIsAudited' /\ \A e \in Email : Spared(e)
  BY <1>1, <1>2, <1>3 DEF Grows, StaysTyped, Spared, VaultedIsAudited, Typed, TypeOK, Shapes
<1> QED BY <1>2, <1>3, <1>4, RowEndsKeeps DEF Result

LEMMA WriteFailsKeeps == ASSUME IInv, NEW r \in Request, WriteFails(r) PROVE IInv'
<1>1. Typed /\ Position(r) /\ VaultedIsAudited BY DEF IInv
<1>2. /\ pc[r] \in {"audit", "store"} /\ EndRow(r, "failed") /\ struck' = struck \cup {Row(r)}
      /\ UNCHANGED <<vaultOn, member, maker, audit, vault, job, rows>>
  BY DEF WriteFails, remote, stored
<1>3. Row(r) \in Email /\ Len(out[r]) < Len(rows[r]) BY <1>1, <1>2 DEF Position
<1>4. Grows /\ StaysTyped /\ VaultedIsAudited' /\ \A e \in Email : Spared(e)
  BY <1>1, <1>2, <1>3 DEF Grows, StaysTyped, Spared, VaultedIsAudited, Typed, TypeOK, Shapes
<1> QED BY <1>2, <1>3, <1>4, RowEndsKeeps DEF Result

LEMMA CrashKeeps == ASSUME IInv, NEW k \in Request, Crash(k) PROVE IInv'
<1>1. Typed /\ VaultedIsAudited /\ \A r \in Request : Position(r) /\ Promises(r) BY DEF IInv
<1>2. /\ struck' = struck \cup (IF pc[k] = "row" THEN {} ELSE {Row(k)})
      /\ pc' = [pc EXCEPT ![k] = "crashed"] /\ pc[k] \notin Ended \cup {"idle"}
      /\ attempt' = [attempt EXCEPT ![k] = 0] /\ renewed' = [renewed EXCEPT ![k] = FALSE]
      /\ UNCHANGED <<vaultOn, audit, vault, job, rows, out>>
      /\ UNCHANGED remote \/ (pc[k] = "call" /\ Effect(k))
  BY DEF Crash, Goto, stored
<1>3. pc[k] \in {"call", "audit", "store"} => Row(k) \in struck' BY <1>2
<1>4. /\ pc'[k] = "crashed" /\ pc[k] \in {"row", "call", "audit", "store"}
      /\ \A q \in Request \ {k} : pc'[q] = pc[q]
  BY <1>1, <1>2 DEF Typed, TypeOK
<1>5. StaysTyped /\ (\A e \in Email : member'[e] = "none" => member[e] = "none")
      /\ \A e \in Email : Spared(e)
  <2>1. struck' \subseteq Email BY <1>1, <1>2, <1>4 DEF Position, Typed, TypeOK
  <2>2. CASE UNCHANGED remote
    BY <1>1, <1>2, <2>1, <2>2 DEF remote, StaysTyped, Spared, Typed, TypeOK, Shapes
  <2>3. ASSUME pc[k] = "call", Effect(k)
        PROVE  StaysTyped /\ (\A e \in Email : member'[e] = "none" => member[e] = "none")
               /\ \A e \in Email : Spared(e)
    <3>1. /\ member' \in [Email -> {"none", "member", "ejected"}]
          /\ maker' \in [Email -> {<<>>} \cup (Request \X (Nat \ {0}))]
          /\ Row(k) \in Email /\ member'[Row(k)] = (IF job[k] = "create" THEN "member" ELSE "ejected")
          /\ \A e \in Email : member'[e] = "none" => member[e] = "none"
          /\ \A e \in Email \ {Row(k)} : member'[e] = member[e] /\ maker'[e] = maker[e]
      BY <2>3, EffectGrows
    <3>2. Row(k) \in struck' BY <1>3, <2>3
    <3>3. \A e \in Email : Spared(e) BY <3>1, <3>2 DEF Spared
    <3>4. StaysTyped BY <1>1, <1>2, <2>1, <3>1 DEF StaysTyped, Typed, TypeOK
    <3> QED BY <3>1, <3>3, <3>4
  <2> QED BY <1>2, <2>2, <2>3
<1>6. Shapes' BY <1>1, <1>2, <1>5 DEF Typed, Shapes, StaysTyped
<1>7. TypeOK'
  <2>1. attempt' \in [Request -> 0..MaxRetries - 1]
    <3>1. 0 \in 0..MaxRetries - 1 BY ProvisioningAssumption
    <3> QED BY <1>1, <1>2, <3>1 DEF Typed, TypeOK
  <2>2. renewed' \in [Request -> BOOLEAN] BY <1>1, <1>2, Zenon DEF Typed, TypeOK
  <2>3. pc' \in [Request -> {"idle", "row", "call", "audit", "store"} \cup Ended]
    BY <1>1, <1>2 DEF Ended, Typed, TypeOK
  <2>4. \A r \in Request : Len(out'[r]) <= Len(rows'[r]) BY <1>1, <1>2 DEF Typed, TypeOK
  <2> QED BY <1>1, <1>2, <1>5, <2>1, <2>2, <2>3, <2>4 DEF StaysTyped, Typed, TypeOK
<1>8. ASSUME NEW r \in Request PROVE Position(r)' /\ Promises(r)'
  <2>1. Position(r)'
    <3>1. CASE r = k BY <1>4, <3>1 DEF Position
    <3>2. CASE r # k
      <4>1. pc'[r] = pc[r] BY <1>4, <3>2
      <4>2. \A e \in Email : member'[e] = "none" => member[e] = "none" BY <1>5
      <4> QED BY <1>1, <1>2, <4>1, <4>2 DEF Position, Row, Event
    <3> QED BY <3>1, <3>2
  <2>2. ASSUME NEW i \in DOMAIN out[r], out[r][i] = "ok" PROVE Recorded(r, i)'
    <3>1. Recorded(r, i) BY <1>1, <2>2 DEF Promises
    <3>2. <<job[r], rows[r][i]>> \in {"create", "eject", "read"} \X Email
      BY <1>1, <3>1 DEF Typed, TypeOK, Recorded
    <3>3. rows[r][i] \in Email BY <3>2
    <3> QED BY <1>2, <1>5, <3>1, <3>3 DEF Recorded
  <2> QED BY <1>1, <1>2, <2>1, <2>2 DEF Promises
<1>9. VaultedIsAudited' BY <1>1, <1>2 DEF VaultedIsAudited
<1>10. ASSUME NEW e \in Email PROVE Made(e)' /\ Gone(e)'
  <2>1. CASE e \in struck' /\ member'[e] # "none" BY <2>1 DEF Made, Gone
  <2>2. CASE member'[e] = member[e] /\ maker'[e] = maker[e]
    <3>1. Made(e) /\ Gone(e) /\ (e \notin struck' => e \notin struck) BY <1>2 DEF IInv
    <3>2. ASSUME e \notin struck', member[e] # "none"
          PROVE  \E q \in Request, i \in Nat \ {0} : MadeBy(e, q, i)'
      <4>1. PICK q \in Request, i \in Nat \ {0} : MadeBy(e, q, i) BY <3>1, <3>2 DEF Made
      <4>2. q = k => ~(i = Len(out[q]) + 1 /\ pc[q] \in {"audit", "store"})
        BY <1>3, <3>2, <4>1 DEF MadeBy, Row
      <4>3. CASE q = k
        <5>1. i \in DOMAIN out[q] /\ out[q][i] = "ok" BY <4>1, <4>2, <4>3 DEF MadeBy
        <5> QED BY <1>2, <2>2, <4>1, <5>1 DEF MadeBy
      <4>4. CASE q # k
        <5>1. pc'[q] = pc[q] BY <1>4, <4>4
        <5> QED BY <1>2, <2>2, <4>1, <5>1 DEF MadeBy
      <4> QED BY <4>3, <4>4
    <3>3. Made(e)' BY <2>2, <3>1, <3>2 DEF Made
    <3>4. Gone(e)' BY <1>2, <1>3, <1>4, <2>2, <3>1 DEF Gone, Row
    <3> QED BY <3>3, <3>4
  <2> QED BY <1>5, <2>1, <2>2 DEF Spared
<1> QED BY <1>6, <1>7, <1>8, <1>9, <1>10 DEF IInv, Typed

LEMMA StutterKeeps == ASSUME IInv, UNCHANGED vars PROVE IInv'
<1>1. UNCHANGED <<vaultOn, member, maker, audit, vault, job, rows, out, pc, attempt, renewed, struck>>
  BY DEF vars, remote, stored, calls
<1>2. Typed'
  <2>1. renewed' \in [Request -> BOOLEAN] BY <1>1, Zenon DEF IInv, Typed, TypeOK
  <2> QED BY <1>1, <2>1 DEF IInv, Typed, TypeOK, Shapes
<1>3. VaultedIsAudited' BY <1>1 DEF IInv, VaultedIsAudited
<1>4. ASSUME NEW r \in Request PROVE Position(r)' /\ Promises(r)'
  BY <1>1 DEF IInv, Position, Promises, Recorded, Row, Event
<1>5. ASSUME NEW e \in Email PROVE Made(e)' /\ Gone(e)'
  BY <1>1 DEF IInv, Made, MadeBy, Gone, Row
<1> QED BY <1>2, <1>3, <1>4, <1>5 DEF IInv

LEMMA NextKeeps == IInv /\ [Next]_vars => IInv'
<1> SUFFICES ASSUME IInv, [Next]_vars PROVE IInv' OBVIOUS
<1>1. CASE UNCHANGED vars BY <1>1, StutterKeeps
<1>2. ASSUME NEW r \in Request, Crash(r) PROVE IInv' BY <1>2, CrashKeeps
<1>3. ASSUME NEW r \in Request, Arrive(r) PROVE IInv' BY <1>3, ArriveKeeps
<1>4. ASSUME NEW r \in Request, Step(r) PROVE IInv'
  <2>1. CASE NextRow(r) BY <2>1, NextRowKeeps
  <2>2. CASE Carried(r) BY <2>2, CarriedKeeps
  <2>3. CASE Refused(r) \/ Busy(r) \/ Expired(r) BY <2>3, AnswerKeeps
  <2>4. CASE LostAnswer(r) BY <2>4, LostAnswerKeeps
  <2>5. CASE Audit(r) BY <2>5, AuditKeeps
  <2>6. CASE Store(r) BY <2>6, StoreKeeps
  <2>7. CASE WriteFails(r) BY <2>7, WriteFailsKeeps
  <2> QED BY <1>4, <2>1, <2>2, <2>3, <2>4, <2>5, <2>6, <2>7 DEF Step
<1> QED BY <1>1, <1>2, <1>3, <1>4 DEF Next

THEOREM Inductive == Spec => []IInv
BY InitInv, NextKeeps, PTL DEF Spec
-----------------------------------------------------------------------------
(* The variables keep their types: in particular a call is never tried     *)
(* more than _MAX_RETRIES times, and no import reports more results than   *)
(* it has rows (_request and bulk_create_members).                         *)
THEOREM ProvisioningTypeCorrect == Spec => []TypeOK
<1>1. IInv => TypeOK BY DEF IInv, Typed
<1> QED BY <1>1, Inductive, PTL

(* A result that says ok is never ahead of the audit log, Backblaze or the *)
(* vault (create_member, eject_member, bulk_create_members,                *)
(* retrieve_credentials).                                                  *)
THEOREM OkIsRecorded == Spec => []SuccessIsRecorded
<1>1. IInv => SuccessIsRecorded BY DEF IInv, SuccessIsRecorded, Promises, Recorded
<1> QED BY <1>1, Inductive, PTL

(* The vault holds no key whose issue the audit log does not show          *)
(* (create_member writes the audit row first).                             *)
THEOREM KeysAreAudited == Spec => []VaultedIsAudited
<1>1. IInv => VaultedIsAudited BY DEF IInv
<1> QED BY <1>1, Inductive, PTL

(* A failure spoils the account it falls on and no other: the request that *)
(* made any other account says so, and its audit and vault rows are there. *)
THEOREM FailuresStayLocal == Spec => []LossIsLocal
<1>1. IInv => LossIsLocal
  <2> SUFFICES ASSUME IInv, NEW e \in Email \ struck, member[e] # "none", ~Handling(e)
               PROVE  /\ <<"create", e>> \in audit
                      /\ member[e] = "ejected" => <<"eject", e>> \in audit
                      /\ vaultOn => e \in vault
                      /\ out[maker[e][1]][maker[e][2]] = "ok"
    BY DEF LossIsLocal
  <2>1. PICK r \in Request, i \in Nat \ {0} : MadeBy(e, r, i) BY DEF IInv, Made
  <2>2. Typed /\ Promises(r) BY DEF IInv
  <2>3. ~(i = Len(out[r]) + 1 /\ pc[r] \in {"audit", "store"}) BY <2>1 DEF MadeBy, Handling, Row
  <2>4. i \in DOMAIN out[r] /\ out[r][i] = "ok" BY <2>1, <2>3 DEF MadeBy
  <2>5. Recorded(r, i) BY <2>2, <2>4 DEF Promises
  <2>6. member[e] = "ejected" => <<"eject", e>> \in audit BY DEF IInv, Gone, Handling
  <2> QED BY <2>1, <2>4, <2>5, <2>6 DEF MadeBy, Recorded
<1> QED BY <1>1, Inductive, PTL

(* A row that says failed did not create the account, unless a failure     *)
(* fell on it: neither _request's retries nor the renewed token call again *)
(* after a create that was answered.                                       *)
THEOREM FailuresAreHonest == Spec => []FailedMeansNotCreated
<1>1. IInv => FailedMeansNotCreated
  <2> SUFFICES ASSUME IInv, NEW r \in Request, NEW i \in DOMAIN out[r], out[r][i] = "failed",
                      rows[r][i] \notin struck, maker[rows[r][i]] = <<r, i>>
               PROVE  FALSE
    BY DEF FailedMeansNotCreated
  <2>1. Promises(r) BY DEF IInv
  <2>2. Made(rows[r][i]) /\ rows[r][i] \in Email BY <2>1 DEF IInv, Promises
  <2>3. member[rows[r][i]] # "none" BY <2>2 DEF Made
  <2>4. PICK q \in Request, n \in Nat \ {0} : MadeBy(rows[r][i], q, n) BY <2>2, <2>3 DEF Made
  <2>5. q = r /\ n = i BY <2>4 DEF MadeBy
  <2>6. out[r] \in Seq(Result) BY DEF IInv, Typed, Shapes
  <2> QED BY <2>4, <2>5, <2>6 DEF MadeBy
<1> QED BY <1>1, Inductive, PTL

-----------------------------------------------------------------------------
(* The argument of RequestsEnd: what a request has left, the rows first,   *)
(* then its place in the row, the renewal of its token and the calls.      *)
RowsLeft(r) == Len(rows[r]) - Len(out[r])
Place(r) ==
  CASE pc[r] = "row"   -> 4
    [] pc[r] = "call"  -> 3
    [] pc[r] = "audit" -> 2
    [] pc[r] = "store" -> 1
    [] OTHER           -> 0
Renewals(r) == IF renewed[r] THEN 0 ELSE 1
CallsLeft(r) == MaxRetries - attempt[r]

Work(r) == <<RowsLeft(r), Place(r), Renewals(r), CallsLeft(r)>>

(* One quadruple of numbers comes before another. *)
Precedes(v, w) ==
  \/ v[1] < w[1]
  \/ v[1] = w[1] /\ v[2] < w[2]
  \/ v[1] = w[1] /\ v[2] = w[2] /\ v[3] < w[3]
  \/ v[1] = w[1] /\ v[2] = w[2] /\ v[3] = w[3] /\ v[4] < w[4]

Under(r) == pc[r] \notin Ended \cup {"idle"}

(* Work is counted in natural numbers; a step of r takes some off, that of *)
(* another leaves it or, with the process, ends r; the ended stays so.     *)
Advances(r) ==
  /\ Work(r) \in Nat \X Nat \X Nat \X Nat
  /\ Step(r) => Precedes(Work(r)', Work(r))
  /\ Under(r) => Work(r)' = Work(r) \/ Precedes(Work(r)', Work(r))
  /\ pc[r] \in Ended => pc'[r] = pc[r]

LEMMA WorkIsNatural == Typed => \A r \in Request : Work(r) \in Nat \X Nat \X Nat \X Nat
<1> SUFFICES ASSUME Typed, NEW r \in Request PROVE Work(r) \in Nat \X Nat \X Nat \X Nat
  OBVIOUS
<1>1. RowsLeft(r) \in Nat
  BY DEF Typed, TypeOK, Shapes, RowsLeft
<1>2. CallsLeft(r) \in Nat
  BY ProvisioningAssumption DEF Typed, TypeOK, CallsLeft
<1>3. Place(r) \in Nat /\ Renewals(r) \in Nat
  BY DEF Place, Renewals
<1> QED BY <1>1, <1>2, <1>3 DEF Work

LEMMA RowWork ==
  ASSUME Typed, NEW r \in Request, NEW result, EndRow(r, result), rows' = rows
  PROVE  Precedes(Work(r)', Work(r))
<1>1. Len(out'[r]) = Len(out[r]) + 1
  BY DEF EndRow, Typed, Shapes
<1>2. Len(out[r]) \in Nat /\ Len(rows[r]) \in Nat
  BY DEF Typed, Shapes
<1>3. RowsLeft(r)' = Len(rows[r]) - (Len(out[r]) + 1) BY <1>1, Zenon DEF RowsLeft
<1>4. RowsLeft(r)' < RowsLeft(r)
  <2>1. PICK m \in Nat, n \in Nat : m = Len(rows[r]) /\ n = Len(out[r]) BY <1>2
  <2>2. RowsLeft(r) = m - n /\ RowsLeft(r)' = m - (n + 1) BY <1>3, <2>1 DEF RowsLeft
  <2> QED BY <2>2
<1> QED BY <1>4 DEF Work, Precedes

LEMMA PlaceWork ==
  ASSUME Typed, NEW r \in Request, NEW w, Goto(r, w), UNCHANGED <<rows, out>>,
         \/ pc[r] = "row" /\ w \in {"call"} \cup Ended
         \/ pc[r] = "call" /\ w = "audit"
         \/ pc[r] = "audit" /\ w = "store"
         \/ Under(r) /\ w \in Ended
  PROVE  Precedes(Work(r)', Work(r))
<1>1. pc'[r] = w
  BY DEF Goto, Typed, TypeOK
<1>2. Place(r)' < Place(r)
  BY <1>1 DEF Place, Under, Ended, Typed, TypeOK
<1> QED BY <1>2 DEF Work, RowsLeft, Precedes

LEMMA RetryWork ==
  ASSUME Typed, NEW r \in Request, Retry(r), rows' = rows
  PROVE  Precedes(Work(r)', Work(r))
<1>1. CASE EndRow(r, "failed") BY <1>1, RowWork
<1>2. CASE attempt' = [attempt EXCEPT ![r] = @ + 1] /\ UNCHANGED <<renewed, out, pc>>
  <2>1. CallsLeft(r)' < CallsLeft(r)
    BY <1>2, ProvisioningAssumption DEF CallsLeft, Typed, TypeOK
  <2> QED BY <1>2, <2>1 DEF Work, RowsLeft, Place, Renewals, Precedes
<1> QED BY <1>1, <1>2 DEF Retry

LEMMA StepWork ==
  ASSUME Typed, NEW r \in Request, Step(r)
  PROVE  Precedes(Work(r)', Work(r))
<1>1. rows' = rows
  BY DEF Step, NextRow, Carried, Refused, Busy, LostAnswer, Expired, Audit, Store, WriteFails
<1>2. CASE NextRow(r)
  BY <1>1, <1>2, RowWork, PlaceWork DEF NextRow, Ended
<1>3. CASE Carried(r)
  BY <1>1, <1>3, PlaceWork DEF Carried
<1>4. CASE Refused(r) \/ Store(r) \/ WriteFails(r)
  BY <1>1, <1>4, RowWork DEF Refused, Store, WriteFails
<1>5. CASE Busy(r) \/ LostAnswer(r)
  BY <1>1, <1>5, RowWork, RetryWork DEF Busy, LostAnswer
<1>6. CASE Expired(r)
  <2>1. CASE renewed[r] BY <1>1, <1>6, <2>1, RowWork DEF Expired
  <2>2. CASE ~renewed[r]
    <3>1. renewed' = [renewed EXCEPT ![r] = TRUE] /\ UNCHANGED <<out, pc>>
      BY <1>6, <2>2 DEF Expired
    <3>2. renewed'[r] BY <3>1, Zenon DEF Typed, TypeOK
    <3>3. Renewals(r)' < Renewals(r) BY <2>2, <3>2 DEF Renewals
    <3> QED BY <1>1, <3>1, <3>3 DEF Work, RowsLeft, Place, Precedes
  <2> QED BY <2>1, <2>2
<1>7. CASE Audit(r)
  BY <1>1, <1>7, RowWork, PlaceWork DEF Audit, AfterAudit
<1> QED BY <1>2, <1>3, <1>4, <1>5, <1>6, <1>7 DEF Step

(* Whatever r does not do itself. *)
LEMMA OthersWork ==
  ASSUME Typed, NEW q \in Request, Step(q) \/ Arrive(q), NEW r \in Request \ {q}
  PROVE  UNCHANGED <<pc[r], rows[r], out[r], attempt[r], renewed[r]>>
<1>1. CASE Arrive(q)
  BY <1>1 DEF Arrive, Create, Import, Eject, Retrieve, Start, Goto, calls, Typed, TypeOK, Shapes
<1>2. ASSUME NEW result, EndRow(q, result), rows' = rows
      PROVE  UNCHANGED <<pc[r], rows[r], out[r], attempt[r], renewed[r]>>
  BY <1>2 DEF EndRow, Goto, Typed, TypeOK, Shapes
<1>3. ASSUME NEW w, Goto(q, w), UNCHANGED <<rows, out, calls>>
      PROVE  UNCHANGED <<pc[r], rows[r], out[r], attempt[r], renewed[r]>>
  BY <1>3 DEF Goto, calls, Typed, TypeOK
<1>4. ASSUME Retry(q), rows' = rows
      PROVE  UNCHANGED <<pc[r], rows[r], out[r], attempt[r], renewed[r]>>
  BY <1>2, <1>4 DEF Retry, Typed, TypeOK
<1>5. CASE NextRow(q) \/ Carried(q) \/ Audit(q)
  BY <1>2, <1>3, <1>5 DEF NextRow, Carried, Audit, AfterAudit
<1>6. CASE Refused(q) \/ Store(q) \/ WriteFails(q)
  BY <1>2, <1>6 DEF Refused, Store, WriteFails
<1>7. CASE Busy(q) \/ LostAnswer(q)
  BY <1>2, <1>4, <1>7 DEF Busy, LostAnswer
<1>8. CASE Expired(q)
  BY <1>2, <1>8 DEF Expired, Typed, TypeOK
<1> QED BY <1>1, <1>5, <1>6, <1>7, <1>8 DEF Step

(* Every request ends after finitely many steps of its own, however many   *)
(* requests there are, however long an import and whatever Backblaze       *)
(* answers: each step of a route leaves it less to do, and nobody else     *)
(* gives it more (_request, create_group_member_with_retry).               *)
THEOREM EveryStepIsOneLess == Spec => [][\A r \in Request : Advances(r)]_vars
<1>1. IInv /\ [Next]_vars => [\A r \in Request : Advances(r)]_vars
  <2> SUFFICES ASSUME IInv, Next, NEW r \in Request PROVE Advances(r)
    OBVIOUS
  <2>1. Typed BY DEF IInv
  <2>2. /\ Work(r) \in Nat \X Nat \X Nat \X Nat
        /\ Step(r) => Precedes(Work(r)', Work(r))
    BY <2>1, StepWork, WorkIsNatural
  <2>3. Step(r) \/ Arrive(r) => pc[r] \notin Ended
    BY DEF Step, NextRow, Carried, Refused, Busy, LostAnswer, Expired, Audit, Store, WriteFails,
           Arrive, Create, Import, Eject, Retrieve, Start, Ended
  <2>4. Arrive(r) => ~Under(r)
    BY DEF Arrive, Create, Import, Eject, Retrieve, Start, Under
  <2>5. CASE Step(r) \/ Arrive(r) BY <2>2, <2>3, <2>4, <2>5 DEF Advances
  <2>6. ASSUME NEW q \in Request \ {r}, Step(q) \/ Arrive(q) PROVE Advances(r)
    <3>1. UNCHANGED <<pc[r], rows[r], out[r], attempt[r], renewed[r]>> BY <2>1, <2>6, OthersWork
    <3>2. Work(r)' = Work(r) BY <3>1 DEF Work, RowsLeft, Place, Renewals, CallsLeft
    <3> QED BY <2>2, <3>1, <3>2 DEF Advances
  <2>7. ASSUME NEW q \in Request, Crash(q) PROVE Advances(r)
    <3>1. /\ pc' = [pc EXCEPT ![q] = "crashed"] /\ pc[q] \notin Ended \cup {"idle"}
          /\ attempt' = [attempt EXCEPT ![q] = 0] /\ renewed' = [renewed EXCEPT ![q] = FALSE]
          /\ UNCHANGED <<rows, out>>
      BY <2>7 DEF Crash, Goto
    <3>2. CASE q = r
      <4>1. pc[r] \notin Ended /\ pc'[r] = "crashed" BY <2>1, <3>1, <3>2 DEF Typed, TypeOK
      <4>2. Under(r) => Place(r)' < Place(r)
        BY <2>1, <4>1 DEF Under, Place, Ended, Typed, TypeOK
      <4>3. Under(r) => Precedes(Work(r)', Work(r))
        BY <3>1, <4>2 DEF Work, RowsLeft, Precedes
      <4> QED BY <2>2, <4>1, <4>3 DEF Advances
    <3>3. CASE q # r
      <4>1. UNCHANGED <<pc[r], rows[r], out[r], attempt[r], renewed[r]>>
        BY <2>1, <3>1, <3>3 DEF Typed, TypeOK
      <4>2. Work(r)' = Work(r) BY <4>1 DEF Work, RowsLeft, Place, Renewals, CallsLeft
      <4> QED BY <2>2, <4>1, <4>2 DEF Advances
    <3> QED BY <3>2, <3>3
  <2> QED BY <2>5, <2>6, <2>7 DEF Next
<1> QED BY <1>1, Inductive, PTL DEF Spec
=============================================================================

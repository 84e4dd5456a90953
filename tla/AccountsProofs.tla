---------------------------- MODULE AccountsProofs ----------------------------
(***************************************************************************)
(* What the routes of users and roles and single sign-on keep, for any     *)
(* number of requests, roles, permissions and accounts; and, in the second *)
(* part, what the table that gives a sign-on its role keeps.               *)
(***************************************************************************)
EXTENDS Accounts, GroupMappings, SequenceTheorems, FiniteSetTheorems, TLAPS

Row == [email : Email, role : Role, active : BOOLEAN, source : {"local", "sso"}]
Op == {"none", "sso"} \cup UserOps \cup RoleOps
Local == [pc : {"idle", "check", "write", "lookup", "sso"}, op : Op, by : Nat,
          held : SUBSET Perm, who : Nat \cup Email \cup SUBSET Perm, arg : Role \cup Email]

PermOK ==
  /\ DOMAIN perm \subseteq Role /\ BuiltIn \subseteq DOMAIN perm
  /\ perm \in [DOMAIN perm -> SUBSET Perm]

AcctOK == acct \in Seq(Row) /\ Len(acct) \in User /\ Accepted(acct)

(* What each operation is called with, and is not called with. *)
ArgsOK(op, by, x, y) ==
  /\ op \in {"create", "import", "sso"} => x \in Email /\ y \in Role
  /\ op = "assign" => x \in Id /\ x # by /\ y \in Role
  /\ op = "rename" => x \in Id /\ y \in Email
  /\ op \in {"activate", "deactivate"} => x \in Id
  /\ op = "delete" => x \in Id /\ x # by
  /\ op \in {"addRole", "editRole"} => x \in SUBSET Perm /\ y \in Role
  /\ op = "dropRole" => y \notin BuiltIn

(* Where a request is tells what it does. *)
StageOK(r) ==
  /\ r.pc = "idle" => r.op = "none"
  /\ r.pc = "check" => r.op \in Granting
  /\ r.pc = "write" => r.op \in UserOps \cup RoleOps
  /\ r.pc \in {"lookup", "sso"} => r.op = "sso"

(* A sign-on that found an account found one of single sign-on. *)
FoundOK(r) ==
  r.pc = "sso" /\ r.by # 0 => r.by \in Id /\ acct[r.by].source = "sso"

LocOK ==
  /\ loc \in [Request -> Local]
  /\ \A q \in Request :
       /\ ArgsOK(loc[q].op, loc[q].by, loc[q].who, loc[q].arg)
       /\ StageOK(loc[q])
       /\ FoundOK(loc[q])

LentOK == lent \in [Request -> SUBSET Perm]

(* A checked request still holds what its role has, but for what whoever   *)
(* rewrote the role held; and who writes a role holds what he puts in it.  *)
CheckedOK ==
  \A q \in Request : loc[q].pc = "write" =>
    /\ loc[q].op \in Granting => RolePerms(loc[q].arg) \subseteq loc[q].held \cup lent[q]
    /\ loc[q].op \in {"addRole", "editRole"} => loc[q].who \subseteq loc[q].held

(* A request that writes without a check grants no role. *)
Ready(r) == r.pc = "write" =>
  /\ r.op \notin Granting
  /\ r.op \in {"addRole", "editRole"} => r.who \subseteq r.held

IInv == PermOK /\ AcctOK /\ LocOK /\ CheckedOK /\ LentOK

-----------------------------------------------------------------------------
LEMMA IdleOK == Idle \in Local /\ ArgsOK("none", 0, 0, "admin") /\ StageOK(Idle)
BY AccountsAssumption DEF Idle, Local, Op, ArgsOK, StageOK

LEMMA RolePermsType == PermOK => \A r : RolePerms(r) \subseteq Perm
BY DEF PermOK, RolePerms

(* A row replaced: the others stay. *)
LEMMA ReplaceRow ==
  ASSUME acct \in Seq(Row), NEW u \in Id, NEW row \in Row
  PROVE  /\ [acct EXCEPT ![u] = row] \in Seq(Row)
         /\ Len([acct EXCEPT ![u] = row]) = Len(acct)
         /\ \A i \in Id : [acct EXCEPT ![u] = row][i] = IF i = u THEN row ELSE acct[i]
BY ExceptSeq DEF Id

(* A row added: the others stay. *)
LEMMA AddRow ==
  ASSUME acct \in Seq(Row), NEW row \in Row
  PROVE  /\ Append(acct, row) \in Seq(Row)
         /\ Len(Append(acct, row)) = Len(acct) + 1
         /\ \A i \in Id : Append(acct, row)[i] = acct[i]
BY AppendProperties DEF Id

(* What is committed, a constraint has accepted. *)
LEMMA CommitStep ==
  ASSUME AcctOK, NEW T \in Seq(Row), Len(T) >= Len(acct), Commit(T), UNCHANGED perm
  PROVE  AcctOK'
<1>1. CASE Len(T) <= MaxUsers /\ Accepted(T)
  <2>1. acct' = T
    BY <1>1 DEF Commit
  <2>2. Accepted(acct)'
    BY <1>1, <2>1 DEF Accepted
  <2>3. Len(T) \in Nat /\ Len(acct) \in 1..MaxUsers
    BY LenProperties DEF AcctOK, User
  <2>4. QED BY <1>1, <2>1, <2>2, <2>3, AccountsAssumption DEF AcctOK, User
<1>2. CASE ~(Len(T) <= MaxUsers /\ Accepted(T))
  BY <1>2 DEF Commit, AcctOK, Accepted
<1>3. QED BY <1>1, <1>2

(* The rows each write would commit. *)
LEMMA UpdateRows ==
  ASSUME AcctOK, LocOK, PermOK, NEW q \in Request, UpdateUser(q)
  PROVE  \E T \in Seq(Row) :
           /\ Commit(T) /\ Len(T) = Len(acct)
           /\ \A i \in Id : T[i].source = acct[i].source
           /\ \A i \in Id : i # loc[q].who => T[i] = acct[i]
<1> DEFINE u == loc[q].who
           row == CASE loc[q].op = "assign"   -> [acct[u] EXCEPT !.role = loc[q].arg]
                    [] loc[q].op = "rename"   -> [acct[u] EXCEPT !.email = loc[q].arg]
                    [] loc[q].op = "activate" -> [acct[u] EXCEPT !.active = TRUE]
                    [] OTHER                  -> [acct[u] EXCEPT !.active = FALSE]
           T == [acct EXCEPT ![u] = row]
<1>1. u \in Id
  BY DEF UpdateUser, Writes, LocOK, ArgsOK
<1>2. acct[u] \in Row
  BY <1>1, ElementOfSeq DEF AcctOK, Id
<1>3. row \in Row /\ row.source = acct[u].source
  <2>1. loc[q].op = "assign" => loc[q].arg \in Role
    BY DEF LocOK, ArgsOK
  <2>2. loc[q].op = "rename" => loc[q].arg \in Email
    BY DEF LocOK, ArgsOK
  <2>3. QED BY <1>2, <2>1, <2>2 DEF Row
<1>4. Commit(T)
  BY DEF UpdateUser
<1>5. /\ T \in Seq(Row) /\ Len(T) = Len(acct)
      /\ \A i \in Id : T[i] = IF i = u THEN row ELSE acct[i]
  BY <1>1, <1>3, ReplaceRow DEF AcctOK
<1> HIDE DEF T, row
<1>6. QED BY <1>3, <1>4, <1>5

LEMMA CreateRows ==
  ASSUME AcctOK, LocOK, NEW q \in Request, CreateUser(q), acct' # acct
  PROVE  \E T \in Seq(Row) :
           /\ Commit(T) /\ Len(T) = Len(acct) + 1 /\ \A i \in Id : T[i] = acct[i]
<1> DEFINE row == Account(loc[q].who, loc[q].arg, "local")
<1>1. row \in Row
  BY DEF CreateUser, Writes, LocOK, ArgsOK, Account, Row
<1>2. Commit(Append(acct, row))
  BY DEF CreateUser
<1>3. QED BY <1>1, <1>2, AddRow DEF AcctOK

LEMMA SsoRows ==
  ASSUME AcctOK, LocOK, NEW q \in Request, SsoWrite(q)
  PROVE  \E T \in Seq(Row) :
           /\ Commit(T) /\ Len(T) >= Len(acct)
           /\ \A i \in Id : \/ T[i] = acct[i]
                            \/ acct[i].source = "sso" /\ T[i].source = "sso"
<1> DEFINE k == loc[q].by
<1>0. loc[q].who \in Email /\ loc[q].arg \in Role /\ Len(acct) \in Nat
  BY DEF SsoWrite, LocOK, StageOK, ArgsOK, AcctOK, User
<1>1. CASE k = 0
  <2> DEFINE row == Account(loc[q].who, loc[q].arg, "sso")
  <2>1. row \in Row
    BY <1>0 DEF Account, Row
  <2>2. Commit(Append(acct, row))
    BY <1>1 DEF SsoWrite
  <2>3. /\ Append(acct, row) \in Seq(Row) /\ Len(Append(acct, row)) = Len(acct) + 1
        /\ \A i \in Id : Append(acct, row)[i] = acct[i]
    BY <2>1, AddRow DEF AcctOK
  <2>4. Len(Append(acct, row)) >= Len(acct)
    BY <1>0, <2>3
  <2>5. QED BY <2>2, <2>3, <2>4
<1>2. CASE k # 0
  <2> DEFINE row == [acct[k] EXCEPT !.role = loc[q].arg, !.source = "sso"]
             T == [acct EXCEPT ![k] = row]
  <2>1. k \in Id /\ acct[k].source = "sso"
    BY <1>2 DEF SsoWrite, LocOK, FoundOK
  <2>2. acct[k] \in Row
    BY <2>1, ElementOfSeq DEF AcctOK, Id
  <2>3. row \in Row /\ row.source = "sso"
    BY <1>0, <2>2 DEF Row
  <2>4. Commit(T)
    <3>1. T = [acct EXCEPT ![k].role = loc[q].arg, ![k].source = "sso"]
      BY <2>1, <2>2 DEF AcctOK, Row
    <3>2. QED BY <1>2, <3>1 DEF SsoWrite
  <2>5. /\ T \in Seq(Row) /\ Len(T) = Len(acct)
        /\ \A i \in Id : T[i] = IF i = k THEN row ELSE acct[i]
    BY <2>1, <2>3, ReplaceRow DEF AcctOK
  <2> HIDE DEF T, row
  <2>6. QED BY <1>0, <2>1, <2>3, <2>4, <2>5
<1>3. QED BY <1>1, <1>2

-----------------------------------------------------------------------------
(* The steps that only read, or end a request. *)
LEMMA ReadsOnly ==
  ASSUME NEW q \in Request,
         \/ Arrive(q) \/ Check(q) \/ SsoLookup(q)
         \/ \E e \in Email, r \in Role : SsoRole(q, e, r)
  PROVE  UNCHANGED <<perm, acct>>
<1>1. CASE Arrive(q)
  <2>1. \A op, a, x, y : Begin(q, op, a, x, y) => UNCHANGED <<perm, acct>>
    BY Zenon DEF Begin
  <2>2. QED BY <1>1, <2>1, Zenon DEF Arrive
<1>2. CASE Check(q)
  BY <1>2, Zenon DEF Check
<1>3. CASE SsoLookup(q)
  BY <1>3, Zenon DEF SsoLookup
<1>4. CASE \E e \in Email, r \in Role : SsoRole(q, e, r)
  BY <1>4, Zenon DEF SsoRole
<1>5. QED BY <1>1, <1>2, <1>3, <1>4

(* No step takes an account away or changes a row of single sign-on into a *)
(* local one, and none but a sign-on makes a row one of single sign-on.    *)
LEMMA AcctStep ==
  ASSUME IInv, [Next]_vars
  PROVE  /\ AcctOK'
         /\ Len(acct') >= Len(acct)
         /\ \A i \in Id : acct'[i].source = acct[i].source
<1> USE DEF IInv
<1> DEFINE Goal == /\ AcctOK' /\ Len(acct') >= Len(acct)
                   /\ \A i \in Id : acct'[i].source = acct[i].source
<1>0. Len(acct) \in Nat
  BY DEF AcctOK, User
<1>1. ASSUME NEW T \in Seq(Row), Commit(T), Len(T) >= Len(acct), UNCHANGED perm,
             \A i \in Id : T[i].source = acct[i].source
      PROVE  Goal
  BY <1>0, <1>1, CommitStep DEF Commit
<1>2. ASSUME NEW q \in Request, UpdateUser(q) PROVE Goal
  <2>1. UNCHANGED perm
    BY <1>2 DEF UpdateUser
  <2>2. PICK T \in Seq(Row) : /\ Commit(T) /\ Len(T) = Len(acct)
                              /\ \A i \in Id : T[i].source = acct[i].source
    BY <1>2, UpdateRows
  <2>3. QED BY <1>0, <1>1, <2>1, <2>2
<1>3. ASSUME NEW q \in Request, CreateUser(q), acct' # acct PROVE Goal
  <2>1. UNCHANGED perm
    BY <1>3 DEF CreateUser
  <2>2. PICK T \in Seq(Row) : Commit(T) /\ Len(T) = Len(acct) + 1 /\ \A i \in Id : T[i] = acct[i]
    BY <1>3, CreateRows
  <2>3. QED BY <1>0, <1>1, <2>1, <2>2
<1>4. ASSUME NEW q \in Request, SsoWrite(q) PROVE Goal
  <2>1. UNCHANGED perm
    BY <1>4 DEF SsoWrite
  <2>2. PICK T \in Seq(Row) : /\ Commit(T) /\ Len(T) >= Len(acct)
                              /\ \A i \in Id : \/ T[i] = acct[i]
                                               \/ acct[i].source = "sso" /\ T[i].source = "sso"
    BY <1>4, SsoRows
  <2>3. QED BY <1>1, <2>1, <2>2
<1>5. ASSUME acct' = acct, DOMAIN perm \subseteq DOMAIN perm' PROVE Goal
  BY <1>0, <1>5 DEF AcctOK, Accepted
<1>6. ASSUME NEW q \in Request, SaveRole(q) PROVE Goal
  BY <1>5, <1>6 DEF SaveRole, End
<1>7. ASSUME NEW q \in Request, DropRole(q) PROVE Goal
  <2>1. acct' = acct
    BY <1>7 DEF DropRole
  <2>2. \A i \in DOMAIN acct : acct[i].role \in DOMAIN perm'
    <3>1. DOMAIN acct = Id
      BY LenProperties DEF AcctOK, Id
    <3>2. QED BY <1>7, <3>1 DEF DropRole, AcctOK, Accepted
  <2>3. QED BY <1>0, <2>1, <2>2 DEF AcctOK, Accepted
<1>8. ASSUME UNCHANGED <<perm, acct>> PROVE Goal
  BY <1>5, <1>8
<1>9. ASSUME NEW q \in Request, CreateUser(q) \/ ImportFails(q) PROVE Goal
  BY <1>3, <1>8, <1>9 DEF CreateUser, ImportFails
<1>10. CASE UNCHANGED vars
  BY <1>8, <1>10 DEF vars
<1>11. QED
  BY <1>2, <1>4, <1>6, <1>7, <1>8, <1>9, <1>10, ReadsOnly DEF Next

(* Only the writes of the routes touch the roles. *)
LEMMA PermStep == IInv /\ [Next]_vars => PermOK'
<1> SUFFICES ASSUME IInv, [Next]_vars PROVE PermOK'
  OBVIOUS
<1>1. ASSUME NEW q \in Request, SaveRole(q) PROVE PermOK'
  <2>1. loc[q].op \in {"addRole", "editRole"} /\ loc[q].who \in SUBSET Perm /\ loc[q].arg \in Role
    BY <1>1 DEF SaveRole, Writes, IInv, LocOK, ArgsOK
  <2>2. QED BY <1>1, <2>1 DEF SaveRole, End, PermOK, IInv
<1>2. ASSUME NEW q \in Request, DropRole(q) PROVE PermOK'
  <2>1. loc[q].arg \notin BuiltIn
    BY <1>2 DEF DropRole, Writes, IInv, LocOK, ArgsOK
  <2>2. QED BY <1>2, <2>1 DEF DropRole, PermOK, IInv
<1>3. ASSUME UNCHANGED perm PROVE PermOK'
  BY <1>3 DEF IInv, PermOK
<1>4. ASSUME NEW q \in Request, CreateUser(q) \/ ImportFails(q) \/ UpdateUser(q) \/ SsoWrite(q)
      PROVE  PermOK'
  BY <1>3, <1>4 DEF CreateUser, ImportFails, UpdateUser, SsoWrite
<1>5. CASE UNCHANGED vars
  BY <1>3, <1>5 DEF vars
<1>6. QED
  BY <1>1, <1>2, <1>3, <1>4, <1>5, ReadsOnly DEF Next

(* A request that another step leaves alone stays as it should be. *)
LEMMA Undisturbed ==
  ASSUME IInv, [Next]_vars, NEW q \in Request, loc'[q] = loc[q]
  PROVE  /\ ArgsOK(loc[q].op, loc[q].by, loc[q].who, loc[q].arg)'
         /\ StageOK(loc[q])' /\ FoundOK(loc[q])'
<1>1. Id \subseteq Id' /\ \A i \in Id : acct'[i].source = acct[i].source
  <2>1. Len(acct) \in Nat /\ Len(acct') \in Nat
    BY AcctStep DEF IInv, AcctOK, User
  <2>2. QED BY <2>1, AcctStep DEF Id
<1>2. QED BY <1>1 DEF IInv, LocOK, ArgsOK, StageOK, FoundOK

(* A request begins with the arguments of its route. *)
LEMMA BeginStep ==
  ASSUME IInv, NEW q \in Request, Arrive(q)
  PROVE  /\ \E r \in Local : /\ loc' = [loc EXCEPT ![q] = r]
                             /\ ArgsOK(r.op, r.by, r.who, r.arg) /\ StageOK(r)
                             /\ r.pc \in {"check", "write"}
                             /\ Ready(r)
         /\ loc[q].pc = "idle" /\ UNCHANGED <<perm, acct, lent>>
<1> USE DEF IInv
<1>1. ASSUME NEW op \in UserOps \cup RoleOps, NEW a \in Id, NEW x \in Nat \cup Email \cup SUBSET Perm,
             NEW y \in Role \cup Email, Begin(q, op, a, x, y), ArgsOK(op, a, x, y)
      PROVE  /\ \E r \in Local : /\ loc' = [loc EXCEPT ![q] = r]
                                 /\ ArgsOK(r.op, r.by, r.who, r.arg) /\ StageOK(r)
                                 /\ r.pc \in {"check", "write"}
                                 /\ Ready(r)
             /\ loc[q].pc = "idle" /\ UNCHANGED <<perm, acct, lent>>
  <2> DEFINE r == [pc |-> IF op \in Granting THEN "check" ELSE "write",
                   op |-> op, by |-> a, held |-> RolePerms(acct[a].role), who |-> x, arg |-> y]
  <2>1. a \in Nat
    BY DEF Id
  <2>2. RolePerms(acct[a].role) \subseteq Perm
    BY RolePermsType
  <2>3. r \in Local
    BY <2>1, <2>2 DEF Local, Op
  <2>4. loc' = [loc EXCEPT ![q] = r] /\ loc[q].pc = "idle" /\ UNCHANGED <<perm, acct, lent>>
    BY <1>1 DEF Begin
  <2>5. StageOK(r) /\ r.pc \in {"check", "write"} /\ Ready(r)
    <3>1. op \in {"addRole", "editRole"} => x \subseteq RolePerms(acct[a].role)
      BY <1>1 DEF Begin, Allowed
    <3>2. StageOK(r) /\ r.pc \in {"check", "write"}
      BY DEF StageOK, Granting
    <3>3. Ready(r)
      BY <3>1 DEF Ready
    <3>4. QED BY <3>2, <3>3
  <2>6. QED BY <1>1, <2>3, <2>4, <2>5
<1>2. \A i \in Id : i \in Nat
  BY DEF Id
<1>3. ASSUME NEW a \in Id, NEW e \in Email, NEW r \in Role, NEW op \in {"create", "import"},
             Begin(q, op, a, e, r)
      PROVE  ArgsOK(op, a, e, r) /\ op \in UserOps
  BY <1>3 DEF ArgsOK, UserOps
<1>4. ASSUME NEW a \in Id, NEW u \in Id, NEW r \in Role, Begin(q, "assign", a, u, r)
      PROVE  ArgsOK("assign", a, u, r)
  BY <1>4 DEF ArgsOK, Begin, Allowed
<1>5. ASSUME NEW a \in Id, NEW u \in Id, NEW e \in Email, Begin(q, "rename", a, u, e)
      PROVE  ArgsOK("rename", a, u, e)
  BY <1>5 DEF ArgsOK
<1>6. ASSUME NEW a \in Id, NEW u \in Id, NEW op \in {"deactivate", "activate", "delete"},
             Begin(q, op, a, u, "admin")
      PROVE  ArgsOK(op, a, u, "admin") /\ op \in UserOps
  BY <1>6 DEF ArgsOK, Begin, Allowed, UserOps
<1>7. ASSUME NEW a \in Id, NEW P \in SUBSET Perm, NEW r \in Role, NEW op \in {"addRole", "editRole"},
             Begin(q, op, a, P, r)
      PROVE  ArgsOK(op, a, P, r) /\ op \in RoleOps
  BY <1>7 DEF ArgsOK, RoleOps
<1>8. ASSUME NEW a \in Id, NEW r \in Role, Begin(q, "dropRole", a, {}, r)
      PROVE  ArgsOK("dropRole", a, {}, r)
  BY <1>8 DEF ArgsOK, Begin, Allowed
<1>9. "admin" \in Role /\ {"assign", "rename"} \subseteq UserOps /\ "dropRole" \in RoleOps
  BY AccountsAssumption DEF UserOps, RoleOps
<1>10. PICK a \in Id :
         \/ \E e \in Email, r \in Role : Begin(q, "create", a, e, r) \/ Begin(q, "import", a, e, r)
         \/ \E u \in Id, r \in Role : Begin(q, "assign", a, u, r)
         \/ \E u \in Id, e \in Email : Begin(q, "rename", a, u, e)
         \/ \E u \in Id : \E op \in {"deactivate", "activate", "delete"} : Begin(q, op, a, u, "admin")
         \/ \E P \in SUBSET Perm, r \in Role : Begin(q, "addRole", a, P, r) \/ Begin(q, "editRole", a, P, r)
         \/ \E r \in Role : Begin(q, "dropRole", a, {}, r)
  BY DEF Arrive
<1>11. CASE \E e \in Email, r \in Role : Begin(q, "create", a, e, r) \/ Begin(q, "import", a, e, r)
  BY <1>1, <1>3, <1>11
<1>12. CASE \E u \in Id, r \in Role : Begin(q, "assign", a, u, r)
  BY <1>1, <1>2, <1>4, <1>9, <1>12
<1>13. CASE \E u \in Id, e \in Email : Begin(q, "rename", a, u, e)
  BY <1>1, <1>2, <1>5, <1>9, <1>13
<1>14. CASE \E u \in Id : \E op \in {"deactivate", "activate", "delete"} : Begin(q, op, a, u, "admin")
  BY <1>1, <1>2, <1>6, <1>9, <1>14
<1>15. CASE \E P \in SUBSET Perm, r \in Role : Begin(q, "addRole", a, P, r) \/ Begin(q, "editRole", a, P, r)
  BY <1>1, <1>7, <1>15
<1>16. CASE \E r \in Role : Begin(q, "dropRole", a, {}, r)
  BY <1>1, <1>8, <1>9, <1>16
<1>17. QED BY <1>10, <1>11, <1>12, <1>13, <1>14, <1>15, <1>16

LEMMA LocStep == IInv /\ [Next]_vars => LocOK'
<1> SUFFICES ASSUME IInv, [Next]_vars PROVE LocOK'
  OBVIOUS
<1> USE DEF IInv
<1>0. Id \subseteq Id' /\ \A i \in Id : acct'[i].source = acct[i].source
  <2>1. Len(acct) \in Nat /\ Len(acct') \in Nat
    BY AcctStep DEF AcctOK, User
  <2>2. QED BY <2>1, AcctStep DEF Id
<1>1. ASSUME NEW q \in Request, NEW r \in Local, loc' = [loc EXCEPT ![q] = r],
             ArgsOK(r.op, r.by, r.who, r.arg)', StageOK(r), FoundOK(r)'
      PROVE  LocOK'
  <2>1. loc' \in [Request -> Local]
    BY <1>1 DEF LocOK
  <2>2. /\ loc'[q] = r
        /\ \A p \in Request \ {q} : loc'[p] = loc[p]
    BY <1>1 DEF LocOK
  <2>3. \A p \in Request \ {q} : /\ ArgsOK(loc[p].op, loc[p].by, loc[p].who, loc[p].arg)'
                                 /\ StageOK(loc[p])' /\ FoundOK(loc[p])'
    BY <2>2, Undisturbed
  <2>4. /\ ArgsOK(loc[q].op, loc[q].by, loc[q].who, loc[q].arg)'
        /\ StageOK(loc[q])' /\ FoundOK(loc[q])'
    BY <1>1, <2>2 DEF ArgsOK, StageOK, FoundOK
  <2>5. QED BY <2>1, <2>3, <2>4 DEF LocOK
<1>2. ASSUME NEW q \in Request, loc' = [loc EXCEPT ![q] = Idle] PROVE LocOK'
  <2>1. ArgsOK(Idle.op, Idle.by, Idle.who, Idle.arg)' /\ FoundOK(Idle)'
    BY DEF Idle, ArgsOK, FoundOK, UserOps, RoleOps
  <2>2. QED BY <1>1, <1>2, <2>1, IdleOK
<1>3. ASSUME NEW q \in Request, Arrive(q) PROVE LocOK'
  <2>1. PICK r \in Local : /\ loc' = [loc EXCEPT ![q] = r]
                           /\ ArgsOK(r.op, r.by, r.who, r.arg) /\ StageOK(r)
                           /\ r.pc \in {"check", "write"}
    BY <1>3, BeginStep
  <2>2. ArgsOK(r.op, r.by, r.who, r.arg)' /\ FoundOK(r)'
    BY <1>0, <2>1 DEF ArgsOK, FoundOK
  <2>3. QED BY <1>1, <2>1, <2>2
<1>4. ASSUME NEW q \in Request, Check(q) PROVE LocOK'
  <2>1. CASE /\ RolePerms(loc[q].arg) \subseteq loc[q].held
             /\ loc[q].op = "import" => loc[q].arg \in DOMAIN perm
    <3>1. loc[q] \in Local /\ StageOK(loc[q]) /\ loc[q].pc = "check"
          /\ ArgsOK(loc[q].op, loc[q].by, loc[q].who, loc[q].arg)
      BY <1>4 DEF LocOK, Check
    <3>2. [loc[q] EXCEPT !.pc = "write"] \in Local
      BY <3>1 DEF Local
    <3>3. PICK r \in Local : r = [loc[q] EXCEPT !.pc = "write"]
      BY <3>2
    <3>4. r.pc = "write" /\ r.op = loc[q].op /\ r.by = loc[q].by
          /\ r.who = loc[q].who /\ r.arg = loc[q].arg
      BY <3>1, <3>3 DEF Local
    <3>5. loc' = [loc EXCEPT ![q] = r]
      BY <1>4, <2>1, <3>3 DEF Check
    <3>6. ArgsOK(r.op, r.by, r.who, r.arg)
      BY <3>1, <3>4
    <3>7. ArgsOK(r.op, r.by, r.who, r.arg)'
      BY <1>0, <3>6 DEF ArgsOK
    <3>8. StageOK(r) /\ FoundOK(r)'
      BY <3>1, <3>4 DEF StageOK, FoundOK, UserOps, Granting
    <3>9. QED BY <1>1, <3>5, <3>7, <3>8
  <2>2. CASE ~(/\ RolePerms(loc[q].arg) \subseteq loc[q].held
               /\ loc[q].op = "import" => loc[q].arg \in DOMAIN perm)
    BY <1>2, <1>4, <2>2 DEF Check, End
  <2>3. QED BY <2>1, <2>2
<1>5. ASSUME NEW q \in Request,
             \/ CreateUser(q) \/ ImportFails(q) \/ UpdateUser(q)
             \/ SaveRole(q) \/ DropRole(q) \/ SsoWrite(q)
      PROVE  LocOK'
  BY <1>2, <1>5 DEF CreateUser, ImportFails, UpdateUser, SaveRole, DropRole, SsoWrite, End
<1>6. ASSUME NEW q \in Request, NEW e \in Email, NEW r \in Role, SsoRole(q, e, r) PROVE LocOK'
  <2> DEFINE s == SsoLocal(q, e, r, "lookup")
  <2>1. s \in Local /\ s.pc = "lookup" /\ s.op = "sso" /\ s.who = e /\ s.arg = r
    BY AccountsAssumption DEF SsoLocal, Idle, Local, Op
  <2>2. loc' = [loc EXCEPT ![q] = s]
    BY <1>6 DEF SsoRole
  <2> HIDE DEF s
  <2>3. StageOK(s) /\ FoundOK(s)' /\ ArgsOK(s.op, s.by, s.who, s.arg)'
    BY <2>1 DEF StageOK, FoundOK, ArgsOK
  <2>4. QED BY <1>1, <2>1, <2>2, <2>3
<1>7. ASSUME NEW q \in Request, SsoLookup(q) PROVE LocOK'
  <2> DEFINE Known == {i \in Id : acct[i].email = loc[q].who}
             k == IF Known = {} THEN 0 ELSE CHOOSE i \in Known : TRUE
  <2>1. CASE \E i \in Known : Conflict(i)
    BY <1>2, <1>7, <2>1 DEF SsoLookup, End
  <2>2. CASE ~\E i \in Known : Conflict(i)
    <3>1. loc[q] \in Local /\ StageOK(loc[q]) /\ loc[q].pc = "lookup"
          /\ ArgsOK(loc[q].op, loc[q].by, loc[q].who, loc[q].arg)
      BY <1>7 DEF LocOK, SsoLookup
    <3>2. k = 0 \/ k \in Known
      OBVIOUS
    <3>3. \A i \in Id : acct[i] \in Row /\ i \in Nat
      BY ElementOfSeq DEF AcctOK, Id
    <3>4. k \in Nat /\ (k # 0 => k \in Id /\ acct[k].source = "sso")
      BY <2>2, <3>2, <3>3 DEF Conflict, Row
    <3>5. loc' = [loc EXCEPT ![q].pc = "sso", ![q].by = k]
      BY <1>7, <2>2 DEF SsoLookup
    <3> HIDE DEF k
    <3>6. [loc[q] EXCEPT !.pc = "sso", !.by = k] \in Local
      BY <3>1, <3>4 DEF Local
    <3>7. PICK r \in Local : r = [loc[q] EXCEPT !.pc = "sso", !.by = k]
      BY <3>6
    <3>8. r.pc = "sso" /\ r.op = loc[q].op /\ r.by = k
          /\ r.who = loc[q].who /\ r.arg = loc[q].arg
      BY <3>1, <3>7 DEF Local
    <3>9. loc' = [loc EXCEPT ![q] = r]
      BY <3>1, <3>5, <3>7 DEF LocOK, Local
    <3>10. r.op = "sso" /\ r.who \in Email /\ r.arg \in Role
      BY <3>1, <3>8 DEF StageOK, ArgsOK
    <3>11. ArgsOK(r.op, r.by, r.who, r.arg)'
      BY <3>10 DEF ArgsOK
    <3>12. StageOK(r)
      BY <3>8, <3>10 DEF StageOK
    <3>13. r.by = 0 \/ (r.by \in Id' /\ acct'[r.by].source = "sso")
      BY <1>0, <3>4, <3>8
    <3>14. FoundOK(r)'
      BY <3>13 DEF FoundOK
    <3>15. QED BY <1>1, <3>9, <3>11, <3>12, <3>14
  <2>3. QED BY <2>1, <2>2
<1>8. CASE UNCHANGED vars
  <2>1. UNCHANGED loc
    BY <1>8 DEF vars
  <2>2. QED BY <2>1, Undisturbed DEF LocOK
<1>9. QED
  BY <1>3, <1>4, <1>5, <1>6, <1>7, <1>8 DEF Next

(* A role that loses permissions harms no check, and one that gains some   *)
(* gains what its rewriter held, which he lends to those who checked it.   *)
LEMMA CheckedStep == IInv /\ [Next]_vars => CheckedOK' /\ LentOK'
<1> SUFFICES ASSUME IInv, [Next]_vars PROVE CheckedOK' /\ LentOK'
  OBVIOUS
<1> USE DEF IInv
<1>0. loc \in [Request -> Local] /\ lent \in [Request -> SUBSET Perm]
  BY DEF LocOK, LentOK
(* One request changes, and no role has more permissions than before. *)
<1>1. ASSUME NEW q \in Request, \A r : RolePerms(r)' \subseteq RolePerms(r), LentOK',
             \A p \in Request \ {q} : loc'[p] = loc[p] /\ lent'[p] = lent[p],
             loc'[q].pc = "write" =>
               /\ loc'[q].op \in Granting =>
                    RolePerms(loc[q].arg)' \subseteq loc'[q].held \cup lent'[q]
               /\ loc'[q].op \in {"addRole", "editRole"} => loc'[q].who \subseteq loc'[q].held
      PROVE  CheckedOK' /\ LentOK'
  <2>1. SUFFICES ASSUME NEW p \in Request, loc'[p].pc = "write"
                 PROVE  /\ loc'[p].op \in Granting =>
                             RolePerms(loc[p].arg)' \subseteq loc'[p].held \cup lent'[p]
                        /\ loc'[p].op \in {"addRole", "editRole"} => loc'[p].who \subseteq loc'[p].held
    BY <1>1 DEF CheckedOK
  <2>2. CASE p = q
    BY <1>1, <2>1, <2>2
  <2>3. CASE p # q
    <3>1. loc'[p] = loc[p] /\ lent'[p] = lent[p]
      BY <1>1, <2>3
    <3>2. loc[p].op \in Granting => RolePerms(loc[p].arg) \subseteq loc[p].held \cup lent[p]
      BY <2>1, <3>1 DEF CheckedOK
    <3>3. loc[p].op \in {"addRole", "editRole"} => loc[p].who \subseteq loc[p].held
      BY <2>1, <3>1 DEF CheckedOK
    <3>4. PICK x : x = loc[p].arg
      OBVIOUS
    <3>5. RolePerms(loc[p].arg)' = RolePerms(x)'
      BY <3>1, <3>4 DEF RolePerms
    <3>6. RolePerms(x)' \subseteq RolePerms(x)
      BY <1>1
    <3>7. QED BY <3>1, <3>2, <3>3, <3>4, <3>5, <3>6
  <2>4. QED BY <2>2, <2>3
<1>2. ASSUME NEW q \in Request, End(q), \A r : RolePerms(r)' \subseteq RolePerms(r)
      PROVE  CheckedOK' /\ LentOK'
  <2>1. /\ loc'[q].pc = "idle" /\ LentOK'
        /\ \A p \in Request \ {q} : loc'[p] = loc[p] /\ lent'[p] = lent[p]
    BY <1>0, <1>2 DEF End, Idle, LentOK
  <2>2. QED BY <1>1, <1>2, <2>1
<1>3. UNCHANGED perm => \A r : RolePerms(r)' \subseteq RolePerms(r)
  BY DEF RolePerms
<1>4. ASSUME NEW q \in Request, CreateUser(q) \/ ImportFails(q) \/ UpdateUser(q) \/ SsoWrite(q)
      PROVE  CheckedOK' /\ LentOK'
  BY <1>2, <1>3, <1>4 DEF CreateUser, ImportFails, UpdateUser, SsoWrite
<1>5. ASSUME NEW q \in Request, Arrive(q) PROVE CheckedOK' /\ LentOK'
  <2>1. PICK r \in Local : loc' = [loc EXCEPT ![q] = r] /\ Ready(r)
    BY <1>5, BeginStep
  <2>2. UNCHANGED <<perm, lent>>
    BY <1>5, BeginStep
  <2>3. /\ loc'[q] = r /\ LentOK'
        /\ \A p \in Request \ {q} : loc'[p] = loc[p] /\ lent'[p] = lent[p]
    BY <1>0, <2>1, <2>2 DEF LentOK
  <2>4. QED BY <1>1, <1>3, <2>1, <2>2, <2>3 DEF Ready
<1>6. ASSUME NEW q \in Request, Check(q) PROVE CheckedOK' /\ LentOK'
  <2>1. CASE End(q)
    BY <1>2, <1>3, <1>6, <2>1 DEF Check
  <2>2. CASE ~End(q)
    <3>1. /\ loc' = [loc EXCEPT ![q].pc = "write"] /\ UNCHANGED <<lent, perm>>
          /\ RolePerms(loc[q].arg) \subseteq loc[q].held /\ loc[q].pc = "check"
      BY <1>6, <2>2 DEF Check
    <3>2. /\ loc'[q].arg = loc[q].arg /\ loc'[q].held = loc[q].held /\ loc'[q].op = loc[q].op
          /\ LentOK' /\ \A p \in Request \ {q} : loc'[p] = loc[p] /\ lent'[p] = lent[p]
      BY <1>0, <3>1 DEF Local, LentOK
    <3>3. loc[q].op \in Granting
      BY <3>1 DEF LocOK, StageOK
    <3>4. loc[q].op \notin {"addRole", "editRole"}
      BY <3>3 DEF Granting
    <3>5. RolePerms(loc[q].arg)' = RolePerms(loc[q].arg)
      BY <3>1, <3>2 DEF RolePerms
    <3>6. QED BY <1>1, <1>3, <3>1, <3>2, <3>4, <3>5
  <2>3. QED BY <2>1, <2>2
<1>7. ASSUME NEW q \in Request, SaveRole(q) PROVE CheckedOK' /\ LentOK'
  <2> DEFINE r == loc[q].arg
  <2>1. CASE (loc[q].op = "addRole") = (r \notin DOMAIN perm)
    <3>1. /\ perm' = [s \in DOMAIN perm \cup {r} |-> IF s = r THEN loc[q].who ELSE perm[s]]
          /\ loc' = [loc EXCEPT ![q] = Idle]
          /\ lent' = [p \in Request |-> IF p \in Granted(r) THEN loc[q].held ELSE lent[p]]
      BY <1>7, <2>1 DEF SaveRole
    <3>2. loc[q].who \subseteq loc[q].held /\ loc[q].held \in SUBSET Perm
      BY <1>0, <1>7 DEF SaveRole, Writes, CheckedOK, Local
    <3>3. \A s : s # r => RolePerms(s)' = RolePerms(s)
      BY <3>1 DEF RolePerms
    <3>4. \A s : s = r => RolePerms(s)' = loc[q].who
      BY <3>1 DEF RolePerms
    <3>5. LentOK'
      <4>1. \A p \in Request : lent[p] \in SUBSET Perm
        BY <1>0
      <4>2. QED BY <3>1, <3>2, <4>1, SMTT(20) DEF LentOK
    <3>6. SUFFICES ASSUME NEW p \in Request, loc'[p].pc = "write"
                   PROVE  /\ loc'[p].op \in Granting =>
                               RolePerms(loc[p].arg)' \subseteq loc'[p].held \cup lent'[p]
                          /\ loc'[p].op \in {"addRole", "editRole"} => loc'[p].who \subseteq loc'[p].held
      BY <3>5 DEF CheckedOK
    <3>7. p # q
      BY <1>0, <3>1, <3>6 DEF Idle
    <3>8. loc'[p] = loc[p]
      BY <1>0, <3>1, <3>7
    <3>9. CASE p \in Granted(r)
      <4>1. lent'[p] = loc[q].held /\ loc[p].arg = r /\ loc[p].op \in Granting
        BY <3>1, <3>9 DEF Granted
      <4>2. loc[p].op \notin {"addRole", "editRole"}
        BY <4>1 DEF Granting
      <4>3. \A s : s = r => RolePerms(s)' \subseteq lent'[p]
        BY <3>2, <3>4, <4>1
      <4>4. RolePerms(loc[p].arg)' \subseteq lent'[p]
        <5>1. PICK s : s = r
          OBVIOUS
        <5>2. loc'[p].arg = s
          BY <3>8, <4>1, <5>1
        <5>3. RolePerms(s)' \subseteq lent'[p]
          BY <4>3, <5>1
        <5>4. QED BY <5>2, <5>3 DEF RolePerms
      <4>5. QED BY <3>8, <4>2, <4>4
    <3>10. CASE p \notin Granted(r)
      <4>1. lent'[p] = lent[p]
        BY <3>1, <3>10
      <4>2. loc[p].op \in Granting => loc[p].arg # r
        BY <3>6, <3>8, <3>10 DEF Granted
      <4>3. loc[p].op \in Granting => RolePerms(loc[p].arg) \subseteq loc[p].held \cup lent[p]
        BY <3>6, <3>8 DEF CheckedOK
      <4>4. loc[p].op \in {"addRole", "editRole"} => loc[p].who \subseteq loc[p].held
        BY <3>6, <3>8 DEF CheckedOK
      <4>5. loc[p].op \in Granting => RolePerms(loc[p].arg)' = RolePerms(loc[p].arg)
        <5>1. PICK s : s = loc[p].arg
          OBVIOUS
        <5>2. loc[p].op \in Granting => RolePerms(s)' = RolePerms(s)
          BY <3>3, <4>2, <5>1
        <5>3. RolePerms(loc[p].arg)' = RolePerms(s)'
          BY <3>8, <5>1 DEF RolePerms
        <5>4. QED BY <5>1, <5>2, <5>3
      <4>6. QED BY <3>8, <4>1, <4>3, <4>4, <4>5
    <3>11. QED BY <3>9, <3>10
  <2>2. CASE ~((loc[q].op = "addRole") = (r \notin DOMAIN perm))
    BY <1>2, <1>3, <1>7, <2>2 DEF SaveRole
  <2>3. QED BY <2>1, <2>2
<1>8. ASSUME NEW q \in Request, DropRole(q) PROVE CheckedOK' /\ LentOK'
  <2>1. \A r : RolePerms(r)' \subseteq RolePerms(r)
    BY <1>8 DEF DropRole, RolePerms
  <2>2. End(q)
    BY <1>8 DEF DropRole
  <2>3. QED BY <1>2, <2>1, <2>2
<1>9. ASSUME NEW q \in Request, NEW e \in Email, NEW r \in Role, SsoRole(q, e, r)
      PROVE  CheckedOK' /\ LentOK'
  <2>1. /\ loc'[q].pc = "lookup" /\ LentOK' /\ UNCHANGED perm
        /\ \A p \in Request \ {q} : loc'[p] = loc[p] /\ lent'[p] = lent[p]
    BY <1>0, <1>9 DEF SsoRole, SsoLocal, Idle, LentOK
  <2>2. QED BY <1>1, <1>3, <2>1
<1>10. ASSUME NEW q \in Request, SsoLookup(q) PROVE CheckedOK' /\ LentOK'
  <2>1. CASE End(q)
    BY <1>2, <1>3, <1>10, <2>1 DEF SsoLookup
  <2>2. CASE ~End(q)
    <3>1. UNCHANGED <<perm, lent>> /\ \E k : loc' = [loc EXCEPT ![q].pc = "sso", ![q].by = k]
      BY <1>10, <2>2 DEF SsoLookup
    <3>2. /\ loc'[q].pc = "sso" /\ LentOK'
          /\ \A p \in Request \ {q} : loc'[p] = loc[p] /\ lent'[p] = lent[p]
      BY <1>0, <3>1 DEF Local, LentOK
    <3>3. QED BY <1>1, <1>3, <3>1, <3>2
  <2>3. QED BY <2>1, <2>2
<1>11. CASE UNCHANGED vars
  BY <1>11 DEF vars, CheckedOK, LentOK, RolePerms
<1>12. QED
  BY <1>4, <1>5, <1>6, <1>7, <1>8, <1>9, <1>10, <1>11 DEF Next
-----------------------------------------------------------------------------
LEMMA Invariance == Spec => []IInv
<1>1. Init => IInv
  <2> SUFFICES ASSUME Init PROVE IInv
    OBVIOUS
  <2> USE AccountsAssumption DEF Init
  <2> DEFINE e == CHOOSE x \in Email : TRUE
             row == Account(e, "admin", "local")
  <2>1. e \in Email
    OBVIOUS
  <2>2. row \in Row /\ row.role = "admin"
    BY <2>1 DEF Account, Row
  <2>3. acct = <<row>>
    OBVIOUS
  <2> HIDE DEF row
  <2>4. acct \in Seq(Row) /\ Len(acct) = 1 /\ DOMAIN acct = {1} /\ acct[1] = row
    BY <2>2, <2>3
  <2>5. PermOK
    BY DEF PermOK
  <2>6. AcctOK
    <3>1. acct[1].role \in DOMAIN perm
      BY <2>2, <2>4
    <3>2. Accepted(acct)
      BY <2>4, <3>1 DEF Accepted
    <3>3. 1 \in User
      BY DEF User
    <3>4. QED BY <2>4, <3>2, <3>3 DEF AcctOK
  <2>7. LocOK
    BY IdleOK DEF LocOK, Idle, ArgsOK, FoundOK, UserOps, RoleOps
  <2>8. CheckedOK
    BY DEF CheckedOK, Idle
  <2>9. LentOK
    BY DEF LentOK
  <2>10. QED BY <2>5, <2>6, <2>7, <2>8, <2>9 DEF IInv
<1>2. IInv /\ [Next]_vars => IInv'
  BY PermStep, AcctStep, LocStep, CheckedStep DEF IInv
<1>3. QED BY <1>1, <1>2, PTL DEF Spec

LEMMA IdIsDomain == AcctOK => Id = DOMAIN acct
BY LenProperties DEF AcctOK, Id

(* Every account has a role that exists: delete_role and the routes that   *)
(* assign a role never leave one without.                                  *)
THEOREM RolesAlwaysExist == Spec => []RolesExist
<1>1. IInv => RolesExist
  BY IdIsDomain DEF IInv, AcctOK, Accepted, RolesExist
<1>2. QED BY <1>1, Invariance, PTL

(* Which request took a step, from what it left behind. *)
LEMMA OthersStay ==
  ASSUME IInv, NEW q \in Request, NEW p \in Request, p # q,
         \/ Arrive(q) \/ Check(q) \/ CreateUser(q) \/ ImportFails(q) \/ UpdateUser(q)
         \/ SaveRole(q) \/ DropRole(q)
         \/ \E e \in Email, r \in Role : SsoRole(q, e, r)
         \/ SsoLookup(q) \/ SsoWrite(q)
  PROVE  loc'[p] = loc[p]
<1>0. loc \in [Request -> Local]
  BY DEF IInv, LocOK
<1>1. CASE Arrive(q)
  BY <1>0, <1>1, BeginStep
<1>2. ASSUME End(q) PROVE loc'[p] = loc[p]
  BY <1>0, <1>2 DEF End
<1>3. CASE CreateUser(q) \/ ImportFails(q) \/ UpdateUser(q) \/ DropRole(q) \/ SsoWrite(q)
  BY <1>2, <1>3 DEF CreateUser, ImportFails, UpdateUser, DropRole, SsoWrite
<1>4. CASE Check(q)
  BY <1>0, <1>2, <1>4 DEF Check
<1>5. CASE SaveRole(q)
  BY <1>0, <1>2, <1>5 DEF SaveRole
<1>6. CASE \E e \in Email, r \in Role : SsoRole(q, e, r)
  BY <1>0, <1>6 DEF SsoRole
<1>7. CASE SsoLookup(q)
  BY <1>0, <1>2, <1>7 DEF SsoLookup
<1>8. QED BY <1>1, <1>3, <1>4, <1>5, <1>6, <1>7

(* Nobody hands out, through create_user, import_users or update_user,     *)
(* permissions he had not when his request began, except those of whoever  *)
(* rewrote the role with update_role or create_role after it was checked.  *)
THEOREM NobodyEscalates == Spec => NoEscalation
<1> DEFINE A == \A q \in Request :
                  /\ loc[q].op \in Granting /\ loc[q].pc = "write"
                  /\ acct' # acct /\ loc'[q].pc = "idle"
                  => RolePerms(loc[q].arg) \subseteq loc[q].held \cup lent[q]
<1>1. IInv /\ [Next]_vars => [A]_vars
  BY DEF IInv, CheckedOK
<1>2. QED BY <1>1, Invariance, PTL DEF Spec, NoEscalation

(* oidc_callback changes no local account, whatever is renamed, created or *)
(* signed on between its look-up and its write.                            *)
THEOREM LocalAccountsStay == Spec => SsoLeavesLocal
<1> DEFINE A == \A i \in Id : acct[i].source = "local" =>
                  /\ acct'[i].source = "local"
                  /\ (\E q \in Request : loc[q].op = "sso" /\ loc'[q].pc # loc[q].pc)
                       => acct'[i] = acct[i]
<1>1. IInv /\ [Next]_vars => [A]_vars
  <2> SUFFICES ASSUME IInv, Next, NEW i \in Id, acct[i].source = "local"
               PROVE  /\ acct'[i].source = "local"
                      /\ \A q \in Request : loc[q].op = "sso" /\ loc'[q].pc # loc[q].pc
                           => acct'[i] = acct[i]
    OBVIOUS
  <2>1. acct'[i].source = "local"
    BY AcctStep
  <2>2. ASSUME NEW q \in Request, loc[q].op = "sso", loc'[q].pc # loc[q].pc
        PROVE  acct'[i] = acct[i]
    <3>1. CASE UNCHANGED acct
      BY <3>1
    <3>2. CASE ~UNCHANGED acct
      <4>1. PICK p \in Request : CreateUser(p) \/ UpdateUser(p) \/ SsoWrite(p)
        BY <3>2, ReadsOnly DEF Next, SaveRole, DropRole, ImportFails
      <4>2. p = q
        BY <2>2, <4>1, OthersStay
      <4>3. SsoWrite(q)
        BY <2>2, <4>1, <4>2 DEF CreateUser, UpdateUser, Writes
      <4>4. PICK T \in Seq(Row) : /\ Commit(T)
                                 /\ (T[i] = acct[i] \/ acct[i].source = "sso")
        BY <4>3, SsoRows DEF IInv
      <4>5. T[i] = acct[i]
        BY <4>4
      <4>6. QED BY <4>4, <4>5 DEF Commit
    <3>3. QED BY <3>1, <3>2
  <2>3. QED BY <2>1, <2>2
<1>2. QED BY <1>1, Invariance, PTL DEF Spec, SsoLeavesLocal

(* The type invariant: roles keep sets of permissions, the built-in ones   *)
(* stay, and every account has an address, a role and a source.            *)
THEOREM AccountsTypeCorrect == Spec => []TypeOK
<1>1. IInv => TypeOK
  <2> SUFFICES ASSUME IInv PROVE TypeOK
    OBVIOUS
  <2>1. \A i \in Id : acct[i] \in Row
    BY ElementOfSeq DEF IInv, AcctOK, Id
  <2>2. QED BY <2>1 DEF IInv, PermOK, AcctOK, LentOK, TypeOK, Row
<1>2. QED BY <1>1, Invariance, PTL
-----------------------------------------------------------------------------
(* GroupMappings, which give a sign-on its role: for any number of         *)
(* administrators, groups and mappings.                                    *)

Adding == Under({"create"})

TableOK ==
  /\ made \in Nat /\ Listed \subseteq 1..made /\ table = [i \in Listed |-> table[i]]
  /\ \A i \in Listed : /\ table[i] \in [group : Group, role : MappedRole, order : Nat]
                       /\ table[i].order < made
  /\ told \in [Listed -> [group : Group, role : MappedRole]]
  /\ ahead \subseteq Listed \X Listed

SettingsOK == secret \in Secret /\ default \in MappedRole \cup {NoRole}

(* What each request holds: a sort_order that was next, ids that existed.  *)
SentOK(a) ==
  /\ sent[a].op \in {"idle", "create", "edit", "reorder", "save"}
  /\ sent[a].op = "create" =>
       /\ sent[a].group \in Group /\ sent[a].role \in MappedRole
       /\ sent[a].order \in Nat /\ sent[a].order <= made
  /\ sent[a].op = "edit" =>
       /\ sent[a].id \in 1..made /\ sent[a].field \in {"group", "role"}
       /\ sent[a].group \in Group /\ sent[a].role \in MappedRole
  /\ sent[a].op = "reorder" => sent[a].ids \subseteq 1..made
  /\ sent[a].op = "save" => sent[a].secret \in Secret /\ sent[a].default \in MappedRole \cup {NoRole}

(* A creation under way keeps a place below the bound. *)
Room == made + Cardinality(Adding) <= MaxMade

RequestsOK ==
  /\ sent = [a \in Admin |-> sent[a]] /\ \A a \in Admin : SentOK(a)
  /\ overtaken \subseteq Admin /\ raced \in BOOLEAN

(* A request that was not overtaken still goes by the table as it is.      *)
UpToDate(a) ==
  /\ sent[a].op = "create" => \A i \in Listed : table[i].order < sent[a].order
  /\ sent[a].op = "reorder" => Listed \subseteq sent[a].ids
  /\ sent[a].op = "edit" /\ sent[a].id \in Listed =>
       /\ sent[a].field = "group" => sent[a].role = told[sent[a].id].role
       /\ sent[a].field = "role" => sent[a].group = told[sent[a].id].group

(* The table is the list that was asked for; no two rows tie. *)
AsTold ==
  /\ \A i \in Listed : told[i].group = table[i].group /\ told[i].role = table[i].role
  /\ \A i, j \in Listed : /\ <<i, j>> \in ahead <=> table[i].order < table[j].order
                          /\ table[i].order = table[j].order => i = j

ListKept == ~raced => AsTold /\ \A a \in Admin \ overtaken : UpToDate(a)

MapInv == TableOK /\ SettingsOK /\ RequestsOK /\ Room /\ ListKept

LEMMA LeastAndGreatest ==
  ASSUME NEW n \in Nat, NEW S \in SUBSET (0..n), S # {}
  PROVE  /\ \E x \in S : \A y \in S : x <= y
         /\ \E x \in S : \A y \in S : y <= x
<1>1. S \subseteq Nat OBVIOUS
<1>2. PICK x \in S : \A y \in S : <<y, x>> \notin OpToRel(<, Nat)
  BY <1>1, NatLessThanWellFounded, WFMin, Zenon
<1>3. \A y \in S : x <= y
  <2> SUFFICES ASSUME NEW y \in S PROVE x <= y OBVIOUS
  <2>1. ~(y < x) BY <1>1, <1>2 DEF OpToRel
  <2>2. QED BY <1>1, <2>1
<1> DEFINE U == {u \in Nat : \A y \in S : y <= u}
<1>4. n \in U BY DEF U
<1>5. PICK u \in U : \A v \in U : <<v, u>> \notin OpToRel(<, Nat)
  <2>1. U \subseteq Nat /\ U # {} BY <1>4
  <2> HIDE DEF U
  <2>2. QED BY <2>1, NatLessThanWellFounded, WFMin, Zenon
<1>6. u \in S
  <2> SUFFICES ASSUME u \notin S PROVE FALSE OBVIOUS
  <2>1. \A y \in S : y <= u - 1 BY <1>1
  <2>2. u - 1 \in U BY <1>1, <2>1
  <2>3. ~(u - 1 < u) BY <1>5, <2>2 DEF OpToRel
  <2>4. QED BY <2>3
<1>7. QED BY <1>3, <1>6

(* COALESCE(MAX(sort_order), -1) + 1 is above every row's. *)
LEMMA NextIsLast ==
  ASSUME TableOK
  PROVE  /\ NextOrder \in Nat /\ NextOrder <= made
         /\ \A i \in Listed : table[i].order < NextOrder
<1>1. CASE Listed = {}
  BY <1>1 DEF TableOK, Listed, NextOrder, Listed
<1>2. CASE Listed # {}
  <2> DEFINE S == {table[i].order : i \in Listed}
  <2>1. S # {} /\ S \in SUBSET (0..made) /\ made \in Nat /\ \A x \in S : x < made
    BY <1>2 DEF TableOK
  <2>2. \A i \in Listed : table[i].order \in S OBVIOUS
  <2>3. NextOrder = Max(S) + 1
    BY <1>2 DEF NextOrder, Max, Listed
  <2> HIDE DEF S
  <2>4. \E x \in S : \A y \in S : x >= y
    BY <2>1, LeastAndGreatest
  <2>5. Max(S) \in S /\ \A y \in S : Max(S) >= y
    BY <2>4 DEF Max
  <2> PICK m : m = Max(S) OBVIOUS
  <2>6. m \in S /\ \A y \in S : y <= m
    BY <2>1, <2>5
  <2>7. m \in Nat /\ m < made
    BY <2>1, <2>6
  <2>8. \A i \in Listed : table[i].order \in Nat /\ table[i].order <= m
    <3>1. \A i \in Listed : table[i].order \in Nat
      BY DEF TableOK
    <3>2. \A i \in Listed : table[i].order <= m
      BY <2>2, <2>6, Zenon
    <3>3. QED BY <3>1, <3>2
  <2>9. QED BY <2>1, <2>3, <2>7, <2>8
<1>3. QED BY <1>1, <1>2

(* A list of the ids that were shown gives each a number of its own. *)
LEMMA PlacesAreApart ==
  ASSUME made \in Nat, NEW S \in SUBSET (1..made), NEW place \in Places(S)
  PROVE  /\ DOMAIN place = S /\ \A i \in S : place[i] \in Nat /\ place[i] < made
         /\ \A i, j \in S : place[i] = place[j] => i = j
<1>1. /\ place \in [S -> 0..Cardinality(S) - 1]
      /\ \A i, j \in S : place[i] = place[j] => i = j
  BY DEF Places, Injection, IsInjective
<1>2. IsFiniteSet(1..made) /\ Cardinality(1..made) = made
  BY FS_Interval
<1>3. Cardinality(S) \in Nat /\ Cardinality(S) <= made
  BY <1>2, FS_Subset, FS_CardinalityType
<1>4. QED BY <1>1, <1>3

LEMMA MapInit ==
  ASSUME MappingsInit
  PROVE  MapInv
<1>1. /\ table = <<>> /\ told = <<>> /\ ahead = {} /\ made = 0 /\ Listed = {}
      /\ sent = [a \in Admin |-> [op |-> "idle"]] /\ overtaken = {} /\ raced = FALSE
      /\ secret \in Secret /\ default = NoRole
  BY DEF MappingsInit, NotSent, Listed
<1>2. TableOK
  BY <1>1 DEF TableOK
<1>3. RequestsOK /\ SettingsOK
  BY <1>1 DEF RequestsOK, SentOK, SettingsOK
<1>4. Room
  <2>1. Adding = {} BY <1>1 DEF Adding, Under
  <2>2. QED BY <1>1, <2>1, FS_EmptySet, MappingsAssumption DEF Room
<1>5. ListKept
  BY <1>1 DEF ListKept, AsTold, UpToDate
<1>6. QED BY <1>2, <1>3, <1>4, <1>5 DEF MapInv

(* A request that reads changes only what it holds itself. *)
LEMMA ReadKeeps ==
  ASSUME MapInv, NEW a \in Admin, NEW l, Read(a, l), l.op # "create",
         SentOK(a)', ~raced => UpToDate(a)'
  PROVE  MapInv'
<1>1. /\ sent' = [sent EXCEPT ![a] = l]
      /\ UNCHANGED <<table, made, told, ahead, secret, default, overtaken, raced>>
      /\ sent[a].op = "idle"
  BY DEF Read, rows, config
<1>2. /\ sent' = [b \in Admin |-> sent'[b]] /\ sent'[a] = l
      /\ \A b \in Admin \ {a} : sent'[b] = sent[b]
  BY <1>1 DEF MapInv, RequestsOK
<1>3. TableOK' /\ SettingsOK' /\ (AsTold => AsTold') /\ Listed' = Listed
  BY <1>1 DEF MapInv, TableOK, SettingsOK, AsTold, Listed
<1>4. \A b \in Admin \ {a} : SentOK(b)' /\ (UpToDate(b) => UpToDate(b)')
  BY <1>1, <1>2, <1>3 DEF MapInv, RequestsOK, SentOK, UpToDate
<1>5. RequestsOK'
  BY <1>1, <1>2, <1>4 DEF MapInv, RequestsOK
<1>6. ListKept'
  BY <1>1, <1>3, <1>4 DEF MapInv, ListKept
<1>7. Room'
  <2>1. Adding' = Adding
    BY <1>1, <1>2 DEF Adding, Under
  <2>2. QED BY <1>1, <2>1 DEF MapInv, Room
<1>8. QED BY <1>3, <1>5, <1>6, <1>7 DEF MapInv

LEMMA CreateReadKeeps ==
  ASSUME MapInv, NEW a \in Admin, NEW g \in Group, NEW r \in MappedRole,
         CreateRead(a, g, r)
  PROVE  MapInv'
<1> DEFINE l == [op |-> "create", group |-> g, role |-> r, order |-> NextOrder]
<1>1. /\ sent' = [sent EXCEPT ![a] = l] /\ sent[a].op = "idle"
      /\ UNCHANGED <<table, made, told, ahead, secret, default, overtaken, raced>>
      /\ made + Cardinality(Adding) < MaxMade
  BY DEF CreateRead, Read, rows, config, Adding
<1>2. /\ l.op = "create" /\ l.group = g /\ l.role = r /\ l.order = NextOrder
      /\ NextOrder \in Nat /\ NextOrder <= made
      /\ \A i \in Listed : table[i].order < NextOrder
  BY NextIsLast DEF MapInv
<1> HIDE DEF l
<1>3. /\ sent' = [b \in Admin |-> sent'[b]] /\ sent'[a] = l
      /\ \A b \in Admin \ {a} : sent'[b] = sent[b]
  BY <1>1 DEF MapInv, RequestsOK
<1>4. TableOK' /\ SettingsOK' /\ (AsTold => AsTold') /\ Listed' = Listed
  BY <1>1 DEF MapInv, TableOK, SettingsOK, AsTold, Listed
<1>5. SentOK(a)' /\ UpToDate(a)'
  BY <1>1, <1>2, <1>3, <1>4 DEF SentOK, UpToDate
<1>6. \A b \in Admin \ {a} : SentOK(b)' /\ (UpToDate(b) => UpToDate(b)')
  BY <1>1, <1>3, <1>4 DEF MapInv, RequestsOK, SentOK, UpToDate
<1>7. RequestsOK'
  BY <1>1, <1>3, <1>5, <1>6 DEF MapInv, RequestsOK
<1>8. ListKept'
  BY <1>1, <1>4, <1>5, <1>6 DEF MapInv, ListKept
<1>9. Room'
  <2>1. Adding' = Adding \cup {a} /\ a \notin Adding
    BY <1>1, <1>2, <1>3 DEF Adding, Under
  <2>2. IsFiniteSet(Adding)
    BY FS_Subset, MappingsAssumption DEF Adding, Under
  <2>3. Cardinality(Adding') = Cardinality(Adding) + 1 /\ Cardinality(Adding) \in Nat
    BY <2>1, <2>2, FS_AddElement, FS_CardinalityType
  <2>4. QED BY <1>1, <2>3, MappingsAssumption DEF MapInv, TableOK, Room
<1>10. QED BY <1>4, <1>7, <1>8, <1>9 DEF MapInv

LEMMA EditReadKeeps ==
  ASSUME MapInv, NEW a \in Admin, NEW i \in Listed,
         \/ \E g \in Group : EditRead(a, i, "group", g, table[i].role)
         \/ \E r \in MappedRole : EditRead(a, i, "role", table[i].group, r)
  PROVE  MapInv'
<1>1. PICK f \in {"group", "role"}, g \in Group, r \in MappedRole :
        /\ EditRead(a, i, f, g, r)
        /\ f = "group" => r = table[i].role
        /\ f = "role" => g = table[i].group
  <2>1. table[i].group \in Group /\ table[i].role \in MappedRole
    BY DEF MapInv, TableOK
  <2>2. QED BY <2>1, Zenon
<1> DEFINE l == [op |-> "edit", id |-> i, field |-> f, group |-> g, role |-> r]
<1>2. Read(a, l)
  BY <1>1 DEF EditRead
<1>3. l.op = "edit" /\ l.id = i /\ l.field = f /\ l.group = g /\ l.role = r
  OBVIOUS
<1> HIDE DEF l
<1>4. sent'[a] = l /\ UNCHANGED <<table, made, told, raced>> /\ Listed' = Listed
  BY <1>2 DEF Read, rows, MapInv, RequestsOK, Listed
<1>5. SentOK(a)'
  BY <1>3, <1>4 DEF SentOK, MapInv, TableOK
<1>6. ~raced => UpToDate(a)'
  BY <1>1, <1>3, <1>4 DEF MapInv, ListKept, AsTold, UpToDate
<1>7. QED BY <1>2, <1>3, <1>5, <1>6, ReadKeeps

LEMMA OtherReadsKeep ==
  ASSUME MapInv, NEW a \in Admin,
         \/ ReorderRead(a)
         \/ \E s \in Secret \cup {NoSecret}, d \in MappedRole \cup {NoRole} : SaveRead(a, s, d)
  PROVE  MapInv'
<1>1. CASE ReorderRead(a)
  <2> DEFINE l == [op |-> "reorder", ids |-> Listed]
  <2>1. Read(a, l)
    BY <1>1 DEF ReorderRead, Listed
  <2>2. l.op = "reorder" /\ l.ids = Listed
    OBVIOUS
  <2> HIDE DEF l
  <2>3. sent'[a] = l /\ UNCHANGED <<table, made>> /\ Listed' = Listed
    BY <2>1 DEF Read, rows, MapInv, RequestsOK, Listed
  <2>4. SentOK(a)' /\ UpToDate(a)'
    BY <2>2, <2>3 DEF SentOK, UpToDate, MapInv, TableOK
  <2>5. QED BY <2>1, <2>2, <2>4, ReadKeeps
<1>2. ASSUME NEW s \in Secret \cup {NoSecret}, NEW d \in MappedRole \cup {NoRole}, SaveRead(a, s, d)
      PROVE  MapInv'
  <2> DEFINE l == [op |-> "save", secret |-> IF s = NoSecret THEN secret ELSE s,
                   blank |-> s = NoSecret, default |-> d]
  <2>1. Read(a, l)
    BY <1>2 DEF SaveRead
  <2>2. l.op = "save" /\ l.secret \in Secret /\ l.default = d
    BY DEF MapInv, SettingsOK
  <2> HIDE DEF l
  <2>3. sent'[a] = l
    BY <2>1 DEF Read, MapInv, RequestsOK
  <2>4. SentOK(a)' /\ UpToDate(a)'
    BY <2>2, <2>3 DEF SentOK, UpToDate
  <2>5. QED BY <2>1, <2>2, <2>4, ReadKeeps
<1>3. QED BY <1>1, <1>2

(* What a write of the table leaves to be shown of it. *)
LEMMA WriteFacts ==
  ASSUME MapInv, NEW a \in Admin, NEW S \in SUBSET Admin, Write(a, S)
  PROVE  /\ sent' = [b \in Admin |-> sent'[b]] /\ sent'[a].op = "idle"
         /\ \A b \in Admin \ {a} : sent'[b] = sent[b]
         /\ SettingsOK' /\ overtaken' \subseteq Admin /\ raced' \in BOOLEAN
         /\ ~raced' => /\ AsTold /\ UpToDate(a)
                       /\ \A b \in Admin \ overtaken' : b # a => b \notin S /\ UpToDate(b)
<1>1. /\ sent' = [sent EXCEPT ![a] = [op |-> "idle"]]
      /\ overtaken' = (overtaken \cup S) \ {a} /\ raced' = (raced \/ a \in overtaken)
      /\ UNCHANGED <<secret, default>>
  BY DEF Write, NotSent, config
<1>2. sent' = [b \in Admin |-> sent'[b]] /\ sent'[a].op = "idle"
  BY <1>1 DEF MapInv, RequestsOK
<1>3. \A b \in Admin \ {a} : sent'[b] = sent[b]
  BY <1>1 DEF MapInv, RequestsOK
<1>4. SettingsOK' /\ overtaken' \subseteq Admin /\ raced' \in BOOLEAN
  BY <1>1 DEF MapInv, SettingsOK, RequestsOK
<1>5. ASSUME ~raced'
      PROVE  /\ AsTold /\ UpToDate(a)
             /\ \A b \in Admin \ overtaken' : b # a => b \notin S /\ UpToDate(b)
  BY <1>1, <1>5 DEF MapInv, ListKept
<1>6. QED BY <1>2, <1>3, <1>4, <1>5

LEMMA WriteKeeps ==
  ASSUME MapInv, NEW a \in Admin, NEW S \in SUBSET Admin, Write(a, S),
         TableOK', Room', \A b \in Admin \ {a} : SentOK(b)',
         ~raced' => AsTold' /\ \A b \in Admin \ overtaken' : b # a => UpToDate(b)'
  PROVE  MapInv'
<1>1. /\ sent' = [b \in Admin |-> sent'[b]] /\ sent'[a].op = "idle"
      /\ SettingsOK' /\ overtaken' \subseteq Admin /\ raced' \in BOOLEAN
  BY WriteFacts
<1>2. SentOK(a)' /\ UpToDate(a)'
  BY <1>1 DEF SentOK, UpToDate
<1>3. RequestsOK'
  BY <1>1, <1>2 DEF RequestsOK
<1>4. ListKept'
  BY <1>2 DEF ListKept
<1>5. QED BY <1>1, <1>3, <1>4 DEF MapInv

(* The room of the others is theirs, when a request that does not create   *)
(* ends.                                                                   *)
LEMMA RoomStays ==
  ASSUME MapInv, NEW a \in Admin, sent[a].op # "create", sent'[a].op = "idle", made' = made,
         \A b \in Admin \ {a} : sent'[b] = sent[b]
  PROVE  Room'
<1>1. Adding' = Adding
  BY DEF Adding, Under
<1>2. QED BY <1>1 DEF MapInv, Room

LEMMA CreateWriteKeeps ==
  ASSUME MapInv, NEW a \in Admin, CreateWrite(a)
  PROVE  MapInv'
<1> DEFINE n == made + 1
           x == [group |-> sent[a].group, role |-> sent[a].role, order |-> sent[a].order]
           y == [group |-> sent[a].group, role |-> sent[a].role]
           S == Under({"create", "reorder"})
<1>1. /\ sent[a].op = "create" /\ made' = n /\ Write(a, S)
      /\ table' = [j \in Listed \cup {n} |-> IF j = n THEN x ELSE table[j]]
      /\ told' = [j \in DOMAIN told \cup {n} |-> IF j = n THEN y ELSE told[j]]
      /\ ahead' = ahead \cup {<<i, n>> : i \in Listed}
  BY DEF CreateWrite, With, MappingRow, Listed
<1>2. S \in SUBSET Admin /\ \A b \in Admin : sent[b].op \in {"create", "reorder"} => b \in S
  BY DEF Under
<1>3. /\ made \in Nat /\ n \in Nat /\ Listed \subseteq 1..made /\ DOMAIN told = Listed
      /\ n \notin Listed /\ 1..made \subseteq 1..n
      /\ sent[a].group \in Group /\ sent[a].role \in MappedRole
      /\ sent[a].order \in Nat /\ sent[a].order < n
  BY <1>1 DEF MapInv, TableOK, RequestsOK, SentOK
<1>4. /\ x \in [group : Group, role : MappedRole, order : Nat]
      /\ x.group = sent[a].group /\ x.role = sent[a].role /\ x.order = sent[a].order
      /\ y \in [group : Group, role : MappedRole] /\ y.group = x.group /\ y.role = x.role
  BY <1>3
<1> HIDE DEF n, x, y, S
<1>5. /\ Listed' = Listed \cup {n} /\ table'[n] = x /\ told'[n] = y
      /\ \A j \in Listed : table'[j] = table[j] /\ told'[j] = told[j]
  BY <1>1, <1>3 DEF Listed
<1>6. TableOK'
  <2>1. \A i \in Listed' : /\ table'[i] \in [group : Group, role : MappedRole, order : Nat]
                           /\ table'[i].order < n
    BY <1>3, <1>4, <1>5 DEF MapInv, TableOK, n
  <2>2. told' \in [Listed' -> [group : Group, role : MappedRole]]
    BY <1>1, <1>3, <1>4, <1>5 DEF MapInv, TableOK
  <2>3. Listed' \subseteq 1..n /\ ahead' \subseteq Listed' \X Listed'
    BY <1>1, <1>3, <1>5 DEF MapInv, TableOK, n
  <2>4. table' = [i \in Listed' |-> table'[i]]
    BY <1>1, <1>5
  <2>5. QED BY <1>1, <1>3, <2>1, <2>2, <2>3, <2>4 DEF TableOK
<1>7. /\ \A b \in Admin \ {a} : sent'[b] = sent[b]
      /\ sent'[a].op = "idle"
      /\ ~raced' => /\ AsTold /\ UpToDate(a)
                    /\ \A b \in Admin \ overtaken' : b # a => b \notin S /\ UpToDate(b)
  BY <1>1, <1>2, WriteFacts
<1>8. ASSUME NEW b \in Admin \ {a} PROVE SentOK(b)'
  BY <1>1, <1>3, <1>7 DEF MapInv, RequestsOK, SentOK, n
<1>9. ASSUME ~raced' PROVE AsTold'
  <2>1. \A i \in Listed : table[i].order < x.order
    BY <1>1, <1>4, <1>7, <1>9 DEF UpToDate
  <2>2. \A i \in Listed' : told'[i].group = table'[i].group /\ told'[i].role = table'[i].role
    BY <1>4, <1>5, <1>7, <1>9 DEF AsTold
  <2>3. \A i, j \in Listed : (<<i, j>> \in ahead' <=> <<i, j>> \in ahead)
    BY <1>1, <1>3
  <2>4. \A i \in Listed : <<i, n>> \in ahead' /\ <<n, i>> \notin ahead'
    BY <1>1, <1>3 DEF MapInv, TableOK
  <2>5. <<n, n>> \notin ahead'
    BY <1>1, <1>3 DEF MapInv, TableOK
  <2>6. x.order \in Nat /\ \A i \in Listed : table[i].order \in Nat
    BY <1>3, <1>4 DEF MapInv, TableOK
  <2>7. ASSUME NEW i \in Listed', NEW j \in Listed'
        PROVE  /\ <<i, j>> \in ahead' <=> table'[i].order < table'[j].order
               /\ table'[i].order = table'[j].order => i = j
    <3>1. CASE i \in Listed /\ j \in Listed
      BY <1>5, <1>7, <1>9, <2>3, <3>1 DEF AsTold
    <3>2. CASE i = n /\ j \in Listed
      <4>1. table'[i].order = x.order /\ table'[j].order = table[j].order /\ i # j
        BY <1>3, <1>5, <3>2
      <4>2. table'[j].order < table'[i].order /\ table'[j].order \in Nat /\ table'[i].order \in Nat
        BY <2>1, <2>6, <3>2, <4>1
      <4>3. <<i, j>> \notin ahead'
        BY <2>4, <3>2
      <4>4. QED BY <4>2, <4>3
    <3>3. CASE i \in Listed /\ j = n
      <4>1. table'[j].order = x.order /\ table'[i].order = table[i].order /\ i # j
        BY <1>3, <1>5, <3>3
      <4>2. table'[i].order < table'[j].order /\ table'[j].order \in Nat /\ table'[i].order \in Nat
        BY <2>1, <2>6, <3>3, <4>1
      <4>3. <<i, j>> \in ahead'
        BY <2>4, <3>3
      <4>4. QED BY <4>2, <4>3
    <3>4. CASE i = n /\ j = n
      BY <1>3, <1>4, <1>5, <2>5, <3>4
    <3>5. QED BY <1>5, <3>1, <3>2, <3>3, <3>4
  <2>8. QED BY <2>2, <2>7 DEF AsTold
<1>10. ASSUME ~raced', NEW b \in Admin \ overtaken', b # a PROVE UpToDate(b)'
  <2>1. sent'[b] = sent[b] /\ b \notin S /\ UpToDate(b) /\ SentOK(b)
    BY <1>7, <1>10 DEF MapInv, RequestsOK
  <2>2. sent[b].op \notin {"create", "reorder"}
    BY <1>2, <2>1
  <2>3. sent[b].op = "edit" => sent[b].id # n
    BY <1>3, <2>1 DEF SentOK, n
  <2>4. QED BY <1>5, <2>1, <2>2, <2>3 DEF UpToDate
<1>11. Room'
  <2>1. Adding' = Adding \ {a} /\ a \in Adding
    BY <1>1, <1>7 DEF Adding, Under
  <2>2. IsFiniteSet(Adding)
    BY FS_Subset, MappingsAssumption DEF Adding, Under
  <2>3. Cardinality(Adding') = Cardinality(Adding) - 1 /\ Cardinality(Adding) \in Nat
    BY <2>1, <2>2, FS_RemoveElement, FS_CardinalityType
  <2>4. QED BY <1>1, <1>3, <2>3, MappingsAssumption DEF MapInv, Room, n
<1>12. QED BY <1>1, <1>2, <1>6, <1>8, <1>9, <1>10, <1>11, WriteKeeps

(* update_mapping changes groups and roles, never the order. *)
LEMMA EditWriteKeeps ==
  ASSUME MapInv, NEW a \in Admin, EditWrite(a)
  PROVE  MapInv'
<1> DEFINE l == sent[a]
           x == [group |-> l.group, role |-> l.role, order |-> table[l.id].order]
           S == {b \in Under({"edit"}) : sent[b].id = l.id}
<1>1. /\ l.op = "edit" /\ UNCHANGED <<made, ahead>> /\ Write(a, S)
      /\ table' = IF l.id \in Listed THEN [j \in Listed \cup {l.id} |-> IF j = l.id THEN x ELSE table[j]]
                  ELSE table
      /\ told' = Asked(l)
  BY DEF EditWrite, Edited, With, MappingRow, Listed
<1>2. S \in SUBSET Admin /\ \A b \in Admin : sent[b].op = "edit" /\ sent[b].id = l.id => b \in S
  BY DEF Under
<1>3. l.field \in {"group", "role"} /\ l.group \in Group /\ l.role \in MappedRole
  BY <1>1 DEF MapInv, RequestsOK, SentOK
<1>4. /\ made' = made /\ Listed' = Listed
      /\ \A j \in Listed : j # l.id => table'[j] = table[j]
      /\ l.id \in Listed => table'[l.id] = x
  BY <1>1 DEF MapInv, TableOK, Listed
<1>5. /\ told' \in [Listed -> [group : Group, role : MappedRole]]
      /\ \A j \in Listed : j # l.id => told'[j] = told[j]
      /\ l.id \in Listed =>
           /\ l.field = "group" => told'[l.id].group = l.group /\ told'[l.id].role = told[l.id].role
           /\ l.field = "role" => told'[l.id].role = l.role /\ told'[l.id].group = told[l.id].group
  <2>1. told \in [Listed -> [group : Group, role : MappedRole]]
    BY DEF MapInv, TableOK
  <2>2. CASE l.id \notin Listed
    BY <1>1, <2>1, <2>2 DEF Asked
  <2>3. CASE l.id \in Listed /\ l.field = "group"
    <3>1. told' = [told EXCEPT ![l.id].group = l.group]
      BY <1>1, <2>1, <2>3 DEF Asked
    <3>2. QED BY <1>3, <2>1, <2>3, <3>1
  <2>4. CASE l.id \in Listed /\ l.field = "role"
    <3>1. told' = [told EXCEPT ![l.id].role = l.role]
      BY <1>1, <2>1, <2>4 DEF Asked
    <3>2. QED BY <1>3, <2>1, <2>4, <3>1
  <2>5. QED BY <1>3, <2>2, <2>3, <2>4
<1>6. \A j \in Listed : /\ table'[j].order = table[j].order
                        /\ table'[j] \in [group : Group, role : MappedRole, order : Nat]
  BY <1>3, <1>4 DEF MapInv, TableOK
<1>7. TableOK'
  <2>1. table' = [j \in Listed' |-> table'[j]]
    BY <1>1 DEF MapInv, TableOK, Listed
  <2>2. \A j \in Listed : table'[j].order < made
    BY <1>6 DEF MapInv, TableOK
  <2>3. ahead' \subseteq Listed \X Listed /\ made \in Nat /\ Listed \subseteq 1..made
    BY <1>1 DEF MapInv, TableOK
  <2>4. QED BY <1>4, <1>5, <1>6, <2>1, <2>2, <2>3 DEF TableOK
<1>8. /\ \A b \in Admin \ {a} : sent'[b] = sent[b]
      /\ sent'[a].op = "idle"
      /\ ~raced' => /\ AsTold /\ UpToDate(a)
                    /\ \A b \in Admin \ overtaken' : b # a => b \notin S /\ UpToDate(b)
  BY <1>1, <1>2, WriteFacts
<1>9. \A b \in Admin \ {a} : SentOK(b)'
  BY <1>4, <1>8 DEF MapInv, RequestsOK, SentOK
<1>10. ASSUME ~raced' PROVE AsTold'
  <2>1. ASSUME NEW i \in Listed
        PROVE  told'[i].group = table'[i].group /\ told'[i].role = table'[i].role
    <3>1. CASE i # l.id
      BY <1>4, <1>5, <1>8, <1>10, <3>1 DEF AsTold
    <3>2. CASE i = l.id
      BY <1>1, <1>3, <1>4, <1>5, <1>8, <1>10, <3>2 DEF UpToDate
    <3>3. QED BY <3>1, <3>2
  <2>2. QED BY <1>1, <1>4, <1>6, <1>8, <1>10, <2>1 DEF AsTold
<1>11. ASSUME ~raced', NEW b \in Admin \ overtaken', b # a PROVE UpToDate(b)'
  <2>1. sent'[b] = sent[b] /\ b \notin S /\ UpToDate(b)
    BY <1>8, <1>11
  <2>2. sent[b].op = "edit" => sent[b].id # l.id
    BY <1>2, <2>1
  <2>3. QED BY <1>4, <1>5, <1>6, <2>1, <2>2 DEF UpToDate
<1>12. Room'
  BY <1>1, <1>4, <1>8, RoomStays
<1>13. QED BY <1>1, <1>2, <1>7, <1>9, <1>10, <1>11, <1>12, WriteKeeps

(* reorder_mappings numbers the rows that were shown, and leaves no other  *)
(* unless a mapping was created since.                                     *)
LEMMA ReorderWriteKeeps ==
  ASSUME MapInv, NEW a \in Admin, NEW place, ReorderWrite(a, place)
  PROVE  MapInv'
<1> DEFINE ids == sent[a].ids
           S == Under({"create"})
           x(i) == [group |-> table[i].group, role |-> table[i].role, order |-> place[i]]
           known == Listed \cap DOMAIN place
<1>1. /\ sent[a].op = "reorder" /\ place \in Places(ids)
      /\ UNCHANGED <<made, told>> /\ Write(a, S)
      /\ table' = [i \in Listed |-> IF i \in DOMAIN place THEN x(i) ELSE table[i]]
      /\ ahead' = {e \in known \X known : place[e[1]] < place[e[2]]}
  BY DEF ReorderWrite, Renumbered, PutAhead, MappingRow, Listed
<1>2. S \in SUBSET Admin /\ \A b \in Admin : sent[b].op = "create" => b \in S
  BY DEF Under
<1>3. ids \in SUBSET (1..made) /\ made \in Nat
  BY <1>1 DEF MapInv, RequestsOK, SentOK, TableOK
<1>4. /\ DOMAIN place = ids /\ \A i \in ids : place[i] \in Nat /\ place[i] < made
      /\ \A i, j \in ids : place[i] = place[j] => i = j
  BY <1>1, <1>3, PlacesAreApart
<1>5. /\ Listed' = Listed /\ made' = made /\ told' = told
      /\ \A i \in Listed : /\ i \in ids => table'[i] = x(i)
                           /\ i \notin ids => table'[i] = table[i]
  BY <1>1, <1>4 DEF Listed
<1>6. \A i \in Listed : /\ table'[i].group = table[i].group /\ table'[i].role = table[i].role
                        /\ i \in ids => table'[i].order = place[i]
                        /\ table'[i] \in [group : Group, role : MappedRole, order : Nat]
                        /\ table'[i].order < made
  <2> SUFFICES ASSUME NEW i \in Listed
               PROVE  /\ table'[i].group = table[i].group /\ table'[i].role = table[i].role
                      /\ i \in ids => table'[i].order = place[i]
                      /\ table'[i] \in [group : Group, role : MappedRole, order : Nat]
                      /\ table'[i].order < made
    OBVIOUS
  <2>1. /\ table[i] \in [group : Group, role : MappedRole, order : Nat] /\ table[i].order < made
    BY DEF MapInv, TableOK
  <2>2. CASE i \in ids
    <3>1. table'[i] = [group |-> table[i].group, role |-> table[i].role, order |-> place[i]]
      BY <1>5, <2>2
    <3>2. place[i] \in Nat /\ place[i] < made
      BY <1>4, <2>2
    <3>3. QED BY <2>1, <3>1, <3>2
  <2>3. CASE i \notin ids
    BY <1>5, <2>1, <2>3
  <2>4. QED BY <2>2, <2>3
<1>7. TableOK'
  <2>1. table' = [i \in Listed' |-> table'[i]]
    BY <1>1, <1>5
  <2>2. ahead' \subseteq Listed \X Listed
    BY <1>1
  <2>3. QED BY <1>5, <1>6, <2>1, <2>2 DEF MapInv, TableOK
<1>8. /\ \A b \in Admin \ {a} : sent'[b] = sent[b]
      /\ sent'[a].op = "idle"
      /\ ~raced' => /\ AsTold /\ UpToDate(a)
                    /\ \A b \in Admin \ overtaken' : b # a => b \notin S /\ UpToDate(b)
  BY <1>1, <1>2, WriteFacts
<1>9. \A b \in Admin \ {a} : SentOK(b)'
  BY <1>5, <1>8 DEF MapInv, RequestsOK, SentOK
<1>10. ASSUME ~raced' PROVE AsTold'
  <2>1. Listed \subseteq ids
    BY <1>1, <1>8, <1>10 DEF UpToDate
  <2>2. \A i, j \in Listed : <<i, j>> \in ahead' <=> place[i] < place[j]
    BY <1>1, <1>4, <2>1
  <2>3. QED BY <1>4, <1>5, <1>6, <1>8, <1>10, <2>1, <2>2 DEF AsTold
<1>11. ASSUME ~raced', NEW b \in Admin \ overtaken', b # a PROVE UpToDate(b)'
  <2>1. sent'[b] = sent[b] /\ sent[b].op # "create" /\ UpToDate(b)
    BY <1>2, <1>8, <1>11
  <2>2. QED BY <1>5, <2>1 DEF UpToDate
<1>12. Room'
  BY <1>1, <1>5, <1>8, RoomStays
<1>13. QED BY <1>1, <1>2, <1>7, <1>9, <1>10, <1>11, <1>12, WriteKeeps

LEMMA SaveWriteKeeps ==
  ASSUME MapInv, NEW a \in Admin, SaveWrite(a)
  PROVE  MapInv'
<1>1. /\ sent[a].op = "save" /\ secret' = sent[a].secret /\ default' = sent[a].default
      /\ sent' = [sent EXCEPT ![a] = [op |-> "idle"]]
      /\ UNCHANGED <<table, made, told, ahead, raced>> /\ Listed' = Listed
      /\ overtaken' = (overtaken \cup Under({"save"})) \ {a}
  BY DEF SaveWrite, Saved, NotSent, rows, Listed
<1>2. /\ sent' = [b \in Admin |-> sent'[b]] /\ sent'[a].op = "idle"
      /\ \A b \in Admin \ {a} : sent'[b] = sent[b]
  BY <1>1 DEF MapInv, RequestsOK
<1>3. TableOK' /\ SettingsOK' /\ (AsTold => AsTold')
  BY <1>1 DEF MapInv, TableOK, SettingsOK, AsTold, RequestsOK, SentOK
<1>4. SentOK(a)' /\ UpToDate(a)'
  BY <1>2 DEF SentOK, UpToDate
<1>5. \A b \in Admin \ {a} : SentOK(b)' /\ (UpToDate(b) => UpToDate(b)')
  BY <1>1, <1>2 DEF MapInv, RequestsOK, SentOK, UpToDate
<1>6. RequestsOK'
  <2>1. overtaken' \subseteq Admin /\ raced' \in BOOLEAN
    BY <1>1 DEF MapInv, RequestsOK, Under
  <2>2. QED BY <1>2, <1>4, <1>5, <2>1 DEF RequestsOK
<1>7. ListKept'
  BY <1>1, <1>3, <1>4, <1>5 DEF MapInv, ListKept
<1>8. Room'
  BY <1>1, <1>2, RoomStays
<1>9. QED BY <1>3, <1>6, <1>7, <1>8 DEF MapInv

(* Rows that go leave the others in their order. *)
LEMMA RemoveRowsKeeps ==
  ASSUME MapInv, NEW D, RemoveRows(D)
  PROVE  MapInv'
<1>1. /\ UNCHANGED <<made, secret, default, sent, overtaken, raced>>
      /\ table' = [j \in Listed \ D |-> table[j]]
      /\ told' = [j \in DOMAIN told \ D |-> told[j]]
      /\ ahead' = {e \in ahead : e[1] \notin D /\ e[2] \notin D}
  BY DEF RemoveRows, Without, config, Listed
<1>2. /\ Listed' = Listed \ D /\ DOMAIN told = Listed
      /\ \A j \in Listed' : table'[j] = table[j] /\ told'[j] = told[j]
      /\ \A i, j \in Listed' : <<i, j>> \in ahead' <=> <<i, j>> \in ahead
  BY <1>1 DEF MapInv, TableOK, Listed
<1>3. TableOK'
  <2>1. table' = [j \in Listed' |-> table'[j]] /\ told' \in [Listed' -> [group : Group, role : MappedRole]]
    BY <1>1, <1>2 DEF MapInv, TableOK
  <2>2. ahead' \subseteq Listed' \X Listed'
    BY <1>1, <1>2 DEF MapInv, TableOK
  <2>3. QED BY <1>1, <1>2, <2>1, <2>2 DEF MapInv, TableOK
<1>4. AsTold => AsTold'
  BY <1>2 DEF AsTold
<1>5. \A b \in Admin : SentOK(b)' /\ (UpToDate(b) => UpToDate(b)')
  BY <1>1, <1>2 DEF MapInv, RequestsOK, SentOK, UpToDate
<1>6. SettingsOK' /\ RequestsOK' /\ Room'
  BY <1>1, <1>5 DEF MapInv, SettingsOK, RequestsOK, Room, Adding, Under
<1>7. QED BY <1>1, <1>3, <1>4, <1>5, <1>6 DEF MapInv, ListKept

LEMMA MapStep ==
  ASSUME MapInv, [MappingsNext]_mappingVars
  PROVE  MapInv'
<1>1. ASSUME NEW a \in Admin,
             \/ \E g \in Group, r \in MappedRole : CreateRead(a, g, r)
             \/ \E i \in Listed : \/ \E g \in Group : EditRead(a, i, "group", g, table[i].role)
                                  \/ \E r \in MappedRole : EditRead(a, i, "role", table[i].group, r)
             \/ ReorderRead(a)
             \/ \E s \in Secret \cup {NoSecret}, d \in MappedRole \cup {NoRole} : SaveRead(a, s, d)
      PROVE  MapInv'
  BY <1>1, CreateReadKeeps, EditReadKeeps, OtherReadsKeep
<1>2. ASSUME NEW a \in Admin, CreateWrite(a) \/ EditWrite(a) \/ SaveWrite(a)
      PROVE  MapInv'
  BY <1>2, CreateWriteKeeps, EditWriteKeeps, SaveWriteKeeps
<1>3. ASSUME NEW a \in Admin, NEW place, ReorderWrite(a, place)
      PROVE  MapInv'
  BY <1>3, ReorderWriteKeeps
<1>4. ASSUME NEW i, DeleteMapping(i)
      PROVE  MapInv'
  BY <1>4, RemoveRowsKeeps DEF DeleteMapping
<1>5. ASSUME NEW r, RoleDropped(r)
      PROVE  MapInv'
  BY <1>5, RemoveRowsKeeps DEF RoleDropped
<1>6. CASE UNCHANGED mappingVars
  <2>1. UNCHANGED <<table, made, secret, default, sent, overtaken, told, ahead, raced>>
    BY <1>6 DEF mappingVars
  <2>2. Listed' = Listed /\ Adding' = Adding
    BY <2>1 DEF Listed, Adding, Under
  <2>3. QED BY <2>1, <2>2
              DEF MapInv, TableOK, SettingsOK, RequestsOK, SentOK, Room, ListKept, AsTold, UpToDate
<1>7. QED BY <1>1, <1>2, <1>3, <1>4, <1>5, <1>6 DEF MappingsNext, Listed

LEMMA MapInvariance == MappingsSpec => []MapInv
<1>1. MappingsInit => MapInv
  BY MapInit
<1>2. MapInv /\ [MappingsNext]_mappingVars => MapInv'
  BY MapStep
<1>3. QED BY <1>1, <1>2, PTL DEF MappingsSpec

LEMMA ListedAreFew ==
  ASSUME MapInv
  PROVE  made \in 0..MaxMade
<1>1. IsFiniteSet(Adding)
  BY FS_Subset, MappingsAssumption DEF Adding, Under
<1>2. Cardinality(Adding) \in Nat
  BY <1>1, FS_CardinalityType
<1>3. QED BY <1>2, MappingsAssumption DEF MapInv, Room, TableOK

(* The type invariant of the mappings and of the provider's settings; a    *)
(* sort_order never grows beyond the mappings made.                        *)
THEOREM MappingsTypeCorrect == MappingsSpec => []MappingsTypeOK
<1>1. MapInv => MappingsTypeOK
  <2> SUFFICES ASSUME MapInv PROVE MappingsTypeOK
    OBVIOUS
  <2>1. made \in 0..MaxMade /\ MaxMade \in Nat
    BY ListedAreFew, MappingsAssumption
  <2>2. \A i \in Listed : table[i] \in [group : Group, role : MappedRole, order : 0..MaxMade]
    <3> SUFFICES ASSUME NEW i \in Listed
                 PROVE  table[i] \in [group : Group, role : MappedRole, order : 0..MaxMade]
      OBVIOUS
    <3>1. table[i] \in [group : Group, role : MappedRole, order : Nat] /\ table[i].order < made
      BY DEF MapInv, TableOK
    <3>2. table[i].order \in 0..MaxMade
      BY <2>1, <3>1
    <3>3. QED BY <3>1, <3>2
  <2>3. QED BY <2>1, <2>2 DEF MapInv, TableOK, SettingsOK, RequestsOK, MappingsTypeOK, Listed
<1>2. QED BY <1>1, MapInvariance, PTL

(* Of the mappings of some groups one is first, by its sort_order and by   *)
(* the order that was asked for alike.                                     *)
LEMMA FirstIsOne ==
  ASSUME MapInv, AsTold, NEW M \in SUBSET Listed, M # {}
  PROVE  \E m \in M : \A i \in M : /\ table[m].order <= table[i].order
                                   /\ i # m => /\ ~(table[i].order <= table[m].order)
                                               /\ <<m, i>> \in ahead /\ <<i, m>> \notin ahead
<1> DEFINE S == {table[i].order : i \in M}
<1>1. S \in SUBSET (0..made) /\ made \in Nat /\ \A i \in Listed : table[i].order \in Nat
  BY DEF MapInv, TableOK
<1>2. S # {}
  OBVIOUS
<1>3. \A i \in M : table[i].order \in S
  OBVIOUS
<1>4. \A x \in S : \E i \in M : x = table[i].order
  OBVIOUS
<1> HIDE DEF S
<1>5. PICK x \in S : \A y \in S : x <= y
  BY <1>1, <1>2, LeastAndGreatest
<1>6. PICK m \in M : x = table[m].order
  BY <1>4
<1>7. ASSUME NEW i \in M
      PROVE  /\ table[m].order <= table[i].order
             /\ i # m => /\ ~(table[i].order <= table[m].order)
                         /\ <<m, i>> \in ahead /\ <<i, m>> \notin ahead
  <2>1. table[m].order <= table[i].order
    BY <1>3, <1>5, <1>6
  <2>2. table[m].order \in Nat /\ table[i].order \in Nat
    BY <1>1
  <2>3. i # m => table[m].order # table[i].order
    BY DEF AsTold
  <2>4. i # m => table[m].order < table[i].order /\ ~(table[i].order < table[m].order)
                 /\ ~(table[i].order <= table[m].order)
    BY <2>1, <2>2, <2>3
  <2>5. QED BY <2>1, <2>4 DEF AsTold
<1>8. QED BY <1>7

(* oidc_callback gives the role of the first mapping of the user's groups, *)
(* as the administrators ordered and wrote the list, until a request that  *)
(* was overtaken by another writes (create_mapping, update_mapping,        *)
(* reorder_mappings).                                                      *)
THEOREM TheFirstMatchWins == MappingsSpec => []FirstMatchWins
<1>1. MapInv => FirstMatchWins
  <2> SUFFICES ASSUME MapInv, ~raced, NEW G \in SUBSET Group
               PROVE  Picks(G) = {Wanted(G)}
    BY DEF FirstMatchWins
  <2> DEFINE M == {i \in Listed : table[i].group \in G}
  <2>1. AsTold /\ DOMAIN told = Listed
    BY DEF MapInv, ListKept, TableOK
  <2>2. /\ Matching(G) = M
        /\ {i \in DOMAIN told : told[i].group \in G} = M
    BY <2>1 DEF AsTold, Matching, Listed
  <2>3. M \in SUBSET Listed
    OBVIOUS
  <2> HIDE DEF M
  <2>4. CASE M = {}
    BY <2>2, <2>4 DEF Picks, Wanted
  <2>5. CASE M # {}
    <3>1. PICK m \in M : \A i \in M :
            /\ table[m].order <= table[i].order
            /\ i # m => /\ ~(table[i].order <= table[m].order)
                        /\ <<m, i>> \in ahead /\ <<i, m>> \notin ahead
      BY <2>1, <2>3, <2>5, FirstIsOne
    <3>2. {k \in M : \A j \in M : Before(k, j)} = {m}
      BY <3>1 DEF Before
    <3>3. Picks(G) = {table[m].role}
      BY <2>2, <2>5, <3>2 DEF Picks
    <3>4. (CHOOSE i \in M : \A j \in M \ {i} : <<i, j>> \in ahead) = m
      BY <3>1
    <3>5. Wanted(G) = told[m].role
      BY <2>2, <2>5, <3>4 DEF Wanted
    <3>6. told[m].role = table[m].role
      BY <2>1, <2>3 DEF AsTold
    <3>7. QED BY <3>3, <3>5, <3>6
  <2>6. QED BY <2>4, <2>5
<1>2. QED BY <1>1, MapInvariance, PTL

(* A save that leaves the secret blank holds the one that is stored, as    *)
(* long as no other save overtook it.                                      *)
BlankIsStored ==
  \A a \in Admin \ overtaken : sent[a].op = "save" /\ sent[a].blank => sent[a].secret = secret

LEMMA BlankStep ==
  ASSUME MapInv, BlankIsStored, [MappingsNext]_mappingVars
  PROVE  BlankIsStored'
<1>1. ASSUME NEW a \in Admin, NEW l, Read(a, l),
             l.op = "save" /\ l.blank => l.secret = secret
      PROVE  BlankIsStored'
  <2>1. sent' = [sent EXCEPT ![a] = l] /\ secret' = secret /\ overtaken' = overtaken
    BY <1>1 DEF Read, config
  <2>2. sent'[a] = l /\ \A b \in Admin \ {a} : sent'[b] = sent[b]
    BY <2>1 DEF MapInv, RequestsOK
  <2>3. QED BY <1>1, <2>1, <2>2 DEF BlankIsStored
<1>2. ASSUME NEW a \in Admin,
             \/ \E g \in Group, r \in MappedRole : CreateRead(a, g, r)
             \/ \E i \in Listed : \/ \E g \in Group : EditRead(a, i, "group", g, table[i].role)
                                  \/ \E r \in MappedRole : EditRead(a, i, "role", table[i].group, r)
             \/ ReorderRead(a)
      PROVE  BlankIsStored'
  <2>1. ASSUME NEW g, NEW r, CreateRead(a, g, r) PROVE BlankIsStored'
    <3> DEFINE l == [op |-> "create", group |-> g, role |-> r, order |-> NextOrder]
    <3>1. Read(a, l) /\ l.op # "save"
      BY <2>1 DEF CreateRead
    <3> HIDE DEF l
    <3>2. QED BY <1>1, <3>1
  <2>2. ASSUME NEW i, NEW f, NEW g, NEW r, EditRead(a, i, f, g, r) PROVE BlankIsStored'
    <3> DEFINE l == [op |-> "edit", id |-> i, field |-> f, group |-> g, role |-> r]
    <3>1. Read(a, l) /\ l.op # "save"
      BY <2>2 DEF EditRead
    <3> HIDE DEF l
    <3>2. QED BY <1>1, <3>1
  <2>3. CASE ReorderRead(a)
    <3> DEFINE l == [op |-> "reorder", ids |-> Listed]
    <3>1. Read(a, l) /\ l.op # "save"
      BY <2>3 DEF ReorderRead
    <3> HIDE DEF l
    <3>2. QED BY <1>1, <3>1
  <2>4. QED BY <1>2, <2>1, <2>2, <2>3
<1>3. ASSUME NEW a \in Admin, NEW s, NEW d, SaveRead(a, s, d)
      PROVE  BlankIsStored'
  <2> DEFINE l == [op |-> "save", secret |-> IF s = NoSecret THEN secret ELSE s,
                   blank |-> s = NoSecret, default |-> d]
  <2>1. Read(a, l)
    BY <1>3 DEF SaveRead
  <2>2. l.blank => l.secret = secret
    OBVIOUS
  <2> HIDE DEF l
  <2>3. QED BY <1>1, <2>1, <2>2
<1>4. ASSUME NEW a \in Admin, NEW S \in SUBSET Admin, Write(a, S)
      PROVE  BlankIsStored'
  <2>1. secret' = secret /\ overtaken' = (overtaken \cup S) \ {a}
    BY <1>4 DEF Write, config
  <2>2. sent'[a].op = "idle" /\ \A b \in Admin \ {a} : sent'[b] = sent[b]
    BY <1>4, WriteFacts
  <2>3. QED BY <2>1, <2>2 DEF BlankIsStored
<1>5. ASSUME NEW a \in Admin,
             \/ CreateWrite(a) \/ EditWrite(a)
             \/ \E place : ReorderWrite(a, place)
      PROVE  BlankIsStored'
  <2>1. PICK S \in SUBSET Admin : Write(a, S)
    <3>1. /\ Under({"create", "reorder"}) \in SUBSET Admin /\ Under({"create"}) \in SUBSET Admin
          /\ {b \in Under({"edit"}) : sent[b].id = sent[a].id} \in SUBSET Admin
      BY DEF Under
    <3>2. QED BY <1>5, <3>1, Zenon DEF CreateWrite, EditWrite, ReorderWrite
  <2>2. QED BY <1>4, <2>1
<1>6. ASSUME NEW a \in Admin, SaveWrite(a)
      PROVE  BlankIsStored'
  <2>1. /\ sent' = [sent EXCEPT ![a] = [op |-> "idle"]]
        /\ overtaken' = (overtaken \cup Under({"save"})) \ {a}
    BY <1>6 DEF SaveWrite, NotSent
  <2>2. sent'[a].op = "idle" /\ \A b \in Admin \ {a} : sent'[b] = sent[b]
    BY <2>1 DEF MapInv, RequestsOK
  <2>3. \A b \in Admin : sent[b].op = "save" /\ b # a => b \in overtaken'
    BY <2>1 DEF Under
  <2>4. QED BY <2>2, <2>3 DEF BlankIsStored
<1>7. ASSUME UNCHANGED <<sent, secret, overtaken>>
      PROVE  BlankIsStored'
  BY <1>7 DEF BlankIsStored
<1>8. ASSUME NEW i, DeleteMapping(i)
      PROVE  BlankIsStored'
  BY <1>7, <1>8 DEF DeleteMapping, RemoveRows, config
<1>9. ASSUME NEW r, RoleDropped(r)
      PROVE  BlankIsStored'
  BY <1>7, <1>9 DEF RoleDropped, RemoveRows, config
<1>10. CASE UNCHANGED mappingVars
  BY <1>7, <1>10 DEF mappingVars
<1>11. QED
  BY <1>2, <1>3, <1>5, <1>6, <1>8, <1>9, <1>10 DEF MappingsNext, Listed

(* save_oidc_config keeps the stored secret when the form leaves it blank, *)
(* unless another save was written since it read the settings.             *)
THEOREM BlankKeepsSecret == MappingsSpec => SecretKept
<1> DEFINE A == \A a \in Admin :
                  /\ sent[a].op = "save" /\ sent'[a].op = "idle" /\ a \notin overtaken
                  /\ sent[a].blank
                  => secret' = secret
<1>1. MappingsInit => BlankIsStored
  BY DEF MappingsInit, NotSent, BlankIsStored
<1>2. MapInv /\ BlankIsStored /\ [MappingsNext]_mappingVars => BlankIsStored'
  BY BlankStep
<1>3. MapInv /\ BlankIsStored /\ [MappingsNext]_mappingVars => [A]_mappingVars
  <2> SUFFICES ASSUME MapInv, BlankIsStored, MappingsNext, NEW a \in Admin,
                      sent[a].op = "save", sent'[a].op = "idle", a \notin overtaken, sent[a].blank
               PROVE  secret' = secret
    OBVIOUS
  <2>1. CASE UNCHANGED secret
    BY <2>1
  <2>2. ASSUME NEW b \in Admin, SaveWrite(b)
        PROVE  secret' = secret
    <3>1. secret' = sent[b].secret /\ sent' = [sent EXCEPT ![b] = [op |-> "idle"]]
      BY <2>2 DEF SaveWrite, Saved, NotSent
    <3>2. b = a
      BY <3>1 DEF MapInv, RequestsOK
    <3>3. QED BY <3>1, <3>2 DEF BlankIsStored
  <2>3. UNCHANGED secret \/ \E b \in Admin : SaveWrite(b)
    <3>1. \A b, l : Read(b, l) => UNCHANGED secret
      BY DEF Read, config
    <3>2. \A b, S : Write(b, S) => UNCHANGED secret
      BY DEF Write, config
    <3>3. \A D : RemoveRows(D) => UNCHANGED secret
      BY DEF RemoveRows, config
    <3>4. QED
      BY <3>1, <3>2, <3>3, Zenon
      DEF MappingsNext, CreateRead, EditRead, ReorderRead, SaveRead,
          CreateWrite, EditWrite, ReorderWrite, DeleteMapping, RoleDropped
  <2>4. QED BY <2>1, <2>2, <2>3
<1>4. QED BY <1>1, <1>2, <1>3, MapInvariance, PTL DEF MappingsSpec, SecretKept
=============================================================================

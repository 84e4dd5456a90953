------------------------------ MODULE Accounts ------------------------------
(***************************************************************************)
(* Portal users and roles: the routes of api/users.py and api/roles.py,    *)
(* user creation (services/user_manager.py), the permissions of a request  *)
(* (rbac.py, auth.py), and the account a single sign-on finds or makes     *)
(* (oidc_callback of api/oidc.py).                                         *)
(*                                                                         *)
(* A request reads its user's permissions first, checks the role it is to  *)
(* assign in a second transaction and writes in a third.  A SELECT before  *)
(* a transaction's first write is not protected by it: what it found may   *)
(* have changed, and UNIQUE and FOREIGN KEY decide.                        *)
(***************************************************************************)
EXTENDS Integers, Sequences

CONSTANTS
  Request,      \* requests that may be under way at once
  Email,
  Role,         \* role ids; "admin" among them
  BuiltIn,      \* the roles that cannot be deleted
  Perm,         \* permissions; "users" for users:write, "roles" for roles:write
  MaxUsers      \* bound: accounts made

ASSUME AccountsAssumption ==
  /\ "admin" \in BuiltIn /\ BuiltIn \subseteq Role
  /\ {"users", "roles"} \subseteq Perm
  /\ Email # {} /\ MaxUsers \in Nat \ {0}

VARIABLES
  perm,    \* the roles there are, with their permissions
  acct,    \* the rows of users, in the order they were made
  loc,     \* per request: its local state
  lent     \* history: per request, the permissions of whoever last rewrote
           \* its role since the check

vars == <<perm, acct, loc, lent>>

User == 1..MaxUsers
Id == 1..Len(acct)
Idle == [pc |-> "idle", op |-> "none", by |-> 0, held |-> {}, who |-> 0, arg |-> "admin"]
RolePerms(r) == IF r \in DOMAIN perm THEN perm[r] ELSE {}
Account(e, r, src) == [email |-> e, role |-> r, active |-> TRUE, source |-> src]

(* init_db seeds the built-in roles and one administrator. *)
Init ==
  /\ perm \in [BuiltIn -> SUBSET Perm] /\ perm["admin"] = Perm
  /\ acct = <<Account(CHOOSE e \in Email : TRUE, "admin", "local")>>
  /\ loc = [q \in Request |-> Idle]
  /\ lent = [q \in Request |-> {}]

-----------------------------------------------------------------------------
UserOps == {"create", "import", "assign", "rename", "deactivate", "activate", "delete"}
RoleOps == {"addRole", "editRole", "dropRole"}
Granting == {"create", "import", "assign"}         \* those that give a role
Needed(op) == IF op \in UserOps THEN "users" ELSE "roles"

AllowedBuiltIn(op, a, held, x, y) ==               \* mutant: built-in roles not refused
  /\ op \in {"assign", "delete"} => x # a
  /\ op \in {"addRole", "editRole"} => x \subseteq held

(* get_current_user and require_permission: _load_user accepts an active   *)
(* account only.  Then come the refusals that need no further read.        *)
Allowed(op, a, held, x, y) ==
  /\ op = "assign" => x # a                        \* "Cannot change your own role"
  /\ op = "delete" => x # a                        \* "Cannot delete your own account"
  /\ op \in {"addRole", "editRole"} => x \subseteq held
  /\ op = "dropRole" => y \notin BuiltIn

Begin(q, op, a, x, y) ==
  LET held == RolePerms(acct[a].role)
  IN /\ loc[q].pc = "idle"
     /\ acct[a].active /\ Needed(op) \in held
     /\ Allowed(op, a, held, x, y)
     /\ loc' = [loc EXCEPT ![q] =
          [pc |-> IF op \in Granting THEN "check" ELSE "write",
           op |-> op, by |-> a, held |-> held, who |-> x, arg |-> y]]
     /\ UNCHANGED <<perm, acct, lent>>

Arrive(q) == \E a \in Id :
  \/ \E e \in Email, r \in Role : Begin(q, "create", a, e, r) \/ Begin(q, "import", a, e, r)
  \/ \E u \in Id, r \in Role : Begin(q, "assign", a, u, r)
  \/ \E u \in Id, e \in Email : Begin(q, "rename", a, u, e)
  \/ \E u \in Id : \E op \in {"deactivate", "activate", "delete"} : Begin(q, op, a, u, "admin")
  \/ \E P \in SUBSET Perm, r \in Role : Begin(q, "addRole", a, P, r) \/ Begin(q, "editRole", a, P, r)
  \/ \E r \in Role : Begin(q, "dropRole", a, {}, r)

End(q) == loc' = [loc EXCEPT ![q] = Idle] /\ lent' = [lent EXCEPT ![q] = {}]
Writes(q, ops) == loc[q].pc = "write" /\ loc[q].op \in ops

CheckNothing(q) ==                                 \* mutant: the check passes
  /\ loc[q].pc = "check"
  /\ loc' = [loc EXCEPT ![q].pc = "write"]
  /\ UNCHANGED <<perm, acct, lent>>

(* _check_role_assignable, and the checks of an imported row.  A role that *)
(* does not exist has no permissions; an import refuses it.                *)
Check(q) ==
  /\ loc[q].pc = "check"
  /\ IF /\ RolePerms(loc[q].arg) \subseteq loc[q].held
        /\ loc[q].op = "import" => loc[q].arg \in DOMAIN perm
     THEN loc' = [loc EXCEPT ![q].pc = "write"] /\ UNCHANGED lent
     ELSE End(q)
  /\ UNCHANGED <<perm, acct>>

UniqueOnly(T) ==                                   \* mutant: foreign_keys off
  \A i, j \in DOMAIN T : T[i].email = T[j].email => i = j

(* UNIQUE(email) and the foreign key of role_id refuse a row that breaks   *)
(* them: the transaction is rolled back and the request fails.             *)
Accepted(T) == /\ \A i, j \in DOMAIN T : T[i].email = T[j].email => i = j
               /\ \A i \in DOMAIN T : T[i].role \in DOMAIN perm
Commit(T) == acct' = IF Len(T) <= MaxUsers /\ Accepted(T) THEN T ELSE acct

(* create_user, and an import, by the first row it writes: the SELECTs of  *)
(* the rows after it are protected by its transaction.                     *)
CreateUser(q) ==
  /\ Writes(q, {"create", "import"})
  /\ Commit(Append(acct, Account(loc[q].who, loc[q].arg, "local")))
  /\ End(q)
  /\ UNCHANGED perm

(* A row with a field too few, strip() of None: the import is rolled back. *)
ImportFails(q) ==
  /\ loc[q].op = "import"
  /\ End(q)
  /\ UNCHANGED <<perm, acct>>

(* update_user, one field at a time, and delete_user, which deactivates. *)
UpdateUser(q) ==
  /\ Writes(q, {"assign", "rename", "activate", "deactivate", "delete"})
  /\ LET u == loc[q].who
         op == loc[q].op
     IN Commit(CASE op = "assign"   -> [acct EXCEPT ![u].role = loc[q].arg]
                 [] op = "rename"   -> [acct EXCEPT ![u].email = loc[q].arg]
                 [] op = "activate" -> [acct EXCEPT ![u].active = TRUE]
                 [] OTHER           -> [acct EXCEPT ![u].active = FALSE])
  /\ End(q)
  /\ UNCHANGED perm

Granted(r) == {q \in Request : loc[q].pc = "write" /\ loc[q].op \in Granting /\ loc[q].arg = r}

SaveRole(q) ==
  /\ Writes(q, {"addRole", "editRole"})
  /\ LET r == loc[q].arg
     IN IF (loc[q].op = "addRole") = (r \notin DOMAIN perm)
        THEN /\ perm' = [s \in DOMAIN perm \cup {r} |-> IF s = r THEN loc[q].who ELSE perm[s]]
             /\ loc' = [loc EXCEPT ![q] = Idle]
             /\ lent' = [p \in Request |-> IF p \in Granted(r) THEN loc[q].held ELSE lent[p]]
        ELSE UNCHANGED perm /\ End(q)
  /\ UNCHANGED acct

(* The count of users and the DELETE are separate; the foreign key decides. *)
DropRole(q) ==
  /\ Writes(q, {"dropRole"})
  /\ perm' = IF \E i \in Id : acct[i].role = loc[q].arg THEN perm
             ELSE [s \in DOMAIN perm \ {loc[q].arg} |-> perm[s]]
  /\ End(q)
  /\ UNCHANGED acct

-----------------------------------------------------------------------------
(* oidc_callback from the mapped role on: the role is verified, the account *)
(* looked up by its address, and written: three transactions.               *)

SsoLocal(q, e, r, pc) ==
  [Idle EXCEPT !.pc = pc, !.op = "sso", !.who = e, !.arg = r]

SsoRole(q, e, r) ==
  /\ loc[q].pc = "idle" /\ r \in DOMAIN perm
  /\ loc' = [loc EXCEPT ![q] = SsoLocal(q, e, r, "lookup")]
  /\ UNCHANGED <<perm, acct, lent>>

NoConflict(i) == FALSE                             \* mutant: no account_conflict
Conflict(i) == acct[i].source = "local"

SsoLookup(q) ==
  /\ loc[q].pc = "lookup"
  /\ LET Known == {i \in Id : acct[i].email = loc[q].who}
     IN IF \E i \in Known : Conflict(i) THEN End(q)
        ELSE /\ loc' = [loc EXCEPT ![q].pc = "sso", ![q].by = IF Known = {} THEN 0 ELSE CHOOSE i \in Known : TRUE]
             /\ UNCHANGED lent
  /\ UNCHANGED <<perm, acct>>

SsoWrite(q) ==
  /\ loc[q].pc = "sso"
  /\ LET i == loc[q].by
     IN Commit(IF i = 0 THEN Append(acct, Account(loc[q].who, loc[q].arg, "sso"))
               ELSE [acct EXCEPT ![i].role = loc[q].arg, ![i].source = "sso"])
  /\ End(q)
  /\ UNCHANGED perm

Next == \E q \in Request :
  \/ Arrive(q) \/ Check(q)
  \/ CreateUser(q) \/ ImportFails(q) \/ UpdateUser(q) \/ SaveRole(q) \/ DropRole(q)
  \/ \E e \in Email, r \in Role : SsoRole(q, e, r)
  \/ SsoLookup(q) \/ SsoWrite(q)

Spec == Init /\ [][Next]_vars
-----------------------------------------------------------------------------
TypeOK ==
  /\ DOMAIN perm \subseteq Role /\ BuiltIn \subseteq DOMAIN perm
  /\ perm \in [DOMAIN perm -> SUBSET Perm]
  /\ Len(acct) \in User
  /\ \A i \in Id : acct[i] \in [email : Email, role : Role, active : BOOLEAN, source : {"local", "sso"}]
  /\ lent \in [Request -> SUBSET Perm]

(* Every account has a role that exists, although each route reads the     *)
(* role in one transaction and writes the account in another.              *)
RolesExist == \A i \in Id : acct[i].role \in DOMAIN perm

(* Nobody hands out what nobody concerned holds: a role assigned, or given *)
(* to a new account, has no permission that its sender had not when he     *)
(* began, except those of the one who rewrote the role since its check.    *)
NoEscalation ==
  [][\A q \in Request :
       /\ loc[q].op \in Granting /\ loc[q].pc = "write"
       /\ acct' # acct /\ loc'[q].pc = "idle"
       => RolePerms(loc[q].arg) \subseteq loc[q].held \cup lent[q]]_vars

(* A single sign-on never changes a local account, whatever is renamed,    *)
(* created or signed on between its look-up and its write.                 *)
SsoLeavesLocal ==
  [][\A i \in Id : acct[i].source = "local" =>
       /\ acct'[i].source = "local"
       /\ (\E q \in Request : loc[q].op = "sso" /\ loc'[q].pc # loc[q].pc) => acct'[i] = acct[i]]_vars
=============================================================================

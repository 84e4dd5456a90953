--------------------------- MODULE GroupMappings ---------------------------
(***************************************************************************)
(* The table that turns the groups of a single sign-on into a role         *)
(* (api/oidc.py): administrators create, edit, delete and reorder its rows *)
(* and save the provider's settings; oidc_callback takes the first match.  *)
(*                                                                         *)
(* create_mapping, update_mapping and save_oidc_config read and write in   *)
(* two steps; a reorder sends the list its page showed, in a new order.    *)
(* "told" and "ahead" keep the list as the administrators wrote and        *)
(* ordered it, without sort_order.                                         *)
(***************************************************************************)
EXTENDS Integers, FiniteSetsExt

CONSTANTS
  Admin,      \* requests of administrators under way at once
  Group,
  MappedRole, \* the roles that mappings and settings name
  NoRole,     \* no mapping and no default role: error=no_role
  MaxMade,    \* bound: mappings ever created
  Secret,     \* client secrets
  NoSecret    \* a secret left blank in the form

ASSUME MappingsAssumption ==
  /\ IsFiniteSet(Admin) /\ MaxMade \in Nat \ {0}
  /\ NoRole \notin MappedRole /\ NoSecret \notin Secret

VARIABLES
  table,    \* oidc_group_mappings: per id its group, role and sort_order
  made,     \* ids given out so far
  secret,   \* client_secret of oidc_config
  default,  \* default_role_id of oidc_config, or NoRole
  sent,     \* per request: its local state
  overtaken,\* history: requests whose reading another write made stale
  told,     \* history: per id the group and role last asked for
  ahead,    \* history: pairs of ids, the first put before the second
  raced     \* history: an overtaken request has written to the table

mappingVars == <<table, made, secret, default, sent, overtaken, told, ahead, raced>>
config == <<secret, default>>
rows == <<table, made, told, ahead>>

Listed == DOMAIN table
NotSent == [op |-> "idle"]
MappingsInit ==
  /\ table = <<>> /\ made = 0 /\ told = <<>> /\ ahead = {}
  /\ secret \in Secret /\ default = NoRole
  /\ sent = [a \in Admin |-> NotSent]
  /\ overtaken = {} /\ raced = FALSE

-----------------------------------------------------------------------------
With(f, i, x) == [j \in DOMAIN f \cup {i} |-> IF j = i THEN x ELSE f[j]]
Without(f, D) == [j \in DOMAIN f \ D |-> f[j]]
MappingRow(g, r, n) == [group |-> g, role |-> r, order |-> n]
Under(ops) == {a \in Admin : sent[a].op \in ops}

Read(a, l) ==
  /\ sent[a].op = "idle"
  /\ sent' = [sent EXCEPT ![a] = l]
  /\ UNCHANGED <<rows, config, overtaken, raced>>

(* The request a writes the table, and with it the readings of the         *)
(* requests in S are out of date.                                          *)
Write(a, S) ==
  /\ sent' = [sent EXCEPT ![a] = NotSent]
  /\ overtaken' = (overtaken \cup S) \ {a}
  /\ raced' = (raced \/ a \in overtaken)
  /\ UNCHANGED config

NextOrder == IF Listed = {} THEN 0 ELSE Max({table[i].order : i \in Listed}) + 1

CreateRead(a, g, r) ==
  /\ made + Cardinality(Under({"create"})) < MaxMade
  /\ Read(a, [op |-> "create", group |-> g, role |-> r, order |-> NextOrder])

CreateWrite(a) ==
  /\ sent[a].op = "create"
  /\ made' = made + 1
  /\ table' = With(table, made', MappingRow(sent[a].group, sent[a].role, sent[a].order))
  /\ told' = With(told, made', [group |-> sent[a].group, role |-> sent[a].role])
  /\ ahead' = ahead \cup {<<i, made'>> : i \in Listed}
  /\ Write(a, Under({"create", "reorder"}))

(* update_mapping writes back every field of the row it read, with the     *)
(* field of the request in place; a row deleted since is not written.      *)
EditRead(a, i, field, g, r) ==
  i \in Listed /\ Read(a, [op |-> "edit", id |-> i, field |-> field, group |-> g, role |-> r])

Edited(l) == IF l.id \in Listed THEN With(table, l.id, MappingRow(l.group, l.role, table[l.id].order)) ELSE table
Asked(l) ==
  IF l.id \notin DOMAIN told THEN told
  ELSE IF l.field = "group" THEN [told EXCEPT ![l.id].group = l.group]
  ELSE [told EXCEPT ![l.id].role = l.role]

EditWrite(a) ==
  /\ sent[a].op = "edit"
  /\ table' = Edited(sent[a]) /\ told' = Asked(sent[a])
  /\ Write(a, {b \in Under({"edit"}) : sent[b].id = sent[a].id})
  /\ UNCHANGED <<made, ahead>>

(* Rows go, and with them their place in the list. *)
RemoveRows(D) ==
  /\ D # {}
  /\ table' = Without(table, D) /\ told' = Without(told, D)
  /\ ahead' = {e \in ahead : e[1] \notin D /\ e[2] \notin D}
  /\ UNCHANGED <<made, config, sent, overtaken, raced>>

DeleteMapping(i) == i \in Listed /\ RemoveRows({i})
(* delete_role: ON DELETE CASCADE.  The settings may still name the role.  *)
RoleDropped(r) == RemoveRows({i \in Listed : table[i].role = r})

(* The page lists the table by sort_order; reorder_mappings numbers the    *)
(* ids it is sent from 0: "place" is where each stands in ordered_ids.     *)
ReorderRead(a) == Listed # {} /\ Read(a, [op |-> "reorder", ids |-> Listed])

Places(S) == Injection(S, 0..Cardinality(S) - 1)
Renumbered(place) ==
  [i \in Listed |-> IF i \in DOMAIN place THEN MappingRow(table[i].group, table[i].role, place[i]) ELSE table[i]]
PutAhead(place) ==
  LET known == Listed \cap DOMAIN place
  IN {e \in known \X known : place[e[1]] < place[e[2]]}

ReorderWrite(a, place) ==
  /\ sent[a].op = "reorder"
  /\ place \in Places(sent[a].ids)
  /\ table' = Renumbered(place) /\ ahead' = PutAhead(place)
  /\ Write(a, Under({"create"}))
  /\ UNCHANGED <<made, told>>

(* save_oidc_config: a secret left blank keeps the one read before. *)
SaveRead(a, s, d) == Read(a, [op |-> "save", secret |-> IF s = NoSecret THEN secret ELSE s, blank |-> s = NoSecret, default |-> d])

SavedBlank(l) == IF l.blank THEN NoSecret ELSE l.secret     \* mutant
Saved(l) == l.secret

SaveWrite(a) ==
  /\ sent[a].op = "save"
  /\ secret' = Saved(sent[a])
  /\ default' = sent[a].default
  /\ sent' = [sent EXCEPT ![a] = NotSent]
  /\ overtaken' = (overtaken \cup Under({"save"})) \ {a}
  /\ UNCHANGED <<rows, raced>>

MappingsNext ==
  \/ \E a \in Admin :
       \/ \E g \in Group, r \in MappedRole : CreateRead(a, g, r)
       \/ \E i \in Listed :
            \/ \E g \in Group : EditRead(a, i, "group", g, table[i].role)
            \/ \E r \in MappedRole : EditRead(a, i, "role", table[i].group, r)
       \/ ReorderRead(a)
       \/ \E s \in Secret \cup {NoSecret}, d \in MappedRole \cup {NoRole} : SaveRead(a, s, d)
       \/ CreateWrite(a) \/ EditWrite(a) \/ SaveWrite(a)
       \/ \E place \in Places(IF sent[a].op = "reorder" THEN sent[a].ids ELSE {}) : ReorderWrite(a, place)
  \/ \E i \in Listed : DeleteMapping(i)
  \/ \E r \in MappedRole : RoleDropped(r)

MappingsSpec == MappingsInit /\ [][MappingsNext]_mappingVars
-----------------------------------------------------------------------------
(* oidc_callback: the rows in the order of sort_order, in which rows of    *)
(* equal sort_order may come either way; the first whose group the user is *)
(* in gives the role, and without one the default role.                    *)
After(i, j) == table[i].order >= table[j].order          \* mutant
Before(i, j) == table[i].order <= table[j].order

Matching(G) == {i \in Listed : table[i].group \in G}
Picks(G) ==
  IF Matching(G) = {} THEN {default}
  ELSE {table[i].role : i \in {k \in Matching(G) : \A j \in Matching(G) : Before(k, j)}}

MappingsTypeOK ==
  /\ made \in 0..MaxMade /\ Listed \subseteq 1..made
  /\ \A i \in Listed : table[i] \in [group : Group, role : MappedRole, order : 0..MaxMade]
  /\ secret \in Secret /\ default \in MappedRole \cup {NoRole}
  /\ overtaken \subseteq Admin

(* The first of the mappings of these groups, as they were put in order. *)
Wanted(G) ==
  LET named == {i \in DOMAIN told : told[i].group \in G}
  IN IF named = {} THEN default
     ELSE told[CHOOSE i \in named : \A j \in named \ {i} : <<i, j>> \in ahead].role

(* "first match wins": unless a stale request has written, whoever signs   *)
(* on gets the role of the first mapping of his groups, in the order and   *)
(* with the contents the administrators gave the list.                     *)
FirstMatchWins == ~raced => \A G \in SUBSET Group : Picks(G) = {Wanted(G)}

(* A save that leaves the secret blank does not change it, unless another  *)
(* save was written since it read the settings.                            *)
SecretKept ==
  [][\A a \in Admin :
       /\ sent[a].op = "save" /\ sent'[a].op = "idle" /\ a \notin overtaken
       /\ sent[a].blank
       => secret' = secret]_mappingVars
=============================================================================

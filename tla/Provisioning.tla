---------------------------- MODULE Provisioning ----------------------------
(***************************************************************************)
(* Members of a group: api/members.py with the calls of the Partner API    *)
(* it makes (services/backblaze_client.py), the audit log and the          *)
(* credential vault (services/vault.py, api/credentials.py).               *)
(*                                                                         *)
(* A create issues the member's key once.  The request that receives it    *)
(* writes the audit row and the vault row in two transactions and then     *)
(* answers with the key; each of the steps may fail, and the process may   *)
(* end between any two.  A request is one invocation of a route: it works  *)
(* through its rows (one, unless it is an import) and appends a result for *)
(* each.  One email is one Backblaze account.                              *)
(***************************************************************************)
EXTENDS Integers, Sequences

CONSTANTS
  Request,      \* invocations of the routes
  Email,        \* members' addresses
  Blank,        \* an import row without an address
  Short,        \* an import row with fewer fields than the header
  MaxRows,      \* bound: rows of an import
  MaxRetries,   \* _MAX_RETRIES
  Faults        \* what may go wrong: "lost", "db", "crash"

ASSUME ProvisioningAssumption ==
  /\ Blank \notin Email /\ Short \notin Email /\ Blank # Short
  /\ MaxRetries \in Nat \ {0}
  /\ Faults \subseteq {"lost", "db", "crash"}

VARIABLES
  vaultOn,   \* credential_vault_enabled
  member,    \* at Backblaze: "none", "member" or "ejected"
  maker,     \* the request and row that created the account, or <<>>
  audit,     \* the rows of audit_log
  vault,     \* the members whose key the vault holds
  job,       \* per request: "create", "eject" or "read"
  rows,      \* per request: the addresses it was given
  out,       \* per request: the results of the rows done so far
  pc,        \* per request: where it is
  attempt,   \* per request: attempt of _request
  renewed,   \* per request: the row's token was renewed once
  struck     \* history: the members a failure fell on

remote == <<member, maker>>
stored == <<audit, vault>>
calls == <<attempt, renewed>>
vars == <<vaultOn, remote, stored, job, rows, out, pc, calls, struck>>

Ended == {"done", "aborted", "crashed"}
Row(r) == rows[r][Len(out[r]) + 1]
Event(r) == <<job[r], Row(r)>>

Init ==
  /\ vaultOn \in BOOLEAN
  /\ member = [e \in Email |-> "none"]
  /\ maker = [e \in Email |-> <<>>]
  /\ audit = {} /\ vault = {} /\ struck = {}
  /\ job = [r \in Request |-> "create"]
  /\ rows = [r \in Request |-> <<>>]
  /\ out = [r \in Request |-> <<>>]
  /\ pc = [r \in Request |-> "idle"]
  /\ attempt = [r \in Request |-> 0]
  /\ renewed = [r \in Request |-> FALSE]

-----------------------------------------------------------------------------
Goto(r, where) == pc' = [pc EXCEPT ![r] = where]

(* A row ends with a result, and the loop goes on to the next one: the     *)
(* single routes turn "failed" into an error response.                     *)
EndRow(r, result) ==
  /\ out' = [out EXCEPT ![r] = Append(@, result)]
  /\ attempt' = [attempt EXCEPT ![r] = 0]
  /\ renewed' = [renewed EXCEPT ![r] = FALSE]
  /\ Goto(r, "row")

Start(r, j, rs) ==
  /\ pc[r] = "idle"
  /\ job' = [job EXCEPT ![r] = j]
  /\ rows' = [rows EXCEPT ![r] = rs]
  /\ UNCHANGED <<vaultOn, remote, stored, out, calls, struck>>

Create(r, e) == Start(r, "create", <<e>>) /\ Goto(r, "row")
Import(r, rs) == Start(r, "create", rs) /\ Goto(r, "row")
Eject(r, e) == Start(r, "eject", <<e>>) /\ Goto(r, "row")
(* The vault is read before the audit row of the access is written. *)
Retrieve(r, e) ==
  Start(r, "read", <<e>>) /\ Goto(r, IF vaultOn /\ e \in vault THEN "audit" ELSE "done")

(* The head of the import's loop.  A short row has None for the region,    *)
(* whose .strip() raises outside the try: the whole import ends in a 500.  *)
NextRow(r) ==
  /\ pc[r] = "row"
  /\ UNCHANGED <<vaultOn, remote, stored, job, rows, struck>>
  /\ IF Len(out[r]) = Len(rows[r])
     THEN Goto(r, "done") /\ UNCHANGED <<out, calls>>
     ELSE \/ Row(r) = Blank /\ EndRow(r, "skipped")
          \/ Row(r) = Short /\ Goto(r, "aborted") /\ UNCHANGED <<out, calls>>
          \/ Row(r) \in Email /\ Goto(r, "call") /\ UNCHANGED <<out, calls>>

(* What Backblaze does with a call: an address is added once, and an       *)
(* ejected member cannot be added again.                                   *)
Possible(r) == member[Row(r)] = IF job[r] = "create" THEN "none" ELSE "member"
Effect(r) ==
  /\ Possible(r)
  /\ member' = [member EXCEPT ![Row(r)] = IF job[r] = "create" THEN "member" ELSE "ejected"]
  /\ maker' = IF job[r] = "create"
              THEN [maker EXCEPT ![Row(r)] = <<r, Len(out[r]) + 1>>] ELSE maker

CarriedTwice(r) ==                     \* mutant: tries again after a success
  /\ pc[r] = "call"
  /\ IF attempt[r] < MaxRetries - 1
     THEN Effect(r) /\ attempt' = [attempt EXCEPT ![r] = @ + 1] /\ UNCHANGED <<pc, renewed>>
     ELSE Effect(r) /\ Goto(r, "audit") /\ UNCHANGED calls
  /\ UNCHANGED <<vaultOn, stored, job, rows, out, struck>>
Carried(r) ==
  /\ pc[r] = "call"
  /\ Effect(r)
  /\ Goto(r, "audit")
  /\ UNCHANGED <<vaultOn, stored, job, rows, out, calls, struck>>

(* Any answer that raises: the call is impossible, or refused anyway. *)
Refused(r) ==
  /\ pc[r] = "call"
  /\ EndRow(r, "failed")
  /\ UNCHANGED <<vaultOn, remote, stored, job, rows, struck>>

(* 408, 429 or 503: _request tries again, up to _MAX_RETRIES calls. *)
Retry(r) ==
  IF attempt[r] < MaxRetries - 1
  THEN attempt' = [attempt EXCEPT ![r] = @ + 1] /\ UNCHANGED <<renewed, out, pc>>
  ELSE EndRow(r, "failed")

Busy(r) ==
  /\ pc[r] = "call"
  /\ Retry(r)
  /\ UNCHANGED <<vaultOn, remote, stored, job, rows, struck>>

(* The call was carried out and its answer is a 408 or a 503, or none.     *)
LostAnswer(r) ==
  /\ "lost" \in Faults /\ pc[r] = "call"
  /\ Effect(r)
  /\ Retry(r) \/ EndRow(r, "failed")
  /\ struck' = struck \cup {Row(r)}
  /\ UNCHANGED <<vaultOn, stored, job, rows>>

ExpiredAgain(r) ==                     \* mutant: renews again and again
  /\ pc[r] = "call" /\ job[r] = "create"
  /\ attempt' = [attempt EXCEPT ![r] = 0]
  /\ UNCHANGED <<vaultOn, remote, stored, job, rows, out, pc, renewed, struck>>
(* expired_auth_token: a create renews the token and calls once more. *)
Expired(r) ==
  /\ pc[r] = "call" /\ job[r] = "create"
  /\ IF renewed[r] THEN EndRow(r, "failed")
     ELSE /\ renewed' = [renewed EXCEPT ![r] = TRUE]
          /\ attempt' = [attempt EXCEPT ![r] = 0]
          /\ UNCHANGED <<out, pc>>
  /\ UNCHANGED <<vaultOn, remote, stored, job, rows, struck>>

ReplyFirst(r) == UNCHANGED vault /\ EndRow(r, "ok")              \* mutant
(* The answer to a create names the account and its key, so the code's test *)
(* for them before it stores the key leaves only vaultOn.                   *)
AfterAudit(r) ==
  /\ UNCHANGED vault
  /\ IF vaultOn /\ job[r] = "create"
     THEN Goto(r, "store") /\ UNCHANGED <<out, calls>>
     ELSE EndRow(r, "ok")

AuditNoEject(r) ==                     \* mutant: ejections not audited
  /\ pc[r] = "audit"
  /\ audit' = IF job[r] = "eject" THEN audit ELSE audit \cup {Event(r)}
  /\ AfterAudit(r)
  /\ UNCHANGED <<vaultOn, remote, job, rows, struck>>
Audit(r) ==
  /\ pc[r] = "audit"
  /\ audit' = audit \cup {Event(r)}
  /\ AfterAudit(r)
  /\ UNCHANGED <<vaultOn, remote, job, rows, struck>>

Store(r) ==
  /\ pc[r] = "store"
  /\ vault' = vault \cup {Row(r)}
  /\ EndRow(r, "ok")
  /\ UNCHANGED <<vaultOn, remote, audit, job, rows, struck>>

(* The database is locked, or the vault's key is missing. *)
WriteFails(r) ==
  /\ "db" \in Faults /\ pc[r] \in {"audit", "store"}
  /\ EndRow(r, "failed")
  /\ struck' = struck \cup {Row(r)}
  /\ UNCHANGED <<vaultOn, remote, stored, job, rows>>

(* The worker process of a request ends: its results are gone, a call sent *)
(* may be carried out.  Which others end with it depends on their workers. *)
Crash(r) ==
  /\ "crash" \in Faults
  /\ pc[r] \notin Ended \cup {"idle"}
  /\ UNCHANGED remote \/ (pc[r] = "call" /\ Effect(r))
  /\ struck' = struck \cup (IF pc[r] = "row" THEN {} ELSE {Row(r)})
  /\ Goto(r, "crashed")
  /\ attempt' = [attempt EXCEPT ![r] = 0]
  /\ renewed' = [renewed EXCEPT ![r] = FALSE]
  /\ UNCHANGED <<vaultOn, stored, job, rows, out>>

Step(r) ==
  \/ NextRow(r) \/ Carried(r) \/ Refused(r) \/ Busy(r) \/ LostAnswer(r)
  \/ Expired(r) \/ Audit(r) \/ Store(r) \/ WriteFails(r)

Arrive(r) ==
  \/ \E e \in Email : Create(r, e) \/ Eject(r, e) \/ Retrieve(r, e)
  \/ \E n \in 1..MaxRows : \E rs \in [1..n -> Email \cup {Blank, Short}] : Import(r, rs)

Next == \E r \in Request : Arrive(r) \/ Step(r) \/ Crash(r)

Spec == Init /\ [][Next]_vars

(* Every await of a request returns: calls time out, transactions commit or *)
(* raise.                                                                  *)
FairSpec == Spec /\ \A r \in Request : WF_vars(Step(r))
-----------------------------------------------------------------------------
TypeOK ==
  /\ vaultOn \in BOOLEAN
  /\ member \in [Email -> {"none", "member", "ejected"}]
  /\ audit \subseteq {"create", "eject", "read"} \X Email
  /\ vault \subseteq Email /\ struck \subseteq Email
  /\ job \in [Request -> {"create", "eject", "read"}]
  /\ pc \in [Request -> {"idle", "row", "call", "audit", "store"} \cup Ended]
  /\ attempt \in [Request -> 0..MaxRetries - 1]
  /\ renewed \in [Request -> BOOLEAN]
  /\ \A r \in Request : Len(out[r]) <= Len(rows[r])

(* A result that says ok is never ahead of what it promises: the change or *)
(* the access is in the audit log, and a new key is in the vault.          *)
SuccessIsRecorded ==
  \A r \in Request : \A i \in DOMAIN out[r] : out[r][i] = "ok" =>
    /\ <<job[r], rows[r][i]>> \in audit
    /\ job[r] = "create" => member[rows[r][i]] # "none" /\ (vaultOn => rows[r][i] \in vault)

(* The vault holds no key whose issue the audit log does not show. *)
VaultedIsAudited == \A e \in vault : <<"create", e>> \in audit

Handling(e) == \E r \in Request : pc[r] \in {"audit", "store"} /\ Row(r) = e

(* A failure spoils the row it falls on and no other: every other account  *)
(* created or ejected is in the audit log, and the key of every other      *)
(* account is in the vault or, without a vault, in a result, unless the    *)
(* results themselves were lost (a crash, a short row later in the file).  *)
LossIsLocal ==
  \A e \in Email \ struck : member[e] # "none" /\ ~Handling(e) =>
    /\ <<"create", e>> \in audit
    /\ member[e] = "ejected" => <<"eject", e>> \in audit
    /\ vaultOn => e \in vault
    /\ out[maker[e][1]][maker[e][2]] = "ok"

(* A row is reported as failed although it created the account only if a   *)
(* failure fell on it: the retries of _request and of the expired token    *)
(* never call again after a create that was answered.                      *)
FailedMeansNotCreated ==
  \A r \in Request : \A i \in DOMAIN out[r] :
    out[r][i] = "failed" /\ rows[r][i] \notin struck => maker[rows[r][i]] # <<r, i>>

(* Every request ends, however often Backblaze answers that it is busy. *)
RequestsEnd == \A r \in Request : pc[r] # "idle" ~> pc[r] \in Ended
=============================================================================

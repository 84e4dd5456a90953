# b2-partner-portal in TLA+

TLA+ models of the Backblaze Partner Portal (`src/`, a FastAPI application over
SQLite and the Backblaze B2 and Partner APIs), their TLC runs, and TLAPS proofs
of the properties that matter most. The subject is what a unit test hardly
reaches: what happens between two `await`s, two transactions, two workers, or a
write and the write that was to follow it.

Contents: [the system](#the-system) · [the modules](#the-modules) ·
[composition](#how-they-compose) · [the runs](#the-runs) · [bounds](#bounds) ·
[fairness](#fairness) · [the proofs](#the-proofs) · [findings](#findings) ·
[behaviours worth knowing](#behaviours-worth-knowing) ·
[not modelled](#not-modelled) · [plan](#plan)

Run a model with `tlc -config store_faults.cfg MCReportStore`, check proofs with
`tlapm ReportStoreProofs.tla`. `PROJECT.json` lists the runs, the lines each
definition stands for, the hazards and the theorems.

## The system

One process per worker (`uvicorn --workers 2` in `src/README.md`). Each has an
event loop that runs its request handlers and one scheduler task. Workers share
nothing but the SQLite file and the reports directory. A piece of code without
an `await` runs alone in its process; a transaction (`async with get_db()`) is
atomic across processes; everything else interleaves.

| Component | Code under `src/app` | State it keeps | Operations | What makes it correct |
|---|---|---|---|---|
| Report store | `services/report_parser.py`, `enforce_retention` in `services/report_scheduler.py` | date directories and CSV files; table `report_cache` | fetch a file (cached or downloaded), sweep what is older than `retention_days` | file and record agree; the window is never touched; what has expired goes |
| Fetch cascade | `fetch_date`, `fetch_date_range` in `services/report_scheduler.py` | per run: date, files to go, results | account, audit, groups index, then per group its locations index and per region two files; skip dates that have data | each file named is asked for; a date that failed is tried again |
| Scheduler | `scheduler_loop`, `lifespan` in `main.py`, `/reports/schedule` | `_last_scheduled_minute` (memory), `report_schedule` (config) | wake, test the minute, run, sweep | one run for a day, none missed, no date lost |
| B2 client authorization | `services/backblaze_client.py` | one row of `api_token_cache`, 23 hours | get or make a token, retry once after `expired_auth_token` | a retry uses another token; a token is of the configured account |
| Settings | `api/settings.py` | `partner_credentials`, `report_bucket` | update (two writes and an invalidation), test the connection | the new account takes over |
| Groups cache | `api/groups.py` | table `groups_cache` | serve, refresh by DELETE and INSERT | listing is not older than the TTL and not replaced by an older one |
| Provisioning | `api/members.py` | B2 group members; audit and vault rows | create one, create many from CSV, eject | a key issued once is kept; each row is answered |
| Vault | `services/vault.py`, `api/credentials.py` | encrypted keys | store, retrieve | the key of each new member can be retrieved |
| Local sessions | `api/auth.py`, `auth.py` | `refresh_tokens`, failed-login counter, lock | login, refresh (rotation), logout | counter counts each failure; a deactivated user is out |
| SSO | `api/oidc.py`, `services/oidc_client.py` | states, exchange codes, group mappings | authorize, callback, exchange, map groups to roles | each code is used once; one account a person |
| Users, roles | `api/users.py`, `services/user_manager.py`, `api/roles.py`, `rbac.py` | `users`, `roles`, `role_permissions` | create, import, change, deactivate | nobody hands out more than was held; each account has a role that exists |
| Audit log | `api/audit.py` | `audit_log` | list, export | one row per action |
| Aggregation | `services/report_aggregator.py` | none | rows on disk to series | equals its definition |
| Pricing | `api/pricing.py` | `group_pricing` | upsert, delete | - |
| Database, config | `database.py`, `config.py` | schema, `config` table | transactions, `get_config`, `set_config` | - |
| Web application | `main.py`, `limiter.py`, `schemas.py` | none | routing, validation | - |
| Browser | `static/js/*.js` | tokens in local storage | call, refresh on 401, log out | a session is lost for a cause only |

How they meet: the scheduler calls `fetch_date_range`, then `enforce_retention`;
the report routes call the same functions from request handlers, at the same
time. Both reach `fetch_report_file`, which calls the client's
`download_file_by_name`, which needs a token. Every client call takes the token
row; `update_settings` clears it. The aggregator and `/reports/available` read
what the store left.

What is hard here: suspension points between a check and its use (cache lookup
and download, credentials and token, SELECT and DELETE of a sweep); two stores
written one after the other (file and record, B2 and audit and vault); guards
that live in one process's memory while several processes run; relative sleeps
against wall-clock minutes; retries of what may have been done. `PROJECT.json`
lists each at its line with the properties that would catch it going wrong.

## The modules

| Module | Models | Instances | Proofs |
|---|---|---|---|
| `ReportStore` | report store and retention | `MCReportStore` | `ReportStoreProofs` |
| `ReportMirror` | what the store promises its readers (abstract) | - | `ReportStoreProofs` |
| `ReportFetch` | fetch cascade and ranges | `MCReportFetch` | `ReportFetchProofs` |
| `Scheduler` | scheduler of every worker | `MCScheduler` | `SchedulerProofs` |
| `TokenCache` | client authorization and settings | `MCTokenCache` | `CacheProofs` |
| `Provisioning` | members, their audit rows and keys, the vault | itself | `ProvisioningProofs` |
| `Sessions` | logins, lock, refresh tokens, the page that uses them | `MCSessions` | `SessionsProofs` |
| `Accounts` | users, roles, the account a sign-on finds | `MCAccounts` | `AccountsProofs` |
| `GroupMappings` | groups to roles, settings of the sign-on | `MCGroupMappings` | `AccountsProofs` |
| `GroupsCache` | the cached list of groups | `MCGroupsCache` | `CacheProofs` |
| `Aggregate` | rows on disk to totals | `MCAggregate` | `AggregateProofs` |

Everywhere, an action is what runs without a suspension point: a transaction, a
call of Backblaze with its answer, or a stretch of synchronous code. A variable
marked *history* is not in the program; it records what happened so that a
property can speak of it, and no guard depends on it unless it says so as a bound.
Operators marked *mutant* are ways the code could be wrong that a run would notice.

### ReportStore

A fetcher is a coroutine in `fetch_report_file`; its actions are the pieces
between suspension points: `Begin` (mkdir and the cache test), `Download`,
`OpenFile`/`Grow`/`FinishWrite` (`write_bytes`, in three because another worker or
a thread that sends the file can see it empty or in part, and a sweep of another
worker can unlink it in the middle), `Insert`. What the caller does with the path is one
of two things: it parses the file before it awaits again (`Return`), or it returns a
`FileResponse`, which opens and reads the file in threads after the handler has ended
(`Send`, `Sent`), while other coroutines of the worker run. A sweeper is a
coroutine in `enforce_retention`: `SweepSelect`, one `Unlink` per selected file,
`DeleteRows`, `RemoveDirs`. `Free(t)` says that nobody in the task's own worker
is inside synchronous code, which is a write, or the sweep between its first and
last unlink; `WorkerOf` places tasks. `disk[f]` is what is under
the file's path: nothing, an empty, partial or full file. `rows[f]` counts the
rows of a file, because SQLite's UNIQUE does not see two NULLs as equal: kinds
in `NullKeyed` (account level) are those rows. `Faults` chooses among crashes of
a worker, failing writes, failing inserts and failing unlinks (logged, and the row is
deleted all the same). A file unlinked while it is open
is written to no name (`"detached"`). Not in the model: the contents of files,
and the B2 call description returned beside the path.

`Shown` is what a reader can have: files inside the window that are on disk and
have a record. Mapped to the variable `shown` of `ReportMirror` (the bucket and
the date map to themselves), it makes the store an implementation of that module:
only a published report inside the window can appear, it stays while the day lasts,
and goes only when a new day moves the window. `MirrorSpec` is the property, and
`ImplementsMirror` its proof.

### ReportFetch

A run walks a range of dates (`Start`), or fetches one date whatever is there
(`StartOne`, for `POST /fetch/{date}`). Within a date, `todo` is what the code still
has to ask for; `Due` takes from it in the code's order: the three core files, then
group by group the locations index and, before the next group, that group's
files. The order of groups is that of the index's rows, so any. A call of
`fetch_report_file` is cut at its awaits and in its write: `Look`; `NotFound`,
`DownloadFails` or `Receive`; `Grow`, `Written` or `WriteFails`; `Inserted` or `InsertFails`;
and `Parse`, the caller's reading of what it was answered. `disk[d][f]` says how much
of a file there is. The `except` of `_fetch` turns every failure into `"error"` and
leaves on disk what was written: all of the file when the INSERT failed, a part
when `write_bytes` did. `spoilt` remembers those files. Runs of one worker do not step while
one writes or parses (`Free`); a run of another worker may parse an index in the
middle of a write, and gets any of its rows. `Abort` is every early end: an index
that cannot be parsed (the code does not catch it), a cancelled task, the end of the
process. The bucket is filled while runs go on, an index before what it names, with
the files of `Coming`. Records and retention are `ReportStore`'s: reports are fetched
inside the window.

### Scheduler

Time is in slots; a minute has `Slots`, a (short) day `Minutes`. The loop sleeps
a minute *from where it is*, so its phase drifts when it is late. `Due` is the
pair of guards: the configured minute, and `run_key` different from
`_last_scheduled_minute`. `lastRun` is per worker and lost in `Restart`. The
local clock is `now - offset`; `FallBack` and `SpringForward` move it. Each of
the six `Troubles` (late, failure, restart, forward, back, update) costs one of
`MaxTrouble`. A run takes at most `MaxRun` slots. A schedule is a minute of the day or
`Never`, which is `auto_fetch` off, or a `fetch_time` such as 24:00 that the pattern of
`ScheduleConfig` lets through and no clock shows.

### TokenCache

A call goes `lookup` → (`creds` → `authorize` → `store` → `reread`) →
`request`, each a transaction or a request of its own; `Retrying` calls are the
`..._with_retry` methods, `Plain` ones those without (`download_file_by_name`,
`eject_group_member`), `Testing` ones `test_connection`, which stores the token
it gets. An admin's update is two `set_config` and the invalidation, three
transactions. `TokenEnds` is Backblaze's side, `RowExpires` the 23 hours of a
row. The HTTP retries of `_request` on 408, 429 and 503 are inside one step. A token's
name is used again once nobody holds the token (`Unheld`), so a behaviour issues
tokens for ever: a cached row may always be followed by another.

### Provisioning

A request is one invocation of a route: a create, an import (`Import`, up to
`MaxRows` rows), an ejection or a read of a stored key. Its loop is `NextRow`,
then for each row the call of the Partner API, the audit row and the vault row.
Backblaze's side is `Effect`: an address is added once, and an ejected one cannot
be added again. What can come back from a call is an action each: `Carried`,
`Refused`, `Busy` (408, 429, 503: `_request` tries again up to `_MAX_RETRIES`
times), `Expired` (the token is renewed once a row, for creates only: ejections
go through no `..._with_retry`), and `LostAnswer`, a call that was carried out and
answered with a 408 or 503, or not at all. `WriteFails` stands for a locked
database and for a vault without its key. A short row of an import has `None` for
its region, whose `.strip()` raises outside the `try`: the whole request ends in a
500 and its results with it (`Short`). `Crash` ends one request, at any point. Backblaze's
answer to a create names the account and its key, so of the code's test before the vault
only `vault_enabled` is left. `struck` remembers the accounts a failure
fell on, `maker` the row that created an account. One address is one Backblaze
account, the group is left out, and so is the encryption of a key.

### Sessions

One local account and the tabs of one browser. A login reads the account (`LoginRead`),
verifies the password outside any transaction, and writes the failure or the success
in a second transaction, from the values it had read; its token goes into
localStorage or to another device. A tab that opens takes the token from localStorage
(`Open`), keeps it in memory (`page[t]`), and goes at any time (`Close`). A call of a
tab that is answered 401 refreshes with the tab's token: `RefreshRead` looks it up,
`RefreshWrite` revokes it and inserts its successor, `Adopt` stores the new one in the tab and
in localStorage and repeats the call. `app.js` logs out on any answer to a refresh
that is not ok: a refusal, the limiter's 429, or the 500 of a failed read or write
(`RefreshFails`); and so does `boot()` on an error of `/me` (`BootFails`), and a repeated
call that is refused again. Logging out empties localStorage, which is every tab's. What
the server has begun for calls of a tab that has gone it finishes (`"orphan"`). `LoseAnswer`
is an answer that never arrives. `EndToken` is logout or expiry, `RevokeAll` the
three routes that end all tokens of a user. `parent` gives each token the one it
replaced. `late` and `slipped` follow the requests that were under way during a
revocation, `raced` says that a login wrote while another had read, `lost` and
`shared` are the tokens whose successor nobody got, and those that two tabs or two calls
took up. The account is a local one; the tokens a sign-on issues are not here.

### Accounts

A request begins with its sender's permissions (`Begin`, with the refusals that
need no further read), checks the role it hands out in a second transaction
(`Check`), and writes in a third. An import checks each row in the transaction that
writes it, but a SELECT before a transaction's first write is not protected by it:
so an import too is checked in one step and writes in another, by the first row it
writes, and a row with a field too few rolls it back (`ImportFails`). `Commit` writes
only what UNIQUE(email) and the foreign key of `role_id` accept. A sign-on verifies
the mapped role, looks the account up, and writes it, in three transactions. `lent`
remembers, for a request whose role was rewritten after its check, what the one who
rewrote it last was allowed to put in. The password of an account is
`Sessions`' subject.

### GroupMappings

`create_mapping`, `update_mapping` and `save_oidc_config` read in one transaction and write
in another; a reorder sends the list its page showed. `Read`/`Write` pairs are those two
halves, and `overtaken` holds the requests whose reading some write has made stale. `told`
and `ahead` are the list as the administrators arranged it, without `sort_order`: what each
row was asked to say, field by field, and which row was put before which. `Picks(G)` is the
set of roles `oidc_callback` may give a user of groups `G`: rows of equal `sort_order` come
in either order, so more than one role can be in it. The runs follow a behaviour only until
an overtaken request writes (`NotRaced`), because nothing in the code promises anything
after that.

### GroupsCache

A request answers from the cache (`FromCache`) or lists the groups page by page
from a cursor and then replaces the rows in one transaction (`Write`). `Expired`
is the token that ends in the middle and starts the listing again, once. The
answer's `cached_at` is read after its rows in a transaction of its own (`Stamp`).
Groups come and go (`GroupChanges`), and `SwitchAccount` is a change of settings,
which leaves this cache alone: how the token follows is `TokenCache`'s subject,
and a page may be fetched for one account and the next for another. Ages are kept
instead of times; `TTL + 1` stands for any greater one. A page has one group.

### Aggregate

The walk over the dates is the state machine: a date without files is `Missing`,
the rows of another are read one by one in any order (a directory lists its files
as it likes). `snap` and `cum` are the two stores of the code, per key and date
and per key and period. A key is a bucket label, a group or an account, tagged with
its kind as the code keeps a dictionary for each. A row that the request's filter
does not want (by account, group, location or bucket) leaves the stores alone.
`SnapRead`, `StoredAt`, `TrafficAt` and the totals are computed from the stores as the
code does, period by period and then over the periods, and the buckets are those that
occur; the properties compare them with sums over `read`, every row with its date. One
value of a row stands for a metric of each kind.

## How they compose

The modules share no variables: each takes what is another's subject as atomic (a
scheduled run in `Scheduler`, records and sweeps in `ReportFetch`, a download in
`ReportStore`, all of `TokenCache` inside it), and lets the outer
one's whole behaviour appear as any task at any time. Failures of the lower
level are outcomes above: `"not_found"` and `"error"` of the store's fetch are
`NotFound`, `DownloadFails`, `WriteFails` and `InsertFails` of a run, an aborted run is
`RunFails` of the scheduler, a refused token is
`Expired` of a listing or of a create. In `Aggregate` the rows are any rows, so it
does not depend on what the store left. `Sessions` is the life of one account that
`Accounts` makes and deactivates; `GroupMappings` decides the role with which
`SsoRole` of `Accounts` begins. What is shared between all of them is the database
transaction as the unit of a step.

## The runs

Passing runs (each property has a mutant of the code in `PROJECT.json` that
breaks it):

| Run | Question | Properties |
|---|---|---|
| `store_faults` | Do file and record agree inside the window whatever fails, across workers, and is the store a mirror of the bucket? | `RecordedIsStored`, `HonestNotFound`, `MirrorSpec` |
| `store_one_worker` | Inside one event loop without failures, is a file parsed whole, sent whole unless another fetch is writing it then, and recorded, are expired records deleted, and does only an overlapping first download add a second row of a file? | `WindowRecorded`, `ServedWhole`, `SentWhole`, `ExpiredRecordsGo`, `DuplicatesBounded` |
| `fetch_range` | Is a date that came to nothing tried again, does a clean cascade leave a complete date, and does a run end? | `UnfetchedIsRetried`, `CleanMeansComplete`, `RunEnds` |
| `sched_lookback` | Does one mishap fire a minute twice or lose a date? | `TypeOK`, `OncePerMinute`, `NoDateLost` |
| `token_calls` | Does the retry use another token, and does the new account take over? | `RetryUsesNewToken`, `NewAccountSettles` |
| `provisioning` | Is "ok" ever said ahead of the rows it promises, and does a failure cost more than the row it falls on? | `SuccessIsRecorded`, `LossIsLocal`, `FailedMeansNotCreated`, `RequestsEnd` |
| `sessions` | Is the counter exact unless logins overlap, is an old token good for nothing, and is the browser signed out for a cause only? | `TypeOK`, `CounterExact`, `LockLiftedByStale`, `RotatedIsRefused`, `DeactivatedHasNoTokens`, `SignOutHasCause` |
| `accounts` | With requests of several administrators at once, does each account keep a role that exists, is only handed out what its sender, or whoever rewrote the role meanwhile, held, and does a sign-on leave local accounts alone? | `TypeOK`, `RolesExist`, `NoEscalation`, `SsoLeavesLocal` |
| `mappings` | Does a sign-on get the role of the first mapping as the list was arranged? | `MappingsTypeOK`, `FirstMatchWins`, `SecretKept` |
| `groups` | Is a listing that races with changes exact, is its stated age honest, and does the cache come to show the account's groups? | `ListingIsExact`, `StampNotOlder`, `Converges` |
| `aggregate` | Do totals agree with the rows, in whatever order they are read? | `TypeOK`, `TrafficConserved`, `StoredIsLastDay`, `TotalIsOfBuckets` |

One run, `store_orphan`, finds a disagreement (`ExpiredFilesGo`, see
[findings](#findings)). The type invariants that are not in this table are proved.

Some properties hold with a condition, and the condition is the interesting half:
`CounterExact` without an overlap of logins, `NoEscalation` but for what the one who rewrote
the role meanwhile held, `UnfetchedIsRetried` and `CleanMeansComplete` but for what a failed
write or INSERT left, `SentWhole` but while another fetch writes, `SecretKept` and
`FirstMatchWins` until a stale request writes, `DeactivatedHasNoTokens` but for requests
that were under way. Without it TLC finds a behaviour listed under [behaviours worth
knowing](#behaviours-worth-knowing).

## Bounds

- `Day = {0, 1}`, `Horizon = 2`, `Retention = 1`: one date leaves the window
  during the behaviour, one stays, and the cutoff passes over a date while
  sweeps and fetches of it are under way. Nothing in the store relates more than
  two dates. Two fetchers and one sweeper: the code's races are between pairs of
  tasks. That more of them change nothing is what the proofs show. `RowCap = 2`
  stands for two or more rows of a file, `3` where rows are counted.
- `fetch_range` has one group with one region on its first date and none on the
  second, so each step of the cascade happens; of the second only the account file is
  ever published, and it is fetched on its own too (`ByHand`). `MaxErrors = 1` failed
  download, write or INSERT: what one leaves is there for every later run; more of them are
  left to the proofs. Aborts are not bounded. `UnfetchedIsRetried` is about a lone
  run; concurrent runs of one worker are left to the proof of
  `CleanMeansComplete`, which holds for any number of them.
- `Slots = 2`, `Minutes = 3`, `Horizon = 29`: five short days, which is the
  look-back of two days and one more on each side of the mishap. A run takes up to
  `MaxRun = 3` slots, more than a minute. `MaxTrouble = 1`: `OncePerMinute` and
  `NoDateLost` are about a single mishap; two can break both (a restart after the
  clock was put back over the minute fires it again, and a failed run with a
  changed clock the day after loses a date), and nothing in the code claims
  otherwise.
- `token_calls`: a call that retries (a `Plain` one takes the same steps and ends at the
  refusal, so there is none), a test, `MaxUpdate = 2` updates between two accounts: away and
  back. `MaxToken = 4` names: the row, two in the hands of the call (the one it
  holds and the one it was refused) and one of the test; a name always comes
  free, so `Authorize` is never kept waiting for one.
- `provisioning`: two requests over two addresses, imports of up to `MaxRows = 2`
  rows (blank and short ones among them), `MaxRetries = 2` where the code has 3 (one
  retry is enough to repeat a create that was carried out), every kind of fault.
- `sessions`: two logins and two calls, `Threshold = 2` where the code has 5, so
  that a lock is reached, missed by an overlap and lifted within `MaxFails = 3`
  failures; `LockTime = 1` and `Horizon = 2`, so that a lock also runs out; two tabs,
  `MaxErrors = 1` answer that is an error; `MaxToken = 2`: two generations of a token, or
  one token each of two logins. Longer lines of tokens are left to the proofs, which bound
  neither tokens nor tabs.
- `accounts`: two requests, two addresses, two roles of which one can be created,
  rewritten and deleted, two permissions (those the routes ask for), `MaxUsers = 2`. The one
  built-in role, `admin`, has every permission.
- `mappings`: two administrators, two groups, two roles, `MaxMade = 3` mappings.
- `groups`: two requests, groups 1 and 2 of one account and 3 of another, so that a
  listing can begin in one account and end in the other; `TTL = 1`, and
  `MaxChanges = 3` changes and failures together.
- `aggregate`: three dates in one period or two, up to two rows a date of the five kinds in
  `MCAggregate`, five filters: none, and one for each field. Two rows a date are what labels
  collide on; three dates give a period with two days and a period after it.

Requests, addresses, administrators, groups, roles and secrets are symmetric where only
safety is checked. Deadlock is checked everywhere but in `sched_lookback` (time
ends at `Horizon`), `provisioning` (every request has ended) and `aggregate` (the
walk is over).

## Fairness

- `ReportStore!FairSpec`: strong fairness of each fetcher and sweeper. A
  coroutine's step is disabled from time to time by synchronous code of its
  worker (`Free`), which always ends; asyncio runs ready callbacks in the order
  they became ready, so a coroutine that is ready again and again gets its turn.
  That a sweep *starts* again and again is the scheduler's daily one.
- `ReportFetch!FairSpec`: strong fairness of a run's steps, for the reason given for
  the store's (`Free` again). Nothing is assumed of the bucket or of failures.
- `TokenCache!TokenFairSpec`: weak fairness of calls and updates, and of
  `RowExpires`: 23 hours pass. Nothing makes Backblaze end a token, and an
  update may stop half-way.
- `Provisioning!FairSpec`: weak fairness of a request's steps: calls have a
  timeout, transactions commit or raise. Which answer comes is not assumed, so
  `RequestsEnd` rests on the bound of the retries.
- `GroupsCache!FairSpec`: weak fairness of a request's steps and of time, and
  strong fairness of `Refresh`: somebody opens the list again and again when it is
  not fresh. That is an assumption about use, and `Converges` needs it: a cache
  nobody asks for stays as it is.
- `Scheduler` has no fairness: lateness is explicit (`"late"`), so its
  properties are safety properties with the time in them. `Sessions`, `Accounts`,
  `GroupMappings` and `Aggregate` have none either.

## The proofs

Each theorem holds for every value of the constants that the module's named assumption
allows: any number of tasks, requests, dates, accounts, any choice of faults; what a theorem
assumes beyond that is said with it. Few of the invariants are inductive as they stand;
`IInv` of each proof module (`TokenInv` for the token) is the strengthening. Every invariant
and every action property of a passing run is stated by a theorem.

**`ReportStoreProofs`.** That a record has a file depends on where every task is.
`CutoffOK`: a sweep's cutoff is not beyond the current window (midnight only moves the
window forward). `SelectedOK`: what it still has to unlink is older than its cutoff.
`StoredInDir`, `DirWaits`: a file's directory exists, and a directory made inside the window
is there when the file is opened: the `rmdir` of a sweep meets only expired ones.
`WriterOK`: between the write and the insert the file is on disk, or has been unlinked as
expired. From it follow `TypeCorrect`, `RecordHasFile`, `NotFoundIsHonest`,
`RetentionKeepsWindow`. `ImplementsMirror` maps each step to one of `ReportMirror` or a
stutter; it needs `Published` (a fetch that has its answer got it from the bucket).
`StoredIsRecorded` assumes that there are no faults, and adds `RecordComes`: a stored file
has its row, or a fetch is about to write it. The last two assume no faults and one worker
(`OneSoundWorker`), which is when nobody runs between the opening and the end of a write,
but the threads that send files. `AnswerIsWhole` and `DownloadIsWhole`: a file that is not
whole is open in a fetch that holds the worker (`PartIsOpen`), and what a fetch has answered
with lies on disk while it is used (`AnswerStays`). So a caller that parses in the stretch
of the answer reads it whole, and one that sends it finds it whole but while another fetch
writes. `DuplicatesAreBounded`: the rows of a file and the fetches that will still add one
are together no more than the fetches there are (`RowsLeft`); when a fetch has written the
file, no other begins to download it.

**`ReportFetchProofs`.** `HeldIsNamed`: only files an index of the date names are held.
`CleanIsComplete` assumes that all runs are in one worker: then a file that is not whole is
being written or was spoilt (`Unfinished`), so an index is parsed whole, and what a run has
asked for, with what it still has to ask for, contains the core files, and with each index
that came, what that index names (`Cascaded`). When nothing is left and all came, the date
is complete, however many runs work on it. `LoneRunRetries` assumes one run at a time, for
any faults (`Lone`): a deeper file that is there or to come was named by a groups index that
is there (`IndexFirst`), so a run that finds something of a date finds a file that it counts
as an answer or that a failure has spoilt (`ThereIsAnswer`, `OnlyMissing`), and reports the
dates in order (`InOrder`).

**`SchedulerProofs`.** Three arguments, over the type invariant (`SchedulerTypeCorrect`).
`FiresOnce` takes any number of mishaps, but no clock put back. `Guarded`: a minute in
which the worker has fired is the one `_last_scheduled_minute` remembers or is `Past`,
over by the time the worker looks at the clock again. A restart forgets the
minute, and is harmless because the loop sleeps before its first look.
`OneMishapFiresOnce` takes one mishap of any kind. `Calm`: while nothing has gone
wrong, every minute fired in but the last is over with a whole minute to spare. `Remembers`:
afterwards, the guard still holds the one minute that can come back.
`OneMishapLosesNoDate` takes one mishap, `Lookback >= 2`, and runs no longer than a day less a
minute (`OneMishap`; without the last a run alone steps over the next day's
minute). `Served` relates a worker's sleep to the calendar: every scheduled minute before
its next look was followed by a run `Through` its dates, but for one day `j`, and
`j` is no day until something has gone wrong (`DatesInv`). A date is in the range of two
days, of which `j` is one. The steps differ in how they choose `j`: a late
wake-up steps over one minute (`WakeIdleServed`), a failed run gives up its own day, a clock put
forward skips at most one minute, and a change of the schedule moves the minute of every day,
but only that of one day across the worker's next look.

**`CacheProofs`.** First the token. `RetryIsFresh`: each token is issued to one call, which
stores it once, before anybody else can have seen it (`StoreIsNew`), so a token that was
refused is not about to be stored; and once invalidated it stays out (`RefusedIsGone`). Then
the groups. `PagesOK`: before the cursor, what was there all through the listing is listed.
`WatchOK`: what is listed was seen, and what was there all through is there now.
`ListingsAreExact` is about any number of groups, pages and accounts. `StampOK`: a request
between its two transactions has rows of no later a listing than the one whose stamp it will
read (`StampsAreNotOlder`).

**`ProvisioningProofs`.** `Position` ties a request's place to its row;
`Promises` is what each kind of result stands for; `Made` and `Gone` say of each
account that exists, or was ejected, who is answerable for it: a result, a request
still at work, or a failure. `OkIsRecorded`, `KeysAreAudited`, `FailuresStayLocal`
and `FailuresAreHonest` follow. Attempts of the retry loops stay in their bound
(`ProvisioningTypeCorrect`).

**`SessionsProofs`.** `LiveNotRotated`: a token that has a successor is not valid.
`Slipping`: what is valid while the account is not active belongs to a request that
was under way. `Counting`: without overlap, the counter is the history's, and a
login that has read has read it. `ReadUnlocked`: a login has read an account that
was not locked. They give `RotationHolds`, `DeactivatedCannotReturn`,
`CounterIsExact` and `LockHolds`. `SignOutIsCaused` follows a token through localStorage, the
tabs and their calls. `Accounted`: a token was not replaced, or its successor reached nobody,
or it was shared. `BrowserTraced` and `Traced`: what localStorage or a tab holds is accounted
for or is just being replaced, and what a call is about to refresh with is accounted for.
`Meets` and `TabsMeet`: what two of them hold is shared. `Fresh`: the token a rotation
has just given out is nobody else's yet. `SessionsTypeCorrect`
adds the bounds of the counters.

**`AccountsProofs`.** `AcctOK` is what UNIQUE and the foreign key keep, `PermOK`
that built-in roles stay, `LocOK` what a request has established where it is,
`CheckedOK` that the role it has checked is still within its sender's permissions and
those of whoever rewrote it since (`lent`), and that who writes a role holds what he puts in
it. Theorems: `RolesAlwaysExist`, `NobodyEscalates`, `LocalAccountsStay`,
`AccountsTypeCorrect`.

The second part of the module is about `GroupMappings`, which decides the role of a
sign-on.
`AsTold`: the table says what the history says, in the same order, and no two rows tie.
`UpToDate`: a request that was not overtaken still goes by the table as it is: the
number a creation holds is above all, the ids a reorder holds are all there are, the field
an edit writes back unasked is what it was told. `Room` bounds creations under way.
`TheFirstMatchWins` needs that among any rows one is first by both orders
(`FirstIsOne`); `BlankKeepsSecret` follows from `BlankIsStored`; `MappingsTypeCorrect` also
bounds `sort_order`.

**`AggregateProofs`.** The library defines the sum of a function over a set by a fold
that takes elements in an order of its own choice, and its recursion is a `CHOOSE`. That
the chosen partial sums exist (`PartialExists`) is shown size by size (`LevelStep`), and
the laws of a sum follow: it does not matter which element is taken (`SumTakeAll`,
`SumAdd`), which values agree (`SumAgree`), one of which grows (`SumRaise`), or whether a
set is summed in parts (`SumOfParts`). The inductions are over a set (`NatSet`,
`SubsetInduction`), because an induction over a formula cannot be instantiated. On this
stand the invariants of the walk: `CumOK`, a cumulative value is the sum of the
counted rows of its key and period; `SnapOK`, the same by day for groups and accounts;
`LastOK`, the snapshot of a bucket is the value of its last row of the day. Then
`TrafficIsConserved` sums the parts by period and by bucket, `StoredIsOfLastDay` needs
that the greatest date with data exists (`MaxIs`), and `TotalOfBuckets` joins both where
labels differ. All of it holds for any range, rows, grouping and filter.

**The safety half of liveness.** What a fair execution reaches in the end is outside the
prover; what it needs on the way is not. `EveryStepIsOneLess` (`ProvisioningProofs`): each
step of a request lessens `Work`, four natural numbers in lexicographic order (rows left,
place in the row, renewal of the token, calls left), and no step of another request adds to
it; so `RequestsEnd` rests only on fairness and on a step being possible. `RunsGoOnward`
(`ReportFetchProofs`): each step of a run ends it, goes to a later date, or tries a file the
indexes name that it has not tried (`InTurn`), so `RunEnds` does too, and no file is asked
for twice on a date. `AccountStaysSettled` and `CacheStaysUpToDate` (`CacheProofs`): the
states that `NewAccountSettles` and `Converges` promise (`Settled`, `UpToDate`) are not left
again while the settings, or the groups and the account, do not change.

Only model-checked: the five liveness properties (`ExpiredRecordsGo`, `RunEnds`,
`NewAccountSettles`, `RequestsEnd`, `Converges`). They rest on fairness, hence on when
an action is enabled, which TLAPS does not handle.

## Findings

`store_orphan`: a file stored between a sweep's SELECT and its DELETE loses its
row and is never deleted; so does one whose insert fails. The docstring of
`enforce_retention` (`report_scheduler.py:143`) says that local report files and
records older than `retention_days` are deleted. `RecordHasFile` and
`ImplementsMirror` show that this is about expired files only: never a report
inside the window that is lost or denied.

## Behaviours worth knowing

The models reach these. Where a property bounds the effect, it is named, and where a
comment of the source says otherwise, it is quoted.

- Two first downloads of an account-level file leave two `report_cache` rows in
  spite of UNIQUE: its key holds NULLs. At most one row for each overlapping
  download (`DuplicatesBounded`).
- A download is sent from threads after its handler has ended, so an overlapping first
  download of the same file, also in the same worker, truncates the file while it is being
  sent (`SentWhole`: only then).
- `has_data` tests the index's bare name, files are stored under their whole path
  with `/` as `_`: a date that holds only the groups index is taken for cached,
  and the aggregator reads that index as rows without metrics.
- A date reported as `"error"` may hold a file: a failed INSERT leaves it whole, a failed
  write leaves a part, and the next run takes the date for cached
  (`UnfetchedIsRetried`: only such files).
- A run of one worker may parse an index that a run of another is writing, and then
  asks for some of the files it names only, each of which may come (`CleanIsComplete` is
  about one worker).
- The guard against firing twice in a minute is per process: with two workers
  both fire. Each worker fires once (`OncePerMinute`).
- The relative sleep drifts and can step over the configured minute of a day. The
  look-back makes up for one such day (`NoDateLost`).
- A `fetch_time` such as 24:00 is accepted, and nothing fires until it is changed (`Never`).
- A call that has authorized reads the token back in another transaction and finds
  none if another call's retry cleared it.
- `update_settings` invalidates "so next request re-authorizes with new credentials"
  (`settings.py:54`). A call that read the old credentials may store its token after that:
  requests act for the old account until the row expires, or another invalidation
  (`NewAccountSettles`: not for ever), and the groups of the old account are listed
  until the cache expires (`Converges`).
- A fetch of an *expired* date whose directory is removed during the download
  reports "not found" of a published report (`HonestNotFound`: only then).
- A row of an import whose member was created and whose audit or vault write failed
  is reported as failed, and trying it again is refused; the key is lost
  (`LossIsLocal`: only the rows a failure fell on). A short row loses the results
  of the whole import.
- Two overlapping wrong logins count once, and one that read the account before a
  lock was set lifts the lock when it fails (`CounterExact`, `LockLiftedByStale`).
- A login or refresh that was under way when its account was deactivated leaves it a
  valid refresh token, which works if the account is activated again
  (`DeactivatedHasNoTokens`).
- Two calls of a tab, or two tabs, that refresh at once can sign the browser out, and so can
  a 429 or a 500 while the token is valid. localStorage is every tab's: the other
  tabs are signed out when they reload (`SignOutHasCause` lists the causes).
- "Privilege escalation guard: cannot grant permissions you don't hold" (`users.py:135`):
  the guard reads the role in a transaction before that of the write. A role rewritten in
  between is handed out with what it has become (`NoEscalation`: within what its rewriter
  held).
- `update_user` lets an administrator deactivate himself, which `delete_user`
  refuses, and two administrators may deactivate each other: nobody is left to administer.
- Two administrators' edits of the same mapping, or two creations at once, undo or
  tie with each other (`FirstMatchWins` holds until then).
- Buckets of one label on one day, such as buckets of the same name in two accounts,
  overwrite each other's stored value (`TotalIsOfBuckets`, with `LabelsDiffer`).

## Not modelled

- A change of `retention_days` or `lookback_days` during a behaviour, and
  `report_schedule_status`, the last result the settings page shows.
- Parsing and layout: `parse_csv_file`, `schemas.py`, routes that only read
  (`audit.py`, `/reports/available`, `get_group`, `list_members`), labels, units and
  order of the aggregated answer, and rendering in the browser.
- `pricing.py`: each price is upserted or deleted in one transaction.
- Encryption, password hashing, JWT, and the exchange with an identity provider
  (`oidc_client.py`): third-party functions and network formats. The one-time states
  and codes of a sign-on, whose SELECT and DELETE are two statements: what follows
  from using one twice is two sign-ons of one address at once, which `Accounts` has.
- The rate limiter's counting. That it may answer a refresh with a 429, which signs the
  browser out, is in `Sessions` (`RefreshFails`); any other route it refuses has not begun.
- Schema migrations (`init_db`): they run before anything else.
- Audit rows of logins and of changes of users: a transaction of their own after the
  change, as in `Provisioning`.

## Plan

In the order in which they matter:

1. The states and one-time codes of a sign-on as a module, composed with
   `Accounts`.
2. `lookback_days` and `retention_days` as variables of `Scheduler` and
   `ReportStore`.
3. `Scheduler` above `ReportFetch`: the promise that each date is attempted, as an
   abstract specification that both implement.
4. The liveness properties proved from the theorems about their safety half, once the
   prover can reason about `ENABLED`.

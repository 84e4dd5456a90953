---------------------------- MODULE ReportStore ----------------------------
(***************************************************************************)
(* The local store of usage reports: date directories of CSV files beside  *)
(* the report_cache table.  Fetching tasks fill it (fetch_report_file in   *)
(* services/report_parser.py), retention sweeps empty it                   *)
(* (enforce_retention in services/report_scheduler.py).  A file and its    *)
(* record are two separate writes, and so are their removals.              *)
(*                                                                         *)
(* A task is a coroutine of one worker process.  What it does between two  *)
(* awaits runs alone in its worker, but not alone on the machine: another  *)
(* worker shares the directory and the database.                           *)
(***************************************************************************)
EXTENDS Integers, FiniteSets

CONSTANTS
  Fetcher,      \* tasks that fetch report files
  Sweeper,      \* tasks that enforce retention
  Worker,       \* worker processes
  WorkerOf,     \* the worker each task runs in
  Day,          \* report dates that may be asked for
  Horizon,      \* bound: the last value of today
  Retention,    \* retention_days
  Kind,         \* file_type with its group and location
  NullKeyed,    \* the kinds whose row has a NULL group_id or location
  RowCap,       \* bound: RowCap rows stand for that many or more
  Faults        \* the failures a run allows: "crash", "write", "insert", "unlink"

Task == Fetcher \cup Sweeper

ASSUME StoreAssumption ==
  /\ Fetcher \cap Sweeper = {}
  /\ WorkerOf \in [Task -> Worker]
  /\ Day \subseteq Nat /\ Day # {}
  /\ Horizon \in Nat
  /\ Retention \in Nat
  /\ Kind # {} /\ NullKeyed \subseteq Kind
  /\ RowCap \in Nat \ {0}
  /\ Faults \subseteq {"crash", "write", "insert", "unlink"}

VARIABLES
  bucket,    \* the report files published in the B2 report bucket
  today,     \* the current date
  dirs,      \* the date directories under reports_dir
  disk,      \* what is on disk under each file's local_path
  rows,      \* how many report_cache rows each file has
  pc,        \* per fetcher: where it is in fetch_report_file
  file,      \* per fetcher: the file it was asked for
  swPc,      \* per sweeper: where it is in enforce_retention
  cutoff,    \* per sweeper: the first date it keeps
  selected   \* per sweeper: the files of its SELECT not yet unlinked

vars == <<bucket, today, dirs, disk, rows, pc, file, swPc, cutoff, selected>>
store == <<dirs, disk, rows>>
fetchers == <<pc, file>>
sweepers == <<swPc, cutoff, selected>>

File == Day \X Kind
DateOf(f) == f[1]
AnyFile == CHOOSE f \in File : TRUE

Outcome == {"ok", "not_found", "error"}
WritePc == {"writing", "detached"}
Active  == {"download", "write", "insert"} \cup WritePc

(* Between open() and close() in write_bytes, and between the first and    *)
(* the last unlink, a task does not await: no other task of its worker     *)
(* runs, although the threads that send files do.                          *)
Sync(t) == \/ t \in Fetcher /\ pc[t] \in WritePc
           \/ t \in Sweeper /\ swPc[t] = "unlinking" /\ selected[t] # {}

FreeThreaded(t) == TRUE        \* mutant: the write moved to a thread

Free(t) == \A u \in Task \ {t} : WorkerOf[u] = WorkerOf[t] => ~Sync(u)

Kept(f) == DateOf(f) >= today - Retention

Init ==
  /\ bucket = {}
  /\ today = 0
  /\ dirs = {}
  /\ disk = [f \in File |-> "none"]
  /\ rows = [f \in File |-> 0]
  /\ pc = [p \in Fetcher |-> "idle"]
  /\ file = [p \in Fetcher |-> AnyFile]
  /\ swPc = [s \in Sweeper |-> "idle"]
  /\ cutoff = [s \in Sweeper |-> 0]
  /\ selected = [s \in Sweeper |-> {}]

-----------------------------------------------------------------------------
(* fetch_report_file *)

Goto(p, where) == pc' = [pc EXCEPT ![p] = where]

CachedNever(f) == FALSE          \* mutant: every fetch downloads
Cached(f) == disk[f] \in {"partial", "full"}    \* exists() and st_size > 0

(* mkdir, then the cache check. *)
Begin(p, f) ==
  /\ pc[p] = "idle" /\ Free(p)
  /\ file' = [file EXCEPT ![p] = f]
  /\ dirs' = dirs \cup {DateOf(f)}
  /\ Goto(p, IF Cached(f) THEN "ok" ELSE "download")
  /\ UNCHANGED <<bucket, today, disk, rows, sweepers>>

(* The answer of download_file_by_name: the data, a 404, or any other error. *)
Download(p) ==
  /\ pc[p] = "download" /\ Free(p)
  /\ \/ file[p] \in bucket /\ Goto(p, "write")
     \/ file[p] \notin bucket /\ Goto(p, "not_found")
     \/ Goto(p, "error")
  /\ UNCHANGED <<bucket, today, store, file, sweepers>>

(* write_bytes opens the file, which truncates it; without its directory   *)
(* open() raises FileNotFoundError, which callers report as not found.     *)
OpenFile(p) ==
  /\ pc[p] = "write" /\ Free(p)
  /\ IF DateOf(file[p]) \in dirs
     THEN disk' = [disk EXCEPT ![file[p]] = "empty"] /\ Goto(p, "writing")
     ELSE Goto(p, "not_found") /\ UNCHANGED disk
  /\ UNCHANGED <<bucket, today, dirs, rows, file, sweepers>>

(* A file grows as it is written: others may see a part of it. *)
Grow(p) ==
  /\ pc[p] = "writing" /\ disk[file[p]] = "empty"
  /\ disk' = [disk EXCEPT ![file[p]] = "partial"]
  /\ UNCHANGED <<bucket, today, dirs, rows, fetchers, sweepers>>

(* The bytes reach the file, unless it was unlinked since it was opened. *)
FinishWrite(p) ==
  /\ pc[p] \in WritePc
  /\ disk' = IF pc[p] = "writing" THEN [disk EXCEPT ![file[p]] = "full"] ELSE disk
  /\ Goto(p, "insert")
  /\ UNCHANGED <<bucket, today, dirs, rows, file, sweepers>>

(* The write raises (the disk is full): what was written stays. *)
WriteFails(p) ==
  /\ "write" \in Faults
  /\ pc[p] \in WritePc
  /\ \/ pc[p] = "writing" /\ disk' = [disk EXCEPT ![file[p]] = "partial"]
     \/ UNCHANGED disk
  /\ Goto(p, "error")
  /\ UNCHANGED <<bucket, today, dirs, rows, file, sweepers>>

(* INSERT ... ON CONFLICT DO UPDATE: SQLite takes two NULLs for distinct, *)
(* so the conflict never arises for a row with a NULL in its key.         *)

RowsAfter(f) ==
  IF f[2] \in NullKeyed /\ rows[f] > 0
  THEN IF rows[f] < RowCap THEN rows[f] + 1 ELSE rows[f]
  ELSE 1

Insert(p) ==
  /\ pc[p] = "insert" /\ Free(p)
  /\ rows' = [rows EXCEPT ![file[p]] = RowsAfter(file[p])]
  /\ Goto(p, "ok")
  /\ UNCHANGED <<bucket, today, dirs, disk, file, sweepers>>

(* The transaction is rolled back (database is locked). *)
InsertFails(p) ==
  /\ "insert" \in Faults
  /\ pc[p] = "insert" /\ Free(p)
  /\ Goto(p, "error")
  /\ UNCHANGED <<bucket, today, store, file, sweepers>>

(* The caller parses the file it was given before it awaits again, or      *)
(* reports the failure.                                                    *)
Return(p) ==
  /\ pc[p] \in Outcome /\ Free(p)
  /\ Goto(p, "idle")
  /\ UNCHANGED <<bucket, today, store, file, sweepers>>

(* A download route returns a FileResponse: the file is opened and read in *)
(* threads, at any time until the response ends, while other tasks run.    *)
Send(p) ==
  /\ pc[p] = "ok" /\ Free(p)
  /\ Goto(p, "sending")
  /\ UNCHANGED <<bucket, today, store, file, sweepers>>

Sent(p) ==
  /\ pc[p] = "sending" /\ Free(p)
  /\ Goto(p, "idle")
  /\ UNCHANGED <<bucket, today, store, file, sweepers>>

-----------------------------------------------------------------------------
(* enforce_retention *)

SwGoto(s, where) == swPc' = [swPc EXCEPT ![s] = where]

(* Dates are ISO strings, so < on them is < on days. *)
OlderInclusive(d, c) == d <= c               \* mutant: <= for <
Older(d, c) == d < c

SweepSelect(s) ==
  /\ swPc[s] = "idle" /\ Free(s)
  /\ Retention > 0
  /\ cutoff' = [cutoff EXCEPT ![s] = today - Retention]
  /\ selected' = [selected EXCEPT ![s] = {f \in File : rows[f] > 0 /\ Older(DateOf(f), today - Retention)}]
  /\ SwGoto(s, "selected")
  /\ UNCHANGED <<bucket, today, store, fetchers>>

(* One unlink.  A file another worker is writing keeps no name.  A failure *)
(* is logged, and the row goes all the same.                               *)
Unlink(s, f) ==
  /\ swPc[s] \in {"selected", "unlinking"} /\ Free(s)
  /\ f \in selected[s]
  /\ \/ /\ disk' = [disk EXCEPT ![f] = "none"]
        /\ pc' = [p \in Fetcher |->
                    IF pc[p] = "writing" /\ file[p] = f THEN "detached" ELSE pc[p]]
     \/ "unlink" \in Faults /\ UNCHANGED <<disk, pc>>
  /\ selected' = [selected EXCEPT ![s] = @ \ {f}]
  /\ SwGoto(s, "unlinking")
  /\ UNCHANGED <<bucket, today, dirs, rows, file, cutoff>>

PurgedInclusive(f, s) == DateOf(f) <= cutoff[s]      \* mutant
PurgedLate(f, s) == DateOf(f) < cutoff[s] - 1        \* mutant
Purged(f, s) == DateOf(f) < cutoff[s]

(* DELETE and commit: by date again, not by the rows selected. *)
DeleteRows(s) ==
  /\ swPc[s] \in {"selected", "unlinking"} /\ Free(s)
  /\ selected[s] = {}
  /\ rows' = [f \in File |-> IF Purged(f, s) THEN 0 ELSE rows[f]]
  /\ SwGoto(s, "rmdir")
  /\ UNCHANGED <<bucket, today, dirs, disk, fetchers, cutoff, selected>>

EmptyDir(d) == \A f \in File : DateOf(f) = d => disk[f] = "none"

OldDirInclusive(d, s) == d <= cutoff[s]              \* mutant
OldDir(d, s) == d < cutoff[s]

RemoveDirs(s) ==
  /\ swPc[s] = "rmdir" /\ Free(s)
  /\ dirs' = {d \in dirs : ~(OldDir(d, s) /\ EmptyDir(d))}
  /\ SwGoto(s, "idle")
  /\ UNCHANGED <<bucket, today, disk, rows, fetchers, cutoff, selected>>

-----------------------------------------------------------------------------
(* The environment *)

(* A worker process dies: its tasks are gone, what they wrote stays. *)
Crash(w) ==
  /\ "crash" \in Faults
  /\ \E D \in SUBSET {file[p] : p \in {q \in Fetcher :
                                  WorkerOf[q] = w /\ pc[q] = "writing"}} :
       disk' = [f \in File |-> IF f \in D THEN "partial" ELSE disk[f]]
  /\ pc' = [p \in Fetcher |-> IF WorkerOf[p] = w THEN "idle" ELSE pc[p]]
  /\ swPc' = [s \in Sweeper |-> IF WorkerOf[s] = w THEN "idle" ELSE swPc[s]]
  /\ selected' = [s \in Sweeper |-> IF WorkerOf[s] = w THEN {} ELSE selected[s]]
  /\ UNCHANGED <<bucket, today, dirs, rows, file, cutoff>>

(* Backblaze publishes a report. *)
Publish(f) ==
  /\ f \notin bucket
  /\ bucket' = bucket \cup {f}
  /\ UNCHANGED <<today, store, fetchers, sweepers>>

Tick ==
  /\ today < Horizon
  /\ today' = today + 1
  /\ UNCHANGED <<bucket, store, fetchers, sweepers>>

FetchStep(p) ==
  \/ Download(p) \/ OpenFile(p) \/ Grow(p) \/ FinishWrite(p) \/ WriteFails(p)
  \/ Insert(p) \/ InsertFails(p) \/ Return(p) \/ Send(p) \/ Sent(p)

SweepStep(s) ==
  \/ SweepSelect(s)
  \/ \E f \in File : Unlink(s, f)
  \/ DeleteRows(s)
  \/ RemoveDirs(s)

Next ==
  \/ \E p \in Fetcher : FetchStep(p) \/ \E f \in File : Begin(p, f)
  \/ \E s \in Sweeper : SweepStep(s)
  \/ \E w \in Worker : Crash(w)
  \/ \E f \in File : Publish(f)
  \/ Tick

Spec == Init /\ [][Next]_vars

(* The event loop runs its ready callbacks in order, so a coroutine that is *)
(* ready again and again gets its turn; the scheduler sweeps every day.     *)
Fairness ==
  /\ \A p \in Fetcher : SF_vars(FetchStep(p))
  /\ \A s \in Sweeper : SF_vars(SweepStep(s))

FairSpec == Spec /\ Fairness
-----------------------------------------------------------------------------
(* Properties *)

TypeOK ==
  /\ bucket \subseteq File
  /\ today \in 0..Horizon
  /\ dirs \subseteq Day
  /\ disk \in [File -> {"none", "empty", "partial", "full"}]
  /\ rows \in [File -> 0..RowCap]
  /\ pc \in [Fetcher -> {"idle", "sending"} \cup Active \cup Outcome]
  /\ file \in [Fetcher -> File]
  /\ swPc \in [Sweeper -> {"idle", "selected", "unlinking", "rmdir"}]
  /\ cutoff \in [Sweeper -> Int]
  /\ selected \in [Sweeper -> SUBSET File]

(* A report inside the retention window that has a record has a file:      *)
(* whatever crashes or fails between the two writes, and however a sweep   *)
(* meets a fetch, /reports/available lists nothing that is not on disk.    *)
RecordedIsStored ==
  \A f \in File : rows[f] > 0 /\ Kept(f) => disk[f] # "none"

(* Conversely, when nothing fails, a file inside the window that no fetch  *)
(* is handling has its record, by which retention will find it.            *)
WindowRecorded ==
  \A f \in File :
    /\ Kept(f) /\ disk[f] # "none"
    /\ \A p \in Fetcher : file[p] = f => pc[p] \notin Active
    => rows[f] > 0

(* A fetch inside the window reports "not found" only if the report was    *)
(* not published: no concurrent sweep takes the directory from under it.   *)
HonestNotFound ==
  [][\A p \in Fetcher :
       pc[p] # "not_found" /\ pc'[p] = "not_found" /\ Kept(file[p])
         => file[p] \notin bucket]_vars

(* No step takes a file or a record of a date inside the window away. *)
WindowKept ==
  [][\A f \in File : Kept(f) =>
       /\ disk[f] # "none" => disk'[f] # "none"
       /\ rows[f] > 0 => rows'[f] > 0]_vars

(* With one worker and no failure, whoever parses the file of a fetch      *)
(* inside the window, in the stretch that returned its path, reads it      *)
(* whole, also when other fetches of it are under way.                     *)
ServedWhole ==
  [][\A p \in Fetcher :
       pc[p] = "ok" /\ pc'[p] = "idle" /\ Kept(file[p])
         => disk[file[p]] = "full"]_vars

(* A download is sent while others run: at every moment of it the file is  *)
(* there and whole, unless another fetch is writing the same file then.    *)
SentWhole ==
  \A p \in Fetcher : pc[p] = "sending" /\ Kept(file[p]) =>
    \/ disk[file[p]] = "full"
    \/ \E q \in Fetcher \ {p} : file[q] = file[p] /\ pc[q] = "writing"

(* The record of an expired report is deleted in the end. *)
ExpiredRecordsGo ==
  \A f \in File : (rows[f] > 0 /\ ~Kept(f)) ~> rows[f] = 0

(* UNIQUE(report_date, file_type, group_id, location) does not hold for a  *)
(* kind with a NULL in its key; still, without failures, only fetches that *)
(* overlapped add rows: repeated ones inside the window do not.            *)
DuplicatesBounded == \A f \in File : Kept(f) => rows[f] <= Cardinality(Fetcher)

(* The store implements ReportMirror: what is shown there is what has both *)
(* a record and a file here.                                               *)
Shown == {f \in File : rows[f] > 0 /\ disk[f] # "none" /\ Kept(f)}

Mirror == INSTANCE ReportMirror WITH shown <- Shown

MirrorSpec == Mirror!Spec

(* What the code is said to do, and does not always do. *)

(* "Delete local report files and DB records older than retention_days",   *)
(* report_scheduler.py:143: an expired file is deleted in the end.         *)
ExpiredFilesGo ==
  \A f \in File : (disk[f] # "none" /\ ~Kept(f)) ~> disk[f] = "none"
=============================================================================

---------------------------- MODULE ReportFetch ----------------------------
(***************************************************************************)
(* fetch_date_range and fetch_date (services/report_scheduler.py): runs    *)
(* that walk a range of dates, skip the dates that already have data, and  *)
(* cascade through the files of the others: the account and audit files,   *)
(* the groups index, then per group its locations index and per location   *)
(* its usage and audit files.                                              *)
(*                                                                         *)
(* A call of fetch_report_file is cut where it awaits or another worker    *)
(* may come in between; a file is its fill state.  Records and retention   *)
(* are ReportStore's.                                                      *)
(***************************************************************************)
EXTENDS Integers, FiniteSets

CONSTANTS
  Run,          \* concurrent runs: the scheduler's and the requests'
  Worker,       \* worker processes
  WorkerOf,     \* per run: the worker it runs in
  Day,          \* report dates, an interval of numbers
  Group, Region,
  GroupsIn,     \* per date: the groups its usage.groups.csv lists
  RegionsIn,    \* per date and group: what its reportingLocations.csv lists
  Coming,       \* per date: the files that are ever published
  ByHand,       \* the dates that are fetched on their own too
  Faults,       \* of "write", "insert": what may fail besides a download
  MaxErrors     \* bound: failures in a behaviour

ASSUME FetchAssumption ==
  /\ WorkerOf \in [Run -> Worker]
  /\ Day # {} /\ Day \subseteq Int /\ \A a, b \in Day : a..b \subseteq Day
  /\ GroupsIn \in [Day -> SUBSET Group]
  /\ RegionsIn \in [Day -> [Group -> SUBSET Region]]
  /\ ByHand \subseteq Day
  /\ Faults \subseteq {"write", "insert"}
  /\ MaxErrors \in Nat

VARIABLES
  bucket,    \* per date: the files published in the report bucket
  disk,      \* per date and file: how much of it is under reports_dir
  spoilt,    \* history, per date: the files whose writing or record failed
  errors,    \* failures so far
  pc,        \* per run: where it is, see PCs
  asked,     \* per run: the file its call of fetch_report_file is about
  current,   \* per run: the date it is at
  last,      \* per run: the end of its range
  todo,      \* per run: the files of this date still to fetch
  results,   \* per run: what fetch_date has collected for this date
  status     \* per run: the status it reported for each date so far

files == <<bucket, disk, spoilt, errors>>
place == <<current, last, status>>
vars == <<files, pc, asked, place, todo, results>>

\* "date": at the loop's head; "files": between two files of a date;
\* the others: inside fetch_report_file, and reading what it answered.
InCall == {"download", "write", "insert", "parse"}
PCs == {"idle", "date", "files"} \cup InCall

Absent == "none"                      \* "empty" and "part": an unfinished write
Fill == {Absent, "empty", "part", "full"}

Account == <<"account">>
Audit   == <<"audit">>
Groups  == <<"groups">>
Locations(g)     == <<"group_locations", g>>
Usage(g, l)      == <<"usage", g, l>>
AuditGroup(g, l) == <<"audit_group", g, l>>

Core == {Account, Audit}
Index == {Groups} \cup {Locations(g) : g \in Group}
Data == Core \cup {Usage(g, l) : g \in Group, l \in Region}
             \cup {AuditGroup(g, l) : g \in Group, l \in Region}
File == Index \cup Data

Init ==
  /\ bucket = [d \in Day |-> {}]
  /\ disk = [d \in Day |-> [f \in File |-> Absent]]
  /\ spoilt = [d \in Day |-> {}]
  /\ errors = 0
  /\ pc = [r \in Run |-> "idle"]
  /\ asked = [r \in Run |-> Account]
  /\ current = [r \in Run |-> CHOOSE d \in Day : TRUE]
  /\ last = current
  /\ todo = [r \in Run |-> {}]
  /\ results = [r \in Run |-> {}]
  /\ status = [r \in Run |-> [d \in Day |-> "none"]]

(* Between its awaits a coroutine has its worker to itself: while one      *)
(* writes a file, or reads one it was just answered, no other steps.       *)
Free(r) ==
  \A q \in Run \ {r} : WorkerOf[q] = WorkerOf[r] => pc[q] \notin {"write", "parse"}

Goto(r, where) == pc' = [pc EXCEPT ![r] = where]
(* fetch_date's variables end with it. *)
Drop(r) == todo' = [todo EXCEPT ![r] = {}] /\ results' = [results EXCEPT ![r] = {}]
Report(r, st)  == status' = [status EXCEPT ![r][current[r]] = st]

(* current += timedelta(days=1), and the loop's condition. *)
Advance(r) ==
  IF current[r] < last[r]
  THEN current' = [current EXCEPT ![r] = @ + 1] /\ Goto(r, "date")
  ELSE UNCHANGED current /\ Goto(r, "idle")

Start(r, from, to) ==
  /\ Free(r) /\ pc[r] = "idle" /\ from <= to
  /\ current' = [current EXCEPT ![r] = from]
  /\ last' = [last EXCEPT ![r] = to]
  /\ status' = [status EXCEPT ![r] = [d \in Day |-> "none"]]
  /\ Goto(r, "date")
  /\ UNCHANGED <<files, asked, todo, results>>

(* POST /fetch/{date}: fetch_date alone, whatever is there already. *)
StartOne(r, d) ==
  /\ Free(r) /\ pc[r] = "idle"
  /\ current' = [current EXCEPT ![r] = d]
  /\ last' = [last EXCEPT ![r] = d]
  /\ status' = [status EXCEPT ![r] = [e \in Day |-> "none"]]
  /\ todo' = [todo EXCEPT ![r] = {Account, Audit, Groups}]
  /\ results' = [results EXCEPT ![r] = {}]
  /\ Goto(r, "files")
  /\ UNCHANGED <<files, asked>>

Held(d) == {f \in File : disk[d][f] # Absent}

(* The name tests of has_data.  Files are stored under their whole name in *)
(* the bucket, date folder included, so p.name is never exactly            *)
(* "usage.groups.csv" and only the locations indexes are left out.         *)
HasData(d) == \E f \in Held(d) : f \notin {Locations(g) : g \in Group}

SkipDate(r) ==
  /\ Free(r) /\ pc[r] = "date"
  /\ HasData(current[r])
  /\ Report(r, "cached")
  /\ Advance(r)
  /\ UNCHANGED <<files, asked, last, todo, results>>

StartDate(r) ==
  /\ Free(r) /\ pc[r] = "date"
  /\ ~HasData(current[r])
  /\ todo' = [todo EXCEPT ![r] = {Account, Audit, Groups}]
  /\ results' = [results EXCEPT ![r] = {}]
  /\ Goto(r, "files")
  /\ UNCHANGED <<files, asked, place>>

(* The files named by a file that came, if it is an index. *)
GroupFiles(d, g) ==
  {Usage(g, l) : l \in RegionsIn[d][g]} \cup {AuditGroup(g, l) : l \in RegionsIn[d][g]}

CascadeNoAudit(d, f) ==                           \* mutant: usage files only
  CASE f = Groups   -> {Locations(g) : g \in GroupsIn[d]}
    [] f[1] = "group_locations" -> {Usage(f[2], l) : l \in RegionsIn[d][f[2]]}
    [] OTHER        -> {}

Cascade(d, f) ==
  CASE f = Groups   -> {Locations(g) : g \in GroupsIn[d]}
    [] f[1] = "group_locations" -> GroupFiles(d, f[2])
    [] OTHER        -> {}

(* account, audit, groups; then group by group its index and its files.    *)
(* The order of groups and regions is that of the index's rows: any order. *)
Rank(f) ==
  CASE f = Account -> 1
    [] f = Audit   -> 2
    [] f = Groups  -> 3
    [] f[1] \in {"usage", "audit_group"} -> 4
    [] OTHER       -> 5

Due(r) == {f \in todo[r] : \A g \in todo[r] : Rank(f) <= Rank(g)}

CollectRetrying(r, st, more) ==       \* mutant: a missing file stays to fetch
  /\ results' = [results EXCEPT ![r] = @ \cup {<<asked[r], st>>}]
  /\ todo' = [todo EXCEPT ![r] = (IF st = "ok" THEN @ \ {asked[r]} ELSE @) \cup more]
  /\ asked' = [asked EXCEPT ![r] = Account]
  /\ Goto(r, "files")
  /\ UNCHANGED place

(* _fetch: the outcome goes to the results. *)
Collect(r, st, more) ==
  /\ results' = [results EXCEPT ![r] = @ \cup {<<asked[r], st>>}]
  /\ todo' = [todo EXCEPT ![r] = (@ \ {asked[r]}) \cup more]
  /\ asked' = [asked EXCEPT ![r] = Account]
  /\ Goto(r, "files")
  /\ UNCHANGED place

(* The file as this run sees it, and what a step makes of it. *)
Here(r) == disk[current[r]][asked[r]]
Fills(r, fill) == disk' = [disk EXCEPT ![current[r]][asked[r]] = fill]
Spoils(r) == spoilt' = [spoilt EXCEPT ![current[r]] = @ \cup {asked[r]}]

At(r, where) == Free(r) /\ pc[r] = where
Fails == errors < MaxErrors /\ errors' = errors + 1

(* fetch_report_file: a file of more than no bytes is the answer. *)
Look(r, f) ==
  /\ At(r, "files") /\ f \in Due(r)
  /\ asked' = [asked EXCEPT ![r] = f]
  /\ Goto(r, IF disk[current[r]][f] \in {"part", "full"} THEN "parse" ELSE "download")
  /\ UNCHANGED <<files, place, todo, results>>

NotFound(r) ==
  /\ At(r, "download") /\ asked[r] \notin bucket[current[r]]
  /\ Collect(r, "not_found", {})
  /\ UNCHANGED files

DownloadFails(r) ==
  /\ At(r, "download") /\ Fails
  /\ Collect(r, "error", {})
  /\ UNCHANGED <<bucket, disk, spoilt>>

(* The file came; write_bytes opens it, ... *)
Receive(r) ==
  /\ At(r, "download") /\ asked[r] \in bucket[current[r]]
  /\ Fills(r, "empty")
  /\ Goto(r, "write")
  /\ UNCHANGED <<bucket, spoilt, errors, asked, place, todo, results>>

(* ... fills it, ... *)
Grow(r) ==
  /\ At(r, "write") /\ Here(r) = "empty"
  /\ Fills(r, "part")
  /\ UNCHANGED <<bucket, spoilt, errors, pc, asked, place, todo, results>>

(* ... and ends: the file is whole, unless another worker is still at it. *)
Written(r) ==
  /\ At(r, "write")
  /\ Fills(r, IF \E q \in Run \ {r} : /\ pc[q] = "write"
                                      /\ <<current[q], asked[q]>> = <<current[r], asked[r]>>
              THEN "part" ELSE "full")
  /\ Goto(r, "insert")
  /\ UNCHANGED <<bucket, spoilt, errors, asked, place, todo, results>>

(* The except of _fetch takes any failure: the file stays as it is. *)
WriteFails(r) ==
  /\ At(r, "write") /\ "write" \in Faults /\ Fails
  /\ Spoils(r)
  /\ Collect(r, "error", {})
  /\ UNCHANGED <<bucket, disk>>

InsertFails(r) ==
  /\ At(r, "insert") /\ "insert" \in Faults /\ Fails
  /\ Spoils(r)
  /\ Collect(r, "error", {})
  /\ UNCHANGED <<bucket, disk>>

Inserted(r) ==
  /\ At(r, "insert")
  /\ Goto(r, "parse")
  /\ UNCHANGED <<files, asked, place, todo, results>>

(* An index is parsed as it is at this moment: of one that is being written *)
(* any rows are there.  (A row cut short names a file that does not exist.) *)
Parse(r) ==
  /\ At(r, "parse")
  /\ \E rows \in SUBSET Cascade(current[r], asked[r]) :
       /\ Here(r) = "full" => rows = Cascade(current[r], asked[r])
       /\ Here(r) \in {Absent, "empty"} => rows = {}
       /\ Collect(r, "ok", rows)
  /\ UNCHANGED files

Statuses(r, F) == {x[2] : x \in {y \in results[r] : y[1] \in F}}

AllOk(r) == Statuses(r, File) = {"ok"}            \* mutant: all() for any()
AnyOk(r) == "ok" \in Statuses(r, File)

(* The summary of fetch_date and what fetch_date_range makes of it. *)
EndDate(r) ==
  /\ At(r, "files") /\ todo[r] = {}
  /\ Report(r, IF AnyOk(r) THEN "fetched"
               ELSE IF Statuses(r, Core) = {"not_found"} THEN "no_data" ELSE "error")
  /\ Drop(r)
  /\ Advance(r)
  /\ UNCHANGED <<files, asked, last>>

(* The run ends early: its worker stops, the scheduler's task is cancelled, *)
(* or an index that came cannot be parsed.  Only the end of the process     *)
(* cuts a write short, and what was reported is lost with the run.          *)
Abort(r) ==
  /\ pc[r] # "idle"
  /\ IF pc[r] = "write" THEN "write" \in Faults /\ Spoils(r) ELSE UNCHANGED spoilt
  /\ Goto(r, "idle")
  /\ status' = [status EXCEPT ![r] = [d \in Day |-> "none"]]
  /\ asked' = [asked EXCEPT ![r] = Account]
  /\ current' = [current EXCEPT ![r] = last[r]]
  /\ Drop(r)
  /\ UNCHANGED <<bucket, disk, errors, last>>

(* The files of a date appear in the bucket, an index before what it names. *)
Named(d, f) ==
  \/ f \in Core \cup {Groups}
  \/ \E g \in GroupsIn[d] :
       /\ Groups \in bucket[d]
       /\ \/ f = Locations(g)
          \/ Locations(g) \in bucket[d]
             /\ \E l \in RegionsIn[d][g] : f \in {Usage(g, l), AuditGroup(g, l)}

Publish(d, f) ==
  /\ f \in Coming[d] \ bucket[d] /\ Named(d, f)
  /\ bucket' = [bucket EXCEPT ![d] = @ \cup {f}]
  /\ UNCHANGED <<disk, spoilt, errors, pc, asked, place, todo, results>>

CallStep(r) ==
  \/ \E f \in File : Look(r, f)
  \/ NotFound(r) \/ DownloadFails(r) \/ Receive(r) \/ Written(r) \/ WriteFails(r)
  \/ InsertFails(r) \/ Inserted(r) \/ Parse(r)

RunStep(r) == SkipDate(r) \/ StartDate(r) \/ CallStep(r) \/ EndDate(r)

Next ==
  \/ \E r \in Run :
       \/ \E from, to \in Day : Start(r, from, to)
       \/ \E d \in ByHand : StartOne(r, d)
       \/ RunStep(r) \/ Grow(r) \/ Abort(r)
  \/ \E d \in Day, f \in File : Publish(d, f)

Spec == Init /\ [][Next]_vars

(* A run that can go on does: the event loop takes its tasks in turn. *)
FairSpec == Spec /\ \A r \in Run : SF_vars(RunStep(r))

-----------------------------------------------------------------------------
(* Properties *)

TypeOK ==
  /\ bucket \in [Day -> SUBSET File] /\ spoilt \in [Day -> SUBSET File]
  /\ disk \in [Day -> [File -> Fill]]
  /\ errors \in 0..MaxErrors
  /\ pc \in [Run -> PCs]
  /\ asked \in [Run -> File]
  /\ current \in [Run -> Day] /\ last \in [Run -> Day]
  /\ todo \in [Run -> SUBSET File]
  /\ results \in [Run -> SUBSET (File \X {"ok", "not_found", "error"})]
  /\ status \in [Run -> [Day -> {"none", "cached", "fetched", "no_data", "error"}]]

(* Every file the indexes of a date name, the indexes included. *)
Reachable(d) ==
  Core \cup {Groups} \cup {Locations(g) : g \in GroupsIn[d]}
  \cup UNION {GroupFiles(d, g) : g \in GroupsIn[d]}

Whole(d) == {f \in File : disk[d][f] = "full"}

(* When every file fetch_date asked for came, and none of the date's was   *)
(* ever spoilt by a failed write or INSERT, the date is complete: each     *)
(* file its indexes name is in its directory, whole, and no other.         *)
CleanMeansComplete ==
  [][\A r \in Run :
       /\ EndDate(r)
       /\ Statuses(r, File) = {"ok"} /\ spoilt[current[r]] = {}
       => Whole(current[r]) = Reachable(current[r]) /\ Held(current[r]) = Whole(current[r])]_vars

(* Of a date that a lone run reports as no_data or error nothing is there  *)
(* but what a failed write or INSERT left: no other file makes the next    *)
(* run over it take it for cached (has_data and fetch_date's summary).     *)
UnfetchedIsRetried ==
  \A r \in Run, d \in Day :
    status[r][d] \in {"no_data", "error"} => Held(d) \subseteq spoilt[d]

(* Every run comes to the end of its range, whatever is missing or fails. *)
RunEnds == \A r \in Run : pc[r] \in {"date", "files"} ~> pc[r] = "idle"
=============================================================================

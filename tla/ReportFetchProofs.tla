-------------------------- MODULE ReportFetchProofs --------------------------
(***************************************************************************)
(* What the cascade of fetch_date collects, for any number of runs, dates, *)
(* groups, regions and failures.                                           *)
(***************************************************************************)
EXTENDS ReportFetch, TLAPS

(* What a run has asked for, or still will, on the date it is at. *)
Asked(r) == {x[1] : x \in results[r]} \cup todo[r]

Busy(r) == pc[r] \in {"files"} \cup InCall

(* A call is about a file still to do, and is past a file's opening only    *)
(* with the file there.                                                     *)
Called(r) ==
  /\ pc[r] \in InCall => asked[r] \in todo[r]
  /\ pc[r] \in {"write", "insert", "parse"} => Here(r) # Absent

(* A file of the directory, or of the bucket, is one the indexes name. *)
HeldIsNamed == \A d \in Day : bucket[d] \cup Held(d) \subseteq Reachable(d)

IInv == TypeOK /\ HeldIsNamed /\ \A r \in Run : Called(r)

(* Any step of a run. *)
RunAct(r) ==
  \/ \E from, to \in Day : Start(r, from, to)
  \/ \E d \in ByHand : StartOne(r, d)
  \/ RunStep(r) \/ Grow(r) \/ Abort(r)

-----------------------------------------------------------------------------
(* The indexes of a date name groups and regions. *)
LEMMA IndexType ==
  ASSUME NEW d \in Day
  PROVE  /\ GroupsIn[d] \subseteq Group
         /\ \A g \in Group : RegionsIn[d][g] \subseteq Region
BY FetchAssumption

(* What each kind of file makes fetch_date fetch next. *)
LEMMA CascadeOf ==
  ASSUME NEW d \in Day
  PROVE  /\ Cascade(d, Groups) = {Locations(g) : g \in GroupsIn[d]}
         /\ \A g \in Group : Cascade(d, Locations(g)) = GroupFiles(d, g)
         /\ \A f \in Data : Cascade(d, f) = {}
<1> USE DEF Cascade, Groups, Locations
<1>1. \A g \in Group : Cascade(d, Locations(g)) = GroupFiles(d, g)
  OBVIOUS
<1>2. \A f \in Data : Cascade(d, f) = {}
  <2> SUFFICES ASSUME NEW f \in Data PROVE Cascade(d, f) = {}
    OBVIOUS
  <2>1. f # Groups /\ f[1] # "group_locations"
    BY DEF Data, Core, Account, Audit, Usage, AuditGroup
  <2>2. QED BY <2>1
<1>3. QED BY <1>1, <1>2

LEMMA CascadeType ==
  ASSUME NEW d \in Day, NEW f \in File
  PROVE  Cascade(d, f) \subseteq File
<1>1. CASE f = Groups
  BY <1>1, CascadeOf, IndexType DEF File, Index
<1>2. ASSUME NEW g \in Group, f = Locations(g) PROVE Cascade(d, f) \subseteq File
  <2>1. Cascade(d, f) = GroupFiles(d, g)
    BY <1>2, CascadeOf
  <2>2. RegionsIn[d][g] \subseteq Region
    BY IndexType
  <2>3. QED BY <2>1, <2>2 DEF GroupFiles, File, Data
<1>3. CASE f \in Data
  BY <1>3, CascadeOf
<1>4. QED BY <1>1, <1>2, <1>3 DEF File, Index

(* An index before what it names: only named files are published. *)
LEMMA NamedIsReachable ==
  ASSUME NEW d \in Day, NEW f \in File, Named(d, f)
  PROVE  f \in Reachable(d)
<1>1. CASE f \in Core \cup {Groups}
  BY <1>1 DEF Reachable
<1>2. ASSUME NEW g \in GroupsIn[d], f = Locations(g) PROVE f \in Reachable(d)
  BY <1>2 DEF Reachable
<1>3. ASSUME NEW g \in GroupsIn[d], NEW l \in RegionsIn[d][g],
             f \in {Usage(g, l), AuditGroup(g, l)}
      PROVE  f \in Reachable(d)
  BY <1>3 DEF Reachable, GroupFiles
<1>4. QED BY <1>1, <1>2, <1>3 DEF Named

-----------------------------------------------------------------------------
LEMMA FillsType ==
  ASSUME TypeOK, NEW r \in Run, NEW fill \in Fill, Fills(r, fill)
  PROVE  /\ disk' \in [Day -> [File -> Fill]]
         /\ disk'[current[r]][asked[r]] = fill
         /\ \A d \in Day, f \in File :
              <<d, f>> # <<current[r], asked[r]>> => disk'[d][f] = disk[d][f]
<1> DEFINE d == current[r]  row == [disk[d] EXCEPT ![asked[r]] = fill]
<1>1. d \in Day /\ asked[r] \in File /\ disk[d] \in [File -> Fill]
  BY DEF TypeOK
<1>2. row \in [File -> Fill] /\ row[asked[r]] = fill
      /\ \A f \in File : f # asked[r] => row[f] = disk[d][f]
  BY <1>1
<1>3. disk' = [disk EXCEPT ![d] = row]
  BY DEF Fills
<1>4. QED BY <1>1, <1>2, <1>3 DEF TypeOK

LEMMA SpoilsType ==
  ASSUME TypeOK, NEW r \in Run, Spoils(r)
  PROVE  /\ spoilt' \in [Day -> SUBSET File]
         /\ \A d \in Day : spoilt[d] \subseteq spoilt'[d]
         /\ asked[r] \in spoilt'[current[r]]
BY DEF TypeOK, Spoils

(* The five ways a run's step goes. *)
Leaves(r) ==            \* to the loop's head or the end
  /\ SkipDate(r) \/ EndDate(r) \/ Abort(r) \/ \E from, to \in Day : Start(r, from, to)
  /\ pc'[r] \in {"idle", "date"} /\ UNCHANGED <<bucket, disk>>

Begins(r) ==            \* a date
  /\ StartDate(r) \/ \E d \in ByHand : StartOne(r, d)
  /\ pc'[r] = "files" /\ UNCHANGED files
  /\ todo'[r] = {Account, Audit, Groups} /\ results'[r] = {}

Looks(r) ==             \* a call
  \E f \in File :
    /\ Look(r, f) /\ asked'[r] = f /\ f \in todo[r]
    /\ pc'[r] = (IF disk[current[r]][f] \in {"part", "full"} THEN "parse" ELSE "download")
    /\ UNCHANGED <<todo, results, place, files>>

Collects(r, st, more) ==    \* its outcome
  /\ pc[r] \in InCall /\ pc'[r] = "files"
  /\ todo'[r] = (todo[r] \ {asked[r]}) \cup more
  /\ results'[r] = results[r] \cup {<<asked[r], st>>}
  /\ UNCHANGED <<bucket, disk, place>>

Outcome(r, st, more) ==
  /\ Collects(r, st, more)
  /\ st = "ok" <=> pc[r] = "parse"
  /\ st = "ok" => Parse(r)
  /\ more # {} => Here(r) \in {"part", "full"}
  /\ st # "ok" => /\ more = {}
                  /\ pc[r] = "download" \/ asked[r] \in spoilt'[current[r]]

Moves(r) ==             \* through it
  /\ pc[r] \in {"download", "write", "insert"} /\ pc'[r] \in {"write", "insert", "parse"}
  /\ UNCHANGED <<bucket, spoilt, asked, todo, results, place>>

LEMMA CollectStep ==
  ASSUME TypeOK, NEW r \in Run, pc[r] \in InCall, UNCHANGED <<bucket, disk>>,
         NEW st \in {"ok", "not_found", "error"},
         NEW more \in SUBSET Cascade(current[r], asked[r]), Collect(r, st, more)
  PROVE  /\ Collects(r, st, more)
         /\ todo' \in [Run -> SUBSET File] /\ pc' \in [Run -> PCs]
         /\ asked' \in [Run -> File]
         /\ results' \in [Run -> SUBSET (File \X {"ok", "not_found", "error"})]
<1>1. more \in SUBSET File /\ asked[r] \in File
  BY CascadeType DEF TypeOK
<1>2. Account \in File /\ "files" \in PCs
  BY DEF File, Data, Core, PCs
<1>3. /\ todo' = [todo EXCEPT ![r] = (@ \ {asked[r]}) \cup more]
      /\ results' = [results EXCEPT ![r] = @ \cup {<<asked[r], st>>}]
      /\ pc' = [pc EXCEPT ![r] = "files"] /\ asked' = [asked EXCEPT ![r] = Account]
      /\ UNCHANGED <<current, last, status>>
  BY DEF Collect, Goto, place
<1>4. Collects(r, st, more)
  BY <1>3 DEF Collects, TypeOK, place
<1>5. QED BY <1>1, <1>2, <1>3, <1>4 DEF TypeOK

LEMMA AdvanceType ==
  ASSUME TypeOK, NEW r \in Run, Advance(r)
  PROVE  /\ current' \in [Run -> Day] /\ pc' \in [Run -> PCs]
         /\ pc'[r] \in {"idle", "date"}
         /\ \A q \in Run \ {r} : current'[q] = current[q] /\ pc'[q] = pc[q]
<1>0. current[r] \in Int /\ last[r] \in Int /\ {"idle", "date"} \subseteq PCs
  BY FetchAssumption DEF TypeOK, PCs
<1>1. CASE current[r] < last[r]
  <2>1. current[r] + 1 \in Day
    <3>1. current[r] + 1 \in current[r]..last[r]
      BY <1>0, <1>1
    <3>2. QED BY <3>1, FetchAssumption DEF TypeOK
  <2>2. QED BY <1>0, <1>1, <2>1 DEF Advance, Goto, TypeOK
<1>2. CASE ~(current[r] < last[r])
  BY <1>0, <1>2 DEF Advance, Goto, TypeOK
<1>3. QED BY <1>1, <1>2

(* A call's outcomes, with the files as the step leaves them. *)
LEMMA OutcomeStep ==
  ASSUME TypeOK, NEW r \in Run,
         NotFound(r) \/ DownloadFails(r) \/ WriteFails(r) \/ InsertFails(r) \/ Parse(r)
  PROVE  /\ TypeOK'
         /\ \E st \in {"ok", "not_found", "error"}, more \in SUBSET Cascade(current[r], asked[r]) :
              Outcome(r, st, more)
<1>0. PICK st \in {"ok", "not_found", "error"}, more \in SUBSET Cascade(current[r], asked[r]) :
        /\ Collect(r, st, more)
        /\ st = "ok" <=> pc[r] = "parse"
        /\ st = "ok" => Parse(r)
        /\ more # {} => Here(r) \notin {Absent, "empty"}
        /\ st # "ok" => more = {} /\ (pc[r] = "download" \/ Spoils(r))
  BY DEF NotFound, DownloadFails, WriteFails, InsertFails, Parse, At
<1>1. Collect(r, st, more)
  BY <1>0
<1>2. pc[r] \in InCall /\ UNCHANGED <<bucket, disk>>
  BY DEF NotFound, DownloadFails, WriteFails, InsertFails, Parse, At, InCall, files
<1>3. /\ Collects(r, st, more) /\ UNCHANGED <<current, last, status>>
      /\ todo' \in [Run -> SUBSET File] /\ pc' \in [Run -> PCs] /\ asked' \in [Run -> File]
      /\ results' \in [Run -> SUBSET (File \X {"ok", "not_found", "error"})]
  <2>1. UNCHANGED <<current, last, status>>
    BY <1>1 DEF Collect, place
  <2>2. QED BY <1>1, <1>2, <2>1, CollectStep
<1>4. spoilt' \in [Day -> SUBSET File]
  <2>1. CASE Spoils(r)
    BY <2>1, SpoilsType
  <2>2. CASE spoilt' = spoilt
    BY <2>2 DEF TypeOK
  <2>3. QED BY <2>1, <2>2 DEF NotFound, DownloadFails, WriteFails, InsertFails, Parse, files
<1>5. errors' \in 0..MaxErrors
  <2>1. CASE errors' = errors
    BY <2>1 DEF TypeOK
  <2>2. CASE Fails
    BY <2>2, FetchAssumption DEF TypeOK, Fails
  <2>3. QED BY <2>1, <2>2 DEF NotFound, DownloadFails, WriteFails, InsertFails, Parse, files
<1>6. Outcome(r, st, more)
  <2>1. Here(r) \in Fill
    BY DEF Here, TypeOK
  <2>2. QED BY <1>0, <1>3, <2>1, SpoilsType DEF Outcome, Fill
<1>7. QED BY <1>2, <1>3, <1>4, <1>5, <1>6 DEF TypeOK

LEMMA MoveStep ==
  ASSUME TypeOK, NEW r \in Run, Receive(r) \/ Grow(r) \/ Written(r) \/ Inserted(r)
  PROVE  TypeOK' /\ Moves(r)
<1>1. UNCHANGED <<bucket, spoilt, errors, asked, current, last, status, todo, results>>
  BY DEF Receive, Grow, Written, Inserted, files, place
<1>2. disk' \in [Day -> [File -> Fill]]
  <2>1. CASE \E fill \in Fill : Fills(r, fill)
    BY <2>1, FillsType
  <2>2. CASE disk' = disk
    BY <2>2 DEF TypeOK
  <2>3. QED BY <2>1, <2>2 DEF Receive, Grow, Written, Inserted, files, Fill
<1>3. /\ pc' \in [Run -> PCs] /\ pc'[r] \in {"write", "insert", "parse"}
      /\ pc[r] \in {"download", "write", "insert"}
  <2>1. {"write", "insert", "parse"} \subseteq PCs
    BY DEF PCs, InCall
  <2>2. QED BY <2>1 DEF Receive, Grow, Written, Inserted, At, Goto, TypeOK
<1>4. QED BY <1>1, <1>2, <1>3 DEF TypeOK, Moves, place

LEMMA LookStep ==
  ASSUME TypeOK, NEW r \in Run, NEW f \in File, Look(r, f)
  PROVE  TypeOK' /\ Looks(r)
<1>1. {"parse", "download"} \subseteq PCs
  BY DEF PCs, InCall
<1>2. f \in todo[r]
  BY DEF Look, Due
<1>3. UNCHANGED <<bucket, disk, spoilt, errors, current, last, status, todo, results>>
  BY DEF Look, files, place
<1>4. /\ pc' \in [Run -> PCs] /\ asked' \in [Run -> File] /\ asked'[r] = f
      /\ pc'[r] = (IF disk[current[r]][f] \in {"part", "full"} THEN "parse" ELSE "download")
  BY <1>1 DEF Look, Goto, TypeOK
<1>5. QED BY <1>2, <1>3, <1>4 DEF TypeOK, Looks, files, place

LEMMA BeginStep ==
  ASSUME TypeOK, NEW r \in Run, StartDate(r) \/ \E d \in ByHand : StartOne(r, d)
  PROVE  TypeOK' /\ Begins(r)
<1>1. PICK first \in SUBSET File : first = {Account, Audit, Groups}
  <2>1. {Account, Audit, Groups} \in SUBSET File
    BY DEF File, Index, Data, Core
  <2>2. QED BY <2>1
<1>2. /\ todo' = [todo EXCEPT ![r] = first] /\ results' = [results EXCEPT ![r] = {}]
      /\ pc' = [pc EXCEPT ![r] = "files"] /\ "files" \in PCs
      /\ UNCHANGED <<bucket, disk, spoilt, errors, asked>>
  BY <1>1 DEF StartDate, StartOne, Goto, files, PCs
<1>3. current' \in [Run -> Day] /\ last' \in [Run -> Day]
      /\ status' \in [Run -> [Day -> {"none", "cached", "fetched", "no_data", "error"}]]
  <2>1. CASE StartDate(r)
    BY <2>1 DEF StartDate, TypeOK, place
  <2>2. ASSUME NEW d \in ByHand, StartOne(r, d)
        PROVE  /\ current' \in [Run -> Day] /\ last' \in [Run -> Day]
               /\ status' \in [Run -> [Day -> {"none", "cached", "fetched", "no_data", "error"}]]
    <3>1. d \in Day
      BY FetchAssumption
    <3>2. QED BY <2>2, <3>1 DEF StartOne, TypeOK
  <2>3. QED BY <2>1, <2>2
<1>4. QED BY <1>1, <1>2, <1>3 DEF TypeOK, Begins, files

LEMMA LeaveStep ==
  ASSUME TypeOK, NEW r \in Run,
         \/ SkipDate(r) \/ EndDate(r) \/ Abort(r) \/ \E from, to \in Day : Start(r, from, to)
  PROVE  TypeOK' /\ Leaves(r)
<1> USE DEF TypeOK
<1>1. CASE SkipDate(r) \/ EndDate(r)
  <2>1. PICK st \in {"cached", "fetched", "no_data", "error"} :
           status' = [status EXCEPT ![r] = [@ EXCEPT ![current[r]] = st]]
    BY <1>1 DEF SkipDate, EndDate, Report
  <2>2. Advance(r) /\ UNCHANGED <<bucket, disk, spoilt, errors, asked, last>>
    BY <1>1 DEF SkipDate, EndDate, files
  <2>3. /\ todo' \in [Run -> SUBSET File]
        /\ results' \in [Run -> SUBSET (File \X {"ok", "not_found", "error"})]
    BY <1>1 DEF SkipDate, EndDate, Drop
  <2>4. status' \in [Run -> [Day -> {"none", "cached", "fetched", "no_data", "error"}]]
    BY <2>1
  <2>5. QED BY <2>2, <2>3, <2>4, AdvanceType DEF Leaves
<1>2. CASE Abort(r)
  <2>1. spoilt' \in [Day -> SUBSET File]
    BY <1>2, SpoilsType DEF Abort
  <2>2. Account \in File /\ "idle" \in PCs
    BY DEF File, Data, Core, PCs
  <2>3. QED BY <1>2, <2>1, <2>2 DEF Abort, Drop, Goto, Leaves
<1>3. ASSUME NEW from \in Day, NEW to \in Day, Start(r, from, to) PROVE TypeOK' /\ Leaves(r)
  BY <1>3 DEF Start, Goto, Leaves, files, PCs
<1>4. QED BY <1>1, <1>2, <1>3

(* A step of a run is of one of the five shapes. *)
LEMMA RunShape ==
  ASSUME TypeOK, NEW r \in Run, RunAct(r)
  PROVE  /\ TypeOK'
         /\ \/ Leaves(r) \/ Begins(r) \/ Looks(r) \/ Moves(r)
            \/ \E st \in {"ok", "not_found", "error"}, more \in SUBSET Cascade(current[r], asked[r]) :
                 Outcome(r, st, more)
BY LeaveStep, BeginStep, LookStep, MoveStep, OutcomeStep DEF RunAct, RunStep, CallStep

LEMMA TypeStep == TypeOK /\ [Next]_vars => TypeOK'
<1> SUFFICES ASSUME TypeOK, [Next]_vars PROVE TypeOK'
  OBVIOUS
<1>1. ASSUME NEW r \in Run, RunAct(r) PROVE TypeOK'
  BY <1>1, RunShape
<1>2. ASSUME NEW d \in Day, NEW f \in File, Publish(d, f) PROVE TypeOK'
  BY <1>2 DEF Publish, TypeOK, place
<1>3. CASE UNCHANGED vars
  BY <1>3 DEF vars, files, place, TypeOK
<1>4. QED BY <1>1, <1>2, <1>3 DEF Next, RunAct

(* A run's step leaves the other runs where they are, ... *)
LEMMA Apart ==
  ASSUME TypeOK, NEW q \in Run, RunAct(q), NEW r \in Run \ {q}
  PROVE  UNCHANGED <<pc[r], asked[r], current[r], last[r], todo[r], results[r], status[r]>>
<1> USE DEF TypeOK
<1>1. CASE SkipDate(q) \/ EndDate(q)
  BY <1>1, AdvanceType DEF SkipDate, EndDate, Report, Drop
<1>2. CASE Abort(q) \/ \E from, to \in Day : Start(q, from, to)
  BY <1>2 DEF Abort, Start, Drop, Goto
<1>3. CASE StartDate(q) \/ \E d \in ByHand : StartOne(q, d)
  BY <1>3 DEF StartDate, StartOne, Goto, place
<1>4. CASE \E f \in File : Look(q, f)
  BY <1>4 DEF Look, Goto, place
<1>5. CASE Receive(q) \/ Grow(q) \/ Written(q) \/ Inserted(q)
  BY <1>5 DEF Receive, Grow, Written, Inserted, Goto, place
<1>6. CASE NotFound(q) \/ DownloadFails(q) \/ WriteFails(q) \/ InsertFails(q) \/ Parse(q)
  <2>1. PICK st, more : Collect(q, st, more)
    BY <1>6 DEF NotFound, DownloadFails, WriteFails, InsertFails, Parse
  <2>2. QED BY <2>1 DEF Collect, Goto, place
<1>7. QED BY <1>1, <1>2, <1>3, <1>4, <1>5, <1>6 DEF RunAct, RunStep, CallStep

(* ... no step takes a file away, and what is spoilt remains so. *)
LEMMA NothingGoes ==
  ASSUME TypeOK, [Next]_vars, NEW d \in Day
  PROVE  /\ bucket[d] \subseteq bucket'[d] /\ spoilt[d] \subseteq spoilt'[d]
         /\ \A f \in File : disk[d][f] # Absent => disk'[d][f] # Absent
<1>0. TypeOK'
  BY TypeStep
<1>1. ASSUME NEW r \in Run, RunAct(r) PROVE bucket' = bucket /\ spoilt[d] \subseteq spoilt'[d]
  <2>1. bucket' = bucket
    BY <1>1, RunShape DEF Leaves, Begins, Looks, Moves, Outcome, Collects, files
  <2>2. CASE Spoils(r)
    BY <2>1, <2>2, SpoilsType
  <2>3. CASE spoilt' = spoilt
    BY <2>1, <2>3
  <2>4. QED
    BY <1>1, <2>1, <2>2, <2>3 DEF RunAct, RunStep, CallStep, Start, StartOne, SkipDate, StartDate,
       Look, NotFound, DownloadFails, Receive, Grow, Written, WriteFails, InsertFails, Inserted,
       Parse, EndDate, Abort, files
<1>2. ASSUME NEW r \in Run, RunAct(r), NEW f \in File, disk[d][f] # Absent
      PROVE  disk'[d][f] # Absent
  <2>1. CASE disk' = disk
    BY <1>2, <2>1
  <2>2. ASSUME NEW fill \in Fill, fill # Absent, Fills(r, fill) PROVE disk'[d][f] # Absent
    BY <1>2, <2>2, FillsType DEF TypeOK
  <2>3. CASE Receive(r) \/ Grow(r) \/ Written(r)
    BY <2>2, <2>3 DEF Receive, Grow, Written, Fill, Absent
  <2>4. QED
    BY <1>2, <2>1, <2>3 DEF RunAct, RunStep, CallStep, Start, StartOne, SkipDate, StartDate,
       Look, NotFound, DownloadFails, WriteFails, InsertFails, Inserted, Parse, EndDate, Abort, files
<1>3. ASSUME NEW e \in Day, NEW f \in File, Publish(e, f)
      PROVE  bucket[d] \subseteq bucket'[d] /\ UNCHANGED <<disk, spoilt>>
  BY <1>3 DEF Publish, TypeOK
<1>4. CASE UNCHANGED vars
  BY <1>4 DEF vars, files
<1>5. QED BY <1>1, <1>2, <1>3, <1>4 DEF Next, RunAct

LEMMA CalledStep == IInv /\ [Next]_vars => \A r \in Run : Called(r)'
<1> SUFFICES ASSUME IInv, [Next]_vars, NEW r \in Run PROVE Called(r)'
  OBVIOUS
<1> USE DEF IInv
<1>0. current[r] \in Day /\ asked[r] \in File /\ TypeOK /\ Called(r)
  BY DEF TypeOK
<1>1. ASSUME UNCHANGED <<pc[r], asked[r], current[r], todo[r]>> PROVE Called(r)'
  <2>1. Here(r) # Absent => Here(r)' # Absent
    BY <1>0, <1>1, NothingGoes DEF Here
  <2>2. QED BY <1>0, <1>1, <2>1 DEF Called
<1>2. ASSUME RunAct(r) PROVE Called(r)'
  <2>1. CASE Leaves(r) \/ Begins(r)
    BY <2>1 DEF Leaves, Begins, Called, InCall
  <2>2. CASE Looks(r)
    <3>1. UNCHANGED <<todo, disk, current>> /\ asked'[r] \in todo[r]
      BY <2>2 DEF Looks, files, place
    <3>2. pc'[r] \in {"write", "insert", "parse"} => disk[current[r]][asked'[r]] # Absent
      BY <2>2 DEF Looks, Absent
    <3>3. QED BY <3>1, <3>2 DEF Called, Here
  <2>3. CASE Moves(r)
    <3>1. UNCHANGED <<todo, asked, current>> /\ asked[r] \in todo[r]
      BY <1>0, <2>3 DEF Moves, Called, InCall, place
    <3>2. Here(r)' # Absent
      <4>1. CASE pc[r] \in {"write", "insert"}
        BY <1>0, <3>1, <4>1, NothingGoes DEF Called, Here
      <4>2. CASE pc[r] = "download"
        <5>1. Receive(r)
          BY <1>2, <2>3, <4>2 DEF Moves, RunAct, RunStep, CallStep, Start, StartOne, SkipDate,
             StartDate, Look, NotFound, DownloadFails, WriteFails, InsertFails, Inserted, Parse,
             EndDate, Abort, Grow, Written, At, Collect, Goto, TypeOK
        <5>2. QED BY <1>0, <3>1, <5>1, FillsType DEF Receive, Here, Fill, Absent
      <4>3. QED BY <2>3, <4>1, <4>2 DEF Moves
    <3>3. QED BY <3>1, <3>2 DEF Called
  <2>4. ASSUME NEW st, NEW more, Outcome(r, st, more) PROVE Called(r)'
    BY <2>4 DEF Outcome, Collects, Called, InCall
  <2>5. QED BY <1>0, <1>2, <2>1, <2>2, <2>3, <2>4, RunShape
<1>3. ASSUME NEW q \in Run, RunAct(q) PROVE Called(r)'
  BY <1>0, <1>1, <1>2, <1>3, Apart
<1>4. CASE UNCHANGED vars \/ \E d \in Day, f \in File : Publish(d, f)
  BY <1>1, <1>4 DEF vars, Publish, place
<1>5. QED BY <1>3, <1>4 DEF Next, RunAct

LEMMA NamedStep == IInv /\ [Next]_vars => HeldIsNamed'
<1> SUFFICES ASSUME IInv, [Next]_vars PROVE HeldIsNamed'
  OBVIOUS
<1> USE DEF IInv
<1>0. \A d \in Day : Reachable(d)' = Reachable(d)
  BY DEF Reachable, GroupFiles
<1>1. ASSUME UNCHANGED <<bucket, disk>> PROVE HeldIsNamed'
  BY <1>0, <1>1 DEF HeldIsNamed, Held
<1>2. ASSUME NEW r \in Run, NEW fill \in Fill, Fills(r, fill), bucket' = bucket,
             asked[r] \in bucket[current[r]] \cup Held(current[r])
      PROVE  HeldIsNamed'
  <2>1. ASSUME NEW d \in Day, NEW f \in Held(d)' PROVE f \in Reachable(d)
    <3>1. CASE <<d, f>> = <<current[r], asked[r]>>
      BY <1>2, <3>1 DEF HeldIsNamed
    <3>2. CASE <<d, f>> # <<current[r], asked[r]>>
      BY <1>2, <2>1, <3>2, FillsType DEF HeldIsNamed, Held
    <3>3. QED BY <3>1, <3>2
  <2>2. QED BY <1>0, <1>2, <2>1 DEF HeldIsNamed
<1>3. ASSUME NEW r \in Run, RunAct(r) PROVE HeldIsNamed'
  <2>1. CASE Moves(r)
    <3>1. CASE UNCHANGED <<bucket, disk>>
      BY <1>1, <3>1
    <3>2. CASE Receive(r)
      BY <1>2, <3>2 DEF Receive, Fill
    <3>3. CASE Grow(r) \/ Written(r)
      <4>1. asked[r] \in Held(current[r])
        BY <3>3 DEF Grow, Written, At, Called, Here, Held, TypeOK
      <4>2. PICK fill \in Fill : Fills(r, fill) /\ bucket' = bucket
        BY <3>3 DEF Grow, Written, Fill
      <4>3. QED BY <1>2, <4>1, <4>2
    <3>4. QED
      BY <1>3, <2>1, <3>1, <3>2, <3>3 DEF RunAct, RunStep, CallStep, Start, StartOne, SkipDate,
         StartDate, Look, NotFound, DownloadFails, WriteFails, InsertFails, Inserted, Parse,
         EndDate, Abort, files
  <2>2. CASE UNCHANGED <<bucket, disk>>
    BY <1>1, <2>2
  <2>3. QED BY <1>3, <2>1, <2>2, RunShape DEF Leaves, Begins, Looks, Outcome, Collects, files
<1>4. ASSUME NEW d \in Day, NEW f \in File, Publish(d, f) PROVE HeldIsNamed'
  <2>1. f \in Reachable(d)
    BY <1>4, NamedIsReachable DEF Publish
  <2>2. bucket' = [bucket EXCEPT ![d] = @ \cup {f}] /\ disk' = disk
    BY <1>4 DEF Publish
  <2>3. QED BY <1>0, <2>1, <2>2 DEF HeldIsNamed, Held, TypeOK
<1>5. CASE UNCHANGED vars
  BY <1>1, <1>5 DEF vars, files
<1>6. QED BY <1>3, <1>4, <1>5 DEF Next, RunAct

LEMMA Invariance == Spec => []IInv
<1>1. Init => IInv
  <2> SUFFICES ASSUME Init PROVE IInv
    OBVIOUS
  <2>1. (CHOOSE d \in Day : TRUE) \in Day /\ Account \in File
    BY FetchAssumption DEF File, Data, Core
  <2>2. TypeOK
    BY <2>1, FetchAssumption DEF Init, TypeOK, Fill, PCs
  <2>3. HeldIsNamed /\ \A r \in Run : Called(r)
    BY DEF Init, HeldIsNamed, Held, Called, InCall
  <2>4. QED BY <2>2, <2>3 DEF IInv
<1>2. IInv /\ [Next]_vars => IInv'
  BY TypeStep, NamedStep, CalledStep DEF IInv
<1>3. QED BY <1>1, <1>2, PTL DEF Spec

(* Every variable of the runs stays in its type, for any constants: what   *)
(* the cascade asks for is always a report file.                           *)
THEOREM FetchTypeCorrect == Spec => []TypeOK
BY Invariance, PTL DEF IInv

-----------------------------------------------------------------------------
(* One worker: between its awaits a run is alone, so a file that is neither *)
(* being written nor spoilt is whole.                                       *)
AllInOneWorker == \A q, r \in Run : WorkerOf[q] = WorkerOf[r]

Unfinished ==
  \A d \in Day, f \in File :
    disk[d][f] \in {"empty", "part"} =>
      \/ f \in spoilt[d]
      \/ \E q \in Run : pc[q] = "write" /\ current[q] = d /\ asked[q] = f

(* What came is in the directory, and unless something was spoilt what it   *)
(* names was asked for too.                                                 *)
Cascaded(r) ==
  Busy(r) =>
    /\ \A f \in File : <<f, "ok">> \in results[r] => f \in Held(current[r])
    /\ Core \cup {Groups} \subseteq Asked(r)
    /\ spoilt[current[r]] = {} =>
         /\ <<Groups, "ok">> \in results[r] =>
              \A g \in GroupsIn[current[r]] : Locations(g) \in Asked(r)
         /\ \A g \in GroupsIn[current[r]] :
              <<Locations(g), "ok">> \in results[r] => GroupFiles(current[r], g) \subseteq Asked(r)

LEMMA Alone ==
  ASSUME AllInOneWorker, NEW r \in Run, Free(r), NEW q \in Run \ {r}
  PROVE  pc[q] \notin {"write", "parse"}
BY DEF AllInOneWorker, Free

(* Steps that leave the disk alone, and the end of a write. *)
LEMMA UnfinishedStep == AllInOneWorker /\ IInv /\ Unfinished /\ [Next]_vars => Unfinished'
<1> SUFFICES ASSUME AllInOneWorker, IInv, Unfinished, [Next]_vars,
                    NEW d \in Day, NEW f \in File, disk'[d][f] \in {"empty", "part"}
             PROVE  \/ f \in spoilt'[d]
                    \/ \E q \in Run : pc'[q] = "write" /\ current'[q] = d /\ asked'[q] = f
  BY DEF Unfinished
<1> USE DEF IInv
<1>1. ASSUME UNCHANGED <<disk, spoilt, pc, current, asked>>
      PROVE  \/ f \in spoilt'[d]
             \/ \E q \in Run : pc'[q] = "write" /\ current'[q] = d /\ asked'[q] = f
  BY <1>1 DEF Unfinished
<1>2. ASSUME NEW r \in Run, RunAct(r)
      PROVE  \/ f \in spoilt'[d]
             \/ \E q \in Run : pc'[q] = "write" /\ current'[q] = d /\ asked'[q] = f
  <2>0. spoilt[d] \subseteq spoilt'[d] /\ TypeOK
    BY NothingGoes
  <2>1. ASSUME disk'[d][f] = disk[d][f],
               pc[r] = "write" /\ current[r] = d /\ asked[r] = f => f \in spoilt'[d]
        PROVE  \/ f \in spoilt'[d]
               \/ \E q \in Run : pc'[q] = "write" /\ current'[q] = d /\ asked'[q] = f
    <3>1. CASE f \in spoilt[d]
      BY <2>0, <3>1
    <3>2. ASSUME NEW q \in Run, pc[q] = "write" /\ current[q] = d /\ asked[q] = f
          PROVE  \/ f \in spoilt'[d]
                 \/ \E p \in Run : pc'[p] = "write" /\ current'[p] = d /\ asked'[p] = f
      <4>1. CASE q = r
        BY <2>1, <3>2, <4>1
      <4>2. CASE q # r
        BY <1>2, <2>0, <3>2, <4>2, Apart
      <4>3. QED BY <4>1, <4>2
    <3>3. QED BY <2>1, <3>1, <3>2 DEF Unfinished
  <2>2. CASE Receive(r)
    <3>1. pc'[r] = "write" /\ current'[r] = current[r] /\ asked'[r] = asked[r] /\ pc[r] = "download"
      BY <2>2 DEF Receive, At, Goto, place, TypeOK
    <3>2. CASE <<d, f>> = <<current[r], asked[r]>>
      BY <3>1, <3>2
    <3>3. CASE <<d, f>> # <<current[r], asked[r]>>
      <4>1. disk'[d][f] = disk[d][f]
        BY <2>2, <3>3, FillsType DEF Receive, Fill
      <4>2. QED BY <2>1, <3>1, <4>1
    <3>4. QED BY <3>2, <3>3
  <2>3. CASE Grow(r)
    <3>1. pc'[r] = "write" /\ current'[r] = current[r] /\ asked'[r] = asked[r]
      BY <2>3 DEF Grow, At, place
    <3>2. CASE <<d, f>> = <<current[r], asked[r]>>
      BY <3>1, <3>2
    <3>3. CASE <<d, f>> # <<current[r], asked[r]>>
      <4>1. disk'[d][f] = disk[d][f]
        BY <2>3, <3>3, FillsType DEF Grow, Fill
      <4>2. QED BY <2>1, <3>3, <4>1
    <3>4. QED BY <3>2, <3>3
  <2>4. CASE Written(r)
    <3>1. Fills(r, "full")
      <4>1. \A q \in Run \ {r} : pc[q] # "write"
        BY <2>4, Alone DEF Written, At
      <4>2. QED BY <2>4, <4>1 DEF Written
    <3>2. CASE <<d, f>> = <<current[r], asked[r]>>
      <4>1. disk'[d][f] = "full"
        BY <2>0, <3>1, <3>2, FillsType DEF Fill
      <4>2. QED BY <4>1
    <3>3. CASE <<d, f>> # <<current[r], asked[r]>>
      <4>1. disk'[d][f] = disk[d][f]
        BY <2>0, <3>1, <3>3, FillsType DEF Fill
      <4>2. QED BY <2>1, <3>3, <4>1
    <3>4. QED BY <3>2, <3>3
  <2>5. CASE disk' = disk /\ Spoils(r)
    BY <2>0, <2>1, <2>5, SpoilsType
  <2>6. CASE disk' = disk /\ pc[r] # "write"
    BY <2>1, <2>6
  <2>7. QED
    BY <1>2, <2>2, <2>3, <2>4, <2>5, <2>6 DEF RunAct, RunStep, CallStep, Start, StartOne, SkipDate,
       StartDate, Look, NotFound, DownloadFails, WriteFails, InsertFails, Inserted, Parse,
       EndDate, Abort, At, files
<1>3. CASE UNCHANGED vars \/ \E e \in Day, h \in File : Publish(e, h)
  BY <1>1, <1>3 DEF vars, files, place, Publish
<1>4. QED BY <1>2, <1>3 DEF Next, RunAct

(* Alone and unspoilt, an index is parsed whole. *)
LEMMA ParsesWhole ==
  ASSUME AllInOneWorker, IInv, Unfinished, NEW r \in Run, Parse(r), spoilt[current[r]] = {}
  PROVE  Collects(r, "ok", Cascade(current[r], asked[r]))
<1> USE DEF IInv
<1>1. current[r] \in Day /\ asked[r] \in File /\ pc[r] = "parse" /\ Free(r) /\ Here(r) \in Fill
  BY DEF TypeOK, Parse, At, Here
<1>2. Here(r) # Absent
  BY <1>1 DEF Called
<1>3. \A q \in Run : pc[q] # "write"
  BY <1>1, Alone
<1>4. Here(r) = "full"
  BY <1>1, <1>2, <1>3 DEF Unfinished, Here, Fill, Absent
<1>5. Collect(r, "ok", Cascade(current[r], asked[r])) /\ UNCHANGED <<bucket, disk>>
  BY <1>4 DEF Parse, files
<1>6. QED BY <1>1, <1>5, CollectStep DEF InCall

(* A run's files are moved from asked to fetched, and an index that came   *)
(* adds what it names.                                                     *)
LEMMA CollectCascaded ==
  ASSUME TypeOK, TypeOK', NEW r \in Run, Called(r), Cascaded(r),
         NEW st \in {"ok", "not_found", "error"},
         NEW more \in SUBSET Cascade(current[r], asked[r]), Collects(r, st, more),
         spoilt[current[r]] \subseteq spoilt'[current[r]],
         st = "ok" => /\ asked[r] \in Held(current[r])
                      /\ spoilt[current[r]] = {} => more = Cascade(current[r], asked[r])
  PROVE  Cascaded(r)'
<1> DEFINE d == current[r]  f == asked[r]
<1>1. /\ results'[r] = results[r] \cup {<<f, st>>}
      /\ todo'[r] = (todo[r] \ {f}) \cup more
      /\ UNCHANGED <<disk, current>>
  BY DEF Collects, place
<1>0. Busy(r) /\ d \in Day /\ f \in File
  BY DEF Busy, Collects, TypeOK
<1>2. \A h : h \in Asked(r) \/ h \in more => h \in Asked(r)'
  <2>1. {x[1] : x \in results'[r]} = {x[1] : x \in results[r]} \cup {f}
    <3>1. <<f, st>>[1] = f
      OBVIOUS
    <3>2. QED BY <1>1, <3>1, Zenon
  <2>2. QED BY <1>1, <2>1 DEF Asked
<1>3. \A h \in File : <<h, "ok">> \in results'[r] => h \in Held(d)'
  BY <1>0, <1>1 DEF Cascaded, Held
<1>4. Core \cup {Groups} \subseteq Asked(r)'
  BY <1>0, <1>2 DEF Cascaded
<1>5. ASSUME spoilt'[d] = {}, <<Groups, "ok">> \in results'[r], NEW g \in GroupsIn[d]
      PROVE  Locations(g) \in Asked(r)'
  <2>1. CASE <<Groups, "ok">> \in results[r]
    BY <1>0, <1>2, <1>5, <2>1 DEF Cascaded
  <2>2. CASE f = Groups /\ st = "ok"
    <3>1. more = {Locations(h) : h \in GroupsIn[d]}
      BY <1>0, <1>5, <2>2, CascadeOf
    <3>2. QED BY <1>2, <3>1
  <2>3. QED BY <1>1, <1>5, <2>1, <2>2
<1>6. ASSUME spoilt'[d] = {}, NEW g \in GroupsIn[d], <<Locations(g), "ok">> \in results'[r]
      PROVE  GroupFiles(d, g) \subseteq Asked(r)'
  <2>1. CASE <<Locations(g), "ok">> \in results[r]
    BY <1>0, <1>2, <1>6, <2>1 DEF Cascaded
  <2>2. CASE f = Locations(g) /\ st = "ok"
    <3>1. more = GroupFiles(d, g)
      BY <1>0, <1>6, <2>2, CascadeOf, IndexType
    <3>2. QED BY <1>2, <3>1
  <2>3. QED BY <1>1, <1>6, <2>1, <2>2
<1>7. GroupsIn[d]' = GroupsIn[d] /\ \A g : GroupFiles(d, g)' = GroupFiles(d, g)
  BY <1>1 DEF GroupFiles
<1>8. QED
  BY <1>1, <1>3, <1>4, <1>5, <1>6, <1>7 DEF Cascaded

LEMMA CascadedStep ==
  AllInOneWorker /\ IInv /\ Unfinished /\ (\A r \in Run : Cascaded(r)) /\ [Next]_vars
    => \A r \in Run : Cascaded(r)'
<1> SUFFICES ASSUME AllInOneWorker, IInv, Unfinished, \A r \in Run : Cascaded(r), [Next]_vars,
                    NEW r \in Run
             PROVE  Cascaded(r)'
  OBVIOUS
<1> USE DEF IInv
<1>0. /\ TypeOK /\ TypeOK' /\ Called(r) /\ Cascaded(r)
      /\ \A d \in Day : spoilt[d] \subseteq spoilt'[d] /\ Held(d) \subseteq Held(d)'
  <2>1. \A d \in Day : spoilt[d] \subseteq spoilt'[d] /\ Held(d) \subseteq Held(d)'
    BY NothingGoes DEF Held
  <2>2. QED BY <2>1, TypeStep
<1>1. ASSUME UNCHANGED <<current[r], todo[r], results[r]>>, Busy(r)' => Busy(r)
      PROVE  Cascaded(r)'
  <2>1. Asked(r)' = Asked(r) /\ \A d \in Day : \A g : GroupFiles(d, g)' = GroupFiles(d, g)
    BY <1>1 DEF Asked, GroupFiles
  <2>2. current[r] \in Day
    BY DEF TypeOK
  <2>3. QED BY <1>0, <1>1, <2>1, <2>2 DEF Cascaded
<1>2. ASSUME RunAct(r) PROVE Cascaded(r)'
  <2>1. CASE Leaves(r)
    BY <2>1 DEF Leaves, Cascaded, Busy, InCall
  <2>2. CASE Begins(r)
    <3>1. results'[r] = {} /\ todo'[r] = {Account, Audit, Groups}
      BY <2>2 DEF Begins
    <3>2. Core \cup {Groups} \subseteq Asked(r)'
      BY <3>1 DEF Asked, Core
    <3>3. QED BY <3>1, <3>2 DEF Cascaded
  <2>3. CASE Looks(r) \/ Moves(r)
    <3>1. UNCHANGED <<current[r], todo[r], results[r]>> /\ Busy(r)
      BY <2>3 DEF Looks, Moves, Look, At, Busy, InCall, place
    <3>2. QED BY <1>1, <3>1
  <2>4. ASSUME NEW st \in {"ok", "not_found", "error"},
               NEW more \in SUBSET Cascade(current[r], asked[r]), Outcome(r, st, more)
        PROVE  Cascaded(r)'
    <3>0. spoilt[current[r]] \subseteq spoilt'[current[r]]
      BY <1>0 DEF TypeOK
    <3>1. CASE Parse(r)
      <4>1. PICK rows \in SUBSET Cascade(current[r], asked[r]) :
              /\ Collects(r, "ok", rows)
              /\ spoilt[current[r]] = {} => rows = Cascade(current[r], asked[r])
        <5>1. CASE spoilt[current[r]] = {}
          BY <3>1, <5>1, ParsesWhole
        <5>2. CASE spoilt[current[r]] # {}
          <6>1. pc[r] \in InCall /\ UNCHANGED <<bucket, disk>>
            BY <3>1 DEF Parse, At, InCall, files
          <6>2. PICK rows \in SUBSET Cascade(current[r], asked[r]) : Collect(r, "ok", rows)
            BY <3>1 DEF Parse
          <6>3. QED BY <5>2, <6>1, <6>2, CollectStep
        <5>3. QED BY <5>1, <5>2
      <4>2. asked[r] \in Held(current[r])
        BY <1>0, <3>1 DEF Parse, At, Called, Here, Held, TypeOK
      <4>3. QED BY <1>0, <3>0, <4>1, <4>2, CollectCascaded
    <3>2. CASE st # "ok"
      BY <1>0, <2>4, <3>0, <3>2, CollectCascaded DEF Outcome
    <3>3. QED BY <2>4, <3>1, <3>2 DEF Outcome
  <2>5. QED BY <1>0, <1>2, <2>1, <2>2, <2>3, <2>4, RunShape
<1>3. ASSUME NEW q \in Run, RunAct(q) PROVE Cascaded(r)'
  <2>1. CASE q = r
    BY <1>2, <1>3, <2>1
  <2>2. CASE q # r
    BY <1>0, <1>1, <1>3, <2>2, Apart DEF Busy
  <2>3. QED BY <2>1, <2>2
<1>4. CASE UNCHANGED vars \/ \E d \in Day, f \in File : Publish(d, f)
  BY <1>1, <1>4 DEF vars, Publish, place, Busy
<1>5. QED BY <1>3, <1>4 DEF Next, RunAct

(* In one worker fetch_date asks for every file the indexes of a date name: *)
(* if all it asked for came and no writing of the date ever failed, the     *)
(* directory is complete, whatever other runs and Backblaze do meanwhile.   *)
(* (Two workers may store one index at once, and then a run parses part.)   *)
THEOREM CleanIsComplete ==
  ASSUME AllInOneWorker
  PROVE  Spec => CleanMeansComplete
<1> DEFINE Inv == IInv /\ Unfinished /\ \A r \in Run : Cascaded(r)
           A == \A r \in Run :
                  /\ EndDate(r)
                  /\ Statuses(r, File) = {"ok"} /\ spoilt[current[r]] = {}
                  => Whole(current[r]) = Reachable(current[r])
                     /\ Held(current[r]) = Whole(current[r])
<1>1. Init => Unfinished /\ \A r \in Run : Cascaded(r)
  BY DEF Init, Unfinished, Cascaded, Busy, InCall, Absent
<1>2. Inv /\ [Next]_vars => (Unfinished /\ \A r \in Run : Cascaded(r))'
  BY UnfinishedStep, CascadedStep
<1>3. Inv /\ [Next]_vars => [A]_vars
  <2> SUFFICES ASSUME Inv, NEW r \in Run, EndDate(r), Statuses(r, File) = {"ok"},
                      spoilt[current[r]] = {}
               PROVE  Whole(current[r]) = Reachable(current[r])
                      /\ Held(current[r]) = Whole(current[r])
    BY Zenon
  <2> DEFINE d == current[r]
  <2> USE DEF IInv
  <2>1. d \in Day /\ todo[r] = {} /\ Cascaded(r) /\ pc[r] = "files" /\ Busy(r) /\ Free(r)
    BY DEF EndDate, TypeOK, At, Busy
  <2>2. \A x \in results[r] : x[1] \in File /\ x = <<x[1], x[2]>>
    BY DEF TypeOK
  <2>3. \A f \in File : f \in Asked(r) => <<f, "ok">> \in results[r]
    <3> SUFFICES ASSUME NEW f \in File, f \in Asked(r) PROVE <<f, "ok">> \in results[r]
      OBVIOUS
    <3>1. PICK x \in results[r] : x[1] = f
      BY <2>1 DEF Asked
    <3>2. x[2] \in Statuses(r, File)
      BY <2>2, <3>1 DEF Statuses
    <3>3. QED BY <2>2, <3>1, <3>2
  <2>4. \A f \in File : f \in Asked(r) => f \in Held(d)
    BY <2>1, <2>3 DEF Cascaded
  <2>5. Core \cup {Groups} \subseteq File /\ \A g \in Group : Locations(g) \in File
    BY DEF File, Index, Data
  <2>6. Core \cup {Groups} \subseteq Held(d) /\ <<Groups, "ok">> \in results[r]
    BY <2>1, <2>3, <2>4, <2>5 DEF Cascaded
  <2>7. ASSUME NEW g \in GroupsIn[d]
        PROVE  Locations(g) \in Held(d) /\ <<Locations(g), "ok">> \in results[r]
    <3>1. Locations(g) \in File
      BY <2>1, <2>5, IndexType
    <3>2. Locations(g) \in Asked(r)
      BY <2>1, <2>6 DEF Cascaded
    <3>3. QED BY <2>3, <2>4, <3>1, <3>2
  <2>8. ASSUME NEW g \in GroupsIn[d], NEW l \in RegionsIn[d][g]
        PROVE  {Usage(g, l), AuditGroup(g, l)} \subseteq Held(d)
    <3>1. {Usage(g, l), AuditGroup(g, l)} \subseteq File
      BY <2>1, IndexType DEF File, Data
    <3>2. {Usage(g, l), AuditGroup(g, l)} \subseteq Asked(r)
      BY <2>1, <2>7 DEF Cascaded, GroupFiles
    <3>3. QED BY <2>4, <3>1, <3>2
  <2>9. Reachable(d) \subseteq Held(d)
    <3>1. \A g \in GroupsIn[d] : GroupFiles(d, g) \subseteq Held(d)
      BY <2>8 DEF GroupFiles
    <3>2. {Locations(g) : g \in GroupsIn[d]} \subseteq Held(d)
      BY <2>7
    <3>3. QED BY <2>6, <3>1, <3>2 DEF Reachable
  <2>10. Held(d) = Whole(d)
    <3>1. \A q \in Run : pc[q] # "write"
      BY <2>1, Alone
    <3>2. \A f \in File : disk[d][f] \in Fill /\ disk[d][f] \notin {"empty", "part"}
      <4>1. \A f \in File : disk[d][f] \in {"empty", "part"} => f \in spoilt[d]
        BY <2>1, <3>1 DEF Unfinished
      <4>2. \A f \in File : disk[d][f] \in Fill
        BY <2>1 DEF TypeOK
      <4>3. QED BY <4>1, <4>2
    <3>3. QED BY <3>2 DEF Held, Whole, Fill, Absent
  <2>11. QED BY <2>1, <2>9, <2>10 DEF HeldIsNamed
<1>4. QED BY <1>1, <1>2, <1>3, Invariance, PTL DEF Spec, CleanMeansComplete

-----------------------------------------------------------------------------
(* A lone run: what it finds in a directory an earlier run of its own left. *)
Deeper == File \ (Core \cup {Groups})

Full(d, f) == disk[d][f] \in {"part", "full"}

(* A deeper file, there or to come, was named by the groups index, ... *)
IndexFirst(r) ==
  \A d \in Day, f \in Deeper :
    f \in Held(d) \/ (Busy(r) /\ d = current[r] /\ f \in todo[r]) => Full(d, Groups)

(* ... which a run that finds one has or will have for an answer, ... *)
IndexCame(r) ==
  Busy(r) /\ Groups \notin todo[r] /\ <<Groups, "ok">> \notin results[r] =>
    \A f \in Deeper : f \notin Held(current[r]) \cup todo[r]

(* ... so that it does not download it. *)
IndexNew(r) ==
  pc[r] \in {"download", "write", "insert"} /\ asked[r] = Groups =>
    \A f \in Deeper : f \notin Held(current[r]) \cup todo[r]

(* Nothing is downloaded that is there. *)
OnlyMissing(r) == pc[r] = "download" => ~Full(current[r], asked[r])

(* An empty file is of a write that failed or is under way. *)
EmptyIsSpoilt(r) ==
  \A d \in Day, f \in File :
    disk[d][f] = "empty" =>
      f \in spoilt[d] \/ (pc[r] = "write" /\ d = current[r] /\ f = asked[r])

(* A file of the first three that is there is or will be an answer. *)
ThereIsAnswer(r) ==
  Busy(r) => \A f \in Core \cup {Groups} :
    Full(current[r], f) =>
      f \in todo[r] \/ <<f, "ok">> \in results[r] \/ f \in spoilt[current[r]]

(* The dates are reported in order, those that failed as the property says. *)
InOrder(r) ==
  \A d \in Day : pc[r] # "idle" /\ status[r][d] # "none" => d < current[r]

Retried(r) ==
  \A d \in Day : status[r][d] \in {"no_data", "error"} => Held(d) \subseteq spoilt[d]

Lone(r) ==
  /\ IndexFirst(r) /\ IndexCame(r) /\ IndexNew(r) /\ OnlyMissing(r)
  /\ EmptyIsSpoilt(r) /\ ThereIsAnswer(r) /\ InOrder(r) /\ Retried(r)

LEMMA FirstFiles == Core \cup {Groups} \subseteq File /\ Groups \notin Deeper
BY DEF File, Index, Data, Deeper

(* A step through a call touches the file it is about. *)
LEMMA MoveDisk ==
  ASSUME TypeOK, NEW r \in Run, RunAct(r), Moves(r)
  PROVE  /\ \A d \in Day, f \in File :
              <<d, f>> # <<current[r], asked[r]>> => disk'[d][f] = disk[d][f]
         /\ \/ pc[r] = "download" /\ pc'[r] = "write" /\ disk'[current[r]][asked[r]] = "empty"
            \/ pc[r] = "write" /\ Full(current[r], asked[r])'
            \/ pc[r] = "insert" /\ disk' = disk
<1>0. UNCHANGED <<current, asked>>
  BY DEF Moves, place
<1>1. CASE Receive(r)
  <2>1. pc[r] = "download" /\ pc'[r] = "write" /\ Fills(r, "empty")
    BY <1>1 DEF Receive, At, Goto, TypeOK
  <2>2. QED BY <2>1, FillsType DEF Fill
<1>2. CASE Grow(r) \/ Written(r)
  <2>1. PICK fill \in {"part", "full"} : Fills(r, fill)
    BY <1>2 DEF Grow, Written
  <2>2. pc[r] = "write"
    BY <1>2 DEF Grow, Written, At
  <2>3. QED BY <1>0, <2>1, <2>2, FillsType DEF Fill, Full
<1>3. CASE Inserted(r)
  BY <1>3 DEF Inserted, At, files
<1>4. QED
  BY <1>1, <1>2, <1>3 DEF Moves, RunAct, RunStep, CallStep, Start, StartOne, SkipDate, StartDate,
     Look, NotFound, DownloadFails, WriteFails, InsertFails, Parse, EndDate, Abort, At, Collect,
     Goto, TypeOK

(* The groups index names locations, these the files; nothing names back. *)
LEMMA CascadeDeeper ==
  ASSUME NEW d \in Day, NEW f \in File
  PROVE  /\ Cascade(d, f) \subseteq Deeper
         /\ f \in Core => Cascade(d, f) = {}
<1>1. /\ \A g : Locations(g) \notin Core \cup {Groups}
      /\ \A g, l : Usage(g, l) \notin Core \cup {Groups} /\ AuditGroup(g, l) \notin Core \cup {Groups}
  BY DEF Core, Account, Audit, Groups, Locations, Usage, AuditGroup
<1>2. Cascade(d, f) \subseteq File
  BY CascadeType
<1>3. CASE f = Groups
  <2>1. Groups \notin Core
    BY DEF Groups, Core, Account, Audit
  <2>2. QED BY <1>1, <1>2, <1>3, <2>1, CascadeOf DEF Deeper
<1>4. ASSUME NEW g \in Group, f = Locations(g)
      PROVE  Cascade(d, f) \subseteq Deeper /\ f \notin Core
  BY <1>1, <1>2, <1>4, CascadeOf DEF Deeper, GroupFiles
<1>5. CASE f \in Data
  BY <1>5, CascadeOf
<1>6. QED
  BY <1>3, <1>4, <1>5, CascadeOf DEF File, Index, Data


LEMMA LoneStep ==
  ASSUME NEW r, Run = {r}, IInv, TypeOK', Lone(r), [Next]_vars
  PROVE  Lone(r)'
<1> USE DEF IInv
<1> DEFINE d == current[r]  a == asked[r]
<1>0. /\ r \in Run /\ d \in Day /\ a \in File /\ last[r] \in Day /\ \A e \in Day : e \in Int
      /\ disk[d] \in [File -> Fill]
  BY FetchAssumption DEF TypeOK
<1>1. CASE UNCHANGED vars \/ \E e \in Day, f \in File : Publish(e, f)
  <2>1. UNCHANGED <<disk, spoilt, pc, asked, current, last, todo, results, status>>
    BY <1>1 DEF vars, files, place, Publish
  <2>2. QED BY <2>1 DEF Lone, IndexFirst, IndexCame, IndexNew, OnlyMissing, EmptyIsSpoilt,
     ThereIsAnswer, InOrder, Retried, Held, Full, Busy
<1>2. ASSUME RunAct(r), Looks(r) PROVE Lone(r)'
  <2>1. PICK f \in File : /\ asked'[r] = f /\ f \in todo[r] /\ pc[r] = "files"
                          /\ pc'[r] = (IF Full(d, f) THEN "parse" ELSE "download")
                          /\ UNCHANGED <<todo, results, current, last, status, disk, spoilt>>
    BY <1>2 DEF Looks, Look, At, Full, place, files
  <2>2. Busy(r) /\ Busy(r)' /\ pc'[r] \in {"parse", "download"}
    BY <2>1 DEF Busy, InCall
  <2>3. IndexFirst(r)' /\ IndexCame(r)' /\ ThereIsAnswer(r)'
    BY <2>1, <2>2 DEF Lone, IndexFirst, IndexCame, ThereIsAnswer, Held, Full
  <2>4. IndexNew(r)'
    BY <1>0, <2>1, <2>2 DEF Lone, IndexFirst, IndexNew, Held, Full
  <2>5. OnlyMissing(r)' /\ EmptyIsSpoilt(r)'
    BY <2>1 DEF Lone, OnlyMissing, EmptyIsSpoilt, Full
  <2>6. InOrder(r)' /\ Retried(r)'
    BY <2>1 DEF Lone, InOrder, Retried, Held
  <2>7. QED BY <2>3, <2>4, <2>5, <2>6 DEF Lone
<1>3. ASSUME RunAct(r), Begins(r) PROVE Lone(r)'
  <2>1. /\ UNCHANGED <<disk, spoilt>> /\ pc'[r] = "files" /\ Busy(r)' /\ pc[r] # "write"
        /\ todo'[r] = Core \cup {Groups}
    BY <1>3 DEF Begins, Busy, files, Core, StartOne, StartDate
  <2>2. IndexFirst(r)' /\ IndexCame(r)' /\ IndexNew(r)' /\ OnlyMissing(r)'
    BY <2>1 DEF Lone, IndexFirst, IndexCame, IndexNew, OnlyMissing, Held, Full, Deeper
  <2>3. EmptyIsSpoilt(r)' /\ ThereIsAnswer(r)'
    BY <2>1 DEF Lone, EmptyIsSpoilt, ThereIsAnswer, Full
  <2>4. InOrder(r)' /\ Retried(r)'
    <3>1. CASE StartDate(r)
      <4>1. UNCHANGED <<current, status>> /\ pc[r] # "idle"
        BY <3>1 DEF StartDate, place
      <4>2. QED BY <2>1, <4>1 DEF Lone, InOrder, Retried, Held
    <3>2. ASSUME NEW e \in ByHand, StartOne(r, e) PROVE InOrder(r)' /\ Retried(r)'
      BY <3>2 DEF StartOne, InOrder, Retried, TypeOK
    <3>3. QED BY <1>3, <3>1, <3>2 DEF Begins
  <2>5. QED BY <2>2, <2>3, <2>4 DEF Lone
<1>4. ASSUME RunAct(r), Moves(r) PROVE Lone(r)'
  <2>1. /\ UNCHANGED <<todo, results, current, last, status, asked, spoilt>>
        /\ Busy(r) /\ Busy(r)' /\ a \in todo[r]
        /\ pc[r] \in {"download", "write", "insert"} /\ pc'[r] \in {"write", "insert", "parse"}
    BY <1>4 DEF Moves, Busy, InCall, place, Called
  <2>2. \A e \in Day, f \in File : <<e, f>> # <<d, a>> => disk'[e][f] = disk[e][f]
    BY <1>0, <1>4, MoveDisk
  <2>3. \/ pc[r] = "download" /\ pc'[r] = "write" /\ disk'[d][a] = "empty"
        \/ pc[r] = "write" /\ Full(d, a)'
        \/ pc[r] = "insert" /\ disk' = disk
    BY <1>0, <1>4, <2>1, MoveDisk DEF Full
  <2>4. \A e \in Day, f \in File : f \in Held(e)' => f \in Held(e) \/ (e = d /\ f = a)
    BY <2>2 DEF Held
  <2>5. IndexCame(r)'
    <3> SUFFICES ASSUME Groups \notin todo[r], <<Groups, "ok">> \notin results[r], NEW f \in Deeper
                 PROVE  f \notin Held(d)' \cup todo[r]
      BY <2>1 DEF IndexCame
    <3>1. f \notin Held(d) \cup todo[r] /\ f # a /\ f \in File
      BY <2>1 DEF Lone, IndexCame, Deeper
    <3>2. QED BY <1>0, <2>1, <2>4, <3>1
  <2>6. IndexNew(r)'
    <3>1. CASE a = Groups
      <4>1. ASSUME NEW f \in Deeper PROVE f \notin Held(d)' \cup todo[r]
        <5>1. f \notin Held(d) \cup todo[r] /\ f # a /\ f \in File
          BY <2>1, <3>1, FirstFiles DEF Lone, IndexNew, Deeper
        <5>2. QED BY <1>0, <2>1, <2>4, <5>1
      <4>2. QED BY <2>1, <4>1 DEF IndexNew
    <3>2. CASE a # Groups
      BY <2>1, <3>2 DEF IndexNew
    <3>3. QED BY <3>1, <3>2
  <2>7. IndexFirst(r)'
    <3> SUFFICES ASSUME NEW e \in Day, NEW f \in Deeper, f \in Held(e)' \/ (e = d /\ f \in todo[r])
                 PROVE  Full(e, Groups)'
      BY <2>1 DEF IndexFirst
    <3>1. Full(e, Groups)
      BY <1>0, <2>1, <2>4 DEF Lone, IndexFirst, Deeper
    <3>2. CASE <<e, Groups>> # <<d, a>>
      BY <2>2, <3>1, <3>2, FirstFiles DEF Full
    <3>3. CASE e = d /\ a = Groups
      <4>1. f \notin Held(d) \cup todo[r]
        BY <2>1, <3>3 DEF Lone, IndexNew
      <4>2. f # a
        BY <3>3, FirstFiles
      <4>3. QED BY <2>4, <3>3, <4>1, <4>2 DEF Deeper
    <3>4. QED BY <3>2, <3>3
  <2>8. OnlyMissing(r)'
    BY <2>1 DEF OnlyMissing
  <2>9. EmptyIsSpoilt(r)'
    <3> SUFFICES ASSUME NEW e \in Day, NEW f \in File, disk'[e][f] = "empty"
                 PROVE  f \in spoilt[e] \/ (pc'[r] = "write" /\ e = d /\ f = a)
      BY <2>1 DEF EmptyIsSpoilt
    <3>1. CASE <<e, f>> # <<d, a>>
      BY <2>2, <3>1 DEF Lone, EmptyIsSpoilt
    <3>2. CASE e = d /\ f = a
      <4>1. CASE pc[r] = "insert" /\ disk' = disk
        BY <3>2, <4>1 DEF Lone, EmptyIsSpoilt
      <4>2. QED BY <2>1, <2>3, <3>2, <4>1 DEF Full
    <3>3. QED BY <3>1, <3>2
  <2>10. ThereIsAnswer(r)'
    BY <1>0, <2>1, <2>2, FirstFiles DEF Lone, ThereIsAnswer, Full
  <2>11. InOrder(r)'
    BY <2>1 DEF Lone, InOrder, Busy
  <2>12. Retried(r)'
    <3> SUFFICES ASSUME NEW e \in Day, status[r][e] \in {"no_data", "error"}
                 PROVE  Held(e)' \subseteq spoilt[e]
      BY <2>1 DEF Retried
    <3>1. e < d
      BY <2>1 DEF Lone, InOrder
    <3>2. e # d
      BY <1>0, <3>1
    <3>3. QED BY <2>4, <3>2 DEF Lone, Retried, Held
  <2>13. QED BY <2>5, <2>6, <2>7, <2>8, <2>9, <2>10, <2>11, <2>12 DEF Lone
<1>5. ASSUME RunAct(r), NEW st \in {"ok", "not_found", "error"}, NEW more \in SUBSET Cascade(d, a),
             Outcome(r, st, more)
      PROVE  Lone(r)'
  <2>1. /\ pc[r] \in InCall /\ pc'[r] = "files" /\ Busy(r) /\ Busy(r)' /\ a \in todo[r]
        /\ todo'[r] = (todo[r] \ {a}) \cup more
        /\ results'[r] = results[r] \cup {<<a, st>>}
        /\ UNCHANGED <<disk, current, last, status>>
        /\ more \subseteq Deeper /\ (a \in Core => more = {})
    BY <1>0, <1>5, CascadeDeeper DEF Outcome, Collects, Busy, Called, place
  <2>2. \A e \in Day : spoilt[e] \subseteq spoilt'[e]
    BY NothingGoes
  <2>3. IndexFirst(r)'
    <3> SUFFICES ASSUME NEW e \in Day, NEW f \in Deeper,
                        f \in Held(e) \/ (e = d /\ f \in (todo[r] \ {a}) \cup more)
                 PROVE  Full(e, Groups)
      BY <2>1 DEF IndexFirst, Full, Held
    <3>1. CASE f \in Held(e) \/ (e = d /\ f \in todo[r])
      BY <2>1, <3>1 DEF Lone, IndexFirst
    <3>2. CASE e = d /\ f \in more
      <4>1. CASE a = Groups
        BY <1>5, <3>2, <4>1 DEF Outcome, Here, Full
      <4>2. CASE a \in Deeper
        BY <1>0, <2>1, <3>2, <4>2 DEF Lone, IndexFirst
      <4>3. QED BY <1>0, <2>1, <3>2, <4>1, <4>2 DEF Deeper
    <3>3. QED BY <3>1, <3>2
  <2>4. IndexCame(r)'
    <3> SUFFICES ASSUME Groups \notin (todo[r] \ {a}) \cup more,
                        <<Groups, "ok">> \notin results[r] \cup {<<a, st>>}, NEW f \in Deeper
                 PROVE  f \notin Held(d) \cup ((todo[r] \ {a}) \cup more)
      BY <2>1 DEF IndexCame, Held
    <3>1. CASE a = Groups
      <4>1. st # "ok" /\ more = {}
        BY <1>5, <3>1 DEF Outcome
      <4>2. pc[r] # "parse"
        BY <1>5, <4>1 DEF Outcome
      <4>3. QED BY <2>1, <3>1, <4>1, <4>2 DEF Lone, IndexNew, InCall
    <3>2. CASE a # Groups
      <4>1. f \notin Held(d) \cup todo[r] /\ a \notin Deeper
        BY <2>1, <3>2 DEF Lone, IndexCame
      <4>2. more = {}
        BY <1>0, <2>1, <3>2, <4>1 DEF Deeper
      <4>3. QED BY <4>1, <4>2
    <3>3. QED BY <3>1, <3>2
  <2>5. IndexNew(r)' /\ OnlyMissing(r)'
    BY <2>1 DEF IndexNew, OnlyMissing
  <2>6. EmptyIsSpoilt(r)'
    <3>1. pc[r] = "write" => a \in spoilt'[d]
      <4>1. CASE pc[r] = "write"
        <5>1. st # "ok"
          BY <1>5, <4>1 DEF Outcome, Parse, At
        <5>2. QED BY <1>5, <4>1, <5>1 DEF Outcome
      <4>2. QED BY <4>1
    <3>2. QED BY <2>1, <2>2, <3>1 DEF Lone, EmptyIsSpoilt
  <2>7. ThereIsAnswer(r)'
    <3>1. Full(d, a) => st = "ok" \/ a \in spoilt'[d]
      BY <1>5 DEF Outcome, Lone, OnlyMissing
    <3>2. ASSUME NEW f \in Core \cup {Groups}, Full(d, f)
          PROVE  f \in todo'[r] \/ <<f, "ok">> \in results'[r] \/ f \in spoilt'[d]
      <4>1. CASE f = a
        BY <2>1, <3>1, <3>2, <4>1
      <4>2. CASE f # a
        BY <1>0, <2>1, <2>2, <3>2, <4>2 DEF Lone, ThereIsAnswer
      <4>3. QED BY <4>1, <4>2
    <3>3. QED BY <2>1, <3>2 DEF ThereIsAnswer, Full
  <2>8. InOrder(r)' /\ Retried(r)'
    BY <2>1, <2>2 DEF Lone, InOrder, Retried, Held, Busy, InCall
  <2>9. QED BY <2>3, <2>4, <2>5, <2>6, <2>7, <2>8 DEF Lone
<1>6. ASSUME RunAct(r), Leaves(r) PROVE Lone(r)'
  <2>1. disk' = disk /\ ~Busy(r)' /\ pc'[r] \in {"idle", "date"}
    BY <1>6 DEF Leaves, Busy, InCall
  <2>2. \A e \in Day : spoilt[e] \subseteq spoilt'[e]
    BY NothingGoes
  <2>3. IndexFirst(r)' /\ IndexCame(r)' /\ IndexNew(r)' /\ OnlyMissing(r)' /\ ThereIsAnswer(r)'
    BY <2>1 DEF Lone, IndexFirst, IndexCame, IndexNew, OnlyMissing, ThereIsAnswer, Held, Full
  <2>4. EmptyIsSpoilt(r)'
    <3>1. pc[r] = "write" => Spoils(r)
      BY <1>6 DEF Leaves, SkipDate, EndDate, Abort, Start, At
    <3>2. pc[r] = "write" => a \in spoilt'[d]
      BY <3>1, SpoilsType, <1>0
    <3>3. QED BY <2>1, <2>2, <3>2 DEF Lone, EmptyIsSpoilt
  <2>5. InOrder(r)' /\ Retried(r)'
    <3>1. ASSUME NEW s \in {"cached", "fetched", "no_data", "error"}, pc[r] # "idle",
                 Report(r, s), Advance(r),
                 s \in {"no_data", "error"} => Held(d) \subseteq spoilt[d]
          PROVE  InOrder(r)' /\ Retried(r)'
      <4>1. status'[r][d] = s /\ \A e \in Day \ {d} : status'[r][e] = status[r][e]
        BY <1>0, <3>1 DEF Report, TypeOK
      <4>2. Retried(r)'
        BY <2>1, <2>2, <3>1, <4>1 DEF Lone, Retried, Held
      <4>3. \A e \in Day : status'[r][e] # "none" => e = d \/ e < d
        BY <3>1, <4>1 DEF Lone, InOrder
      <4>4. pc'[r] = "idle" \/ current'[r] = d + 1
        BY <1>0, <3>1 DEF Advance, Goto, TypeOK
      <4>5. \A e \in Day : e = d \/ e < d => e < d + 1
        BY <1>0
      <4>6. QED BY <4>2, <4>3, <4>4, <4>5 DEF InOrder
    <3>2. CASE SkipDate(r)
      BY <3>1, <3>2 DEF SkipDate
    <3>3. CASE EndDate(r)
      <4>1. ASSUME ~AnyOk(r), NEW f \in Held(d) PROVE f \in spoilt[d]
        <5>0. pc[r] = "files" /\ todo[r] = {} /\ Busy(r)
          BY <3>3 DEF EndDate, At, Busy
        <5>1. \A h \in File : <<h, "ok">> \notin results[r]
          <6> SUFFICES ASSUME NEW h \in File, <<h, "ok">> \in results[r] PROVE FALSE
            OBVIOUS
          <6>1. <<h, "ok">> \in {y \in results[r] : y[1] \in File}
            OBVIOUS
          <6>2. <<h, "ok">>[2] \in Statuses(r, File)
            BY <6>1, Zenon DEF Statuses
          <6>3. QED BY <4>1, <6>2 DEF AnyOk
        <5>2. f \in Core \cup {Groups}
          BY <4>1, <5>0, <5>1, FirstFiles DEF Lone, IndexCame, Deeper, Held
        <5>3. CASE disk[d][f] = "empty"
          BY <1>0, <4>1, <5>0, <5>3 DEF Lone, EmptyIsSpoilt, Held
        <5>4. CASE Full(d, f)
          BY <5>0, <5>1, <5>2, <5>4, FirstFiles DEF Lone, ThereIsAnswer
        <5>5. disk[d][f] \in Fill /\ disk[d][f] # Absent
          BY <1>0, <4>1 DEF Held
        <5>6. QED BY <5>3, <5>4, <5>5 DEF Fill, Full, Absent
      <4>2. PICK s \in {"fetched", "no_data", "error"} :
              Report(r, s) /\ (s # "fetched" => ~AnyOk(r))
        BY <3>3 DEF EndDate
      <4>3. QED BY <3>1, <3>3, <4>1, <4>2 DEF EndDate, At
    <3>4. CASE Abort(r) \/ \E from, to \in Day : Start(r, from, to)
      <4>1. \A e \in Day : status'[r][e] = "none"
        BY <1>0, <3>4 DEF Abort, Start, TypeOK
      <4>2. QED BY <4>1 DEF InOrder, Retried
    <3>5. QED BY <1>6, <3>2, <3>3, <3>4 DEF Leaves
  <2>6. QED BY <2>3, <2>4, <2>5 DEF Lone
<1>7. CASE RunAct(r)
  BY <1>0, <1>2, <1>3, <1>4, <1>5, <1>6, <1>7, RunShape
<1>8. QED BY <1>1, <1>7 DEF Next, RunAct

(* Of a date that a lone run reports as no_data or error nothing is there  *)
(* but what a failed write or INSERT left, whatever fails and whenever the *)
(* run is cut short: has_data and the summary of fetch_date agree.         *)
THEOREM LoneRunRetries ==
  ASSUME NEW CONSTANT r, Run = {r}
  PROVE  Spec => []UnfetchedIsRetried
<1>1. Init => Lone(r)
  BY DEF Init, Lone, IndexFirst, IndexCame, IndexNew, OnlyMissing, EmptyIsSpoilt, ThereIsAnswer,
     InOrder, Retried, Held, Full, Busy, InCall, Absent
<1>2. IInv /\ Lone(r) /\ [Next]_vars => Lone(r)'
  BY LoneStep, TypeStep DEF IInv
<1>3. Lone(r) => UnfetchedIsRetried
  BY DEF Lone, Retried, UnfetchedIsRetried
<1>4. QED BY <1>1, <1>2, <1>3, Invariance, PTL DEF Spec

-----------------------------------------------------------------------------
(* The argument of RunEnds: within a date a run asks for one file after    *)
(* another of those the indexes name, each once, every call goes forward,  *)
(* and so do the dates.                                                     *)
Tried(r) == {x[1] : x \in results[r]}

(* What is to do has not been tried yet and is of the date; a file that was *)
(* tried or is to do was named by an index that has been tried.             *)
InTurn(r) ==
  Busy(r) =>
    /\ todo[r] \cap Tried(r) = {}
    /\ todo[r] \subseteq Reachable(current[r])
    /\ \A g \in Group : Locations(g) \in Asked(r) => Groups \in Tried(r)
    /\ \A g \in Group, l \in Region :
         {Usage(g, l), AuditGroup(g, l)} \cap Asked(r) # {} => Locations(g) \in Tried(r)

(* The places of a call, in order. *)
Stage == [p \in {"files"} \cup InCall |->
            CASE p = "files" -> 0 [] p = "download" -> 1 [] p = "write" -> 2
              [] p = "insert" -> 3 [] p = "parse" -> 4]

Onward(r) ==
  \/ pc'[r] = "idle"
  \/ current'[r] = current[r] + 1 /\ current'[r] <= last[r] /\ last'[r] = last[r]
  \/ UNCHANGED <<current[r], last[r]>> /\ pc[r] = "date" /\ pc'[r] = "files"
  \/ /\ UNCHANGED <<current[r], last[r]>> /\ Busy(r) /\ Busy(r)'
     /\ \/ Tried(r)' = Tried(r) /\ Stage[pc[r]] < Stage[pc'[r]]
        \/ \E f \in Reachable(current[r]) \ Tried(r) : Tried(r)' = Tried(r) \cup {f}

(* Files of different kinds, groups or regions are different files. *)
LEMMA FilesDiffer ==
  /\ \A g : Locations(g) \notin Core \cup {Groups}
  /\ \A g, l : Usage(g, l) \notin Core \cup {Groups} /\ AuditGroup(g, l) \notin Core \cup {Groups}
  /\ \A g, h : Locations(g) = Locations(h) => g = h
  /\ \A g, h, l : Usage(g, l) # Locations(h) /\ AuditGroup(g, l) # Locations(h)
  /\ \A g, h, l, m :
       {Usage(g, l), AuditGroup(g, l)} \cap {Usage(h, m), AuditGroup(h, m)} # {} => g = h
BY DEF Core, Account, Audit, Groups, Locations, Usage, AuditGroup

LEMMA TriedStep ==
  ASSUME TypeOK, NEW r \in Run, NEW st, NEW more, Collects(r, st, more)
  PROVE  Tried(r)' = Tried(r) \cup {asked[r]}
<1>1. results'[r] = results[r] \cup {<<asked[r], st>>} /\ <<asked[r], st>>[1] = asked[r]
  BY DEF Collects
<1>2. QED BY <1>1 DEF Tried

(* A file that has been tried does not come back. *)
LEMMA CollectInTurn ==
  ASSUME TypeOK, NEW r \in Run, Called(r), InTurn(r), NEW st,
         NEW more \in SUBSET Cascade(current[r], asked[r]), Collects(r, st, more)
  PROVE  InTurn(r)'
<1> DEFINE d == current[r]  f == asked[r]
<1>1. /\ Tried(r)' = Tried(r) \cup {f} /\ todo'[r] = (todo[r] \ {f}) \cup more
      /\ current' = current
  BY TriedStep DEF Collects, place
<1>2. /\ d \in Day /\ f \in File /\ f \notin Tried(r) /\ f \in Reachable(d)
      /\ f \in Asked(r) /\ Reachable(current[r])' = Reachable(d) /\ Busy(r)
  <2>1. d \in Day /\ f \in File /\ f \in todo[r] /\ Busy(r)
    BY DEF TypeOK, Collects, Called, Busy
  <2>2. f \notin Tried(r) /\ f \in Reachable(d) /\ f \in Asked(r)
    BY <2>1 DEF InTurn, Asked
  <2>3. Reachable(current[r])' = Reachable(d)
    BY <1>1 DEF Reachable, GroupFiles
  <2>4. QED BY <2>1, <2>2, <2>3
<1>0. Asked(r) = Tried(r) \cup todo[r] /\ Asked(r)' = Tried(r)' \cup todo'[r]
  BY DEF Asked, Tried
<1>3. \A h : h \in Asked(r)' <=> h \in Asked(r) \/ h \in more
  BY <1>0, <1>1, <1>2
<1>4. CASE more = {}
  BY <1>1, <1>2, <1>3, <1>4 DEF InTurn
<1>5. CASE f = Groups
  <2>0. more \subseteq {Locations(g) : g \in GroupsIn[d]}
    BY <1>2, <1>5, CascadeOf
  <2>1. \A g \in Group : Locations(g) \notin Asked(r)
    BY <1>2, <1>5 DEF InTurn
  <2>2. more \cap Tried(r)' = {}
    BY <1>0, <1>1, <1>2, <1>5, <2>0, <2>1, IndexType, FilesDiffer
  <2>3. more \subseteq Reachable(d)
    BY <2>0 DEF Reachable
  <2>4. \A g \in Group, l \in Region : {Usage(g, l), AuditGroup(g, l)} \cap more = {}
    BY <2>0, FilesDiffer
  <2>5. QED BY <1>1, <1>2, <1>3, <1>5, <2>2, <2>3, <2>4 DEF InTurn
<1>6. ASSUME NEW g \in Group, f = Locations(g) PROVE InTurn(r)'
  <2>0. more \subseteq GroupFiles(d, g)
    BY <1>2, <1>6, CascadeOf
  <2>1. g \in GroupsIn[d]
    <3>1. f \notin Core \cup {Groups} /\ \A h \in GroupsIn[d] : f \notin GroupFiles(d, h)
      BY <1>6, FilesDiffer DEF GroupFiles
    <3>2. PICK h \in GroupsIn[d] : f = Locations(h)
      BY <1>2, <3>1 DEF Reachable
    <3>3. QED BY <1>6, <3>2, FilesDiffer
  <2>2. ASSUME NEW l \in Region PROVE Usage(g, l) \notin Asked(r) /\ AuditGroup(g, l) \notin Asked(r)
    BY <1>2, <1>6 DEF InTurn
  <2>3. more \cap Tried(r)' = {}
    <3>1. RegionsIn[d][g] \subseteq Region
      BY <1>2, IndexType
    <3>2. \A h \in more : h \notin Asked(r) /\ h # f
      BY <1>6, <2>0, <2>2, <3>1, FilesDiffer DEF GroupFiles
    <3>3. QED BY <1>0, <1>1, <3>2
  <2>4. more \subseteq Reachable(d)
    BY <2>0, <2>1 DEF Reachable
  <2>5. \A h \in Group : Locations(h) \notin more
    BY <2>0, FilesDiffer DEF GroupFiles
  <2>6. ASSUME NEW h \in Group, NEW l \in Region, {Usage(h, l), AuditGroup(h, l)} \cap more # {}
        PROVE  h = g
    <3>1. PICK m : {Usage(h, l), AuditGroup(h, l)} \cap {Usage(g, m), AuditGroup(g, m)} # {}
      BY <2>0, <2>6 DEF GroupFiles
    <3>2. QED BY <3>1, FilesDiffer
  <2>7. QED BY <1>1, <1>2, <1>3, <1>6, <2>3, <2>4, <2>5, <2>6 DEF InTurn
<1>7. QED BY <1>2, <1>4, <1>5, <1>6, CascadeOf DEF File, Index

LEMMA InTurnStep ==
  ASSUME IInv, NEW r \in Run, InTurn(r), [Next]_vars
  PROVE  InTurn(r)'
<1> USE DEF IInv
<1>1. ASSUME UNCHANGED <<current[r], todo[r], results[r]>>, Busy(r)' => Busy(r) PROVE InTurn(r)'
  <2>1. Tried(r)' = Tried(r) /\ Asked(r)' = Asked(r)
    BY <1>1 DEF Tried, Asked
  <2>2. Reachable(current[r])' = Reachable(current[r])
    BY <1>1 DEF Reachable, GroupFiles
  <2>3. QED BY <1>1, <2>1, <2>2 DEF InTurn
<1>2. ASSUME RunAct(r) PROVE InTurn(r)'
  <2>1. CASE Leaves(r)
    BY <2>1 DEF Leaves, InTurn, Busy, InCall
  <2>2. CASE Begins(r)
    <3>1. results'[r] = {} /\ todo'[r] = Core \cup {Groups}
      BY <2>2 DEF Begins, Core
    <3>2. Tried(r)' = {} /\ Asked(r)' = Core \cup {Groups}
      BY <3>1 DEF Tried, Asked
    <3>3. Core \cup {Groups} \subseteq Reachable(current[r])'
      BY DEF Reachable
    <3>4. QED BY <3>1, <3>2, <3>3, FilesDiffer DEF InTurn
  <2>3. CASE Looks(r) \/ Moves(r)
    <3>1. UNCHANGED <<current[r], todo[r], results[r]>> /\ Busy(r)
      BY <2>3 DEF Looks, Moves, Look, At, Busy, InCall, place
    <3>2. QED BY <1>1, <3>1
  <2>4. ASSUME NEW st \in {"ok", "not_found", "error"},
               NEW more \in SUBSET Cascade(current[r], asked[r]), Outcome(r, st, more)
        PROVE  InTurn(r)'
    BY <2>4, CollectInTurn DEF Outcome
  <2>5. QED BY <1>2, <2>1, <2>2, <2>3, <2>4, RunShape
<1>3. ASSUME NEW q \in Run, RunAct(q) PROVE InTurn(r)'
  <2>1. CASE q = r
    BY <1>2, <1>3, <2>1
  <2>2. CASE q # r
    BY <1>1, <1>3, <2>2, Apart DEF Busy
  <2>3. QED BY <2>1, <2>2
<1>4. CASE UNCHANGED vars \/ \E d \in Day, f \in File : Publish(d, f)
  BY <1>1, <1>4 DEF vars, Publish, place, Busy
<1>5. QED BY <1>3, <1>4 DEF Next, RunAct

(* Every step of a run takes it on: to its end, to a later date of its      *)
(* range, to a later place of a call, or past a file of its date that it    *)
(* had not tried.  So it ends when a date has finitely many files, whatever *)
(* is missing or fails, and never asks twice for one (fetch_date,           *)
(* fetch_date_range).                                                       *)
THEOREM RunsGoOnward == Spec => [][\A r \in Run : RunStep(r) => Onward(r)]_vars
<1> DEFINE Inv == IInv /\ \A r \in Run : InTurn(r)
<1>1. Init => \A r \in Run : InTurn(r)
  BY DEF Init, InTurn, Busy, InCall
<1>2. IInv /\ (\A r \in Run : InTurn(r)) /\ [Next]_vars => (\A r \in Run : InTurn(r))'
  BY InTurnStep
<1>3. ASSUME IInv, NEW r \in Run, InTurn(r), RunStep(r) PROVE Onward(r)
  <2> USE DEF IInv
  <2>0. RunAct(r)
    BY <1>3 DEF RunAct
  <2>1. CASE SkipDate(r) \/ EndDate(r)
    <3>1. Advance(r) /\ last' = last
      BY <2>1 DEF SkipDate, EndDate
    <3>2. current[r] \in Int /\ last[r] \in Int
      BY <1>3, FetchAssumption DEF TypeOK
    <3>3. QED BY <1>3, <3>1, <3>2 DEF Advance, Goto, Onward, TypeOK
  <2>2. CASE StartDate(r)
    BY <1>3, <2>2 DEF StartDate, Goto, Onward, TypeOK, place
  <2>3. CASE \E f \in File : Look(r, f)
    <3>1. pc[r] = "files" /\ pc'[r] \in {"parse", "download"}
          /\ UNCHANGED <<results, current, last>>
      BY <1>3, <2>3 DEF Look, At, Goto, TypeOK, place
    <3>2. Stage[pc[r]] < Stage[pc'[r]]
      BY <3>1 DEF Stage, InCall
    <3>3. QED BY <3>1, <3>2 DEF Onward, Tried, Busy, InCall
  <2>4. CASE Receive(r) \/ Written(r) \/ Inserted(r)
    <3>1. /\ <<pc[r], pc'[r]>> \in {<<"download", "write">>, <<"write", "insert">>,
                                     <<"insert", "parse">>}
          /\ UNCHANGED <<results, current, last>>
      BY <1>3, <2>4 DEF Receive, Written, Inserted, At, Goto, TypeOK, place
    <3>2. Stage[pc[r]] < Stage[pc'[r]]
      BY <3>1 DEF Stage, InCall
    <3>3. QED BY <3>1, <3>2 DEF Onward, Tried, Busy, InCall
  <2>5. CASE NotFound(r) \/ DownloadFails(r) \/ WriteFails(r) \/ InsertFails(r) \/ Parse(r)
    <3>1. PICK st, more : Collects(r, st, more)
      BY <1>3, <2>5, OutcomeStep DEF Outcome
    <3>2. pc[r] \in InCall /\ Busy(r) /\ Busy(r)' /\ UNCHANGED <<current, last>>
      BY <3>1 DEF Collects, Busy, place
    <3>3. asked[r] \in Reachable(current[r]) \ Tried(r)
      BY <1>3, <3>2 DEF InTurn, Called
    <3>4. Tried(r)' = Tried(r) \cup {asked[r]}
      BY <1>3, <3>1, TriedStep
    <3>5. QED BY <3>2, <3>3, <3>4 DEF Onward
  <2>6. QED BY <1>3, <2>1, <2>2, <2>3, <2>4, <2>5 DEF RunStep, CallStep
<1>4. Inv /\ [Next]_vars => [\A r \in Run : RunStep(r) => Onward(r)]_vars
  BY <1>3
<1>5. QED BY <1>1, <1>2, <1>4, Invariance, PTL DEF Spec
=============================================================================

-------------------------- MODULE ReportStoreProofs --------------------------
(***************************************************************************)
(* What ReportStore promises for any number of fetchers, sweepers and      *)
(* workers, any placement of tasks, any retention and any failures; and,   *)
(* at the end, what one worker without failures promises beyond that.      *)
(***************************************************************************)
EXTENDS ReportStore, FiniteSetTheorems, TLAPS

(* A sweep under way deletes only what has left the window. *)
CutoffOK == \A s \in Sweeper : swPc[s] # "idle" => cutoff[s] <= today - Retention

(* The rows a sweep selected are older than its cutoff. *)
SelectedOK ==
  \A s \in Sweeper :
    /\ swPc[s] \notin {"selected", "unlinking"} => selected[s] = {}
    /\ \A f \in selected[s] : DateOf(f) < cutoff[s]

(* A file lies in a directory. *)
StoredInDir == \A f \in File : disk[f] # "none" => DateOf(f) \in dirs

(* The directory made by mkdir is there when the file is opened. *)
DirWaits ==
  \A p \in Fetcher :
    pc[p] \in {"download", "write"} /\ Kept(file[p]) => DateOf(file[p]) \in dirs

(* A file being written is on disk, or has been unlinked as expired. *)
WriterOK ==
  \A p \in Fetcher :
    /\ pc[p] = "writing" => disk[file[p]] # "none"
    /\ pc[p] = "detached" => ~Kept(file[p])
    /\ pc[p] = "insert" /\ Kept(file[p]) => disk[file[p]] # "none"

IInv ==
  /\ TypeOK
  /\ CutoffOK
  /\ SelectedOK
  /\ StoredInDir
  /\ DirWaits
  /\ WriterOK
  /\ RecordedIsStored

-----------------------------------------------------------------------------
LEMMA AnyFileOK == AnyFile \in File
<1>1. PICK d \in Day : TRUE
  BY StoreAssumption
<1>2. PICK k \in Kind : TRUE
  BY StoreAssumption
<1>3. <<d, k>> \in File
  BY <1>1, <1>2 DEF File
<1>4. QED BY <1>3, Zenon DEF AnyFile

(* Dates are natural numbers. *)
LEMMA DateType == \A f \in File : DateOf(f) \in Day /\ DateOf(f) \in Nat
  BY StoreAssumption DEF File, DateOf

(* Every row counter stays within its bound. *)
LEMMA RowsAfterType ==
  ASSUME TypeOK, NEW f \in File
  PROVE  RowsAfter(f) \in 1..RowCap
<1>1. RowCap \in Nat \ {0} /\ rows[f] \in 0..RowCap
  BY StoreAssumption DEF TypeOK
<1>2. QED BY <1>1 DEF RowsAfter

LEMMA InitOK == Init => IInv
<1> SUFFICES ASSUME Init PROVE IInv
  OBVIOUS
<1> USE StoreAssumption, AnyFileOK, DateType DEF Init
<1>1. TypeOK
  BY DEF TypeOK
<1>2. CutoffOK /\ SelectedOK
  BY DEF CutoffOK, SelectedOK
<1>3. StoredInDir /\ DirWaits /\ WriterOK /\ RecordedIsStored
  BY DEF StoredInDir, DirWaits, WriterOK, RecordedIsStored
<1>4. QED BY <1>1, <1>2, <1>3 DEF IInv

-----------------------------------------------------------------------------
(* The state space is closed under every step. *)
LEMMA TypeStep == TypeOK /\ [Next]_vars => TypeOK'
<1> SUFFICES ASSUME TypeOK, [Next]_vars PROVE TypeOK'
  OBVIOUS
<1> USE StoreAssumption, DateType DEF TypeOK, store, fetchers, sweepers, Goto, SwGoto,
        Active, Outcome, WritePc
<1>1. ASSUME NEW p \in Fetcher, NEW f \in File, Begin(p, f) PROVE TypeOK'
  BY <1>1 DEF Begin
<1>2. ASSUME NEW p \in Fetcher, Download(p) PROVE TypeOK'
  BY <1>2 DEF Download
<1>3. ASSUME NEW p \in Fetcher, OpenFile(p) PROVE TypeOK'
  BY <1>3 DEF OpenFile
<1>4. ASSUME NEW p \in Fetcher, Grow(p) \/ FinishWrite(p) PROVE TypeOK'
  <2>1. CASE Grow(p)
    BY <2>1 DEF Grow
  <2>2. CASE FinishWrite(p)
    BY <2>2 DEF FinishWrite
  <2>3. QED BY <1>4, <2>1, <2>2
<1>5. ASSUME NEW p \in Fetcher, WriteFails(p) PROVE TypeOK'
  BY <1>5 DEF WriteFails
<1>6. ASSUME NEW p \in Fetcher, Insert(p) PROVE TypeOK'
  <2>1. RowsAfter(file[p]) \in 0..RowCap
    BY RowsAfterType
  <2>2. QED BY <1>6, <2>1 DEF Insert
<1>7. ASSUME NEW p \in Fetcher, InsertFails(p) \/ Return(p) \/ Send(p) \/ Sent(p) PROVE TypeOK'
  BY <1>7 DEF InsertFails, Return, Send, Sent
<1>8. ASSUME NEW s \in Sweeper, SweepSelect(s) PROVE TypeOK'
  BY <1>8 DEF SweepSelect
<1>9. ASSUME NEW s \in Sweeper, NEW f \in File, Unlink(s, f) PROVE TypeOK'
  BY <1>9 DEF Unlink
<1>10. ASSUME NEW s \in Sweeper, DeleteRows(s) PROVE TypeOK'
  BY <1>10 DEF DeleteRows
<1>11. ASSUME NEW s \in Sweeper, RemoveDirs(s) PROVE TypeOK'
  BY <1>11 DEF RemoveDirs
<1>12. ASSUME NEW w \in Worker, Crash(w) PROVE TypeOK'
  BY <1>12 DEF Crash
<1>13. ASSUME NEW f \in File, Publish(f) PROVE TypeOK'
  BY <1>13 DEF Publish
<1>14. CASE Tick
  BY <1>14 DEF Tick
<1>15. CASE UNCHANGED vars
  BY <1>15 DEF vars
<1>16. QED
  BY <1>1, <1>2, <1>3, <1>4, <1>5, <1>6, <1>7, <1>8, <1>9, <1>10, <1>11, <1>12, <1>13,
     <1>14, <1>15 DEF Next, FetchStep, SweepStep

(* A sweep's cutoff falls behind as days pass, and its selection only shrinks. *)
LEMMA SweepStepOK == TypeOK /\ CutoffOK /\ SelectedOK /\ [Next]_vars => CutoffOK' /\ SelectedOK'
<1> SUFFICES ASSUME TypeOK, CutoffOK, SelectedOK, [Next]_vars PROVE CutoffOK' /\ SelectedOK'
  OBVIOUS
<1> USE StoreAssumption, DateType DEF TypeOK, store, fetchers, sweepers, Goto, SwGoto,
        CutoffOK, SelectedOK, Active, Outcome, WritePc
<1>1. ASSUME NEW p \in Fetcher, NEW f \in File, Begin(p, f) PROVE CutoffOK' /\ SelectedOK'
  BY <1>1 DEF Begin, Cached
<1>2. ASSUME NEW p \in Fetcher, Download(p) PROVE CutoffOK' /\ SelectedOK'
  BY <1>2 DEF Download
<1>3. ASSUME NEW p \in Fetcher, OpenFile(p) PROVE CutoffOK' /\ SelectedOK'
  BY <1>3 DEF OpenFile
<1>4. ASSUME NEW p \in Fetcher, Grow(p) \/ FinishWrite(p) PROVE CutoffOK' /\ SelectedOK'
  BY <1>4 DEF Grow, FinishWrite
<1>5. ASSUME NEW p \in Fetcher, WriteFails(p) PROVE CutoffOK' /\ SelectedOK'
  BY <1>5 DEF WriteFails
<1>6. ASSUME NEW p \in Fetcher, Insert(p) PROVE CutoffOK' /\ SelectedOK'
  BY <1>6 DEF Insert
<1>7. ASSUME NEW p \in Fetcher, InsertFails(p) \/ Return(p) \/ Send(p) \/ Sent(p) PROVE CutoffOK' /\ SelectedOK'
  BY <1>7 DEF InsertFails, Return, Send, Sent
<1>8. ASSUME NEW s \in Sweeper, SweepSelect(s) PROVE CutoffOK' /\ SelectedOK'
  BY <1>8 DEF SweepSelect, Older
<1>9. ASSUME NEW s \in Sweeper, NEW f \in File, Unlink(s, f) PROVE CutoffOK' /\ SelectedOK'
  BY <1>9 DEF Unlink
<1>10. ASSUME NEW s \in Sweeper, DeleteRows(s) PROVE CutoffOK' /\ SelectedOK'
  BY <1>10 DEF DeleteRows, Purged
<1>11. ASSUME NEW s \in Sweeper, RemoveDirs(s) PROVE CutoffOK' /\ SelectedOK'
  BY <1>11 DEF RemoveDirs, OldDir, EmptyDir
<1>12. ASSUME NEW w \in Worker, Crash(w) PROVE CutoffOK' /\ SelectedOK'
  BY <1>12 DEF Crash
<1>13. ASSUME NEW f \in File, Publish(f) PROVE CutoffOK' /\ SelectedOK'
  BY <1>13 DEF Publish
<1>14. CASE Tick
  BY <1>14 DEF Tick
<1>15. CASE UNCHANGED vars
  BY <1>15 DEF vars
<1>16. QED
  BY <1>1, <1>2, <1>3, <1>4, <1>5, <1>6, <1>7, <1>8, <1>9, <1>10, <1>11, <1>12, <1>13, <1>14, <1>15
     DEF Next, FetchStep, SweepStep

(* rmdir takes only empty directories, and none a fetch inside the window needs. *)
LEMMA DirsStepOK == IInv /\ [Next]_vars => StoredInDir' /\ DirWaits'
<1> SUFFICES ASSUME IInv, [Next]_vars PROVE StoredInDir' /\ DirWaits'
  OBVIOUS
<1> USE StoreAssumption, DateType DEF TypeOK, store, fetchers, sweepers, Goto, SwGoto,
        IInv, CutoffOK, SelectedOK, StoredInDir, DirWaits, WriterOK, Kept, WritePc, Outcome
<1>1. ASSUME NEW p \in Fetcher, NEW f \in File, Begin(p, f) PROVE StoredInDir' /\ DirWaits'
  BY <1>1 DEF Begin, Cached
<1>2. ASSUME NEW p \in Fetcher, Download(p) PROVE StoredInDir' /\ DirWaits'
  BY <1>2 DEF Download
<1>3. ASSUME NEW p \in Fetcher, OpenFile(p) PROVE StoredInDir' /\ DirWaits'
  BY <1>3 DEF OpenFile
<1>4. ASSUME NEW p \in Fetcher, Grow(p) \/ FinishWrite(p) PROVE StoredInDir' /\ DirWaits'
  BY <1>4 DEF Grow, FinishWrite
<1>5. ASSUME NEW p \in Fetcher, WriteFails(p) PROVE StoredInDir' /\ DirWaits'
  BY <1>5 DEF WriteFails
<1>6. ASSUME NEW p \in Fetcher, Insert(p) PROVE StoredInDir' /\ DirWaits'
  BY <1>6 DEF Insert
<1>7. ASSUME NEW p \in Fetcher, InsertFails(p) \/ Return(p) \/ Send(p) \/ Sent(p) PROVE StoredInDir' /\ DirWaits'
  BY <1>7 DEF InsertFails, Return, Send, Sent
<1>8. ASSUME NEW s \in Sweeper, SweepSelect(s) PROVE StoredInDir' /\ DirWaits'
  BY <1>8 DEF SweepSelect, Older
<1>9. ASSUME NEW s \in Sweeper, NEW f \in File, Unlink(s, f) PROVE StoredInDir' /\ DirWaits'
  BY <1>9 DEF Unlink
<1>10. ASSUME NEW s \in Sweeper, DeleteRows(s) PROVE StoredInDir' /\ DirWaits'
  BY <1>10 DEF DeleteRows, Purged
<1>11. ASSUME NEW s \in Sweeper, RemoveDirs(s) PROVE StoredInDir' /\ DirWaits'
  BY <1>11 DEF RemoveDirs, OldDir, EmptyDir
<1>12. ASSUME NEW w \in Worker, Crash(w) PROVE StoredInDir' /\ DirWaits'
  BY <1>12 DEF Crash
<1>13. ASSUME NEW f \in File, Publish(f) PROVE StoredInDir' /\ DirWaits'
  BY <1>13 DEF Publish
<1>14. CASE Tick
  BY <1>14 DEF Tick
<1>15. CASE UNCHANGED vars
  BY <1>15 DEF vars
<1>16. QED
  BY <1>1, <1>2, <1>3, <1>4, <1>5, <1>6, <1>7, <1>8, <1>9, <1>10, <1>11, <1>12, <1>13, <1>14, <1>15
     DEF Next, FetchStep, SweepStep

(* A file is unlinked only if its date has left the window. *)
LEMMA FilesStepOK == IInv /\ [Next]_vars => WriterOK' /\ RecordedIsStored'
<1> SUFFICES ASSUME IInv, [Next]_vars PROVE WriterOK' /\ RecordedIsStored'
  OBVIOUS
<1> USE StoreAssumption, DateType DEF TypeOK, store, fetchers, sweepers, Goto, SwGoto,
        IInv, CutoffOK, SelectedOK, WriterOK, RecordedIsStored, Kept, WritePc, Outcome
<1>1. ASSUME NEW p \in Fetcher, NEW f \in File, Begin(p, f) PROVE WriterOK' /\ RecordedIsStored'
  BY <1>1 DEF Begin, Cached
<1>2. ASSUME NEW p \in Fetcher, Download(p) PROVE WriterOK' /\ RecordedIsStored'
  BY <1>2 DEF Download
<1>3. ASSUME NEW p \in Fetcher, OpenFile(p) PROVE WriterOK' /\ RecordedIsStored'
  BY <1>3 DEF OpenFile
<1>4. ASSUME NEW p \in Fetcher, Grow(p) \/ FinishWrite(p) PROVE WriterOK' /\ RecordedIsStored'
  BY <1>4 DEF Grow, FinishWrite
<1>5. ASSUME NEW p \in Fetcher, WriteFails(p) PROVE WriterOK' /\ RecordedIsStored'
  BY <1>5 DEF WriteFails
<1>6. ASSUME NEW p \in Fetcher, Insert(p) PROVE WriterOK' /\ RecordedIsStored'
  BY <1>6 DEF Insert
<1>7. ASSUME NEW p \in Fetcher, InsertFails(p) \/ Return(p) \/ Send(p) \/ Sent(p) PROVE WriterOK' /\ RecordedIsStored'
  BY <1>7 DEF InsertFails, Return, Send, Sent
<1>8. ASSUME NEW s \in Sweeper, SweepSelect(s) PROVE WriterOK' /\ RecordedIsStored'
  BY <1>8 DEF SweepSelect, Older
<1>9. ASSUME NEW s \in Sweeper, NEW f \in File, Unlink(s, f) PROVE WriterOK' /\ RecordedIsStored'
  BY <1>9 DEF Unlink
<1>10. ASSUME NEW s \in Sweeper, DeleteRows(s) PROVE WriterOK' /\ RecordedIsStored'
  BY <1>10 DEF DeleteRows, Purged
<1>11. ASSUME NEW s \in Sweeper, RemoveDirs(s) PROVE WriterOK' /\ RecordedIsStored'
  BY <1>11 DEF RemoveDirs, OldDir, EmptyDir
<1>12. ASSUME NEW w \in Worker, Crash(w) PROVE WriterOK' /\ RecordedIsStored'
  BY <1>12 DEF Crash
<1>13. ASSUME NEW f \in File, Publish(f) PROVE WriterOK' /\ RecordedIsStored'
  BY <1>13 DEF Publish
<1>14. CASE Tick
  BY <1>14 DEF Tick
<1>15. CASE UNCHANGED vars
  BY <1>15 DEF vars
<1>16. QED
  BY <1>1, <1>2, <1>3, <1>4, <1>5, <1>6, <1>7, <1>8, <1>9, <1>10, <1>11, <1>12, <1>13, <1>14, <1>15
     DEF Next, FetchStep, SweepStep
-----------------------------------------------------------------------------
(* The inductive invariant holds in every reachable state. *)
LEMMA Invariance == Spec => []IInv
<1>1. Init => IInv
  BY InitOK
<1>2. IInv /\ [Next]_vars => IInv'
  BY TypeStep, SweepStepOK, DirsStepOK, FilesStepOK DEF IInv
<1>3. QED BY <1>1, <1>2, PTL DEF Spec

(* Every variable of the store stays in its type, for any constants. *)
THEOREM TypeCorrect == Spec => []TypeOK
BY Invariance, PTL DEF IInv

(* Whatever crashes or fails, a record of a date inside the window (INSERT *)
(* in fetch_report_file) always has its file on disk.                      *)
THEOREM RecordHasFile == Spec => []RecordedIsStored
BY Invariance, PTL DEF IInv

(* A fetch inside the window says "not found" (fetch_date, line 47) only   *)
(* about a report that was not published.                                  *)
THEOREM NotFoundIsHonest == Spec => HonestNotFound
<1> DEFINE A == \A p \in Fetcher :
                  pc[p] # "not_found" /\ pc'[p] = "not_found" /\ Kept(file[p])
                    => file[p] \notin bucket
<1>1. IInv /\ [Next]_vars => [A]_vars
  <2> SUFFICES ASSUME IInv, Next, NEW p \in Fetcher,
                      pc[p] # "not_found", pc'[p] = "not_found", Kept(file[p])
               PROVE  file[p] \notin bucket
    OBVIOUS
  <2> USE DEF IInv, TypeOK, Goto
  <2>1. ASSUME NEW q \in Fetcher, FetchStep(q) PROVE file[p] \notin bucket
    <3>1. CASE OpenFile(q)
      <4>1. q = p => DateOf(file[p]) \in dirs
        BY <3>1 DEF OpenFile, DirWaits
      <4>2. QED BY <3>1, <4>1 DEF OpenFile
    <3>2. CASE Download(q)
      BY <3>2 DEF Download
    <3>3. CASE ~OpenFile(q) /\ ~Download(q)
      BY <2>1, <3>3 DEF FetchStep, Grow, FinishWrite, WriteFails, Insert, InsertFails, Return, Send, Sent, fetchers
    <3>4. QED BY <3>1, <3>2, <3>3
  <2>2. ASSUME NEW q \in Fetcher, NEW f \in File, Begin(q, f)
        PROVE  file[p] \notin bucket
    BY <2>2 DEF Begin
  <2>3. ASSUME NEW s \in Sweeper, SweepStep(s) PROVE file[p] \notin bucket
    BY <2>3 DEF SweepStep, SweepSelect, Unlink, DeleteRows, RemoveDirs, fetchers
  <2>4. ASSUME NEW w \in Worker, Crash(w) PROVE file[p] \notin bucket
    BY <2>4 DEF Crash
  <2>5. CASE Tick \/ \E f \in File : Publish(f)
    BY <2>5 DEF Tick, Publish, fetchers
  <2>6. QED BY <2>1, <2>2, <2>3, <2>4, <2>5 DEF Next
<1>2. QED BY <1>1, Invariance, PTL DEF Spec, HonestNotFound

(* Neither a sweep nor a fetch takes away a file or a record inside the    *)
(* window: enforce_retention unlinks and deletes only below its cutoff,    *)
(* and a second download replaces a file without removing it.              *)
THEOREM RetentionKeepsWindow == Spec => WindowKept
<1> DEFINE A == \A f \in File : Kept(f) =>
                  /\ disk[f] # "none" => disk'[f] # "none"
                  /\ rows[f] > 0 => rows'[f] > 0
<1>1. IInv /\ [Next]_vars => [A]_vars
  <2> SUFFICES ASSUME IInv, Next, NEW g \in File, Kept(g)
               PROVE  /\ disk[g] # "none" => disk'[g] # "none"
                      /\ rows[g] > 0 => rows'[g] > 0
    OBVIOUS
  <2> DEFINE G == /\ disk[g] # "none" => disk'[g] # "none"
                  /\ rows[g] > 0 => rows'[g] > 0
  <2> USE StoreAssumption, DateType DEF IInv, TypeOK, store
  <2>1. ASSUME NEW p \in Fetcher, Insert(p) PROVE G
    <3>1. RowsAfter(file[p]) \in 1..RowCap
      BY RowsAfterType
    <3>2. QED BY <2>1, <3>1 DEF Insert
  <2>2. ASSUME NEW p \in Fetcher, FetchStep(p), ~Insert(p) PROVE G
    BY <2>2 DEF FetchStep, Download, OpenFile, Grow, FinishWrite, WriteFails, InsertFails, Return, Send, Sent
  <2>3. ASSUME NEW s \in Sweeper, NEW f \in File, Unlink(s, f) PROVE G
    BY <2>3 DEF Unlink, CutoffOK, SelectedOK, Kept
  <2>4. ASSUME NEW s \in Sweeper, DeleteRows(s) PROVE G
    BY <2>4 DEF DeleteRows, Purged, CutoffOK, Kept
  <2>5. ASSUME NEW s \in Sweeper, SweepSelect(s) \/ RemoveDirs(s) PROVE G
    BY <2>5 DEF SweepSelect, RemoveDirs
  <2>6. ASSUME NEW w \in Worker, Crash(w) PROVE G
    BY <2>6 DEF Crash
  <2>7. ASSUME NEW p \in Fetcher, NEW f \in File, Begin(p, f) PROVE G
    BY <2>7 DEF Begin
  <2>8. CASE Tick \/ \E f \in File : Publish(f)
    BY <2>8 DEF Tick, Publish
  <2>9. QED
    BY <2>1, <2>2, <2>3, <2>4, <2>5, <2>6, <2>7, <2>8 DEF Next, SweepStep
<1>2. QED BY <1>1, Invariance, PTL DEF Spec, WindowKept
-----------------------------------------------------------------------------
(* A fetch that has its answer got it from the bucket. *)
Published ==
  \A p \in Fetcher :
    pc[p] \in {"write", "insert"} \cup WritePc => file[p] \in bucket

LEMMA PublishedStep == TypeOK /\ Published /\ [Next]_vars => Published'
<1> SUFFICES ASSUME TypeOK, Published, [Next]_vars PROVE Published'
  OBVIOUS
<1> USE DEF TypeOK, Published, Goto, WritePc, Outcome
<1>1. ASSUME NEW p \in Fetcher, NEW f \in File, Begin(p, f) PROVE Published'
  BY <1>1 DEF Begin
<1>2. ASSUME NEW p \in Fetcher, Download(p) PROVE Published'
  BY <1>2 DEF Download
<1>3. ASSUME NEW p \in Fetcher, FetchStep(p), ~Download(p) PROVE Published'
  BY <1>3 DEF FetchStep, OpenFile, Grow, FinishWrite, WriteFails, Insert, InsertFails, Return, Send, Sent, store, fetchers
<1>4. ASSUME NEW s \in Sweeper, SweepStep(s) PROVE Published'
  BY <1>4 DEF SweepStep, SweepSelect, Unlink, DeleteRows, RemoveDirs, fetchers, store
<1>5. ASSUME NEW w \in Worker, Crash(w) PROVE Published'
  BY <1>5 DEF Crash
<1>6. ASSUME NEW f \in File, Publish(f) PROVE Published'
  BY <1>6 DEF Publish, fetchers
<1>7. CASE Tick \/ UNCHANGED vars
  BY <1>7 DEF Tick, vars, fetchers
<1>8. QED BY <1>1, <1>2, <1>3, <1>4, <1>5, <1>6, <1>7 DEF Next

(* Inside the window the records alone say what is shown. *)
LEMMA ShownIsRecorded == IInv => Shown = {f \in File : rows[f] > 0 /\ Kept(f)}
BY DEF IInv, RecordedIsStored, Shown

(* Every step of the store shows one more published report, begins a day,  *)
(* publishes a report, or is not seen by the readers of the store.         *)
LEMMA MirrorStep ==
  ASSUME IInv, IInv', Published, [Next]_vars
  PROVE  [Mirror!Next]_<<bucket, today, Shown>>
<1> DEFINE Listed == {f \in File : rows[f] > 0 /\ Kept(f)}
<1>0. Shown = Listed /\ Shown' = Listed'
  <2>1. Shown = Listed
    BY ShownIsRecorded
  <2>2. IInv' => Shown' = Listed'
    BY DEF IInv, RecordedIsStored, Shown
  <2>3. QED BY <2>1, <2>2
<1> HIDE DEF Listed
<1> DEFINE Goal == [Mirror!Next]_<<bucket, today, Shown>>
<1>1. ASSUME Listed' = Listed, UNCHANGED <<bucket, today>> PROVE Goal
  BY <1>0, <1>1
<1>2. ASSUME UNCHANGED <<rows, today, bucket>> PROVE Goal
  <2>1. Listed' = Listed
    BY <1>2 DEF Listed, Kept
  <2>2. QED BY <1>1, <1>2, <2>1
<1>3. ASSUME NEW p \in Fetcher, Insert(p) PROVE Goal
  <2>0. file[p] \in File /\ file[p] \in bucket
    BY <1>3 DEF IInv, TypeOK, Published, Insert
  <2>1. RowsAfter(file[p]) \in 1..RowCap
    BY <2>0, RowsAfterType DEF IInv
  <2>2. \A f \in File : rows'[f] > 0 <=> rows[f] > 0 \/ f = file[p]
    BY <1>3, <2>1, StoreAssumption DEF Insert, IInv, TypeOK
  <2>3. \A f \in File : Kept(f)' <=> Kept(f)
    BY <1>3 DEF Insert, Kept
  <2>4. CASE Kept(file[p])
    <3>1. Listed' = Listed \cup {file[p]}
      BY <2>0, <2>2, <2>3, <2>4, Zenon DEF Listed
    <3>2. Mirror!Show(file[p])
      BY <1>0, <1>3, <2>0, <2>4, <3>1
         DEF Mirror!Show, Mirror!InWindow, Kept, DateOf, Insert
    <3>3. file[p] \in Mirror!File
      BY <2>0 DEF Mirror!File, File
    <3>4. QED BY <3>2, <3>3 DEF Mirror!Next
  <2>5. CASE ~Kept(file[p])
    <3>1. Listed' = Listed
      BY <2>0, <2>2, <2>3, <2>5, Zenon DEF Listed
    <3>2. QED BY <1>1, <1>3, <3>1 DEF Insert
  <2>6. QED BY <2>4, <2>5
<1>4. ASSUME NEW s \in Sweeper, DeleteRows(s) PROVE Goal
  <2>1. \A f \in File : Kept(f) => ~Purged(f, s)
    BY <1>4, StoreAssumption, DateType DEF DeleteRows, Purged, CutoffOK, Kept, IInv, TypeOK
  <2>2. Listed' = Listed
    BY <1>4, <2>1 DEF DeleteRows, Listed, Kept, IInv, TypeOK
  <2>3. QED BY <1>1, <1>4, <2>2 DEF DeleteRows
<1>5. CASE Tick
  <2>1. \A f \in File : Kept(f)' => Kept(f)
    BY <1>5, StoreAssumption, DateType DEF Tick, Kept, IInv, TypeOK
  <2>2. rows' = rows
    BY <1>5 DEF Tick, store
  <2>3. Listed' = {f \in Listed : Kept(f)'}
    BY <2>1, <2>2, Zenon DEF Listed
  <2>4. Mirror!NewDay
    BY <1>0, <1>5, <2>3 DEF Mirror!NewDay, Mirror!InWindow, Tick, Kept, DateOf
  <2>5. QED BY <2>4 DEF Mirror!Next
<1>6. ASSUME NEW f \in File, Publish(f) PROVE Goal
  <2>1. Listed' = Listed
    BY <1>6 DEF Publish, store, Listed, Kept
  <2>2. Mirror!Publish(f)
    BY <1>0, <1>6, <2>1 DEF Publish, Mirror!Publish
  <2>3. QED BY <2>2 DEF Mirror!Next, Mirror!File, File
<1>7. ASSUME NEW p \in Fetcher, FetchStep(p), ~Insert(p) PROVE Goal
  BY <1>2, <1>7
     DEF FetchStep, Download, OpenFile, Grow, FinishWrite, WriteFails, InsertFails, Return, Send, Sent, store
<1>8. ASSUME NEW p \in Fetcher, NEW f \in File, Begin(p, f) PROVE Goal
  BY <1>2, <1>8 DEF Begin
<1>9. ASSUME NEW s \in Sweeper, SweepStep(s), ~DeleteRows(s) PROVE Goal
  BY <1>2, <1>9 DEF SweepStep, SweepSelect, Unlink, RemoveDirs, store
<1>10. ASSUME NEW w \in Worker, Crash(w) PROVE Goal
  BY <1>2, <1>10 DEF Crash
<1>11. CASE UNCHANGED vars
  BY <1>2, <1>11 DEF vars
<1>12. QED
  BY <1>3, <1>4, <1>5, <1>6, <1>7, <1>8, <1>9, <1>10, <1>11 DEF Next

(* fetch_report_file and enforce_retention implement ReportMirror: whatever *)
(* fails, crashes or overlaps, a reader sees published reports inside the   *)
(* window, and loses one only when its date leaves the window.              *)
THEOREM ImplementsMirror == Spec => MirrorSpec
<1>1. Init => Published /\ Mirror!Init
  BY DEF Init, Published, WritePc, Mirror!Init, Shown
<1>2. Published /\ IInv /\ [Next]_vars => Published'
  BY PublishedStep DEF IInv
<1>3. Published /\ IInv /\ IInv' /\ [Next]_vars => [Mirror!Next]_<<bucket, today, Shown>>
  BY MirrorStep
<1>4. QED BY <1>1, <1>2, <1>3, Invariance, PTL DEF Spec, MirrorSpec, Mirror!Spec
-----------------------------------------------------------------------------
(* Without failures a file inside the window has a record, or a fetch that  *)
(* has written it is about to insert the record.                            *)
RecordComes ==
  \A f \in File : Kept(f) /\ disk[f] # "none" =>
    \/ rows[f] > 0
    \/ \E p \in Fetcher : file[p] = f /\ pc[p] \in {"writing", "insert"}

LEMMA RecordComesStep ==
  ASSUME Faults = {}, IInv, IInv', RecordComes, [Next]_vars
  PROVE  RecordComes'
<1> SUFFICES ASSUME NEW f \in File, Kept(f)', disk'[f] # "none", ~(rows'[f] > 0)
             PROVE  \E p \in Fetcher : file'[p] = f /\ pc'[p] \in {"writing", "insert"}
  BY DEF RecordComes, Kept, DateOf
<1> DEFINE Goal == \E p \in Fetcher : file'[p] = f /\ pc'[p] \in {"writing", "insert"}
<1> USE StoreAssumption, DateType DEF IInv, TypeOK, Goto
<1>0. ASSUME rows'[f] = rows[f], disk[f] # "none", Kept(f)
      PROVE  \E p \in Fetcher : file[p] = f /\ pc[p] \in {"writing", "insert"}
  BY <1>0, Zenon DEF RecordComes
<1>1. ASSUME NEW q \in Fetcher, OpenFile(q) PROVE Goal
  <2>1. Kept(f) /\ rows' = rows
    BY <1>1 DEF OpenFile, Kept
  <2>2. CASE file[q] = f /\ pc'[q] = "writing"
    BY <1>1, <2>2 DEF OpenFile
  <2>3. CASE ~(file[q] = f /\ pc'[q] = "writing")
    <3>1. disk[f] # "none"
      BY <1>1, <2>3 DEF OpenFile
    <3>2. PICK p \in Fetcher : file[p] = f /\ pc[p] \in {"writing", "insert"}
      BY <1>0, <2>1, <3>1
    <3>3. p # q
      BY <1>1, <3>2 DEF OpenFile
    <3>4. QED BY <1>1, <3>2, <3>3 DEF OpenFile
  <2>4. QED BY <2>2, <2>3
<1>2. ASSUME NEW q \in Fetcher, FinishWrite(q) PROVE Goal
  <2>1. Kept(f) /\ rows' = rows
    BY <1>2 DEF FinishWrite, Kept
  <2>2. disk[f] # "none"
    BY <1>2 DEF FinishWrite, WriterOK
  <2>3. PICK p \in Fetcher : file[p] = f /\ pc[p] \in {"writing", "insert"}
    BY <1>0, <2>1, <2>2
  <2>4. QED BY <1>2, <2>3 DEF FinishWrite
<1>3. ASSUME NEW q \in Fetcher, Insert(q) PROVE Goal
  <2>1. RowsAfter(file[q]) \in 1..RowCap
    BY RowsAfterType
  <2>2. Kept(f) /\ disk' = disk /\ file[q] # f /\ rows'[f] = rows[f]
    BY <1>3, <2>1 DEF Insert, Kept
  <2>3. PICK p \in Fetcher : file[p] = f /\ pc[p] \in {"writing", "insert"}
    BY <1>0, <2>2
  <2>4. QED BY <1>3, <2>2, <2>3 DEF Insert
<1>4. ASSUME NEW q \in Fetcher, Download(q) \/ Return(q) \/ Send(q) \/ Sent(q) \/ \E g \in File : Begin(q, g)
      PROVE  Goal
  <2>1. Kept(f) /\ disk' = disk /\ rows' = rows
    BY <1>4 DEF Download, Return, Send, Sent, Begin, Kept, store
  <2>2. PICK p \in Fetcher : file[p] = f /\ pc[p] \in {"writing", "insert"}
    BY <1>0, <2>1
  <2>3. p # q
    BY <1>4, <2>2 DEF Download, Return, Send, Sent, Begin, Outcome
  <2>4. QED BY <1>4, <2>2, <2>3 DEF Download, Return, Send, Sent, Begin
<1>5. ASSUME NEW s \in Sweeper, NEW g \in File, Unlink(s, g) PROVE Goal
  <2>1. Kept(f) /\ disk[f] # "none" /\ rows' = rows /\ g # f
    BY <1>5 DEF Unlink, Kept
  <2>2. PICK p \in Fetcher : file[p] = f /\ pc[p] \in {"writing", "insert"}
    BY <1>0, <2>1
  <2>3. QED BY <1>5, <2>1, <2>2 DEF Unlink
<1>6. ASSUME NEW s \in Sweeper, DeleteRows(s) PROVE Goal
  <2>1. Kept(f) /\ disk[f] # "none" /\ rows'[f] = rows[f]
    BY <1>6 DEF DeleteRows, Kept, CutoffOK, Purged
  <2>2. QED BY <1>0, <1>6, <2>1 DEF DeleteRows, fetchers
<1>7. ASSUME NEW s \in Sweeper, SweepSelect(s) \/ RemoveDirs(s) PROVE Goal
  <2>1. Kept(f) /\ disk[f] # "none" /\ rows' = rows
    BY <1>7 DEF SweepSelect, RemoveDirs, Kept, store
  <2>2. QED BY <1>0, <1>7, <2>1 DEF SweepSelect, RemoveDirs, fetchers
<1>8. CASE Tick \/ (\E g \in File : Publish(g)) \/ UNCHANGED vars
  <2>1. Kept(f) /\ disk[f] # "none" /\ rows' = rows /\ UNCHANGED <<pc, file>>
    BY <1>8 DEF Tick, Publish, vars, Kept, store, fetchers
  <2>2. QED BY <1>0, <2>1
<1>9. \A p \in Fetcher : ~WriteFails(p) /\ ~InsertFails(p)
  BY DEF WriteFails, InsertFails
<1>10. \A w \in Worker : ~Crash(w)
  BY DEF Crash
<1>11. ASSUME NEW q \in Fetcher, Grow(q) PROVE Goal
  <2>1. Kept(f) /\ rows' = rows /\ UNCHANGED <<pc, file>> /\ disk[f] # "none"
    BY <1>11 DEF Grow, Kept, fetchers
  <2>2. QED BY <1>0, <2>1
<1>12. QED
  BY <1>1, <1>2, <1>3, <1>4, <1>5, <1>6, <1>7, <1>8, <1>9, <1>10, <1>11
     DEF Next, FetchStep, SweepStep

(* When no write, insert or process fails, a file inside the window that no *)
(* fetch is handling has its record, by which retention will find it, for   *)
(* any number of workers and however they overlap.                          *)
THEOREM StoredIsRecorded ==
  ASSUME Faults = {}
  PROVE  Spec => []WindowRecorded
<1>1. Init => RecordComes
  BY DEF Init, RecordComes
<1>2. RecordComes /\ IInv /\ IInv' /\ [Next]_vars => RecordComes'
  BY RecordComesStep
<1>3. RecordComes => WindowRecorded
  BY DEF RecordComes, WindowRecorded, Active, WritePc
<1>4. QED BY <1>1, <1>2, <1>3, Invariance, PTL DEF Spec
-----------------------------------------------------------------------------
(* One worker that never fails: its tasks share an event loop, so no other *)
(* one runs while a file is open.                                          *)
OneSoundWorker == Faults = {} /\ \A t, u \in Task : WorkerOf[t] = WorkerOf[u]

(* A file is not whole only while a fetch is writing it. *)
PartIsOpen ==
  \A f \in File : disk[f] \in {"empty", "partial"} => \E p \in Fetcher : file[p] = f /\ pc[p] = "writing"

(* What a fetch has answered with stays on disk while it is used. *)
AnswerStays ==
  \A p \in Fetcher : pc[p] \in {"ok", "sending"} /\ Kept(file[p]) => disk[file[p]] # "none"

(* The fetches of a file that may still add a row. *)
Adding(f) == {p \in Fetcher : file[p] = f /\ pc[p] \in Active}

RowsLeft == \A f \in File : Kept(f) => rows[f] + Cardinality(Adding(f)) <= Cardinality(Fetcher)

LEMMA PartIsOpenStep ==
  ASSUME OneSoundWorker, IInv, PartIsOpen, [Next]_vars
  PROVE  PartIsOpen'
<1> SUFFICES ASSUME NEW f \in File, disk'[f] \in {"empty", "partial"}
             PROVE  \E p \in Fetcher : file'[p] = f /\ pc'[p] = "writing"
  BY DEF PartIsOpen
<1> DEFINE Goal == \E p \in Fetcher : file'[p] = f /\ pc'[p] = "writing"
<1> USE DEF IInv, TypeOK, Goto
<1>0. disk[f] \in {"empty", "partial"} => \E p \in Fetcher : file[p] = f /\ pc[p] = "writing"
  BY Zenon DEF PartIsOpen
<1>1. ASSUME disk'[f] = disk[f],
             \A p \in Fetcher : pc[p] = "writing" => pc'[p] = "writing" /\ file'[p] = file[p]
      PROVE  Goal
  BY <1>0, <1>1
<1>2. ASSUME NEW q \in Fetcher, OpenFile(q) PROVE Goal
  <2>1. CASE file[q] = f /\ pc'[q] = "writing"
    BY <1>2, <2>1 DEF OpenFile
  <2>2. CASE ~(file[q] = f /\ pc'[q] = "writing")
    BY <1>1, <1>2, <2>2 DEF OpenFile
  <2>3. QED BY <2>1, <2>2
<1>3. ASSUME NEW q \in Fetcher, FinishWrite(q) PROVE Goal
  <2>1. ~(file[q] = f /\ pc[q] = "writing")
    BY <1>3 DEF FinishWrite
  <2>2. disk'[f] = disk[f] /\ file' = file /\ \A p \in Fetcher \ {q} : pc'[p] = pc[p]
    BY <1>3, <2>1 DEF FinishWrite
  <2>3. QED BY <1>0, <2>1, <2>2
<1>4. ASSUME NEW q \in Fetcher,
             \/ Download(q) \/ Insert(q) \/ Return(q) \/ Send(q) \/ Sent(q)
             \/ \E g \in File : Begin(q, g)
      PROVE  Goal
  <2>1. disk' = disk /\ pc[q] # "writing"
    BY <1>4 DEF Download, Insert, Return, Send, Sent, Begin, store, Outcome
  <2>2. \A p \in Fetcher \ {q} : pc'[p] = pc[p] /\ file'[p] = file[p]
    BY <1>4 DEF Download, Insert, Return, Send, Sent, Begin
  <2>3. QED BY <1>1, <2>1, <2>2
<1>5. ASSUME NEW q \in Fetcher, Grow(q) PROVE Goal
  <2>1. CASE file[q] = f
    BY <1>5, <2>1 DEF Grow, fetchers
  <2>2. CASE file[q] # f
    BY <1>1, <1>5, <2>2 DEF Grow, fetchers
  <2>3. QED BY <2>1, <2>2
<1>6. ASSUME NEW s \in Sweeper, NEW g \in File, Unlink(s, g) PROVE Goal
  <2>1. /\ file' = file /\ disk' = [disk EXCEPT ![g] = "none"]
        /\ pc' = [p \in Fetcher |-> IF pc[p] = "writing" /\ file[p] = g THEN "detached" ELSE pc[p]]
    BY <1>6 DEF Unlink, OneSoundWorker
  <2>2. g # f
    BY <2>1
  <2>3. disk'[f] = disk[f] /\ \A p \in Fetcher : file[p] = f => pc'[p] = pc[p]
    BY <2>1, <2>2
  <2>4. QED BY <1>0, <2>1, <2>3
<1>7. CASE \/ \E s \in Sweeper : SweepSelect(s) \/ DeleteRows(s) \/ RemoveDirs(s)
           \/ \E g \in File : Publish(g)
           \/ Tick \/ UNCHANGED vars
  BY <1>1, <1>7 DEF SweepSelect, DeleteRows, RemoveDirs, Publish, Tick, vars, store, fetchers
<1>8. \A p \in Fetcher : ~WriteFails(p) /\ ~InsertFails(p)
  BY DEF WriteFails, InsertFails, OneSoundWorker
<1>9. \A w \in Worker : ~Crash(w)
  BY DEF Crash, OneSoundWorker
<1>10. QED
  BY <1>2, <1>3, <1>4, <1>5, <1>6, <1>7, <1>8, <1>9 DEF Next, FetchStep, SweepStep

(* A fetch that may run finds no file open. *)
LEMMA FreeSeesWhole ==
  ASSUME OneSoundWorker, PartIsOpen, TypeOK, NEW q \in Fetcher, Free(q), pc[q] # "writing", NEW f \in File
  PROVE  disk[f] \in {"none", "full"}
<1>1. \A p \in Fetcher \ {q} : pc[p] # "writing"
  BY DEF Free, Sync, WritePc, Task, OneSoundWorker
<1>2. disk[f] \notin {"empty", "partial"}
  BY <1>1 DEF PartIsOpen
<1>3. QED BY <1>2 DEF TypeOK

(* What no step takes away, of a file inside the window. *)
LEMMA KeptStays ==
  ASSUME IInv, [Next]_vars, NEW f \in File, Kept(f)'
  PROVE  Kept(f) /\ (disk[f] # "none" => disk'[f] # "none")
<1> USE StoreAssumption, DateType DEF IInv, TypeOK
<1>1. today' = today \/ today' = today + 1
  BY DEF Next, FetchStep, SweepStep, Begin, Download, OpenFile, Grow, FinishWrite, WriteFails, Insert,
         InsertFails, Return, Send, Sent, SweepSelect, Unlink, DeleteRows, RemoveDirs, Crash, Publish, Tick, vars
<1>2. Kept(f)
  BY <1>1 DEF Kept, DateOf
<1>3. ASSUME NEW s \in Sweeper, NEW g \in File, Unlink(s, g) PROVE disk'[f] = disk[f]
  BY <1>2, <1>3 DEF Unlink, Kept, CutoffOK, SelectedOK
<1>4. ASSUME disk[f] # "none" PROVE disk'[f] # "none"
  BY <1>3, <1>4 DEF Next, FetchStep, SweepStep, Begin, Download, OpenFile, Grow, FinishWrite, WriteFails, Insert,
         InsertFails, Return, Send, Sent, SweepSelect, DeleteRows, RemoveDirs, Crash, Publish, Tick, vars, store
<1>5. QED BY <1>2, <1>4

LEMMA AnswerStaysStep ==
  ASSUME OneSoundWorker, IInv, AnswerStays, [Next]_vars
  PROVE  AnswerStays'
<1> SUFFICES ASSUME NEW p \in Fetcher, pc'[p] \in {"ok", "sending"}, Kept(file[p])'
             PROVE  disk'[file'[p]] # "none"
  BY DEF AnswerStays
<1>1. file'[p] \in File /\ file[p] \in File
  BY TypeStep DEF IInv, TypeOK
<1> PICK f \in File : f = file'[p]
  BY <1>1
<1>2. Kept(f)'
  BY DEF Kept
<1>3. Kept(f) /\ (disk[f] # "none" => disk'[f] # "none")
  BY <1>2, KeptStays
<1>4. disk[f] # "none"
  <2> USE DEF IInv, TypeOK, Goto
  <2>1. CASE pc[p] \in {"ok", "sending"} /\ file[p] = f
    BY <1>3, <2>1 DEF AnswerStays
  <2>2. CASE ~(pc[p] \in {"ok", "sending"} /\ file[p] = f)
    <3>1. ASSUME NEW q \in Fetcher, \/ Download(q) \/ OpenFile(q) \/ Grow(q) \/ FinishWrite(q) \/ WriteFails(q)
                                    \/ InsertFails(q) \/ Return(q) \/ Send(q) \/ Sent(q)
          PROVE  FALSE
      BY <2>2, <3>1 DEF Download, OpenFile, Grow, FinishWrite, WriteFails, InsertFails, Return, Send, Sent,
                        fetchers
    <3>2. ASSUME NEW q \in Fetcher, NEW g \in File, Begin(q, g) PROVE disk[f] # "none"
      BY <2>2, <3>2 DEF Begin, Cached
    <3>3. ASSUME NEW q \in Fetcher, Insert(q) PROVE disk[f] # "none"
      BY <1>3, <2>2, <3>3 DEF Insert, WriterOK
    <3>4. QED
      BY <2>2, <3>1, <3>2, <3>3
         DEF Next, FetchStep, SweepStep, SweepSelect, Unlink, DeleteRows, RemoveDirs, Crash, Publish, Tick,
             vars, fetchers
  <2>3. QED BY <2>1, <2>2
<1>5. QED BY <1>3, <1>4

LEMMA SoundWorkerInvariance ==
  ASSUME OneSoundWorker
  PROVE  Spec => [](IInv /\ PartIsOpen /\ AnswerStays)
<1>1. Init => PartIsOpen /\ AnswerStays
  BY AnyFileOK DEF Init, PartIsOpen, AnswerStays
<1>2. IInv /\ PartIsOpen /\ AnswerStays /\ [Next]_vars => PartIsOpen' /\ AnswerStays'
  BY PartIsOpenStep, AnswerStaysStep
<1>3. QED BY <1>1, <1>2, Invariance, PTL DEF Spec

(* With one worker and no failure, whoever parses the file in the stretch  *)
(* in which fetch_report_file returned it (get_usage_report, get_report,   *)
(* fetch_date) reads it whole, however many tasks are under way.           *)
THEOREM AnswerIsWhole ==
  ASSUME OneSoundWorker
  PROVE  Spec => ServedWhole
<1> DEFINE A == \A p \in Fetcher :
                  pc[p] = "ok" /\ pc'[p] = "idle" /\ Kept(file[p]) => disk[file[p]] = "full"
<1>1. IInv /\ PartIsOpen /\ AnswerStays /\ [Next]_vars => [A]_vars
  <2> SUFFICES ASSUME IInv, PartIsOpen, AnswerStays, Next,
                      NEW p \in Fetcher, pc[p] = "ok", pc'[p] = "idle", Kept(file[p])
               PROVE  disk[file[p]] = "full"
    OBVIOUS
  <2>1. Return(p)
    <3> USE DEF IInv, TypeOK, Goto
    <3>1. ASSUME NEW q \in Fetcher,
                 \/ Download(q) \/ OpenFile(q) \/ Grow(q) \/ FinishWrite(q) \/ WriteFails(q)
                 \/ Insert(q) \/ InsertFails(q) \/ (q # p /\ Return(q)) \/ Send(q) \/ Sent(q)
                 \/ \E g \in File : Begin(q, g)
          PROVE  FALSE
      BY <3>1 DEF Download, OpenFile, Grow, FinishWrite, WriteFails, Insert, InsertFails, Return, Send, Sent,
                  Begin, WritePc, fetchers
    <3>2. \A w \in Worker : ~Crash(w)
      BY DEF Crash, OneSoundWorker
    <3>3. QED
      BY <3>1, <3>2 DEF Next, FetchStep, SweepStep, SweepSelect, Unlink, DeleteRows, RemoveDirs, Publish,
                        Tick, fetchers
  <2>2. file[p] \in File
    BY DEF IInv, TypeOK
  <2>3. disk[file[p]] \in {"none", "full"}
    BY <2>1, <2>2, FreeSeesWhole DEF Return, IInv
  <2>4. QED BY <2>3 DEF AnswerStays
<1>2. QED BY <1>1, SoundWorkerInvariance, PTL DEF Spec, ServedWhole

(* With one worker and no failure, a FileResponse (download_usage_report,  *)
(* download_report) finds the file there and whole at every moment, but    *)
(* those at which another fetch is writing the same file.                  *)
THEOREM DownloadIsWhole ==
  ASSUME OneSoundWorker
  PROVE  Spec => []SentWhole
<1>1. IInv /\ PartIsOpen /\ AnswerStays => SentWhole
  <2> SUFFICES ASSUME IInv, PartIsOpen, AnswerStays,
                      NEW p \in Fetcher, pc[p] = "sending", Kept(file[p]), disk[file[p]] # "full"
               PROVE  \E q \in Fetcher \ {p} : file[q] = file[p] /\ pc[q] = "writing"
    BY DEF SentWhole
  <2>1. file[p] \in File /\ disk[file[p]] \in {"empty", "partial"}
    BY DEF IInv, TypeOK, AnswerStays
  <2>2. PICK q \in Fetcher : file[q] = file[p] /\ pc[q] = "writing"
    BY <2>1 DEF PartIsOpen
  <2>3. QED BY <2>2
<1>2. QED BY <1>1, SoundWorkerInvariance, PTL

LEMMA RowsLeftStep ==
  ASSUME OneSoundWorker, IsFiniteSet(Fetcher), IInv, IInv', PartIsOpen, RowsLeft, [Next]_vars
  PROVE  RowsLeft'
<1> SUFFICES ASSUME NEW f \in File, Kept(f)'
             PROVE  rows'[f] + Cardinality(Adding(f)') <= Cardinality(Fetcher)
  BY DEF RowsLeft
<1>0. /\ Kept(f) /\ rows[f] + Cardinality(Adding(f)) <= Cardinality(Fetcher)
      /\ rows[f] \in Nat /\ rows'[f] \in Nat
      /\ IsFiniteSet(Adding(f)) /\ Cardinality(Adding(f)) \in Nat
      /\ Cardinality(Fetcher) \in Nat
  <2>1. Kept(f)
    BY KeptStays
  <2>2. Adding(f) \subseteq Fetcher
    BY DEF Adding
  <2>3. IsFiniteSet(Adding(f)) /\ Cardinality(Adding(f)) \in Nat /\ Cardinality(Fetcher) \in Nat
    BY <2>2, FS_Subset, FS_CardinalityType
  <2>4. rows[f] \in Nat /\ rows'[f] \in Nat
    BY StoreAssumption DEF IInv, TypeOK
  <2>5. QED BY <2>1, <2>3, <2>4 DEF RowsLeft
<1> DEFINE Goal == rows'[f] + Cardinality(Adding(f)') <= Cardinality(Fetcher)
<1>1. ASSUME Adding(f)' \subseteq Adding(f), rows'[f] <= rows[f] PROVE Goal
  <2>1. Cardinality(Adding(f)') \in Nat /\ Cardinality(Adding(f)') <= Cardinality(Adding(f))
    BY <1>0, <1>1, FS_Subset, FS_CardinalityType
  <2>2. QED BY <1>0, <1>1, <2>1
<1> USE StoreAssumption, DateType DEF IInv, TypeOK, Goto
(* The first fetches of a file find none and no row, the later ones hit. *)
<1>2. ASSUME NEW q \in Fetcher, NEW g \in File, Begin(q, g) PROVE Goal
  <2>1. /\ pc[q] = "idle" /\ Free(q) /\ rows' = rows /\ disk' = disk
        /\ \A p \in Fetcher \ {q} : pc'[p] = pc[p] /\ file'[p] = file[p]
        /\ pc'[q] = IF Cached(g) THEN "ok" ELSE "download"
        /\ file'[q] = g
    BY <1>2 DEF Begin
  <2>2. CASE g = f /\ ~Cached(g)
    <3>1. disk[f] = "none"
      BY <2>1, <2>2, FreeSeesWhole DEF Cached
    <3>2. rows'[f] = 0
      BY <1>0, <2>1, <3>1 DEF RecordedIsStored
    <3>3. Adding(f)' \subseteq Fetcher
      BY DEF Adding
    <3>4. Cardinality(Adding(f)') \in Nat /\ Cardinality(Adding(f)') <= Cardinality(Fetcher)
      BY <3>3, FS_Subset, FS_CardinalityType
    <3>5. QED BY <3>2, <3>4
  <2>3. CASE g # f \/ Cached(g)
    <3>1. Adding(f)' \subseteq Adding(f)
      BY <2>1, <2>3 DEF Adding, Active, WritePc
    <3>2. QED BY <1>0, <1>1, <2>1, <3>1
  <2>4. QED BY <2>2, <2>3
<1>3. ASSUME NEW q \in Fetcher, Insert(q) PROVE Goal
  <2>1. /\ pc[q] = "insert" /\ pc'[q] = "ok" /\ file' = file
        /\ \A p \in Fetcher \ {q} : pc'[p] = pc[p]
        /\ rows' = [rows EXCEPT ![file[q]] = RowsAfter(file[q])]
    BY <1>3 DEF Insert
  <2>2. CASE file[q] = f
    <3>1. rows'[f] <= rows[f] + 1
      <4>1. rows'[f] = RowsAfter(f)
        BY <2>1, <2>2
      <4>2. QED BY <1>0, <4>1 DEF RowsAfter
    <3>2. q \in Adding(f) /\ Adding(f)' = Adding(f) \ {q}
      BY <2>1, <2>2 DEF Adding, Active, WritePc
    <3>3. Cardinality(Adding(f)') = Cardinality(Adding(f)) - 1
      BY <1>0, <3>2, FS_RemoveElement
    <3>4. QED BY <1>0, <3>1, <3>3
  <2>3. CASE file[q] # f
    <3>1. rows'[f] = rows[f] /\ Adding(f)' = Adding(f)
      BY <2>1, <2>3 DEF Adding
    <3>2. QED BY <1>0, <1>1, <3>1
  <2>4. QED BY <2>2, <2>3
<1>4. ASSUME NEW q \in Fetcher,
             \/ Download(q) \/ OpenFile(q) \/ Grow(q) \/ FinishWrite(q)
             \/ Return(q) \/ Send(q) \/ Sent(q)
      PROVE  Goal
  <2>1. /\ rows' = rows /\ file' = file
        /\ \A p \in Fetcher \ {q} : pc'[p] = pc[p]
        /\ pc'[q] \in Active => pc[q] \in Active
    BY <1>4 DEF Download, OpenFile, Grow, FinishWrite, Return, Send, Sent, store, fetchers, Active, WritePc
  <2>2. Adding(f)' \subseteq Adding(f)
    BY <2>1 DEF Adding
  <2>3. QED BY <1>0, <1>1, <2>1, <2>2
<1>5. ASSUME NEW s \in Sweeper, NEW g \in File, Unlink(s, g) PROVE Goal
  <2>1. rows' = rows /\ Adding(f)' \subseteq Adding(f)
    BY <1>5 DEF Unlink, Adding, Active, WritePc
  <2>2. QED BY <1>0, <1>1, <2>1
<1>6. ASSUME NEW s \in Sweeper, SweepSelect(s) \/ DeleteRows(s) \/ RemoveDirs(s) PROVE Goal
  <2>1. rows'[f] = rows[f] \/ rows'[f] = 0
    BY <1>6 DEF SweepSelect, DeleteRows, RemoveDirs, store
  <2>2. Adding(f)' = Adding(f)
    BY <1>6 DEF SweepSelect, DeleteRows, RemoveDirs, fetchers, Adding
  <2>3. QED BY <1>0, <1>1, <2>1, <2>2
<1>7. CASE Tick \/ (\E g \in File : Publish(g)) \/ UNCHANGED vars
  <2>1. rows' = rows /\ Adding(f)' = Adding(f)
    BY <1>7 DEF Tick, Publish, vars, store, fetchers, Adding
  <2>2. QED BY <1>0, <1>1, <2>1
<1>8. \A p \in Fetcher : ~WriteFails(p) /\ ~InsertFails(p)
  BY DEF WriteFails, InsertFails, OneSoundWorker
<1>9. \A w \in Worker : ~Crash(w)
  BY DEF Crash, OneSoundWorker
<1>10. QED
  BY <1>2, <1>3, <1>4, <1>5, <1>6, <1>7, <1>8, <1>9 DEF Next, FetchStep, SweepStep

(* Where the UNIQUE key does not tell rows apart, a file inside the window *)
(* still has at most as many records as there were fetches of it at once:  *)
(* in one worker that does not fail, later ones find the file.             *)
THEOREM DuplicatesAreBounded ==
  ASSUME OneSoundWorker, IsFiniteSet(Fetcher)
  PROVE  Spec => []DuplicatesBounded
<1>1. Init => RowsLeft
  <2> SUFFICES ASSUME Init, NEW f \in File PROVE rows[f] + Cardinality(Adding(f)) <= Cardinality(Fetcher)
    BY DEF RowsLeft
  <2>1. rows[f] = 0 /\ Adding(f) = {}
    BY DEF Init, Adding, Active, WritePc
  <2>2. Cardinality(Adding(f)) = 0 /\ Cardinality(Fetcher) \in Nat
    BY <2>1, FS_EmptySet, FS_CardinalityType
  <2>3. QED BY <2>1, <2>2
<1>2. IInv /\ IInv' /\ PartIsOpen /\ RowsLeft /\ [Next]_vars => RowsLeft'
  BY RowsLeftStep
<1>3. IInv /\ RowsLeft => DuplicatesBounded
  <2> SUFFICES ASSUME IInv, RowsLeft, NEW f \in File, Kept(f) PROVE rows[f] <= Cardinality(Fetcher)
    BY DEF DuplicatesBounded
  <2>1. rows[f] + Cardinality(Adding(f)) <= Cardinality(Fetcher) /\ Adding(f) \subseteq Fetcher
    BY DEF RowsLeft, Adding
  <2>2. Cardinality(Adding(f)) \in Nat /\ Cardinality(Fetcher) \in Nat
    BY <2>1, FS_Subset, FS_CardinalityType
  <2>3. rows[f] \in Nat
    BY StoreAssumption DEF IInv, TypeOK
  <2>4. QED BY <2>1, <2>2, <2>3
<1>4. QED BY <1>1, <1>2, <1>3, SoundWorkerInvariance, PTL DEF Spec
=============================================================================

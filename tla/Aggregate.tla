----------------------------- MODULE Aggregate -----------------------------
(***************************************************************************)
(* aggregate_reports (services/report_aggregator.py): one walk over the    *)
(* date directories of a range adds up the CSV rows per period, for each   *)
(* bucket, group and account; then the periods are added up.  A snapshot   *)
(* metric counts with the last day of a period, any other with the sum of  *)
(* its days.  Every row here carries one value, used for a metric of each  *)
(* kind.  A directory lists its files in any order.                        *)
(***************************************************************************)
EXTENDS Integers, Sequences, FiniteSetsExt, Functions

CONSTANTS
  LastDate,     \* the range is 1..LastDate
  PerDate,      \* bound: rows of one date directory
  Row,          \* CSV rows: [name, id, group, account, location, value], None for no value
  PeriodOf,     \* per group_by: the period of each date
  Filter,       \* filters of a request: [bucket, group, account, location], None for any
  None

Date == 1..LastDate
Period == {PeriodOf[g][d] : g \in DOMAIN PeriodOf, d \in Date}
AccountLabel == "(account)"

(* _bucket_label *)
Label(r) == IF r.name # None THEN r.name ELSE IF r.id # None THEN r.id ELSE AccountLabel

(* The keys of the stores; those of each dimension are kept apart. *)
BucketKey(b) == <<"bucket", b>>
GroupKeys(r) == {<<"group", g>> : g \in {r.group} \ {None}}
AccountKeys(r) == {<<"account", a>> : a \in {r.account} \ {None}}

Bucket == {BucketKey(Label(r)) : r \in Row}
Member == UNION {GroupKeys(r) \cup AccountKeys(r) : r \in Row}
Key == Bucket \cup Member

ASSUME AggregateAssumption ==
  /\ LastDate \in Nat \ {0} /\ PerDate \in Nat
  /\ \A g \in DOMAIN PeriodOf : \A c, d \in Date :
       PeriodOf[g][c] \in Nat /\ (c <= d => PeriodOf[g][c] <= PeriodOf[g][d])
  /\ \A r \in Row : r.value \in Nat

VARIABLES
  groupBy, filter,   \* the request
  pc,                \* "date" (at the loop's head), "rows" (in a date) or "done"
  current,           \* the date the walk is at
  missing,           \* the dates without files
  read,              \* every row read so far, with its date, in the order of reading
  snap,              \* per key and date: the snapshot value; Unset if there is none
  cum                \* per key and period: the cumulative value; Unset if there is none

request == <<groupBy, filter>>
stores == <<snap, cum>>
vars == <<request, pc, current, missing, read, stores>>

Unset == -1
PeriodAt(d) == PeriodOf[groupBy][d]

Init ==
  /\ groupBy \in DOMAIN PeriodOf
  /\ filter \in Filter
  /\ pc = "date" /\ current = 1
  /\ missing = {} /\ read = <<>>
  /\ snap = [x \in Key \X Date |-> Unset]
  /\ cum = [x \in Key \X Period |-> Unset]

-----------------------------------------------------------------------------
(* The walk *)

NextDateByWeek(d) == d + 7      \* mutant: the walk steps by the period
NextDate(d) == d + 1

Advance == current' = NextDate(current) /\ pc' = IF current = LastDate THEN "done" ELSE "date"

(* No CSV file but location indexes and audit files: the date is missing. *)
Missing ==
  /\ pc = "date"
  /\ missing' = missing \cup {current}
  /\ Advance
  /\ UNCHANGED <<request, read, stores>>

Found ==
  /\ pc = "date"
  /\ pc' = "rows"
  /\ UNCHANGED <<request, current, missing, read, stores>>

Wanted(r) ==
  /\ filter.account \in {None, r.account}
  /\ filter.group \in {None, r.group}
  /\ filter.location \in {None, r.location}
  /\ filter.bucket \in {None, Label(r)}

Plus(old, v) == IF old = Unset THEN v ELSE old + v

(* Groups and accounts add up the rows of a day (_snap_add); a bucket keeps *)
(* the last of them.                                                        *)
SnapValueLast(k, old, v) == v                                     \* mutant
SnapValue(k, old, v) == IF k \in Bucket THEN v ELSE Plus(old, v)

CumValueLast(old, v) == v                                         \* mutant: = for +=
CumValue(old, v) == Plus(old, v)

KeysOf(r) == {BucketKey(Label(r))} \cup GroupKeys(r) \cup AccountKeys(r)

ReadRow(r) ==
  /\ pc = "rows"
  /\ Cardinality({i \in DOMAIN read : read[i].date = current}) < PerDate
  /\ read' = Append(read, [date |-> current, row |-> r])
  /\ IF Wanted(r)
     THEN /\ snap' = [x \in Key \X Date |->
                        IF x[1] \in KeysOf(r) /\ x[2] = current
                        THEN SnapValue(x[1], snap[x], r.value) ELSE snap[x]]
          /\ cum' = [x \in Key \X Period |->
                       IF x[1] \in KeysOf(r) /\ x[2] = PeriodAt(current)
                       THEN CumValue(cum[x], r.value) ELSE cum[x]]
     ELSE UNCHANGED stores
  /\ UNCHANGED <<request, pc, current, missing>>

(* The files of the date are read; one that cannot be read has no rows. *)
EndDate ==
  /\ pc = "rows"
  /\ Advance
  /\ UNCHANGED <<request, missing, read, stores>>

Next == Missing \/ Found \/ EndDate \/ \E r \in Row : ReadRow(r)

Spec == Init /\ [][Next]_vars

-----------------------------------------------------------------------------
(* The result, from the stores *)

Periods == {p \in Period : \E k \in Key : cum[<<k, p>>] # Unset}

(* _snap_read *)
SnapReadFirst(k, p) ==                                            \* mutant: min for max
  LET dates == {d \in Date : PeriodAt(d) = p /\ snap[<<k, d>>] # Unset}
  IN  IF dates = {} THEN 0 ELSE snap[<<k, Min(dates)>>]
SnapRead(k, p) ==
  LET dates == {d \in Date : PeriodAt(d) = p /\ snap[<<k, d>>] # Unset}
  IN  IF dates = {} THEN 0 ELSE snap[<<k, Max(dates)>>]

CumRead(k, p) == IF cum[<<k, p>>] = Unset THEN 0 ELSE cum[<<k, p>>]

AllBuckets == {b \in Bucket : \E p \in Periods : cum[<<b, p>>] # Unset}

(* A snapshot's total is that of the last period; the others add up. *)
Stored(k) == IF Periods = {} THEN 0 ELSE SnapRead(k, Max(Periods))
Traffic(k) == SumFunction([p \in Periods |-> CumRead(k, p)])

StoredAt(p) == SumFunction([b \in AllBuckets |-> SnapRead(b, p)])
TrafficAt(p) == SumFunction([b \in AllBuckets |-> CumRead(b, p)])
TotalStored == IF Periods = {} THEN 0 ELSE StoredAt(Max(Periods))
TotalTraffic == SumFunction([p \in Periods |-> TrafficAt(p)])

-----------------------------------------------------------------------------
(* Properties *)

TypeOK ==
  /\ pc \in {"date", "rows", "done"}
  /\ current \in 1..LastDate + 1
  /\ missing \subseteq Date
  /\ read \in Seq([date : Date, row : Row])
  /\ snap \in [Key \X Date -> Nat \cup {Unset}]
  /\ cum \in [Key \X Period -> Nat \cup {Unset}]

(* The rows that count, by their place in the reading. *)
Counted == {i \in DOMAIN read : Wanted(read[i].row)}
With(k) == {i \in Counted : k \in KeysOf(read[i].row)}
SumOf(S) == SumFunction([i \in S |-> read[i].row.value])
LastDay(S) == LET d == Max({read[i].date : i \in S}) IN {i \in S : read[i].date = d}
LastPeriod(S) ==
  LET p == Max({PeriodAt(read[i].date) : i \in Counted})
  IN  {i \in S : PeriodAt(read[i].date) = p}

(* Every counted row is in exactly one period and one bucket: the traffic  *)
(* of the buckets adds up to that of the rows, and so does that of each    *)
(* group and account, whatever the filter and the grouping.                *)
TrafficConserved ==
  pc = "done" =>
    /\ TotalTraffic = SumOf(Counted)
    /\ \A k \in Member : Traffic(k) = SumOf(With(k))

(* What a group or an account stores is the sum of its rows of the last    *)
(* day of the last period on which it has any, in whatever order the files *)
(* were listed: a group that left in an earlier period counts for nothing. *)
StoredIsLastDay ==
  pc = "done" => \A k \in Member :
    LET rows == IF Counted = {} THEN {} ELSE LastPeriod(With(k))
    IN  Stored(k) = IF rows = {} THEN 0 ELSE SumOf(LastDay(rows))

(* The buckets' total agrees with it only if no two rows of a day have the *)
(* same label: then each bucket stores what its last row says.             *)
LabelsDiffer ==
  \A i, j \in Counted : read[i].date = read[j].date /\ Label(read[i].row) = Label(read[j].row) => i = j

TotalIsOfBuckets ==
  pc = "done" /\ LabelsDiffer /\ Counted # {} =>
    TotalStored = SumOf(UNION {LET rows == LastPeriod(With(b))
                               IN  IF rows = {} THEN {} ELSE LastDay(rows) : b \in Bucket})
=============================================================================

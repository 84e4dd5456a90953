---------------------------- MODULE MCAggregate ----------------------------
(* Three dates for TLC, by day or in two weeks, and the rows that tell the *)
(* rules apart: two accounts of a group whose buckets share a name, an     *)
(* account's rows without a bucket, and a row of the groups index, which   *)
(* has no metrics (its file is stored as <date>_usage.groups.csv, so       *)
(* _is_index_file does not know it).                                       *)
EXTENDS Aggregate, TLC

A1 == "a1"
A2 == "a2"
G1 == "g1"
B1 == "b1"
B2 == "b2"
L1 == "l1"
L2 == "l2"

MCRow ==
  { [name |-> B1, id |-> B1, group |-> G1, account |-> A1, location |-> L1, value |-> 1],
    [name |-> B1, id |-> B1, group |-> G1, account |-> A2, location |-> L2, value |-> 2],
    [name |-> None, id |-> B2, group |-> G1, account |-> A2, location |-> L2, value |-> 1],
    [name |-> None, id |-> None, group |-> None, account |-> A1, location |-> L1, value |-> 2],
    [name |-> None, id |-> None, group |-> G1, account |-> None, location |-> None, value |-> 0] }

MCPeriodOf == ("day" :> <<1, 2, 3>>) @@ ("week" :> <<1, 1, 2>>)

NoFilter == [bucket |-> None, group |-> None, account |-> None, location |-> None]
MCFilter ==
  { NoFilter, [NoFilter EXCEPT !.account = A1], [NoFilter EXCEPT !.group = G1],
    [NoFilter EXCEPT !.bucket = B1], [NoFilter EXCEPT !.location = L2] }
=============================================================================

--------------------------- MODULE MCReportFetch ---------------------------
(* Instances of ReportFetch for TLC. *)
EXTENDS ReportFetch, TLC

CONSTANTS g1, l1, r1, w1

TwoDays == {1, 2}

OneWorker == [r \in Run |-> w1]

\* One group with one region on the first of two dates, none on the second.
NarrowGroups  == (1 :> {g1}) @@ (2 :> {})
NarrowRegions == [d \in TwoDays |-> (g1 :> {l1})]

\* The first date is published file by file, of the second only one file.
FirstDate == (1 :> File) @@ (2 :> {Account})
=============================================================================

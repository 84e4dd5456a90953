--------------------------- MODULE MCReportStore ---------------------------
(* Instances of ReportStore for TLC: two dates, of which the first leaves  *)
(* the window (Retention = 1) when today reaches 2 and the second stays.   *)
EXTENDS ReportStore, TLC

CONSTANTS f1, f2, s1, w1, w2

MCDay == {0, 1}

\* Each fetcher in a worker of its own, the sweeper beside the first one.
TwoWorkers == (f1 :> w1) @@ (f2 :> w2) @@ (s1 :> w1)
\* Everything in one worker.
OneWorker  == (f1 :> w1) @@ (f2 :> w1) @@ (s1 :> w1)
\* One fetcher and the sweeper in one worker.
Alone      == (f1 :> w1) @@ (s1 :> w1)
=============================================================================

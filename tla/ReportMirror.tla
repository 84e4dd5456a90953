---------------------------- MODULE ReportMirror ----------------------------
(***************************************************************************)
(* What the local report store promises its readers, without its writes,   *)
(* failures and sweeps: a set of published reports inside the retention    *)
(* window that only grows while a day lasts, and from which a new day      *)
(* takes what has left the window.  ReportStore implements it.             *)
(***************************************************************************)
EXTENDS Integers

CONSTANTS Day, Kind, Retention, Horizon

VARIABLES
  bucket,   \* the reports Backblaze has published
  today,    \* the current date
  shown     \* the reports that can be listed and read here

File == Day \X Kind
InWindow(f, now) == f[1] >= now - Retention

Init == bucket = {} /\ today = 0 /\ shown = {}

Publish(f) ==
  /\ bucket' = bucket \cup {f}
  /\ UNCHANGED <<today, shown>>

(* A report is shown only after it was published, and inside the window. *)
Show(f) ==
  /\ f \in bucket /\ InWindow(f, today)
  /\ shown' = shown \cup {f}
  /\ UNCHANGED <<bucket, today>>

NewDay ==
  /\ today < Horizon
  /\ today' = today + 1
  /\ shown' = {f \in shown : InWindow(f, today')}
  /\ UNCHANGED bucket

Next == NewDay \/ \E f \in File : Publish(f) \/ Show(f)

Spec == Init /\ [][Next]_<<bucket, today, shown>>
=============================================================================

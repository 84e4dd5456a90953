----------------------------- MODULE Scheduler -----------------------------
(***************************************************************************)
(* scheduler_loop (services/report_scheduler.py): a task of each worker    *)
(* process that sleeps 60 seconds, looks at the wall clock, and starts the *)
(* daily fetch when the clock shows the configured minute.  Time passes in *)
(* slots, Slots to a minute and Minutes to a day; the day is short so that *)
(* several fit.                                                            *)
(***************************************************************************)
EXTENDS Integers, FiniteSets

CONSTANTS
  Worker,        \* worker processes, each with its own loop
  Slots,         \* slots in a minute
  Minutes,       \* minutes in a day
  Lookback,      \* lookback_days
  Never,         \* the schedule when auto_fetch is off, or fetch_time is no time
                 \* of day: ScheduleConfig accepts 24:00 and 99:99
  FirstSchedule, \* the schedule at the start
  Horizon,       \* bound: the last slot
  MaxRun,        \* bound: slots a scheduled run takes
  Troubles,      \* the mishaps a run allows: "late", "failure", "restart", "forward",
                 \* "back", "update"
  MaxTrouble     \* bound: mishaps in a behaviour

Minute == 0..Minutes - 1

ASSUME SchedulerAssumption ==
  /\ Slots \in Nat \ {0} /\ Minutes \in Nat \ {0} /\ Lookback \in Nat \ {0}
  /\ Never \notin Minute /\ FirstSchedule \in Minute \cup {Never}
  /\ Troubles \subseteq {"late", "failure", "restart", "forward", "back", "update"}
  /\ {Horizon, MaxRun, MaxTrouble} \subseteq Nat

VARIABLES
  now,        \* slots since the start
  offset,     \* what the local clock has been put back by, in slots
  schedule,   \* fetch_time of report_schedule, or Never
  pc,         \* per worker: "asleep" or "running" a fetch
  wakeAt,     \* per worker: when its sleep ends, or since when it runs
  lastRun,    \* per worker: _last_scheduled_minute, -1 for None
  fired,      \* per worker and local minute: scheduled runs started
  attempted,  \* the report dates a finished run has gone through
  trouble     \* how many mishaps there have been

vars == <<now, offset, schedule, pc, wakeAt, lastRun, fired, attempted, trouble>>
loops == <<pc, wakeAt, lastRun, fired, attempted>>

LocalMinute == (now - offset) \div Slots     \* the run_key: date and HH:MM
HHMM  == LocalMinute % Minutes
Today == LocalMinute \div Minutes

Keys == 0..(Horizon \div Slots) + MaxTrouble

(* asyncio.sleep(60), which is also the first thing the loop does. *)
WakeTimeSeconds == now + 60 * Slots                 \* mutant: minutes for seconds
WakeTime == now + Slots
FirstWakeAtOnce == now                              \* mutant: checks, then sleeps
FirstWake == WakeTime

Init ==
  /\ now = 0 /\ offset = 0
  /\ schedule = FirstSchedule
  /\ pc = [w \in Worker |-> "asleep"]
  /\ wakeAt \in [Worker -> Slots..2 * Slots - 1]
  /\ lastRun = [w \in Worker |-> -1]
  /\ fired = [w \in Worker |-> [k \in Keys |-> 0]]
  /\ attempted = {}
  /\ trouble = 0

Trouble(kind) == kind \in Troubles /\ trouble < MaxTrouble /\ trouble' = trouble + 1

(* The two guards of the loop: auto_fetch and the minute, then run_key. *)
DueUnguarded(w) == schedule = HHMM                  \* mutant: no run_key guard
Due(w) == schedule = HHMM /\ lastRun[w] # LocalMinute

WakeIdle(w) ==
  /\ pc[w] = "asleep" /\ now >= wakeAt[w]
  /\ ~Due(w)
  /\ wakeAt' = [wakeAt EXCEPT ![w] = WakeTime]
  /\ UNCHANGED <<now, offset, schedule, pc, lastRun, fired, attempted, trouble>>

Fire(w) ==
  /\ pc[w] = "asleep" /\ now >= wakeAt[w]
  /\ Due(w)
  /\ lastRun' = [lastRun EXCEPT ![w] = LocalMinute]
  /\ fired' = [fired EXCEPT ![w][LocalMinute] = @ + 1]
  /\ pc' = [pc EXCEPT ![w] = "running"]
  /\ wakeAt' = [wakeAt EXCEPT ![w] = now]
  /\ UNCHANGED <<now, offset, schedule, attempted, trouble>>

Sleep(w) ==
  /\ pc' = [pc EXCEPT ![w] = "asleep"]
  /\ wakeAt' = [wakeAt EXCEPT ![w] = WakeTime]

(* end = yesterday, start = end - (lookback_days - 1), of the day it fired. *)
FiredOn(w) == lastRun[w] \div Minutes
RangeShort(w) == FiredOn(w) - Lookback + 1 .. FiredOn(w) - 1     \* mutant
Range(w) == FiredOn(w) - Lookback .. FiredOn(w) - 1

Finish(w) ==
  /\ pc[w] = "running"
  /\ attempted' = attempted \cup Range(w)
  /\ Sleep(w)
  /\ UNCHANGED <<now, offset, schedule, lastRun, fired, trouble>>

(* An exception is logged and swallowed; the guard stays set. *)
RunFails(w) ==
  /\ pc[w] = "running"
  /\ Trouble("failure")
  /\ \E d \in Range(w) : attempted' = attempted \cup {e \in Range(w) : e < d}
  /\ Sleep(w)
  /\ UNCHANGED <<now, offset, schedule, lastRun, fired>>

(* The process stops and starts again: the guard is in memory only. *)
Restart(w) ==
  /\ Trouble("restart")
  /\ pc' = [pc EXCEPT ![w] = "asleep"]
  /\ wakeAt' = [wakeAt EXCEPT ![w] = FirstWake]
  /\ lastRun' = [lastRun EXCEPT ![w] = -1]
  /\ UNCHANGED <<now, offset, schedule, fired, attempted>>

(* update_schedule, which accepts any two digits, a colon and two digits. *)
UpdateSchedule(s) ==
  /\ Trouble("update") /\ s # schedule
  /\ schedule' = s
  /\ UNCHANGED <<now, offset, loops>>

Overdue(w) == IF pc[w] = "asleep" THEN now >= wakeAt[w] ELSE now >= wakeAt[w] + MaxRun

(* Time passes.  A loop that is due goes on within its slot, or is late by *)
(* what the sleep, the database and the other tasks of its worker cost it. *)
Tick ==
  /\ now < Horizon
  /\ now' = now + 1
  /\ \/ /\ \A w \in Worker : ~Overdue(w)
        /\ UNCHANGED trouble
     \/ /\ \E w \in Worker : Overdue(w)
        /\ \A w \in Worker : Overdue(w) => pc[w] = "asleep"
        /\ Trouble("late")
  /\ UNCHANGED <<offset, schedule, loops>>

(* The local clock is put back or forward by a minute of this short day. *)
FallBack ==
  /\ Trouble("back") /\ now - offset >= Slots
  /\ offset' = offset + Slots
  /\ UNCHANGED <<now, schedule, loops>>

SpringForward ==
  /\ Trouble("forward")
  /\ offset' = offset - Slots
  /\ UNCHANGED <<now, schedule, loops>>

Next ==
  \/ \E w \in Worker : WakeIdle(w) \/ Fire(w) \/ Finish(w) \/ RunFails(w) \/ Restart(w)
  \/ \E s \in Minute \cup {Never} : UpdateSchedule(s)
  \/ Tick \/ FallBack \/ SpringForward

Spec == Init /\ [][Next]_vars

-----------------------------------------------------------------------------
(* Properties *)

TypeOK ==
  /\ now \in 0..Horizon /\ offset \in Int
  /\ schedule \in Minute \cup {Never}
  /\ pc \in [Worker -> {"asleep", "running"}]
  /\ wakeAt \in [Worker -> 0..Horizon + 2 * Slots]
  /\ lastRun \in [Worker -> Keys \cup {-1}]
  /\ fired \in [Worker -> [Keys -> Nat]]
  /\ attempted \subseteq Int
  /\ trouble \in 0..MaxTrouble

(* A worker starts at most one run for a local minute, whether the clock is *)
(* put back over it or the process restarts in it.                          *)
OncePerMinute == \A w \in Worker, k \in Keys : fired[w][k] <= 1

(* With the default look-back of two days a single mishap (a late wake-up, *)
(* a failed run, a restart, a changed clock or schedule) loses no report   *)
(* date while auto_fetch is on for a time of day that there is: a run of a *)
(* later day still goes through it.                                        *)
NoDateLost ==
  \A d \in 0..Today :
    schedule # Never /\ Today > d + Lookback /\ (\A w \in Worker : pc[w] = "asleep") => d \in attempted
=============================================================================

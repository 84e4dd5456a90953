--------------------------- MODULE SchedulerProofs ---------------------------
(***************************************************************************)
(* Proofs about Scheduler, for every number of workers and every length of *)
(* a minute and of a day.  The run_key guard is kept in memory, so the     *)
(* invariant of FiresOnce says why forgetting it in a restart does no      *)
(* harm: the loop sleeps a whole minute first.  That no report date is     *)
(* lost is about two days at a time: DatesInv names the one date a mishap  *)
(* can cost, and says where in its sleep a worker is before the next.      *)
(***************************************************************************)
EXTENDS Scheduler, TLAPS

LEMMA Quotient ==
  ASSUME NEW x \in Int
  PROVE  /\ x \div Slots \in Int
         /\ (x \div Slots) * Slots <= x
         /\ x < (x \div Slots) * Slots + Slots
BY SchedulerAssumption

LEMMA Difference ==
  ASSUME NEW a \in Int, NEW b \in Int, NEW c \in Int, NEW d \in Int, a <= c, d <= b
  PROVE  a - b <= c - d
OBVIOUS

(* The local minute never runs backwards with the slots. *)
LEMMA MinuteMonotone ==
  ASSUME NEW x \in Int, NEW y \in Int, x <= y
  PROVE  x \div Slots <= y \div Slots
<1> DEFINE a == x \div Slots
           b == y \div Slots
<1>1. /\ a \in Int /\ b \in Int /\ Slots \in Nat \ {0}
      /\ a * Slots <= x /\ y < b * Slots + Slots
  BY Quotient, SchedulerAssumption
<1> HIDE DEF a, b
<1>2. SUFFICES ASSUME b + 1 <= a PROVE FALSE BY <1>1 DEF a, b
<1>3. (b + 1) * Slots <= a * Slots BY <1>1, <1>2
<1>4. (b + 1) * Slots = b * Slots + Slots BY <1>1
<1>5. a * Slots \in Int /\ b * Slots \in Int BY <1>1
<1> QED BY <1>1, <1>3, <1>4, <1>5

(* A minute's sleep ends in a later minute. *)
LEMMA SleepPassesMinute ==
  ASSUME NEW x \in Int
  PROVE  x \div Slots < (x + Slots) \div Slots
<1> DEFINE a == x \div Slots
           b == (x + Slots) \div Slots
<1>1. /\ a \in Int /\ b \in Int /\ Slots \in Nat \ {0} /\ x + Slots \in Int
      /\ a * Slots <= x /\ x + Slots < b * Slots + Slots
  BY Quotient, SchedulerAssumption
<1> HIDE DEF a, b
<1>2. SUFFICES ASSUME b <= a PROVE FALSE BY <1>1 DEF a, b
<1>3. b * Slots <= a * Slots BY <1>1, <1>2
<1>4. a * Slots \in Int /\ b * Slots \in Int BY <1>1
<1> QED BY <1>1, <1>3, <1>4
-----------------------------------------------------------------------------
Types ==
  /\ now \in Nat /\ offset \in Int /\ offset <= 0
  /\ pc \in [Worker -> {"asleep", "running"}]
  /\ wakeAt \in [Worker -> Int]
  /\ lastRun \in [Worker -> Int]
  /\ fired \in [Worker -> [Keys -> {0, 1}]]

(* No run can start in the minute k any more: it is over, or will be when  *)
(* the worker wakes up.                                                    *)
Past(w, k) ==
  \/ k < LocalMinute
  \/ pc[w] = "asleep" /\ k < (wakeAt[w] - offset) \div Slots

(* A minute in which the worker has fired is the one its guard remembers,  *)
(* or is past.                                                             *)
Guarded(w) ==
  /\ lastRun[w] <= LocalMinute
  /\ \A k \in Keys : fired[w][k] = 1 => k <= LocalMinute /\ (lastRun[w] = k \/ Past(w, k))

IInv == Types /\ \A w \in Worker : Guarded(w)

LEMMA InitInv == Init => IInv
<1> SUFFICES ASSUME Init PROVE IInv OBVIOUS
<1>1. Types
  <2>1. Slots \in Nat BY SchedulerAssumption
  <2>2. wakeAt \in [Worker -> Int] BY <2>1 DEF Init
  <2>3. fired \in [Worker -> [Keys -> {0, 1}]] BY DEF Init
  <2> QED BY <2>2, <2>3 DEF Init, Types
<1>2. LocalMinute \in Int /\ 0 <= LocalMinute
  <2>1. 0 \div Slots <= (now - offset) \div Slots /\ (now - offset) \div Slots \in Int
    BY <1>1, MinuteMonotone, Quotient DEF Init
  <2>2. 0 \div Slots = 0 BY SchedulerAssumption
  <2> QED BY <2>1, <2>2 DEF LocalMinute
<1>3. ASSUME NEW w \in Worker PROVE Guarded(w) BY <1>2 DEF Init, Guarded
<1> QED BY <1>1, <1>3 DEF IInv

-----------------------------------------------------------------------------
(* A worker that may wake up has nothing left to wait for. *)
LEMMA LateIsPast ==
  ASSUME Types, NEW w \in Worker, now >= wakeAt[w]
  PROVE  (wakeAt[w] - offset) \div Slots <= LocalMinute
<1>1. wakeAt[w] - offset \in Int /\ now - offset \in Int /\ wakeAt[w] - offset <= now - offset
  BY DEF Types
<1> QED BY <1>1, MinuteMonotone DEF LocalMinute

LEMMA SleepIsLong ==
  ASSUME Types PROVE LocalMinute < (now + Slots - offset) \div Slots /\ LocalMinute \in Int
<1>1. now - offset \in Int /\ now + Slots - offset = now - offset + Slots
  BY SchedulerAssumption DEF Types
<1> QED BY <1>1, SleepPassesMinute, Quotient DEF LocalMinute

LEMMA NextKeeps ==
  ASSUME "back" \notin Troubles, IInv, [Next]_vars PROVE IInv'
<1>1. Types /\ LocalMinute \in Int
  <2>1. Types BY DEF IInv
  <2> QED BY <2>1, SleepIsLong
(* Steps that leave the clock where it is. *)
<1>2. ASSUME NEW w \in Worker, WakeIdle(w) \/ Finish(w) \/ RunFails(w) PROVE IInv'
  <2>1. /\ UNCHANGED <<now, offset, lastRun, fired>>
        /\ wakeAt' = [wakeAt EXCEPT ![w] = now + Slots]
        /\ pc' = [pc EXCEPT ![w] = "asleep"]
        /\ pc[w] = "asleep" => now >= wakeAt[w]
    BY <1>1, <1>2 DEF WakeIdle, Finish, RunFails, Sleep, WakeTime, Types
  <2>2. Types' /\ LocalMinute' = LocalMinute
    BY <1>1, <2>1, SchedulerAssumption DEF Types, LocalMinute, Keys
  <2>3. ASSUME NEW v \in Worker PROVE Guarded(v)'
    <3>1. Guarded(v) BY DEF IInv
    <3>2. CASE v # w
      <4>1. pc'[v] = pc[v] /\ wakeAt'[v] = wakeAt[v] BY <1>1, <2>1, <3>2 DEF Types
      <4> QED BY <2>1, <2>2, <3>1, <4>1 DEF Guarded, Past, Keys
    <3>3. CASE v = w
      <4>1. \A k \in Keys : Past(v, k) => k < LocalMinute
        <5>1. pc[v] = "asleep" => (wakeAt[v] - offset) \div Slots <= LocalMinute
          BY <1>1, <2>1, <3>3, LateIsPast
        <5>2. Keys \subseteq Int /\ (wakeAt[v] - offset) \div Slots \in Int
          <6>1. wakeAt[v] - offset \in Int BY <1>1 DEF Types
          <6> QED BY <6>1, Quotient DEF Keys
        <5> QED BY <1>1, <5>1, <5>2 DEF Past
      <4> QED BY <2>1, <2>2, <3>1, <4>1 DEF Guarded, Past, Keys
    <3> QED BY <3>2, <3>3
  <2> QED BY <2>2, <2>3 DEF IInv
<1>3. ASSUME NEW w \in Worker, Fire(w) PROVE IInv'
  <2>1. /\ UNCHANGED <<now, offset>> /\ now >= wakeAt[w] /\ pc[w] = "asleep"
        /\ lastRun[w] # LocalMinute
        /\ lastRun' = [lastRun EXCEPT ![w] = LocalMinute]
        /\ fired' = [fired EXCEPT ![w] = [fired[w] EXCEPT ![LocalMinute] = @ + 1]]
        /\ pc' = [pc EXCEPT ![w] = "running"]
        /\ wakeAt' = [wakeAt EXCEPT ![w] = now]
    BY <1>3 DEF Fire, Due
  <2>2. LocalMinute' = LocalMinute BY <2>1 DEF LocalMinute
  <2>3. Guarded(w) /\ fired[w] \in [Keys -> {0, 1}] BY <1>1 DEF IInv, Types
  <2>4. \A k \in Keys : Past(w, k) => k < LocalMinute
    <3>1. (wakeAt[w] - offset) \div Slots <= LocalMinute BY <1>1, <2>1, LateIsPast
    <3>2. Keys \subseteq Int /\ (wakeAt[w] - offset) \div Slots \in Int
      <4>1. wakeAt[w] - offset \in Int BY <1>1 DEF Types
      <4> QED BY <4>1, Quotient DEF Keys
    <3> QED BY <1>1, <3>1, <3>2 DEF Past
  <2>5. LocalMinute \in Keys => fired[w][LocalMinute] = 0
    BY <1>1, <2>1, <2>3, <2>4 DEF Guarded
  <2>6. PICK f \in [Keys -> {0, 1}] :
          /\ f = [fired[w] EXCEPT ![LocalMinute] = @ + 1]
          /\ \A k \in Keys : f[k] = 1 => k = LocalMinute \/ fired[w][k] = 1
    <3>1. CASE LocalMinute \in Keys
      <4>1. [fired[w] EXCEPT ![LocalMinute] = @ + 1] = [fired[w] EXCEPT ![LocalMinute] = 1]
        BY <2>3, <2>5, <3>1
      <4> QED BY <2>3, <3>1, <4>1
    <3>2. CASE LocalMinute \notin Keys
      <4>1. [fired[w] EXCEPT ![LocalMinute] = @ + 1] = fired[w] BY <2>3, <3>2
      <4> QED BY <2>3, <4>1
    <3> QED BY <3>1, <3>2
  <2>7. fired' = [fired EXCEPT ![w] = f] BY <2>1, <2>6
  <2>8. Types' BY <1>1, <2>1, <2>6, <2>7 DEF Types, Keys
  <2>9. ASSUME NEW v \in Worker PROVE Guarded(v)'
    <3>1. CASE v # w
      <4>1. /\ pc'[v] = pc[v] /\ wakeAt'[v] = wakeAt[v] /\ lastRun'[v] = lastRun[v]
            /\ fired'[v] = fired[v]
        BY <1>1, <2>1, <2>7, <3>1 DEF Types
      <4> QED BY <2>1, <2>2, <4>1 DEF IInv, Guarded, Past, Keys
    <3>2. CASE v = w
      <4>1. lastRun'[v] = LocalMinute /\ fired'[v] = f BY <1>1, <2>1, <2>7, <3>2 DEF Types
      <4>2. \A k \in Keys : f[k] = 1 => k = LocalMinute \/ k < LocalMinute
        BY <1>1, <2>3, <2>4, <2>6 DEF Guarded, Types, Keys
      <4> QED BY <1>1, <2>2, <4>1, <4>2 DEF Guarded, Past, Keys
    <3> QED BY <3>1, <3>2
  <2> QED BY <2>8, <2>9 DEF IInv
<1>4. ASSUME NEW w \in Worker, Restart(w) PROVE IInv'
  <2>1. /\ UNCHANGED <<now, offset, fired>>
        /\ lastRun' = [lastRun EXCEPT ![w] = -1]
        /\ wakeAt' = [wakeAt EXCEPT ![w] = now + Slots]
        /\ pc' = [pc EXCEPT ![w] = "asleep"]
    BY <1>4 DEF Restart, FirstWake, WakeTime
  <2>2. Types' /\ LocalMinute' = LocalMinute
    BY <1>1, <2>1, SchedulerAssumption DEF Types, LocalMinute, Keys
  <2>3. 0 <= LocalMinute
    <3>1. 0 \div Slots <= (now - offset) \div Slots
      <4>1. now - offset \in Int /\ 0 <= now - offset BY <1>1 DEF Types
      <4> QED BY <4>1, MinuteMonotone
    <3>2. 0 \div Slots = 0 BY SchedulerAssumption
    <3> QED BY <3>1, <3>2 DEF LocalMinute
  <2>4. ASSUME NEW v \in Worker PROVE Guarded(v)'
    <3>1. Guarded(v) BY DEF IInv
    <3>2. CASE v # w
      <4>1. pc'[v] = pc[v] /\ wakeAt'[v] = wakeAt[v] /\ lastRun'[v] = lastRun[v]
        BY <1>1, <2>1, <3>2 DEF Types
      <4> QED BY <2>1, <2>2, <3>1, <4>1 DEF Guarded, Past, Keys
    <3>3. CASE v = w
      <4>1. pc'[v] = "asleep" /\ lastRun'[v] = -1 /\ wakeAt'[v] = now + Slots
        BY <1>1, <2>1, <3>3 DEF Types
      <4>2. \A k \in Keys : fired[v][k] = 1 => k < (now + Slots - offset) \div Slots
        <5>1. LocalMinute < (now + Slots - offset) \div Slots BY <1>1, SleepIsLong
        <5>2. /\ lastRun[v] \in Int /\ Keys \subseteq Int /\ (now + Slots - offset) \div Slots \in Int
          <6>1. now + Slots - offset \in Int BY <1>1, SchedulerAssumption DEF Types
          <6> QED BY <1>1, <6>1, Quotient DEF Types, Keys
        <5> QED BY <1>1, <3>1, <5>1, <5>2 DEF Guarded
      <4>3. ASSUME NEW k \in Keys, fired[v][k] = 1 PROVE (k <= LocalMinute /\ Past(v, k))'
        <5>1. k <= LocalMinute BY <3>1, <4>3 DEF Guarded
        <5>2. (wakeAt'[v] - offset') \div Slots = (now + Slots - offset) \div Slots
          <6>1. wakeAt'[v] = now + Slots /\ offset' = offset BY <2>1, <4>1
          <6>2. /\ now \in Int /\ offset \in Int /\ Slots \in Int
                /\ wakeAt'[v] \in Int /\ offset' \in Int
            BY <1>1, <6>1, SchedulerAssumption DEF Types
          <6>3. wakeAt'[v] - offset' = now + Slots - offset BY <6>1, <6>2
          <6> QED BY <6>3
        <5>3. k < (now + Slots - offset) \div Slots BY <4>2, <4>3
        <5>4. Past(v, k)' BY <4>1, <5>2, <5>3 DEF Past
        <5> QED BY <2>2, <5>1, <5>4
      <4>4. lastRun'[v] <= LocalMinute' BY <1>1, <2>2, <2>3, <4>1
      <4> QED BY <2>1, <4>3, <4>4 DEF Guarded, Keys
    <3> QED BY <3>2, <3>3
  <2> QED BY <2>2, <2>4 DEF IInv
(* Steps of the clock. *)
<1>5. ASSUME UNCHANGED <<pc, lastRun, fired, wakeAt>>, now' \in Nat, offset' \in Int, offset' <= 0,
             offset' <= offset, now <= now'
      PROVE  IInv'
  <2>1. Types' BY <1>1, <1>5 DEF Types, Keys
  <2>2. LocalMinute <= LocalMinute' /\ LocalMinute' \in Int
    <3>1. now - offset <= now' - offset'
      <4>1. now \in Int /\ offset \in Int /\ now' \in Int /\ now <= now' /\ offset' <= offset
        BY <1>1, <1>5 DEF Types
      <4>2. offset' \in Int BY <1>5
      <4> QED BY <4>1, <4>2, Difference
    <3>2. /\ (now - offset) \div Slots \in Int /\ (now' - offset') \div Slots \in Int
          /\ (now - offset) \div Slots <= (now' - offset') \div Slots
      <4>1. now - offset \in Int /\ now' - offset' \in Int BY <1>1, <1>5 DEF Types
      <4> QED BY <4>1, <3>1, MinuteMonotone, Quotient
    <3> QED BY <3>2 DEF LocalMinute
  <2>3. ASSUME NEW v \in Worker PROVE Guarded(v)'
    <3>1. Guarded(v) /\ lastRun[v] \in Int /\ wakeAt[v] \in Int BY <1>1 DEF IInv, Types
    <3>2. /\ (wakeAt[v] - offset) \div Slots <= (wakeAt[v] - offset') \div Slots
          /\ (wakeAt[v] - offset) \div Slots \in Int /\ (wakeAt[v] - offset') \div Slots \in Int
      <4>1. /\ wakeAt[v] - offset \in Int /\ wakeAt[v] - offset' \in Int
            /\ wakeAt[v] - offset <= wakeAt[v] - offset'
        BY <1>1, <1>5, <3>1 DEF Types
      <4> QED BY <4>1, MinuteMonotone, Quotient
    <3>3. \A k \in Keys : Past(v, k) => Past(v, k)'
      BY <1>1, <1>5, <2>2, <3>2 DEF Past, Keys
    <3>4. lastRun'[v] <= LocalMinute' BY <1>1, <1>5, <2>2, <3>1 DEF Guarded
    <3>5. \A k \in Keys : k <= LocalMinute => k <= LocalMinute' BY <1>1, <2>2 DEF Keys
    <3> QED BY <1>5, <3>1, <3>3, <3>4, <3>5 DEF Guarded, Keys
  <2> QED BY <2>1, <2>3 DEF IInv
<1>6. CASE Tick
  <2>1. now' = now + 1 /\ UNCHANGED <<offset, pc, wakeAt, lastRun, fired>> BY <1>6 DEF Tick, loops
  <2>2. now' \in Nat /\ now <= now' /\ offset' \in Int /\ offset' <= 0 /\ offset' <= offset
    BY <1>1, <2>1 DEF Types
  <2> QED BY <1>5, <2>1, <2>2
<1>7. CASE FallBack BY <1>7 DEF FallBack, Trouble
<1>8. CASE SpringForward
  <2>1. offset' = offset - Slots /\ UNCHANGED <<now, pc, wakeAt, lastRun, fired>>
    BY <1>8 DEF SpringForward, loops
  <2>2. now' \in Nat /\ now <= now' /\ offset' \in Int /\ offset' <= 0 /\ offset' <= offset
    BY <1>1, <2>1, SchedulerAssumption DEF Types
  <2> QED BY <1>5, <2>1, <2>2
<1>9. CASE UNCHANGED vars \/ \E s \in Minute \cup {Never} : UpdateSchedule(s)
  <2>1. UNCHANGED <<now, offset, pc, wakeAt, lastRun, fired>> BY <1>9 DEF UpdateSchedule, loops, vars
  <2>2. now' \in Nat /\ now <= now' /\ offset' \in Int /\ offset' <= 0 /\ offset' <= offset
    BY <1>1, <2>1 DEF Types
  <2> QED BY <1>5, <2>1, <2>2
<1> QED BY <1>2, <1>3, <1>4, <1>6, <1>7, <1>8, <1>9 DEF Next

(* A worker starts at most one run for a local minute, unless the clock is *)
(* put back: the run_key guard holds while the process lives, and a        *)
(* process that restarts sleeps past the minute before it looks at the     *)
(* clock (scheduler_loop).                                                 *)
THEOREM FiresOnce ==
  ASSUME "back" \notin Troubles
  PROVE  Spec => []OncePerMinute
<1>1. Init => IInv BY InitInv
<1>2. IInv /\ [Next]_vars => IInv' BY NextKeeps
<1>3. IInv => OncePerMinute BY DEF IInv, Types, OncePerMinute
<1> QED BY <1>1, <1>2, <1>3, PTL DEF Spec
-----------------------------------------------------------------------------
(* The model's type invariant.  The clock is never put back before the     *)
(* start nor further forward than the mishaps so far, so that each minute  *)
(* it can show has its place in fired.                                     *)
ClockOK == offset <= now /\ 0 - offset <= trouble * Slots

TypeInv == TypeOK /\ ClockOK

LEMMA Numbers ==
  ASSUME TypeInv
  PROVE  /\ now \in Int /\ offset \in Int /\ trouble \in Int /\ Slots \in Int /\ trouble * Slots \in Int
         /\ 0 <= now /\ now <= Horizon /\ 0 < Slots /\ offset <= now /\ 0 - offset <= trouble * Slots
         /\ trouble \in Nat /\ trouble <= MaxTrouble /\ MaxTrouble \in Nat /\ Horizon \in Nat
         /\ \A w \in Worker : wakeAt[w] \in Int
BY SchedulerAssumption DEF TypeInv, TypeOK, ClockOK

LEMMA MinutesHavePlaces ==
  ASSUME TypeInv PROVE LocalMinute \in Keys
<1> DEFINE q == Horizon \div Slots
           m == LocalMinute
<1>1. /\ q \in Int /\ Horizon < q * Slots + Slots
      /\ m \in Int /\ m * Slots <= now - offset
  <2>1. Horizon \in Int /\ now - offset \in Int BY Numbers
  <2> QED BY <2>1, Quotient DEF LocalMinute
<1>2. 0 <= m
  <2>1. 0 \in Int /\ now - offset \in Int /\ 0 <= now - offset BY Numbers
  <2>2. 0 \div Slots <= (now - offset) \div Slots BY <2>1, MinuteMonotone
  <2>3. 0 \div Slots = 0 BY SchedulerAssumption
  <2> QED BY <2>2, <2>3 DEF LocalMinute
<1>3. m <= q + MaxTrouble
  <2> HIDE DEF m, q
  <2>1. SUFFICES ASSUME q + MaxTrouble + 1 <= m PROVE FALSE BY <1>1, Numbers
  <2>2. (q + MaxTrouble + 1) * Slots <= m * Slots BY <1>1, <2>1, Numbers
  <2>3. trouble * Slots <= MaxTrouble * Slots BY Numbers
  <2>4. (q + MaxTrouble + 1) * Slots = q * Slots + MaxTrouble * Slots + Slots BY <1>1, Numbers
  <2>5. m * Slots <= Horizon + MaxTrouble * Slots
    <3>1. now - offset <= Horizon + trouble * Slots BY Numbers
    <3>2. m * Slots \in Int /\ MaxTrouble * Slots \in Int BY <1>1, Numbers
    <3> QED BY <1>1, <2>3, <3>1, <3>2, Numbers
  <2>6. q * Slots \in Int /\ MaxTrouble * Slots \in Int /\ m * Slots \in Int BY <1>1, Numbers
  <2> QED BY <1>1, <2>2, <2>4, <2>5, <2>6, Numbers
<1> QED BY <1>1, <1>2, <1>3, Numbers DEF Keys

LEMMA RangeType ==
  ASSUME TypeInv, NEW w \in Worker
  PROVE  FiredOn(w) \in Int /\ Range(w) \subseteq Int
<1>1. lastRun[w] \in Int BY DEF TypeInv, TypeOK, Keys
<1> QED BY <1>1, SchedulerAssumption DEF FiredOn, Range

LEMMA TypeStep == TypeInv /\ [Next]_vars => TypeInv'
<1> SUFFICES ASSUME TypeInv, [Next]_vars PROVE TypeInv' OBVIOUS
<1>0. /\ Slots \in Nat /\ 0 < Slots /\ Keys' = Keys /\ MaxTrouble \in Nat /\ Horizon \in Nat
      /\ TypeOK /\ ClockOK
  BY SchedulerAssumption DEF TypeInv, Keys
<1>1. ASSUME NEW k, Trouble(k)
      PROVE  /\ trouble' = trouble + 1 /\ trouble' \in 0..MaxTrouble
             /\ trouble' * Slots = trouble * Slots + Slots
  <2>1. trouble' = trouble + 1 /\ trouble < MaxTrouble BY <1>1 DEF Trouble
  <2> QED BY <2>1, Numbers
<1>2. ASSUME NEW w \in Worker, WakeIdle(w) PROVE TypeInv'
  <2>1. wakeAt' = [wakeAt EXCEPT ![w] = now + Slots]
        /\ UNCHANGED <<now, offset, schedule, pc, lastRun, fired, attempted, trouble>>
    BY <1>2 DEF WakeIdle, WakeTime
  <2> QED BY <1>0, <2>1 DEF TypeInv, TypeOK, ClockOK
<1>3. ASSUME NEW w \in Worker, Fire(w) PROVE TypeInv'
  <2>1. LocalMinute \in Keys BY MinutesHavePlaces
  <2> QED BY <1>0, <1>3, <2>1 DEF Fire, TypeInv, TypeOK, ClockOK
<1>4. ASSUME NEW w \in Worker, Finish(w) PROVE TypeInv'
  <2>1. /\ wakeAt' = [wakeAt EXCEPT ![w] = now + Slots] /\ pc' = [pc EXCEPT ![w] = "asleep"]
        /\ UNCHANGED <<now, offset, schedule, lastRun, fired, trouble>>
    BY <1>4 DEF Finish, Sleep, WakeTime
  <2>2. attempted' \subseteq Int BY <1>0, <1>4, RangeType DEF Finish, TypeOK
  <2> QED BY <1>0, <2>1, <2>2 DEF TypeInv, TypeOK, ClockOK
<1>5. ASSUME NEW w \in Worker, RunFails(w) PROVE TypeInv'
  <2>1. trouble' \in 0..MaxTrouble /\ trouble' * Slots = trouble * Slots + Slots
    BY <1>1, <1>5 DEF RunFails
  <2>2. 0 - offset <= trouble' * Slots BY <2>1, Numbers
  <2>3. attempted' \subseteq Int BY <1>0, <1>5, RangeType DEF RunFails, TypeOK
  <2>4. /\ pc' = [pc EXCEPT ![w] = "asleep"] /\ wakeAt' = [wakeAt EXCEPT ![w] = now + Slots]
        /\ UNCHANGED <<now, offset, schedule, lastRun, fired>>
    BY <1>5 DEF RunFails, Sleep, WakeTime
  <2>5. wakeAt' \in [Worker -> 0..Horizon + 2 * Slots] BY <1>0, <2>4 DEF TypeOK
  <2> QED BY <1>0, <2>1, <2>2, <2>3, <2>4, <2>5 DEF TypeInv, TypeOK, ClockOK
<1>6. ASSUME NEW w \in Worker, Restart(w) PROVE TypeInv'
  <2>1. trouble' \in 0..MaxTrouble /\ trouble' * Slots = trouble * Slots + Slots
    BY <1>1, <1>6 DEF Restart
  <2>2. 0 - offset <= trouble' * Slots BY <2>1, Numbers
  <2> QED BY <1>0, <1>6, <2>1, <2>2 DEF Restart, FirstWake, WakeTime, TypeInv, TypeOK, ClockOK
<1>7. ASSUME NEW s \in Minute \cup {Never}, UpdateSchedule(s) PROVE TypeInv'
  <2>1. trouble' \in 0..MaxTrouble /\ trouble' * Slots = trouble * Slots + Slots
    BY <1>1, <1>7 DEF UpdateSchedule
  <2>2. 0 - offset <= trouble' * Slots BY <2>1, Numbers
  <2> QED BY <1>0, <1>7, <2>1, <2>2 DEF UpdateSchedule, loops, TypeInv, TypeOK, ClockOK
<1>8. CASE Tick
  <2>1. now < Horizon /\ now' = now + 1 /\ UNCHANGED <<offset, schedule, pc, wakeAt, lastRun, fired, attempted>>
    BY <1>8 DEF Tick, loops
  <2>2. CASE UNCHANGED trouble
    <3>1. 0 - offset <= trouble' * Slots /\ trouble' \in 0..MaxTrouble BY <2>2, Numbers
    <3>2. now' \in 0..Horizon /\ offset <= now' BY <2>1, Numbers
    <3> QED BY <1>0, <2>1, <3>1, <3>2 DEF TypeInv, TypeOK, ClockOK
  <2>3. CASE Trouble("late")
    <3>1. trouble' \in 0..MaxTrouble /\ trouble' * Slots = trouble * Slots + Slots BY <1>1, <2>3
    <3>2. 0 - offset <= trouble' * Slots BY <3>1, Numbers
    <3>3. now' \in 0..Horizon /\ offset <= now' BY <2>1, Numbers
    <3> QED BY <1>0, <2>1, <3>1, <3>2, <3>3 DEF TypeInv, TypeOK, ClockOK
  <2>4. UNCHANGED trouble \/ Trouble("late") BY <1>8 DEF Tick
  <2> QED BY <2>2, <2>3, <2>4
<1>9. CASE FallBack
  <2>1. trouble' \in 0..MaxTrouble /\ trouble' * Slots = trouble * Slots + Slots
    BY <1>1, <1>9 DEF FallBack
  <2>2. offset' = offset + Slots /\ now' = now /\ now - offset >= Slots BY <1>9 DEF FallBack
  <2>3. 0 - offset' <= trouble' * Slots /\ offset' <= now' /\ offset' \in Int BY <2>1, <2>2, Numbers
  <2> QED BY <1>0, <1>9, <2>1, <2>3 DEF FallBack, loops, TypeInv, TypeOK, ClockOK
<1>10. CASE SpringForward
  <2>1. trouble' \in 0..MaxTrouble /\ trouble' * Slots = trouble * Slots + Slots
    BY <1>1, <1>10 DEF SpringForward
  <2>2. offset' = offset - Slots /\ now' = now BY <1>10 DEF SpringForward
  <2>3. 0 - offset' <= trouble' * Slots /\ offset' <= now' /\ offset' \in Int BY <2>1, <2>2, Numbers
  <2> QED BY <1>0, <1>10, <2>1, <2>3 DEF SpringForward, loops, TypeInv, TypeOK, ClockOK
<1>11. CASE UNCHANGED vars BY <1>0, <1>11 DEF vars, TypeInv, TypeOK, ClockOK
<1> QED BY <1>2, <1>3, <1>4, <1>5, <1>6, <1>7, <1>8, <1>9, <1>10, <1>11 DEF Next

LEMMA InitTypes == Init => TypeInv
<1> SUFFICES ASSUME Init PROVE TypeInv OBVIOUS
<1>1. Slots \in Nat \ {0} /\ MaxTrouble \in Nat /\ Horizon \in Nat /\ FirstSchedule \in Minute \cup {Never}
  BY SchedulerAssumption
<1>2. wakeAt \in [Worker -> 0..Horizon + 2 * Slots] BY <1>1 DEF Init
<1> QED BY <1>1, <1>2 DEF Init, TypeInv, TypeOK, ClockOK

LEMMA TypeInvariance == Spec => []TypeInv
BY InitTypes, TypeStep, PTL DEF Spec

(* The type invariant: every minute the clock shows has its counter of     *)
(* runs, however it is put back and forward (scheduler_loop).              *)
THEOREM SchedulerTypeCorrect == Spec => []TypeOK
<1>1. TypeInv => TypeOK BY DEF TypeInv
<1> QED BY <1>1, TypeInvariance, PTL
-----------------------------------------------------------------------------
(* The default look-back and at most one mishap, in a portal that starts   *)
(* with auto_fetch on.  A day longer than a minute and a run shorter than  *)
(* a day less a minute keep a mishap from costing two days.                *)
OneMishap ==
  /\ Worker # {} /\ FirstSchedule # Never
  /\ Lookback >= 2 /\ MaxTrouble <= 1
  /\ Minutes > 1 /\ MaxRun <= (Minutes - 1) * Slots

(* The scheduled minute of day k; the dates a run of day k goes through.   *)
At(k) == k * Minutes + schedule
Through(k) == (k - Lookback .. k - 1) \cap Nat \subseteq attempted

(* The minute in which a sleeping worker looks at the clock, and the last  *)
(* one in which a running one can still be at it.                          *)
NextLook(w) == (wakeAt[w] - offset) \div Slots
LastLook(w) == (wakeAt[w] + MaxRun - offset) \div Slots

(* Every scheduled minute that is over for the worker was followed by a    *)
(* run, but for the day j that a mishap cost.                              *)
Waits(w, j) ==
  /\ now <= wakeAt[w] \/ (trouble > 0 /\ j = -1 /\ now = wakeAt[w] + 1)
  /\ \A k \in Nat : k # j /\ (At(k) < NextLook(w) \/ k = FiredOn(w)) => Through(k)

Runs(w, j) ==
  /\ now <= wakeAt[w] + MaxRun
  /\ \A k \in Nat : k # j /\ k # FiredOn(w) /\ At(k) <= LastLook(w) => Through(k)

Served(w, j) == IF pc[w] = "asleep" THEN Waits(w, j) ELSE Runs(w, j)

LosesOneDay(w) == \E j \in Int : (trouble = 0 => j = -1) /\ Served(w, j)

DatesInv ==
  /\ trouble = 0 => schedule # Never
  /\ schedule # Never => \A w \in Worker : LosesOneDay(w)

(* Quotients by the length of a day, as by that of a minute. *)
LEMMA Day ==
  ASSUME NEW x \in Int
  PROVE  /\ x \div Minutes \in Int
         /\ (x \div Minutes) * Minutes <= x
         /\ x < (x \div Minutes) * Minutes + Minutes
         /\ x = (x \div Minutes) * Minutes + (x % Minutes)
<1>1. Minutes \in Int /\ 0 < Minutes BY SchedulerAssumption
<1>2. x = Minutes * (x \div Minutes) + (x % Minutes) BY <1>1
<1>3. /\ x \div Minutes \in Int /\ (x \div Minutes) * Minutes <= x
      /\ x < (x \div Minutes) * Minutes + Minutes
  BY <1>1
<1>4. (x \div Minutes) * Minutes = Minutes * (x \div Minutes) BY <1>1, <1>3
<1> QED BY <1>2, <1>3, <1>4

LEMMA OnlyDay ==
  ASSUME NEW x \in Int, NEW k \in Int, k * Minutes <= x, x < k * Minutes + Minutes
  PROVE  k = x \div Minutes
<1> DEFINE q == x \div Minutes
<1>1. q \in Int /\ q * Minutes <= x /\ x < q * Minutes + Minutes /\ Minutes \in Nat \ {0}
  BY Day, SchedulerAssumption
<1> HIDE DEF q
<1>2. k * Minutes \in Int /\ q * Minutes \in Int BY <1>1
<1>3. ASSUME k < q PROVE FALSE
  <2>1. (k + 1) * Minutes <= q * Minutes BY <1>1, <1>3
  <2>2. (k + 1) * Minutes = k * Minutes + Minutes BY <1>1
  <2> QED BY <1>1, <1>2, <2>1, <2>2
<1>4. ASSUME q < k PROVE FALSE
  <2>1. (q + 1) * Minutes <= k * Minutes BY <1>1, <1>4
  <2>2. (q + 1) * Minutes = q * Minutes + Minutes BY <1>1
  <2> QED BY <1>1, <1>2, <2>1, <2>2
<1>5. k = q BY <1>1, <1>3, <1>4
<1> QED BY <1>5 DEF q

LEMMA AtDay ==
  ASSUME schedule \in Minute, NEW k \in Int
  PROVE  /\ At(k) \in Int /\ k * Minutes \in Int
         /\ k * Minutes <= At(k) /\ At(k) < k * Minutes + Minutes
         /\ k = At(k) \div Minutes
<1>1. schedule \in Int /\ 0 <= schedule /\ schedule < Minutes /\ Minutes \in Int
  BY SchedulerAssumption DEF Minute
<1>2. k * Minutes \in Int BY <1>1
<1>3. At(k) \in Int /\ k * Minutes <= At(k) /\ At(k) < k * Minutes + Minutes BY <1>1, <1>2 DEF At
<1>4. k = At(k) \div Minutes BY <1>3, OnlyDay
<1> QED BY <1>2, <1>3, <1>4

LEMMA AtOrder ==
  ASSUME schedule \in Minute, NEW k \in Int, NEW l \in Int, k < l
  PROVE  At(k) + Minutes <= At(l)
<1>1. schedule \in Int /\ Minutes \in Nat BY SchedulerAssumption DEF Minute
<1>2. (k + 1) * Minutes <= l * Minutes BY <1>1
<1>3. (k + 1) * Minutes = k * Minutes + Minutes BY <1>1
<1>4. k * Minutes \in Int /\ l * Minutes \in Int BY <1>1
<1> QED BY <1>1, <1>2, <1>3, <1>4 DEF At

(* The clock shows the schedule in the scheduled minutes and in no other. *)
LEMMA AtSchedule ==
  ASSUME schedule \in Minute, LocalMinute \in Int
  PROVE  /\ schedule = HHMM => LocalMinute = At(LocalMinute \div Minutes)
         /\ \A k \in Int : At(k) = LocalMinute => schedule = HHMM /\ k = LocalMinute \div Minutes
<1>1. LocalMinute = (LocalMinute \div Minutes) * Minutes + HHMM /\ LocalMinute \div Minutes \in Int
  <2> HIDE DEF LocalMinute
  <2> QED BY Day DEF HHMM
<1>2. ASSUME NEW k \in Int, At(k) = LocalMinute PROVE schedule = HHMM /\ k = LocalMinute \div Minutes
  <2>1. k = LocalMinute \div Minutes BY <1>2, AtDay
  <2>2. k * Minutes + schedule = k * Minutes + HHMM BY <1>1, <1>2, <2>1 DEF At
  <2>3. k * Minutes \in Int /\ schedule \in Int /\ HHMM \in Int
    BY AtDay, SchedulerAssumption DEF Minute, HHMM
  <2> QED BY <2>1, <2>2, <2>3
<1>3. schedule = HHMM => LocalMinute = At(LocalMinute \div Minutes) BY <1>1 DEF At
<1> QED BY <1>2, <1>3

LEMMA OnlyMinute ==
  ASSUME NEW x \in Int, NEW k \in Int, k * Slots <= x, x < k * Slots + Slots
  PROVE  k = x \div Slots
<1> DEFINE q == x \div Slots
<1>1. q \in Int /\ q * Slots <= x /\ x < q * Slots + Slots /\ Slots \in Nat \ {0}
  BY Quotient, SchedulerAssumption
<1> HIDE DEF q
<1>2. k * Slots \in Int /\ q * Slots \in Int BY <1>1
<1>3. ASSUME k < q PROVE FALSE
  <2>1. (k + 1) * Slots <= q * Slots BY <1>1, <1>3
  <2>2. (k + 1) * Slots = k * Slots + Slots BY <1>1
  <2> QED BY <1>1, <1>2, <2>1, <2>2
<1>4. ASSUME q < k PROVE FALSE
  <2>1. (q + 1) * Slots <= k * Slots BY <1>1, <1>4
  <2>2. (q + 1) * Slots = q * Slots + Slots BY <1>1
  <2> QED BY <1>1, <1>2, <2>1, <2>2
<1>5. k = q BY <1>1, <1>3, <1>4
<1> QED BY <1>5 DEF q

(* Whole minutes added to the clock are added to what it shows. *)
LEMMA MinutesLater ==
  ASSUME NEW x \in Int, NEW n \in Int
  PROVE  /\ x + n * Slots \in Int
         /\ (x + n * Slots) \div Slots = x \div Slots + n
<1> DEFINE q == x \div Slots
<1>1. q \in Int /\ q * Slots <= x /\ x < q * Slots + Slots /\ Slots \in Int BY Quotient, SchedulerAssumption
<1> HIDE DEF q
<1>2. n * Slots \in Int /\ q * Slots \in Int BY <1>1
<1>3. (q + n) * Slots = q * Slots + n * Slots BY <1>1
<1>4. (q + n) * Slots <= x + n * Slots /\ x + n * Slots < (q + n) * Slots + Slots
  BY <1>1, <1>2, <1>3
<1>5. q + n = (x + n * Slots) \div Slots BY <1>1, <1>2, <1>4, OnlyMinute
<1> QED BY <1>2, <1>5 DEF q

LEMMA MinuteLater ==
  ASSUME NEW x \in Int
  PROVE  /\ x + Slots \in Int
         /\ (x + Slots) \div Slots = x \div Slots + 1
<1>1. 1 \in Int /\ 1 * Slots = Slots BY SchedulerAssumption
<1>2. x + 1 * Slots \in Int /\ (x + 1 * Slots) \div Slots = x \div Slots + 1 BY MinutesLater
<1> QED BY <1>1, <1>2

(* What a worker can still expect of the clock. *)
LEMMA Looks ==
  ASSUME TypeInv, NEW w \in Worker
  PROVE  /\ NextLook(w) \in Int /\ LastLook(w) \in Int /\ LocalMinute \in Int /\ FiredOn(w) \in Int
         /\ now <= wakeAt[w] => LocalMinute <= NextLook(w)
         /\ now >= wakeAt[w] => NextLook(w) <= LocalMinute
         /\ now = wakeAt[w] + 1 => LocalMinute <= NextLook(w) + 1
         /\ now <= wakeAt[w] + MaxRun => LocalMinute <= LastLook(w)
<1> DEFINE a == wakeAt[w] - offset
           b == wakeAt[w] + MaxRun - offset
           c == now - offset
<1>1. a \in Int /\ b \in Int /\ c \in Int /\ now \in Int /\ offset \in Int /\ wakeAt[w] \in Int /\ MaxRun \in Nat
  BY Numbers, SchedulerAssumption
<1>2. /\ now <= wakeAt[w] => c <= a
      /\ now >= wakeAt[w] => a <= c
      /\ now = wakeAt[w] + 1 => c <= a + Slots
      /\ now <= wakeAt[w] + MaxRun => c <= b
  BY <1>1, Numbers
<1> HIDE DEF a, b, c
<1>3. a \div Slots \in Int /\ b \div Slots \in Int /\ c \div Slots \in Int BY <1>1, Quotient
<1>4. now <= wakeAt[w] => c \div Slots <= a \div Slots BY <1>1, <1>2, MinuteMonotone
<1>5. now >= wakeAt[w] => a \div Slots <= c \div Slots BY <1>1, <1>2, MinuteMonotone
<1>6. now = wakeAt[w] + 1 => c \div Slots <= a \div Slots + 1
  <2>1. a + Slots \in Int /\ (a + Slots) \div Slots = a \div Slots + 1 BY <1>1, MinuteLater
  <2>2. now = wakeAt[w] + 1 => c \div Slots <= (a + Slots) \div Slots
    BY <1>1, <1>2, <2>1, MinuteMonotone
  <2> QED BY <2>1, <2>2
<1>7. now <= wakeAt[w] + MaxRun => c \div Slots <= b \div Slots BY <1>1, <1>2, MinuteMonotone
<1>8. FiredOn(w) \in Int BY RangeType
<1> QED BY <1>3, <1>4, <1>5, <1>6, <1>7, <1>8 DEF a, b, c, NextLook, LastLook, LocalMinute

(* In the minute it sleeps in, the clock shows one minute more at the end. *)
LEMMA NextLookAfterSleep ==
  ASSUME TypeInv
  PROVE  (now + Slots - offset) \div Slots = LocalMinute + 1
<1>1. now - offset \in Int /\ now + Slots - offset = (now - offset) + Slots BY Numbers
<1>2. ((now - offset) + Slots) \div Slots = LocalMinute + 1 BY <1>1, MinuteLater DEF LocalMinute
<1> QED BY <1>1, <1>2

(* A run that starts now ends before the schedule of the next day. *)
LEMMA RunEndsInTime ==
  ASSUME TypeInv, OneMishap
  PROVE  (now + MaxRun - offset) \div Slots < LocalMinute + Minutes
<1> DEFINE c == now - offset
           n == Minutes - 1
<1>1. c \in Int /\ n \in Int /\ Minutes \in Int /\ n * Slots \in Int /\ MaxRun <= n * Slots /\ MaxRun \in Nat
  BY Numbers, SchedulerAssumption DEF OneMishap
<1>2. now + MaxRun - offset <= c + n * Slots /\ now + MaxRun - offset \in Int
  <2>1. now + MaxRun - offset = c + MaxRun BY <1>1, Numbers
  <2> HIDE DEF n, c
  <2> QED BY <1>1, <2>1
<1>3. c + n * Slots \in Int /\ (c + n * Slots) \div Slots = c \div Slots + n BY <1>1, MinutesLater
<1>4. (now + MaxRun - offset) \div Slots <= c \div Slots + n
  BY <1>2, <1>3, MinuteMonotone
<1>5. (now + MaxRun - offset) \div Slots \in Int /\ c \div Slots \in Int BY <1>1, <1>2, Quotient
<1> QED BY <1>1, <1>4, <1>5 DEF LocalMinute

-----------------------------------------------------------------------------
(* A step of another worker only adds to the dates gone through. *)
LEMMA OthersServed ==
  ASSUME TypeInv, NEW v \in Worker, NEW j \in Int, Served(v, j),
         UNCHANGED <<now, offset, schedule>>, pc'[v] = pc[v], wakeAt'[v] = wakeAt[v],
         lastRun'[v] = lastRun[v], attempted \subseteq attempted', trouble' >= trouble, trouble' \in Int
  PROVE  Served(v, j)'
<1>1. \A k \in Nat : Through(k) => Through(k)' BY DEF Through
<1>2. /\ NextLook(v)' = NextLook(v) /\ LastLook(v)' = LastLook(v) /\ FiredOn(v)' = FiredOn(v)
      /\ \A k \in Nat : At(k)' = At(k)
  BY DEF NextLook, LastLook, FiredOn, At
<1>3. trouble > 0 => trouble' > 0 BY Numbers
<1>4. Waits(v, j) => Waits(v, j)' BY <1>1, <1>2, <1>3 DEF Waits
<1>5. Runs(v, j) => Runs(v, j)' BY <1>1, <1>2 DEF Runs
<1> QED BY <1>4, <1>5 DEF Served

(* A worker back asleep: all that counts is what is up to this minute. *)
LEMMA AsleepServed ==
  ASSUME TypeInv, TypeInv', OneMishap, NEW w \in Worker, NEW j \in Int,
         UNCHANGED <<now, offset, schedule>>, pc'[w] = "asleep", wakeAt'[w] = now + Slots,
         \A k \in Nat : k # j /\ (At(k) <= LocalMinute \/ k = FiredOn(w)') => Through(k)',
         schedule \in Minute
  PROVE  Served(w, j)'
<1>1. NextLook(w)' = LocalMinute + 1
  <2>1. wakeAt'[w] - offset' = now + Slots - offset BY Numbers
  <2> QED BY <2>1, NextLookAfterSleep DEF NextLook
<1>2. LocalMinute \in Int /\ \A k \in Nat : At(k) \in Int /\ At(k)' = At(k)
  BY Looks, AtDay DEF At
<1>3. \A k \in Nat : At(k)' < NextLook(w)' => At(k) <= LocalMinute BY <1>1, <1>2
<1>4. now' <= wakeAt'[w] BY Numbers
<1>5. Waits(w, j)' BY <1>3, <1>4 DEF Waits
<1> QED BY <1>5 DEF Served

LEMMA WakeIdleServed ==
  ASSUME TypeInv, TypeInv', OneMishap, schedule \in Minute, NEW w \in Worker, WakeIdle(w), LosesOneDay(w)
  PROVE  LosesOneDay(w)'
<1> PICK j \in Int : (trouble = 0 => j = -1) /\ Served(w, j) BY DEF LosesOneDay
<1>1. /\ UNCHANGED <<now, offset, schedule, pc, lastRun, attempted, trouble>>
      /\ pc[w] = "asleep" /\ pc'[w] = "asleep" /\ wakeAt'[w] = now + Slots /\ now >= wakeAt[w] /\ ~Due(w)
  BY DEF WakeIdle, WakeTime, TypeInv, TypeOK
<1>2. /\ now <= wakeAt[w] \/ (trouble > 0 /\ j = -1 /\ now = wakeAt[w] + 1)
      /\ \A k \in Nat : k # j /\ (At(k) < NextLook(w) \/ k = FiredOn(w)) => Through(k)
  BY <1>1 DEF Served, Waits
<1>3. FiredOn(w)' = FiredOn(w) /\ \A k \in Nat : Through(k)' <=> Through(k) BY <1>1 DEF FiredOn, Through
<1>4. /\ LocalMinute \in Int /\ NextLook(w) \in Int /\ NextLook(w) <= LocalMinute
      /\ \A k \in Nat : At(k) \in Int
  BY <1>1, Looks, AtDay
(* The scheduled minute itself: the guard says that it has been served. *)
<1>5. ASSUME NEW k \in Nat, At(k) = LocalMinute PROVE k = FiredOn(w)
  <2>1. schedule = HHMM /\ k = LocalMinute \div Minutes BY <1>4, <1>5, AtSchedule
  <2>2. lastRun[w] = LocalMinute BY <1>1, <2>1 DEF Due
  <2> QED BY <2>1, <2>2 DEF FiredOn
<1>6. CASE now <= wakeAt[w]
  <2>1. NextLook(w) = LocalMinute BY <1>4, <1>6, Looks
  <2>2. \A k \in Nat : k # j /\ (At(k) <= LocalMinute \/ k = FiredOn(w)') => Through(k)'
    BY <1>2, <1>3, <1>4, <1>5, <2>1
  <2>3. Served(w, j)' BY <1>1, <2>2, AsleepServed
  <2> QED BY <1>1, <2>3 DEF LosesOneDay
<1>7. CASE trouble > 0 /\ j = -1 /\ now = wakeAt[w] + 1
  <2> PICK i \in Int : i = (LocalMinute - 1) \div Minutes
    <3>1. LocalMinute - 1 \in Int BY <1>4
    <3> QED BY <3>1, Day
  <2>2. \A k \in Nat : At(k) = LocalMinute - 1 => k = i BY AtDay
  <2>3. LocalMinute <= NextLook(w) + 1 BY <1>7, Looks
  <2>4. \A k \in Nat : k # i /\ (At(k) <= LocalMinute \/ k = FiredOn(w)') => Through(k)'
    <3> SUFFICES ASSUME NEW k \in Nat, k # i, At(k) <= LocalMinute \/ k = FiredOn(w) PROVE Through(k)
      BY <1>3
    <3>1. CASE k = FiredOn(w) BY <1>2, <1>7, <3>1
    <3>2. CASE At(k) <= LocalMinute
      <4>1. At(k) = LocalMinute \/ At(k) < NextLook(w) BY <1>4, <2>2, <2>3, <3>2
      <4> QED BY <1>2, <1>5, <1>7, <4>1
    <3> QED BY <3>1, <3>2
  <2>5. Served(w, i)' BY <1>1, <2>4, AsleepServed
  <2>6. trouble' > 0 BY <1>1, <1>7
  <2> QED BY <2>5, <2>6, Numbers DEF LosesOneDay
<1> QED BY <1>2, <1>6, <1>7

LEMMA FireServed ==
  ASSUME TypeInv, TypeInv', OneMishap, schedule \in Minute, NEW w \in Worker, Fire(w), LosesOneDay(w)
  PROVE  LosesOneDay(w)'
<1> PICK j \in Int : (trouble = 0 => j = -1) /\ Served(w, j) BY DEF LosesOneDay
<1>1. /\ UNCHANGED <<now, offset, schedule, attempted, trouble>>
      /\ pc[w] = "asleep" /\ pc'[w] = "running" /\ wakeAt'[w] = now /\ now >= wakeAt[w] /\ Due(w)
      /\ lastRun'[w] = LocalMinute
  BY DEF Fire, TypeInv, TypeOK
<1>2. /\ now <= wakeAt[w] \/ (trouble > 0 /\ j = -1 /\ now = wakeAt[w] + 1)
      /\ \A k \in Nat : k # j /\ (At(k) < NextLook(w) \/ k = FiredOn(w)) => Through(k)
  BY <1>1 DEF Served, Waits
<1> DEFINE f == LocalMinute \div Minutes
<1>3. /\ LocalMinute \in Int /\ f \in Int /\ NextLook(w) \in Int /\ Minutes \in Int /\ Minutes > 1
      /\ LocalMinute <= NextLook(w) + 1
      /\ \A k \in Nat : At(k) \in Int
  <2>1. now <= wakeAt[w] => LocalMinute <= NextLook(w) BY Looks
  <2>2. now = wakeAt[w] + 1 => LocalMinute <= NextLook(w) + 1 BY Looks
  <2>3. LocalMinute \in Int /\ NextLook(w) \in Int BY Looks
  <2>4. f \in Int BY <2>3, Day
  <2>5. LocalMinute <= NextLook(w) + 1 BY <1>2, <2>1, <2>2, <2>3
  <2>6. \A k \in Nat : At(k) \in Int BY AtDay
  <2>7. Minutes \in Int /\ Minutes > 1 BY SchedulerAssumption DEF OneMishap
  <2> QED BY <2>3, <2>4, <2>5, <2>6, <2>7
<1>4. At(f) = LocalMinute /\ FiredOn(w)' = f BY <1>1, <1>3, AtSchedule DEF Due, FiredOn
<1>5. LastLook(w)' \in Int /\ LastLook(w)' < LocalMinute + Minutes
  <2>1. LastLook(w)' = (now + MaxRun - offset) \div Slots BY <1>1 DEF LastLook
  <2>2. now + MaxRun - offset \in Int BY Numbers, SchedulerAssumption
  <2> QED BY <2>1, <2>2, RunEndsInTime, Quotient
<1> HIDE DEF f
<1>6. ASSUME NEW k \in Nat, k # j, k # f, At(k) <= LastLook(w)' PROVE Through(k)
  <2>1. k < f
    <3>1. SUFFICES ASSUME f < k PROVE FALSE BY <1>3, <1>6
    <3>2. At(f) + Minutes <= At(k) BY <1>3, <3>1, AtOrder
    <3> QED BY <1>3, <1>4, <1>5, <1>6, <3>2
  <2>2. At(k) + Minutes <= LocalMinute BY <1>3, <1>4, <2>1, AtOrder
  <2>3. At(k) < NextLook(w) BY <1>3, <2>2
  <2> QED BY <1>2, <1>6, <2>3
<1>7. Runs(w, j)'
  <2>1. now' <= wakeAt'[w] + MaxRun BY <1>1, Numbers, SchedulerAssumption
  <2>2. \A k \in Nat : At(k)' = At(k) /\ (Through(k)' <=> Through(k)) BY <1>1 DEF At, Through
  <2> QED BY <1>4, <1>6, <2>1, <2>2 DEF Runs
<1> QED BY <1>1, <1>7 DEF Served, LosesOneDay

(* What a running worker knows of the minutes up to now. *)
LEMMA RunningKnows ==
  ASSUME TypeInv, OneMishap, schedule \in Minute, NEW w \in Worker, NEW j \in Int,
         pc[w] = "running", Served(w, j)
  PROVE  \A k \in Nat : k # j /\ k # FiredOn(w) /\ At(k) <= LocalMinute => Through(k)
<1>1. /\ now <= wakeAt[w] + MaxRun
      /\ \A k \in Nat : k # j /\ k # FiredOn(w) /\ At(k) <= LastLook(w) => Through(k)
  BY DEF Served, Runs
<1>2. LocalMinute <= LastLook(w) /\ LocalMinute \in Int /\ LastLook(w) \in Int BY <1>1, Looks
<1>3. \A k \in Nat : At(k) \in Int BY AtDay
<1> QED BY <1>1, <1>2, <1>3

LEMMA FinishServed ==
  ASSUME TypeInv, TypeInv', OneMishap, schedule \in Minute, NEW w \in Worker, Finish(w), LosesOneDay(w)
  PROVE  LosesOneDay(w)'
<1> PICK j \in Int : (trouble = 0 => j = -1) /\ Served(w, j) BY DEF LosesOneDay
<1>1. /\ UNCHANGED <<now, offset, schedule, lastRun, trouble>> /\ attempted' = attempted \cup Range(w)
      /\ pc[w] = "running" /\ pc'[w] = "asleep" /\ wakeAt'[w] = now + Slots
  BY DEF Finish, Sleep, WakeTime, TypeInv, TypeOK
<1>2. FiredOn(w)' = FiredOn(w) BY <1>1 DEF FiredOn
<1>3. \A k \in Nat : (Through(k) => Through(k)') /\ (k = FiredOn(w) => Through(k)')
  BY <1>1 DEF Through, Range
<1>4. \A k \in Nat : k # j /\ (At(k) <= LocalMinute \/ k = FiredOn(w)') => Through(k)'
  BY <1>1, <1>2, <1>3, RunningKnows
<1>5. Served(w, j)' BY <1>1, <1>4, AsleepServed
<1> QED BY <1>1, <1>5 DEF LosesOneDay

(* The one mishap: nothing was lost before it. *)
LEMMA FirstTrouble ==
  ASSUME TypeInv, OneMishap, NEW kind, Trouble(kind)
  PROVE  trouble = 0 /\ trouble' = 1
BY Numbers DEF OneMishap, Trouble

LEMMA RunFailsServed ==
  ASSUME TypeInv, TypeInv', OneMishap, schedule \in Minute, NEW w \in Worker, RunFails(w), LosesOneDay(w)
  PROVE  LosesOneDay(w)'
<1>1. /\ UNCHANGED <<now, offset, schedule, lastRun>> /\ attempted \subseteq attempted'
      /\ pc[w] = "running" /\ pc'[w] = "asleep" /\ wakeAt'[w] = now + Slots
  BY DEF RunFails, Sleep, WakeTime, TypeInv, TypeOK
<1>2. trouble = 0 /\ trouble' = 1 BY FirstTrouble DEF RunFails
<1>3. Served(w, -1) BY <1>2 DEF LosesOneDay
<1> PICK f \in Int : f = FiredOn(w) BY RangeType
<1>4. FiredOn(w)' = f BY <1>1 DEF FiredOn
<1>5. \A k \in Nat : Through(k) => Through(k)' BY <1>1 DEF Through
<1>6. \A k \in Nat : k # f /\ (At(k) <= LocalMinute \/ k = FiredOn(w)') => Through(k)'
  BY <1>1, <1>3, <1>4, <1>5, RunningKnows
<1>7. Served(w, f)' BY <1>1, <1>6, AsleepServed
<1> QED BY <1>2, <1>7 DEF LosesOneDay

LEMMA RestartServed ==
  ASSUME TypeInv, TypeInv', OneMishap, schedule \in Minute, NEW w \in Worker, Restart(w), LosesOneDay(w)
  PROVE  LosesOneDay(w)'
<1>1. /\ UNCHANGED <<now, offset, schedule, attempted>> /\ lastRun'[w] = -1
      /\ pc'[w] = "asleep" /\ wakeAt'[w] = now + Slots
  BY DEF Restart, FirstWake, WakeTime, TypeInv, TypeOK
<1>2. trouble = 0 /\ trouble' = 1 BY FirstTrouble DEF Restart
<1>3. Served(w, -1) BY <1>2 DEF LosesOneDay
<1>4. FiredOn(w)' = -1
  <2>1. /\ (-1) * Minutes <= -1 /\ -1 < (-1) * Minutes + Minutes BY SchedulerAssumption
  <2>2. -1 = (-1) \div Minutes BY <2>1, OnlyDay
  <2> QED BY <1>1, <2>2 DEF FiredOn
<1>5. \A k \in Nat : Through(k) => Through(k)' BY <1>1 DEF Through
<1>6. PICK i \in Int : \A k \in Nat : k # i /\ At(k) <= LocalMinute => Through(k)
  <2>1. CASE pc[w] = "asleep"
    <3>1. LocalMinute \in Int /\ LocalMinute \div Minutes \in Int BY Looks, Day
    <3>2. /\ now <= wakeAt[w]
          /\ \A k \in Nat : k # -1 /\ At(k) < NextLook(w) => Through(k)
      BY <1>2, <1>3, <2>1 DEF Served, Waits
    <3>3. NextLook(w) \in Int /\ LocalMinute <= NextLook(w) BY <3>2, Looks
    <3>4. \A k \in Nat : At(k) \in Int /\ (At(k) = LocalMinute => k = LocalMinute \div Minutes) BY AtDay
    <3>5. \A k \in Nat : k # LocalMinute \div Minutes /\ At(k) <= LocalMinute => Through(k)
      BY <3>1, <3>2, <3>3, <3>4
    <3> QED BY <3>1, <3>5
  <2>2. CASE pc[w] = "running"
    <3>1. FiredOn(w) \in Int BY RangeType
    <3>2. \A k \in Nat : k # FiredOn(w) /\ At(k) <= LocalMinute => Through(k)
      BY <1>3, <2>2, RunningKnows
    <3> QED BY <3>1, <3>2
  <2> QED BY <2>1, <2>2 DEF TypeInv, TypeOK
<1>7. \A k \in Nat : k # i /\ (At(k) <= LocalMinute \/ k = FiredOn(w)') => Through(k)'
  BY <1>4, <1>5, <1>6
<1>8. Served(w, i)' BY <1>1, <1>7, AsleepServed
<1> QED BY <1>2, <1>8 DEF LosesOneDay

(* What the first mishap finds, of a worker asleep or running. *)
LEMMA NothingLost ==
  ASSUME TypeInv, NEW w \in Worker, trouble = 0, LosesOneDay(w)
  PROVE  /\ pc[w] = "asleep" =>
              /\ now <= wakeAt[w]
              /\ \A k \in Nat : At(k) < NextLook(w) \/ k = FiredOn(w) => Through(k)
         /\ pc[w] # "asleep" =>
              /\ now <= wakeAt[w] + MaxRun
              /\ \A k \in Nat : k # FiredOn(w) /\ At(k) <= LastLook(w) => Through(k)
BY DEF LosesOneDay, Served, Waits, Runs

LEMMA UpdateServed ==
  ASSUME TypeInv, TypeInv', OneMishap, schedule \in Minute, schedule' \in Minute,
         NEW s, UpdateSchedule(s), NEW w \in Worker, LosesOneDay(w)
  PROVE  LosesOneDay(w)'
<1>1. UNCHANGED <<now, offset, pc, wakeAt, lastRun, attempted>> BY DEF UpdateSchedule, loops
<1>2. trouble = 0 /\ trouble' = 1 BY FirstTrouble DEF UpdateSchedule
<1>3. /\ FiredOn(w)' = FiredOn(w) /\ NextLook(w)' = NextLook(w) /\ LastLook(w)' = LastLook(w)
      /\ \A k \in Nat : Through(k)' <=> Through(k)
  BY <1>1 DEF FiredOn, NextLook, LastLook, Through
<1>4. NextLook(w) \in Int /\ LastLook(w) \in Int BY Looks
<1>5. \A k \in Nat : /\ At(k) \in Int /\ At(k)' \in Int /\ k * Minutes \in Int
                     /\ At(k) < k * Minutes + Minutes /\ k * Minutes <= At(k)'
  <2>1. \A k \in Nat : /\ At(k) \in Int /\ k * Minutes \in Int /\ At(k) < k * Minutes + Minutes BY AtDay
  <2>2. schedule' \in Int /\ 0 <= schedule' BY SchedulerAssumption DEF Minute
  <2>3. \A k \in Nat : At(k)' = k * Minutes + schedule' BY DEF At
  <2>4. \A k \in Nat : At(k)' \in Int /\ k * Minutes <= At(k)' BY <2>1, <2>2, <2>3
  <2> QED BY <2>1, <2>4
(* Only of the day of the next look is the minute moved over that look. *)
<1>6. CASE pc[w] = "asleep"
  <2> PICK i \in Int : i = NextLook(w) \div Minutes BY <1>4, Day
  <2>1. ASSUME NEW k \in Nat, k # i, At(k)' < NextLook(w) PROVE At(k) < NextLook(w)
    <3>1. SUFFICES ASSUME NextLook(w) <= At(k) PROVE FALSE BY <1>4, <1>5
    <3>2. /\ At(k) \in Int /\ At(k)' \in Int /\ k * Minutes \in Int
          /\ At(k) < k * Minutes + Minutes /\ k * Minutes <= At(k)'
      BY <1>5
    <3>3. k * Minutes <= NextLook(w) /\ NextLook(w) < k * Minutes + Minutes
      BY <1>4, <2>1, <3>1, <3>2, SchedulerAssumption
    <3> QED BY <1>4, <2>1, <3>3, OnlyDay
  <2>2. Waits(w, i)' BY <1>1, <1>2, <1>3, <1>6, <2>1, NothingLost DEF Waits
  <2> QED BY <1>1, <1>2, <1>6, <2>2 DEF Served, LosesOneDay
<1>7. CASE pc[w] # "asleep"
  <2> PICK i \in Int : i = LastLook(w) \div Minutes BY <1>4, Day
  <2>1. ASSUME NEW k \in Nat, k # i, At(k)' <= LastLook(w) PROVE At(k) <= LastLook(w)
    <3>1. SUFFICES ASSUME LastLook(w) < At(k) PROVE FALSE BY <1>4, <1>5
    <3>2. /\ At(k) \in Int /\ At(k)' \in Int /\ k * Minutes \in Int
          /\ At(k) < k * Minutes + Minutes /\ k * Minutes <= At(k)'
      BY <1>5
    <3>3. k * Minutes <= LastLook(w) /\ LastLook(w) < k * Minutes + Minutes
      BY <1>4, <2>1, <3>1, <3>2, SchedulerAssumption
    <3> QED BY <1>4, <2>1, <3>3, OnlyDay
  <2>2. Runs(w, i)' BY <1>1, <1>2, <1>3, <1>7, <2>1, NothingLost DEF Runs
  <2> QED BY <1>1, <1>2, <1>7, <2>2 DEF Served, LosesOneDay
<1> QED BY <1>6, <1>7

LEMMA TickServed ==
  ASSUME TypeInv, OneMishap, Tick, schedule \in Minute, NEW w \in Worker, LosesOneDay(w)
  PROVE  LosesOneDay(w)'
<1> PICK j \in Int : (trouble = 0 => j = -1) /\ Served(w, j) BY DEF LosesOneDay
<1>1. now' = now + 1 /\ UNCHANGED <<offset, schedule, pc, wakeAt, lastRun, attempted>>
  BY DEF Tick, loops
<1>2. /\ FiredOn(w)' = FiredOn(w) /\ NextLook(w)' = NextLook(w) /\ LastLook(w)' = LastLook(w)
      /\ \A k \in Nat : (Through(k)' <=> Through(k)) /\ At(k)' = At(k)
  BY <1>1 DEF FiredOn, NextLook, LastLook, Through, At
<1>3. now \in Int /\ wakeAt[w] \in Int /\ MaxRun \in Int /\ trouble \in Nat
  BY Numbers, SchedulerAssumption
<1>4. UNCHANGED trouble \/ (trouble = 0 /\ trouble' = 1)
  <2>1. UNCHANGED trouble \/ Trouble("late") BY DEF Tick
  <2>2. Trouble("late") => trouble = 0 /\ trouble' = 1 BY FirstTrouble
  <2> QED BY <2>1, <2>2
<1>5. CASE ~Overdue(w)
  <2>1. CASE pc[w] = "asleep"
    <3>1. now' <= wakeAt[w] BY <1>1, <1>3, <1>5, <2>1 DEF Overdue
    <3>2. Waits(w, j)' BY <1>1, <1>2, <2>1, <3>1 DEF Waits, Served
    <3> QED BY <1>1, <1>4, <2>1, <3>2 DEF Served, LosesOneDay
  <2>2. CASE pc[w] # "asleep"
    <3>1. now' <= wakeAt[w] + MaxRun BY <1>1, <1>3, <1>5, <2>2 DEF Overdue
    <3>2. Runs(w, j)' BY <1>1, <1>2, <2>2, <3>1 DEF Runs, Served
    <3> QED BY <1>1, <1>4, <2>2, <3>2 DEF Served, LosesOneDay
  <2> QED BY <2>1, <2>2
<1>6. CASE Overdue(w)
  <2>1. pc[w] = "asleep" /\ now >= wakeAt[w] /\ Trouble("late") BY <1>6 DEF Tick, Overdue
  <2>2. trouble = 0 /\ trouble' = 1 BY <2>1, FirstTrouble
  <2>3. now <= wakeAt[w] /\ \A k \in Nat : At(k) < NextLook(w) \/ k = FiredOn(w) => Through(k)
    BY <2>1, <2>2, NothingLost
  <2>4. now' = wakeAt[w] + 1 BY <1>1, <1>3, <2>1, <2>3
  <2>5. Waits(w, -1)' BY <1>1, <1>2, <2>2, <2>3, <2>4 DEF Waits
  <2> QED BY <1>1, <2>1, <2>2, <2>5 DEF Served, LosesOneDay
<1> QED BY <1>5, <1>6

LEMMA FallBackServed ==
  ASSUME TypeInv, TypeInv', OneMishap, FallBack, schedule \in Minute, NEW w \in Worker, LosesOneDay(w)
  PROVE  LosesOneDay(w)'
<1>1. offset' = offset + Slots /\ UNCHANGED <<now, schedule, pc, wakeAt, lastRun, attempted>>
  BY DEF FallBack, loops
<1>2. /\ FiredOn(w)' = FiredOn(w)
      /\ \A k \in Nat : (Through(k)' <=> Through(k)) /\ At(k)' = At(k)
  BY <1>1 DEF FiredOn, Through, At
<1>3. trouble = 0 /\ trouble' = 1 BY FirstTrouble DEF FallBack
<1>4. /\ now \in Int /\ wakeAt[w] \in Int /\ MaxRun \in Int /\ offset \in Int /\ Slots \in Int /\ Slots > 0
      /\ offset' \in Int
  BY <1>1, Numbers, SchedulerAssumption
<1>5. /\ NextLook(w)' \in Int /\ NextLook(w) \in Int /\ NextLook(w)' <= NextLook(w)
      /\ LastLook(w)' \in Int /\ LastLook(w) \in Int /\ LastLook(w)' <= LastLook(w)
  <2>1. /\ wakeAt[w] - offset \in Int /\ wakeAt[w] - offset' \in Int
        /\ wakeAt[w] - offset' <= wakeAt[w] - offset
    BY <1>1, <1>4
  <2>2. /\ wakeAt[w] + MaxRun - offset \in Int /\ wakeAt[w] + MaxRun - offset' \in Int
        /\ wakeAt[w] + MaxRun - offset' <= wakeAt[w] + MaxRun - offset
    BY <1>1, <1>4
  <2>3. NextLook(w)' = (wakeAt[w] - offset') \div Slots BY <1>1 DEF NextLook
  <2>4. LastLook(w)' = (wakeAt[w] + MaxRun - offset') \div Slots BY <1>1 DEF LastLook
  <2>5. NextLook(w)' \in Int /\ NextLook(w) \in Int /\ NextLook(w)' <= NextLook(w)
    BY <2>1, <2>3, MinuteMonotone, Quotient DEF NextLook
  <2>6. LastLook(w)' \in Int /\ LastLook(w) \in Int /\ LastLook(w)' <= LastLook(w)
    BY <2>2, <2>4, MinuteMonotone, Quotient DEF LastLook
  <2> QED BY <2>5, <2>6
<1>6. \A k \in Nat : At(k) \in Int BY AtDay
<1>7. CASE pc[w] = "asleep"
  <2>1. \A k \in Nat : At(k)' < NextLook(w)' => At(k) < NextLook(w) BY <1>2, <1>5, <1>6
  <2>2. Waits(w, -1)' BY <1>1, <1>2, <1>3, <1>7, <2>1, NothingLost DEF Waits
  <2> QED BY <1>1, <1>3, <1>7, <2>2 DEF Served, LosesOneDay
<1>8. CASE pc[w] # "asleep"
  <2>1. \A k \in Nat : At(k)' <= LastLook(w)' => At(k) <= LastLook(w) BY <1>2, <1>5, <1>6
  <2>2. Runs(w, -1)' BY <1>1, <1>2, <1>3, <1>8, <2>1, NothingLost DEF Runs
  <2> QED BY <1>1, <1>3, <1>8, <2>2 DEF Served, LosesOneDay
<1> QED BY <1>7, <1>8

LEMMA SpringForwardServed ==
  ASSUME TypeInv, TypeInv', OneMishap, SpringForward, schedule \in Minute, NEW w \in Worker, LosesOneDay(w)
  PROVE  LosesOneDay(w)'
<1>1. offset' = offset - Slots /\ UNCHANGED <<now, schedule, pc, wakeAt, lastRun, attempted>>
  BY DEF SpringForward, loops
<1>2. /\ FiredOn(w)' = FiredOn(w)
      /\ \A k \in Nat : (Through(k)' <=> Through(k)) /\ At(k)' = At(k)
  BY <1>1 DEF FiredOn, Through, At
<1>3. trouble = 0 /\ trouble' = 1 BY FirstTrouble DEF SpringForward
<1>4. now \in Int /\ wakeAt[w] \in Int /\ MaxRun \in Int /\ offset \in Int /\ Slots \in Int
  BY Numbers, SchedulerAssumption
<1>5. /\ NextLook(w) \in Int /\ NextLook(w)' = NextLook(w) + 1
      /\ LastLook(w) \in Int /\ LastLook(w)' = LastLook(w) + 1
  <2> DEFINE a == wakeAt[w] - offset
             b == wakeAt[w] + MaxRun - offset
  <2>1. a \in Int /\ b \in Int BY <1>4
  <2>2. wakeAt'[w] - offset' = a + Slots /\ wakeAt'[w] + MaxRun - offset' = b + Slots
    BY <1>1, <1>4
  <2> HIDE DEF a, b
  <2>3. (a + Slots) \div Slots = a \div Slots + 1 BY <2>1, MinuteLater
  <2>4. (b + Slots) \div Slots = b \div Slots + 1 BY <2>1, MinuteLater
  <2>5. NextLook(w) \in Int /\ LastLook(w) \in Int BY Looks
  <2> QED BY <2>2, <2>3, <2>4, <2>5 DEF a, b, NextLook, LastLook
<1>6. \A k \in Nat : At(k) \in Int BY AtDay
<1>7. CASE pc[w] = "asleep"
  <2> PICK i \in Int : i = NextLook(w) \div Minutes BY <1>5, Day
  <2>1. \A k \in Nat : At(k) = NextLook(w) => k = i BY AtDay
  <2>2. \A k \in Nat : k # i /\ At(k)' < NextLook(w)' => At(k) < NextLook(w)
    BY <1>2, <1>5, <1>6, <2>1
  <2>3. Waits(w, i)' BY <1>1, <1>2, <1>3, <1>7, <2>2, NothingLost DEF Waits
  <2> QED BY <1>1, <1>3, <1>7, <2>3 DEF Served, LosesOneDay
<1>8. CASE pc[w] # "asleep"
  <2> PICK i \in Int : i = (LastLook(w) + 1) \div Minutes
    <3>1. LastLook(w) + 1 \in Int BY <1>5
    <3> QED BY <3>1, Day
  <2>1. \A k \in Nat : At(k) = LastLook(w) + 1 => k = i BY AtDay
  <2>2. \A k \in Nat : k # i /\ At(k)' <= LastLook(w)' => At(k) <= LastLook(w)
    BY <1>2, <1>5, <1>6, <2>1
  <2>3. Runs(w, i)' BY <1>1, <1>2, <1>3, <1>8, <2>2, NothingLost DEF Runs
  <2> QED BY <1>1, <1>3, <1>8, <2>3 DEF Served, LosesOneDay
<1> QED BY <1>7, <1>8

LEMMA DatesStep ==
  ASSUME OneMishap, TypeInv, TypeInv', DatesInv, [Next]_vars
  PROVE  DatesInv'
(* Until its mishap the portal keeps the schedule it started with. *)
<1>1. trouble' = 0 => schedule' # Never
  <2>1. (schedule' = schedule /\ (trouble' = 0 => trouble = 0)) \/ trouble' = 1
    <3>1. ASSUME NEW w \in Worker, WakeIdle(w) \/ Fire(w) \/ Finish(w) \/ RunFails(w) \/ Restart(w)
          PROVE  (schedule' = schedule /\ trouble' = trouble) \/ trouble' = 1
      BY <3>1, FirstTrouble DEF WakeIdle, Fire, Finish, RunFails, Restart
    <3>2. ASSUME NEW s, UpdateSchedule(s) PROVE trouble' = 1 BY <3>2, FirstTrouble DEF UpdateSchedule
    <3>3. ASSUME Tick PROVE (schedule' = schedule /\ trouble' = trouble) \/ trouble' = 1
      <4>1. schedule' = schedule /\ (UNCHANGED trouble \/ Trouble("late")) BY <3>3 DEF Tick
      <4>2. Trouble("late") => trouble' = 1 BY FirstTrouble
      <4> QED BY <4>1, <4>2
    <3>4. FallBack \/ SpringForward => trouble' = 1 BY FirstTrouble DEF FallBack, SpringForward
    <3>5. UNCHANGED vars => schedule' = schedule /\ trouble' = trouble BY DEF vars
    <3> QED BY <3>1, <3>2, <3>3, <3>4, <3>5 DEF Next
  <2> QED BY <2>1 DEF DatesInv
<1>2. SUFFICES ASSUME schedule' # Never, NEW v \in Worker PROVE LosesOneDay(v)' BY <1>1 DEF DatesInv
<1>3. schedule' \in Minute BY <1>2 DEF TypeInv, TypeOK
<1>4. ASSUME schedule \in Minute PROVE LosesOneDay(v)
  <2>1. schedule # Never BY <1>4, SchedulerAssumption
  <2> QED BY <2>1 DEF DatesInv
<1>5. ASSUME NEW w \in Worker, WakeIdle(w) \/ Fire(w) \/ Finish(w) \/ RunFails(w) \/ Restart(w)
      PROVE  LosesOneDay(v)'
  <2>1. UNCHANGED <<now, offset, schedule>>
    BY <1>5 DEF WakeIdle, Fire, Finish, RunFails, Restart
  <2>2. schedule \in Minute /\ LosesOneDay(v) BY <1>3, <1>4, <2>1
  <2>3. CASE v = w
    BY <1>5, <2>2, <2>3, WakeIdleServed, FireServed, FinishServed, RunFailsServed, RestartServed
  <2>4. CASE v # w
    <3>1. pc'[v] = pc[v] /\ wakeAt'[v] = wakeAt[v] /\ lastRun'[v] = lastRun[v]
      BY <1>5, <2>4 DEF WakeIdle, Fire, Finish, RunFails, Restart, Sleep, TypeInv, TypeOK
    <3>2. attempted \subseteq attempted'
      BY <1>5 DEF WakeIdle, Fire, Finish, RunFails, Restart
    <3>3. trouble' = trouble \/ (trouble = 0 /\ trouble' = 1)
      BY <1>5, FirstTrouble DEF WakeIdle, Fire, Finish, RunFails, Restart
    <3>4. trouble' >= trouble /\ trouble' \in Int /\ (trouble' = 0 => trouble = 0) BY <3>3, Numbers
    <3> PICK j \in Int : (trouble = 0 => j = -1) /\ Served(v, j) BY <2>2 DEF LosesOneDay
    <3>5. Served(v, j)' BY <2>1, <3>1, <3>2, <3>4, OthersServed
    <3> QED BY <3>4, <3>5 DEF LosesOneDay
  <2> QED BY <2>3, <2>4
<1>6. ASSUME NEW s, UpdateSchedule(s) PROVE LosesOneDay(v)'
  <2>1. trouble = 0 BY <1>6, FirstTrouble DEF UpdateSchedule
  <2>2. schedule \in Minute BY <2>1 DEF DatesInv, TypeInv, TypeOK
  <2> QED BY <1>3, <1>4, <1>6, <2>2, UpdateServed
<1>7. CASE Tick
  <2>1. schedule \in Minute BY <1>3, <1>7 DEF Tick
  <2> QED BY <1>4, <1>7, <2>1, TickServed
<1>8. CASE FallBack
  <2>1. schedule \in Minute BY <1>3, <1>8 DEF FallBack
  <2> QED BY <1>4, <1>8, <2>1, FallBackServed
<1>9. CASE SpringForward
  <2>1. schedule \in Minute BY <1>3, <1>9 DEF SpringForward
  <2> QED BY <1>4, <1>9, <2>1, SpringForwardServed
<1>10. CASE UNCHANGED vars
  <2>1. schedule \in Minute /\ LosesOneDay(v) BY <1>3, <1>4, <1>10 DEF vars
  <2> PICK j \in Int : (trouble = 0 => j = -1) /\ Served(v, j) BY <2>1 DEF LosesOneDay
  <2>2. trouble' = trouble /\ trouble' >= trouble /\ trouble' \in Int BY <1>10, Numbers DEF vars
  <2>3. Served(v, j)' BY <1>10, <2>2, OthersServed DEF vars
  <2> QED BY <2>2, <2>3 DEF LosesOneDay
<1> QED BY <1>5, <1>6, <1>7, <1>8, <1>9, <1>10 DEF Next

LEMMA InitDates == ASSUME OneMishap, Init PROVE DatesInv
<1>1. TypeInv BY InitTypes
<1>2. /\ schedule \in Minute /\ schedule # Never /\ now = 0 /\ offset = 0 /\ Slots \in Nat /\ Slots > 0
  BY SchedulerAssumption DEF Init, OneMishap
<1>3. ASSUME NEW w \in Worker PROVE LosesOneDay(w)
  <2>1. pc[w] = "asleep" /\ lastRun[w] = -1 /\ wakeAt[w] \in Slots..2 * Slots - 1 BY DEF Init
  <2>2. NextLook(w) = 1
    <3>1. wakeAt[w] - offset \in Int /\ 1 * Slots <= wakeAt[w] - offset
          /\ wakeAt[w] - offset < 1 * Slots + Slots
      BY <1>2, <2>1
    <3>2. 1 = (wakeAt[w] - offset) \div Slots BY <3>1, OnlyMinute
    <3> QED BY <3>2 DEF NextLook
  <2>3. FiredOn(w) \notin Nat
    <3>1. /\ (-1) * Minutes <= -1 /\ -1 < (-1) * Minutes + Minutes BY SchedulerAssumption
    <3>2. -1 = (-1) \div Minutes BY <3>1, OnlyDay
    <3> QED BY <2>1, <3>2 DEF FiredOn
  <2>4. ASSUME NEW k \in Nat, At(k) < 1 PROVE Through(k)
    <3>1. k = 0
      <4>1. SUFFICES ASSUME 0 < k PROVE FALSE OBVIOUS
      <4>2. At(0) + Minutes <= At(k) /\ At(0) \in Int /\ 0 * Minutes <= At(0) /\ At(k) \in Int
        BY <1>2, <4>1, AtOrder, AtDay
      <4> QED BY <2>4, <4>2, SchedulerAssumption
    <3> QED BY <3>1, SchedulerAssumption DEF Through
  <2>5. now <= wakeAt[w] BY <1>2, <2>1
  <2>6. Waits(w, -1) BY <2>2, <2>3, <2>4, <2>5 DEF Waits
  <2> QED BY <2>1, <2>6 DEF Served, LosesOneDay
<1> QED BY <1>2, <1>3 DEF DatesInv

(* Two later days would both have to be the lost one. *)
LEMMA DatesKept == ASSUME OneMishap, TypeInv, DatesInv PROVE NoDateLost
<1> SUFFICES ASSUME NEW d \in 0..Today, schedule # Never, Today > d + Lookback,
                    \A w \in Worker : pc[w] = "asleep"
             PROVE  d \in attempted
  BY DEF NoDateLost
<1> PICK w \in Worker : pc[w] = "asleep" BY DEF OneMishap
<1>1. schedule \in Minute /\ LosesOneDay(w) BY DEF TypeInv, TypeOK, DatesInv
<1> PICK j \in Int : Served(w, j) BY <1>1 DEF LosesOneDay
<1>2. /\ now <= wakeAt[w] \/ (trouble > 0 /\ j = -1 /\ now = wakeAt[w] + 1)
      /\ \A k \in Nat : k # j /\ At(k) < NextLook(w) => Through(k)
  BY DEF Served, Waits
<1>3. /\ LocalMinute \in Int /\ NextLook(w) \in Int
      /\ now <= wakeAt[w] => LocalMinute <= NextLook(w)
      /\ now = wakeAt[w] + 1 => LocalMinute <= NextLook(w) + 1
  BY Looks
<1>4. /\ Today \in Int /\ Today * Minutes \in Int /\ Today * Minutes <= LocalMinute
      /\ Minutes \in Int /\ Minutes > 1
      /\ d \in Nat /\ d + 1 \in Nat /\ d + 2 \in Nat /\ Lookback \in Int /\ Lookback >= 2
      /\ d + 2 < Today /\ d + 1 < Today - 1
  <2>1. Today \in Int /\ Today * Minutes <= LocalMinute BY <1>3, Day DEF Today
  <2>2. Minutes \in Int /\ Minutes > 1 /\ Lookback \in Int /\ Lookback >= 2 BY SchedulerAssumption DEF OneMishap
  <2> QED BY <2>1, <2>2
<1> HIDE DEF Today, LocalMinute
<1>5. ASSUME NEW k \in Nat, NEW l \in Int, k < l
      PROVE  At(k) \in Int /\ l * Minutes \in Int /\ At(k) < l * Minutes
  <2>1. At(k) + Minutes <= At(l) /\ At(k) \in Int /\ At(l) \in Int BY <1>1, <1>5, AtOrder, AtDay
  <2>2. At(l) < l * Minutes + Minutes /\ l * Minutes \in Int BY <1>1, AtDay
  <2> QED BY <1>4, <2>1, <2>2
<1>6. /\ At(d + 1) \in Int /\ At(d + 2) \in Int
      /\ At(d + 1) < LocalMinute - 1 /\ At(d + 2) < LocalMinute
  <2>1. At(d + 2) \in Int /\ At(d + 2) < Today * Minutes BY <1>4, <1>5
  <2>2. At(d + 1) \in Int /\ At(d + 1) < (Today - 1) * Minutes /\ Today - 1 \in Int BY <1>4, <1>5
  <2>3. (Today - 1) * Minutes = Today * Minutes - Minutes BY <1>4
  <2> QED BY <1>3, <1>4, <2>1, <2>2, <2>3
<1>7. Through(d + 1) \/ Through(d + 2)
  <2>1. CASE now <= wakeAt[w]
    <3>1. At(d + 1) < NextLook(w) /\ At(d + 2) < NextLook(w) BY <1>3, <1>6, <2>1
    <3>2. d + 1 # j \/ d + 2 # j BY <1>4
    <3> QED BY <1>2, <1>4, <3>1, <3>2
  <2>2. CASE j = -1 /\ now = wakeAt[w] + 1
    <3>1. At(d + 1) < NextLook(w) BY <1>3, <1>6, <2>2
    <3>2. d + 1 # j BY <1>4, <2>2
    <3> QED BY <1>2, <1>4, <3>1, <3>2
  <2> QED BY <1>2, <2>1, <2>2
<1> QED BY <1>4, <1>7 DEF Through

(* With the default look-back of two days a single mishap (a late wake-up, *)
(* a failed run, a restart, a changed clock or schedule) loses no report   *)
(* date while auto_fetch is on (scheduler_loop, lookback_days).            *)
THEOREM OneMishapLosesNoDate ==
  ASSUME OneMishap
  PROVE  Spec => []NoDateLost
<1>1. Init => DatesInv BY InitDates
<1>2. TypeInv /\ TypeInv' /\ DatesInv /\ [Next]_vars => DatesInv' BY DatesStep
<1>3. TypeInv /\ DatesInv => NoDateLost BY DatesKept
<1> QED BY <1>1, <1>2, <1>3, TypeInvariance, PTL DEF Spec

-----------------------------------------------------------------------------
(* At most one mishap, of whatever kind: the clock may be put back too,    *)
(* over a minute in which a run was started.                               *)

(* As long as nothing has gone wrong there is a minute to spare. *)
Calm(w) ==
  /\ lastRun[w] <= LocalMinute /\ (pc[w] = "asleep" => lastRun[w] < NextLook(w))
  /\ \A k \in Keys : fired[w][k] # 0 =>
       k = lastRun[w] \/ (k < LocalMinute /\ (pc[w] = "asleep" => k + 1 < NextLook(w)))

(* The guard remembers the last run; the others are before the next look,  *)
(* which from a worker that runs comes in the next minute at the earliest. *)
Before(w, k) == IF pc[w] = "asleep" THEN k < NextLook(w) ELSE k <= LocalMinute

Remembers(w) ==
  /\ \A k \in Keys : fired[w][k] \in {0, 1} /\ (fired[w][k] # 0 => k = lastRun[w] \/ Before(w, k))
  /\ IF pc[w] = "asleep" THEN lastRun[w] <= NextLook(w) ELSE lastRun[w] <= LocalMinute + 1

OnceInv == \A w \in Worker : (trouble = 0 => Calm(w)) /\ Remembers(w)

LEMMA OnceFacts ==
  ASSUME TypeInv, OnceInv, NEW w \in Worker
  PROVE  /\ (trouble = 0 => Calm(w)) /\ Remembers(w)
         /\ LocalMinute \in Int /\ NextLook(w) \in Int /\ lastRun[w] \in Int /\ Keys \subseteq Int
         /\ -1 <= lastRun[w] /\ 0 <= LocalMinute
<1>1. lastRun[w] \in Keys \cup {-1} /\ LocalMinute \in Keys /\ Keys \subseteq Nat
  BY MinutesHavePlaces, SchedulerAssumption DEF TypeInv, TypeOK, Keys
<1>2. LocalMinute \in Int /\ NextLook(w) \in Int BY Looks
<1>3. (trouble = 0 => Calm(w)) /\ Remembers(w) BY DEF OnceInv
<1>4. Keys \subseteq Int /\ 0 <= LocalMinute BY <1>1
<1>5. lastRun[w] \in Int /\ -1 <= lastRun[w]
  <2>1. lastRun[w] \in Nat \/ lastRun[w] = -1 BY <1>1
  <2> QED BY <2>1
<1> QED BY <1>2, <1>3, <1>4, <1>5

(* Back asleep in this minute, with the guard kept or, in a restart, lost. *)
LEMMA AsleepRemembers ==
  ASSUME TypeInv, OnceInv, NEW w \in Worker,
         UNCHANGED <<now, offset, fired>>, pc'[w] = "asleep", wakeAt'[w] = now + Slots,
         pc[w] = "asleep" => now >= wakeAt[w] \/ trouble = 0,
         lastRun'[w] = lastRun[w] \/ (trouble = 0 /\ lastRun'[w] = -1 /\ trouble' = 1)
  PROVE  Remembers(w)' /\ (trouble = 0 /\ trouble' = 0 => Calm(w)')
<1>1. NextLook(w)' = LocalMinute + 1 /\ LocalMinute' = LocalMinute /\ Keys' = Keys /\ fired' = fired
  <2>1. wakeAt'[w] - offset' = now + Slots - offset BY Numbers
  <2>2. NextLook(w)' = LocalMinute + 1 BY <2>1, NextLookAfterSleep DEF NextLook
  <2> QED BY <2>2 DEF LocalMinute, Keys
<1>2. /\ (trouble = 0 => Calm(w)) /\ Remembers(w)
      /\ LocalMinute \in Int /\ NextLook(w) \in Int /\ lastRun[w] \in Int /\ Keys \subseteq Int
      /\ -1 <= lastRun[w] /\ 0 <= LocalMinute
  BY OnceFacts
<1>3. now >= wakeAt[w] => NextLook(w) <= LocalMinute BY Looks
<1>4. ASSUME NEW k \in Keys, fired[w][k] # 0 PROVE k <= LocalMinute \/ (k = lastRun[w] /\ trouble # 0)
  <2>1. CASE trouble = 0 BY <1>2, <1>4, <2>1 DEF Calm
  <2>2. CASE trouble # 0 BY <1>2, <1>3, <1>4, <2>2 DEF Remembers, Before
  <2> QED BY <2>1, <2>2
<1>5. lastRun'[w] <= LocalMinute + 1 BY <1>2, <1>3 DEF Remembers, Calm
<1>6. Remembers(w)' BY <1>1, <1>2, <1>4, <1>5 DEF Remembers, Before
<1>7. ASSUME trouble = 0, trouble' = 0 PROVE Calm(w)'
  <2>1. lastRun'[w] = lastRun[w] BY <1>7
  <2>2. lastRun[w] <= LocalMinute /\ \A k \in Keys : fired[w][k] # 0 => k = lastRun[w] \/ k < LocalMinute
    BY <1>2, <1>7 DEF Calm
  <2>3. LocalMinute \in Int /\ lastRun[w] \in Int /\ Keys \subseteq Int /\ NextLook(w)' = LocalMinute + 1
    BY <1>1, <1>2
  <2>4. lastRun[w] < NextLook(w)' BY <2>2, <2>3
  <2>5. \A k \in Keys : k < LocalMinute => k + 1 < NextLook(w)' BY <2>3
  <2> QED BY <1>1, <2>1, <2>2, <2>4, <2>5 DEF Calm
<1> QED BY <1>6, <1>7

LEMMA FireRemembers ==
  ASSUME TypeInv, OnceInv, NEW w \in Worker, Fire(w)
  PROVE  Remembers(w)' /\ (trouble = 0 => Calm(w)')
<1>1. /\ UNCHANGED <<now, offset, trouble>> /\ pc[w] = "asleep" /\ pc'[w] = "running"
      /\ lastRun'[w] = LocalMinute /\ lastRun[w] # LocalMinute /\ now >= wakeAt[w]
      /\ fired' = [fired EXCEPT ![w] = [fired[w] EXCEPT ![LocalMinute] = @ + 1]]
      /\ fired[w] \in [Keys -> Nat] /\ fired \in [Worker -> [Keys -> Nat]]
  BY DEF Fire, Due, TypeInv, TypeOK
<1>2. /\ (trouble = 0 => Calm(w)) /\ Remembers(w)
      /\ LocalMinute \in Int /\ NextLook(w) \in Int /\ lastRun[w] \in Int /\ Keys \subseteq Int
  BY OnceFacts
<1>3. LocalMinute' = LocalMinute /\ Keys' = Keys BY <1>1 DEF LocalMinute, Keys
<1>4. NextLook(w) <= LocalMinute /\ LocalMinute \in Keys BY <1>1, Looks, MinutesHavePlaces
<1>5. \A k \in Keys : fired[w][k] # 0 => k < LocalMinute
  BY <1>1, <1>2, <1>4 DEF Remembers, Before
<1>6. fired[w][LocalMinute] = 0 BY <1>2, <1>4, <1>5
<1>7. \A k \in Keys : fired'[w][k] = IF k = LocalMinute THEN 1 ELSE fired[w][k] BY <1>1, <1>6
<1>8. \A k \in Keys : fired'[w][k] \in {0, 1} BY <1>2, <1>7 DEF Remembers
<1>9. \A k \in Keys : fired'[w][k] # 0 => k = LocalMinute \/ k < LocalMinute BY <1>5, <1>7
<1>10. Remembers(w)' BY <1>1, <1>2, <1>3, <1>8, <1>9 DEF Remembers, Before
<1>11. trouble = 0 => Calm(w)' BY <1>1, <1>2, <1>3, <1>9 DEF Calm
<1> QED BY <1>10, <1>11

(* The clock goes on, or jumps once by a minute. *)
LEMMA ClockRemembers ==
  ASSUME TypeInv, OnceInv, NEW w \in Worker, NEW n \in Int, UNCHANGED <<pc, lastRun, fired>>,
         NextLook(w)' = NextLook(w) + n, LocalMinute' \in Int, LocalMinute' >= LocalMinute + n,
         n >= 0 \/ (n = -1 /\ trouble = 0 /\ trouble' = 1), trouble' = 0 => n = 0 /\ trouble = 0
  PROVE  Remembers(w)' /\ (trouble' = 0 => Calm(w)')
<1>1. /\ (trouble = 0 => Calm(w)) /\ Remembers(w)
      /\ LocalMinute \in Int /\ NextLook(w) \in Int /\ lastRun[w] \in Int /\ Keys \subseteq Int
  BY OnceFacts
<1>2. Keys' = Keys /\ fired' = fired /\ pc'[w] = pc[w] /\ lastRun'[w] = lastRun[w] BY DEF Keys
<1> HIDE DEF LocalMinute, NextLook, Keys
<1>3. CASE n >= 0
  <2>1. LocalMinute <= LocalMinute' /\ NextLook(w) <= NextLook(w)' /\ NextLook(w)' \in Int BY <1>1, <1>3
  <2>2. \A k \in Keys : Before(w, k) => Before(w, k)' BY <1>1, <1>2, <2>1 DEF Before
  <2>3. Remembers(w)'
    <3>1. \A k \in Keys : fired[w][k] \in {0, 1} /\ (fired[w][k] # 0 => k = lastRun[w] \/ Before(w, k)')
      BY <1>1, <2>2 DEF Remembers
    <3>2. IF pc[w] = "asleep" THEN lastRun[w] <= NextLook(w)' ELSE lastRun[w] <= LocalMinute' + 1
      BY <1>1, <2>1 DEF Remembers
    <3> QED BY <1>2, <3>1, <3>2 DEF Remembers
  <2>4. trouble' = 0 => Calm(w)' BY <1>1, <1>2, <2>1 DEF Calm
  <2> QED BY <2>3, <2>4
<1>4. CASE n = -1 /\ trouble = 0 /\ trouble' = 1
  <2>1. Calm(w) BY <1>1, <1>4
  <2>2. LocalMinute - 1 <= LocalMinute' /\ NextLook(w)' = NextLook(w) - 1 BY <1>1, <1>4
  <2>3. \A k \in Keys : fired[w][k] # 0 => k = lastRun[w] \/ Before(w, k)'
    BY <1>1, <1>2, <2>1, <2>2 DEF Calm, Before
  <2>4. IF pc[w] = "asleep" THEN lastRun[w] <= NextLook(w)' ELSE lastRun[w] <= LocalMinute' + 1
    BY <1>1, <2>1, <2>2 DEF Calm
  <2>5. \A k \in Keys : fired[w][k] \in {0, 1} BY <1>1 DEF Remembers
  <2> QED BY <1>2, <1>4, <2>3, <2>4, <2>5 DEF Remembers
<1> QED BY <1>3, <1>4

LEMMA OnceStep ==
  ASSUME MaxTrouble <= 1, TypeInv, TypeInv', OnceInv, [Next]_vars
  PROVE  OnceInv'
<1>1. SUFFICES ASSUME NEW v \in Worker PROVE (trouble' = 0 => Calm(v)') /\ Remembers(v)'
  BY DEF OnceInv
<1>2. ASSUME NEW k, Trouble(k) PROVE trouble = 0 /\ trouble' = 1 BY <1>2, Numbers DEF Trouble
<1>3. (trouble = 0 => Calm(v)) /\ Remembers(v) BY OnceFacts
<1>4. ASSUME NEW w \in Worker, WakeIdle(w) \/ Fire(w) \/ Finish(w) \/ RunFails(w) \/ Restart(w)
      PROVE  (trouble' = 0 => Calm(v)') /\ Remembers(v)'
  <2>1. UNCHANGED <<now, offset>> /\ (trouble' = trouble \/ (trouble = 0 /\ trouble' = 1))
    BY <1>2, <1>4 DEF WakeIdle, Fire, Finish, RunFails, Restart
  <2>2. trouble' = 0 => trouble = 0 BY <2>1
  <2>3. CASE v # w
    <3>1. /\ pc'[v] = pc[v] /\ wakeAt'[v] = wakeAt[v] /\ lastRun'[v] = lastRun[v]
          /\ fired'[v] = fired[v]
      BY <1>4, <2>3 DEF WakeIdle, Fire, Finish, RunFails, Restart, Sleep, TypeInv, TypeOK
    <3>2. Keys' = Keys /\ LocalMinute' = LocalMinute /\ NextLook(v)' = NextLook(v)
      BY <2>1, <3>1 DEF Keys, LocalMinute, NextLook
    <3> QED BY <1>3, <2>2, <3>1, <3>2 DEF Calm, Remembers, Before
  <2>4. CASE v = w /\ Fire(w) BY <2>2, <2>4, FireRemembers
  <2>5. CASE v = w /\ ~Fire(w)
    <3>1. /\ UNCHANGED fired /\ pc'[w] = "asleep" /\ wakeAt'[w] = now + Slots
          /\ WakeIdle(w) \/ Finish(w) \/ RunFails(w) \/ Restart(w)
      BY <1>4, <2>5 DEF WakeIdle, Finish, RunFails, Restart, Sleep, FirstWake, WakeTime, TypeInv, TypeOK
    <3>2. pc[w] = "asleep" => now >= wakeAt[w] \/ trouble = 0
      BY <1>2, <3>1 DEF WakeIdle, Finish, RunFails, Restart
    <3>3. lastRun'[w] = lastRun[w] \/ (trouble = 0 /\ lastRun'[w] = -1 /\ trouble' = 1)
      BY <1>2, <3>1 DEF WakeIdle, Finish, RunFails, Restart, TypeInv, TypeOK
    <3>4. Remembers(w)' /\ (trouble = 0 /\ trouble' = 0 => Calm(w)')
      BY <2>1, <3>1, <3>2, <3>3, AsleepRemembers
    <3> QED BY <2>2, <2>5, <3>4
  <2> QED BY <2>3, <2>4, <2>5
(* Steps of the clock, and those that leave clock and loop alone. *)
<1>5. ASSUME UNCHANGED <<pc, wakeAt, lastRun, fired>>, NEW n \in Int, NEW m \in Int, m >= 0,
             n >= 0 \/ (n = -1 /\ trouble = 0 /\ trouble' = 1), trouble' = 0 => n = 0 /\ trouble = 0,
             offset' = offset - n * Slots, now' = now + m
      PROVE  (trouble' = 0 => Calm(v)') /\ Remembers(v)'
  <2> DEFINE a == wakeAt[v] - offset
             c == now - offset
             e == now' - offset'
  <2>1. a \in Int /\ c \in Int /\ n * Slots \in Int BY Numbers
  <2>2. wakeAt'[v] - offset' = a + n * Slots /\ e = (c + n * Slots) + m BY <1>5, <2>1, Numbers
  <2> HIDE DEF a, c, e
  <2>3. (a + n * Slots) \div Slots = a \div Slots + n BY <1>5, <2>1, MinutesLater
  <2>4. (c + n * Slots) \div Slots = c \div Slots + n BY <1>5, <2>1, MinutesLater
  <2>5. c + n * Slots \in Int /\ e \in Int /\ c + n * Slots <= e BY <1>5, <2>1, <2>2
  <2>6. e \div Slots >= c \div Slots + n /\ e \div Slots \in Int /\ c \div Slots \in Int
    <3>1. (c + n * Slots) \div Slots <= e \div Slots BY <2>5, MinuteMonotone
    <3>2. e \div Slots \in Int /\ c \div Slots \in Int BY <2>1, <2>5, Quotient
    <3> QED BY <1>5, <2>4, <3>1, <3>2
  <2>7. NextLook(v)' = NextLook(v) + n BY <2>2, <2>3 DEF a, NextLook
  <2>8. LocalMinute' \in Int /\ LocalMinute' >= LocalMinute + n BY <2>6 DEF c, e, LocalMinute
  <2>9. UNCHANGED <<pc, lastRun, fired>> BY <1>5
  <2> QED BY <1>5, <2>7, <2>8, <2>9, ClockRemembers
<1>6. CASE Tick
  <2>1. now' = now + 1 /\ UNCHANGED <<offset, pc, wakeAt, lastRun, fired>> BY <1>6 DEF Tick, loops
  <2>2. UNCHANGED trouble \/ Trouble("late") BY <1>6 DEF Tick
  <2>3. trouble' = 0 => trouble = 0 BY <1>2, <2>2
  <2>4. offset' = offset - 0 * Slots BY <2>1, Numbers
  <2> QED BY <1>5, <2>1, <2>3, <2>4
<1>7. CASE FallBack
  <2>1. offset' = offset + Slots /\ UNCHANGED <<now, pc, wakeAt, lastRun, fired>>
    BY <1>7 DEF FallBack, loops
  <2>2. trouble = 0 /\ trouble' = 1 BY <1>2, <1>7 DEF FallBack
  <2>3. offset' = offset - (-1) * Slots /\ now' = now + 0 BY <2>1, Numbers
  <2> QED BY <1>5, <2>1, <2>2, <2>3
<1>8. CASE SpringForward
  <2>1. offset' = offset - Slots /\ UNCHANGED <<now, pc, wakeAt, lastRun, fired>>
    BY <1>8 DEF SpringForward, loops
  <2>2. trouble = 0 /\ trouble' = 1 BY <1>2, <1>8 DEF SpringForward
  <2>3. offset' = offset - 1 * Slots /\ now' = now + 0 BY <2>1, Numbers
  <2> QED BY <1>5, <2>1, <2>2, <2>3
<1>9. CASE UNCHANGED vars \/ \E s \in Minute \cup {Never} : UpdateSchedule(s)
  <2>1. UNCHANGED <<now, offset, pc, wakeAt, lastRun, fired>> BY <1>9 DEF UpdateSchedule, loops, vars
  <2>2. trouble' = 0 => trouble = 0 BY <1>2, <1>9 DEF UpdateSchedule, vars
  <2>3. offset' = offset - 0 * Slots /\ now' = now + 0 BY <2>1, Numbers
  <2> QED BY <1>5, <2>1, <2>2, <2>3
<1> QED BY <1>4, <1>6, <1>7, <1>8, <1>9 DEF Next

LEMMA InitOnce == Init => OnceInv
<1> SUFFICES ASSUME Init, NEW w \in Worker PROVE Calm(w) /\ Remembers(w) BY DEF OnceInv
<1>1. TypeInv BY InitTypes
<1>2. LocalMinute \in Keys /\ Keys \subseteq Nat /\ NextLook(w) \in Int
  BY <1>1, MinutesHavePlaces, Looks, SchedulerAssumption DEF Keys
<1>3. pc[w] = "asleep" /\ lastRun[w] = -1 /\ \A k \in Keys : fired[w][k] = 0 BY DEF Init
<1>4. LocalMinute <= NextLook(w)
  <2>1. now <= wakeAt[w] BY SchedulerAssumption DEF Init
  <2> QED BY <1>1, <2>1, Looks
<1>5. lastRun[w] <= LocalMinute /\ lastRun[w] < NextLook(w) /\ lastRun[w] <= NextLook(w) BY <1>2, <1>3, <1>4
<1> QED BY <1>3, <1>5 DEF Calm, Remembers, Before

(* A worker starts at most one run for a local minute, whichever one       *)
(* mishap befalls it, the clock put back over the minute of a run included *)
(* (scheduler_loop: run_key against _last_scheduled_minute).               *)
THEOREM OneMishapFiresOnce ==
  ASSUME MaxTrouble <= 1
  PROVE  Spec => []OncePerMinute
<1>1. Init => OnceInv BY InitOnce
<1>2. TypeInv /\ TypeInv' /\ OnceInv /\ [Next]_vars => OnceInv' BY OnceStep
<1>3. OnceInv => OncePerMinute
  <2> SUFFICES ASSUME OnceInv, NEW w \in Worker, NEW k \in Keys PROVE fired[w][k] <= 1
    BY DEF OncePerMinute
  <2>1. fired[w][k] \in {0, 1} BY DEF OnceInv, Remembers
  <2> QED BY <2>1
<1> QED BY <1>1, <1>2, <1>3, TypeInvariance, PTL DEF Spec
=============================================================================

--------------------------- MODULE ScaffoldProofs ---------------------------
(***************************************************************************)
(* Proofs about the interval timer, its shared use and the scaffold around *)
(* a check: what poll reports, type correctness, the spacing of the slots  *)
(* and their number, and the statistics, for every period, expiry window   *)
(* and delay, any results of on_tick, and on an unbounded horizon.         *)
(***************************************************************************)
EXTENDS CheckScaffold, FiniteSetTheorems, TLAPS

(* A slot that is due stands, with the slots reported missed, for the whole *)
(* periods elapsed: poll counts each of them once.                          *)
LEMMA SlotsOfATick ==
  ASSUME NEW period \in Nat \ {0}, NEW elapsed \in Int, elapsed >= period
  PROVE  /\ MissedSlots(period, elapsed) \in Nat
         /\ (1 + MissedSlots(period, elapsed)) * period <= elapsed
<1> DEFINE q == elapsed \div period
<1>1. q \in Int /\ q * period <= elapsed /\ elapsed < (q + 1) * period
  OBVIOUS
<1>2. q >= 1
  <2>1. SUFFICES ASSUME q <= 0 PROVE FALSE
    BY <1>1
  <2>2. (q + 1) * period <= period
    BY <1>1, <2>1
  <2>3. QED BY <1>1, <2>2
<1>3. MissedSlots(period, elapsed) = q - 1
  BY <1>1, <1>2 DEF MissedSlots, AtLeastZero
<1>4. QED BY <1>1, <1>2, <1>3

(* The sleep computed from seconds_until_due never ends before the slot is  *)
(* due and never past it: after that delay, and not before, poll is due.    *)
THEOREM SleepEndsWhenDue ==
  ASSUME NEW t \in TimerType, NEW now \in Int, NEW later \in Int, later >= now
  PROVE  Due(t, later) <=> later >= now + SecondsUntilDue(t, now)
BY DEF TimerType, Due, SecondsUntilDue, AtLeastZero

-----------------------------------------------------------------------------
USE PeriodAssumption, ExpiryAssumption, StartDueAssumption, MaxClockAssumption, NoneAssumption

(* What poll returns is a tick.                                             *)
LEMMA PollType ==
  ASSUME NEW t \in TimerType, NEW reading \in Int
  PROVE  Poll(t, reading) \in TickType
<1> DEFINE elapsed == reading - t.last_service
<1>1. elapsed \in Int /\ t.period_s \in Nat \ {0}
  BY DEF TimerType
<1>2. MissedSlots(t.period_s, elapsed) \in Nat
  <2>1. CASE elapsed >= t.period_s
    BY <1>1, <2>1, SlotsOfATick
  <2>2. CASE ~(elapsed >= t.period_s)
    BY <2>2 DEF MissedSlots
  <2>3. QED BY <2>1, <2>2
<1>3. Due(t, reading) \in BOOLEAN /\ Expired(t, reading) \in BOOLEAN
  BY DEF Due, Expired
<1>4. (IF Due(t, reading) THEN AtLeastZero(elapsed - t.period_s) ELSE 0) \in Nat
  BY <1>1 DEF AtLeastZero
<1>5. (IF t.expiry_s = None THEN None ELSE reading - t.last_refresh) \in Int \cup {None}
  BY DEF TimerType
<1>6. QED BY <1>1, <1>2, <1>3, <1>4, <1>5 DEF Poll, TickType

(* Slots granted at construction.                                           *)
Grant == IF StartDue THEN Period ELSE 0

(* The inductive invariant.  The cadence anchor never follows the clock,    *)
(* nor precedes the last due tick once that is acknowledged, and what the owner may acknowledge with the  *)
(* tick it holds is already accounted for, whatever the watcher does to the *)
(* timer before it is acknowledged, and also when a tick that is not due is *)
(* acknowledged because on_tick raised.                                     *)
TimerInv ==
  /\ TypeOK
  /\ timer.period_s = Period
  /\ timer.last_service <= clock
  /\ lastRun # None /\ (tick = None \/ ~tick.due) => lastRun <= timer.last_service
  /\ slots * Period <= timer.last_service + Grant
  /\ tick # None =>
       /\ tick.now <= clock
       /\ lastRun # None => lastRun <= tick.now
       /\ slots * Period <= tick.now + Grant
       /\ ~tick.due => tick.missed_slots = 0
       /\ tick.due => lastRun = tick.now
       /\ tick.due => (slots + 1 + tick.missed_slots) * Period <= tick.now + Grant

LEMMA TimerInvInit == Init => TimerInv
<1> SUFFICES ASSUME Init PROVE TimerInv
  OBVIOUS
<1>1. timer \in TimerType /\ timer.period_s = Period
  BY DEF Init, NewTimer, TimerType
<1>2. timer.last_service = 0 - Grant
  BY DEF Init, NewTimer, Grant
<1>3. Grant \in Nat
  BY DEF Grant
<1>4. QED BY <1>1, <1>2, <1>3 DEF Init, TimerInv, TypeOK

LEMMA TimerInvPoll == TimerInv /\ PollTimer => TimerInv'
<1> SUFFICES ASSUME TimerInv, PollTimer PROVE TimerInv'
  OBVIOUS
<1> DEFINE elapsed == clock - timer.last_service
<1>0. Grant \in Nat /\ elapsed \in Int /\ clock \in Nat /\ slots \in Nat /\ timer.last_service \in Int
  BY DEF Grant, TimerInv, TypeOK, TimerType
<1>1. tick' \in TickType
  BY PollType DEF TimerInv, TypeOK, PollTimer
<1>2. tick'.now = clock /\ (tick'.due <=> elapsed >= Period)
  BY DEF TimerInv, PollTimer, Poll, Due
<1>3. tick'.missed_slots = MissedSlots(Period, elapsed)
  BY DEF TimerInv, PollTimer, Poll
<1>4. /\ tick = None /\ lastRun' \in Int \cup {None}
      /\ tick'.due => lastRun' = clock
      /\ ~tick'.due => lastRun' = lastRun
  BY <1>0 DEF PollTimer, TimerInv, TypeOK
<1>5. ASSUME tick'.due
      PROVE  (slots + 1 + tick'.missed_slots) * Period <= clock + Grant
  <2>1. /\ tick'.missed_slots \in Nat
        /\ (1 + tick'.missed_slots) * Period <= elapsed
    BY <1>0, <1>2, <1>3, <1>5, SlotsOfATick
  <2>2. (slots + 1 + tick'.missed_slots) * Period
          = slots * Period + (1 + tick'.missed_slots) * Period
    BY <1>0, <2>1
  <2>3. slots * Period \in Int /\ (1 + tick'.missed_slots) * Period \in Int
    BY <1>0, <2>1
  <2>4. QED BY <1>0, <2>1, <2>2, <2>3 DEF TimerInv
<1>6. /\ lastRun' # None => lastRun' <= clock
      /\ lastRun' # None /\ ~tick'.due => lastRun' <= timer.last_service
      /\ slots * Period <= clock + Grant
  <2>1. slots * Period \in Int
    BY <1>0
  <2>2. QED BY <1>0, <1>4, <2>1 DEF TimerInv, TypeOK
<1>7. ~tick'.due => tick'.missed_slots = 0
  BY <1>0, <1>2, <1>3 DEF MissedSlots
<1>8. UNCHANGED <<clock, timer, slots>>
  BY DEF PollTimer
<1>9. TypeOK'
  BY <1>1, <1>4, <1>8 DEF TimerInv, TypeOK
<1>10. tick'.due => lastRun' = tick'.now
  BY <1>2, <1>4
<1>11. tick' # None
  BY <1>1, NoTickAssumption
<1>12. lastRun' # None /\ (tick' = None \/ ~tick'.due) => lastRun' <= timer'.last_service
  BY <1>6, <1>8, <1>11
<1>13. /\ timer'.period_s = Period /\ timer'.last_service <= clock'
       /\ slots' * Period <= timer'.last_service + Grant
  BY <1>8 DEF TimerInv
<1>14. tick'.now <= clock'
  BY <1>0, <1>2, <1>8
<1>15. lastRun' # None => lastRun' <= tick'.now
  BY <1>2, <1>6
<1>16. slots' * Period <= tick'.now + Grant
  BY <1>2, <1>6, <1>8
<1>17. tick'.due => (slots' + 1 + tick'.missed_slots) * Period <= tick'.now + Grant
  BY <1>2, <1>5, <1>8
<1>18. Grant' = Grant
  BY DEF Grant
<1>19. QED BY <1>7, <1>9, <1>10, <1>12, <1>13, <1>14, <1>15, <1>16, <1>17, <1>18 DEF TimerInv

LEMMA TimerInvAcknowledge == TimerInv /\ Acknowledge => TimerInv'
<1> SUFFICES ASSUME TimerInv, Acknowledge PROVE TimerInv'
  OBVIOUS
<1>1. tick \in TickType /\ tick # None /\ tick.due
  BY DEF TimerInv, TypeOK, Acknowledge
<1>2. tick.now \in Int /\ tick.missed_slots \in Nat
  BY <1>1 DEF TickType
<1>3. /\ timer' \in TimerType
      /\ timer'.period_s = Period
      /\ timer'.last_service = tick.now
  BY <1>2 DEF TimerInv, TypeOK, TimerType, Acknowledge, MarkServiced
<1>4. slots' \in Nat /\ slots' = slots + 1 + tick.missed_slots
  BY <1>2 DEF TimerInv, TypeOK, Acknowledge
<1>5. QED BY <1>1, <1>2, <1>3, <1>4 DEF TimerInv, TypeOK, Acknowledge

(* reset() moves the anchor to the clock, which is not before it.           *)
LEMMA TimerInvWatcher == TimerInv /\ (RefreshTimer \/ ResetTimer) => TimerInv'
<1> SUFFICES ASSUME TimerInv, RefreshTimer \/ ResetTimer PROVE TimerInv'
  OBVIOUS
<1>1. /\ timer' \in TimerType
      /\ timer'.period_s = Period
      /\ timer'.last_service \in {timer.last_service, clock}
  <2>1. CASE RefreshTimer
    BY <2>1 DEF TimerInv, TypeOK, TimerType, RefreshTimer, Refresh
  <2>2. CASE ResetTimer
    <3> DEFINE anchored == [timer EXCEPT !.last_service = clock]
    <3>1. /\ anchored \in TimerType
          /\ anchored.period_s = Period
          /\ anchored.last_service = clock
      BY DEF TimerInv, TypeOK, TimerType
    <3>2. timer' = [anchored EXCEPT !.last_refresh = clock]
      BY <2>2 DEF ResetTimer, Reset
    <3> HIDE DEF anchored
    <3>3. QED BY <3>1, <3>2 DEF TimerInv, TypeOK, TimerType
  <2>3. QED BY <2>1, <2>2
<1>2. timer.last_service \in Int /\ slots * Period \in Int /\ Grant \in Nat
  BY DEF TimerInv, TypeOK, TimerType, Grant
<1>3. UNCHANGED <<clock, tick, lastRun, slots>>
  BY DEF RefreshTimer, ResetTimer
<1>4. QED BY <1>1, <1>2, <1>3 DEF TimerInv, TypeOK

LEMMA TimerInvNext == TimerInv /\ [Next]_vars => TimerInv'
<1> SUFFICES ASSUME TimerInv, [Next]_vars PROVE TimerInv'
  OBVIOUS
<1>1. CASE Advance
  <2>1. tick # None => tick.now \in Int
    BY DEF TimerInv, TypeOK, TickType
  <2>2. timer.last_service \in Int
    BY DEF TimerInv, TypeOK, TimerType
  <2>3. QED BY <1>1, <2>1, <2>2 DEF Advance, TimerInv, TypeOK
<1>2. CASE SkipTick
  BY <1>2 DEF SkipTick, TimerInv, TypeOK
<1>3. CASE UNCHANGED vars
  BY <1>3 DEF vars, TimerInv, TypeOK
<1>4. QED BY <1>1, <1>2, <1>3, TimerInvPoll, TimerInvAcknowledge, TimerInvWatcher DEF Next

LEMMA TimerInvHolds == Spec => []TimerInv
<1>1. QED BY TimerInvInit, TimerInvNext, PTL DEF Spec

(* Type correctness; in particular poll never reports a negative number of  *)
(* missed slots.                                                            *)
THEOREM TimerTypeCorrect == Spec => []TypeOK
<1>1. TimerInv => TypeOK
  BY DEF TimerInv
<1>2. QED BY <1>1, TimerInvHolds, PTL

LEMMA TimerInvSpacing ==
  ASSUME TimerInv, Next, tick = None, tick' # None, tick'.due, lastRun # None
  PROVE  tick'.now - lastRun >= Period
<1>1. PollTimer
  BY DEF Next, Advance, SkipTick, Acknowledge, RefreshTimer, ResetTimer
<1>2. tick'.now = clock /\ (tick'.due <=> clock - timer.last_service >= Period)
  BY <1>1 DEF TimerInv, PollTimer, Poll, Due
<1>3. lastRun <= timer.last_service /\ lastRun \in Int /\ clock \in Int /\ timer.last_service \in Int
  BY DEF TimerInv, TypeOK, TimerType
<1>4. QED BY <1>2, <1>3

LEMMA TimerInvSlots == TimerInv => SlotsFitElapsedTime
<1> SUFFICES ASSUME TimerInv PROVE SlotsFitElapsedTime
  OBVIOUS
<1>1. slots * Period \in Int /\ timer.last_service \in Int /\ clock \in Nat /\ Grant \in Nat
  BY DEF TimerInv, TypeOK, TimerType, Grant
<1>2. QED BY <1>1 DEF TimerInv, SlotsFitElapsedTime, Grant

(* No backlog of catch-up runs: two due ticks are a period apart, for every *)
(* delay between poll and mark_serviced.                                    *)
THEOREM CadenceSpacingHolds == Spec => CadenceSpacing
<1>1. TimerInv /\ [Next]_vars
        => [tick = None /\ tick' # None /\ tick'.due /\ lastRun # None
              => tick'.now - lastRun >= Period]_vars
  BY TimerInvSpacing DEF vars
<1>2. QED BY <1>1, TimerInvHolds, PTL DEF Spec, CadenceSpacing

(* Slots run and slots reported missed never exceed the periods elapsed.    *)
THEOREM SlotsFitElapsedTimeHolds == Spec => []SlotsFitElapsedTime
<1>1. QED BY TimerInvSlots, TimerInvHolds, PTL

-----------------------------------------------------------------------------
(* The scaffold uses the timer as its owner does, but for one step: it also *)
(* acknowledges a tick that was not due when on_tick raised.                *)

RaiseNotDue ==
  /\ tick # None
  /\ ~tick.due
  /\ timer' = MarkServiced(timer, tick.now)
  /\ tick' = None
  /\ UNCHANGED <<clock, lastRun, slots>>

LEMMA TimerInvRaise == TimerInv /\ RaiseNotDue => TimerInv'
<1> SUFFICES ASSUME TimerInv, RaiseNotDue PROVE TimerInv'
  OBVIOUS
<1>1. tick \in TickType /\ tick.now \in Int
  BY DEF TimerInv, TypeOK, RaiseNotDue, TickType
<1>2. /\ timer' \in TimerType
      /\ timer'.period_s = Period
      /\ timer'.last_service = tick.now
  BY <1>1 DEF TimerInv, TypeOK, TimerType, RaiseNotDue, MarkServiced
<1>3. QED BY <1>1, <1>2 DEF TimerInv, TypeOK, RaiseNotDue

LEMMA TimerStep ==
  ASSUME [ScaffoldNext]_scaffoldVars
  PROVE  [Next]_vars \/ RaiseNotDue
BY DEF ScaffoldNext, ServiceBegins, ServiceReturns, RecordResult, ServiceRaises,
       RaiseNotDue, Next, scaffoldVars

LEMMA ScaffoldTimerInv == ScaffoldSpec => []TimerInv
<1>1. ScaffoldInit => TimerInv
  BY TimerInvInit DEF ScaffoldInit
<1>2. TimerInv /\ [ScaffoldNext]_scaffoldVars => TimerInv'
  BY TimerStep, TimerInvNext, TimerInvRaise
<1>3. QED BY <1>1, <1>2, PTL DEF ScaffoldSpec

(* What holds of the timer holds of a check's timer as service() uses it,   *)
(* exceptions included: a slot is granted at most once a period and counted *)
(* once, as run or as missed.                                               *)
THEOREM ScaffoldKeepsCadence ==
  ScaffoldSpec => []TypeOK /\ []SlotsFitElapsedTime /\ CadenceSpacing
<1>1. TimerInv => TypeOK /\ SlotsFitElapsedTime
  BY TimerInvSlots DEF TimerInv
<1>2. TimerInv /\ [ScaffoldNext]_scaffoldVars
        => [tick = None /\ tick' # None /\ tick'.due /\ lastRun # None
              => tick'.now - lastRun >= Period]_vars
  <2> SUFFICES ASSUME TimerInv, [ScaffoldNext]_scaffoldVars,
                      tick = None, tick' # None, tick'.due, lastRun # None
               PROVE  tick'.now - lastRun >= Period
    BY DEF vars
  <2>1. Next
    BY TimerStep DEF RaiseNotDue, vars
  <2>2. QED BY <2>1, TimerInvSpacing
<1>3. QED BY <1>1, <1>2, ScaffoldTimerInv, PTL DEF ScaffoldSpec, CadenceSpacing

-----------------------------------------------------------------------------
(* The statistics.  Each counter is the number of the results published     *)
(* that it counts, and slots skipped are slots that Acknowledge counted;    *)
(* a tick that is not due misses none.                                      *)

ResultType == [state : States, monotonic_ts : Int]

OfState(q, state) == {n \in DOMAIN q : q[n] = state}

StatsType ==
  [ runs : Nat, faults : Nat, degraded : Nat, skipped_slots : Nat,
    last_state : States \cup {None}, last_run_monotonic : Int \cup {None} ]

StatsInv ==
  /\ stats \in StatsType
  /\ results \in Seq(ResultType)
  /\ returned \in Seq(States)
  /\ stats.runs = Len(returned)
  /\ stats.faults = Cardinality(OfState(returned, "FAULT"))
  /\ stats.degraded = Cardinality(OfState(returned, "DEGRADED"))
  /\ stats.last_state = IF returned = << >> THEN None ELSE returned[Len(returned)]
  /\ stats.skipped_slots <= slots

LEMMA SeverityLadder ==
  /\ States = {"OK", "DEGRADED", "FAULT", "UNKNOWN"}
  /\ \A s \in States : Severity[s] = 0 <=> s = "OK"
BY DEF States, Severity

LEMMA ListOps ==
  ASSUME NEW S
  PROVE  /\ << >> \in Seq(S)
         /\ \A q \in Seq(S) : q # << >> => Head(q) \in S /\ Tail(q) \in Seq(S)
         /\ \A n \in Nat : \A q \in [1 .. n -> S] : q \in Seq(S)
OBVIOUS

(* One more result of a state is one more position that holds it.           *)
LEMMA CountAppended ==
  ASSUME NEW q \in Seq(States), NEW e \in States, NEW state
  PROVE  /\ Append(q, e) \in Seq(States)
         /\ Len(Append(q, e)) = Len(q) + 1 /\ Append(q, e)[Len(q) + 1] = e
         /\ Cardinality(OfState(q, state)) \in Nat
         /\ Cardinality(OfState(Append(q, e), state)) =
              Cardinality(OfState(q, state)) + IF e = state THEN 1 ELSE 0
<1> DEFINE n == Len(q) + 1
<1>1. /\ Append(q, e) \in Seq(States) /\ Len(Append(q, e)) = n /\ Append(q, e)[n] = e
      /\ DOMAIN Append(q, e) = DOMAIN q \cup {n} /\ n \notin DOMAIN q
      /\ \A i \in DOMAIN q : Append(q, e)[i] = q[i]
      /\ Len(q) \in Nat /\ DOMAIN q = 1 .. Len(q)
  OBVIOUS
<1> HIDE DEF n
<1>2. IsFiniteSet(OfState(q, state)) /\ n \notin OfState(q, state)
  <2>1. IsFiniteSet(DOMAIN q)
    BY <1>1, FS_Interval
  <2>2. OfState(q, state) \in SUBSET DOMAIN q
    BY DEF OfState
  <2>3. QED BY <1>1, <2>1, <2>2, FS_Subset
<1>3. Cardinality(OfState(q, state)) \in Nat
  BY <1>2, FS_CardinalityType
<1>4. OfState(Append(q, e), state) =
        IF e = state THEN OfState(q, state) \cup {n} ELSE OfState(q, state)
  BY <1>1 DEF OfState
<1>5. Cardinality(OfState(q, state) \cup {n}) = Cardinality(OfState(q, state)) + 1
  BY <1>2, FS_AddElement
<1>6. Cardinality(OfState(Append(q, e), state)) =
        Cardinality(OfState(q, state)) + IF e = state THEN 1 ELSE 0
  BY <1>3, <1>4, <1>5
<1>7. QED BY <1>1, <1>3, <1>6 DEF n

(* CheckStats.record.                                                       *)
LEMMA RecordedStats ==
  ASSUME NEW s \in StatsType, NEW r \in ResultType
  PROVE  /\ Record(s, r) \in StatsType
         /\ Record(s, r).runs = s.runs + 1
         /\ Record(s, r).faults = s.faults + IF r.state = "FAULT" THEN 1 ELSE 0
         /\ Record(s, r).degraded = s.degraded + IF r.state = "DEGRADED" THEN 1 ELSE 0
         /\ Record(s, r).last_state = r.state
         /\ Record(s, r).skipped_slots = s.skipped_slots
<1>1. /\ "faults" \in CountersOf(r.state) <=> r.state = "FAULT"
      /\ "degraded" \in CountersOf(r.state) <=> r.state = "DEGRADED"
  BY DEF CountersOf
<1>2. PICK f \in Nat, d \in Nat :
        /\ f = s.faults + IF r.state = "FAULT" THEN 1 ELSE 0
        /\ d = s.degraded + IF r.state = "DEGRADED" THEN 1 ELSE 0
  BY DEF StatsType
<1>3. Record(s, r) = [ s EXCEPT !.runs = @ + 1, !.last_state = r.state,
                                !.last_run_monotonic = r.monotonic_ts,
                                !.faults = f, !.degraded = d ]
  BY <1>1, <1>2 DEF Record
<1>4. Record(s, r) = [ runs |-> s.runs + 1, faults |-> f, degraded |-> d,
                       skipped_slots |-> s.skipped_slots, last_state |-> r.state,
                       last_run_monotonic |-> r.monotonic_ts ]
  BY <1>3 DEF StatsType
<1>5. QED BY <1>2, <1>4 DEF StatsType, ResultType

LEMMA StatsInit == ScaffoldInit => StatsInv
<1> SUFFICES ASSUME ScaffoldInit PROVE StatsInv
  OBVIOUS
<1>1. stats = NewStats /\ results = << >> /\ returned = << >> /\ slots = 0
  BY DEF ScaffoldInit, Init
<1>2. /\ OfState(returned, "FAULT") = {} /\ OfState(returned, "DEGRADED") = {}
  BY <1>1 DEF OfState
<1>3. Cardinality({}) = 0
  BY FS_EmptySet
<1>4. NewStats \in StatsType
  BY DEF NewStats, StatsType
<1>5. results \in Seq(ResultType) /\ returned \in Seq(States) /\ Len(returned) = 0
  BY <1>1, ListOps
<1>6. /\ stats.runs = 0 /\ stats.faults = 0 /\ stats.degraded = 0
      /\ stats.last_state = None /\ stats.skipped_slots = 0
  BY <1>1 DEF NewStats
<1>7. /\ stats.faults = Cardinality(OfState(returned, "FAULT"))
      /\ stats.degraded = Cardinality(OfState(returned, "DEGRADED"))
  BY <1>2, <1>3, <1>6
<1>8. /\ stats \in StatsType
      /\ stats.last_state = IF returned = << >> THEN None ELSE returned[Len(returned)]
  BY <1>1, <1>4, <1>6, Zenon
<1>9. stats.runs = Len(returned) /\ stats.skipped_slots <= slots
  <2>1. slots = 0
    BY <1>1
  <2>2. QED BY <2>1, <1>5, <1>6
<1>10. QED BY <1>5, <1>7, <1>8, <1>9, Zenon DEF StatsInv

LEMMA StatsNext == TimerInv /\ StatsInv /\ [ScaffoldNext]_scaffoldVars => StatsInv'
<1> SUFFICES ASSUME TimerInv, StatsInv, [ScaffoldNext]_scaffoldVars PROVE StatsInv'
  OBVIOUS
<1>0. stats \in StatsType /\ slots \in Nat /\ stats.skipped_slots \in Nat
  BY DEF StatsInv, TimerInv, TypeOK, StatsType
<1>1. CASE UNCHANGED <<stats, results, returned>>
  <2>1. slots' \in Nat /\ slots <= slots'
    <3>1. CASE Acknowledge
      <4>1. tick.missed_slots \in Nat
        BY <3>1 DEF Acknowledge, TimerInv, TypeOK, TickType
      <4>2. QED BY <1>0, <3>1, <4>1 DEF Acknowledge
    <3>2. CASE ~Acknowledge
      BY <1>0, <3>2 DEF ScaffoldNext, ServiceBegins, ServiceReturns, RecordResult, ServiceRaises,
                        PollTimer, Advance, RefreshTimer, ResetTimer, SkipTick, vars, scaffoldVars
    <3>3. QED BY <3>1, <3>2
  <2>2. QED BY <1>0, <1>1, <2>1 DEF StatsInv
<1>2. CASE ServiceReturns
  <2>1. PICK list \in DueResults \cup OtherResults :
          /\ results' = [n \in DOMAIN list |-> [state |-> list[n], monotonic_ts |-> tick.now]]
          /\ stats' = IF list = << >> THEN RecordNone(stats, tick.missed_slots) ELSE stats
    BY <1>2 DEF ServiceReturns
  <2>2. tick.missed_slots \in Nat /\ tick.now \in Int /\ returned' = returned
    BY <1>2 DEF ServiceReturns, Acknowledge, SkipTick, TimerInv, TypeOK, TickType
  <2>3. list \in Seq(States)
    BY <2>1, ResultsAssumption
  <2>4. results' \in Seq(ResultType)
    <3>1. \A n \in DOMAIN list : [state |-> list[n], monotonic_ts |-> tick.now]
                                   \in ResultType
      BY <2>2, <2>3 DEF ResultType
    <3>2. DOMAIN list = 1 .. Len(list) /\ Len(list) \in Nat
      BY <2>3
    <3>3. results' \in [1 .. Len(list) -> ResultType]
      BY <2>1, <3>1, <3>2
    <3>4. QED BY <3>2, <3>3, ListOps
  <2>5. slots' \in Nat /\ slots + tick.missed_slots <= slots'
    <3>1. CASE Acknowledge
      BY <1>0, <2>2, <3>1 DEF Acknowledge
    <3>2. CASE SkipTick
      BY <1>0, <2>2, <3>2 DEF SkipTick, TimerInv
    <3>3. QED BY <1>2, <3>1, <3>2 DEF ServiceReturns
  <2>6. /\ stats' \in StatsType
        /\ stats'.runs = stats.runs /\ stats'.faults = stats.faults
        /\ stats'.degraded = stats.degraded /\ stats'.last_state = stats.last_state
        /\ stats'.skipped_slots \in {stats.skipped_slots, stats.skipped_slots + tick.missed_slots}
    BY <1>0, <2>1, <2>2 DEF RecordNone, StatsType
  <2>7. stats'.skipped_slots <= slots'
    BY <1>0, <2>2, <2>5, <2>6 DEF StatsInv
  <2>8. QED BY <2>2, <2>4, <2>6, <2>7 DEF StatsInv
<1>3. CASE RecordResult
  <2>1. PICK r \in ResultType :
          r = Head(results) /\ results' \in Seq(ResultType)
    BY <1>3, ListOps DEF RecordResult, StatsInv
  <2>2. /\ stats' = Record(stats, r) /\ returned' = Append(returned, r.state) /\ slots' = slots
    BY <1>3, <2>1 DEF RecordResult, vars
  <2>3. r.state \in States /\ returned \in Seq(States) /\ Len(returned) \in Nat
    BY <2>1 DEF StatsInv, ResultType
  <2>4. /\ returned' \in Seq(States) /\ Len(returned') = Len(returned) + 1
        /\ returned'[Len(returned) + 1] = r.state
        /\ Cardinality(OfState(returned', "FAULT")) =
             Cardinality(OfState(returned, "FAULT")) + IF r.state = "FAULT" THEN 1 ELSE 0
        /\ Cardinality(OfState(returned', "DEGRADED")) =
             Cardinality(OfState(returned, "DEGRADED")) + IF r.state = "DEGRADED" THEN 1 ELSE 0
    BY <2>2, <2>3, CountAppended
  <2>5. returned' # << >>
    BY <2>3, <2>4
  <2>6. /\ stats' \in StatsType /\ stats'.runs = stats.runs + 1
        /\ stats'.faults = stats.faults + IF r.state = "FAULT" THEN 1 ELSE 0
        /\ stats'.degraded = stats.degraded + IF r.state = "DEGRADED" THEN 1 ELSE 0
        /\ stats'.last_state = r.state /\ stats'.skipped_slots = stats.skipped_slots
    BY <1>0, <2>1, <2>2, RecordedStats
  <2>7. /\ stats'.runs = Len(returned')
        /\ stats'.faults = Cardinality(OfState(returned', "FAULT"))
        /\ stats'.degraded = Cardinality(OfState(returned', "DEGRADED"))
    BY <2>4, <2>6 DEF StatsInv
  <2>8. stats'.last_state = returned'[Len(returned')] /\ stats'.skipped_slots <= slots'
    BY <2>2, <2>4, <2>6 DEF StatsInv
  <2>9. OfState(returned, "FAULT")' = OfState(returned', "FAULT")
        /\ OfState(returned, "DEGRADED")' = OfState(returned', "DEGRADED")
    BY DEF OfState
  <2>10. QED BY <2>1, <2>4, <2>5, <2>6, <2>7, <2>8, <2>9 DEF StatsInv
<1>4. QED BY <1>1, <1>2, <1>3 DEF ScaffoldNext, ServiceBegins, ServiceRaises, scaffoldVars

(* The status that a check reports at the shutdown counts its results, for  *)
(* any lists that on_tick returns and however many.                         *)
THEOREM StatusAgreesHolds == ScaffoldSpec => []StatusAgrees
<1>1. StatsInv => StatusAgrees
  <2> SUFFICES ASSUME StatsInv PROVE StatusAgrees
    OBVIOUS
  <2> DEFINE shown == IF stats.last_state = None \/ Severity[stats.last_state] = 0
                      THEN None ELSE stats.last_state
             last == IF returned = << >> THEN "OK" ELSE returned[Len(returned)]
  <2>1. Payload = [stats EXCEPT !.last_state = shown]
    BY DEF Payload, StatsInv, StatsType
  <2>2. /\ Payload.runs = stats.runs /\ Payload.faults = stats.faults
        /\ Payload.degraded = stats.degraded /\ Payload.skipped_slots = stats.skipped_slots
        /\ Payload.last_state = shown
    BY <2>1 DEF StatsInv, StatsType
  <2>3. shown = IF last = "OK" THEN None ELSE last
    <3>1. CASE returned = << >>
      BY <3>1 DEF StatsInv
    <3>2. CASE returned # << >>
      <4>1. stats.last_state = last /\ last \in States
        BY <3>2 DEF StatsInv
      <4>2. QED BY <4>1, SeverityLadder
    <3>3. QED BY <3>1, <3>2
  <2>4. QED BY <2>2, <2>3 DEF StatsInv, StatusAgrees, OfState
<1>2. QED BY <1>1, StatsInit, StatsNext, ScaffoldTimerInv, PTL DEF ScaffoldSpec
=============================================================================

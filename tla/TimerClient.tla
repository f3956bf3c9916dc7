---------------------------- MODULE TimerClient ----------------------------
(***************************************************************************)
(* One IntervalTimer as its interface allows it to be used: its owner      *)
(* polls and later acknowledges the slot with the `now' of the tick it was *)
(* handed (checks/base.py and the checks), and a watcher on another thread *)
(* refreshes or resets the timer between any two steps of the owner.  Time *)
(* passes between a poll and its acknowledgement, so the acknowledged      *)
(* instant is stale by the time it is written.                             *)
(*                                                                         *)
(* This is more than the program does.  Its cadence timers are touched by  *)
(* the control loop alone, only the timers of peers are refreshed from     *)
(* another thread (HeartbeatCheck), and reset() has no caller outside the  *)
(* tests.  What holds here holds for any such caller too.                  *)
(***************************************************************************)
EXTENDS IntervalTimer

CONSTANTS
  Period,      \* period_s
  Expiry,      \* expiry_s, or None
  StartDue,    \* start_due
  MaxClock     \* bound: the clock stops here

ASSUME PeriodAssumption == Period \in Nat \ {0}
ASSUME ExpiryAssumption == Expiry \in (Nat \ {0}) \cup {None}
ASSUME StartDueAssumption == StartDue \in BOOLEAN
ASSUME MaxClockAssumption == MaxClock \in Nat

VARIABLES
  clock,       \* the monotonic clock
  timer,       \* the IntervalTimer
  tick,        \* the tick the owner holds and has not consumed, or None
  (* history *)
  lastRun,     \* instant of the last tick that was due, or None
  slots        \* slots acknowledged plus slots reported missed

vars == <<clock, timer, tick, lastRun, slots>>

Init ==
  /\ clock = 0
  /\ timer = NewTimer(Period, Expiry, 0, StartDue)
  /\ tick = None
  /\ lastRun = None
  /\ slots = 0

Advance ==
  /\ clock < MaxClock
  /\ clock' = clock + 1
  /\ UNCHANGED <<timer, tick, lastRun, slots>>

(* poll(): the owner takes a snapshot at the current clock reading.         *)
PollTimer ==
  /\ tick = None
  /\ tick' = Poll(timer, clock)
  /\ lastRun' = IF tick'.due THEN clock ELSE lastRun
  /\ UNCHANGED <<clock, timer, slots>>

(* A tick that is not due is dropped without touching the timer.            *)
SkipTick ==
  /\ tick # None
  /\ ~tick.due
  /\ tick' = None
  /\ UNCHANGED <<clock, timer, lastRun, slots>>

(* mark_serviced(tick.now) for a slot that was due.                         *)
Acknowledge ==
  /\ tick # None
  /\ tick.due
  /\ timer' = MarkServiced(timer, tick.now)
  /\ tick' = None
  /\ slots' = slots + 1 + tick.missed_slots
  /\ UNCHANGED <<clock, lastRun>>

(* refresh() by the watcher.                                                *)
RefreshTimer ==
  /\ timer' = Refresh(timer, clock)
  /\ UNCHANGED <<clock, tick, lastRun, slots>>

(* reset() by the watcher.                                                  *)
ResetTimer ==
  /\ timer' = Reset(timer, clock)
  /\ UNCHANGED <<clock, tick, lastRun, slots>>

Next ==
  \/ Advance
  \/ PollTimer
  \/ SkipTick
  \/ Acknowledge
  \/ RefreshTimer
  \/ ResetTimer

Spec == Init /\ [][Next]_vars

-----------------------------------------------------------------------------

TypeOK ==
  /\ clock \in Nat
  /\ timer \in TimerType
  /\ tick \in TickType \cup {None}
  /\ lastRun \in Int \cup {None}
  /\ slots \in Nat

(* Two ticks that are due are at least one period apart on the clock,       *)
(* whatever the delay between a poll and its acknowledgement, whether the   *)
(* check returns or raises, and whatever resets land in between: every slot *)
(* is acknowledged, with the tick's own instant, so that a slow or failing  *)
(* check never accumulates catch-up runs (mark_serviced, service).          *)
CadenceSpacing ==
  [][tick = None /\ tick' # None /\ tick'.due /\ lastRun # None
       => tick'.now - lastRun >= Period]_vars

(* Slots are never counted twice: the slots acknowledged and the slots      *)
(* reported as missed_slots together fit into the time that has passed,     *)
(* plus the one that start_due grants at construction.                      *)
SlotsFitElapsedTime ==
  slots * Period <= clock + (IF StartDue THEN Period ELSE 0)
=============================================================================

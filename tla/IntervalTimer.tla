--------------------------- MODULE IntervalTimer ---------------------------
(***************************************************************************)
(* The shared interval timer, common/interval_timer.py, as operators on    *)
(* timer records.  Every method of the class holds the timer's lock for    *)
(* its whole body, the clock read included, so a method is one operator    *)
(* application inside one atomic step of its caller; `reading' is the      *)
(* clock value read under the lock, or the `now' the caller passes.        *)
(*                                                                         *)
(* Time is an integer number of clock units.  None is Python's None.       *)
(***************************************************************************)
EXTENDS Integers

CONSTANT None

ASSUME NoneAssumption == None \notin Int

TimerType ==
  [ period_s     : Nat \ {0},
    expiry_s     : (Nat \ {0}) \cup {None},
    last_service : Int,
    last_refresh : Int ]

TickType ==
  [ now                   : Int,
    due                   : BOOLEAN,
    elapsed_since_service : Int,
    overdue_by            : Nat,
    missed_slots          : Nat,
    expiry_enabled        : BOOLEAN,
    expired               : BOOLEAN,
    time_since_refresh    : Int \cup {None} ]

ASSUME NoTickAssumption == None \notin TickType

AtLeastZero(x) == IF x > 0 THEN x ELSE 0

-----------------------------------------------------------------------------

(* The constructor; start_due backdates the cadence anchor by one period.   *)
NewTimer(period, expiry, now, start_due) ==
  [ period_s     |-> period,
    expiry_s     |-> expiry,
    last_service |-> IF start_due THEN now - period ELSE now,
    last_refresh |-> now ]

(* Mutant: the slot being serviced is itself counted as missed.             *)
MissedCountsCurrentSlot(period, elapsed) ==
  IF elapsed >= period THEN elapsed \div period ELSE 0

(* Mutant: the count is taken before the slot is due.                       *)
MissedNotGatedByDue(period, elapsed) == (elapsed \div period) - 1

(* Whole periods past the slot that is due now.                             *)
MissedSlots(period, elapsed) ==
  IF elapsed >= period THEN AtLeastZero((elapsed \div period) - 1) ELSE 0

(* Mutant: a gap equal to the window already counts as expiry.              *)
ExpiredAtTheBoundary(t, reading) ==
  /\ t.expiry_s # None
  /\ reading - t.last_refresh >= t.expiry_s

(* Mutant: one cadence period of grace is added to the window.              *)
ExpiredWithGrace(t, reading) ==
  /\ t.expiry_s # None
  /\ reading - t.last_refresh > t.expiry_s + t.period_s

(* A gap equal to the window is not yet expired.                            *)
Expired(t, reading) ==
  /\ t.expiry_s # None
  /\ reading - t.last_refresh > t.expiry_s

Due(t, reading) == reading - t.last_service >= t.period_s

(* poll: a snapshot, which changes nothing.                                 *)
Poll(t, reading) ==
  LET elapsed == reading - t.last_service
      due     == Due(t, reading)
  IN  [ now                   |-> reading,
        due                   |-> due,
        elapsed_since_service |-> elapsed,
        overdue_by            |-> IF due THEN AtLeastZero(elapsed - t.period_s) ELSE 0,
        missed_slots          |-> MissedSlots(t.period_s, elapsed),
        expiry_enabled        |-> t.expiry_s # None,
        expired               |-> Expired(t, reading),
        time_since_refresh    |-> IF t.expiry_s = None THEN None
                                  ELSE reading - t.last_refresh ]

MarkServiced(t, reading) == [t EXCEPT !.last_service = reading]

Refresh(t, reading) == [t EXCEPT !.last_refresh = reading]

Reset(t, reading) ==
  [t EXCEPT !.last_service = reading, !.last_refresh = reading]

SecondsUntilDue(t, reading) ==
  AtLeastZero(t.period_s - (reading - t.last_service))
=============================================================================

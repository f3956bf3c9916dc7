--------------------------- MODULE CheckScaffold ---------------------------
(***************************************************************************)
(* checks/base.py and common/types.py: PeriodicCheck.service() around any  *)
(* check's on_tick, and the statistics that publish_status reports at the  *)
(* shutdown.  The check's timer, its clock and the thread that refreshes   *)
(* or resets it are those of TimerClient.                                  *)
(*                                                                         *)
(* on_tick takes any time, and either returns one of the lists of states   *)
(* that a check can return, having acknowledged a slot that was due, or    *)
(* raises.  Subjects, texts and metrics are left out, and so is            *)
(* _last_published, which decides a log record and nothing else.           *)
(***************************************************************************)
EXTENDS TimerClient, Sequences, FiniteSets

CONSTANTS
  DueResults,   \* the lists of states on_tick may return for a due tick
  OtherResults, \* and for a tick that is not due
  MaxResults    \* bound: results recorded

(* The severity ladder of HealthState, in order.                            *)
Severity == [OK |-> 0, DEGRADED |-> 1, FAULT |-> 2, UNKNOWN |-> 3]
States   == DOMAIN Severity

ASSUME ResultsAssumption ==
  /\ DueResults \subseteq Seq(States)
  /\ OtherResults \subseteq Seq(States)
  /\ MaxResults \in Nat

VARIABLES
  stats,      \* the check's CheckStats
  results,    \* the results of on_tick that service() has still to publish
  returned    \* history: states of all results published and recorded, in order

scaffoldVars == <<vars, stats, results, returned>>

NewStats ==
  [ runs |-> 0, faults |-> 0, degraded |-> 0, skipped_slots |-> 0,
    last_state |-> None, last_run_monotonic |-> None ]

ScaffoldInit == Init /\ stats = NewStats /\ results = << >> /\ returned = << >>

(* Mutant: whatever is no fault counts as degraded.                         *)
FaultOrDegraded(state) == {IF state = "FAULT" THEN "faults" ELSE "degraded"}

CountersOf(state) ==
  {c \in {"faults", "degraded"} :
    <<state, c>> \in {<<"FAULT", "faults">>, <<"DEGRADED", "degraded">>}}

(* CheckStats.record of a result, which service() gives no missed slots.    *)
Record(s, result) ==
  LET Counted(c) == s[c] + (IF c \in CountersOf(result.state) THEN 1 ELSE 0)
  IN  [ s EXCEPT !.runs = @ + 1,
                 !.last_state = result.state,
                 !.last_run_monotonic = result.monotonic_ts,
                 !.faults = Counted("faults"),
                 !.degraded = Counted("degraded") ]

(* And of no result: the slots missed.                                      *)
RecordNone(s, missed_slots) == [s EXCEPT !.skipped_slots = @ + missed_slots]

(* CheckStats.as_payload: OK is zero, and therefore false.                  *)
Payload ==
  [ stats EXCEPT !.last_state = IF @ = None \/ Severity[@] = 0 THEN None ELSE @ ]

(* service() begins with a poll; the other thread and the clock go on.      *)
ServiceBegins ==
  /\ \/ PollTimer /\ results = << >>
     \/ Advance \/ RefreshTimer \/ ResetTimer
  /\ UNCHANGED <<stats, results, returned>>

(* on_tick returns the results of the states in `list', at the tick.        *)
ServiceReturns ==
  /\ Acknowledge \/ SkipTick
  /\ \E list \in IF tick.due THEN DueResults ELSE OtherResults :
       /\ Len(returned) + Len(list) <= MaxResults
       /\ results' = [n \in DOMAIN list |-> [state |-> list[n], monotonic_ts |-> tick.now]]
       /\ stats' = IF list = << >> THEN RecordNone(stats, tick.missed_slots) ELSE stats
  /\ UNCHANGED returned

(* service() publishes and records the next of them.                        *)
RecordResult ==
  /\ results # << >>
  /\ stats' = Record(stats, Head(results))
  /\ returned' = Append(returned, Head(results).state)
  /\ results' = Tail(results)
  /\ UNCHANGED vars

(* Mutant: service() leaves the slot to the check, which raised before it   *)
(* could acknowledge it.                                                    *)
ServiceRaisesUnacknowledged ==
  /\ tick # None
  /\ tick' = None
  /\ UNCHANGED <<clock, timer, lastRun, slots, stats, results, returned>>

(* on_tick raises: service() records nothing and acknowledges, also when    *)
(* the tick was not due.                                                    *)
ServiceRaises ==
  /\ \/ Acknowledge
     \/ /\ tick # None
        /\ ~tick.due
        /\ timer' = MarkServiced(timer, tick.now)
        /\ tick' = None
        /\ UNCHANGED <<clock, lastRun, slots>>
  /\ UNCHANGED <<stats, results, returned>>

ScaffoldNext == ServiceBegins \/ ServiceReturns \/ RecordResult \/ ServiceRaises

ScaffoldSpec == ScaffoldInit /\ [][ScaffoldNext]_scaffoldVars

-----------------------------------------------------------------------------
(* The status counts every result published once and by its state, and      *)
(* shows the state of the last one, or none when that was OK; it never      *)
(* shows more slots skipped than polls reported (CheckStats.record and      *)
(* as_payload).                                                             *)
StatusAgrees ==
  LET Count(state) == Cardinality({n \in DOMAIN returned : returned[n] = state})
      last == IF returned = << >> THEN "OK" ELSE returned[Len(returned)]
  IN  /\ Payload.runs = Len(returned)
      /\ Payload.faults = Count("FAULT")
      /\ Payload.degraded = Count("DEGRADED")
      /\ Payload.last_state = IF last = "OK" THEN None ELSE last
      /\ Payload.skipped_slots <= slots
=============================================================================

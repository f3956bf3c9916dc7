------------------------------ MODULE PeerLink ------------------------------
(***************************************************************************)
(* A peer, the way its heartbeats take, and what checks/heartbeat.py makes *)
(* of them.  The peer is a process of its own that emits as _emit does: a  *)
(* number that begins at one, plus one each emit_period_s, counted from    *)
(* the last one and late by up to Lateness, because it emits when its loop *)
(* comes to it.  It may crash, and counts from one again once restarted.   *)
(* The platform's bus (external) takes up to MaxDelay, in any order, and   *)
(* may lose a heartbeat or bring one that it has brought before once more. *)
(*                                                                         *)
(* HeartbeatCheck has the threads and the publishing of the check, and an  *)
(* environment without memory.  Here the environment has one, and the      *)
(* check is its peer record: on_peer_heartbeat is one step, and the        *)
(* control loop evaluates the peer at least every PollGap.                 *)
(***************************************************************************)
EXTENDS IntervalTimer

CONSTANTS
  EmitPeriod,   \* emit_period_s
  PeerTimeout,  \* peer_timeout_s
  PollGap,      \* the longest time between two services of the check
  Lateness,     \* how late a peer may emit (BeaconOnTime bounds it for this service)
  MaxDelay,     \* the longest time a heartbeat is under way
  MayLose,      \* may heartbeats be lost?
  MayCrash,     \* may the peer crash?
  MayBeBare,    \* may a heartbeat come without its number?
  MaxClock      \* bound: the clock stops here

ASSUME PeriodsAssumption ==
  /\ EmitPeriod \in Nat \ {0} /\ PeerTimeout \in Nat /\ PeerTimeout > EmitPeriod
  /\ PollGap \in Nat \ {0} /\ Lateness \in Nat /\ MaxDelay \in Nat /\ MaxClock \in Nat
ASSUME FaultsAssumption == {MayLose, MayCrash, MayBeBare} \subseteq BOOLEAN

VARIABLES
  clock,      \* the monotonic clock
  up,         \* is the peer running?
  emitted,    \* its own _sequence
  emitAt,     \* when it is due to emit next
  underway,   \* heartbeats sent and not yet brought
  brought,    \* heartbeats brought so far
  record,     \* the PeerRecord
  polledAt,   \* when the peer was evaluated last
  (* history *)
  since,      \* when the peer was started or crashed last
  before,     \* the highest number it had used before that
  crashed,    \* has it ever crashed?
  lost,       \* has a heartbeat been lost?
  bare        \* has one come without its number?

peer    == <<up, emitted, emitAt, since, before, crashed>>
bus     == <<underway, brought, lost, bare>>
monitor == <<record, polledAt>>
vars == <<clock, peer, bus, monitor>>

Init ==
  /\ clock = 0
  /\ up = TRUE
  /\ emitted = 0
  /\ emitAt = 0
  /\ underway = {}
  /\ brought = {}
  /\ record = [ timer |-> NewTimer(EmitPeriod, PeerTimeout, 0, FALSE),
                live |-> TRUE, sequence |-> -1 ]
  /\ polledAt = 0
  /\ since = 0
  /\ before = 0
  /\ crashed = FALSE
  /\ lost = FALSE
  /\ bare = FALSE

(* Nothing that has a deadline misses it.                                   *)
TimePasses ==
  /\ clock < MaxClock
  /\ up => clock < emitAt + Lateness
  /\ \A beat \in underway : clock < beat.sent + MaxDelay
  /\ clock < polledAt + PollGap
  /\ clock' = clock + 1
  /\ UNCHANGED <<peer, bus, monitor>>

-----------------------------------------------------------------------------
(* The peer                                                                 *)

Emit ==
  /\ up
  /\ clock >= emitAt
  /\ emitted' = emitted + 1
  /\ emitAt' = clock + EmitPeriod
  /\ \E number \in {emitted'} \cup (IF MayBeBare THEN {-1} ELSE {}) :
       underway' = underway \cup {[sequence |-> number, sent |-> clock]}
  /\ UNCHANGED <<clock, up, since, before, crashed, brought, lost, bare, monitor>>

Crash ==
  /\ MayCrash
  /\ up
  /\ up' = FALSE
  /\ crashed' = TRUE
  /\ since' = clock
  /\ UNCHANGED <<clock, emitted, emitAt, before, bus, monitor>>

(* A new process: its number begins again, and it is due at once.           *)
Restart ==
  /\ ~up
  /\ up' = TRUE
  /\ emitted' = 0
  /\ emitAt' = clock
  /\ since' = clock
  /\ before' = IF emitted > before THEN emitted ELSE before
  /\ UNCHANGED <<clock, crashed, bus, monitor>>

-----------------------------------------------------------------------------
(* on_peer_heartbeat and _evaluate_peer                                     *)

(* Mutant: the last number is accepted once more.                           *)
RepeatPasses(sequence) == ~(sequence >= 0 /\ sequence < record.sequence)

Fresh(sequence) == ~(sequence >= 0 /\ sequence <= record.sequence)

(* Mutant: heartbeats are counted.                                          *)
CountHeartbeat(sequence) ==
  record' = IF Fresh(sequence)
            THEN [record EXCEPT !.sequence = @ + 1, !.timer = Refresh(@, clock)]
            ELSE record

OnPeerHeartbeat(sequence) ==
  record' = IF Fresh(sequence)
            THEN [record EXCEPT !.sequence = sequence, !.timer = Refresh(@, clock)]
            ELSE record

Arrive ==
  \E beat \in underway :
    /\ underway' = underway \ {beat}
    /\ brought' = brought \cup {beat.sequence}
    /\ OnPeerHeartbeat(beat.sequence)
    /\ bare' = (bare \/ beat.sequence = -1)
    /\ UNCHANGED <<clock, peer, lost, polledAt>>

Lose ==
  /\ MayLose
  /\ \E beat \in underway : underway' = underway \ {beat}
  /\ lost' = TRUE
  /\ UNCHANGED <<clock, peer, brought, bare, monitor>>

Replay ==
  \E sequence \in brought \ {-1} :
    /\ OnPeerHeartbeat(sequence)
    /\ UNCHANGED <<clock, peer, bus, polledAt>>

(* Mutant: once lost, a peer stays lost.                                    *)
LiveOnce == record.live /\ ~Poll(record.timer, clock).expired

LiveNow == ~Poll(record.timer, clock).expired

EvaluatePeer ==
  /\ record' = [record EXCEPT !.live = LiveNow]
  /\ polledAt' = clock
  /\ UNCHANGED <<clock, peer, bus>>

Next ==
  \/ TimePasses
  \/ Emit \/ Crash \/ Restart
  \/ Arrive \/ Lose \/ Replay
  \/ EvaluatePeer

Spec == Init /\ [][Next]_vars

-----------------------------------------------------------------------------
(* Properties                                                               *)

TypeOK ==
  /\ clock \in 0 .. MaxClock
  /\ up \in BOOLEAN
  /\ emitted \in Nat
  /\ emitAt \in Nat
  /\ underway \subseteq [sequence : Int, sent : 0 .. MaxClock]
  /\ brought \subseteq Int
  /\ record \in [timer : TimerType, live : BOOLEAN, sequence : brought \cup {-1}]
  /\ polledAt \in 0 .. clock
  /\ since \in 0 .. clock
  /\ before \in Nat
  /\ crashed \in BOOLEAN
  /\ lost \in BOOLEAN
  /\ bare \in BOOLEAN

(* A peer that is down is declared lost in bounded time, whatever comes of  *)
(* its heartbeats late, once more or out of order: the replay test keeps    *)
(* old heartbeats from standing in for a peer that sends none.  Only a      *)
(* heartbeat without a number suspends it: after it any old one passes.     *)
DeadPeerIsLost ==
  ~up /\ ~bare /\ clock - since > MaxDelay + PeerTimeout + PollGap => ~record.live

(* A heartbeat that is sent late and under way for long, by no more in all  *)
(* than peer_timeout_s exceeds emit_period_s, never declares a peer lost,   *)
(* as many as there are of them.                                            *)
LateIsNotLost ==
  EmitPeriod + Lateness + MaxDelay <= PeerTimeout /\ ~crashed /\ ~lost => record.live

(* A restarted peer is discarded until it has counted past its old number,  *)
(* and it is live from then on.                                             *)
RestartIsOvercome ==
  (/\ EmitPeriod + Lateness + MaxDelay <= PeerTimeout
   /\ up /\ ~lost
   /\ clock - since > before * (EmitPeriod + Lateness) + Lateness + MaxDelay + PollGap)
    => record.live
=============================================================================

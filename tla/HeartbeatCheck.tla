--------------------------- MODULE HeartbeatCheck ---------------------------
(***************************************************************************)
(* FN-HM-HB, checks/heartbeat.py, driven by checks/base.py and by the      *)
(* control loop of service.py: the emission of our own heartbeat, the      *)
(* liveness of the peers, the quorum verdict, and what is published.       *)
(*                                                                         *)
(* The control loop (Main) alternates between draining the bus, servicing  *)
(* the check and sleeping.  on_peer_heartbeat is called by every thread    *)
(* that drains the bus: by Main while it drains, and by the dispatch       *)
(* thread at any time, because main() starts that thread and the loop      *)
(* still drains.  Nothing orders the two but the lock inside each peer     *)
(* timer, so the handler is three steps here: the replay test, the write   *)
(* of record.sequence, and timer.refresh().                                *)
(*                                                                         *)
(* The bus is the environment: any heartbeat may reach a handler at any    *)
(* time, so messages are lost, repeated, reordered and delayed at will.    *)
(* The counters losses and refreshes, the stats and the texts are only     *)
(* reported and are left out.                                              *)
(***************************************************************************)
EXTENDS IntervalTimer, Sequences, FiniteSets

CONSTANTS
  Main, Dispatcher,  \* the two threads that may drain the bus
  HandlerThreads,    \* those that do
  PeerList,          \* config.peers
  Strangers,         \* senders that are not configured, ourselves included
  QuorumSubject,     \* QUORUM_SUBJECT
  Payloads,          \* sequence numbers a heartbeat may carry, -1 if absent
  Malformed,         \* a payload that int() rejects
  QuorumMinLive,     \* quorum_min_live
  EmitPeriod,        \* emit_period_s
  PeerTimeout,       \* peer_timeout_s
  LoopPeriod,        \* loop_period_s
  StepMax,           \* assumed bound on the duration of one loop iteration
  BusMayDrop,        \* may the bus queue be full when a result is published?
  MaxClock           \* bound: the clock stops here

Peers    == {PeerList[i] : i \in DOMAIN PeerList}
Subjects == Peers \cup {QuorumSubject}

ASSUME ThreadsAssumption ==
  Main # Dispatcher /\ HandlerThreads \subseteq {Main, Dispatcher}
ASSUME PeersAssumption ==
  /\ PeerList \in Seq(Peers)
  /\ \A i, j \in DOMAIN PeerList : PeerList[i] = PeerList[j] => i = j
  /\ Strangers \cap Peers = {}
  /\ QuorumSubject \notin Peers
ASSUME PayloadsAssumption == Payloads \subseteq Int /\ Malformed \notin Int
ASSUME QuorumAssumption == QuorumMinLive \in Int /\ QuorumMinLive <= Len(PeerList)
ASSUME TimeAssumption ==
  /\ EmitPeriod \in Nat \ {0}
  /\ PeerTimeout \in Nat \ {0}
  /\ PeerTimeout > EmitPeriod
  /\ LoopPeriod \in Nat \ {0}
  /\ StepMax \in Nat
  /\ MaxClock \in Nat
ASSUME BusMayDropAssumption == BusMayDrop \in BOOLEAN
ASSUME NoneIsNoState == None \notin {"OK", "FAULT"}

VARIABLES
  clock,         \* the monotonic clock
  emitTimer,     \* the check's own cadence timer
  peers,         \* _peers: timer, live and sequence of each peer
  lastPublished, \* _last_published: state per subject, or None
  sequence,      \* _sequence, the number of heartbeats we emitted
  loop,          \* where the control loop is
  started,       \* when the current iteration began
  wake,          \* when the current sleep ends
  now,           \* tick.now of the tick being serviced
  index,         \* the peer on_tick evaluates next
  results,       \* the results on_tick has gathered and not yet published
  at,            \* where each thread is inside on_peer_heartbeat
  beat,          \* the heartbeat it is handling
  (* history *)
  announced,     \* the last state of each subject that the bus accepted
  heard          \* when the last heartbeat of each peer passed the replay test

loopVars    == <<loop, started, wake, now, index, results>>
handlerVars == <<at, beat>>
vars == <<clock, emitTimer, peers, lastPublished, sequence, loopVars,
          handlerVars, announced, heard>>

NoBeat == [peer |-> None, sequence |-> 0]

Smaller(a, b) == IF a < b THEN a ELSE b
Larger(a, b)  == IF a < b THEN b ELSE a

-----------------------------------------------------------------------------

(* __init__ of the check: the emission timer is due at once, each peer      *)
(* timer has an expiry window, every peer counts as live.                   *)
Init ==
  /\ clock = 0
  /\ emitTimer = NewTimer(EmitPeriod, None, 0, TRUE)
  /\ peers = [p \in Peers |->
       [timer    |-> NewTimer(EmitPeriod, PeerTimeout, 0, FALSE),
        live     |-> TRUE,
        sequence |-> -1]]
  /\ lastPublished = [s \in Subjects |-> None]
  /\ sequence = 0
  /\ loop = "drain"
  /\ started = 0
  /\ wake = 0
  /\ now = 0
  /\ index = 1
  /\ results = <<>>
  /\ at = [t \in HandlerThreads |-> "idle"]
  /\ beat = [t \in HandlerThreads |-> NoBeat]
  /\ announced = [s \in Subjects |-> None]
  /\ heard = [p \in Peers |-> 0]

(* Time passes: a sleep ends on time, and an iteration lasts at most        *)
(* StepMax (checks are cooperative, scheduling delays included).            *)
Advance ==
  /\ clock < MaxClock
  /\ IF loop = "sleep" THEN clock < wake ELSE clock < started + StepMax
  /\ clock' = clock + 1
  /\ UNCHANGED <<emitTimer, peers, lastPublished, sequence, loopVars,
                 handlerVars, announced, heard>>

-----------------------------------------------------------------------------
(* on_peer_heartbeat                                                        *)

MayHandle(t) == at[t] = "idle" /\ (t = Main => loop = "drain")

(* The replay test; a heartbeat without a sequence number passes it.        *)
Fresh(p, seq) == ~(seq >= 0 /\ seq <= peers[p].sequence)

(* An unconfigured sender, a sequence int() cannot parse (the exception is  *)
(* swallowed by the bus) or one that is not newer than the last: discarded. *)
Discard(t, sender, seq) ==
  /\ MayHandle(t)
  /\ \/ sender \notin Peers
     \/ seq = Malformed
     \/ sender \in Peers /\ seq # Malformed /\ ~Fresh(sender, seq)
  /\ UNCHANGED vars

(* Mutant: the sequence is taken from the payload as it is.                 *)
AcceptUnparsed(t, sender, seq) ==
  /\ MayHandle(t)
  /\ sender \in Peers
  /\ seq = Malformed \/ Fresh(sender, seq)
  /\ at' = [at EXCEPT ![t] = "store"]
  /\ beat' = [beat EXCEPT ![t] = [peer |-> sender, sequence |-> seq]]
  /\ heard' = [heard EXCEPT ![sender] = clock]
  /\ UNCHANGED <<clock, emitTimer, peers, lastPublished, sequence, loopVars, announced>>

(* The heartbeat passes the replay test.                                    *)
Accept(t, sender, seq) ==
  /\ MayHandle(t)
  /\ sender \in Peers
  /\ seq # Malformed
  /\ Fresh(sender, seq)
  /\ at' = [at EXCEPT ![t] = "store"]
  /\ beat' = [beat EXCEPT ![t] = [peer |-> sender, sequence |-> seq]]
  /\ heard' = [heard EXCEPT ![sender] = clock]
  /\ UNCHANGED <<clock, emitTimer, peers, lastPublished, sequence, loopVars, announced>>

StoreSequence(t) ==
  /\ at[t] = "store"
  /\ peers' = [peers EXCEPT ![beat[t].peer].sequence = beat[t].sequence]
  /\ at' = [at EXCEPT ![t] = "refresh"]
  /\ UNCHANGED <<clock, emitTimer, lastPublished, sequence, loopVars, beat,
                 announced, heard>>

(* record.timer.refresh(), which reads the clock under the timer's lock.    *)
RefreshPeer(t) ==
  /\ at[t] = "refresh"
  /\ peers' = [peers EXCEPT ![beat[t].peer].timer = Refresh(@, clock)]
  /\ at' = [at EXCEPT ![t] = "idle"]
  /\ beat' = [beat EXCEPT ![t] = NoBeat]
  /\ UNCHANGED <<clock, emitTimer, lastPublished, sequence, loopVars,
                 announced, heard>>

Handle(t) ==
  \/ \E sender \in Peers \cup Strangers, seq \in Payloads \cup {Malformed} :
       Discard(t, sender, seq) \/ Accept(t, sender, seq)
  \/ StoreSequence(t)
  \/ RefreshPeer(t)

-----------------------------------------------------------------------------
(* The control loop: service(), on_tick() and the sleep                     *)

(* _emit publishes our heartbeat under the next number, which marks the     *)
(* slot; whether the queue has room for it changes nothing here.            *)
EmitIfDue(tick) ==
  IF tick.due
  THEN /\ sequence' = sequence + 1
       /\ emitTimer' = MarkServiced(emitTimer, tick.now)
  ELSE UNCHANGED <<sequence, emitTimer>>

(* service() polls the emission timer, and on_tick begins with the beacon.  *)
BeginService ==
  /\ loop = "drain"
  /\ Main \in HandlerThreads => at[Main] = "idle"
  /\ LET tick == Poll(emitTimer, clock)
     IN  now' = tick.now /\ EmitIfDue(tick)
  /\ loop' = "peers"
  /\ index' = 1
  /\ UNCHANGED <<clock, peers, lastPublished, started, wake, results,
                 handlerVars, announced, heard>>

Result(subject, state) == [subject |-> subject, state |-> state]

(* Mutant: an expired peer is reported at every evaluation.                 *)
EvaluateEveryTime ==
  /\ loop = "peers"
  /\ index <= Len(PeerList)
  /\ LET p    == PeerList[index]
         live == ~Poll(peers[p].timer, now).expired
     IN  /\ peers' = [peers EXCEPT ![p].live = live]
         /\ results' = IF live /\ peers[p].live THEN results
                       ELSE Append(results, Result(p, IF live THEN "OK" ELSE "FAULT"))
  /\ index' = index + 1
  /\ UNCHANGED <<clock, emitTimer, lastPublished, sequence, loop, started,
                 wake, now, handlerVars, announced, heard>>

(* _evaluate_peer with the peer timer polled at tick.now: a result on a     *)
(* transition only.                                                         *)
EvaluatePeer ==
  /\ loop = "peers"
  /\ index <= Len(PeerList)
  /\ LET p    == PeerList[index]
         live == ~Poll(peers[p].timer, now).expired
     IN  /\ peers' = [peers EXCEPT ![p].live = live]
         /\ results' = IF live = peers[p].live THEN results
                       ELSE Append(results, Result(p, IF live THEN "OK" ELSE "FAULT"))
  /\ index' = index + 1
  /\ UNCHANGED <<clock, emitTimer, lastPublished, sequence, loop, started,
                 wake, now, handlerVars, announced, heard>>

LivePeers == {p \in Peers : peers[p].live}

(* Mutant: one live peer too few still satisfies the quorum.                *)
QuorumOffByOne == IF Cardinality(LivePeers) + 1 >= QuorumMinLive THEN "OK" ELSE "FAULT"

QuorumState == IF Cardinality(LivePeers) >= QuorumMinLive THEN "OK" ELSE "FAULT"

(* _evaluate_quorum: a result when the verdict differs from the state last  *)
(* published under the quorum's subject.                                    *)
EvaluateQuorum ==
  /\ loop = "peers"
  /\ index > Len(PeerList)
  /\ results' = IF lastPublished[QuorumSubject] = QuorumState THEN results
                ELSE Append(results, Result(QuorumSubject, QuorumState))
  /\ loop' = "publish"
  /\ UNCHANGED <<clock, emitTimer, peers, lastPublished, sequence, started,
                 wake, now, index, handlerVars, announced, heard>>

(* _publish: _last_published is set before, and whatever, the bus answers.  *)
PublishResult ==
  /\ loop = "publish"
  /\ results # <<>>
  /\ LET r == Head(results)
     IN  /\ lastPublished' = [lastPublished EXCEPT ![r.subject] = r.state]
         /\ \/ announced' = [announced EXCEPT ![r.subject] = r.state]
            \/ BusMayDrop /\ UNCHANGED announced
  /\ results' = Tail(results)
  /\ UNCHANGED <<clock, emitTimer, peers, sequence, loop, started, wake, now,
                 index, handlerVars, heard>>

(* Mutant: the loop sleeps for its period, whatever is due before.          *)
SleepWholePeriod == LoopPeriod

(* _sleep_budget, with this check's timer.                                  *)
SleepBudget ==
  AtLeastZero(Smaller(LoopPeriod, SecondsUntilDue(emitTimer, clock)))

(* service() returns and run() goes to sleep, or straight to the next       *)
(* iteration when the budget is zero.                                       *)
EndIteration ==
  /\ loop = "publish"
  /\ results = <<>>
  /\ wake' = clock + SleepBudget
  /\ loop' = "sleep"
  /\ UNCHANGED <<clock, emitTimer, peers, lastPublished, sequence, started,
                 now, index, results, handlerVars, announced, heard>>

(* The sleep is over and the next iteration drains the bus.                 *)
Wake ==
  /\ loop = "sleep"
  /\ clock >= wake
  /\ loop' = "drain"
  /\ started' = clock
  /\ UNCHANGED <<clock, emitTimer, peers, lastPublished, sequence, wake, now,
                 index, results, handlerVars, announced, heard>>

ControlLoop ==
  \/ BeginService
  \/ EvaluatePeer
  \/ EvaluateQuorum
  \/ PublishResult
  \/ EndIteration
  \/ Wake

Next ==
  \/ Advance
  \/ \E t \in HandlerThreads : Handle(t)
  \/ ControlLoop

Spec == Init /\ [][Next]_vars

-----------------------------------------------------------------------------
(* Properties                                                               *)

States == {"OK", "FAULT"}

ResultType == [subject : Subjects, state : States]

PeerRecord == [timer : TimerType, live : BOOLEAN, sequence : Int]

TypeOK ==
  /\ clock \in Nat
  /\ emitTimer \in TimerType
  /\ peers \in [Peers -> PeerRecord]
  /\ lastPublished \in [Subjects -> States \cup {None}]
  /\ sequence \in Nat
  /\ loop \in {"drain", "peers", "publish", "sleep"}
  /\ started \in Nat
  /\ wake \in Nat
  /\ now \in Nat
  /\ index \in 1 .. Len(PeerList) + 1
  /\ results \in Seq(ResultType)
  /\ at \in [HandlerThreads -> {"idle", "store", "refresh"}]
  /\ beat \in [HandlerThreads -> [peer : Peers \cup {None}, sequence : Int]]
  /\ \A t \in HandlerThreads : at[t] # "idle" => beat[t].peer \in Peers
  /\ announced \in [Subjects -> States \cup {None}]
  /\ heard \in [Peers -> Nat]

(* Is some thread between the replay test and the refresh for p?            *)
BeingRefreshed(p) ==
  \E t \in HandlerThreads : at[t] # "idle" /\ beat[t].peer = p

(* A peer is declared lost only when no fresh heartbeat of it was handled   *)
(* within peer_timeout_s of the tick, even though the handler runs on       *)
(* another thread; the one exception is a heartbeat whose handler has not   *)
(* reached timer.refresh() yet.                                             *)
LostOnlyIfSilent ==
  [][\A p \in Peers :
       peers[p].live /\ ~peers'[p].live
         => now - heard[p] > PeerTimeout \/ BeingRefreshed(p)]_vars

(* A silent peer's fault is published in bounded time after its window      *)
(* closed, although the loop's sleep does not look at the peer timers: the  *)
(* next service is one iteration or one emission period away.               *)
LossPublishedInTime ==
  \A p \in Peers :
    clock - peers[p].timer.last_refresh > PeerTimeout + Larger(EmitPeriod, StepMax) + StepMax
      => lastPublished[p] = "FAULT"

(* Two of our own heartbeats are never further apart than a period and two  *)
(* iterations: the sleep is cut short by the emission timer, and a service  *)
(* that finds it not due yet is followed by the next one without delay.     *)
BeaconOnTime == clock - emitTimer.last_service <= EmitPeriod + 2 * StepMax

(* Nothing is published that the subject's state did not already say:       *)
(* results are transitions, and a peer's first one is its loss.             *)
TransitionsOnly ==
  [][\A s \in Subjects :
       loop = "publish" /\ results # <<>> /\ Head(results).subject = s
         => /\ Head(results).state # lastPublished[s]
            /\ s # QuorumSubject /\ lastPublished[s] = None
                 => Head(results).state = "FAULT"]_results

(* A replayed heartbeat never refreshes a peer: the replay test that a      *)
(* heartbeat has passed still holds when its sequence is written, so a      *)
(* sequence number only ever replaces a smaller one.                        *)
ReplayGuardHolds ==
  [][\A t \in HandlerThreads :
       at[t] = "store" /\ at'[t] = "refresh" /\ beat[t].sequence >= 0
         => beat[t].sequence > peers[beat[t].peer].sequence]_vars

(* Between two services what the subscribers of the bus were told last      *)
(* agrees with the peer records: a peer is at FAULT exactly when it is not  *)
(* live, the quorum exactly when fewer than quorum_min_live peers are.      *)
SubscribersInformed ==
  loop \in {"drain", "sleep"} /\ sequence > 0 =>
    /\ \A p \in Peers : announced[p] = "FAULT" <=> ~peers[p].live
    /\ announced[QuorumSubject] =
         IF Cardinality(LivePeers) < QuorumMinLive THEN "FAULT" ELSE "OK"

(* When fewer than quorum_min_live peers are live a quorum fault is         *)
(* published: an evaluation that finds the quorum lost, and the bus not yet *)
(* told, has the fault among its results.                                   *)
QuorumLossPublished ==
  [][loop = "peers" /\ loop' = "publish" /\ Cardinality(LivePeers) < QuorumMinLive
       => \/ announced[QuorumSubject] = "FAULT"
          \/ \E i \in DOMAIN results' : results'[i] = Result(QuorumSubject, "FAULT")]_vars
=============================================================================

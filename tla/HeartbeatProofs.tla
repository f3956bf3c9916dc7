-------------------------- MODULE HeartbeatProofs --------------------------
(***************************************************************************)
(* Proofs about the heartbeat check: type correctness, the spacing of our  *)
(* own heartbeats, that a peer heard within its window is not declared     *)
(* lost and a silent one is in time, that only transitions are published   *)
(* and that subscribers know the verdicts unless the bus drops one, for    *)
(* any peers, periods, windows, threads and clock.                         *)
(***************************************************************************)
EXTENDS HeartbeatCheck, FiniteSetTheorems, TLAPS

USE TimeAssumption, NoneAssumption

(* mark_serviced and refresh change one anchor each.                        *)
LEMMA AnchorsType ==
  ASSUME NEW tm \in TimerType, NEW reading \in Int
  PROVE  /\ MarkServiced(tm, reading) \in TimerType
         /\ MarkServiced(tm, reading).period_s = tm.period_s
         /\ MarkServiced(tm, reading).last_service = reading
         /\ Refresh(tm, reading) \in TimerType
         /\ Refresh(tm, reading).expiry_s = tm.expiry_s
         /\ Refresh(tm, reading).last_refresh = reading
BY DEF TimerType, MarkServiced, Refresh

(* The list of results as a queue.                                          *)
LEMMA QueueType ==
  ASSUME NEW S, NEW s \in Seq(S)
  PROVE  /\ \A e \in S : Append(s, e) \in Seq(S)
         /\ s # <<>> => Head(s) \in S /\ Tail(s) \in Seq(S)
OBVIOUS

LEMMA ElementType ==
  ASSUME NEW S, NEW s \in Seq(S), NEW i \in DOMAIN s
  PROVE  s[i] \in S
OBVIOUS

(* Updating one field of one peer record.                                   *)
LEMMA PeerUpdateType ==
  ASSUME NEW f \in [Peers -> PeerRecord], NEW p \in Peers
  PROVE  /\ \A tm \in TimerType : [f EXCEPT ![p].timer = tm] \in [Peers -> PeerRecord]
         /\ \A b \in BOOLEAN : [f EXCEPT ![p].live = b] \in [Peers -> PeerRecord]
         /\ \A n \in Int : [f EXCEPT ![p].sequence = n] \in [Peers -> PeerRecord]
<1>1. f[p] \in PeerRecord
  OBVIOUS
<1>2. /\ \A tm \in TimerType : [f[p] EXCEPT !.timer = tm] \in PeerRecord
      /\ \A b \in BOOLEAN : [f[p] EXCEPT !.live = b] \in PeerRecord
      /\ \A n \in Int : [f[p] EXCEPT !.sequence = n] \in PeerRecord
  BY <1>1 DEF PeerRecord
<1>3. QED BY <1>2

LEMMA TypeInit == Init => TypeOK
<1> SUFFICES ASSUME Init PROVE TypeOK
  OBVIOUS
<1>1. emitTimer \in TimerType
  BY DEF Init, NewTimer, TimerType
<1>2. peers \in [Peers -> PeerRecord]
  <2>1. NewTimer(EmitPeriod, PeerTimeout, 0, FALSE) \in TimerType
    BY DEF NewTimer, TimerType
  <2>2. [timer |-> NewTimer(EmitPeriod, PeerTimeout, 0, FALSE), live |-> TRUE, sequence |-> -1]
          \in PeerRecord
    <3> DEFINE fresh == NewTimer(EmitPeriod, PeerTimeout, 0, FALSE)
    <3>1. fresh \in TimerType
      BY <2>1
    <3> HIDE DEF fresh
    <3>2. [timer |-> fresh, live |-> TRUE, sequence |-> -1] \in PeerRecord
      BY <3>1 DEF PeerRecord
    <3>3. QED BY <3>2 DEF fresh
  <2>3. QED BY <2>2 DEF Init
<1>3. index \in 1 .. Len(PeerList) + 1 /\ results \in Seq(ResultType)
  BY DEF Init
<1>4. /\ lastPublished \in [Subjects -> States \cup {None}]
      /\ announced \in [Subjects -> States \cup {None}]
      /\ heard \in [Peers -> Nat]
  BY DEF Init
<1>5. /\ at \in [HandlerThreads -> {"idle", "store", "refresh"}]
      /\ beat \in [HandlerThreads -> [peer : Peers \cup {None}, sequence : Int]]
      /\ \A t \in HandlerThreads : at[t] = "idle"
  BY DEF Init, NoBeat
<1>6. QED BY <1>1, <1>2, <1>3, <1>4, <1>5 DEF Init, TypeOK

LEMMA TypeHandle ==
  ASSUME TypeOK, NEW t \in HandlerThreads, Handle(t)
  PROVE  TypeOK'
<1>1. ASSUME NEW sender \in Peers \cup Strangers, NEW seq \in Payloads \cup {Malformed},
             Discard(t, sender, seq)
      PROVE  TypeOK'
  BY <1>1 DEF Discard, vars, loopVars, handlerVars, TypeOK
<1>2. ASSUME NEW sender \in Peers \cup Strangers, NEW seq \in Payloads \cup {Malformed},
             Accept(t, sender, seq)
      PROVE  TypeOK'
  <2>1. sender \in Peers /\ seq \in Int
    BY <1>2, PayloadsAssumption DEF Accept
  <2>2. /\ at' \in [HandlerThreads -> {"idle", "store", "refresh"}]
        /\ beat' \in [HandlerThreads -> [peer : Peers \cup {None}, sequence : Int]]
        /\ heard' \in [Peers -> Nat]
    BY <1>2, <2>1 DEF Accept, TypeOK
  <2>3. \A u \in HandlerThreads : at'[u] # "idle" => beat'[u].peer \in Peers
    BY <1>2, <2>1 DEF Accept, TypeOK
  <2>4. QED BY <1>2, <2>2, <2>3 DEF Accept, TypeOK, loopVars
<1>3. CASE StoreSequence(t)
  <2>1. beat[t].peer \in Peers /\ beat[t].sequence \in Int
    BY <1>3 DEF StoreSequence, TypeOK
  <2>2. peers' \in [Peers -> PeerRecord]
    BY <1>3, <2>1, PeerUpdateType DEF StoreSequence, TypeOK
  <2>3. /\ at' \in [HandlerThreads -> {"idle", "store", "refresh"}]
        /\ \A u \in HandlerThreads : at'[u] # "idle" => at[u] # "idle"
    BY <1>3 DEF StoreSequence, TypeOK
  <2>4. QED BY <1>3, <2>2, <2>3 DEF StoreSequence, TypeOK, loopVars
<1>4. CASE RefreshPeer(t)
  <2>1. beat[t].peer \in Peers /\ peers[beat[t].peer] \in PeerRecord
    BY <1>4 DEF RefreshPeer, TypeOK
  <2>2. Refresh(peers[beat[t].peer].timer, clock) \in TimerType
    BY <2>1, AnchorsType DEF TypeOK, PeerRecord
  <2>3. peers' \in [Peers -> PeerRecord]
    BY <1>4, <2>1, <2>2, PeerUpdateType DEF RefreshPeer, TypeOK
  <2>4. /\ at' \in [HandlerThreads -> {"idle", "store", "refresh"}]
        /\ beat' \in [HandlerThreads -> [peer : Peers \cup {None}, sequence : Int]]
        /\ \A u \in HandlerThreads : at'[u] # "idle" => at[u] # "idle" /\ beat'[u] = beat[u]
    BY <1>4 DEF RefreshPeer, TypeOK, NoBeat
  <2>5. QED BY <1>4, <2>3, <2>4 DEF RefreshPeer, TypeOK, loopVars
<1>5. QED BY <1>1, <1>2, <1>3, <1>4 DEF Handle

LEMMA TypeControlLoop == TypeOK /\ ControlLoop => TypeOK'
<1> SUFFICES ASSUME TypeOK, ControlLoop PROVE TypeOK'
  OBVIOUS
<1>1. CASE BeginService
  <2>1. now' \in Nat
    BY <1>1 DEF BeginService, TypeOK, Poll
  <2>2. MarkServiced(emitTimer, clock) \in TimerType
    BY AnchorsType DEF TypeOK
  <2>3. sequence' \in Nat /\ emitTimer' \in TimerType
    BY <1>1, <2>2 DEF BeginService, EmitIfDue, TypeOK, Poll
  <2>4. QED BY <1>1, <2>1, <2>3 DEF BeginService, TypeOK, handlerVars
<1>2. CASE EvaluatePeer
  <2> DEFINE p == PeerList[index]
             live == ~Poll(peers[p].timer, now).expired
             r == Result(p, IF live THEN "OK" ELSE "FAULT")
  <2>1. index \in 1 .. Len(PeerList) /\ index + 1 \in 1 .. Len(PeerList) + 1 /\ p \in Peers
    <3>1. index \in 1 .. Len(PeerList) + 1 /\ index <= Len(PeerList)
      BY <1>2 DEF EvaluatePeer, TypeOK
    <3>2. Len(PeerList) \in Nat /\ DOMAIN PeerList = 1 .. Len(PeerList)
      BY PeersAssumption
    <3>3. index \in 1 .. Len(PeerList) /\ index + 1 \in 1 .. Len(PeerList) + 1
      BY <3>1, <3>2
    <3>4. p \in Peers
      BY <3>2, <3>3 DEF Peers
    <3>5. QED BY <3>3, <3>4
  <2>2. live \in BOOLEAN
    OBVIOUS
  <2>3. r \in ResultType
    BY <2>1 DEF Result, ResultType, Subjects, States
  <2>4. /\ peers' = [peers EXCEPT ![p].live = live]
        /\ results' \in {results, Append(results, r)}
        /\ index' = index + 1
        /\ UNCHANGED <<clock, emitTimer, lastPublished, sequence, loop, started,
                       wake, now, handlerVars, announced, heard>>
    BY <1>2 DEF EvaluatePeer
  <2> HIDE DEF p, live, r
  <2>5. peers' \in [Peers -> PeerRecord]
    BY <2>1, <2>2, <2>4, PeerUpdateType DEF TypeOK
  <2>6. results' \in Seq(ResultType)
    <3>1. results \in Seq(ResultType)
      BY DEF TypeOK
    <3>2. Append(results, r) \in Seq(ResultType)
      BY <2>3, <3>1, QueueType
    <3>3. QED BY <2>4, <3>1, <3>2
  <2>7. QED BY <2>1, <2>4, <2>5, <2>6 DEF TypeOK, handlerVars
<1>3. CASE EvaluateQuorum
  <2>1. Result(QuorumSubject, QuorumState) \in ResultType
    BY DEF Result, ResultType, QuorumState, Subjects, States
  <2>2. results' \in {results, Append(results, Result(QuorumSubject, QuorumState))}
    BY <1>3 DEF EvaluateQuorum
  <2>3. results' \in Seq(ResultType)
    <3>1. results \in Seq(ResultType)
      BY DEF TypeOK
    <3>2. Append(results, Result(QuorumSubject, QuorumState)) \in Seq(ResultType)
      BY <2>1, <3>1, QueueType
    <3>3. QED BY <2>2, <3>1, <3>2
  <2>4. QED BY <1>3, <2>3 DEF EvaluateQuorum, TypeOK, handlerVars
<1>4. CASE PublishResult
  <2>1. Head(results) \in ResultType
    BY <1>4, QueueType DEF PublishResult, TypeOK
  <2>2. /\ lastPublished' \in [Subjects -> States \cup {None}]
        /\ announced' \in [Subjects -> States \cup {None}]
    BY <1>4, <2>1 DEF PublishResult, TypeOK, ResultType
  <2>3. results' \in Seq(ResultType)
    <3>1. results \in Seq(ResultType) /\ results # <<>> /\ results' = Tail(results)
      BY <1>4 DEF PublishResult, TypeOK
    <3>2. QED BY <3>1, QueueType
  <2>4. QED BY <1>4, <2>2, <2>3 DEF PublishResult, TypeOK, handlerVars
<1>5. CASE EndIteration
  <2>1. SecondsUntilDue(emitTimer, clock) \in Int
    BY DEF TypeOK, TimerType, SecondsUntilDue, AtLeastZero
  <2>2. SleepBudget \in Nat
    BY <2>1 DEF SleepBudget, AtLeastZero, Smaller
  <2>3. QED BY <1>5, <2>2 DEF EndIteration, TypeOK, handlerVars
<1>6. CASE Wake
  BY <1>6 DEF Wake, TypeOK, handlerVars
<1>7. QED BY <1>1, <1>2, <1>3, <1>4, <1>5, <1>6 DEF ControlLoop

LEMMA TypeNext == TypeOK /\ [Next]_vars => TypeOK'
<1> SUFFICES ASSUME TypeOK, [Next]_vars PROVE TypeOK'
  OBVIOUS
<1>1. CASE Advance
  BY <1>1 DEF Advance, TypeOK, loopVars, handlerVars
<1>2. CASE UNCHANGED vars
  BY <1>2 DEF TypeOK, vars, loopVars, handlerVars
<1>3. QED BY <1>1, <1>2, TypeHandle, TypeControlLoop DEF Next

(* Type correctness of the check; in particular a sequence that int() does  *)
(* not accept never reaches a peer record.                                  *)
THEOREM HeartbeatTypeCorrect == Spec => []TypeOK
<1>1. QED BY TypeInit, TypeNext, PTL DEF Spec

-----------------------------------------------------------------------------
(* Where the clock stands relative to the iteration, the sleep, the tick    *)
(* and the emission timer.  After a service the tick is less than a period  *)
(* past the last emission; a sleep therefore ends at most one period and    *)
(* one iteration after it.                                                  *)

TimeInv ==
  /\ emitTimer.period_s = EmitPeriod
  /\ loop # "sleep" => started <= clock /\ clock <= started + StepMax
  /\ loop = "sleep" => clock <= wake
  /\ loop = "sleep" => wake - emitTimer.last_service <= EmitPeriod + StepMax
  /\ loop = "drain" => started - emitTimer.last_service <= EmitPeriod + StepMax
  /\ loop \in {"peers", "publish"} =>
       /\ started <= now
       /\ emitTimer.last_service <= now
       /\ now - emitTimer.last_service < EmitPeriod
  /\ emitTimer.last_service <= clock

LEMMA TimeInvInit == Init => TimeInv
BY DEF Init, TimeInv, NewTimer

LEMMA TimeInvNext == TypeOK /\ TimeInv /\ [Next]_vars => TimeInv'
<1> SUFFICES ASSUME TypeOK, TimeInv, [Next]_vars PROVE TimeInv'
  OBVIOUS
<1>0. /\ clock \in Nat /\ started \in Nat /\ wake \in Nat /\ now \in Nat
      /\ emitTimer \in TimerType /\ emitTimer.last_service \in Int
  BY DEF TypeOK, TimerType
<1>1. CASE Advance
  BY <1>0, <1>1 DEF Advance, TimeInv, loopVars
<1>2. CASE BeginService
  <2>1. now' = clock /\ loop' = "peers" /\ UNCHANGED <<clock, started, wake>>
    BY <1>2 DEF BeginService, Poll
  <2>2. loop = "drain"
    BY <1>2 DEF BeginService
  <2>3. CASE Due(emitTimer, clock)
    <3>1. emitTimer' = MarkServiced(emitTimer, clock)
      BY <1>2, <2>3 DEF BeginService, EmitIfDue, Poll
    <3>2. /\ MarkServiced(emitTimer, clock).last_service = clock
          /\ MarkServiced(emitTimer, clock).period_s = emitTimer.period_s
      <4>1. clock \in Int
        BY <1>0
      <4>2. QED BY <1>0, <4>1, AnchorsType
    <3>3. emitTimer'.last_service = clock /\ emitTimer'.period_s = EmitPeriod
      BY <3>1, <3>2 DEF TimeInv
    <3>4. QED BY <1>0, <2>1, <2>2, <3>3 DEF TimeInv
  <2>4. CASE ~Due(emitTimer, clock)
    <3>1. emitTimer' = emitTimer
      BY <1>2, <2>4 DEF BeginService, EmitIfDue, Poll
    <3>2. clock - emitTimer.last_service < EmitPeriod
      BY <1>0, <2>4 DEF Due, TimeInv
    <3>3. QED BY <1>0, <2>1, <2>2, <3>1, <3>2 DEF TimeInv
  <2>5. QED BY <2>3, <2>4
<1>3. CASE EndIteration
  <2> DEFINE left == SecondsUntilDue(emitTimer, clock)
  <2>1. left \in Nat /\ clock + left <= Larger(clock, emitTimer.last_service + EmitPeriod)
    BY <1>0 DEF SecondsUntilDue, AtLeastZero, Larger, TimeInv
  <2>2. SleepBudget \in Nat /\ SleepBudget <= left
    BY <2>1 DEF SleepBudget, AtLeastZero, Smaller
  <2>3. /\ loop = "publish" /\ loop' = "sleep" /\ wake' = clock + SleepBudget
        /\ UNCHANGED <<clock, emitTimer, started, now>>
    BY <1>3 DEF EndIteration
  <2> HIDE DEF left
  <2>4. clock - emitTimer.last_service <= EmitPeriod + StepMax
    BY <1>0, <2>3 DEF TimeInv
  <2>5. clock <= wake' /\ wake' - emitTimer.last_service <= EmitPeriod + StepMax
    BY <1>0, <2>1, <2>2, <2>3, <2>4 DEF Larger
  <2>6. QED BY <1>0, <2>3, <2>5 DEF TimeInv
<1>4. CASE Wake
  BY <1>0, <1>4 DEF Wake, TimeInv
<1>5. CASE EvaluatePeer \/ PublishResult
  BY <1>0, <1>5 DEF EvaluatePeer, PublishResult, TimeInv
<1>6. CASE EvaluateQuorum
  BY <1>0, <1>6 DEF EvaluateQuorum, TimeInv
<1>7. CASE (\E t \in HandlerThreads : Handle(t)) \/ UNCHANGED vars
  <2>1. UNCHANGED <<clock, emitTimer, loop, started, wake, now>>
    BY <1>7 DEF Handle, Discard, Accept, StoreSequence, RefreshPeer, vars, loopVars
  <2>2. QED BY <2>1 DEF TimeInv
<1>8. QED BY <1>1, <1>2, <1>3, <1>4, <1>5, <1>6, <1>7 DEF Next, ControlLoop

(* Our heartbeats are at most a period and two iterations apart, for every  *)
(* loop period, because the sleep is cut short by the emission timer.       *)
THEOREM BeaconOnTimeHolds == Spec => []BeaconOnTime
<1>1. TypeOK /\ TimeInv => BeaconOnTime
  <2> SUFFICES ASSUME TypeOK, TimeInv PROVE BeaconOnTime
    OBVIOUS
  <2>1. /\ clock \in Nat /\ started \in Nat /\ wake \in Nat /\ now \in Nat
        /\ emitTimer.last_service \in Int
        /\ loop \in {"drain", "peers", "publish", "sleep"}
    BY DEF TypeOK, TimerType
  <2>2. QED BY <2>1 DEF TimeInv, BeaconOnTime
<1>2. QED BY <1>1, TimeInvInit, TimeInvNext, HeartbeatTypeCorrect, PTL DEF Spec

-----------------------------------------------------------------------------
(* Every fresh heartbeat either has reached the peer's timer or is still in *)
(* the hands of a thread that will bring it there.                          *)

HeardInv ==
  \A p \in Peers :
    /\ peers[p].timer.expiry_s = PeerTimeout
    /\ heard[p] <= clock
    /\ heard[p] <= peers[p].timer.last_refresh \/ BeingRefreshed(p)

LEMMA HeardInvInit == Init => HeardInv
BY DEF Init, HeardInv, NewTimer

(* The handler's steps.                                                     *)
LEMMA HeardInvHandle ==
  ASSUME TypeOK, HeardInv, NEW t \in HandlerThreads, Handle(t)
  PROVE  HeardInv'
<1>0. /\ clock \in Nat /\ heard \in [Peers -> Nat] /\ peers \in [Peers -> PeerRecord]
      /\ at \in [HandlerThreads -> {"idle", "store", "refresh"}]
      /\ beat \in [HandlerThreads -> [peer : Peers \cup {None}, sequence : Int]]
      /\ \A p \in Peers : peers[p].timer \in TimerType
  BY DEF TypeOK, PeerRecord
<1>1. ASSUME NEW sender \in Peers \cup Strangers, NEW seq \in Payloads \cup {Malformed},
             Discard(t, sender, seq)
      PROVE  HeardInv'
  BY <1>1 DEF Discard, vars, handlerVars, HeardInv, BeingRefreshed
<1>2. ASSUME NEW sender \in Peers \cup Strangers, NEW seq \in Payloads \cup {Malformed},
             Accept(t, sender, seq)
      PROVE  HeardInv'
  <2>1. /\ sender \in Peers /\ at[t] = "idle" /\ peers' = peers /\ clock' = clock
        /\ at' = [at EXCEPT ![t] = "store"]
        /\ beat' = [beat EXCEPT ![t] = [peer |-> sender, sequence |-> seq]]
        /\ heard' = [heard EXCEPT ![sender] = clock]
    BY <1>2 DEF Accept, MayHandle
  <2>2. BeingRefreshed(sender)'
    BY <1>0, <2>1 DEF BeingRefreshed
  <2>3. \A p \in Peers : BeingRefreshed(p) => BeingRefreshed(p)'
    BY <1>0, <2>1 DEF BeingRefreshed
  <2>4. heard'[sender] = clock /\ \A p \in Peers \ {sender} : heard'[p] = heard[p]
    BY <1>0, <2>1
  <2>5. QED BY <1>0, <2>1, <2>2, <2>3, <2>4 DEF HeardInv
<1>3. CASE StoreSequence(t)
  <2>1. /\ at[t] = "store" /\ at' = [at EXCEPT ![t] = "refresh"]
        /\ UNCHANGED <<clock, heard, beat>>
        /\ peers' = [peers EXCEPT ![beat[t].peer].sequence = beat[t].sequence]
    BY <1>3 DEF StoreSequence
  <2>2. \A p \in Peers : peers'[p].timer = peers[p].timer
    BY <1>0, <2>1 DEF PeerRecord
  <2>3. \A p \in Peers : BeingRefreshed(p) => BeingRefreshed(p)'
    BY <1>0, <2>1 DEF BeingRefreshed
  <2>4. QED BY <2>1, <2>2, <2>3 DEF HeardInv
<1>4. CASE RefreshPeer(t)
  <2> DEFINE q == beat[t].peer
  <2>1. /\ at' = [at EXCEPT ![t] = "idle"]
        /\ beat' = [beat EXCEPT ![t] = NoBeat]
        /\ UNCHANGED <<clock, heard>>
        /\ peers' = [peers EXCEPT ![q].timer = Refresh(@, clock)]
    BY <1>4 DEF RefreshPeer
  <2>2. q \in Peers
    BY <1>4 DEF RefreshPeer, TypeOK
  <2>3. \A p \in Peers \ {q} : peers'[p] = peers[p] /\ (BeingRefreshed(p) => BeingRefreshed(p)')
    BY <1>0, <2>1 DEF BeingRefreshed
  <2>4. peers'[q].timer = Refresh(peers[q].timer, clock)
    BY <1>0, <2>1, <2>2 DEF PeerRecord
  <2>5. peers'[q].timer.last_refresh = clock /\ peers'[q].timer.expiry_s = peers[q].timer.expiry_s
    <3>1. clock \in Int /\ peers[q].timer \in TimerType
      BY <1>0, <2>2
    <3>2. QED BY <2>4, <3>1, AnchorsType
  <2> HIDE DEF q
  <2>6. QED BY <1>0, <2>1, <2>2, <2>3, <2>5 DEF HeardInv
<1>5. QED BY <1>1, <1>2, <1>3, <1>4 DEF Handle

(* The control loop only touches the live flag of a peer record.            *)
LEMMA HeardInvNext == TypeOK /\ HeardInv /\ [Next]_vars => HeardInv'
<1> SUFFICES ASSUME TypeOK, HeardInv, [Next]_vars PROVE HeardInv'
  OBVIOUS
<1>0. clock \in Nat /\ heard \in [Peers -> Nat] /\ peers \in [Peers -> PeerRecord]
  BY DEF TypeOK
<1>1. CASE EvaluatePeer
  <2>1. \A p \in Peers : peers'[p].timer = peers[p].timer
    BY <1>0, <1>1 DEF EvaluatePeer, PeerRecord
  <2>2. QED BY <1>1, <2>1 DEF EvaluatePeer, HeardInv, BeingRefreshed, handlerVars
<1>2. CASE Advance
  BY <1>0, <1>2 DEF Advance, HeardInv, BeingRefreshed, handlerVars
<1>3. CASE BeginService \/ EvaluateQuorum \/ PublishResult \/ EndIteration \/ Wake \/ UNCHANGED vars
  <2>1. UNCHANGED <<clock, peers, at, beat, heard>>
    BY <1>3 DEF BeginService, EvaluateQuorum, PublishResult, EndIteration, Wake, vars, handlerVars
  <2>2. QED BY <2>1 DEF HeardInv, BeingRefreshed
<1>4. QED BY <1>1, <1>2, <1>3, HeardInvHandle DEF Next, ControlLoop

(* Only the evaluation of a peer can take its live flag away.               *)
LEMMA LossIsAnExpiry ==
  ASSUME TypeOK, HeardInv, [Next]_vars,
         NEW p \in Peers, peers[p].live, ~peers'[p].live
  PROVE  now - heard[p] > PeerTimeout \/ BeingRefreshed(p)
<1>0. /\ peers \in [Peers -> PeerRecord] /\ now \in Nat /\ heard[p] \in Nat
      /\ peers[p].timer.last_refresh \in Int
  BY DEF TypeOK, PeerRecord, TimerType
<1>1. CASE EvaluatePeer
  <2> DEFINE e == PeerList[index]
             expired == Expired(peers[e].timer, now)
  <2>1. peers' = [peers EXCEPT ![e].live = ~expired]
    BY <1>1 DEF EvaluatePeer, Poll
  <2>2. p = e /\ expired
    BY <1>0, <2>1 DEF PeerRecord
  <2>3. now - peers[p].timer.last_refresh > PeerTimeout
    BY <2>2 DEF Expired, HeardInv
  <2>4. QED BY <1>0, <2>3 DEF HeardInv
<1>2. ASSUME NEW t \in HandlerThreads, Handle(t)
      PROVE  FALSE
  <2>1. peers'[p].live = peers[p].live
    BY <1>0, <1>2 DEF Handle, Discard, Accept, StoreSequence, RefreshPeer, PeerRecord, vars
  <2>2. QED BY <2>1
<1>3. CASE \/ Advance \/ BeginService \/ EvaluateQuorum \/ PublishResult
           \/ EndIteration \/ Wake \/ UNCHANGED vars
  <2>1. peers' = peers
    BY <1>3 DEF Advance, BeginService, EvaluateQuorum, PublishResult, EndIteration, Wake, vars
  <2>2. QED BY <2>1
<1>4. QED BY <1>1, <1>2, <1>3 DEF Next, ControlLoop

(* A peer is declared lost only after peer_timeout_s without a fresh        *)
(* heartbeat, or while a thread is about to refresh it, for any number of   *)
(* peers and however the two draining threads interleave.                   *)
THEOREM LostOnlyIfSilentHolds == Spec => LostOnlyIfSilent
<1>1. TypeOK /\ HeardInv /\ [Next]_vars =>
        [\A p \in Peers :
           peers[p].live /\ ~peers'[p].live
             => now - heard[p] > PeerTimeout \/ BeingRefreshed(p)]_vars
  BY LossIsAnExpiry
<1>2. Spec => []HeardInv
  BY HeardInvInit, HeardInvNext, HeartbeatTypeCorrect, PTL DEF Spec
<1>3. QED BY <1>1, <1>2, HeartbeatTypeCorrect, PTL DEF Spec, LostOnlyIfSilent

-----------------------------------------------------------------------------
(* What a heartbeat that passed the replay test knows of the peer record.   *)

GuardInv ==
  \A t \in HandlerThreads : at[t] = "store" => Fresh(beat[t].peer, beat[t].sequence)

(* No step but a handler's changes a sequence number.                       *)
LEMMA SequencesStay ==
  ASSUME TypeOK, [Next]_vars, ~\E t \in HandlerThreads : Handle(t)
  PROVE  /\ UNCHANGED <<at, beat>>
         /\ \A p \in Peers : peers'[p].sequence = peers[p].sequence
<1>1. CASE EvaluatePeer
  <2>0. peers \in [Peers -> PeerRecord]
    BY DEF TypeOK
  <2>1. \A p \in Peers : peers'[p].sequence = peers[p].sequence
    BY <2>0, <1>1 DEF EvaluatePeer, PeerRecord
  <2>2. QED BY <1>1, <2>1 DEF EvaluatePeer, handlerVars
<1>2. CASE ~EvaluatePeer
  BY <1>2 DEF Next, ControlLoop, Advance, BeginService, EvaluateQuorum, PublishResult,
              EndIteration, Wake, vars, handlerVars
<1>3. QED BY <1>1, <1>2

LEMMA GuardInvNext ==
  ASSUME \A t, u \in HandlerThreads : t = u
  PROVE  TypeOK /\ GuardInv /\ [Next]_vars => GuardInv'
<1> SUFFICES ASSUME TypeOK, GuardInv, [Next]_vars PROVE GuardInv'
  OBVIOUS
<1>0. /\ at \in [HandlerThreads -> {"idle", "store", "refresh"}]
      /\ beat \in [HandlerThreads -> [peer : Peers \cup {None}, sequence : Int]]
      /\ \A t \in HandlerThreads : at[t] # "idle" => beat[t].peer \in Peers
  BY DEF TypeOK
<1>1. ASSUME NEW t \in HandlerThreads, Handle(t)
      PROVE  GuardInv'
  <2>1. SUFFICES ASSUME at'[t] = "store"
                 PROVE  Fresh(beat[t].peer, beat[t].sequence)'
    <3>1. \A u \in HandlerThreads : u = t
      OBVIOUS
    <3>2. QED BY <3>1, <2>1 DEF GuardInv, Fresh
  <2>2. CASE \E sender \in Peers \cup Strangers, seq \in Payloads \cup {Malformed} :
               Accept(t, sender, seq)
    <3>1. PICK sender, seq : Accept(t, sender, seq)
      BY <2>2
    <3>2. Fresh(sender, seq) /\ peers' = peers /\ beat'[t] = [peer |-> sender, sequence |-> seq]
      BY <1>0, <3>1 DEF Accept
    <3>3. QED BY <3>2 DEF Fresh
  <2>3. CASE \E sender \in Peers \cup Strangers, seq \in Payloads \cup {Malformed} :
               Discard(t, sender, seq)
    BY <1>0, <2>1, <2>3 DEF Discard, MayHandle, vars, handlerVars
  <2>4. CASE StoreSequence(t) \/ RefreshPeer(t)
    BY <1>0, <2>1, <2>4 DEF StoreSequence, RefreshPeer
  <2>5. QED BY <1>1, <2>2, <2>3, <2>4 DEF Handle
<1>2. CASE ~\E t \in HandlerThreads : Handle(t)
  BY <1>0, <1>2, SequencesStay DEF GuardInv, Fresh
<1>3. QED BY <1>1, <1>2

(* Where the handler runs on one thread only, the replay guard does hold:   *)
(* what the test of on_peer_heartbeat found is still true when the sequence *)
(* is written.  Its violation takes the second draining thread.             *)
THEOREM ReplayGuardOnOneThread ==
  ASSUME \A t, u \in HandlerThreads : t = u
  PROVE  Spec => ReplayGuardHolds
<1>1. Init => GuardInv
  BY DEF Init, GuardInv
<1>2. TypeOK /\ GuardInv =>
        [\A t \in HandlerThreads :
           at[t] = "store" /\ at'[t] = "refresh" /\ beat[t].sequence >= 0
             => beat[t].sequence > peers[beat[t].peer].sequence]_vars
  <2> SUFFICES ASSUME TypeOK, GuardInv, NEW t \in HandlerThreads,
                      at[t] = "store", beat[t].sequence >= 0
               PROVE  beat[t].sequence > peers[beat[t].peer].sequence
    OBVIOUS
  <2>1. beat[t].sequence \in Int /\ peers[beat[t].peer].sequence \in Int
    BY DEF TypeOK, PeerRecord
  <2>2. QED BY <2>1 DEF GuardInv, Fresh
<1>3. QED BY <1>1, <1>2, GuardInvNext, HeartbeatTypeCorrect, PTL DEF Spec, ReplayGuardHolds

-----------------------------------------------------------------------------
(* What is gathered and what was published, against the peer records.  A    *)
(* subject's verdict is published or is waiting in results, once and as it  *)
(* still is: on_tick decides for a peer by its live flag, _evaluate_quorum  *)
(* by _last_published, and both agree only because of this.                 *)

VerdictOf(s) ==
  IF s \in Peers THEN IF peers[s].live THEN "OK" ELSE "FAULT" ELSE QuorumState

UpToDate(s) ==
  \/ lastPublished[s] = VerdictOf(s)
  \/ s \in Peers /\ lastPublished[s] = None /\ VerdictOf(s) = "OK"

Gathered(s) == \E i \in DOMAIN results : results[i].subject = s

Evaluated(s) == \E k \in DOMAIN PeerList : k < index /\ s = PeerList[k]

OncePerSubject ==
  \A i, j \in DOMAIN results : results[i].subject = results[j].subject => i = j

ResultsCurrent ==
  \A i \in DOMAIN results :
    results[i].state = VerdictOf(results[i].subject) /\ ~UpToDate(results[i].subject)

OnlyEvaluated == \A i \in DOMAIN results : Evaluated(results[i].subject)

VerdictInv ==
  /\ OncePerSubject
  /\ ResultsCurrent
  /\ \A p \in Peers : Gathered(p) \/ UpToDate(p)
  /\ \/ loop = "peers"
     \/ Gathered(QuorumSubject)
     \/ UpToDate(QuorumSubject)
     \/ loop = "drain" /\ sequence = 0
  /\ loop \in {"drain", "sleep"} => results = <<>>
  /\ loop = "peers" => OnlyEvaluated

LEMMA VerdictInvInit == Init => VerdictInv
<1> SUFFICES ASSUME Init PROVE VerdictInv
  OBVIOUS
<1>1. results = <<>> /\ DOMAIN results = {} /\ loop = "drain" /\ sequence = 0
  BY DEF Init
<1>2. \A p \in Peers : UpToDate(p)
  BY DEF Init, UpToDate, VerdictOf, Subjects
<1>3. QED BY <1>1, <1>2 DEF VerdictInv, OncePerSubject, ResultsCurrent

(* Append and Tail, element by element.                                     *)
LEMMA AppendAt ==
  ASSUME NEW S, NEW q \in Seq(S), NEW e \in S
  PROVE  /\ DOMAIN Append(q, e) = DOMAIN q \cup {Len(q) + 1}
         /\ Len(q) + 1 \notin DOMAIN q
         /\ Append(q, e)[Len(q) + 1] = e
         /\ \A i \in DOMAIN q : Append(q, e)[i] = q[i]
OBVIOUS

LEMMA TailAt ==
  ASSUME NEW S, NEW q \in Seq(S), q # <<>>
  PROVE  /\ 1 \in DOMAIN q /\ Head(q) = q[1]
         /\ \A i \in DOMAIN Tail(q) : i + 1 \in DOMAIN q /\ i \in Nat /\ i + 1 # 1 /\ Tail(q)[i] = q[i + 1]
         /\ \A i \in DOMAIN q : i = 1 \/ (i - 1 \in DOMAIN Tail(q) /\ Tail(q)[i - 1] = q[i])
OBVIOUS

(* Every step but an evaluation leaves the verdicts as they are.            *)
LEMMA VerdictsStay ==
  ASSUME TypeOK, [Next]_vars, ~EvaluatePeer
  PROVE  /\ \A p \in Peers : peers'[p].live = peers[p].live
         /\ \A s \in Subjects : VerdictOf(s)' = VerdictOf(s)
<1>0. peers \in [Peers -> PeerRecord]
  BY DEF TypeOK
<1>1. \A p \in Peers : peers'[p].live = peers[p].live
  <2>1. ASSUME NEW t \in HandlerThreads, Handle(t)
        PROVE  \A p \in Peers : peers'[p].live = peers[p].live
    BY <1>0, <2>1 DEF Handle, Discard, Accept, StoreSequence, RefreshPeer, PeerRecord, vars
  <2>2. CASE ~\E t \in HandlerThreads : Handle(t)
    <3>1. peers' = peers
      BY <2>2 DEF Next, ControlLoop, Advance, BeginService, EvaluateQuorum, PublishResult,
                  EndIteration, Wake, vars
    <3>2. QED BY <3>1
  <2>3. QED BY <2>1, <2>2
<1>2. LivePeers' = LivePeers
  BY <1>1 DEF LivePeers
<1>3. QuorumState' = QuorumState
  BY <1>2 DEF QuorumState
<1>4. QED BY <1>1, <1>3 DEF VerdictOf

(* A peer's evaluation: its own verdict and the quorum's may change.        *)
LEMMA VerdictInvEvaluatePeer ==
  ASSUME TypeOK, TypeOK', VerdictInv, EvaluatePeer
  PROVE  VerdictInv'
<1>0. /\ peers \in [Peers -> PeerRecord] /\ results \in Seq(ResultType)
      /\ lastPublished \in [Subjects -> States \cup {None}]
      /\ index \in Nat /\ index' = index + 1 /\ loop = "peers" /\ loop' = "peers"
      /\ lastPublished' = lastPublished
  BY DEF EvaluatePeer, TypeOK
<1>1. PICK e \in Peers : index \in DOMAIN PeerList /\ e = PeerList[index]
  <2>1. index \in DOMAIN PeerList
    BY <1>0, PeersAssumption DEF EvaluatePeer, TypeOK
  <2>2. QED BY <2>1 DEF Peers
<1>p. PICK live \in BOOLEAN : live = ~Poll(peers[e].timer, now).expired
  OBVIOUS
<1> DEFINE r == Result(e, IF live THEN "OK" ELSE "FAULT")
<1>2. /\ peers' = [peers EXCEPT ![e].live = live]
      /\ results' = IF live = peers[e].live THEN results ELSE Append(results, r)
  BY <1>1, <1>p DEF EvaluatePeer
<1>3. r \in ResultType /\ r.subject = e /\ r.state = IF live THEN "OK" ELSE "FAULT"
  BY DEF Result, ResultType, Subjects, States
<1>4. peers[e].live \in BOOLEAN
  BY <1>0 DEF PeerRecord
<1>c. /\ VerdictOf(e)' = r.state
      /\ \A p \in Peers : p # e => VerdictOf(p)' = VerdictOf(p)
      /\ (VerdictOf(e)' = VerdictOf(e)) <=> (live = peers[e].live)
  <2>1. peers'[e].live = live /\ \A p \in Peers : p # e => peers'[p] = peers[p]
    BY <1>0, <1>1, <1>2 DEF PeerRecord
  <2>2. VerdictOf(e)' = IF live THEN "OK" ELSE "FAULT"
    BY <1>1, <2>1 DEF VerdictOf
  <2>3. \A p \in Peers : p # e => VerdictOf(p)' = VerdictOf(p)
    BY <2>1 DEF VerdictOf
  <2>4. VerdictOf(e) = IF peers[e].live THEN "OK" ELSE "FAULT"
    BY <1>1 DEF VerdictOf
  <2> HIDE DEF r
  <2>5. (VerdictOf(e)' = VerdictOf(e)) <=> (live = peers[e].live)
    BY <1>4, <2>2, <2>4
  <2>6. QED BY <1>3, <2>2, <2>3, <2>5
<1> HIDE DEF r
(* The peer was not evaluated in this tick before.                          *)
<1>5. ~Gathered(e) /\ UpToDate(e)
  <2>1. ~Evaluated(e)
    BY <1>0, <1>1, PeersAssumption DEF Evaluated
  <2>2. QED BY <1>0, <1>1, <2>1 DEF VerdictInv, OnlyEvaluated, Gathered
<1>6. /\ \A i \in DOMAIN results : results[i] \in ResultType /\ results[i].subject \in Peers
                                     /\ results[i].subject # e
  <2>1. OnlyEvaluated
    BY <1>0 DEF VerdictInv
  <2>2. QED BY <1>0, <1>5, <2>1 DEF OnlyEvaluated, Evaluated, Peers, Gathered
<1>e. Evaluated(e)' /\ \A s : Evaluated(s) => Evaluated(s)'
  <2>1. DOMAIN PeerList \subseteq Nat
    BY PeersAssumption
  <2>2. QED BY <1>0, <1>1, <2>1 DEF Evaluated
<1>7. \A p \in Peers : p # e => UpToDate(p)' = UpToDate(p)
  BY <1>0, <1>c DEF UpToDate
<1>8. CASE results' = results /\ live = peers[e].live
  <2>1. UpToDate(e)'
    BY <1>0, <1>1, <1>5, <1>8, <1>c DEF UpToDate
  <2>2. \A s : Gathered(s)' = Gathered(s)
    BY <1>8 DEF Gathered
  <2>3. ResultsCurrent'
    BY <1>6, <1>7, <1>8, <1>c DEF VerdictInv, ResultsCurrent
  <2>4. OncePerSubject'
    BY <1>8 DEF VerdictInv, OncePerSubject
  <2>5. OnlyEvaluated'
    BY <1>0, <1>8, <1>e DEF VerdictInv, OnlyEvaluated
  <2>6. \A p \in Peers : Gathered(p)' \/ UpToDate(p)'
    BY <1>7, <2>1, <2>2 DEF VerdictInv
  <2>7. QED BY <1>0, <2>3, <2>4, <2>5, <2>6 DEF VerdictInv
<1>9. CASE results' = Append(results, r) /\ live # peers[e].live
  <2> DEFINE n == Len(results) + 1
  <2>1. /\ DOMAIN results' = DOMAIN results \cup {n} /\ n \notin DOMAIN results
        /\ results'[n] = r
        /\ \A i \in DOMAIN results : results'[i] = results[i]
    BY <1>0, <1>3, <1>9, AppendAt
  <2> HIDE DEF n
  <2>2. OncePerSubject'
    BY <1>3, <1>6, <2>1 DEF VerdictInv, OncePerSubject
  <2>3. Gathered(e)' /\ \A s : Gathered(s) => Gathered(s)'
    BY <1>3, <2>1 DEF Gathered
  <2>4. ~UpToDate(e)'
    BY <1>0, <1>1, <1>3, <1>5, <1>9, <1>c, NoneIsNoState DEF UpToDate, VerdictOf
  <2>5. ResultsCurrent'
    BY <1>3, <1>6, <1>7, <1>c, <2>1, <2>4 DEF VerdictInv, ResultsCurrent
  <2>6. OnlyEvaluated'
    BY <1>0, <1>3, <1>e, <2>1 DEF VerdictInv, OnlyEvaluated
  <2>7. \A p \in Peers : Gathered(p)' \/ UpToDate(p)'
    BY <1>7, <2>3 DEF VerdictInv
  <2>8. QED BY <1>0, <2>2, <2>5, <2>6, <2>7 DEF VerdictInv
<1>10. QED BY <1>2, <1>8, <1>9

(* The quorum's evaluation, which adds the quorum's result to the peers'.   *)
LEMMA VerdictInvEvaluateQuorum ==
  ASSUME TypeOK, VerdictInv, EvaluateQuorum,
         \A s \in Subjects : VerdictOf(s)' = VerdictOf(s)
  PROVE  VerdictInv'
<1>0. /\ results \in Seq(ResultType) /\ loop = "peers" /\ loop' = "publish"
      /\ lastPublished' = lastPublished
  BY DEF EvaluateQuorum, TypeOK
<1>1. QuorumSubject \in Subjects /\ VerdictOf(QuorumSubject) = QuorumState
  BY PeersAssumption DEF VerdictOf, Subjects
<1>2. /\ \A s \in Subjects : UpToDate(s)' = UpToDate(s)
      /\ UpToDate(QuorumSubject) <=> lastPublished[QuorumSubject] = QuorumState
  BY <1>0, <1>1, PeersAssumption DEF UpToDate
<1>3. \A i \in DOMAIN results : results[i].subject \in Peers
  BY <1>0 DEF VerdictInv, OnlyEvaluated, Evaluated, Peers
<1>4. CASE lastPublished[QuorumSubject] = QuorumState /\ results' = results
  <2>1. \A s : Gathered(s)' = Gathered(s)
    BY <1>4 DEF Gathered
  <2>2. ResultsCurrent' /\ OncePerSubject'
    BY <1>2, <1>3, <1>4 DEF VerdictInv, ResultsCurrent, OncePerSubject, Subjects
  <2>3. QED BY <1>0, <1>1, <1>2, <1>4, <2>1, <2>2 DEF VerdictInv, Subjects
<1>5. CASE /\ lastPublished[QuorumSubject] # QuorumState
           /\ results' = Append(results, Result(QuorumSubject, QuorumState))
  <2>1. PICK r \in ResultType : r.subject = QuorumSubject /\ r.state = QuorumState
                                  /\ results' = Append(results, r)
    BY <1>5 DEF Result, ResultType, QuorumState, Subjects, States
  <2> DEFINE n == Len(results) + 1
  <2>2. /\ DOMAIN results' = DOMAIN results \cup {n} /\ n \notin DOMAIN results
        /\ results'[n] = r
        /\ \A i \in DOMAIN results : results'[i] = results[i]
    BY <1>0, <2>1, AppendAt
  <2> HIDE DEF n
  <2>3. OncePerSubject'
    BY <1>3, <2>1, <2>2, PeersAssumption DEF VerdictInv, OncePerSubject
  <2>4. ResultsCurrent'
    BY <1>1, <1>2, <1>3, <1>5, <2>1, <2>2 DEF VerdictInv, ResultsCurrent, Subjects
  <2>5. Gathered(QuorumSubject)' /\ \A s : Gathered(s) => Gathered(s)'
    BY <2>1, <2>2 DEF Gathered
  <2>6. QED BY <1>0, <1>2, <2>3, <2>4, <2>5 DEF VerdictInv, Subjects
<1>6. QED BY <1>4, <1>5 DEF EvaluateQuorum

(* The first result is published; the others are about other subjects.      *)
LEMMA VerdictInvPublish ==
  ASSUME TypeOK, VerdictInv, PublishResult,
         \A s \in Subjects : VerdictOf(s)' = VerdictOf(s)
  PROVE  VerdictInv'
<1>0. /\ results \in Seq(ResultType) /\ results # <<>> /\ results' = Tail(results)
      /\ loop = "publish" /\ loop' = "publish"
      /\ lastPublished \in [Subjects -> States \cup {None}]
  BY DEF PublishResult, TypeOK
<1>1. PICK r \in ResultType : r = Head(results)
  BY <1>0, QueueType
<1>2. /\ 1 \in DOMAIN results /\ r = results[1]
      /\ \A i \in DOMAIN results' : i + 1 \in DOMAIN results /\ i \in Nat /\ i + 1 # 1
                                      /\ results'[i] = results[i + 1]
      /\ \A i \in DOMAIN results : i = 1 \/ (i - 1 \in DOMAIN results' /\ results'[i - 1] = results[i])
  BY <1>0, <1>1, TailAt
<1>3. r.subject \in Subjects /\ r.state = VerdictOf(r.subject)
  BY <1>2 DEF VerdictInv, ResultsCurrent, ResultType
<1>4. lastPublished' = [lastPublished EXCEPT ![r.subject] = r.state]
  BY <1>1 DEF PublishResult
<1>5. UpToDate(r.subject)' /\ \A s \in Subjects : s # r.subject => UpToDate(s)' = UpToDate(s)
  BY <1>0, <1>3, <1>4 DEF UpToDate
<1>6. \A s : s # r.subject => Gathered(s)' = Gathered(s)
  BY <1>2 DEF Gathered
<1>7. OncePerSubject'
  <2> SUFFICES ASSUME NEW i \in DOMAIN results', NEW k \in DOMAIN results',
                      results'[i].subject = results'[k].subject
               PROVE  i = k
    BY DEF OncePerSubject
  <2>1. i + 1 = k + 1
    BY <1>2 DEF VerdictInv, OncePerSubject
  <2>2. QED BY <1>2, <2>1
<1>8. ResultsCurrent'
  <2> SUFFICES ASSUME NEW i \in DOMAIN results'
               PROVE  (results[i].state = VerdictOf(results[i].subject) /\ ~UpToDate(results[i].subject))'
    BY DEF ResultsCurrent
  <2>1. PICK s \in Subjects : s = results'[i].subject /\ s # r.subject
    <3>1. results[i + 1].subject \in Subjects
      <4>1. results[i + 1] \in ResultType
        BY <1>0, <1>2, ElementType
      <4>2. QED BY <4>1 DEF ResultType
    <3>2. results[i + 1].subject # r.subject
      BY <1>2 DEF VerdictInv, OncePerSubject
    <3>3. QED BY <1>2, <3>1, <3>2
  <2>2. results'[i].state = VerdictOf(s) /\ ~UpToDate(s)
    BY <1>2, <2>1 DEF VerdictInv, ResultsCurrent
  <2>3. results'[i].state = VerdictOf(s)' /\ ~UpToDate(s)'
    BY <1>5, <2>1, <2>2
  <2>4. QED BY <2>1, <2>3
<1>9. \A s \in Subjects : (Gathered(s) \/ UpToDate(s)) => (Gathered(s)' \/ UpToDate(s)')
  BY <1>5, <1>6
<1>10. QED BY <1>0, <1>7, <1>8, <1>9 DEF VerdictInv, Subjects

LEMMA VerdictInvNext == TypeOK /\ TypeOK' /\ VerdictInv /\ [Next]_vars => VerdictInv'
<1> SUFFICES ASSUME TypeOK, TypeOK', VerdictInv, [Next]_vars PROVE VerdictInv'
  OBVIOUS
<1>1. CASE EvaluatePeer
  BY <1>1, VerdictInvEvaluatePeer
<1>2. CASE ~EvaluatePeer
  <2>1. \A s \in Subjects : VerdictOf(s)' = VerdictOf(s)
    BY <1>2, VerdictsStay
  <2>2. CASE EvaluateQuorum
    BY <2>1, <2>2, VerdictInvEvaluateQuorum
  <2>3. CASE PublishResult
    BY <2>1, <2>3, VerdictInvPublish
  <2>4. CASE ~EvaluateQuorum /\ ~PublishResult
    <3>0. UNCHANGED <<lastPublished, results>>
      BY <1>2, <2>4
         DEF Next, ControlLoop, Advance, Handle, Discard, Accept, StoreSequence, RefreshPeer,
             BeginService, EndIteration, Wake, vars, loopVars
    <3>1. \A s \in Subjects : UpToDate(s)' = UpToDate(s)
      BY <2>1, <3>0 DEF UpToDate
    <3>2. \A s : Gathered(s)' = Gathered(s)
      BY <3>0 DEF Gathered
    <3>3. OncePerSubject'
      BY <3>0 DEF VerdictInv, OncePerSubject
    <3>4. ResultsCurrent'
      <4>1. \A i \in DOMAIN results : results[i].subject \in Subjects
        <5>1. \A i \in DOMAIN results : results[i] \in ResultType
          BY ElementType DEF TypeOK
        <5>2. QED BY <5>1 DEF ResultType
      <4>2. QED BY <2>1, <3>0, <3>1, <4>1 DEF VerdictInv, ResultsCurrent
    <3>5. \A p \in Peers : (Gathered(p) \/ UpToDate(p))'
      BY <3>1, <3>2 DEF VerdictInv, Subjects
    <3>6. QuorumSubject \in Subjects
      BY DEF Subjects
    <3>7. CASE UNCHANGED <<loop, sequence, index>>
      BY <3>0, <3>1, <3>2, <3>3, <3>4, <3>5, <3>6, <3>7 DEF VerdictInv, OnlyEvaluated, Evaluated
    <3>8. CASE BeginService
      BY <3>0, <3>3, <3>4, <3>5, <3>8 DEF BeginService, VerdictInv, OnlyEvaluated
    <3>9. CASE EndIteration \/ Wake
      <4>1. results = <<>> /\ results' = <<>> /\ loop' \in {"drain", "sleep"}
            /\ loop \in {"publish", "sleep"}
        BY <3>0, <3>9 DEF EndIteration, Wake, VerdictInv
      <4>2. ~Gathered(QuorumSubject)
        BY <4>1 DEF Gathered
      <4>3. UpToDate(QuorumSubject)
        BY <4>1, <4>2 DEF VerdictInv
      <4>4. QED BY <3>1, <3>3, <3>4, <3>5, <3>6, <4>1, <4>3 DEF VerdictInv
    <3>10. QED
      BY <1>2, <2>4, <3>7, <3>8, <3>9
         DEF Next, ControlLoop, Advance, Handle, Discard, Accept, StoreSequence, RefreshPeer, vars, loopVars
  <2>5. QED BY <2>2, <2>3, <2>4
<1>3. QED BY <1>1, <1>2

LEMMA VerdictsHold == Spec => []VerdictInv
<1>1. QED BY VerdictInvInit, VerdictInvNext, HeartbeatTypeCorrect, PTL DEF Spec

(* Only transitions are published, and a peer's first one is its loss, for  *)
(* any number of peers and any quorum.                                      *)
THEOREM TransitionsOnlyHolds == Spec => TransitionsOnly
<1>1. TypeOK /\ VerdictInv =>
        [\A s \in Subjects :
           loop = "publish" /\ results # <<>> /\ Head(results).subject = s
             => /\ Head(results).state # lastPublished[s]
                /\ s # QuorumSubject /\ lastPublished[s] = None
                     => Head(results).state = "FAULT"]_results
  <2> SUFFICES ASSUME TypeOK, VerdictInv, results # <<>>,
                      NEW s \in Subjects, Head(results).subject = s
               PROVE  /\ Head(results).state # lastPublished[s]
                      /\ s # QuorumSubject /\ lastPublished[s] = None
                           => Head(results).state = "FAULT"
    OBVIOUS
  <2>1. 1 \in DOMAIN results /\ Head(results) = results[1]
    BY TailAt DEF TypeOK
  <2>2. Head(results).state = VerdictOf(s) /\ ~UpToDate(s)
    BY <2>1 DEF VerdictInv, ResultsCurrent
  <2>3. QED BY <2>2 DEF UpToDate, VerdictOf, Subjects
<1>2. QED BY <1>1, VerdictsHold, HeartbeatTypeCorrect, PTL DEF TransitionsOnly

(* While the bus accepts every result, its subscribers know what was        *)
(* published last.                                                          *)
LEMMA AnnouncedIsPublished ==
  ASSUME ~BusMayDrop
  PROVE  Spec => [](announced = lastPublished)
<1>1. Init => announced = lastPublished
  BY DEF Init
<1>2. announced = lastPublished /\ [Next]_vars => (announced = lastPublished)'
  BY DEF Next, ControlLoop, Advance, Handle, Discard, Accept, StoreSequence, RefreshPeer,
         BeginService, EvaluatePeer, EvaluateQuorum, PublishResult, EndIteration, Wake, vars
<1>3. QED BY <1>1, <1>2, PTL DEF Spec

LEMMA LivePeersCounted == Cardinality(LivePeers) \in Nat
<1>1. PeerList \in Surjection(DOMAIN PeerList, Peers)
  BY PeersAssumption DEF Surjection, Peers
<1>2. IsFiniteSet(DOMAIN PeerList)
  <2>1. Len(PeerList) \in Nat /\ DOMAIN PeerList = 1 .. Len(PeerList)
    BY PeersAssumption
  <2>2. QED BY <2>1, FS_Interval
<1>3. IsFiniteSet(Peers)
  BY <1>1, <1>2, FS_Surjection
<1>4. LivePeers \in SUBSET Peers
  BY DEF LivePeers
<1>5. QED BY <1>3, <1>4, FS_Subset, FS_CardinalityType

(* On a bus that accepts every result the subscribers are told exactly the  *)
(* peers that are lost and whether the quorum is, after every service.      *)
THEOREM SubscribersInformedHolds ==
  ASSUME ~BusMayDrop
  PROVE  Spec => []SubscribersInformed
<1>1. TypeOK /\ VerdictInv /\ announced = lastPublished => SubscribersInformed
  <2> SUFFICES ASSUME TypeOK, VerdictInv, announced = lastPublished,
                      loop \in {"drain", "sleep"}, sequence > 0
               PROVE  /\ \A p \in Peers : announced[p] = "FAULT" <=> ~peers[p].live
                      /\ announced[QuorumSubject] =
                           IF Cardinality(LivePeers) < QuorumMinLive THEN "FAULT" ELSE "OK"
    BY DEF SubscribersInformed
  <2>1. results = <<>> /\ \A s : ~Gathered(s)
    BY DEF VerdictInv, Gathered
  <2>2. \A p \in Peers : UpToDate(p)
    BY <2>1 DEF VerdictInv
  <2>3. UpToDate(QuorumSubject)
    BY <2>1 DEF VerdictInv, TypeOK
  <2>4. announced[QuorumSubject] = QuorumState
    BY <2>3, PeersAssumption DEF UpToDate, VerdictOf
  <2>5. \A p \in Peers : announced[p] = "FAULT" <=> ~peers[p].live
    BY <2>2, NoneIsNoState DEF UpToDate, VerdictOf
  <2>6. QED BY <2>4, <2>5, LivePeersCounted, QuorumAssumption DEF QuorumState
<1>2. QED BY <1>1, AnnouncedIsPublished, VerdictsHold, HeartbeatTypeCorrect, PTL

-----------------------------------------------------------------------------
(* How old a peer's last refresh may be.  A peer that the tick examined and *)
(* found live was refreshed within its window of the tick; the next service *)
(* begins at most Spare after the tick, so a peer whose fault is not        *)
(* published is at most that much older when it begins.                     *)

Spare == Larger(EmitPeriod, StepMax)

Examined(p) == loop \in {"publish", "sleep"} \/ (loop = "peers" /\ Evaluated(p))

LastRefresh(p) == peers[p].timer.last_refresh

LossInv ==
  /\ now <= clock
  /\ loop = "sleep" => wake <= now + Spare
  /\ \A p \in Peers :
       /\ LastRefresh(p) <= clock
       /\ loop # "sleep" => \/ started - LastRefresh(p) <= PeerTimeout + Spare
                            \/ lastPublished[p] = "FAULT"
       /\ Examined(p) /\ VerdictOf(p) = "OK" => now - LastRefresh(p) <= PeerTimeout

LEMMA SpareType == Spare \in Nat /\ EmitPeriod <= Spare /\ StepMax <= Spare
BY DEF Spare, Larger

LEMMA LossInvInit == Init => LossInv
<1> SUFFICES ASSUME Init PROVE LossInv
  OBVIOUS
<1>1. \A p \in Peers : LastRefresh(p) = 0
  BY DEF Init, LastRefresh, NewTimer
<1>2. clock = 0 /\ now = 0 /\ started = 0 /\ loop = "drain"
  BY DEF Init
<1>3. QED BY <1>1, <1>2, SpareType DEF LossInv, Examined

(* A refresh is never older than the one before.                            *)
LEMMA RefreshesAdvance ==
  ASSUME TypeOK, LossInv, [Next]_vars
  PROVE  \A p \in Peers : /\ LastRefresh(p) \in Int /\ LastRefresh(p)' \in Int
                          /\ LastRefresh(p) <= LastRefresh(p)'
                          /\ LastRefresh(p)' <= clock'
                          /\ ~(\E t \in HandlerThreads : Handle(t)) => LastRefresh(p)' = LastRefresh(p)
<1>0. /\ clock \in Nat /\ peers \in [Peers -> PeerRecord]
      /\ \A p \in Peers : LastRefresh(p) \in Int /\ LastRefresh(p) <= clock
  BY DEF TypeOK, PeerRecord, TimerType, LastRefresh, LossInv
<1>1. CASE EvaluatePeer
  <2>1. clock' = clock /\ \A p \in Peers : LastRefresh(p)' = LastRefresh(p)
    BY <1>0, <1>1 DEF EvaluatePeer, PeerRecord, LastRefresh
  <2>2. QED BY <1>0, <2>1
<1>2. ASSUME NEW t \in HandlerThreads, Handle(t)
      PROVE  /\ clock' = clock
             /\ \A p \in Peers : LastRefresh(p)' \in {LastRefresh(p), clock}
  <2>1. CASE \E sender \in Peers \cup Strangers, seq \in Payloads \cup {Malformed} :
               Discard(t, sender, seq) \/ Accept(t, sender, seq)
    BY <2>1 DEF Discard, Accept, vars, LastRefresh
  <2>2. CASE StoreSequence(t)
    BY <1>0, <2>2 DEF StoreSequence, PeerRecord, LastRefresh
  <2>3. CASE RefreshPeer(t)
    <3>1. /\ clock' = clock
          /\ peers' = [peers EXCEPT ![beat[t].peer].timer = Refresh(@, clock)]
      BY <2>3 DEF RefreshPeer
    <3> SUFFICES ASSUME NEW p \in Peers PROVE LastRefresh(p)' \in {LastRefresh(p), clock}
      BY <3>1
    <3>2. peers'[p].timer \in {peers[p].timer, Refresh(peers[p].timer, clock)}
      BY <1>0, <3>1 DEF PeerRecord
    <3>3. Refresh(peers[p].timer, clock).last_refresh = clock
      <4>1. peers[p].timer \in TimerType /\ clock \in Int
        BY <1>0 DEF PeerRecord
      <4>2. QED BY <4>1, AnchorsType
    <3>4. QED BY <3>2, <3>3 DEF LastRefresh
  <2>4. QED BY <1>2, <2>1, <2>2, <2>3 DEF Handle
<1>3. CASE \/ Advance \/ BeginService \/ EvaluateQuorum \/ PublishResult
           \/ EndIteration \/ Wake \/ UNCHANGED vars
  <2>1. peers' = peers /\ clock' \in {clock, clock + 1}
    BY <1>3 DEF Advance, BeginService, EvaluateQuorum, PublishResult, EndIteration, Wake, vars
  <2>2. QED BY <1>0, <2>1 DEF LastRefresh
<1>4. CASE \E t \in HandlerThreads : Handle(t)
  BY <1>0, <1>2, <1>4
<1>5. QED BY <1>1, <1>3, <1>4 DEF Next, ControlLoop

LEMMA LossInvNext ==
  TypeOK /\ TypeOK' /\ TimeInv /\ HeardInv /\ VerdictInv /\ LossInv /\ [Next]_vars => LossInv'
<1> SUFFICES ASSUME TypeOK, TypeOK', TimeInv, HeardInv, VerdictInv, LossInv, [Next]_vars
             PROVE  LossInv'
  OBVIOUS
<1>0. /\ clock \in Nat /\ started \in Nat /\ wake \in Nat /\ now \in Nat
      /\ clock' \in Nat /\ started' \in Nat /\ wake' \in Nat /\ now' \in Nat
      /\ Spare \in Nat
      /\ loop \in {"drain", "peers", "publish", "sleep"}
  BY SpareType DEF TypeOK
<1>1. \A p \in Peers : /\ LastRefresh(p) \in Int /\ LastRefresh(p)' \in Int
                       /\ LastRefresh(p) <= LastRefresh(p)'
                       /\ LastRefresh(p)' <= clock'
  BY RefreshesAdvance
(* Steps after which the loop, its times and what was published are as      *)
(* before.                                                                  *)
<1>2. CASE UNCHANGED <<started, wake, now, index, loop, lastPublished>> /\ ~EvaluatePeer
  <2>1. clock <= clock'
    <3>1. CASE Advance
      BY <1>0, <3>1 DEF Advance
    <3>2. CASE ~Advance
      <4>1. clock' = clock
        BY <3>2 DEF Next, ControlLoop, Handle, Discard, Accept, StoreSequence, RefreshPeer,
                    BeginService, EvaluatePeer, EvaluateQuorum, PublishResult, EndIteration,
                    Wake, vars
      <4>2. QED BY <1>0, <4>1
    <3>3. QED BY <3>1, <3>2
  <2>2. \A p \in Peers : VerdictOf(p)' = VerdictOf(p)
    BY <1>2, VerdictsStay DEF Subjects
  <2>3. \A p \in Peers : Examined(p)' = Examined(p)
    BY <1>2 DEF Examined, Evaluated
  <2>4. QED BY <1>0, <1>1, <1>2, <2>1, <2>2, <2>3 DEF LossInv
<1>3. CASE BeginService
  <2>1. /\ now' = clock /\ loop' = "peers" /\ loop = "drain" /\ index' = 1
        /\ UNCHANGED <<clock, started, wake, lastPublished>>
    BY <1>3 DEF BeginService, Poll
  <2>2. \A p : ~Examined(p)'
    BY <2>1, PeersAssumption DEF Examined, Evaluated
  <2>3. QED BY <1>0, <1>1, <2>1, <2>2 DEF LossInv
<1>4. CASE EvaluatePeer
  <2>1. /\ index' = index + 1 /\ index \in Nat /\ loop' = "peers" /\ loop = "peers"
        /\ UNCHANGED <<clock, now, started, wake, lastPublished>>
        /\ peers \in [Peers -> PeerRecord]
    BY <1>4 DEF EvaluatePeer, TypeOK
  <2>2. \A p \in Peers : Examined(p)' => Evaluated(p) \/ p = PeerList[index]
    <3>1. DOMAIN PeerList \subseteq Nat
      BY PeersAssumption
    <3>2. QED BY <2>1, <3>1 DEF Examined, Evaluated
  <2>3. ASSUME NEW p \in Peers, Examined(p)', VerdictOf(p)' = "OK"
        PROVE  now - LastRefresh(p) <= PeerTimeout
    <3>1. CASE p = PeerList[index]
      <4>1. peers'[p].live = ~Expired(peers[p].timer, now)
        BY <1>4, <2>1, <3>1 DEF EvaluatePeer, Poll, PeerRecord
      <4>2. peers'[p].live
        BY <2>3 DEF VerdictOf
      <4>3. ~Expired(peers[p].timer, now)
        BY <4>1, <4>2
      <4>4. peers[p].timer.expiry_s = PeerTimeout /\ PeerTimeout # None
        BY DEF HeardInv
      <4>5. QED BY <1>0, <1>1, <4>3, <4>4 DEF Expired, LastRefresh
    <3>2. CASE p # PeerList[index]
      <4>1. peers'[p] = peers[p]
        BY <1>4, <2>1, <3>2 DEF EvaluatePeer
      <4>2. VerdictOf(p) = "OK" /\ Examined(p)
        BY <2>1, <2>2, <2>3, <3>2, <4>1 DEF VerdictOf, Examined
      <4>3. QED BY <4>2 DEF LossInv
    <3>3. QED BY <3>1, <3>2
  <2>4. QED BY <1>0, <1>1, <2>1, <2>3 DEF LossInv
<1>5. CASE EvaluateQuorum
  <2>1. /\ loop = "peers" /\ loop' = "publish"
        /\ UNCHANGED <<clock, now, started, wake, lastPublished, peers>>
    BY <1>5 DEF EvaluateQuorum
  <2>2. \A p \in Peers : Examined(p)
    <3>1. index \in Nat /\ index > Len(PeerList) /\ DOMAIN PeerList = 1 .. Len(PeerList)
          /\ Len(PeerList) \in Nat
      BY <1>5, PeersAssumption DEF EvaluateQuorum, TypeOK
    <3>2. QED BY <2>1, <3>1 DEF Examined, Evaluated, Peers
  <2>3. \A p \in Peers : VerdictOf(p)' = VerdictOf(p)
    BY <2>1 DEF VerdictOf
  <2>4. QED BY <1>0, <1>1, <2>1, <2>2, <2>3 DEF LossInv
<1>6. CASE PublishResult
  <2>1. /\ loop = "publish" /\ loop' = "publish" /\ peers' = peers
        /\ UNCHANGED <<clock, now, started, wake>>
    BY <1>6 DEF PublishResult
  <2>2. \A p \in Peers : VerdictOf(p)' = VerdictOf(p) /\ Examined(p) /\ Examined(p)'
    BY <2>1 DEF VerdictOf, Examined
  (* A peer reported OK was refreshed in time for the tick.                 *)
  <2>3. ASSUME NEW p \in Peers
        PROVE  started - LastRefresh(p) <= PeerTimeout + Spare \/ lastPublished'[p] = "FAULT"
    <3>1. CASE lastPublished'[p] = lastPublished[p]
      BY <2>1, <3>1 DEF LossInv
    <3>2. CASE lastPublished'[p] # lastPublished[p]
      <4>1. 1 \in DOMAIN results /\ Head(results) = results[1]
        BY <1>6, TailAt DEF PublishResult, TypeOK
      <4>2. p = results[1].subject /\ lastPublished'[p] = results[1].state
        BY <1>6, <3>2, <4>1 DEF PublishResult, TypeOK, Subjects
      <4>3. lastPublished'[p] = VerdictOf(p)
        BY <4>1, <4>2 DEF VerdictInv, ResultsCurrent
      <4>4. CASE VerdictOf(p) = "OK"
        <5>1. now - LastRefresh(p) <= PeerTimeout /\ started <= now
          BY <2>1, <2>2, <4>4 DEF LossInv, TimeInv
        <5>2. QED BY <1>0, <1>1, <5>1
      <4>5. QED BY <4>3, <4>4 DEF VerdictOf
    <3>3. QED BY <3>1, <3>2
  <2>4. \A p \in Peers : LastRefresh(p)' = LastRefresh(p)
    BY <2>1 DEF LastRefresh
  <2>5. QED BY <1>0, <1>1, <2>1, <2>2, <2>3, <2>4 DEF LossInv
<1>7. CASE EndIteration
  <2>1. /\ loop = "publish" /\ loop' = "sleep" /\ wake' = clock + SleepBudget
        /\ UNCHANGED <<clock, now, started, peers, lastPublished>>
    BY <1>7 DEF EndIteration
  <2>2. emitTimer.last_service \in Int /\ emitTimer.period_s = EmitPeriod
    BY DEF TypeOK, TimerType, TimeInv
  <2>3. clock <= now + Spare /\ emitTimer.last_service + EmitPeriod <= now + Spare
    BY <1>0, <2>1, <2>2, SpareType DEF TimeInv
  <2>4. /\ SecondsUntilDue(emitTimer, clock) \in Nat
        /\ clock + SecondsUntilDue(emitTimer, clock) <= now + Spare
    BY <1>0, <2>2, <2>3 DEF SecondsUntilDue, AtLeastZero
  <2>5. SleepBudget \in Nat /\ SleepBudget <= SecondsUntilDue(emitTimer, clock)
    BY <2>4 DEF SleepBudget, AtLeastZero, Smaller
  <2>6. wake' <= now + Spare
    BY <1>0, <2>1, <2>4, <2>5
  <2>7. \A p \in Peers : VerdictOf(p)' = VerdictOf(p) /\ Examined(p)
    BY <2>1 DEF VerdictOf, Examined
  <2>8. QED BY <1>0, <1>1, <2>1, <2>6, <2>7 DEF LossInv
<1>8. CASE Wake
  <2>1. /\ loop = "sleep" /\ loop' = "drain" /\ started' = clock /\ clock >= wake
        /\ UNCHANGED <<clock, now, wake, peers, lastPublished, results>>
    BY <1>8 DEF Wake
  <2>2. clock <= now + Spare
    BY <1>0, <2>1 DEF LossInv, TimeInv
  <2>3. ASSUME NEW p \in Peers
        PROVE  clock - LastRefresh(p) <= PeerTimeout + Spare \/ lastPublished[p] = "FAULT"
    <3>1. CASE VerdictOf(p) = "OK"
      <4>1. now - LastRefresh(p) <= PeerTimeout
        BY <2>1, <3>1 DEF LossInv, Examined
      <4>2. QED BY <1>0, <1>1, <2>2, <4>1
    <3>2. CASE VerdictOf(p) # "OK"
      <4>1. UpToDate(p)
        BY <2>1 DEF VerdictInv, Gathered
      <4>2. QED BY <3>2, <4>1 DEF UpToDate, VerdictOf
    <3>3. QED BY <3>1, <3>2
  <2>4. \A p \in Peers : ~Examined(p)' /\ LastRefresh(p)' = LastRefresh(p)
    BY <2>1 DEF Examined, LastRefresh
  <2>5. QED BY <1>0, <1>1, <2>1, <2>3, <2>4 DEF LossInv
<1>9. QED
  BY <1>2, <1>3, <1>4, <1>5, <1>6, <1>7, <1>8
     DEF Next, ControlLoop, Advance, Handle, Discard, Accept, StoreSequence, RefreshPeer,
         EvaluatePeer, vars, loopVars

(* A silent peer's fault is published within its window, one emission       *)
(* period or iteration, and one iteration more, for every period and        *)
(* window, although no sleep looks at the peer timers.                      *)
THEOREM LossPublishedInTimeHolds == Spec => []LossPublishedInTime
<1>1. TypeOK /\ TimeInv /\ VerdictInv /\ LossInv => LossPublishedInTime
  <2> SUFFICES ASSUME TypeOK, TimeInv, VerdictInv, LossInv, NEW p \in Peers,
                      clock - LastRefresh(p) > PeerTimeout + Spare + StepMax
               PROVE  lastPublished[p] = "FAULT"
    BY DEF LossPublishedInTime, LastRefresh, Spare
  <2>0. /\ clock \in Nat /\ started \in Nat /\ wake \in Nat /\ now \in Nat
        /\ LastRefresh(p) \in Int /\ Spare \in Nat
    BY SpareType DEF TypeOK, PeerRecord, TimerType, LastRefresh
  <2>1. CASE loop # "sleep"
    <3>1. started - LastRefresh(p) <= PeerTimeout + Spare \/ lastPublished[p] = "FAULT"
      BY <2>1 DEF LossInv
    <3>2. clock <= started + StepMax
      BY <2>1 DEF TimeInv
    <3>3. QED BY <2>0, <3>1, <3>2
  <2>2. CASE loop = "sleep"
    <3>1. clock <= now + Spare
      BY <2>0, <2>2 DEF TimeInv, LossInv
    <3>2. VerdictOf(p) # "OK"
      <4>1. Examined(p)
        BY <2>2 DEF Examined
      <4>2. VerdictOf(p) = "OK" => now - LastRefresh(p) <= PeerTimeout
        BY <4>1 DEF LossInv
      <4>3. QED BY <2>0, <3>1, <4>2
    <3>3. UpToDate(p)
      BY <2>2 DEF VerdictInv, Gathered
    <3>4. QED BY <3>2, <3>3 DEF UpToDate, VerdictOf
  <2>3. QED BY <2>1, <2>2
<1>2. Spec => []TimeInv /\ []HeardInv
  BY TimeInvInit, TimeInvNext, HeardInvInit, HeardInvNext, HeartbeatTypeCorrect, PTL DEF Spec
<1>3. Spec => []LossInv
  BY <1>2, LossInvInit, LossInvNext, VerdictsHold, HeartbeatTypeCorrect, PTL DEF Spec
<1>4. QED BY <1>1, <1>2, <1>3, VerdictsHold, HeartbeatTypeCorrect, PTL
=============================================================================

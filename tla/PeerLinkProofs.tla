--------------------------- MODULE PeerLinkProofs ---------------------------
(***************************************************************************)
(* Proofs about the link to a peer: a peer that is down is declared lost   *)
(* in bounded time, one whose heartbeats are merely late never is, and one *)
(* that was restarted is live once it has counted past its old number, for *)
(* any periods, windows and delays, and for a clock as long as one likes.  *)
(***************************************************************************)
EXTENDS PeerLink, TLAPS

USE PeriodsAssumption, NoneAssumption

-----------------------------------------------------------------------------
(* The inductive invariant                                                  *)

(* A heartbeat is under way for MaxDelay at most, and a peer that is down   *)
(* has sent none since.                                                     *)
WayInv ==
  /\ clock <= polledAt + PollGap
  /\ \A b \in underway : /\ b.sent <= clock /\ clock <= b.sent + MaxDelay
                         /\ ~up => b.sent <= since

(* While every heartbeat has had its number, none that was brought before   *)
(* passes again: what refreshed the peer last was sent before it went down. *)
SilenceInv ==
  /\ record.timer.expiry_s = PeerTimeout
  /\ record.timer.last_refresh <= clock
  /\ ~bare => \A n \in brought : n # -1 /\ n <= record.sequence
  /\ ~up /\ ~bare => record.timer.last_refresh <= since + MaxDelay
  /\ ~up /\ ~bare /\ polledAt > since + MaxDelay + PeerTimeout => ~record.live

(* The numbers in use; a running peer is due after each span at the latest, *)
(* and of the heartbeats with a number that it never used before it was     *)
(* restarted, those up to the recorded one were sent before the refresh.    *)
Number == (Nat \ {0}) \cup {-1}
Known(n) == n <= before \/ n <= emitted
Span == EmitPeriod + Lateness

NumbersInv ==
  /\ ~up \/ before > 0 => crashed
  /\ \A b \in underway : b.sequence \in Number /\ Known(b.sequence)
  /\ \A n \in brought : n \in Number /\ Known(n)
  /\ up => /\ emitAt <= since + emitted * Span
           /\ clock <= emitAt + Lateness /\ emitAt <= clock + EmitPeriod
           /\ \A b \in underway :
                b.sequence > before /\ b.sequence <= record.sequence =>
                  b.sent <= record.timer.last_refresh

(* A heartbeat that the replay test lets pass whenever it comes, sent after *)
(* the last refresh, and soon enough after it.                              *)
Passes(b) ==
  /\ b.sequence = -1 \/ b.sequence > before
  /\ record.timer.last_refresh < b.sent
  /\ \/ b.sent <= record.timer.last_refresh + Span
     \/ crashed /\ b.sent <= since + before * Span + Lateness

(* A running peer none of whose heartbeats is lost has been refreshed since *)
(* its last heartbeat, or one that will refresh it is under way, or it has  *)
(* not yet counted past its old number.                                     *)
HeardInv ==
  up /\ ~lost =>
    \/ crashed /\ emitted <= before
    \/ emitAt <= record.timer.last_refresh + EmitPeriod
    \/ \E b \in underway : Passes(b)

LiveInv ==
  (/\ Span + MaxDelay <= PeerTimeout
   /\ up /\ ~lost
   /\ ~crashed \/ polledAt > since + before * Span + Lateness + MaxDelay)
    => record.live

IInv == TypeOK /\ WayInv /\ SilenceInv /\ NumbersInv /\ HeardInv /\ LiveInv

-----------------------------------------------------------------------------
(* What a heartbeat does to the record                                      *)

LEMMA RecordFields ==
  ASSUME TypeOK
  PROVE  /\ record.timer \in TimerType
         /\ record.timer.last_refresh \in Int
         /\ record.live \in BOOLEAN
         /\ record.sequence \in brought \cup {-1}
         /\ record.sequence \in Int
         /\ record = [timer |-> record.timer, live |-> record.live,
                      sequence |-> record.sequence]
<1>1. record \in [timer : TimerType, live : BOOLEAN, sequence : brought \cup {-1}]
  BY DEF TypeOK
<1>2. /\ record.timer \in TimerType
      /\ record.live \in BOOLEAN
      /\ record.sequence \in brought \cup {-1}
  BY <1>1
<1>3. record.timer.last_refresh \in Int
  BY <1>2 DEF TimerType
<1>4. record.sequence \in Int
  <2>1. brought \subseteq Int
    BY DEF TypeOK
  <2>2. brought \cup {-1} \subseteq Int
    BY <2>1
  <2>3. QED BY <1>2, <2>2, Zenon
<1>5. record = [timer |-> record.timer, live |-> record.live, sequence |-> record.sequence]
  BY <1>1
<1>6. QED BY <1>2, <1>3, <1>4, <1>5

LEMMA RefreshType ==
  ASSUME NEW tm \in TimerType, NEW reading \in Int
  PROVE  /\ Refresh(tm, reading) \in TimerType
         /\ Refresh(tm, reading).expiry_s = tm.expiry_s
         /\ Refresh(tm, reading).last_refresh = reading
BY DEF TimerType, Refresh

LEMMA HeartbeatEffect ==
  ASSUME TypeOK, NEW n \in Int, OnPeerHeartbeat(n)
  PROVE  /\ record'.live = record.live
         /\ record'.timer \in TimerType
         /\ record'.timer.expiry_s = record.timer.expiry_s
         /\ record' = [timer |-> record'.timer, live |-> record.live,
                       sequence |-> record'.sequence]
         /\ \/ /\ Fresh(n)
               /\ record'.sequence = n
               /\ record'.timer.last_refresh = clock
            \/ ~Fresh(n) /\ record' = record
<1> DEFINE heard == Refresh(record.timer, clock)
<1>1. clock \in Int
  BY DEF TypeOK
<1>2. heard \in TimerType /\ heard.expiry_s = record.timer.expiry_s /\ heard.last_refresh = clock
  BY <1>1, RecordFields, RefreshType
<1>3. Fresh(n) => record' = [record EXCEPT !.sequence = n, !.timer = heard]
  BY DEF OnPeerHeartbeat
<1> HIDE DEF heard
<1>4. CASE Fresh(n)
  <2>1. record' = [timer |-> heard, live |-> record.live, sequence |-> n]
    BY <1>3, <1>4, RecordFields
  <2>2. QED BY <1>2, <1>4, <2>1
<1>5. CASE ~Fresh(n)
  BY <1>5, RecordFields DEF OnPeerHeartbeat
<1>6. QED BY <1>4, <1>5

-----------------------------------------------------------------------------
(* Type correctness                                                         *)

LEMMA TypeInit == Init => TypeOK
<1> SUFFICES ASSUME Init PROVE TypeOK
  OBVIOUS
<1> DEFINE fresh == NewTimer(EmitPeriod, PeerTimeout, 0, FALSE)
<1>1. fresh \in TimerType
  BY DEF NewTimer, TimerType
<1>2. record = [timer |-> fresh, live |-> TRUE, sequence |-> -1]
  BY DEF Init
<1> HIDE DEF fresh
<1>3. record \in [timer : TimerType, live : BOOLEAN, sequence : brought \cup {-1}]
  BY <1>1, <1>2
<1>4. up \in BOOLEAN /\ crashed \in BOOLEAN /\ lost \in BOOLEAN /\ bare \in BOOLEAN
  BY Zenon DEF Init
<1>5. /\ clock = 0 /\ emitted = 0 /\ emitAt = 0 /\ polledAt = 0 /\ since = 0 /\ before = 0
      /\ underway = {} /\ brought = {}
  BY DEF Init
<1>6. QED BY <1>3, <1>4, <1>5 DEF TypeOK

LEMMA TypeStep ==
  ASSUME TypeOK, [Next]_vars
  PROVE  TypeOK'
<1> USE DEF peer, bus, monitor
<1>0. CASE UNCHANGED vars
  BY <1>0 DEF vars, TypeOK
<1>1. CASE TimePasses
  BY <1>1 DEF TimePasses, TypeOK
<1>2. CASE Emit
  <2>1. PICK number \in Int : underway' = underway \cup {[sequence |-> number, sent |-> clock]}
    <3>1. emitted' \in Int
      BY <1>2 DEF Emit, TypeOK
    <3>2. QED BY <1>2, <3>1 DEF Emit
  <2>2. underway' \subseteq [sequence : Int, sent : 0 .. MaxClock]
    BY <2>1 DEF TypeOK
  <2>3. emitted' \in Nat /\ emitAt' \in Nat
    BY <1>2 DEF Emit, TypeOK
  <2>4. QED BY <1>2, <2>2, <2>3 DEF Emit, TypeOK
<1>3. CASE Crash
  <2>1. up' \in BOOLEAN /\ crashed' \in BOOLEAN
    BY <1>3, Zenon DEF Crash
  <2>2. QED BY <1>3, <2>1 DEF Crash, TypeOK
<1>4. CASE Restart
  <2>1. up' \in BOOLEAN
    BY <1>4, Zenon DEF Restart
  <2>2. QED BY <1>4, <2>1 DEF Restart, TypeOK
<1>5. CASE Arrive
  <2>1. PICK b \in underway :
          /\ underway' = underway \ {b}
          /\ brought' = brought \cup {b.sequence}
          /\ OnPeerHeartbeat(b.sequence)
          /\ bare' = (bare \/ b.sequence = -1)
          /\ UNCHANGED <<clock, peer, lost, polledAt>>
    BY <1>5 DEF Arrive
  <2>2. b.sequence \in Int
    BY DEF TypeOK
  <2>3. record' \in [timer : TimerType, live : BOOLEAN, sequence : brought' \cup {-1}]
    BY <2>1, <2>2, HeartbeatEffect, RecordFields
  <2>4. bare' \in BOOLEAN
    BY <2>1, Zenon
  <2>5. QED BY <2>1, <2>2, <2>3, <2>4 DEF TypeOK
<1>6. CASE Lose
  <2>1. lost' \in BOOLEAN
    BY <1>6, Zenon DEF Lose
  <2>2. QED BY <1>6, <2>1 DEF Lose, TypeOK
<1>7. CASE Replay
  <2>1. PICK n \in brought \ {-1} :
          OnPeerHeartbeat(n) /\ UNCHANGED <<clock, peer, bus, polledAt>>
    BY <1>7 DEF Replay
  <2>2. n \in Int
    BY DEF TypeOK
  <2>3. record' \in [timer : TimerType, live : BOOLEAN, sequence : brought' \cup {-1}]
    BY <2>1, <2>2, HeartbeatEffect, RecordFields
  <2>4. QED BY <2>1, <2>3 DEF TypeOK
<1>8. CASE EvaluatePeer
  <2>1. LiveNow \in BOOLEAN
    BY Zenon DEF LiveNow
  <2>2. record' = [timer |-> record.timer, live |-> LiveNow, sequence |-> record.sequence]
    BY <1>8, RecordFields DEF EvaluatePeer
  <2>3. record' \in [timer : TimerType, live : BOOLEAN, sequence : brought' \cup {-1}]
    BY <1>8, <2>1, <2>2, RecordFields DEF EvaluatePeer
  <2>4. QED BY <1>8, <2>3 DEF EvaluatePeer, TypeOK
<1>9. QED BY <1>0, <1>1, <1>2, <1>3, <1>4, <1>5, <1>6, <1>7, <1>8 DEF Next

-----------------------------------------------------------------------------
(* The steps as the invariants see them                                     *)

LEMMA EmitEffect ==
  ASSUME TypeOK, Emit
  PROVE  /\ up /\ clock >= emitAt
         /\ emitted' = emitted + 1 /\ emitAt' = clock + EmitPeriod
         /\ \E n \in {emitted + 1, -1} :
              underway' = underway \cup {[sequence |-> n, sent |-> clock]}
         /\ UNCHANGED <<clock, up, since, before, crashed, brought, lost, bare, record, polledAt>>
BY DEF Emit, monitor

LEMMA ArriveEffect ==
  ASSUME TypeOK, Arrive
  PROVE  \E b \in underway :
           /\ b.sequence \in Int
           /\ underway' = underway \ {b}
           /\ brought' = brought \cup {b.sequence}
           /\ OnPeerHeartbeat(b.sequence)
           /\ ~bare' => ~bare /\ b.sequence # -1
           /\ UNCHANGED <<clock, up, emitted, emitAt, since, before, crashed, lost, polledAt>>
<1>1. PICK b \in underway :
        /\ underway' = underway \ {b}
        /\ brought' = brought \cup {b.sequence}
        /\ OnPeerHeartbeat(b.sequence)
        /\ bare' = (bare \/ b.sequence = -1)
        /\ UNCHANGED <<clock, peer, lost, polledAt>>
  BY DEF Arrive
<1>2. ~bare' => ~bare /\ b.sequence # -1
  BY <1>1, Zenon
<1>3. b.sequence \in Int
  BY DEF TypeOK
<1>4. QED BY <1>1, <1>2, <1>3 DEF peer

LEMMA EvaluateEffect ==
  ASSUME TypeOK, record.timer.expiry_s = PeerTimeout, EvaluatePeer
  PROVE  /\ record'.timer = record.timer
         /\ record'.sequence = record.sequence
         /\ record'.live <=> clock - record.timer.last_refresh <= PeerTimeout
         /\ polledAt' = clock
         /\ UNCHANGED <<clock, peer, bus>>
<1>1. record' = [timer |-> record.timer, live |-> LiveNow, sequence |-> record.sequence]
  BY RecordFields DEF EvaluatePeer
<1>2. LiveNow <=> ~Expired(record.timer, clock)
  BY DEF LiveNow, Poll
<1>3. Expired(record.timer, clock) <=> clock - record.timer.last_refresh > PeerTimeout
  BY DEF Expired
<1>4. clock \in Int /\ record.timer.last_refresh \in Int
  BY RecordFields DEF TypeOK
<1>5. LiveNow <=> clock - record.timer.last_refresh <= PeerTimeout
  BY <1>2, <1>3, <1>4
<1>6. QED BY <1>1, <1>5, Zenon DEF EvaluatePeer

-----------------------------------------------------------------------------
(* Heartbeats under way                                                     *)

LEMMA WayStep ==
  ASSUME TypeOK, WayInv, [Next]_vars
  PROVE  WayInv'
<1> USE DEF peer, bus, monitor, WayInv
<1>a. clock \in Int /\ polledAt \in Int /\ since \in Int /\ polledAt <= clock /\ since <= clock
  BY DEF TypeOK
<1>b. \A b \in underway : b.sent \in Int
  BY DEF TypeOK
<1>0. CASE UNCHANGED vars
  BY <1>0 DEF vars
<1>1. CASE TimePasses
  BY <1>1, <1>a, <1>b DEF TimePasses
<1>2. CASE Emit
  <2>1. PICK n \in {emitted + 1, -1} :
          underway' = underway \cup {[sequence |-> n, sent |-> clock]}
    BY <1>2, EmitEffect
  <2>2. up /\ UNCHANGED <<clock, up, since, polledAt>>
    BY <1>2, EmitEffect
  <2>3. QED BY <1>a, <1>b, <2>1, <2>2
<1>3. CASE Crash
  BY <1>3, <1>a, <1>b DEF Crash
<1>4. CASE Restart
  BY <1>4, <1>a, <1>b DEF Restart
<1>5. CASE Arrive
  BY <1>5, <1>a, <1>b, ArriveEffect
<1>6. CASE Lose
  BY <1>6, <1>a, <1>b DEF Lose
<1>7. CASE Replay
  BY <1>7, <1>a, <1>b DEF Replay
<1>8. CASE EvaluatePeer
  BY <1>8, <1>a, <1>b DEF EvaluatePeer
<1>9. QED BY <1>0, <1>1, <1>2, <1>3, <1>4, <1>5, <1>6, <1>7, <1>8 DEF Next

-----------------------------------------------------------------------------
(* A silent peer is lost                                                    *)

LEMMA SilenceInit == Init => SilenceInv
<1> SUFFICES ASSUME Init PROVE SilenceInv
  OBVIOUS
<1> DEFINE fresh == NewTimer(EmitPeriod, PeerTimeout, 0, FALSE)
<1>1. fresh.expiry_s = PeerTimeout /\ fresh.last_refresh = 0
  BY DEF NewTimer
<1>2. record.timer = fresh
  BY DEF Init
<1> HIDE DEF fresh
<1>3. clock = 0 /\ brought = {} /\ up
  BY DEF Init
<1>4. QED BY <1>1, <1>2, <1>3 DEF SilenceInv

LEMMA SilenceStep ==
  ASSUME TypeOK, WayInv, NumbersInv, SilenceInv, [Next]_vars
  PROVE  SilenceInv'
<1> USE DEF peer, bus, monitor
<1>a. clock \in Int /\ polledAt \in Int /\ since \in Int /\ polledAt <= clock /\ since <= clock
  BY DEF TypeOK
<1>b. record.timer.last_refresh \in Int /\ record.sequence \in Int
  BY RecordFields
<1>c. \A b \in underway : b.sent \in Int /\ b.sequence \in Int
  BY DEF TypeOK
<1>d. brought \subseteq Int
  BY DEF TypeOK
<1>e. (\A b \in underway : b.sequence >= -1) /\ (\A n \in brought : n >= -1)
  BY DEF NumbersInv, Number
<1>0. CASE UNCHANGED vars
  BY <1>0 DEF vars, SilenceInv
<1>1. CASE TimePasses
  BY <1>1, <1>a, <1>b DEF TimePasses, SilenceInv
<1>2. CASE Emit
  BY <1>2, EmitEffect DEF SilenceInv
<1>3. CASE Crash
  BY <1>3, <1>a, <1>b DEF Crash, SilenceInv
<1>4. CASE Restart
  BY <1>4, <1>a, <1>b DEF Restart, SilenceInv
<1>5. CASE Arrive
  <2>1. PICK b \in underway :
          /\ b.sequence \in Int
          /\ brought' = brought \cup {b.sequence}
          /\ OnPeerHeartbeat(b.sequence)
          /\ ~bare' => ~bare /\ b.sequence # -1
          /\ UNCHANGED <<clock, up, since, polledAt>>
    BY <1>5, ArriveEffect
  <2>2. ~up => clock <= since + MaxDelay
    BY <1>a, <1>c DEF WayInv
  <2>3. CASE Fresh(b.sequence) /\ record'.sequence = b.sequence
             /\ record'.timer.last_refresh = clock
    <3>1. /\ record'.timer.expiry_s = record.timer.expiry_s
          /\ record'.live = record.live
      BY <2>1, HeartbeatEffect
    <3>2. ~bare' => \A n \in brought' : n # -1 /\ n <= record'.sequence
      <4>1. ~bare' => record.sequence <= b.sequence
        BY <1>b, <1>c, <1>e, <2>1, <2>3 DEF Fresh
      <4>2. QED BY <1>b, <1>c, <1>d, <2>1, <2>3, <4>1 DEF SilenceInv
    <3>3. QED BY <1>a, <2>1, <2>2, <2>3, <3>1, <3>2 DEF SilenceInv
  <2>4. CASE ~Fresh(b.sequence) /\ record' = record
    <3>1. b.sequence <= record.sequence
      BY <1>b, <1>c, <2>4 DEF Fresh
    <3>2. QED BY <2>1, <2>4, <3>1 DEF SilenceInv
  <2>5. QED BY <2>1, <2>3, <2>4, HeartbeatEffect
<1>6. CASE Lose
  BY <1>6 DEF Lose, SilenceInv
<1>7. CASE Replay
  <2>1. PICK n \in brought \ {-1} :
          OnPeerHeartbeat(n) /\ UNCHANGED <<clock, peer, bus, polledAt>>
    BY <1>7 DEF Replay
  <2>2. n \in Int
    BY <1>d
  <2>3. CASE Fresh(n) /\ record'.sequence = n /\ record'.timer.last_refresh = clock
    <3>1. record'.timer.expiry_s = record.timer.expiry_s
      BY <2>1, <2>2, HeartbeatEffect
    <3>2. bare
      BY <1>b, <1>e, <2>2, <2>3 DEF Fresh, SilenceInv
    <3>3. QED BY <1>a, <2>1, <2>3, <3>1, <3>2 DEF SilenceInv
  <2>4. CASE record' = record
    BY <2>1, <2>4 DEF SilenceInv
  <2>5. QED BY <2>1, <2>2, <2>3, <2>4, HeartbeatEffect
<1>8. CASE EvaluatePeer
  <2>1. /\ record'.timer = record.timer
        /\ record'.sequence = record.sequence
        /\ record'.live <=> clock - record.timer.last_refresh <= PeerTimeout
        /\ polledAt' = clock
        /\ UNCHANGED <<clock, up, since, brought, bare>>
    BY <1>8, EvaluateEffect DEF SilenceInv
  <2>2. QED BY <1>a, <1>b, <2>1 DEF SilenceInv
<1>9. QED BY <1>0, <1>1, <1>2, <1>3, <1>4, <1>5, <1>6, <1>7, <1>8 DEF Next

-----------------------------------------------------------------------------
(* The numbers in use and the time they take                                *)

LEMMA Spans ==
  /\ Span \in Nat /\ Span = EmitPeriod + Lateness
  /\ 0 * Span = 0
  /\ \A n \in Int : n * Span \in Int /\ (n + 1) * Span = n * Span + Span
  /\ \A m, n \in Int : m <= n => m * Span <= n * Span
<1>1. Span \in Nat /\ Span = EmitPeriod + Lateness
  BY DEF Span
<1>2. 0 * Span = 0
  BY <1>1
<1>3. \A n \in Int : n * Span \in Int /\ (n + 1) * Span = n * Span + Span
  BY <1>1
<1>4. ASSUME NEW m \in Int, NEW n \in Int, m <= n
      PROVE  m * Span <= n * Span
  <2>1. PICK d \in Nat : n = m + d
    <3>1. n - m \in Nat /\ n = m + (n - m)
      BY <1>4
    <3>2. QED BY <3>1
  <2>2. (m + d) * Span = m * Span + d * Span
    BY <1>1
  <2>3. d * Span >= 0
    BY <1>1
  <2>4. QED BY <1>1, <2>1, <2>2, <2>3
<1>5. QED BY <1>1, <1>2, <1>3, <1>4

LEMMA NumbersInit == Init => NumbersInv
<1> SUFFICES ASSUME Init PROVE NumbersInv
  OBVIOUS
<1>1. /\ up /\ clock = 0 /\ emitted = 0 /\ emitAt = 0 /\ since = 0 /\ before = 0
      /\ underway = {} /\ brought = {} /\ record.sequence = -1
  BY DEF Init
<1>2. QED BY <1>1, Spans DEF NumbersInv

LEMMA NumbersStep ==
  ASSUME TypeOK, WayInv, NumbersInv, SilenceInv, [Next]_vars
  PROVE  NumbersInv'
<1> USE DEF peer, bus, monitor
<1>a. clock \in Int /\ since \in Int /\ emitAt \in Int /\ emitted \in Nat /\ before \in Nat
  BY DEF TypeOK
<1>b. /\ record.timer.last_refresh \in Int /\ record.timer.last_refresh <= clock
      /\ record.sequence \in Int /\ record.sequence \in brought \cup {-1}
  BY RecordFields DEF SilenceInv
<1>c. \A b \in underway : b.sent \in Int /\ b.sequence \in Int
  BY DEF TypeOK
<1>d. brought \subseteq Int
  BY DEF TypeOK
<1>0. CASE UNCHANGED vars
  BY <1>0 DEF vars, NumbersInv, Known
<1>1. CASE TimePasses
  <2>1. /\ clock' = clock + 1 /\ (up => clock < emitAt + Lateness)
        /\ UNCHANGED <<peer, bus, monitor>>
    BY <1>1 DEF TimePasses
  <2>2. QED BY <1>a, <2>1 DEF NumbersInv, Known
<1>2. CASE Emit
  <2>1. /\ up /\ clock >= emitAt /\ emitted' = emitted + 1 /\ emitAt' = clock + EmitPeriod
        /\ UNCHANGED <<clock, up, since, before, crashed, brought, record>>
    BY <1>2, EmitEffect
  <2>2. PICK n \in {emitted + 1, -1} :
          underway' = underway \cup {[sequence |-> n, sent |-> clock]}
    BY <1>2, EmitEffect
  <2>3. emitAt' <= since + (emitted + 1) * Span
    <3>1. (emitted + 1) * Span = emitted * Span + Span /\ emitted * Span \in Int
      BY <1>a, Spans
    <3>2. clock <= since + emitted * Span + Lateness
      BY <1>a, <2>1, <3>1 DEF NumbersInv
    <3>3. QED BY <1>a, <2>1, <3>1, <3>2, Spans
  <2>4. \A m \in Int : Known(m) => Known(m)'
    BY <1>a, <2>1 DEF Known
  <2>5. n \in Number /\ Known(n)'
    BY <1>a, <2>1 DEF Number, Known
  <2>6. ~(n > before /\ n <= record.sequence)
    <3>1. record.sequence = -1 \/ Known(record.sequence)
      BY <1>b DEF NumbersInv
    <3>2. QED BY <1>a, <1>b, <3>1 DEF Known
  <2>7. \A b \in underway' :
          /\ b.sequence \in Number /\ Known(b.sequence)'
          /\ b.sequence > before /\ b.sequence <= record.sequence =>
               b.sent <= record.timer.last_refresh
    BY <1>c, <2>1, <2>2, <2>4, <2>5, <2>6 DEF NumbersInv
  <2>8. \A m \in brought' : m \in Number /\ Known(m)'
    BY <1>d, <2>1, <2>4 DEF NumbersInv
  <2>9. clock' <= emitAt' + Lateness /\ emitAt' <= clock' + EmitPeriod
    BY <1>a, <2>1
  <2>10. QED BY <2>1, <2>3, <2>7, <2>8, <2>9 DEF NumbersInv
<1>3. CASE Crash
  BY <1>3 DEF Crash, NumbersInv, Known
<1>4. CASE Restart
  <2>1. /\ up' /\ emitted' = 0 /\ emitAt' = clock /\ since' = clock
        /\ before' = IF emitted > before THEN emitted ELSE before
        /\ UNCHANGED <<clock, crashed, underway, brought, record>>
    BY <1>4 DEF Restart
  <2>2. \A m \in Int : Known(m) => m <= before'
    BY <1>a, <2>1 DEF Known
  <2>3. \A b \in underway' :
          b.sequence \in Number /\ Known(b.sequence)' /\ ~(b.sequence > before')
    <3>1. \A b \in underway : b.sequence \in Number /\ b.sequence <= before'
      BY <1>c, <2>2 DEF NumbersInv
    <3>2. QED BY <1>a, <1>c, <2>1, <3>1 DEF Known
  <2>4. \A n \in brought' : n \in Number /\ Known(n)'
    BY <1>d, <2>1, <2>2 DEF NumbersInv, Known
  <2>5. /\ emitAt' <= since' + emitted' * Span
        /\ clock' <= emitAt' + Lateness /\ emitAt' <= clock' + EmitPeriod
    BY <1>a, <2>1, Spans
  <2>6. crashed'
    BY <1>4 DEF Restart, NumbersInv
  <2>7. QED BY <2>1, <2>3, <2>4, <2>5, <2>6 DEF NumbersInv
<1>5. CASE Arrive
  <2>1. PICK b \in underway :
          /\ b.sequence \in Int
          /\ underway' = underway \ {b}
          /\ brought' = brought \cup {b.sequence}
          /\ OnPeerHeartbeat(b.sequence)
          /\ UNCHANGED <<clock, up, emitted, emitAt, since, before, crashed>>
    BY <1>5, ArriveEffect
  <2>2. record'.timer.last_refresh = clock \/ record' = record
    BY <2>1, HeartbeatEffect
  <2>3. up => \A c \in underway' :
                c.sequence > before /\ c.sequence <= record'.sequence =>
                  c.sent <= record'.timer.last_refresh
    BY <2>1, <2>2 DEF NumbersInv, WayInv
  <2>4. \A n : Known(n)' <=> Known(n)
    BY <2>1 DEF Known
  <2>5. QED BY <2>1, <2>3, <2>4 DEF NumbersInv
<1>6. CASE Lose
  BY <1>6 DEF Lose, NumbersInv, Known
<1>7. CASE Replay
  <2>1. PICK n \in brought \ {-1} :
          OnPeerHeartbeat(n) /\ UNCHANGED <<clock, peer, bus, polledAt>>
    BY <1>7 DEF Replay
  <2>2. record'.timer.last_refresh = clock \/ record' = record
    BY <1>d, <2>1, HeartbeatEffect
  <2>3. up => \A c \in underway' :
                c.sequence > before /\ c.sequence <= record'.sequence =>
                  c.sent <= record'.timer.last_refresh
    BY <2>1, <2>2 DEF NumbersInv, WayInv
  <2>4. QED BY <2>1, <2>3 DEF NumbersInv, Known
<1>8. CASE EvaluatePeer
  <2>1. /\ record'.timer = record.timer
        /\ record'.sequence = record.sequence
        /\ UNCHANGED <<clock, peer, bus>>
    BY <1>8, EvaluateEffect DEF SilenceInv
  <2>2. QED BY <2>1 DEF NumbersInv, Known
<1>9. QED BY <1>0, <1>1, <1>2, <1>3, <1>4, <1>5, <1>6, <1>7, <1>8 DEF Next

-----------------------------------------------------------------------------
(* A peer that is heard is live                                             *)

LEMMA HeardInit == Init => HeardInv
<1> SUFFICES ASSUME Init PROVE HeardInv
  OBVIOUS
<1>1. record.timer.last_refresh = 0 /\ emitAt = 0
  BY DEF Init, NewTimer
<1>2. QED BY <1>1 DEF HeardInv

(* A heartbeat that comes refreshes the peer, or it leaves alone the one    *)
(* that is known to pass.                                                   *)
LEMMA PassesIsFresh ==
  ASSUME TypeOK, NumbersInv, up, NEW b \in underway, Passes(b)
  PROVE  Fresh(b.sequence)
<1>1. since \in Int /\ before \in Nat /\ b.sequence \in Int /\ b.sent \in Int
  BY DEF TypeOK
<1>2. record.timer.last_refresh \in Int /\ record.sequence \in Int
  BY RecordFields
<1>3. CASE b.sequence = -1
  BY <1>3 DEF Fresh
<1>4. CASE b.sequence > before
  <2>1. ~(b.sequence <= record.sequence)
    BY <1>1, <1>2, <1>4 DEF NumbersInv, Passes
  <2>2. QED BY <1>1, <1>2, <2>1 DEF Fresh
<1>5. QED BY <1>3, <1>4 DEF Passes

LEMMA HeardStep ==
  ASSUME TypeOK, NumbersInv, SilenceInv, HeardInv, [Next]_vars
  PROVE  HeardInv'
<1> USE DEF peer, bus, monitor
<1>a. clock \in Int /\ since \in Int /\ emitAt \in Int /\ emitted \in Nat /\ before \in Nat
  BY DEF TypeOK
<1>b. record.timer.last_refresh \in Int /\ record.timer.last_refresh <= clock
  BY RecordFields DEF SilenceInv
<1>c. up => emitAt <= clock + EmitPeriod /\ clock <= emitAt + Lateness
  BY DEF NumbersInv
<1>0. CASE UNCHANGED vars
  BY <1>0 DEF vars, HeardInv, Passes
<1>1. CASE TimePasses
  BY <1>1 DEF TimePasses, HeardInv, Passes
<1>2. CASE Emit
  <2>1. /\ up /\ clock >= emitAt /\ emitted' = emitted + 1 /\ emitAt' = clock + EmitPeriod
        /\ UNCHANGED <<clock, up, since, before, crashed, lost, record>>
    BY <1>2, EmitEffect
  <2>2. PICK n \in {emitted + 1, -1} :
          underway' = underway \cup {[sequence |-> n, sent |-> clock]}
    BY <1>2, EmitEffect
  <2> DEFINE new == [sequence |-> n, sent |-> clock]
  <2>3. new.sequence = n /\ new.sent = clock /\ new \in underway'
    BY <2>2
  <2>4. \A b : Passes(b)' <=> Passes(b)
    BY <2>1 DEF Passes
  <2> HIDE DEF new
  <2>5. SUFFICES ASSUME ~lost
                 PROVE  \/ crashed /\ emitted + 1 <= before
                        \/ emitAt' <= record.timer.last_refresh + EmitPeriod
                        \/ \E b \in underway' : Passes(b)
    BY <2>1, <2>4 DEF HeardInv
  <2>6. CASE record.timer.last_refresh = clock
    BY <1>a, <2>1, <2>6
  <2>7. CASE record.timer.last_refresh < clock /\ \E b \in underway : Passes(b)
    BY <2>2, <2>7
  <2>8. CASE record.timer.last_refresh < clock /\ emitAt <= record.timer.last_refresh + EmitPeriod
    <3>1. CASE n = -1 \/ n > before
      <4>1. clock <= record.timer.last_refresh + Span
        BY <1>a, <1>b, <1>c, <2>1, <2>8, Spans
      <4>2. QED BY <2>3, <2>8, <3>1, <4>1 DEF Passes
    <3>2. CASE n <= before /\ n # -1
      <4>1. crashed
        BY <1>a, <3>2 DEF NumbersInv
      <4>2. emitted + 1 <= before
        BY <3>2
      <4>3. QED BY <4>1, <4>2
    <3>3. QED BY <1>a, <3>1, <3>2
  <2>9. CASE record.timer.last_refresh < clock /\ crashed /\ emitted <= before
    <3>1. CASE emitted + 1 <= before
      BY <2>9, <3>1
    <3>2. CASE emitted = before
      <4>1. emitAt <= since + before * Span /\ before * Span \in Int
        BY <1>a, <2>1, <3>2, Spans DEF NumbersInv
      <4>2. n = -1 \/ n > before
        BY <1>a, <3>2
      <4>3. clock <= since + before * Span + Lateness
        BY <1>a, <1>c, <2>1, <4>1
      <4>4. Passes(new)
        BY <2>3, <2>9, <4>2, <4>3 DEF Passes
      <4>5. QED BY <2>3, <4>4
    <3>3. QED BY <1>a, <2>9, <3>1, <3>2
  <2>10. QED BY <1>a, <1>b, <2>1, <2>5, <2>6, <2>7, <2>8, <2>9 DEF HeardInv
<1>3. CASE Crash
  BY <1>3 DEF Crash, HeardInv
<1>4. CASE Restart
  <2>1. emitted' = 0 /\ before' >= 0 /\ crashed'
    BY <1>4, <1>a DEF Restart, NumbersInv
  <2>2. QED BY <2>1 DEF HeardInv
<1>5. CASE Arrive
  <2>1. PICK b \in underway :
          /\ b.sequence \in Int
          /\ underway' = underway \ {b}
          /\ OnPeerHeartbeat(b.sequence)
          /\ UNCHANGED <<clock, up, emitted, emitAt, since, before, crashed, lost>>
    BY <1>5, ArriveEffect
  <2>2. CASE record'.timer.last_refresh = clock
    BY <1>c, <2>1, <2>2 DEF HeardInv
  <2>3. CASE ~Fresh(b.sequence) /\ record' = record
    <3>1. \A c : Passes(c)' <=> Passes(c)
      BY <2>1, <2>3 DEF Passes
    <3>2. up => ~Passes(b)
      BY <2>3, PassesIsFresh
    <3>3. QED BY <2>1, <2>3, <3>1, <3>2 DEF HeardInv
  <2>4. QED BY <2>1, <2>2, <2>3, HeartbeatEffect
<1>6. CASE Lose
  BY <1>6 DEF Lose, HeardInv
<1>7. CASE Replay
  <2>1. PICK n \in brought \ {-1} :
          OnPeerHeartbeat(n) /\ UNCHANGED <<clock, peer, bus, polledAt>>
    BY <1>7 DEF Replay
  <2>2. n \in Int
    BY DEF TypeOK
  <2>3. CASE record'.timer.last_refresh = clock
    BY <1>c, <2>1, <2>3 DEF HeardInv
  <2>4. CASE record' = record
    BY <2>1, <2>4 DEF HeardInv, Passes
  <2>5. QED BY <2>1, <2>2, <2>3, <2>4, HeartbeatEffect
<1>8. CASE EvaluatePeer
  <2>1. record'.timer = record.timer /\ UNCHANGED <<clock, peer, bus>>
    BY <1>8, EvaluateEffect DEF SilenceInv
  <2>2. QED BY <2>1 DEF HeardInv, Passes
<1>9. QED BY <1>0, <1>1, <1>2, <1>3, <1>4, <1>5, <1>6, <1>7, <1>8 DEF Next

LEMMA LiveStep ==
  ASSUME IInv, [Next]_vars
  PROVE  LiveInv'
<1> USE DEF peer, bus, monitor, IInv
<1>a. /\ clock \in Int /\ since \in Int /\ emitAt \in Int /\ emitted \in Nat /\ before \in Nat
      /\ polledAt \in Int /\ polledAt <= clock
  BY DEF TypeOK
<1>b. before * Span \in Nat /\ Span \in Nat
  <2>1. 0 * Span <= before * Span
    BY <1>a, Spans
  <2>2. QED BY <1>a, <2>1, Spans
<1>c. record.timer.last_refresh \in Int
  BY RecordFields
<1>0. CASE UNCHANGED vars
  BY <1>0 DEF vars, LiveInv
<1>1. CASE TimePasses
  BY <1>1 DEF TimePasses, LiveInv
<1>2. CASE Emit
  BY <1>2, EmitEffect DEF LiveInv
<1>3. CASE Crash
  BY <1>3 DEF Crash, LiveInv
<1>4. CASE Restart
  <2>1. since' = clock /\ before' \in Nat /\ polledAt' = polledAt
    BY <1>4, <1>a DEF Restart
  <2> DEFINE old == before' * Span
  <2>2. old \in Nat
    <3>1. \A n \in Nat : n * Span \in Nat
      BY Spans
    <3>2. QED BY <2>1, <3>1
  <2> HIDE DEF old
  <2>3. ~(polledAt' > since' + old + Lateness + MaxDelay)
    BY <1>a, <2>1, <2>2
  <2>4. crashed'
    BY <1>4 DEF Restart, NumbersInv
  <2>5. QED BY <2>3, <2>4 DEF LiveInv, old
<1>5. CASE Arrive
  BY <1>5, ArriveEffect, HeartbeatEffect DEF LiveInv
<1>6. CASE Lose
  BY <1>6 DEF Lose, LiveInv
<1>7. CASE Replay
  <2>1. PICK n \in brought \ {-1} :
          OnPeerHeartbeat(n) /\ UNCHANGED <<clock, peer, bus, polledAt>>
    BY <1>7 DEF Replay
  <2>2. n \in Int
    BY DEF TypeOK
  <2>3. record'.live = record.live
    BY <2>1, <2>2, HeartbeatEffect
  <2>4. QED BY <2>1, <2>3 DEF LiveInv
<1>8. CASE EvaluatePeer
  <2>1. /\ record'.live <=> clock - record.timer.last_refresh <= PeerTimeout
        /\ polledAt' = clock
        /\ UNCHANGED <<clock, peer, bus>>
    BY <1>8, EvaluateEffect DEF SilenceInv
  <2>2. SUFFICES ASSUME Span + MaxDelay <= PeerTimeout, up, ~lost,
                        ~crashed \/ clock > since + before * Span + Lateness + MaxDelay
                 PROVE  clock - record.timer.last_refresh <= PeerTimeout
    BY <2>1 DEF LiveInv
  <2>3. ~(crashed /\ emitted <= before)
    <3>1. SUFFICES ASSUME crashed, emitted <= before PROVE FALSE
      OBVIOUS
    <3>2. emitted * Span <= before * Span /\ emitted * Span \in Int
      BY <1>a, <3>1, Spans
    <3>3. clock <= since + emitted * Span + Lateness
      BY <1>a, <2>2, <3>2 DEF NumbersInv
    <3>4. QED BY <1>a, <1>b, <2>2, <3>1, <3>2, <3>3
  <2>4. CASE emitAt <= record.timer.last_refresh + EmitPeriod
    <3>1. clock <= emitAt + Lateness
      BY <2>2 DEF NumbersInv
    <3>2. QED BY <1>a, <1>c, <2>2, <2>4, <3>1, Spans
  <2>5. ASSUME NEW b \in underway, Passes(b)
        PROVE  clock - record.timer.last_refresh <= PeerTimeout
    <3>1. b.sent \in Int /\ clock <= b.sent + MaxDelay
      BY DEF TypeOK, WayInv
    <3>2. b.sent <= record.timer.last_refresh + Span
      BY <1>a, <1>b, <2>2, <2>5, <3>1 DEF Passes
    <3>3. QED BY <1>a, <1>b, <1>c, <2>2, <3>1, <3>2
  <2>6. QED BY <2>2, <2>3, <2>4, <2>5 DEF HeardInv
<1>9. QED BY <1>0, <1>1, <1>2, <1>3, <1>4, <1>5, <1>6, <1>7, <1>8 DEF Next

-----------------------------------------------------------------------------
(* The theorems                                                             *)

LEMMA InvInit == Init => IInv
<1>1. Init => WayInv
  <2> SUFFICES ASSUME Init PROVE WayInv
    OBVIOUS
  <2>1. clock = 0 /\ polledAt = 0 /\ underway = {}
    BY DEF Init
  <2>2. QED BY <2>1 DEF WayInv
<1>2. Init => LiveInv
  BY DEF Init, LiveInv
<1>3. QED BY <1>1, <1>2, TypeInit, SilenceInit, NumbersInit, HeardInit DEF IInv

LEMMA Invariance == Spec => []IInv
<1>1. IInv /\ [Next]_vars => IInv'
  BY TypeStep, WayStep, SilenceStep, NumbersStep, HeardStep, LiveStep DEF IInv
<1>2. QED BY <1>1, InvInit, PTL DEF Spec

(* Type correctness of the link and the peer record: what is recorded as    *)
(* the peer's number is a number that was brought, or none.                 *)
THEOREM LinkTypes == Spec => []TypeOK
<1>1. IInv => TypeOK
  BY DEF IInv
<1>2. QED BY <1>1, Invariance, PTL

(* A peer that is down is declared lost within the delay of its last        *)
(* heartbeat, its window and the time to the next evaluation.               *)
THEOREM DeadPeerIsLostHolds == Spec => []DeadPeerIsLost
<1>1. IInv => DeadPeerIsLost
  <2> SUFFICES ASSUME IInv, ~up, ~bare, clock - since > MaxDelay + PeerTimeout + PollGap
               PROVE  ~record.live
    BY DEF DeadPeerIsLost
  <2>1. clock \in Int /\ since \in Int /\ polledAt \in Int
    BY DEF IInv, TypeOK
  <2>2. clock <= polledAt + PollGap
    BY DEF IInv, WayInv
  <2>3. polledAt > since + MaxDelay + PeerTimeout
    BY <2>1, <2>2
  <2>4. QED BY <2>3 DEF IInv, SilenceInv
<1>2. QED BY <1>1, Invariance, PTL

(* A peer that neither crashes nor loses a heartbeat is never declared      *)
(* lost while its heartbeats are late, in being sent and under way, by no   *)
(* more than the window allows.                                             *)
THEOREM LateIsNotLostHolds == Spec => []LateIsNotLost
<1>1. IInv => LateIsNotLost
  BY DEF IInv, NumbersInv, LiveInv, LateIsNotLost, Span
<1>2. QED BY <1>1, Invariance, PTL

(* A restarted peer is live once it has counted past its old number.        *)
THEOREM RestartIsOvercomeHolds == Spec => []RestartIsOvercome
<1>1. IInv => RestartIsOvercome
  <2> DEFINE counted == before * Span
  <2> SUFFICES ASSUME IInv, Span + MaxDelay <= PeerTimeout, up, ~lost,
                      clock - since > counted + Lateness + MaxDelay + PollGap
               PROVE  record.live
    BY DEF RestartIsOvercome, Span
  <2>1. clock \in Int /\ since \in Int /\ polledAt \in Int /\ counted \in Int
    BY Spans DEF IInv, TypeOK
  <2>2. clock <= polledAt + PollGap
    BY DEF IInv, WayInv
  <2> HIDE DEF counted
  <2>3. polledAt > since + counted + Lateness + MaxDelay
    BY <2>1, <2>2
  <2>4. QED BY <2>3 DEF IInv, LiveInv, counted
<1>2. QED BY <1>1, Invariance, PTL
=============================================================================

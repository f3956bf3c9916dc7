-------------------------- MODULE MessageBusProofs --------------------------
(***************************************************************************)
(* Proofs about the message bus: type correctness, custody of messages,    *)
(* counters that never overstate, the final drain of stop(), and the       *)
(* refinement of BusPromise, for every number of publishers, any topics,   *)
(* subscriptions, capacity and limit.                                      *)
(***************************************************************************)
EXTENDS BusRefinement, FiniteSetTheorems, TLAPS

(* Appending to the queue adds one element to it.                           *)
LEMMA RangeOfAppend ==
  ASSUME NEW S, NEW s \in Seq(S), NEW e \in S
  PROVE  /\ RangeOf(Append(s, e)) = RangeOf(s) \cup {e}
         /\ Append(s, e) \in Seq(S)
         /\ Len(Append(s, e)) = Len(s) + 1
         /\ \A i \in 1 .. Len(s) : Append(s, e)[i] = s[i]
         /\ Append(s, e)[Len(s) + 1] = e
<1>1. /\ Append(s, e) \in Seq(S)
      /\ Len(Append(s, e)) = Len(s) + 1
      /\ \A i \in 1 .. Len(s) : Append(s, e)[i] = s[i]
      /\ Append(s, e)[Len(s) + 1] = e
  OBVIOUS
<1>2. DOMAIN Append(s, e) = DOMAIN s \cup {Len(s) + 1} /\ DOMAIN s = 1 .. Len(s)
  BY <1>1
<1>3. RangeOf(Append(s, e)) \subseteq RangeOf(s) \cup {e}
  BY <1>1, <1>2 DEF RangeOf
<1>4. RangeOf(s) \cup {e} \subseteq RangeOf(Append(s, e))
  BY <1>1, <1>2 DEF RangeOf
<1>5. QED BY <1>1, <1>3, <1>4

(* and leaves the others where they were.                                   *)
LEMMA AppendKeeps ==
  ASSUME NEW S, NEW s \in Seq(S), NEW e \in S
  PROVE  \A k \in DOMAIN s : k \in DOMAIN Append(s, e) /\ Append(s, e)[k] = s[k]
<1>1. DOMAIN s = 1 .. Len(s) /\ Len(s) \in Nat
  OBVIOUS
<1>2. DOMAIN Append(s, e) = 1 .. Len(s) + 1 /\ \A k \in 1 .. Len(s) : Append(s, e)[k] = s[k]
  OBVIOUS
<1>3. QED BY <1>1, <1>2

(* Taking the head leaves the rest of the queue.                            *)
LEMMA RangeOfTail ==
  ASSUME NEW S, NEW s \in Seq(S), s # <<>>
  PROVE  /\ RangeOf(s) = {Head(s)} \cup RangeOf(Tail(s))
         /\ Head(s) \in S
         /\ Tail(s) \in Seq(S)
         /\ Len(Tail(s)) = Len(s) - 1
         /\ \A i \in 1 .. Len(Tail(s)) : Tail(s)[i] = s[i + 1]
<1>1. \A i \in 1 .. Len(Tail(s)) : Tail(s)[i] = s[i + 1]
  OBVIOUS
<1>2. Len(Tail(s)) = Len(s) - 1 /\ Len(s) > 0 /\ Head(s) = s[1] /\ Tail(s) \in Seq(S)
  OBVIOUS
<1>3. RangeOf(s) \subseteq {Head(s)} \cup RangeOf(Tail(s))
  <2>1. SUFFICES ASSUME NEW i \in DOMAIN s, i # 1
                 PROVE  s[i] \in RangeOf(Tail(s))
    BY <1>2 DEF RangeOf
  <2>2. i - 1 \in 1 .. Len(Tail(s)) /\ s[i] = Tail(s)[i - 1]
    BY <1>1, <1>2, <2>1
  <2>3. QED BY <1>2, <2>2 DEF RangeOf
<1>4. {Head(s)} \cup RangeOf(Tail(s)) \subseteq RangeOf(s)
  BY <1>1, <1>2 DEF RangeOf
<1>5. QED BY <1>1, <1>2, <1>3, <1>4

(* _matches decides whether a topic agrees with a pattern segment by        *)
(* segment, its trailing wildcard standing for exactly one.                 *)
LEMMA MatchesIsInterest ==
  ASSUME NEW pattern \in Seq(STRING), NEW topic \in Seq(STRING)
  PROVE  Matches(pattern, topic) <=>
           /\ Len(topic) = Len(pattern)
           /\ \A k \in DOMAIN pattern :
                \/ topic[k] = pattern[k]
                \/ k > 1 /\ k = Len(pattern) /\ pattern[k] = "*"
<1>1. DOMAIN pattern = 1 .. Len(pattern) /\ Len(pattern) \in Nat /\ Len(topic) \in Nat
  OBVIOUS
<1>2. ASSUME Len(topic) = Len(pattern), \A k \in 1 .. Len(pattern) : topic[k] = pattern[k]
      PROVE  pattern = topic
  BY <1>2
<1>3. ASSUME Matches(pattern, topic), NEW k \in DOMAIN pattern
      PROVE  topic[k] = pattern[k] \/ (k > 1 /\ k = Len(pattern) /\ pattern[k] = "*")
  <2>1. CASE pattern = topic
    BY <2>1
  <2>2. CASE pattern # topic
    <3>1. k = Len(pattern) \/ k \in 1 .. Len(pattern) - 1
      BY <1>1, <1>3
    <3>2. QED BY <1>1, <1>3, <2>2, <3>1 DEF Matches
  <2>3. QED BY <2>1, <2>2
<1>4. Matches(pattern, topic) => Len(topic) = Len(pattern)
  BY DEF Matches
<1>5. ASSUME Len(topic) = Len(pattern),
             \A k \in DOMAIN pattern :
               topic[k] = pattern[k] \/ (k > 1 /\ k = Len(pattern) /\ pattern[k] = "*")
      PROVE  Matches(pattern, topic)
  <2>1. CASE \A k \in 1 .. Len(pattern) : topic[k] = pattern[k]
    BY <1>2, <1>5, <2>1 DEF Matches
  <2>2. CASE \E k \in 1 .. Len(pattern) : topic[k] # pattern[k]
    <3>1. Len(pattern) > 1 /\ pattern[Len(pattern)] = "*"
      BY <1>1, <1>5, <2>2
    <3>2. \A i \in 1 .. Len(pattern) - 1 : topic[i] = pattern[i]
      BY <1>1, <1>5
    <3>3. QED BY <1>1, <1>5, <3>1, <3>2 DEF Matches
  <2>3. QED BY <2>1, <2>2
<1>6. QED BY <1>3, <1>4, <1>5

-----------------------------------------------------------------------------

USE SubsAssumption, DepthAssumption, LimitAssumption, BoundAssumption, ThreadsAssumption

LEMMA TypeInit == Init => TypeOK
<1> SUFFICES ASSUME Init PROVE TypeOK
  OBVIOUS
<1>1. /\ pc \in [Threads -> CallPoints \cup LoopPoints]
      /\ \A t \in Drainers : pc[t] # "handle"
  BY DEF Init, Threads, CallPoints, LoopPoints
<1>2. queue \in Seq(Message) /\ Len(queue) <= MaxDepth
  BY DEF Init
<1>3. subscriptions \in Seq(Seq(STRING)) /\ Len(subscriptions) <= Len(Subs)
  BY DEF Init
<1>4. seen \in [DOMAIN Subs -> Seq(Message)]
  BY DEF Init
<1>5. /\ counters \in [Counters -> Nat]
      /\ target \in [Threads -> Counters]
      /\ \A t \in Publishers : target[t] # "delivered"
      /\ loaded \in [Threads -> Nat]
  BY DEF Init, Counters, Threads
<1>6. /\ msg \in [Drainers -> Message \cup {NoMessage}]
      /\ todo \in [Drainers -> SUBSET DOMAIN Subs]
      /\ count \in [Drainers -> 0 .. DrainLimit]
      /\ ret \in [Threads -> {"idle", "check", "wait", "stopped"}]
  BY DEF Init
<1>7. stop \in BOOLEAN /\ thread \in BOOLEAN /\ timedOut \in BOOLEAN
  BY Zenon DEF Init
<1>8. /\ sent \in 0 .. MaxMessages /\ backlog \in Nat
      /\ accepted \subseteq Message /\ done \subseteq Message /\ flush \subseteq Message
  BY DEF Init
<1>9. QED BY <1>1, <1>2, <1>3, <1>4, <1>5, <1>6, <1>7, <1>8 DEF TypeOK

LEMMA TypeSubscribe == TypeOK /\ Subscribe => TypeOK'
<1> SUFFICES ASSUME TypeOK, Subscribe PROVE TypeOK'
  OBVIOUS
<1>1. /\ subscriptions' \in Seq(Seq(STRING))
      /\ Len(subscriptions') <= Len(Subs)
  BY DEF TypeOK, Subscribe, Wired
<1>2. QED BY <1>1 DEF TypeOK, Subscribe, local, history

LEMMA TypePublish ==
  ASSUME TypeOK, NEW t \in {Main} \cup Publishers, NEW topic \in Topics, Publish(t, topic)
  PROVE  TypeOK'
<1> DEFINE m == [topic |-> topic, id |-> sent + 1]
<1>1. m \in Message /\ sent' \in 0 .. MaxMessages
  BY DEF TypeOK, Publish, Message
<1>2. t \in Threads /\ (t \in Publishers \/ t = Main)
  BY DEF Threads, Drainers
<1>3. PublishAccepted(t, m) \/ PublishDropped(t, m)
  BY DEF Publish
<1> HIDE DEF m
<1>4. CASE PublishAccepted(t, m)
  <2>1. queue' \in Seq(Message) /\ Len(queue') <= MaxDepth /\ accepted' \subseteq Message
    BY <1>1, <1>4, RangeOfAppend DEF TypeOK, PublishAccepted
  <2>2. /\ pc' \in [Threads -> CallPoints \cup LoopPoints]
        /\ ret' \in [Threads -> {"idle", "check", "wait", "stopped"}]
        /\ target' \in [Threads -> Counters]
        /\ \A u \in Publishers : target'[u] # "delivered"
        /\ \A d \in Drainers : pc'[d] = "handle" => pc[d] = "handle"
    BY <1>2, <1>4 DEF TypeOK, PublishAccepted, BumpThen, CallPoints, Counters, Threads
  <2>3. QED BY <1>1, <2>1, <2>2 DEF TypeOK, Publish
<1>5. CASE PublishDropped(t, m)
  <2>1. /\ pc' \in [Threads -> CallPoints \cup LoopPoints]
        /\ ret' \in [Threads -> {"idle", "check", "wait", "stopped"}]
        /\ target' \in [Threads -> Counters]
        /\ \A u \in Publishers : target'[u] # "delivered"
        /\ \A d \in Drainers : pc'[d] = "handle" => pc[d] = "handle"
    BY <1>2, <1>5 DEF TypeOK, PublishDropped, BumpThen, CallPoints, Counters, Threads
  <2>2. QED BY <1>1, <1>5, <2>1 DEF TypeOK, Publish, PublishDropped
<1>6. QED BY <1>3, <1>4, <1>5

LEMMA TypeBump ==
  ASSUME TypeOK, NEW t \in Threads, Bump(t)
  PROVE  TypeOK'
<1>1. CASE BumpLoad(t)
  BY <1>1 DEF TypeOK, BumpLoad, busState, history, CallPoints
<1>2. CASE BumpStore(t)
  <2>1. Amount(t) \in Nat
    BY DEF TypeOK, Amount, Threads
  <2>2. counters' \in [Counters -> Nat]
    BY <1>2, <2>1 DEF TypeOK, BumpStore
  <2>3. /\ pc' \in [Threads -> CallPoints \cup LoopPoints]
        /\ \A d \in Drainers : pc'[d] = "handle" => pc[d] = "handle" /\ d # t
    BY <1>2 DEF TypeOK, BumpStore, CallPoints, LoopPoints, Threads
  <2>4. /\ count' \in [Drainers -> 0 .. DrainLimit]
        /\ \A d \in Drainers : d # t => count'[d] = count[d]
    BY <1>2 DEF TypeOK, BumpStore
  <2>5. /\ target' \in [Threads -> Counters]
        /\ \A u \in Publishers : target'[u] # "delivered"
        /\ loaded' \in [Threads -> Nat]
    BY <1>2 DEF TypeOK, BumpStore, Counters, Threads
  <2>6. QED BY <1>2, <2>2, <2>3, <2>4, <2>5 DEF TypeOK, BumpStore, history
<1>3. QED BY <1>1, <1>2 DEF Bump

(* What the beginning of a drain does to the local state.                   *)
LEMMA TypeDrainBegins ==
  ASSUME TypeOK, NEW t \in Drainers, NEW back \in {"idle", "check", "wait", "stopped"},
         DrainBegins(t, back)
  PROVE  /\ pc' \in [Threads -> CallPoints \cup LoopPoints]
         /\ ret' \in [Threads -> {"idle", "check", "wait", "stopped"}]
         /\ count' \in [Drainers -> 0 .. DrainLimit]
         /\ \A d \in Drainers :
              pc'[d] = "handle" => pc[d] = "handle" /\ count'[d] = count[d]
BY DEF TypeOK, DrainBegins, CallPoints, Threads, Drainers

LEMMA TypeDrainCall == TypeOK /\ DrainCall => TypeOK'
<1> SUFFICES ASSUME TypeOK, DrainCall PROVE TypeOK'
  OBVIOUS
<1>1. Main \in Drainers /\ DrainBegins(Main, "idle")
  BY DEF DrainCall, Drainers
<1>2. QED BY <1>1, TypeDrainBegins DEF TypeOK, DrainCall, busState, history

LEMMA TypeDrain ==
  ASSUME TypeOK, NEW t \in Drainers, Drain(t)
  PROVE  TypeOK'
<1>0. t \in Threads
  BY DEF Threads
<1>1. CASE Get(t)
  <2>1. queue' \in Seq(Message) /\ Len(queue') <= MaxDepth /\ Head(queue) \in Message
    BY <1>1, RangeOfTail DEF TypeOK, Get
  <2>2. Matching(Head(queue).topic) \subseteq DOMAIN Subs
    BY DEF TypeOK, Matching
  <2>3. msg' \in [Drainers -> Message \cup {NoMessage}] /\ todo' \in [Drainers -> SUBSET DOMAIN Subs]
    BY <1>1, <2>1, <2>2 DEF TypeOK, Get
  <2>4. pc' \in [Threads -> CallPoints \cup LoopPoints]
    BY <1>1 DEF TypeOK, Get, CallPoints
  <2>5. \A d \in Drainers : pc'[d] = "handle" => msg'[d] \in Message /\ count'[d] < DrainLimit
    BY <1>0, <1>1, <2>1 DEF TypeOK, Get, Threads
  <2>6. QED BY <1>1, <2>1, <2>3, <2>4, <2>5 DEF TypeOK, Get, history
<1>2. ASSUME NEW i \in DOMAIN Subs, Invoke(t, i) PROVE TypeOK'
  <2>1. msg[t] \in Message
    BY <1>2 DEF TypeOK, Invoke
  <2>2. Append(seen[i], msg[t]) \in Seq(Message)
    BY <2>1, RangeOfAppend DEF TypeOK
  <2>3. seen' \in [DOMAIN Subs -> Seq(Message)]
    BY <1>2, <2>2 DEF TypeOK, Invoke
  <2>4. todo' \in [Drainers -> SUBSET DOMAIN Subs]
    BY <1>2 DEF TypeOK, Invoke
  <2>5. QED BY <1>2, <2>3, <2>4 DEF TypeOK, Invoke, busState
<1>3. CASE DispatchReturns(t)
  <2>1. count' \in [Drainers -> 0 .. DrainLimit]
    BY <1>3 DEF TypeOK, DispatchReturns
  <2>2. done' \subseteq Message
    BY <1>3 DEF TypeOK, DispatchReturns
  <2>3. msg' \in [Drainers -> Message \cup {NoMessage}]
    BY <1>3 DEF TypeOK, DispatchReturns
  <2>4. pc' \in [Threads -> CallPoints \cup LoopPoints]
    BY <1>3 DEF TypeOK, DispatchReturns, CallPoints
  <2>5. \A d \in Drainers : pc'[d] = "handle" => msg'[d] \in Message /\ count'[d] < DrainLimit
    BY <1>0, <1>3 DEF TypeOK, DispatchReturns, Threads
  <2>6. QED BY <1>3, <2>1, <2>2, <2>3, <2>4, <2>5 DEF TypeOK, DispatchReturns, busState
<1>4. CASE DrainEnds(t)
  <2>1. AfterDrain(t) \in {"idle", "check", "wait", "stopped"}
    BY <1>0 DEF TypeOK, AfterDrain
  <2>2. /\ pc' \in [Threads -> CallPoints \cup LoopPoints]
        /\ ret' \in [Threads -> {"idle", "check", "wait", "stopped"}]
        /\ target' \in [Threads -> Counters]
        /\ \A u \in Publishers : target'[u] # "delivered"
        /\ \A d \in Drainers : pc'[d] = "handle" => pc[d] = "handle"
    BY <1>0, <1>4, <2>1 DEF TypeOK, DrainEnds, BumpThen, CallPoints, Counters, Threads, Drainers
  <2>3. QED BY <1>4, <2>2 DEF TypeOK, DrainEnds, busState, history
<1>5. QED BY <1>1, <1>2, <1>3, <1>4 DEF Drain

LEMMA TypeDispatcher == TypeOK /\ (DispatcherLoop \/ Start) => TypeOK'
<1> SUFFICES ASSUME TypeOK, DispatcherLoop \/ Start PROVE TypeOK'
  OBVIOUS
<1>0. Dispatcher \in Drainers /\ Dispatcher \in Threads
  BY DEF Drainers, Threads
<1>1. CASE DispatcherCheck /\ ~stop
  <2>1. DrainBegins(Dispatcher, "check")
    BY <1>1 DEF DispatcherCheck
  <2>2. QED BY <1>0, <1>1, <2>1, TypeDrainBegins DEF TypeOK, DispatcherCheck, busState, history
<1>2. CASE DispatcherCheck /\ stop
  <2>1. /\ pc' \in [Threads -> CallPoints \cup LoopPoints]
        /\ \A d \in Drainers : pc'[d] = "handle" => pc[d] = "handle"
    BY <1>0, <1>2 DEF TypeOK, DispatcherCheck, LoopPoints, Threads
  <2>2. UNCHANGED <<busState, ret, msg, todo, count, target, loaded, history>>
    BY <1>2 DEF DispatcherCheck
  <2>3. QED BY <2>1, <2>2 DEF TypeOK, busState, history
<1>3. CASE DispatcherWakes
  <2>1. /\ pc' \in [Threads -> CallPoints \cup LoopPoints]
        /\ \A d \in Drainers : pc'[d] = "handle" => pc[d] = "handle"
    BY <1>0, <1>3 DEF TypeOK, DispatcherWakes, LoopPoints, Threads
  <2>2. QED BY <1>3, <2>1 DEF TypeOK, DispatcherWakes, busState, history
<1>4. CASE Start
  <2>1. /\ pc' \in [Threads -> CallPoints \cup LoopPoints]
        /\ \A d \in Drainers : pc'[d] = "handle" => pc[d] = "handle"
    BY <1>0, <1>4 DEF TypeOK, Start, LoopPoints, Threads
  <2>2. stop' \in BOOLEAN /\ thread' \in BOOLEAN
    BY <1>4, Zenon DEF Start
  <2>3. QED BY <1>4, <2>1, <2>2 DEF TypeOK, Start, history
<1>5. QED BY <1>1, <1>2, <1>3, <1>4 DEF DispatcherLoop, DispatcherCheck

(* What the final drain of stop() does to the local state and the history.  *)
LEMMA TypeFinalDrain ==
  ASSUME TypeOK, FinalDrain,
         UNCHANGED <<queue, subscriptions, counters>>,
         stop' \in BOOLEAN, thread' \in BOOLEAN, timedOut' \in BOOLEAN
  PROVE  TypeOK'
<1>1. Main \in Drainers /\ DrainBegins(Main, "stopped")
  BY DEF FinalDrain, Drainers
<1>2. flush' \subseteq Message /\ backlog' \in Nat
  BY DEF TypeOK, FinalDrain
<1>3. QED BY <1>1, <1>2, TypeDrainBegins DEF TypeOK, FinalDrain

LEMMA TypeStop == TypeOK /\ (Stop \/ StopSteps) => TypeOK'
<1> SUFFICES ASSUME TypeOK, Stop \/ StopSteps PROVE TypeOK'
  OBVIOUS
<1>0. Main \in Drainers /\ Main \in Threads
  BY DEF Drainers, Threads
<1>1. CASE Stop /\ thread
  <2>1. /\ pc' \in [Threads -> CallPoints \cup LoopPoints]
        /\ \A d \in Drainers : pc'[d] = "handle" => pc[d] = "handle"
    BY <1>0, <1>1 DEF TypeOK, Stop, CallPoints, Threads
  <2>2. stop' \in BOOLEAN /\ thread' \in BOOLEAN
    BY <1>1, Zenon DEF Stop
  <2>3. UNCHANGED <<queue, subscriptions, counters, ret, msg, todo, count, target, loaded, history>>
    BY <1>1 DEF Stop
  <2>4. QED BY <2>1, <2>2, <2>3 DEF TypeOK, history
<1>2. CASE Stop /\ ~thread
  <2>1. stop' \in BOOLEAN /\ thread' \in BOOLEAN
    BY <1>2, Zenon DEF Stop
  <2>2. FinalDrain /\ UNCHANGED <<queue, subscriptions, counters, timedOut>>
    BY <1>2 DEF Stop
  <2>3. QED BY <2>1, <2>2, TypeFinalDrain DEF TypeOK
<1>3. CASE JoinReturns
  BY <1>3, TypeFinalDrain DEF TypeOK, JoinReturns, busState
<1>4. CASE JoinTimesOut
  <2>1. timedOut' \in BOOLEAN
    BY <1>4, Zenon DEF JoinTimesOut
  <2>2. QED BY <1>4, <2>1, TypeFinalDrain DEF TypeOK, JoinTimesOut, busState
<1>5. QED BY <1>1, <1>2, <1>3, <1>4 DEF StopSteps, Stop

LEMMA TypeNext == TypeOK /\ [Next]_vars => TypeOK'
<1> SUFFICES ASSUME TypeOK, [Next]_vars PROVE TypeOK'
  OBVIOUS
<1>1. CASE Calls
  BY <1>1, TypeSubscribe, TypeDrainCall, TypeDispatcher, TypeStop, TypePublish DEF Calls
<1>2. CASE Continue
  BY <1>2, TypeBump, TypeDrain, TypeDispatcher, TypeStop DEF Continue
<1>3. CASE UNCHANGED vars
  BY <1>3 DEF TypeOK, vars, busState, local, history
<1>4. QED BY <1>1, <1>2, <1>3 DEF Next

(* Type correctness of the bus: in particular the queue never exceeds its   *)
(* capacity and a drain never delivers more than its limit.                 *)
THEOREM TypeCorrect == Spec => []TypeOK
<1>1. QED BY TypeInit, TypeNext, PTL DEF Spec

-----------------------------------------------------------------------------
(* Custody is inductive together with IdsUsed: a message that is published  *)
(* is none of those already accepted.                                       *)

CustodyInv == Custody /\ IdsUsed

LEMMA InHandsIsBoth == InHands = Held(Main) \cup Held(Dispatcher)
BY DEF InHands, Drainers

(* A step that moves no message preserves custody.                          *)
LEMMA CustodyUnmoved ==
  ASSUME CustodyInv, UNCHANGED <<queue, accepted, done>>,
         sent' = sent,
         Held(Main)' = Held(Main), Held(Dispatcher)' = Held(Dispatcher)
  PROVE  CustodyInv'
<1>1. InHands' = InHands
  BY InHandsIsBoth, InHandsIsBoth' DEF InHands, Drainers
<1>2. QED BY <1>1 DEF CustodyInv, Custody, IdsUsed, RangeOf

(* Neither does a step after which no thread has begun or ended a dispatch. *)
LEMMA HeldUnmoved ==
  ASSUME NEW t \in Drainers,
         pc'[t] = "handle" <=> pc[t] = "handle",
         pc[t] = "handle" => msg'[t] = msg[t]
  PROVE  Held(t)' = Held(t)
BY DEF Held

LEMMA CustodyPublish ==
  ASSUME TypeOK, CustodyInv, NEW t \in {Main} \cup Publishers, NEW topic \in Topics,
         Publish(t, topic)
  PROVE  CustodyInv'
<1> DEFINE m == [topic |-> topic, id |-> sent + 1]
<1>1. m \in Message /\ m.id = sent + 1
  BY DEF TypeOK, Publish, Message
<1>2. m \notin accepted /\ sent' = sent + 1 /\ sent \in Nat /\ UNCHANGED <<msg, done>>
  BY <1>1 DEF CustodyInv, IdsUsed, TypeOK, Publish
<1>3. PublishAccepted(t, m) \/ PublishDropped(t, m)
  BY DEF Publish
<1> HIDE DEF m
<1>4. \A u \in Threads : pc'[u] = "handle" <=> pc[u] = "handle"
  BY <1>3 DEF TypeOK, Publish, PublishAccepted, PublishDropped, BumpThen
<1>5. Held(Main)' = Held(Main) /\ Held(Dispatcher)' = Held(Dispatcher)
  BY <1>2, <1>4, HeldUnmoved DEF Drainers, Threads
<1>6. InHands' = InHands
  BY <1>5 DEF InHands, Drainers
<1>7. IdsUsed'
  BY <1>1, <1>2, <1>3 DEF CustodyInv, IdsUsed, TypeOK, Message, PublishAccepted, PublishDropped
<1>8. CASE PublishAccepted(t, m)
  <2>1. queue' = Append(queue, m) /\ accepted' = accepted \cup {m} /\ queue \in Seq(Message)
    BY <1>8 DEF PublishAccepted, TypeOK
  <2>2. RangeOf(queue') = RangeOf(queue) \cup {m}
    BY <1>1, <2>1, RangeOfAppend
  <2>3. m \notin RangeOf(queue) /\ m \notin InHands /\ m \notin done
    BY <1>2 DEF CustodyInv, Custody
  <2>4. \A i, j \in DOMAIN queue' : queue'[i] = queue'[j] => i = j
    <3>1. /\ DOMAIN queue' = DOMAIN queue \cup {Len(queue) + 1}
          /\ \A i \in DOMAIN queue : queue'[i] = queue[i]
          /\ queue'[Len(queue) + 1] = m
      BY <1>1, <2>1
    <3>2. \A i \in DOMAIN queue : queue[i] # m
      BY <2>3 DEF RangeOf
    <3>3. QED BY <3>1, <3>2 DEF CustodyInv, Custody
  <2>5. QED BY <1>2, <1>5, <1>6, <1>7, <2>1, <2>2, <2>3, <2>4 DEF CustodyInv, Custody
<1>9. CASE PublishDropped(t, m)
  BY <1>2, <1>5, <1>6, <1>7, <1>9 DEF PublishDropped, CustodyInv, Custody, RangeOf
<1>10. QED BY <1>3, <1>8, <1>9

(* get_nowait moves the head of the queue into the thread's hands.          *)
LEMMA CustodyGet ==
  ASSUME TypeOK, CustodyInv, NEW t \in Drainers, Get(t)
  PROVE  CustodyInv'
<1> DEFINE m == Head(queue)
<1>1. /\ queue \in Seq(Message) /\ queue # <<>> /\ queue' = Tail(queue)
      /\ UNCHANGED <<accepted, done, sent>>
  BY DEF TypeOK, Get, history
<1>2. Held(t) = {} /\ Held(t)' = {m}
  BY DEF TypeOK, Get, Held, Threads
<1>3. \A u \in Drainers : u # t => Held(u)' = Held(u)
  <2>1. \A u \in Drainers : u # t => pc'[u] = pc[u] /\ msg'[u] = msg[u]
    BY DEF TypeOK, Get, Threads
  <2>2. QED BY <2>1 DEF Held
<1>4. InHands' = InHands \cup {m}
  BY <1>2, <1>3 DEF InHands, Drainers
<1>5. RangeOf(queue) = {m} \cup RangeOf(queue')
  BY <1>1, RangeOfTail
<1>6. m \notin RangeOf(queue') /\ \A i, j \in DOMAIN queue' : queue'[i] = queue'[j] => i = j
  <2>1. /\ DOMAIN queue' = 1 .. Len(queue) - 1 /\ Len(queue) > 0 /\ m = queue[1]
        /\ \A i \in DOMAIN queue' : queue'[i] = queue[i + 1]
    BY <1>1
  <2>2. \A i, j \in 1 .. Len(queue) : queue[i] = queue[j] => i = j
    BY <1>1 DEF CustodyInv, Custody
  <2>3. \A i \in DOMAIN queue' : queue'[i] # m
    BY <2>1, <2>2
  <2>4. \A i, j \in DOMAIN queue' : queue'[i] = queue'[j] => i = j
    BY <2>1, <2>2
  <2>5. QED BY <2>3, <2>4 DEF RangeOf
<1>7. m \notin InHands /\ m \notin done /\ m \in accepted
  BY <1>5 DEF CustodyInv, Custody
<1> HIDE DEF m
<1>8. Held(Main)' \cap Held(Dispatcher)' = {}
  <2>1. m \notin Held(Main) /\ m \notin Held(Dispatcher)
    BY <1>7, InHandsIsBoth
  <2>2. CASE t = Main
    BY <1>2, <1>3, <2>1, <2>2 DEF Drainers
  <2>3. CASE t = Dispatcher
    BY <1>2, <1>3, <2>1, <2>3 DEF Drainers
  <2>4. QED BY <2>2, <2>3 DEF Drainers
<1>9. QED BY <1>1, <1>4, <1>5, <1>6, <1>7, <1>8 DEF CustodyInv, Custody, IdsUsed

(* The end of _dispatch moves the message from the hands to done.           *)
LEMMA CustodyDispatchReturns ==
  ASSUME TypeOK, CustodyInv, NEW t \in Drainers, DispatchReturns(t)
  PROVE  CustodyInv'
<1> DEFINE m == msg[t]
<1>1. UNCHANGED <<queue, accepted, sent>> /\ done' = done \cup {m}
  BY DEF DispatchReturns, busState
<1>2. Held(t) = {m} /\ Held(t)' = {}
  BY DEF TypeOK, DispatchReturns, Held, Threads
<1>3. \A u \in Drainers : u # t => Held(u)' = Held(u)
  <2>1. \A u \in Drainers : u # t => pc'[u] = pc[u] /\ msg'[u] = msg[u]
    BY DEF TypeOK, DispatchReturns, Threads
  <2>2. QED BY <2>1 DEF Held
<1> HIDE DEF m
<1>4. InHands = InHands' \cup {m} /\ m \notin InHands' /\ Held(Main)' \cap Held(Dispatcher)' = {}
  BY <1>2, <1>3 DEF InHands, Drainers, CustodyInv, Custody
<1>5. QED BY <1>1, <1>4 DEF CustodyInv, Custody, IdsUsed, RangeOf

LEMMA CustodyNext == TypeOK /\ CustodyInv /\ [Next]_vars => CustodyInv'
<1> SUFFICES ASSUME TypeOK, CustodyInv, [Next]_vars PROVE CustodyInv'
  OBVIOUS
<1> DEFINE Unmoved ==
             /\ UNCHANGED <<queue, accepted, done, sent>>
             /\ \A t \in Drainers :
                  /\ pc'[t] = "handle" <=> pc[t] = "handle"
                  /\ pc[t] = "handle" => msg'[t] = msg[t]
<1>0. Unmoved => CustodyInv'
  <2> SUFFICES ASSUME Unmoved PROVE CustodyInv'
    OBVIOUS
  <2>1. Held(Main)' = Held(Main)
    BY DEF Held, Drainers
  <2>2. Held(Dispatcher)' = Held(Dispatcher)
    BY DEF Held, Drainers
  <2>3. QED BY <2>1, <2>2, CustodyUnmoved
<1>1. CASE Subscribe
  BY <1>0, <1>1 DEF Subscribe, local, history
<1>2. CASE DrainCall
  <2>1. Unmoved
    BY <1>2 DEF TypeOK, DrainCall, DrainBegins, busState, history, Threads, Drainers
  <2>2. QED BY <1>0, <2>1
<1>3. CASE Start
  <2>1. Unmoved
    BY <1>3 DEF TypeOK, Start, history, Threads, Drainers
  <2>2. QED BY <1>0, <2>1
<1>4. CASE Stop \/ StopSteps
  <2>1. FinalDrain => UNCHANGED <<accepted, done, sent, msg>> /\ DrainBegins(Main, "stopped")
    BY DEF FinalDrain
  <2>2. Unmoved
    BY <1>4, <2>1 DEF TypeOK, Stop, StopSteps, JoinReturns, JoinTimesOut, DrainBegins,
                      busState, history, Threads, Drainers
  <2>3. QED BY <1>0, <2>2
<1>5. CASE \E t \in Threads : Bump(t)
  <2>1. PICK t \in Threads : Bump(t)
    BY <1>5
  <2>2. Unmoved
    BY <2>1 DEF TypeOK, Bump, BumpLoad, BumpStore, busState, history, Threads, Drainers
  <2>3. QED BY <1>0, <2>2
<1>6. CASE DispatcherLoop
  <2>1. Unmoved
    BY <1>6 DEF TypeOK, DispatcherLoop, DispatcherCheck, DispatcherWakes, DrainBegins,
                busState, history, Threads, Drainers
  <2>2. QED BY <1>0, <2>1
<1>7. ASSUME NEW t \in Drainers, Drain(t) PROVE CustodyInv'
  <2>1. CASE Get(t)
    BY <2>1, CustodyGet
  <2>2. ASSUME NEW i \in DOMAIN Subs, Invoke(t, i) PROVE CustodyInv'
    BY <1>0, <2>2 DEF Invoke, busState
  <2>3. CASE DispatchReturns(t)
    BY <2>3, CustodyDispatchReturns
  <2>4. CASE DrainEnds(t)
    <3>1. Unmoved
      BY <2>4 DEF TypeOK, DrainEnds, BumpThen, busState, history, Threads, Drainers
    <3>2. QED BY <1>0, <3>1
  <2>5. QED BY <1>7, <2>1, <2>2, <2>3, <2>4 DEF Drain
<1>8. CASE UNCHANGED vars
  BY <1>0, <1>8 DEF vars, busState, local, history
<1>9. QED BY <1>1, <1>2, <1>3, <1>4, <1>5, <1>6, <1>7, <1>8, CustodyPublish DEF Next, Calls, Continue

LEMMA CustodyInit == Init => CustodyInv
BY DEF Init, CustodyInv, Custody, IdsUsed, InHands, Held, RangeOf, Drainers, Threads

(* Custody: although two threads drain one queue without a common lock, no  *)
(* accepted message is lost and none is dispatched twice.                   *)
THEOREM CustodyHolds == Spec => []Custody
<1>1. Init => CustodyInv
  BY CustodyInit
<1>2. CustodyInv => Custody
  BY DEF CustodyInv
<1>3. QED BY <1>1, <1>2, CustodyNext, TypeCorrect, PTL DEF Spec

-----------------------------------------------------------------------------
(* The counters.  A thread that has loaded a counter may store long after,  *)
(* over the updates of others, so it is not enough to bound the counters:   *)
(* the values that were loaded have to leave the same room for the updates  *)
(* still to come.                                                           *)

(* The threads about to count a call of publish.                            *)
Pending(c) == {t \in Threads : pc[t] \in {"load", "store"} /\ target[t] = c}

(* How far a counter may be, when what is under way is taken off.           *)
Room(c) ==
  CASE c = "published" -> Cardinality(accepted) - Cardinality(Pending(c))
    [] c = "dropped"   -> sent - Cardinality(accepted) - Cardinality(Pending(c))
    [] c = "delivered" -> Cardinality(done) - (count[Main] + count[Dispatcher])

CountedSetsFinite ==
  /\ IsFiniteSet(accepted)
  /\ IsFiniteSet(done)
  /\ IsFiniteSet(Pending("published"))
  /\ IsFiniteSet(Pending("dropped"))

CountersInv ==
  /\ CountedSetsFinite
  /\ \A c \in Counters : counters[c] <= Room(c)
  /\ \A t \in Threads, c \in Counters :
       pc[t] = "store" /\ target[t] = c => loaded[t] <= Room(c)

LEMMA RoomIs ==
  /\ Room("published") = Cardinality(accepted) - Cardinality(Pending("published"))
  /\ Room("dropped") = sent - Cardinality(accepted) - Cardinality(Pending("dropped"))
  /\ Room("delivered") = Cardinality(done) - (count[Main] + count[Dispatcher])
BY DEF Room

LEMMA SizesAreNumbers ==
  TypeOK /\ CountedSetsFinite =>
    /\ Cardinality(accepted) \in Nat
    /\ Cardinality(done) \in Nat
    /\ Cardinality(Pending("published")) \in Nat
    /\ Cardinality(Pending("dropped")) \in Nat
    /\ count[Main] \in Nat /\ count[Dispatcher] \in Nat
    /\ sent \in Nat
<1> SUFFICES ASSUME TypeOK, CountedSetsFinite
             PROVE  /\ Cardinality(accepted) \in Nat
                    /\ Cardinality(done) \in Nat
                    /\ Cardinality(Pending("published")) \in Nat
                    /\ Cardinality(Pending("dropped")) \in Nat
                    /\ count[Main] \in Nat /\ count[Dispatcher] \in Nat
                    /\ sent \in Nat
  OBVIOUS
<1>1. /\ Cardinality(accepted) \in Nat
      /\ Cardinality(done) \in Nat
      /\ Cardinality(Pending("published")) \in Nat
      /\ Cardinality(Pending("dropped")) \in Nat
  BY FS_CardinalityType DEF CountedSetsFinite
<1>2. count[Main] \in Nat /\ count[Dispatcher] \in Nat /\ sent \in Nat
  BY DEF TypeOK, Drainers
<1>3. QED BY <1>1, <1>2

LEMMA RoomIsANumber == TypeOK /\ CountedSetsFinite => \A c \in Counters : Room(c) \in Int
<1> SUFFICES ASSUME TypeOK, CountedSetsFinite, NEW c \in Counters PROVE Room(c) \in Int
  OBVIOUS
<1>1. CASE c = "published"
  BY <1>1, SizesAreNumbers, RoomIs
<1>2. CASE c = "dropped"
  BY <1>2, SizesAreNumbers, RoomIs
<1>3. CASE c = "delivered"
  BY <1>3, SizesAreNumbers, RoomIs
<1>4. QED BY <1>1, <1>2, <1>3 DEF Counters

(* The same of the state after a step.                                      *)
LEMMA RoomIsANumberNext ==
  (TypeOK /\ CountedSetsFinite => \A c \in Counters : Room(c) \in Int)'
BY RoomIsANumber, PTL

LEMMA RoomIsNext ==
  /\ Room("published")' = Cardinality(accepted') - Cardinality(Pending("published")')
  /\ Room("dropped")' = sent' - Cardinality(accepted') - Cardinality(Pending("dropped")')
  /\ Room("delivered")' = Cardinality(done') - (count'[Main] + count'[Dispatcher])
BY DEF Room, Pending

(* A step after which no room is smaller and no loaded value is new, and    *)
(* that stores nothing.                                                     *)
LEMMA CountersStay ==
  ASSUME TypeOK, TypeOK', CountersInv, CountedSetsFinite',
         UNCHANGED counters,
         \A c \in Counters : Room(c) <= Room(c)',
         \A t \in Threads : pc'[t] = "store" =>
            pc[t] = "store" /\ loaded'[t] = loaded[t] /\ target'[t] = target[t]
  PROVE  CountersInv'
<1>1. \A c \in Counters : Room(c) \in Int
  BY RoomIsANumber DEF CountersInv
<1>2. \A c \in Counters : Room(c)' \in Int
  BY RoomIsANumberNext DEF Counters
<1>3. \A c \in Counters : counters'[c] <= Room(c)'
  BY <1>1, <1>2 DEF CountersInv, TypeOK
<1>4. ASSUME NEW t \in Threads, NEW c \in Counters, pc'[t] = "store", target'[t] = c
      PROVE  loaded'[t] <= Room(c)'
  <2>1. loaded[t] <= Room(c) /\ loaded'[t] = loaded[t] /\ loaded[t] \in Nat
    BY <1>4 DEF CountersInv, TypeOK
  <2>2. QED BY <1>1, <1>2, <2>1
<1>5. QED BY <1>3, <1>4 DEF CountersInv

(* A step that changes neither the sets counted nor where a thread is in    *)
(* its bump, and that at most forgets what a drain has counted.             *)
LEMMA CountersUntouched ==
  ASSUME TypeOK, TypeOK', CountersInv,
         UNCHANGED <<counters, target, loaded, sent, accepted, done>>,
         \A t \in Threads : pc'[t] # pc[t] =>
            pc[t] \notin {"load", "store"} /\ pc'[t] \notin {"load", "store"},
         \A t \in Drainers : count'[t] <= count[t]
  PROVE  CountersInv'
<1>1. Pending("published")' = Pending("published") /\ Pending("dropped")' = Pending("dropped")
  BY DEF Pending
<1>2. CountedSetsFinite'
  BY <1>1 DEF CountersInv, CountedSetsFinite
<1>3. count'[Main] <= count[Main] /\ count'[Dispatcher] <= count[Dispatcher]
  BY DEF Drainers
<1>4. \A c \in Counters : Room(c) <= Room(c)'
  <2>1. Room("published") <= Room("published")' /\ Room("dropped") <= Room("dropped")'
    BY <1>1, RoomIs, RoomIsNext, SizesAreNumbers DEF CountersInv
  <2>2. Room("delivered") <= Room("delivered")'
    <3>1. count'[Main] \in Nat /\ count'[Dispatcher] \in Nat
      BY DEF TypeOK, Drainers
    <3>2. QED BY <1>3, <3>1, RoomIs, RoomIsNext, SizesAreNumbers DEF CountersInv
  <2>3. QED BY <2>1, <2>2 DEF Counters
<1>5. QED BY <1>2, <1>4, CountersStay

(* A call of publish begins to count: its set and its counter's room grow   *)
(* by one each way.                                                         *)
LEMMA CountersPublish ==
  ASSUME TypeOK, TypeOK', CustodyInv, CountersInv,
         NEW t \in {Main} \cup Publishers, NEW topic \in Topics, Publish(t, topic)
  PROVE  CountersInv'
<1> DEFINE m == [topic |-> topic, id |-> sent + 1]
<1>1. m \notin accepted /\ sent' = sent + 1
  <2>1. m.id = sent + 1
    OBVIOUS
  <2>2. QED BY <2>1 DEF CustodyInv, IdsUsed, TypeOK, Publish
<1>2. t \in Threads /\ pc[t] = "idle" /\ UNCHANGED <<counters, count, loaded, done>>
  BY DEF Publish, Threads, Drainers
<1>3. PublishAccepted(t, m) \/ PublishDropped(t, m)
  BY DEF Publish
<1> HIDE DEF m
<1>4. PICK c \in {"published", "dropped"} :
        /\ pc' = [pc EXCEPT ![t] = "load"]
        /\ target' = [target EXCEPT ![t] = c]
        /\ c = "published" => accepted' = accepted \cup {m}
        /\ c = "dropped" => accepted' = accepted
  BY <1>3 DEF PublishAccepted, PublishDropped, BumpThen
<1>5. t \notin Pending("published") /\ t \notin Pending("dropped")
  BY <1>2 DEF Pending
<1>6. /\ Pending(c)' = Pending(c) \cup {t}
      /\ \A d \in {"published", "dropped"} : d # c => Pending(d)' = Pending(d)
  BY <1>2, <1>4 DEF Pending, TypeOK
<1>7. /\ IsFiniteSet(accepted')
      /\ Cardinality(accepted') =
           IF c = "published" THEN Cardinality(accepted) + 1 ELSE Cardinality(accepted)
  BY <1>1, <1>4, FS_AddElement DEF CountersInv, CountedSetsFinite
<1>8. /\ IsFiniteSet(Pending(c)')
      /\ Cardinality(Pending(c)') = Cardinality(Pending(c)) + 1
  BY <1>5, <1>6, FS_AddElement DEF CountersInv, CountedSetsFinite
<1>9. CountedSetsFinite'
  BY <1>2, <1>6, <1>7, <1>8 DEF CountersInv, CountedSetsFinite
<1>10. \A d \in Counters : Room(d) <= Room(d)'
  <2>1. Room("delivered") <= Room("delivered")'
    BY <1>2, RoomIs, RoomIsNext, SizesAreNumbers DEF CountersInv
  <2>2. CASE c = "published"
    <3>1. /\ Cardinality(Pending("published")') = Cardinality(Pending("published")) + 1
          /\ Cardinality(Pending("dropped")') = Cardinality(Pending("dropped"))
          /\ Cardinality(accepted') = Cardinality(accepted) + 1
      BY <1>6, <1>7, <1>8, <2>2
    <3>2. Room("published") <= Room("published")' /\ Room("dropped") <= Room("dropped")'
      BY <1>1, <3>1, RoomIs, RoomIsNext, SizesAreNumbers DEF CountersInv
    <3>3. QED BY <2>1, <3>2 DEF Counters
  <2>3. CASE c = "dropped"
    <3>1. /\ Cardinality(Pending("dropped")') = Cardinality(Pending("dropped")) + 1
          /\ Cardinality(Pending("published")') = Cardinality(Pending("published"))
          /\ Cardinality(accepted') = Cardinality(accepted)
      BY <1>6, <1>7, <1>8, <2>3
    <3>2. Room("published") <= Room("published")' /\ Room("dropped") <= Room("dropped")'
      BY <1>1, <3>1, RoomIs, RoomIsNext, SizesAreNumbers DEF CountersInv
    <3>3. QED BY <2>1, <3>2 DEF Counters
  <2>4. QED BY <2>2, <2>3
<1>11. \A u \in Threads : pc'[u] = "store" =>
         pc[u] = "store" /\ loaded'[u] = loaded[u] /\ target'[u] = target[u]
  BY <1>2, <1>4 DEF TypeOK
<1>12. QED BY <1>2, <1>9, <1>10, <1>11, CountersStay

(* The load takes a value that leaves the room.                             *)
LEMMA CountersBumpLoad ==
  ASSUME TypeOK, TypeOK', CountersInv, NEW t \in Threads, BumpLoad(t)
  PROVE  CountersInv'
<1>1. /\ UNCHANGED <<counters, target, count, sent, accepted, done>>
      /\ pc[t] = "load" /\ pc' = [pc EXCEPT ![t] = "store"]
      /\ loaded' = [loaded EXCEPT ![t] = counters[target[t]]]
  BY DEF BumpLoad, busState, history
<1>2. Pending("published")' = Pending("published") /\ Pending("dropped")' = Pending("dropped")
  BY <1>1 DEF Pending, TypeOK
<1>3. CountedSetsFinite'
  BY <1>1, <1>2 DEF CountersInv, CountedSetsFinite
<1>4. \A c \in Counters : Room(c)' = Room(c)
  <2>1. /\ Room("published")' = Room("published")
        /\ Room("dropped")' = Room("dropped")
        /\ Room("delivered")' = Room("delivered")
    BY <1>1, <1>2, RoomIs, RoomIsNext
  <2>2. QED BY <2>1 DEF Counters
<1>5. ASSUME NEW u \in Threads, NEW c \in Counters, pc'[u] = "store", target'[u] = c
      PROVE  loaded'[u] <= Room(c)'
  BY <1>1, <1>4, <1>5 DEF CountersInv, TypeOK
<1>6. QED BY <1>1, <1>3, <1>4, <1>5 DEF CountersInv

(* The store gives its amount back to the room, for itself and for whoever  *)
(* has loaded before.                                                       *)
LEMMA CountersBumpStore ==
  ASSUME TypeOK, TypeOK', CountersInv, NEW t \in Threads, BumpStore(t)
  PROVE  CountersInv'
<1>0. PICK c \in Counters : target[t] = c
  BY DEF TypeOK
<1>1. /\ UNCHANGED <<sent, accepted, done>>
      /\ pc[t] = "store" /\ pc' = [pc EXCEPT ![t] = ret[t]]
      /\ counters' = [counters EXCEPT ![c] = loaded[t] + Amount(t)]
      /\ count' = [d \in Drainers |-> IF d = t THEN 0 ELSE count[d]]
      /\ target' = [target EXCEPT ![t] = "published"]
      /\ loaded' = [loaded EXCEPT ![t] = 0]
  BY <1>0 DEF BumpStore, history
<1>2. c \in Counters /\ ret[t] \notin {"load", "store"} /\ Amount(t) \in Nat
  <2>1. c = "delivered" => t \in Drainers
    BY <1>0 DEF TypeOK, Threads
  <2>2. Amount(t) \in Nat
    BY <1>0, <2>1 DEF TypeOK, Amount
  <2>3. QED BY <2>2 DEF TypeOK
<1>3. \A d \in {"published", "dropped"} : Pending(d)' = Pending(d) \ {t}
  BY <1>1, <1>2 DEF Pending, TypeOK
<1>4. \A d \in {"published", "dropped"} : t \in Pending(d) <=> d = c
  BY <1>0, <1>1 DEF Pending
<1>5. \A d \in {"published", "dropped"} :
        /\ IsFiniteSet(Pending(d)')
        /\ Cardinality(Pending(d)') =
             IF d = c THEN Cardinality(Pending(d)) - 1 ELSE Cardinality(Pending(d))
  BY <1>3, <1>4, FS_RemoveElement DEF CountersInv, CountedSetsFinite
<1>6. CountedSetsFinite'
  BY <1>1, <1>5 DEF CountersInv, CountedSetsFinite
<1>7. /\ count'[Main] \in Nat /\ count'[Main] <= count[Main]
      /\ count'[Dispatcher] \in Nat /\ count'[Dispatcher] <= count[Dispatcher]
      /\ c = "delivered" =>
           count'[Main] + count'[Dispatcher] = count[Main] + count[Dispatcher] - Amount(t)
  <2>1. count[Main] \in Nat /\ count[Dispatcher] \in Nat
    BY DEF TypeOK, Drainers
  <2>2. c = "delivered" => t \in Drainers
    BY <1>0 DEF TypeOK, Threads
  <2>3. QED BY <1>0, <1>1, <2>1, <2>2 DEF Amount, Drainers
<1>8. c # "delivered" => Amount(t) = 1
  BY <1>0 DEF Amount
<1>9. \A d \in Counters : Room(d)' >= IF d = c THEN Room(d) + Amount(t) ELSE Room(d)
  <2>1. Room("published")' >= IF "published" = c THEN Room("published") + Amount(t)
                              ELSE Room("published")
    BY <1>1, <1>2, <1>5, <1>8, RoomIs, RoomIsNext, SizesAreNumbers DEF CountersInv
  <2>2. Room("dropped")' >= IF "dropped" = c THEN Room("dropped") + Amount(t)
                            ELSE Room("dropped")
    BY <1>1, <1>2, <1>5, <1>8, RoomIs, RoomIsNext, SizesAreNumbers DEF CountersInv
  <2>3. Room("delivered")' >= IF "delivered" = c THEN Room("delivered") + Amount(t)
                              ELSE Room("delivered")
    <3>1. Room("delivered") = Cardinality(done) - (count[Main] + count[Dispatcher])
      BY RoomIs
    <3>2. Room("delivered")' = Cardinality(done) - (count'[Main] + count'[Dispatcher])
      BY <1>1, RoomIsNext
    <3>3. Cardinality(done) \in Nat /\ count[Main] \in Nat /\ count[Dispatcher] \in Nat
      BY SizesAreNumbers DEF CountersInv
    <3>4. QED BY <1>2, <1>7, <3>1, <3>2, <3>3
  <2>4. QED BY <2>1, <2>2, <2>3 DEF Counters
<1>10. \A d \in Counters : Room(d) \in Int /\ Room(d)' \in Int
  BY <1>6, RoomIsANumber, RoomIsANumberNext DEF CountersInv, Counters
<1>11. \A d \in Counters : counters'[d] <= Room(d)'
  <2>1. loaded[t] <= Room(c) /\ loaded[t] \in Nat
    BY <1>0, <1>1 DEF CountersInv, TypeOK
  <2>2. counters'[c] = loaded[t] + Amount(t) /\ Room(c)' >= Room(c) + Amount(t)
    BY <1>1, <1>2, <1>9 DEF TypeOK
  <2>3. counters'[c] <= Room(c)'
    BY <1>2, <1>10, <2>1, <2>2
  <2>4. ASSUME NEW d \in Counters, d # c PROVE counters'[d] <= Room(d)'
    <3>1. counters'[d] = counters[d] /\ counters[d] <= Room(d) /\ counters[d] \in Nat
      BY <1>1, <1>2, <2>4 DEF CountersInv, TypeOK
    <3>2. Room(d)' >= Room(d)
      BY <1>9, <2>4
    <3>3. QED BY <1>10, <3>1, <3>2
  <2>5. QED BY <2>3, <2>4
<1>12. ASSUME NEW u \in Threads, NEW d \in Counters, pc'[u] = "store", target'[u] = d
       PROVE  loaded'[u] <= Room(d)'
  <2>1. u # t /\ pc[u] = "store" /\ target[u] = d /\ loaded'[u] = loaded[u] /\ loaded[u] \in Nat
    BY <1>1, <1>2, <1>12 DEF TypeOK
  <2>2. QED BY <1>2, <1>9, <1>10, <2>1 DEF CountersInv
<1>13. QED BY <1>6, <1>11, <1>12 DEF CountersInv

(* A message dispatched is counted by its drain.                            *)
LEMMA CountersDispatchReturns ==
  ASSUME TypeOK, TypeOK', CustodyInv, CountersInv, NEW t \in Drainers, DispatchReturns(t)
  PROVE  CountersInv'
<1>1. /\ UNCHANGED <<counters, target, loaded, sent, accepted>>
      /\ pc[t] = "handle" /\ pc' = [pc EXCEPT ![t] = "get"]
      /\ count' = [count EXCEPT ![t] = @ + 1]
      /\ done' = done \cup {msg[t]}
  BY DEF DispatchReturns, busState
<1>2. msg[t] \notin done
  BY <1>1 DEF CustodyInv, Custody, InHands, Held
<1>3. IsFiniteSet(done') /\ Cardinality(done') = Cardinality(done) + 1
  BY <1>1, <1>2, FS_AddElement DEF CountersInv, CountedSetsFinite
<1>4. Pending("published")' = Pending("published") /\ Pending("dropped")' = Pending("dropped")
  BY <1>1 DEF Pending, TypeOK, Threads
<1>5. CountedSetsFinite'
  BY <1>1, <1>3, <1>4 DEF CountersInv, CountedSetsFinite
<1>6. \A c \in Counters : Room(c) <= Room(c)'
  <2>1. Room("published") <= Room("published")' /\ Room("dropped") <= Room("dropped")'
    BY <1>1, <1>4, RoomIs, RoomIsNext, SizesAreNumbers DEF CountersInv
  <2>2. /\ count[Main] \in Nat /\ count[Dispatcher] \in Nat
        /\ count'[Main] + count'[Dispatcher] = count[Main] + count[Dispatcher] + 1
    BY <1>1 DEF TypeOK, Drainers
  <2>3. Room("delivered") <= Room("delivered")'
    BY <1>3, <2>2, RoomIs, RoomIsNext, SizesAreNumbers DEF CountersInv
  <2>4. QED BY <2>1, <2>3 DEF Counters
<1>7. \A u \in Threads : pc'[u] = "store" => pc[u] = "store"
  BY <1>1 DEF TypeOK, Threads
<1>8. QED BY <1>1, <1>5, <1>6, <1>7, CountersStay

(* A drain that ends is still to count what it has delivered.               *)
LEMMA CountersDrainEnds ==
  ASSUME TypeOK, TypeOK', CountersInv, NEW t \in Drainers, DrainEnds(t)
  PROVE  CountersInv'
<1>1. /\ UNCHANGED <<counters, count, loaded, sent, accepted, done>>
      /\ pc[t] = "get" /\ pc' = [pc EXCEPT ![t] = "load"]
      /\ target' = [target EXCEPT ![t] = "delivered"]
  BY DEF DrainEnds, BumpThen, busState, history
<1>2. Pending("published")' = Pending("published") /\ Pending("dropped")' = Pending("dropped")
  BY <1>1 DEF Pending, TypeOK, Threads
<1>3. CountedSetsFinite'
  BY <1>1, <1>2 DEF CountersInv, CountedSetsFinite
<1>4. \A c \in Counters : Room(c) <= Room(c)'
  <2>1. /\ Room("published") <= Room("published")'
        /\ Room("dropped") <= Room("dropped")'
        /\ Room("delivered") <= Room("delivered")'
    BY <1>1, <1>2, RoomIs, RoomIsNext, SizesAreNumbers DEF CountersInv
  <2>2. QED BY <2>1 DEF Counters
<1>5. \A u \in Threads : pc'[u] = "store" => pc[u] = "store" /\ target'[u] = target[u]
  BY <1>1 DEF TypeOK, Threads
<1>6. QED BY <1>1, <1>3, <1>4, <1>5, CountersStay

(* The steps that count nothing.                                            *)
LEMMA CountersOtherSteps ==
  ASSUME TypeOK, TypeOK', CountersInv,
         \/ Subscribe \/ DrainCall \/ Start \/ Stop \/ StopSteps \/ DispatcherLoop
         \/ \E t \in Drainers : Get(t) \/ \E i \in DOMAIN Subs : Invoke(t, i)
         \/ UNCHANGED vars
  PROVE  CountersInv'
<1>1. UNCHANGED <<counters, target, loaded, sent, accepted, done>>
  BY DEF Subscribe, DrainCall, Start, Stop, StopSteps, JoinReturns, JoinTimesOut, FinalDrain,
         DispatcherLoop, DispatcherCheck, DispatcherWakes, Get, Invoke,
         vars, busState, local, history
<1>2. \A t \in Threads : pc'[t] # pc[t] =>
        pc[t] \notin {"load", "store"} /\ pc'[t] \notin {"load", "store"}
  BY DEF Subscribe, DrainCall, DrainBegins, Start, Stop, StopSteps, JoinReturns, JoinTimesOut,
         FinalDrain, DispatcherLoop, DispatcherCheck, DispatcherWakes, Get, Invoke,
         vars, local, TypeOK
<1>3. \A t \in Drainers : count'[t] <= count[t]
  <2>1. \A t \in Drainers : count[t] \in Nat
    BY DEF TypeOK
  <2>2. CASE \E t \in Drainers : DrainBegins(t, "idle") \/ DrainBegins(t, "check")
                                   \/ DrainBegins(t, "stopped")
    <3>1. PICK t \in Drainers : count' = [count EXCEPT ![t] = 0]
      BY <2>2 DEF DrainBegins
    <3>2. \A u \in Drainers : count'[u] = IF u = t THEN 0 ELSE count[u]
      BY <3>1 DEF TypeOK
    <3>3. QED BY <2>1, <3>2
  <2>3. CASE UNCHANGED count
    BY <2>1, <2>3
  <2>4. Main \in Drainers /\ Dispatcher \in Drainers
    BY DEF Drainers
  <2>5. QED BY <2>2, <2>3, <2>4
        DEF Subscribe, DrainCall, Start, Stop, StopSteps, JoinReturns, JoinTimesOut, FinalDrain,
            DispatcherLoop, DispatcherCheck, DispatcherWakes, Get, Invoke, vars, local
<1>4. QED BY <1>1, <1>2, <1>3, CountersUntouched

LEMMA CountersNext ==
  TypeOK /\ TypeOK' /\ CustodyInv /\ CountersInv /\ [Next]_vars => CountersInv'
<1> SUFFICES ASSUME TypeOK, TypeOK', CustodyInv, CountersInv, [Next]_vars PROVE CountersInv'
  OBVIOUS
<1>1. CASE Calls
  BY <1>1, CountersPublish, CountersOtherSteps DEF Calls
<1>2. CASE \E t \in Threads : Bump(t)
  BY <1>2, CountersBumpLoad, CountersBumpStore DEF Bump
<1>3. CASE \E t \in Drainers : Drain(t)
  BY <1>3, CountersDispatchReturns, CountersDrainEnds, CountersOtherSteps DEF Drain
<1>4. CASE DispatcherLoop \/ StopSteps \/ UNCHANGED vars
  BY <1>4, CountersOtherSteps
<1>5. QED BY <1>1, <1>2, <1>3, <1>4 DEF Next, Continue

(* The status never reports more messages than were published, dropped or   *)
(* delivered, although every += of the counters is a race.                  *)
THEOREM CountersNeverOverstateHolds == Spec => []CountersNeverOverstate
<1>1. Init => CountersInv
  <2> SUFFICES ASSUME Init PROVE CountersInv
    OBVIOUS
  <2>1. TypeOK
    BY TypeInit
  <2>2. /\ accepted = {} /\ done = {} /\ sent = 0 /\ counters = [c \in Counters |-> 0]
        /\ count = [t \in Drainers |-> 0] /\ \A t \in Threads : pc[t] \notin {"load", "store"}
    BY DEF Init
  <2>3. Pending("published") = {} /\ Pending("dropped") = {}
    BY <2>2 DEF Pending
  <2>4. CountedSetsFinite
    BY <2>2, <2>3, FS_EmptySet DEF CountedSetsFinite
  <2>5. Room("published") = 0 /\ Room("dropped") = 0 /\ Room("delivered") = 0
    <3>1. Cardinality({}) = 0 /\ count[Main] = 0 /\ count[Dispatcher] = 0
      BY <2>2, FS_EmptySet DEF Drainers
    <3>2. Cardinality(accepted) = 0 /\ Cardinality(done) = 0
      BY <2>2, <3>1
    <3>3. Cardinality(Pending("published")) = 0 /\ Cardinality(Pending("dropped")) = 0
      BY <2>3, <3>1
    <3>4. QED BY <2>2, <3>1, <3>2, <3>3, RoomIs
  <2>6. QED BY <2>2, <2>4, <2>5 DEF CountersInv, Counters
<1>2. TypeOK /\ CountersInv => CountersNeverOverstate
  <2> SUFFICES ASSUME TypeOK, CountersInv PROVE CountersNeverOverstate
    OBVIOUS
  <2>1. /\ counters["published"] \in Nat /\ counters["published"] <= Room("published")
        /\ counters["dropped"] \in Nat /\ counters["dropped"] <= Room("dropped")
        /\ counters["delivered"] \in Nat /\ counters["delivered"] <= Room("delivered")
    BY DEF CountersInv, Counters, TypeOK
  <2>2. CountedSetsFinite
    BY DEF CountersInv
  <2>3. /\ counters["published"] <= Cardinality(accepted)
        /\ counters["dropped"] <= sent - Cardinality(accepted)
        /\ counters["delivered"] <= Cardinality(done)
    <3>1. counters["published"] <= Cardinality(accepted)
      BY <2>1, <2>2, RoomIs, SizesAreNumbers
    <3>2. counters["dropped"] <= sent - Cardinality(accepted)
      BY <2>1, <2>2, RoomIs, SizesAreNumbers
    <3>3. counters["delivered"] <= Cardinality(done)
      BY <2>1, <2>2, RoomIs, SizesAreNumbers
    <3>4. QED BY <3>1, <3>2, <3>3
  <2>4. QED BY <2>3 DEF CountersNeverOverstate
<1>3. Init => CustodyInv
  BY CustodyInit
<1>4. QED BY <1>1, <1>2, <1>3, CustodyNext, CountersNext, TypeCorrect, PTL DEF Spec

-----------------------------------------------------------------------------
(* The final drain of stop().  Once the dispatch thread is gone Main alone  *)
(* takes messages, from the front; publishers append behind.  So what was   *)
(* accepted before the drain is dispatched, in Main's hands, or among as    *)
(* many of the oldest messages as the drain has still to take.              *)

(* stop() has begun its final drain.                                        *)
Stopping == ret[Main] = "stopped"

(* The n oldest messages of the queue.                                      *)
Oldest(n) == {queue[i] : i \in {k \in DOMAIN queue : k <= n}}

(* The messages of the backlog not taken yet, as far as Main drains.        *)
Left == backlog - count[Main] - (IF pc[Main] = "handle" THEN 1 ELSE 0)

StopInv ==
  /\ pc[Main] \in {"idle", "join"} => ~Stopping
  /\ pc[Main] = "stopped" => Stopping
  /\ ~Stopping /\ pc[Main] # "join" => thread \/ pc[Dispatcher] = "unborn"
  /\ Stopping /\ ~timedOut => pc[Dispatcher] \in {"unborn", "exited"}

FlushInv ==
  Stopping /\ ~timedOut =>
    /\ pc[Main] \in {"get", "handle"} =>
         flush \subseteq done \cup Held(Main) \cup Oldest(Left)
    /\ pc[Main] \notin {"get", "handle"} =>
         flush \subseteq done \cup Oldest(backlog - DrainLimit)

LEMMA StopInvNext == TypeOK /\ StopInv /\ [Next]_vars => StopInv'
<1> SUFFICES ASSUME TypeOK, StopInv, [Next]_vars PROVE StopInv'
  OBVIOUS
<1>0. /\ Main \in Threads /\ Dispatcher \in Threads /\ Main # Dispatcher
      /\ Main \in Drainers /\ Dispatcher \in Drainers
  BY DEF Threads, Drainers
<1>1. CASE Subscribe \/ UNCHANGED vars
  BY <1>1 DEF Subscribe, vars, busState, local, history, StopInv, Stopping
<1>2. CASE DrainCall
  <2>1. /\ pc[Main] = "idle" /\ pc'[Main] = "get" /\ ret'[Main] = "idle"
        /\ pc'[Dispatcher] = pc[Dispatcher] /\ UNCHANGED <<thread, timedOut>>
    BY <1>0, <1>2 DEF DrainCall, DrainBegins, TypeOK, busState, history
  <2>2. QED BY <2>1 DEF StopInv, Stopping
<1>3. CASE Start
  <2>1. /\ pc[Main] = "idle" /\ pc'[Main] = "idle" /\ thread' = TRUE /\ UNCHANGED ret
    BY <1>0, <1>3 DEF Start, TypeOK
  <2>2. QED BY <2>1 DEF StopInv, Stopping
<1>4. CASE Stop
  <2>1. CASE thread
    <3>1. pc'[Main] = "join" /\ UNCHANGED ret /\ pc[Main] = "idle"
      BY <1>0, <1>4, <2>1 DEF Stop, TypeOK
    <3>2. QED BY <3>1 DEF StopInv, Stopping
  <2>2. CASE ~thread
    <3>1. /\ pc[Main] = "idle" /\ pc'[Main] = "get" /\ ret'[Main] = "stopped"
          /\ pc'[Dispatcher] = pc[Dispatcher]
      BY <1>0, <1>4, <2>2 DEF Stop, FinalDrain, DrainBegins, TypeOK
    <3>2. QED BY <2>2, <3>1 DEF StopInv, Stopping
  <2>3. QED BY <2>1, <2>2
<1>5. CASE StopSteps
  <2>1. /\ pc[Main] = "join" /\ pc'[Main] = "get" /\ ret'[Main] = "stopped"
        /\ pc'[Dispatcher] = pc[Dispatcher]
        /\ pc[Dispatcher] = "exited" \/ timedOut'
    BY <1>0, <1>5 DEF StopSteps, JoinReturns, JoinTimesOut, FinalDrain, DrainBegins, TypeOK
  <2>2. QED BY <2>1 DEF StopInv, Stopping
<1>6. ASSUME NEW t \in {Main} \cup Publishers, NEW topic \in Topics, Publish(t, topic)
      PROVE  StopInv'
  <2>1. /\ t \in Threads /\ t # Dispatcher /\ pc[t] = "idle" /\ UNCHANGED <<thread, timedOut>>
        /\ pc' = [pc EXCEPT ![t] = "load"] /\ ret' = [ret EXCEPT ![t] = "idle"]
    BY <1>0, <1>6 DEF Publish, PublishAccepted, PublishDropped, BumpThen, Threads
  <2>2. pc'[Dispatcher] = pc[Dispatcher]
    BY <1>0, <2>1 DEF TypeOK
  <2>3. CASE t = Main
    BY <1>0, <2>1, <2>2, <2>3 DEF StopInv, Stopping, TypeOK
  <2>4. CASE t # Main
    BY <1>0, <2>1, <2>2, <2>4 DEF StopInv, Stopping, TypeOK
  <2>5. QED BY <2>3, <2>4
<1>7. ASSUME NEW t \in Threads, Bump(t) PROVE StopInv'
  <2>1. /\ UNCHANGED <<thread, timedOut, ret>>
        /\ pc[t] \in {"load", "store"}
        /\ \A u \in Threads : u # t => pc'[u] = pc[u]
        /\ pc'[t] \in {"store", ret[t]}
    BY <1>7 DEF Bump, BumpLoad, BumpStore, busState, history, TypeOK
  <2>2. ret[t] \in {"idle", "check", "wait", "stopped"}
    BY DEF TypeOK
  <2>3. CASE t = Main
    BY <1>0, <2>1, <2>2, <2>3 DEF StopInv, Stopping
  <2>4. CASE t # Main
    BY <1>0, <2>1, <2>2, <2>4 DEF StopInv, Stopping
  <2>5. QED BY <2>3, <2>4
<1>8. ASSUME NEW t \in Drainers, Drain(t) PROVE StopInv'
  <2>1. /\ UNCHANGED <<thread, timedOut>>
        /\ pc[t] \in {"get", "handle"} /\ pc'[t] \in {"get", "handle", "load"}
        /\ \A u \in Threads : u # t => pc'[u] = pc[u] /\ ret'[u] = ret[u]
        /\ t = Main => ret'[t] = ret[t]
    <3>1. t \in Threads
      BY DEF Threads
    <3>2. CASE DrainEnds(t)
      BY <1>0, <3>1, <3>2
         DEF DrainEnds, AfterDrain, BumpThen, busState, history, TypeOK
    <3>3. CASE Get(t) \/ (\E i \in DOMAIN Subs : Invoke(t, i)) \/ DispatchReturns(t)
      BY <3>1, <3>3 DEF Get, Invoke, DispatchReturns, busState, history, TypeOK
    <3>4. QED BY <1>8, <3>2, <3>3 DEF Drain
  <2>2. CASE t = Main
    BY <1>0, <2>1, <2>2 DEF StopInv, Stopping
  <2>3. CASE t = Dispatcher
    BY <1>0, <2>1, <2>3 DEF StopInv, Stopping
  <2>4. QED BY <2>2, <2>3 DEF Drainers
<1>9. CASE DispatcherLoop
  <2>1. /\ UNCHANGED <<thread, timedOut>>
        /\ pc'[Main] = pc[Main] /\ ret'[Main] = ret[Main] /\ pc[Dispatcher] \in {"check", "wait"}
    BY <1>0, <1>9 DEF DispatcherLoop, DispatcherCheck, DispatcherWakes, DrainBegins,
                      busState, history, TypeOK
  <2>2. QED BY <2>1 DEF StopInv, Stopping
<1>10. QED BY <1>1, <1>2, <1>3, <1>4, <1>5, <1>6, <1>7, <1>8, <1>9 DEF Next, Calls, Continue

(* What was accepted when the final drain begins is in the queue, all of it *)
(* in the backlog, or done: nobody else holds a message.                    *)
LEMMA FinalDrainFlushes ==
  ASSUME TypeOK, Custody, FinalDrain, UNCHANGED <<queue, done>>,
         pc[Main] \in {"idle", "join"}, pc[Dispatcher] \in {"unborn", "exited"}
  PROVE  flush' \subseteq done' \cup Held(Main)' \cup Oldest(Left)'
<1>1. InHands = {}
  BY DEF InHands, Held, Drainers
<1>2. flush' = RangeOf(queue) \cup done
  BY <1>1 DEF FinalDrain, Custody
<1>3. pc'[Main] = "get" /\ count'[Main] = 0 /\ backlog' = Len(queue)
  BY DEF FinalDrain, DrainBegins, TypeOK, Threads, Drainers
<1>4. Left' = Len(queue)
  BY <1>3 DEF Left, TypeOK
<1>5. \A i \in DOMAIN queue : i <= Len(queue)
  BY DEF TypeOK
<1>6. RangeOf(queue) \subseteq Oldest(Left)'
  BY <1>4, <1>5 DEF RangeOf, Oldest
<1>7. QED BY <1>2, <1>6

(* get_nowait moves the oldest of them into Main's hands.                   *)
LEMMA GetFlushes ==
  ASSUME TypeOK, Get(Main), flush \subseteq done \cup Held(Main) \cup Oldest(Left)
  PROVE  flush' \subseteq done' \cup Held(Main)' \cup Oldest(Left)'
<1>1. /\ pc[Main] = "get" /\ pc'[Main] = "handle" /\ msg'[Main] = Head(queue)
      /\ queue' = Tail(queue) /\ queue # <<>> /\ UNCHANGED <<flush, done, backlog, count>>
  BY DEF Get, TypeOK, Threads, Drainers, history
<1>2. Held(Main) = {} /\ Held(Main)' = {Head(queue)}
  BY <1>1 DEF Held
<1>3. Left' = Left - 1 /\ Left \in Int
  BY <1>1 DEF Left, TypeOK, Drainers
<1>4. /\ queue \in Seq(Message) /\ Head(queue) = queue[1]
      /\ DOMAIN queue' = 1 .. Len(queue) - 1 /\ DOMAIN queue = 1 .. Len(queue)
      /\ Len(queue) \in Nat
      /\ \A i \in 1 .. Len(queue) - 1 : queue'[i] = queue[i + 1]
  BY <1>1 DEF TypeOK
<1>5. ASSUME NEW k \in DOMAIN queue, k <= Left
      PROVE  queue[k] \in {Head(queue)} \cup Oldest(Left)'
  <2>1. CASE k = 1
    BY <1>4, <2>1
  <2>2. CASE k # 1
    <3>1. k - 1 \in DOMAIN queue' /\ k - 1 <= Left' /\ queue'[k - 1] = queue[k]
      BY <1>3, <1>4, <1>5, <2>2
    <3>2. QED BY <3>1 DEF Oldest
  <2>3. QED BY <2>1, <2>2
<1>6. Oldest(Left) \subseteq {Head(queue)} \cup Oldest(Left)'
  BY <1>5 DEF Oldest
<1>7. QED BY <1>1, <1>2, <1>6

LEMMA DispatchReturnsFlushes ==
  ASSUME TypeOK, DispatchReturns(Main), flush \subseteq done \cup Held(Main) \cup Oldest(Left)
  PROVE  flush' \subseteq done' \cup Held(Main)' \cup Oldest(Left)'
<1>1. /\ pc[Main] = "handle" /\ pc'[Main] = "get" /\ done' = done \cup {msg[Main]}
      /\ count'[Main] = count[Main] + 1 /\ UNCHANGED <<flush, backlog, queue>>
  BY DEF DispatchReturns, busState, TypeOK, Threads, Drainers
<1>2. Left' = Left
  BY <1>1 DEF Left, TypeOK, Drainers
<1>3. Oldest(Left)' = Oldest(Left)
  BY <1>1, <1>2 DEF Oldest
<1>4. Held(Main) = {msg[Main]}
  BY <1>1 DEF Held
<1>5. QED BY <1>1, <1>3, <1>4

(* The drain ends with the queue empty or the limit reached: what is left   *)
(* is what the backlog held beyond the limit.                               *)
LEMMA DrainEndsFlushed ==
  ASSUME TypeOK, DrainEnds(Main),
         flush \subseteq done \cup Held(Main) \cup Oldest(Left)
  PROVE  flush' \subseteq done' \cup Oldest(backlog - DrainLimit)'
<1>1. pc[Main] = "get" /\ UNCHANGED <<flush, done, backlog, queue>>
  BY DEF DrainEnds, history, busState
<1>2. Held(Main) = {}
  BY <1>1 DEF Held
<1>3. CASE queue = <<>>
  <2>1. Oldest(Left) = {}
    BY <1>3 DEF Oldest
  <2>2. QED BY <1>1, <1>2, <2>1
<1>4. CASE count[Main] = DrainLimit
  <2>1. Left = backlog - DrainLimit
    BY <1>1, <1>4, LimitAssumption DEF Left, TypeOK
  <2>2. Oldest(backlog - DrainLimit)' = Oldest(backlog - DrainLimit)
    BY <1>1 DEF Oldest
  <2>3. QED BY <1>1, <1>2, <2>1, <2>2
<1>5. QED BY <1>3, <1>4 DEF DrainEnds

(* A step of another thread that takes no message from the queue.           *)
LEMMA FlushUntouched ==
  ASSUME TypeOK, FlushInv, Stopping, ~timedOut,
         UNCHANGED <<flush, done, backlog>>,
         pc'[Main] = pc[Main], count'[Main] = count[Main], msg'[Main] = msg[Main],
         queue' = queue \/ \E m \in Message : queue' = Append(queue, m)
  PROVE  FlushInv'
<1>1. \A k \in DOMAIN queue : k \in DOMAIN queue' /\ queue'[k] = queue[k]
  <2>1. CASE queue' = queue
    BY <2>1
  <2>2. CASE \E m \in Message : queue' = Append(queue, m)
    <3>1. PICK m \in Message : queue' = Append(queue, m)
      BY <2>2
    <3>2. queue \in Seq(Message)
      BY DEF TypeOK
    <3>3. \A k \in DOMAIN queue :
            k \in DOMAIN Append(queue, m) /\ Append(queue, m)[k] = queue[k]
      BY <3>2, AppendKeeps
    <3>4. QED BY <3>1, <3>3
  <2>3. QED BY <2>1, <2>2
<1>2. Left' = Left
  BY DEF Left
<1>3. /\ Oldest(Left) \subseteq Oldest(Left)'
      /\ Oldest(backlog - DrainLimit) \subseteq Oldest(backlog - DrainLimit)'
  BY <1>1, <1>2 DEF Oldest
<1>4. Held(Main)' = Held(Main)
  BY DEF Held
<1>5. QED BY <1>3, <1>4 DEF FlushInv

(* Only stop() begins the final drain.                                      *)
LEMMA StopBeginsDrain ==
  ASSUME TypeOK, [Next]_vars, ~(Stop \/ StopSteps)
  PROVE  /\ timedOut' = timedOut /\ flush' = flush /\ backlog' = backlog
         /\ Stopping' => Stopping
<1>0. /\ Main \in Threads /\ Dispatcher \in Threads /\ Main # Dispatcher
      /\ Main \in Drainers /\ Dispatcher \in Drainers
  BY DEF Threads, Drainers
<1>1. timedOut' = timedOut /\ flush' = flush /\ backlog' = backlog
  BY DEF Next, Calls, Continue, Subscribe, DrainCall, Start, Publish, Bump, BumpLoad,
              BumpStore, Drain, Get, Invoke, DispatchReturns, DrainEnds, DispatcherLoop,
              DispatcherCheck, DispatcherWakes, vars, history
<1>2. ret'[Main] = "stopped" => ret[Main] = "stopped"
  <2>1. CASE Calls
    <3>1. CASE Subscribe \/ Start
      BY <3>1 DEF Subscribe, Start, local
    <3>2. CASE DrainCall
      BY <1>0, <3>2 DEF DrainCall, DrainBegins, TypeOK
    <3>3. ASSUME NEW t \in {Main} \cup Publishers, NEW topic \in Topics, Publish(t, topic)
          PROVE  ret'[Main] = "stopped" => ret[Main] = "stopped"
      BY <1>0, <3>3 DEF Publish, PublishAccepted, PublishDropped, BumpThen, TypeOK, Threads
    <3>4. QED BY <2>1, <3>1, <3>2, <3>3 DEF Calls
  <2>2. CASE \E t \in Threads : Bump(t)
    BY <2>2 DEF Bump, BumpLoad, BumpStore
  <2>3. CASE \E t \in Drainers : Drain(t)
    BY <1>0, <2>3 DEF Drain, Get, Invoke, DispatchReturns, DrainEnds, AfterDrain, BumpThen,
                      TypeOK, Threads
  <2>4. CASE DispatcherLoop
    BY <1>0, <2>4 DEF DispatcherLoop, DispatcherCheck, DispatcherWakes, DrainBegins, TypeOK
  <2>5. CASE UNCHANGED vars
    BY <2>5 DEF vars, local
  <2>6. QED BY <2>1, <2>2, <2>3, <2>4, <2>5 DEF Next, Continue
<1>3. QED BY <1>1, <1>2 DEF Stopping

LEMMA FlushNext ==
  TypeOK /\ Custody /\ StopInv /\ FlushInv /\ [Next]_vars => FlushInv'
<1> SUFFICES ASSUME TypeOK, Custody, StopInv, FlushInv, [Next]_vars, Stopping', ~timedOut'
             PROVE  FlushInv'
  BY DEF FlushInv
<1>0. /\ Main \in Threads /\ Dispatcher \in Threads /\ Main # Dispatcher
      /\ Main \in Drainers /\ Dispatcher \in Drainers
  BY DEF Threads, Drainers
<1>1. CASE Stop \/ StopSteps
  <2>1. FinalDrain /\ UNCHANGED queue /\ pc[Main] \in {"idle", "join"}
    <3>1. CASE Stop /\ thread
      <4>1. ret' = ret /\ pc[Main] = "idle"
        BY <3>1 DEF Stop
      <4>2. QED BY <4>1 DEF StopInv, Stopping
    <3>2. QED BY <1>1, <3>1 DEF Stop, StopSteps, JoinReturns, JoinTimesOut, busState
  <2>2. pc[Dispatcher] \in {"unborn", "exited"}
    <3>1. CASE Stop
      <4>1. ~thread /\ pc[Main] = "idle"
        BY <3>1 DEF Stop, StopInv, Stopping
      <4>2. QED BY <4>1 DEF StopInv
    <3>2. CASE StopSteps
      BY <3>2 DEF StopSteps, JoinReturns, JoinTimesOut
    <3>3. QED BY <1>1, <3>1, <3>2
  <2>3. done' = done /\ pc'[Main] = "get"
    BY <1>0, <2>1 DEF FinalDrain, DrainBegins, TypeOK
  <2>4. QED BY <2>1, <2>2, <2>3, FinalDrainFlushes DEF FlushInv
<1>2. CASE ~(Stop \/ StopSteps)
  <2>1. Stopping /\ timedOut' = timedOut /\ flush' = flush /\ backlog' = backlog
    BY <1>2, StopBeginsDrain
  <2>2. /\ ~timedOut /\ pc[Main] \notin {"idle", "join"}
        /\ pc[Dispatcher] \in {"unborn", "exited"}
    BY <2>1 DEF StopInv
  <2>3. CASE Calls
    <3>1. PICK t \in Publishers, topic \in Topics : Publish(t, topic)
      BY <1>2, <2>2, <2>3 DEF Calls, Subscribe, DrainCall, Start, Publish
    <3>2. t \in Threads /\ t # Main
      BY <1>0 DEF Threads
    <3>3. [topic |-> topic, id |-> sent + 1] \in Message
      BY <3>1 DEF TypeOK, Publish, Message
    <3>4. /\ pc'[Main] = pc[Main] /\ UNCHANGED <<count, msg, done>>
          /\ queue' = queue \/ queue' = Append(queue, [topic |-> topic, id |-> sent + 1])
      BY <1>0, <3>1, <3>2 DEF Publish, PublishAccepted, PublishDropped, BumpThen, TypeOK
    <3>5. QED BY <2>1, <2>2, <3>3, <3>4, FlushUntouched
  <2>4. ASSUME NEW t \in Threads, Bump(t) PROVE FlushInv'
    <3>1. /\ UNCHANGED <<queue, msg, done, ret>> /\ pc[t] \in {"load", "store"}
          /\ \A u \in Threads : u # t => pc'[u] = pc[u]
          /\ \A u \in Drainers : u # t => count'[u] = count[u]
          /\ pc'[t] \in {"store", ret[t]}
      BY <2>4 DEF Bump, BumpLoad, BumpStore, busState, history, TypeOK
    <3>2. CASE t # Main
      BY <1>0, <2>1, <2>2, <3>1, <3>2, FlushUntouched
    <3>3. CASE t = Main
      <4>1. pc[Main] \notin {"get", "handle"} /\ pc'[Main] \notin {"get", "handle"}
        BY <2>1, <3>1, <3>3 DEF Stopping
      <4>2. Oldest(backlog - DrainLimit)' = Oldest(backlog - DrainLimit)
        BY <2>1, <3>1 DEF Oldest
      <4>3. QED BY <2>1, <2>2, <3>1, <4>1, <4>2 DEF FlushInv
    <3>4. QED BY <3>2, <3>3
  <2>5. ASSUME NEW t \in Drainers, Drain(t) PROVE FlushInv'
    <3>1. pc[t] \in {"get", "handle"}
      BY <2>5 DEF Drain, Get, Invoke, DispatchReturns, DrainEnds
    <3>2. t = Main
      BY <2>2, <3>1 DEF Drainers
    <3>3. flush \subseteq done \cup Held(Main) \cup Oldest(Left)
      BY <2>1, <2>2, <3>1, <3>2 DEF FlushInv
    <3>4. CASE Get(Main)
      <4>1. pc'[Main] = "handle"
        BY <1>0, <3>4 DEF Get, TypeOK
      <4>2. QED BY <3>3, <3>4, <4>1, GetFlushes DEF FlushInv
    <3>5. ASSUME NEW i \in DOMAIN Subs, Invoke(Main, i) PROVE FlushInv'
      BY <2>1, <2>2, <3>5, FlushUntouched DEF Invoke, busState
    <3>6. CASE DispatchReturns(Main)
      <4>1. pc'[Main] = "get"
        BY <1>0, <3>6 DEF DispatchReturns, TypeOK
      <4>2. QED BY <3>3, <3>6, <4>1, DispatchReturnsFlushes DEF FlushInv
    <3>7. CASE DrainEnds(Main)
      <4>1. pc'[Main] = "load"
        BY <1>0, <3>7 DEF DrainEnds, BumpThen, TypeOK
      <4>2. QED BY <2>1, <3>3, <3>7, <4>1, DrainEndsFlushed DEF FlushInv
    <3>8. QED BY <2>5, <3>2, <3>4, <3>5, <3>6, <3>7 DEF Drain
  <2>6. CASE DispatcherLoop
    BY <2>2, <2>6 DEF DispatcherLoop, DispatcherCheck, DispatcherWakes
  <2>7. CASE UNCHANGED vars
    BY <2>1, <2>2, <2>7, FlushUntouched DEF vars, busState, local, history
  <2>8. QED BY <1>2, <2>3, <2>4, <2>5, <2>6, <2>7 DEF Next, Continue
<1>3. QED BY <1>1, <1>2

LEMMA StopInit == Init => StopInv /\ FlushInv
BY DEF Init, StopInv, FlushInv, Stopping, Threads, Drainers

(* The order in which stop() ends the dispatch thread and drains.           *)
LEMMA StopsInOrder == Spec => [](StopInv /\ FlushInv)
<1>1. QED BY StopInit, StopInvNext, FlushNext, TypeCorrect, CustodyHolds, PTL DEF Spec

LEMMA OldestBounded ==
  ASSUME TypeOK, NEW n \in Int
  PROVE  /\ IsFiniteSet(Oldest(n))
         /\ Cardinality(Oldest(n)) <= IF n > 0 THEN n ELSE 0
<1> DEFINE D == {k \in DOMAIN queue : k <= n}
           f == [k \in D |-> queue[k]]
<1>1. D \subseteq 1 .. n
  BY DEF TypeOK
<1>2. IsFiniteSet(1 .. n) /\ Cardinality(1 .. n) = (IF 1 > n THEN 0 ELSE n - 1 + 1)
  BY FS_Interval
<1>3. IsFiniteSet(D) /\ Cardinality(D) <= Cardinality(1 .. n)
  BY <1>1, <1>2, FS_Subset
<1>4. f \in Surjection(D, Oldest(n))
  BY DEF Oldest, Surjection
<1>5. IsFiniteSet(Oldest(n)) /\ Cardinality(Oldest(n)) <= Cardinality(D)
  BY <1>3, <1>4, FS_Surjection
<1>6. Cardinality(Oldest(n)) \in Nat /\ Cardinality(D) \in Nat
  BY <1>3, <1>5, FS_CardinalityType
<1> HIDE DEF D
<1>7. QED BY <1>2, <1>3, <1>5, <1>6

(* stop() flushes: when it returns and the dispatch thread could be joined, *)
(* the messages accepted before the final drain have been dispatched, but   *)
(* for as many as the queue then held beyond the limit of one drain.        *)
THEOREM StopFlushesHolds == Spec => []StopFlushes
<1>1. TypeOK /\ StopInv /\ FlushInv => StopFlushes
  <2> SUFFICES ASSUME TypeOK, StopInv, FlushInv, pc[Main] = "stopped", ~timedOut
               PROVE  Cardinality(flush \ done)
                        <= IF backlog > DrainLimit THEN backlog - DrainLimit ELSE 0
    BY DEF StopFlushes
  <2> DEFINE n == backlog - DrainLimit
  <2>1. n \in Int /\ backlog \in Nat /\ DrainLimit \in Nat
    BY LimitAssumption DEF TypeOK
  <2>2. flush \ done \subseteq Oldest(n)
    BY DEF StopInv, FlushInv
  <2>3. IsFiniteSet(Oldest(n)) /\ Cardinality(Oldest(n)) <= IF n > 0 THEN n ELSE 0
    BY <2>1, OldestBounded
  <2>4. /\ IsFiniteSet(flush \ done)
        /\ Cardinality(flush \ done) <= Cardinality(Oldest(n))
    BY <2>2, <2>3, FS_Subset
  <2>5. Cardinality(flush \ done) \in Nat /\ Cardinality(Oldest(n)) \in Nat
    BY <2>3, <2>4, FS_CardinalityType
  <2>6. QED BY <2>1, <2>3, <2>4, <2>5
<1>2. QED BY <1>1, TypeCorrect, StopsInOrder, PTL

-----------------------------------------------------------------------------
(* The bus keeps its promise: MessageBus implements BusPromise.  The proof  *)
(* needs to know that a message is in one place only (CustodyInv), so that  *)
(* the two threads never owe the same handler the same message, and that    *)
(* nobody drains before all handlers are subscribed (WiringInv), so that    *)
(* those _dispatch collects are all that are interested.                    *)

WiringInv ==
  /\ \A i \in DOMAIN subscriptions : subscriptions[i] = Subs[i]
  /\ pc[Dispatcher] # "unborn" => Wired
  /\ pc[Main] \in {"get", "handle", "join"} => Wired

-----------------------------------------------------------------------------
(* Interest                                                                 *)

LEMMA MatchingIsInterest ==
  ASSUME TypeOK, WiringInv, Wired, NEW m \in Message
  PROVE  Matching(m.topic) = Interested[m]
<1>1. m.topic \in Seq(STRING)
  BY TopicsAssumption DEF Message
<1>2. DOMAIN subscriptions = DOMAIN Subs
  BY SubsAssumption DEF TypeOK, Wired
<1>3. \A i \in DOMAIN Subs : subscriptions[i] = Subs[i] /\ Subs[i] \in Seq(STRING)
  BY <1>2, SubsAssumption DEF WiringInv
<1>4. Matching(m.topic) = {i \in DOMAIN Subs : Matches(Subs[i], m.topic)}
  BY <1>2, <1>3 DEF Matching
<1>5. QED BY <1>1, <1>3, <1>4, MatchesIsInterest DEF Interested

-----------------------------------------------------------------------------
(* Wiring                                                                   *)

LEMMA WiringInit == Init => WiringInv
BY DEF Init, WiringInv, Threads, Drainers, ThreadsAssumption

LEMMA WiringNext == TypeOK /\ WiringInv /\ [Next]_vars => WiringInv'
<1> SUFFICES ASSUME TypeOK, WiringInv, [Next]_vars PROVE WiringInv'
  OBVIOUS
<1>0. Main \in Threads /\ Dispatcher \in Threads /\ Main # Dispatcher
      /\ Main \in Drainers /\ Dispatcher \in Drainers
  BY ThreadsAssumption DEF Threads, Drainers
<1>1. CASE Subscribe
  <2>1. subscriptions \in Seq(Seq(STRING)) /\ Len(subscriptions) < Len(Subs)
    BY <1>1, SubsAssumption DEF Subscribe, Wired, TypeOK
  <2>2. \A i \in DOMAIN subscriptions' : subscriptions'[i] = Subs[i]
    BY <1>1, <2>1, SubsAssumption DEF Subscribe, WiringInv
  <2>3. pc' = pc /\ pc[Main] = "idle" /\ ~Wired
    BY <1>1 DEF Subscribe, local
  <2>4. QED BY <2>2, <2>3 DEF WiringInv
<1>2. CASE ~Subscribe
  <2>1. subscriptions' = subscriptions
    <3>1. CASE Continue
      BY <3>1 DEF Continue, Bump, BumpLoad, BumpStore, Drain, Get, Invoke, DispatchReturns,
                  DrainEnds, DispatcherLoop, DispatcherCheck, DispatcherWakes, StopSteps,
                  JoinReturns, JoinTimesOut, busState
    <3>2. CASE UNCHANGED vars
      BY <3>2 DEF vars, busState
    <3>3. QED BY <1>2, <3>1, <3>2
          DEF Next, Calls, DrainCall, Start, Stop, Publish, busState
  <2>2. Wired' = Wired
    BY <2>1 DEF Wired
  <2>3. pc'[Dispatcher] # "unborn" => pc[Dispatcher] # "unborn" \/ Wired
    <3>1. CASE Calls
      BY <1>0, <1>2, <3>1 DEF Calls, DrainCall, Start, Stop, FinalDrain, DrainBegins, Publish,
                  PublishAccepted, PublishDropped, BumpThen, TypeOK
    <3>2. CASE \E t \in Threads : Bump(t)
      BY <1>0, <3>2 DEF Bump, BumpLoad, BumpStore, TypeOK
    <3>3. CASE \E t \in Drainers : Drain(t)
      BY <1>0, <3>3 DEF Drain, Get, Invoke, DispatchReturns, DrainEnds, BumpThen, TypeOK, Threads
    <3>4. CASE DispatcherLoop \/ StopSteps
      BY <1>0, <3>4 DEF DispatcherLoop, DispatcherCheck, DispatcherWakes, StopSteps,
                  JoinReturns, JoinTimesOut, FinalDrain, DrainBegins, TypeOK
    <3>5. CASE UNCHANGED vars
      BY <3>5 DEF vars, local
    <3>6. QED BY <3>1, <3>2, <3>3, <3>4, <3>5 DEF Next, Continue
  <2>4. pc'[Main] \in {"get", "handle", "join"}
          => pc[Main] \in {"get", "handle", "join"} \/ Wired
    <3>1. CASE Calls
      BY <1>0, <1>2, <3>1 DEF Calls, DrainCall, Start, Stop, FinalDrain, DrainBegins, Publish,
                  PublishAccepted, PublishDropped, BumpThen, TypeOK
    <3>2. CASE \E t \in Threads : Bump(t)
      BY <1>0, <3>2 DEF Bump, BumpLoad, BumpStore, TypeOK
    <3>3. CASE \E t \in Drainers : Drain(t)
      BY <1>0, <3>3 DEF Drain, Get, Invoke, DispatchReturns, DrainEnds, BumpThen, TypeOK, Threads
    <3>4. CASE DispatcherLoop \/ StopSteps
      BY <1>0, <3>4 DEF DispatcherLoop, DispatcherCheck, DispatcherWakes, StopSteps,
                  JoinReturns, JoinTimesOut, FinalDrain, DrainBegins, TypeOK
    <3>5. CASE UNCHANGED vars
      BY <3>5 DEF vars, local
    <3>6. QED BY <3>1, <3>2, <3>3, <3>4, <3>5 DEF Next, Continue
  <2>5. QED BY <2>1, <2>2, <2>3, <2>4 DEF WiringInv
<1>3. QED BY <1>1, <1>2

-----------------------------------------------------------------------------
(* Steps                                                                    *)

(* What no subscriber can tell.                                             *)
Unnoticed ==
  /\ UNCHANGED <<accepted, queue, seen>>
  /\ \A t \in Drainers :
       /\ pc'[t] = "handle" <=> pc[t] = "handle"
       /\ pc[t] = "handle" => msg'[t] = msg[t] /\ todo'[t] = todo[t]

LEMMA UnnoticedStutters == Unnoticed => UNCHANGED Promise!promised
<1> SUFFICES ASSUME Unnoticed PROVE UNCHANGED Promise!promised
  OBVIOUS
<1>1. OwedBy(Main)' = OwedBy(Main)
  BY DEF Unnoticed, OwedBy, Drainers
<1>2. OwedBy(Dispatcher)' = OwedBy(Dispatcher)
  BY DEF Unnoticed, OwedBy, Drainers
<1>3. QED BY <1>1, <1>2 DEF Unnoticed, Owed, Promise!promised

LEMMA PublishAccepts ==
  ASSUME TypeOK, CustodyInv, NEW t \in {Main} \cup Publishers, NEW topic \in Topics,
         Publish(t, topic)
  PROVE  [Promise!Next]_Promise!promised
<1> DEFINE m == [topic |-> topic, id |-> sent + 1]
<1>1. m \in Message /\ m.id = sent + 1
  BY BoundAssumption DEF TypeOK, Publish, Message
<1>2. m \notin accepted
  BY <1>1 DEF CustodyInv, IdsUsed, TypeOK
<1>3. PublishAccepted(t, m) \/ PublishDropped(t, m)
  BY DEF Publish
<1>4. pc[t] = "idle" /\ UNCHANGED <<msg, todo, seen>> /\ t \in Threads /\ t # Dispatcher
  BY ThreadsAssumption DEF Publish, Threads, Drainers
<1>5. pc' = [pc EXCEPT ![t] = "load"]
  BY <1>3 DEF PublishAccepted, PublishDropped, BumpThen
<1>6. OwedBy(Main)' = OwedBy(Main) /\ OwedBy(Dispatcher)' = OwedBy(Dispatcher)
  BY <1>4, <1>5 DEF OwedBy, TypeOK, Threads, Drainers
<1>7. Owed' = Owed
  BY <1>6 DEF Owed
<1>8. CASE PublishAccepted(t, m)
  <2>1. Promise!Accept(m)
    BY <1>2, <1>4, <1>7, <1>8 DEF PublishAccepted, Promise!Accept
  <2>2. QED BY <1>1, <2>1 DEF Promise!Next
<1>9. CASE PublishDropped(t, m)
  BY <1>4, <1>7, <1>9 DEF PublishDropped, Promise!promised
<1>10. QED BY <1>3, <1>8, <1>9

LEMMA GetTakes ==
  ASSUME TypeOK, WiringInv, NEW t \in Drainers, Get(t)
  PROVE  Promise!Take
<1>1. queue \in Seq(Message) /\ queue # << >> /\ Head(queue) \in Message
  BY RangeOfTail DEF TypeOK, Get
<1>2. Wired
  BY DEF Get, WiringInv, Drainers
<1>3. todo' = [todo EXCEPT ![t] = Interested[Head(queue)]]
  BY <1>1, <1>2, MatchingIsInterest DEF Get
<1>4. /\ pc[t] = "get" /\ pc' = [pc EXCEPT ![t] = "handle"]
      /\ msg' = [msg EXCEPT ![t] = Head(queue)]
      /\ queue' = Tail(queue) /\ UNCHANGED <<accepted, seen>>
  BY DEF Get, history
<1>5. OwedBy(t) = {} /\ OwedBy(t)' = Interested[Head(queue)] \X {Head(queue)}
  BY <1>3, <1>4 DEF OwedBy, TypeOK, Threads
<1>6. \A u \in Drainers : u # t => OwedBy(u)' = OwedBy(u)
  BY <1>3, <1>4 DEF OwedBy, TypeOK, Threads
<1>7. Owed' = Owed \cup (Interested[Head(queue)] \X {Head(queue)})
  BY <1>5, <1>6, ThreadsAssumption DEF Owed, Drainers
<1>8. QED BY <1>1, <1>4, <1>7 DEF Promise!Take

LEMMA InvokeGives ==
  ASSUME TypeOK, CustodyInv, NEW t \in Drainers, NEW i \in DOMAIN Subs, Invoke(t, i)
  PROVE  msg[t] \in Message /\ Promise!Give(i, msg[t])
<1>1. /\ pc[t] = "handle" /\ i \in todo[t] /\ UNCHANGED <<pc, msg, accepted, queue>>
      /\ todo' = [todo EXCEPT ![t] = @ \ {i}]
      /\ seen' = [seen EXCEPT ![i] = Append(@, msg[t])]
  BY DEF Invoke, IsNext, busState
<1>2. msg[t] \in Message
  BY <1>1 DEF TypeOK
<1>3. <<i, msg[t]>> \in OwedBy(t) /\ OwedBy(t)' = OwedBy(t) \ {<<i, msg[t]>>}
  BY <1>1 DEF OwedBy, TypeOK
<1>4. ASSUME NEW u \in Drainers, u # t
      PROVE  OwedBy(u)' = OwedBy(u) /\ <<i, msg[t]>> \notin OwedBy(u)
  <2>1. OwedBy(u)' = OwedBy(u)
    BY <1>1, <1>4 DEF OwedBy, TypeOK
  <2>2. pc[u] = "handle" => msg[u] # msg[t]
    BY <1>1, <1>4 DEF CustodyInv, Custody, Held, Drainers
  <2>3. QED BY <2>1, <2>2 DEF OwedBy
<1>5. <<i, msg[t]>> \in Owed /\ Owed' = Owed \ {<<i, msg[t]>>}
  BY <1>3, <1>4, ThreadsAssumption DEF Owed, Drainers
<1>6. QED BY <1>1, <1>2, <1>5 DEF Promise!Give

LEMMA StepKeepsPromise ==
  TypeOK /\ CustodyInv /\ WiringInv /\ [Next]_vars => [Promise!Next]_Promise!promised
<1> SUFFICES ASSUME TypeOK, CustodyInv, WiringInv, [Next]_vars
             PROVE  [Promise!Next]_Promise!promised
  OBVIOUS
<1>1. CASE Subscribe \/ DrainCall \/ Start
  <2>1. Unnoticed
    BY <1>1 DEF Unnoticed, TypeOK, Subscribe, DrainCall, DrainBegins, Start, busState, local,
                history, Threads, Drainers
  <2>2. QED BY <2>1, UnnoticedStutters
<1>2. CASE Stop \/ StopSteps
  <2>1. FinalDrain => UNCHANGED <<accepted, seen, msg, todo>> /\ DrainBegins(Main, "stopped")
    BY DEF FinalDrain
  <2>2. Unnoticed
    BY <1>2, <2>1 DEF Unnoticed, TypeOK, Stop, StopSteps, JoinReturns, JoinTimesOut,
                      DrainBegins, busState, history, Threads, Drainers
  <2>3. QED BY <2>2, UnnoticedStutters
<1>3. CASE \E t \in Threads : Bump(t)
  <2>1. PICK t \in Threads : Bump(t)
    BY <1>3
  <2>2. Unnoticed
    BY <2>1 DEF Unnoticed, TypeOK, Bump, BumpLoad, BumpStore, busState, history, Threads, Drainers
  <2>3. QED BY <2>2, UnnoticedStutters
<1>4. CASE DispatcherLoop
  <2>1. Unnoticed
    BY <1>4 DEF Unnoticed, TypeOK, DispatcherLoop, DispatcherCheck, DispatcherWakes,
                DrainBegins, busState, history, Threads, Drainers
  <2>2. QED BY <2>1, UnnoticedStutters
<1>5. ASSUME NEW t \in Drainers, Drain(t) PROVE [Promise!Next]_Promise!promised
  <2>1. CASE Get(t)
    BY <2>1, GetTakes DEF Promise!Next
  <2>2. ASSUME NEW i \in DOMAIN Subs, Invoke(t, i) PROVE Promise!Next
    BY <2>2, InvokeGives DEF Promise!Next
  <2>3. CASE DispatchReturns(t)
    <3>1. /\ pc[t] = "handle" /\ todo[t] = {} /\ pc' = [pc EXCEPT ![t] = "get"]
          /\ msg' = [msg EXCEPT ![t] = NoMessage] /\ UNCHANGED <<todo, accepted, queue, seen>>
      BY <2>3 DEF DispatchReturns, busState
    <3>2. OwedBy(t) = {} /\ OwedBy(t)' = {}
      BY <3>1 DEF OwedBy, TypeOK, Threads
    <3>3. \A u \in Drainers : u # t => OwedBy(u)' = OwedBy(u)
      BY <3>1 DEF OwedBy, TypeOK, Threads
    <3>4. Owed' = Owed
      BY <3>2, <3>3 DEF Owed, Drainers
    <3>5. QED BY <3>1, <3>4 DEF Promise!promised
  <2>4. CASE DrainEnds(t)
    <3>1. Unnoticed
      BY <2>4 DEF Unnoticed, TypeOK, DrainEnds, BumpThen, busState, history, Threads, Drainers
    <3>2. QED BY <3>1, UnnoticedStutters
  <2>5. QED BY <1>5, <2>1, <2>2, <2>3, <2>4 DEF Drain
<1>6. CASE UNCHANGED vars
  <2>1. Unnoticed
    BY <1>6 DEF Unnoticed, vars, busState, local, history
  <2>2. QED BY <2>1, UnnoticedStutters
<1>7. QED BY <1>1, <1>2, <1>3, <1>4, <1>5, <1>6, PublishAccepts DEF Next, Calls, Continue

(* The bus of bus.py implements its promise: messages are taken in the      *)
(* order of acceptance, and each is given once to every interested handler, *)
(* to no other, and never once more, although handlers raise, messages are  *)
(* dropped and two threads drain one queue.                                 *)
THEOREM BusKeepsPromise == Spec => PromiseKept
<1>1. Init => Promise!Init
  BY ThreadsAssumption DEF Init, Promise!Init, Owed, OwedBy, Threads, Drainers
<1>2. Init => TypeOK /\ CustodyInv /\ WiringInv
  <2>1. Init => CustodyInv
    BY DEF Init, CustodyInv, Custody, IdsUsed, InHands, Held, RangeOf, Drainers, Threads
  <2>2. QED BY <2>1, TypeInit, WiringInit
<1>3. QED BY <1>1, <1>2, TypeNext, CustodyNext, WiringNext, StepKeepsPromise, PTL
      DEF Spec, PromiseKept, Promise!Spec
=============================================================================

----------------------------- MODULE MessageBus -----------------------------
(***************************************************************************)
(* The in-process message bus, bus.py.                                     *)
(*                                                                         *)
(* Three kinds of threads use it.  Main, the control loop, subscribes the  *)
(* checks' handlers, publishes, drains once per iteration and stops the    *)
(* bus.  Dispatcher is the thread started by start(), which drains too, at *)
(* the same time as Main.  Publishers are the threads that inject the      *)
(* platform's traffic (the broker client, which is not in the repository). *)
(*                                                                         *)
(* The queue is a queue.Queue: put_nowait and get_nowait are atomic.  The  *)
(* bus lock covers only the list of subscriptions, so a message that has   *)
(* been taken from the queue is in one thread's hands until every handler  *)
(* has seen it.  The three counters are updated with `+=' and no lock: the *)
(* load and the store are two steps, and an update may be lost.            *)
(***************************************************************************)
EXTENDS Integers, Sequences, FiniteSets

CONSTANTS
  Main,          \* the control-loop thread
  Dispatcher,    \* the dispatch thread
  Publishers,    \* threads that only publish
  Topics,        \* topics published, each a sequence of segments
  Subs,          \* the patterns build_checks subscribes, in order
  Raising,       \* the subscriptions (indices of Subs) whose handler raises
  MaxDepth,      \* capacity of the queue
  DrainLimit,    \* drain's limit
  MaxMessages    \* bound: calls of publish in a behaviour

ASSUME ThreadsAssumption ==
  /\ Main # Dispatcher
  /\ Main \notin Publishers
  /\ Dispatcher \notin Publishers
ASSUME SubsAssumption == Subs \in Seq(Seq(STRING))
ASSUME TopicsAssumption == Topics \subseteq Seq(STRING)
ASSUME DepthAssumption == MaxDepth \in Nat \ {0}
ASSUME LimitAssumption == DrainLimit \in Nat \ {0}
ASSUME BoundAssumption == MaxMessages \in Nat

Drainers == {Main, Dispatcher}
Threads  == Drainers \cup Publishers

NoMessage == [topic |-> <<>>, id |-> 0]

(* A message; the id tells two publications of the same topic apart.        *)
Message == [topic : Topics, id : 1 .. MaxMessages]

Counters == {"published", "dropped", "delivered"}

VARIABLES
  queue,          \* _queue
  subscriptions,  \* _subscriptions, by pattern; the handler is the index
  counters,       \* _published, _dropped and _delivered
  stop,           \* the event _stop
  thread,         \* is _thread set?
  pc,             \* where each thread is inside the bus
  ret,            \* where a thread goes when its call returns
  msg,            \* the message a draining thread has taken
  todo,           \* the handlers that message has still to be given to
  count,          \* drain's local count of delivered messages
  target,         \* the counter a thread is about to bump
  loaded,         \* the value of that counter it has loaded
  (* history *)
  sent,           \* calls of publish so far
  accepted,       \* messages the queue took
  done,           \* messages that went through _dispatch
  seen,           \* what each handler has been called with, in order
  flush,          \* accepted messages when stop() began its final drain
  backlog,        \* length of the queue at that moment
  timedOut        \* did join() give up on the dispatch thread?

busState == <<queue, subscriptions, counters, stop, thread>>
local    == <<pc, ret, msg, todo, count, target, loaded>>
history  == <<sent, accepted, done, seen, flush, backlog, timedOut>>
vars     == <<busState, local, history>>

RangeOf(s) == {s[i] : i \in DOMAIN s}

-----------------------------------------------------------------------------

(* _matches: equal, or a trailing "*" that stands for exactly one segment.  *)
Matches(pattern, topic) ==
  \/ pattern = topic
  \/ /\ Len(pattern) >= 2
     /\ pattern[Len(pattern)] = "*"
     /\ Len(topic) = Len(pattern)
     /\ \A i \in 1 .. Len(pattern) - 1 : topic[i] = pattern[i]

(* The handlers _dispatch collects under the lock.                          *)
Matching(topic) ==
  {i \in DOMAIN subscriptions : Matches(subscriptions[i], topic)}

Init ==
  /\ queue = <<>>
  /\ subscriptions = <<>>
  /\ counters = [c \in Counters |-> 0]
  /\ stop = FALSE
  /\ thread = FALSE
  /\ pc = [t \in Threads |-> IF t = Dispatcher THEN "unborn" ELSE "idle"]
  /\ ret = [t \in Threads |-> "idle"]
  /\ msg = [t \in Drainers |-> NoMessage]
  /\ todo = [t \in Drainers |-> {}]
  /\ count = [t \in Drainers |-> 0]
  /\ target = [t \in Threads |-> "published"]
  /\ loaded = [t \in Threads |-> 0]
  /\ sent = 0
  /\ accepted = {}
  /\ done = {}
  /\ seen = [i \in DOMAIN Subs |-> <<>>]
  /\ flush = {}
  /\ backlog = 0
  /\ timedOut = FALSE

-----------------------------------------------------------------------------
(* subscribe and publish                                                    *)

(* build_checks attaches every check before anything else uses the bus.     *)
Wired == Len(subscriptions) = Len(Subs)

Subscribe ==
  /\ pc[Main] = "idle"
  /\ ~Wired
  /\ subscriptions' = Append(subscriptions, Subs[Len(subscriptions) + 1])
  /\ UNCHANGED <<queue, counters, stop, thread, local, history>>

(* A call reaches `self._x += n'.                                           *)
BumpThen(t, counter, back) ==
  /\ pc' = [pc EXCEPT ![t] = "load"]
  /\ target' = [target EXCEPT ![t] = counter]
  /\ ret' = [ret EXCEPT ![t] = back]

(* Mutant: the put does not respect the queue's capacity.                   *)
PublishUnbounded(t, m) ==
  /\ Len(queue) <= MaxDepth
  /\ queue' = Append(queue, m)
  /\ accepted' = accepted \cup {m}
  /\ BumpThen(t, "published", "idle")

(* put_nowait succeeds.                                                     *)
PublishAccepted(t, m) ==
  /\ Len(queue) < MaxDepth
  /\ queue' = Append(queue, m)
  /\ accepted' = accepted \cup {m}
  /\ BumpThen(t, "published", "idle")

(* Mutant: a dropped message is counted as published as well.               *)
PublishCountsDrop(t, m) ==
  /\ Len(queue) = MaxDepth
  /\ BumpThen(t, "published", "idle")
  /\ UNCHANGED <<queue, accepted>>

(* put_nowait raises queue.Full: the message is dropped and counted.        *)
PublishDropped(t, m) ==
  /\ Len(queue) = MaxDepth
  /\ BumpThen(t, "dropped", "idle")
  /\ UNCHANGED <<queue, accepted>>

Publish(t, topic) ==
  /\ pc[t] = "idle"
  /\ sent < MaxMessages
  /\ sent' = sent + 1
  /\ LET m == [topic |-> topic, id |-> sent + 1]
     IN  PublishAccepted(t, m) \/ PublishDropped(t, m)
  /\ UNCHANGED <<subscriptions, counters, stop, thread,
                 msg, todo, count, loaded,
                 done, seen, flush, backlog, timedOut>>

Amount(t) == IF target[t] = "delivered" THEN count[t] ELSE 1

BumpLoad(t) ==
  /\ pc[t] = "load"
  /\ pc' = [pc EXCEPT ![t] = "store"]
  /\ loaded' = [loaded EXCEPT ![t] = counters[target[t]]]
  /\ UNCHANGED <<busState, ret, msg, todo, count, target, history>>

(* The store, after which the call returns and its locals are gone.         *)
BumpStore(t) ==
  /\ pc[t] = "store"
  /\ pc' = [pc EXCEPT ![t] = ret[t]]
  /\ counters' = [counters EXCEPT ![target[t]] = loaded[t] + Amount(t)]
  /\ count' = [d \in Drainers |-> IF d = t THEN 0 ELSE count[d]]
  /\ target' = [target EXCEPT ![t] = "published"]
  /\ loaded' = [loaded EXCEPT ![t] = 0]
  /\ UNCHANGED <<queue, subscriptions, stop, thread, ret, msg, todo, history>>

-----------------------------------------------------------------------------
(* drain and _dispatch                                                      *)

DrainBegins(t, back) ==
  /\ pc' = [pc EXCEPT ![t] = "get"]
  /\ ret' = [ret EXCEPT ![t] = back]
  /\ count' = [count EXCEPT ![t] = 0]

(* The control loop calls drain().                                          *)
DrainCall ==
  /\ pc[Main] = "idle"
  /\ Wired
  /\ DrainBegins(Main, "idle")
  /\ UNCHANGED <<busState, msg, todo, target, loaded, history>>

(* Mutant: the message is looked at, and removed only once it is handled.   *)
GetByPeeking(t) ==
  /\ pc[t] = "get"
  /\ count[t] < DrainLimit
  /\ queue # <<>>
  /\ msg' = [msg EXCEPT ![t] = Head(queue)]
  /\ todo' = [todo EXCEPT ![t] = Matching(Head(queue).topic)]
  /\ pc' = [pc EXCEPT ![t] = "handle"]
  /\ UNCHANGED <<busState, ret, count, target, loaded, history>>

(* get_nowait succeeds; _dispatch collects the matching handlers.           *)
Get(t) ==
  /\ pc[t] = "get"
  /\ count[t] < DrainLimit
  /\ queue # <<>>
  /\ msg' = [msg EXCEPT ![t] = Head(queue)]
  /\ todo' = [todo EXCEPT ![t] = Matching(Head(queue).topic)]
  /\ queue' = Tail(queue)
  /\ pc' = [pc EXCEPT ![t] = "handle"]
  /\ UNCHANGED <<subscriptions, counters, stop, thread,
                 ret, count, target, loaded, history>>

IsNext(t, i) == i \in todo[t] /\ \A j \in todo[t] : i <= j

(* Mutant: an exception leaves the loop over the handlers.                  *)
InvokeStopsAtException(t, i) ==
  /\ pc[t] = "handle"
  /\ IsNext(t, i)
  /\ seen' = [seen EXCEPT ![i] = Append(@, msg[t])]
  /\ todo' = [todo EXCEPT ![t] = IF i \in Raising THEN {} ELSE @ \ {i}]
  /\ UNCHANGED <<busState, pc, ret, msg, count, target, loaded,
                 sent, accepted, done, flush, backlog, timedOut>>

(* The next handler, in the order of subscription, is called.  Whether it   *)
(* returns or raises, the loop goes on with the handler after it.           *)
Invoke(t, i) ==
  /\ pc[t] = "handle"
  /\ IsNext(t, i)
  /\ seen' = [seen EXCEPT ![i] = Append(@, msg[t])]
  /\ todo' = [todo EXCEPT ![t] = @ \ {i}]
  /\ UNCHANGED <<busState, pc, ret, msg, count, target, loaded,
                 sent, accepted, done, flush, backlog, timedOut>>

DispatchReturns(t) ==
  /\ pc[t] = "handle"
  /\ todo[t] = {}
  /\ pc' = [pc EXCEPT ![t] = "get"]
  /\ count' = [count EXCEPT ![t] = @ + 1]
  /\ done' = done \cup {msg[t]}
  /\ msg' = [msg EXCEPT ![t] = NoMessage]
  /\ UNCHANGED <<busState, ret, todo, target, loaded,
                 sent, accepted, seen, flush, backlog, timedOut>>

(* Where the dispatch thread goes after a drain: it waits if that drain     *)
(* delivered nothing.                                                       *)
AfterDrain(t) ==
  IF t = Dispatcher THEN IF count[t] = 0 THEN "wait" ELSE "check"
  ELSE ret[t]

(* The limit is reached or the queue is empty: _delivered += delivered,     *)
(* also when nothing was delivered.                                         *)
DrainEnds(t) ==
  /\ pc[t] = "get"
  /\ count[t] = DrainLimit \/ queue = <<>>
  /\ BumpThen(t, "delivered", AfterDrain(t))
  /\ UNCHANGED <<busState, msg, todo, count, loaded, history>>

-----------------------------------------------------------------------------
(* start, the dispatch thread, and stop                                     *)

(* The service calls start() once; a second call returns at once.           *)
Start ==
  /\ pc[Main] = "idle"
  /\ Wired
  /\ ~thread
  /\ pc[Dispatcher] = "unborn"
  /\ stop' = FALSE
  /\ thread' = TRUE
  /\ pc' = [pc EXCEPT ![Dispatcher] = "check"]
  /\ UNCHANGED <<queue, subscriptions, counters,
                 ret, msg, todo, count, target, loaded, history>>

(* Mutant: the loop runs until a drain finds nothing, whatever _stop says.  *)
CheckIgnoresStop ==
  /\ pc[Dispatcher] = "check"
  /\ DrainBegins(Dispatcher, "check")
  /\ UNCHANGED <<busState, msg, todo, target, loaded, history>>

(* `while not self._stop.is_set()'.                                         *)
DispatcherCheck ==
  /\ pc[Dispatcher] = "check"
  /\ \/ /\ stop
        /\ pc' = [pc EXCEPT ![Dispatcher] = "exited"]
        /\ UNCHANGED <<ret, count>>
     \/ /\ ~stop
        /\ DrainBegins(Dispatcher, "check")
  /\ UNCHANGED <<busState, msg, todo, target, loaded, history>>

(* Mutant: an idle dispatch thread is not woken by the poll interval.       *)
WaitForStopOnly ==
  /\ pc[Dispatcher] = "wait"
  /\ stop
  /\ pc' = [pc EXCEPT ![Dispatcher] = "check"]
  /\ UNCHANGED <<busState, ret, msg, todo, count, target, loaded, history>>

(* _stop.wait(poll_s) returns, set or timed out.                            *)
DispatcherWakes ==
  /\ pc[Dispatcher] = "wait"
  /\ pc' = [pc EXCEPT ![Dispatcher] = "check"]
  /\ UNCHANGED <<busState, ret, msg, todo, count, target, loaded, history>>

(* The final drain of stop().                                               *)
FinalDrain ==
  /\ DrainBegins(Main, "stopped")
  /\ flush' = accepted
  /\ backlog' = Len(queue)
  /\ UNCHANGED <<msg, todo, target, loaded, sent, accepted, done, seen>>

(* Mutant: the final drain runs without waiting for the dispatch thread.    *)
StopWithoutJoin ==
  /\ pc[Main] = "idle"
  /\ stop' = TRUE
  /\ thread' = FALSE
  /\ FinalDrain
  /\ UNCHANGED <<queue, subscriptions, counters, timedOut>>

(* stop(): set the event, forget the thread, then join it if there was one. *)
Stop ==
  /\ pc[Main] = "idle"
  /\ stop' = TRUE
  /\ thread' = FALSE
  /\ \/ /\ thread
        /\ pc' = [pc EXCEPT ![Main] = "join"]
        /\ UNCHANGED <<ret, msg, todo, count, target, loaded, history>>
     \/ /\ ~thread
        /\ FinalDrain
        /\ UNCHANGED timedOut
  /\ UNCHANGED <<queue, subscriptions, counters>>

JoinReturns ==
  /\ pc[Main] = "join"
  /\ pc[Dispatcher] = "exited"
  /\ FinalDrain
  /\ UNCHANGED <<busState, timedOut>>

(* join(timeout) gives up while the thread still runs.                      *)
JoinTimesOut ==
  /\ pc[Main] = "join"
  /\ pc[Dispatcher] # "exited"
  /\ FinalDrain
  /\ timedOut' = TRUE
  /\ UNCHANGED busState

-----------------------------------------------------------------------------

(* The rest of a call that a thread has begun.                              *)
Bump(t) == BumpLoad(t) \/ BumpStore(t)

Drain(t) ==
  \/ Get(t)
  \/ \E i \in DOMAIN Subs : Invoke(t, i)
  \/ DispatchReturns(t)
  \/ DrainEnds(t)

DispatcherLoop == DispatcherCheck \/ DispatcherWakes

StopSteps == JoinReturns \/ JoinTimesOut

Continue ==
  \/ \E t \in Threads : Bump(t)
  \/ \E t \in Drainers : Drain(t)
  \/ DispatcherLoop
  \/ StopSteps

(* The calls the service makes, in any order and number once it is wired.   *)
Calls ==
  \/ Subscribe
  \/ DrainCall
  \/ Start
  \/ Wired /\ Stop
  \/ \E t \in {Main} \cup Publishers, topic \in Topics : Publish(t, topic)

Next == Calls \/ Continue

Spec == Init /\ [][Next]_vars

(* A call that has begun goes on; no thread has to begin one.               *)
Fairness ==
  /\ \A t \in Threads : WF_vars(Bump(t))
  /\ \A t \in Drainers : WF_vars(Drain(t))
  /\ WF_vars(DispatcherLoop)
  /\ WF_vars(StopSteps)

FairSpec == Spec /\ Fairness

-----------------------------------------------------------------------------
(* Properties                                                               *)

CallPoints  == {"idle", "load", "store", "get", "handle", "join", "stopped"}
LoopPoints  == {"unborn", "check", "wait", "exited", "load", "store", "get", "handle"}

TypeOK ==
  /\ queue \in Seq(Message)
  /\ Len(queue) <= MaxDepth
  /\ subscriptions \in Seq(Seq(STRING))
  /\ Len(subscriptions) <= Len(Subs)
  /\ counters \in [Counters -> Nat]
  /\ stop \in BOOLEAN
  /\ thread \in BOOLEAN
  /\ pc \in [Threads -> CallPoints \cup LoopPoints]
  /\ ret \in [Threads -> {"idle", "check", "wait", "stopped"}]
  /\ msg \in [Drainers -> Message \cup {NoMessage}]
  /\ \A t \in Drainers :
       pc[t] = "handle" => msg[t] \in Message /\ count[t] < DrainLimit
  /\ todo \in [Drainers -> SUBSET DOMAIN Subs]
  /\ count \in [Drainers -> 0 .. DrainLimit]
  /\ target \in [Threads -> Counters]
  /\ \A t \in Publishers : target[t] # "delivered"
  /\ loaded \in [Threads -> Nat]
  /\ sent \in 0 .. MaxMessages
  /\ accepted \subseteq Message
  /\ done \subseteq Message
  /\ seen \in [DOMAIN Subs -> Seq(Message)]
  /\ flush \subseteq Message
  /\ backlog \in Nat
  /\ timedOut \in BOOLEAN

(* The messages threads hold between get_nowait and the end of _dispatch.   *)
Held(t) == IF pc[t] = "handle" THEN {msg[t]} ELSE {}
InHands == UNION {Held(t) : t \in Drainers}

(* Two threads drain one queue, yet every message the queue took is in      *)
(* exactly one place: once in the queue, in the hands of one thread, or     *)
(* dispatched.  None is lost and none is dispatched twice.                  *)
Custody ==
  /\ accepted = RangeOf(queue) \cup InHands \cup done
  /\ \A i, j \in DOMAIN queue : queue[i] = queue[j] => i = j
  /\ RangeOf(queue) \cap InHands = {}
  /\ RangeOf(queue) \cap done = {}
  /\ InHands \cap done = {}
  /\ Held(Main) \cap Held(Dispatcher) = {}

(* The identity of a message is that of a call of publish already made.     *)
IdsUsed == \A m \in accepted : m.id <= sent

(* The counters race (the += is not locked and a drain that delivers        *)
(* nothing still stores), but a lost update only ever loses: the status     *)
(* never reports more messages than were published, dropped or delivered.   *)
CountersNeverOverstate ==
  /\ counters["published"] <= Cardinality(accepted)
  /\ counters["dropped"]   <= sent - Cardinality(accepted)
  /\ counters["delivered"] <= Cardinality(done)

(* When stop() returns and the dispatch thread could be joined, the         *)
(* messages accepted before the final drain have been dispatched, but for   *)
(* as many as the queue then held beyond the limit of one drain.            *)
StopFlushes ==
  pc[Main] = "stopped" /\ ~timedOut
    => Cardinality(flush \ done)
         <= IF backlog > DrainLimit THEN backlog - DrainLimit ELSE 0

(* While the dispatch thread runs, a queued message is eventually           *)
(* dispatched, even if the control loop never drains again.                 *)
QueuedIsDispatched ==
  \A n \in 1 .. MaxMessages :
    (thread /\ \E m \in RangeOf(queue) : m.id = n)
      ~> (stop \/ \E m \in done : m.id = n)

(* Once stop() is called the dispatch thread leaves its loop: a drain is    *)
(* bounded by its limit and the event is checked between two drains.        *)
DispatcherExits ==
  (stop /\ pc[Dispatcher] # "unborn") ~> pc[Dispatcher] = "exited"
=============================================================================

--------------------------- MODULE ServiceProofs ---------------------------
(***************************************************************************)
(* Proofs about the process: it uses the bus as the bus specifies, so the  *)
(* theorems about the bus hold of the running service; the control loop    *)
(* respects --max-iterations; and a clean exit leaves neither the dispatch *)
(* thread nor the status message behind.                                   *)
(***************************************************************************)
EXTENDS Service, MessageBusProofs

(* The points of main() at which the checks are not all attached.           *)
Unattached == {"load", "construct", "attach", "exited"}

AttachedFirst == stage \notin Unattached => Wired

(* No step of the bus but subscribe changes the subscriptions.              *)
LEMMA SubscriptionsStay ==
  ASSUME \/ DrainCall \/ Start \/ Stop \/ Continue
         \/ \E t \in {Main} \cup Publishers, topic \in Topics : Publish(t, topic)
  PROVE  subscriptions' = subscriptions
<1>1. CASE Continue
  <2>1. CASE \E t \in Threads : Bump(t)
    BY <2>1 DEF Bump, BumpLoad, BumpStore, busState
  <2>2. CASE \E t \in Drainers : Drain(t)
    BY <2>2 DEF Drain, Get, Invoke, DispatchReturns, DrainEnds, busState
  <2>3. CASE DispatcherLoop \/ StopSteps
    BY <2>3 DEF DispatcherLoop, DispatcherCheck, DispatcherWakes, StopSteps,
                JoinReturns, JoinTimesOut, busState
  <2>4. QED BY <1>1, <2>1, <2>2, <2>3 DEF Continue
<1>2. QED BY <1>1 DEF DrainCall, Start, Stop, Publish, busState

(* Every step of the process is a step of the bus or leaves it alone.       *)
LEMMA ServiceStepsBus == AttachedFirst /\ [ServiceNext]_serviceVars => [Next]_vars
<1> SUFFICES ASSUME AttachedFirst, [ServiceNext]_serviceVars PROVE [Next]_vars
  OBVIOUS
<1>1. CASE StartUp
  BY <1>1 DEF StartUp, LoadConfig, Construct, Attach, InstallSignalHandlers, StartBus,
              RunBegins, Next, Calls
<1>2. CASE ControlLoop
  BY <1>2 DEF ControlLoop, While, DrainReturns, CheckPublishes, StepReturns, Sleep,
              PlatformTopics, Next, Calls
<1>3. CASE Shutdown
  BY <1>3, StatusAssumption DEF Shutdown, PublishStatus, ShutdownDrain, StopBus, RunReturns,
              At, AttachedFirst, Unattached, Next, Calls
<1>4. CASE Signal \/ Traffic \/ BusContinues
  BY <1>4 DEF Signal, Traffic, BusContinues, PlatformTopics, Next, Calls
<1>5. CASE UNCHANGED serviceVars
  BY <1>5 DEF serviceVars
<1>6. QED BY <1>1, <1>2, <1>3, <1>4, <1>5 DEF ServiceNext

LEMMA AttachedFirstNext == AttachedFirst /\ [ServiceNext]_serviceVars => AttachedFirst'
<1> SUFFICES ASSUME AttachedFirst, [ServiceNext]_serviceVars, stage' \notin Unattached
             PROVE  Wired'
  BY DEF AttachedFirst
<1>1. CASE InstallSignalHandlers
  BY <1>1 DEF InstallSignalHandlers, Wired, vars, busState
<1>2. CASE LoadConfig \/ Construct \/ Attach
  BY <1>2 DEF LoadConfig, Construct, Attach, At, GoTo, Exit, process, Unattached
<1>3. CASE \/ StartBus \/ RunBegins \/ ControlLoop \/ Shutdown
           \/ Signal \/ Traffic \/ BusContinues \/ UNCHANGED serviceVars
  <2>1. stage \notin Unattached
    BY <1>3 DEF StartBus, RunBegins, ControlLoop, While, DrainReturns, CheckPublishes,
                StepReturns, Sleep, Shutdown, PublishStatus, ShutdownDrain, StopBus,
                RunReturns, Signal, Traffic, BusContinues, serviceVars, process, At, GoTo,
                Exit, Unattached
  <2>2. subscriptions' = subscriptions
    BY <1>3, SubscriptionsStay, StatusAssumption
       DEF StartBus, RunBegins, ControlLoop, While, DrainReturns, CheckPublishes,
           StepReturns, Sleep, Shutdown, PublishStatus, ShutdownDrain, StopBus,
           RunReturns, Signal, Traffic, BusContinues, serviceVars, PlatformTopics,
           vars, busState
  <2>3. QED BY <2>1, <2>2 DEF AttachedFirst, Wired
<1>4. QED BY <1>1, <1>2, <1>3 DEF ServiceNext, StartUp

(* The service implements the specification of the bus.                     *)
THEOREM ServiceImplementsBus == ServiceSpec => Spec
<1>1. ServiceInit => AttachedFirst /\ Init
  BY DEF ServiceInit, AttachedFirst, Unattached
<1>2. QED BY <1>1, AttachedFirstNext, ServiceStepsBus, PTL DEF ServiceSpec, Spec

(* In the running service, from start-up to the end of the shutdown, every  *)
(* accepted message is in exactly one place.                                *)
THEOREM ServiceCustody == ServiceSpec => []Custody
<1>1. QED BY ServiceImplementsBus, CustodyHolds, PTL

(* The counters in the status never overstate, and the shutdown's stop()    *)
(* flushes the queue, in the running service as well.                       *)
THEOREM ServiceCountsAndFlushes == ServiceSpec => []CountersNeverOverstate /\ []StopFlushes
<1>1. QED BY ServiceImplementsBus, CountersNeverOverstateHolds, StopFlushesHolds, PTL

(* And every handler of the running service gets what the bus promises it.  *)
THEOREM ServiceKeepsPromise == ServiceSpec => PromiseKept
<1>1. QED BY ServiceImplementsBus, BusKeepsPromise, PTL

-----------------------------------------------------------------------------

(* While the loop goes on the limit has not been reached.                   *)
IterationsInv ==
  /\ maxIterations \in Int \cup {None}
  /\ iterations \in Nat
  /\ IterationsBounded
  /\ maxIterations # None /\ stage \in Looping \cup (Unattached \ {"exited"}) \cup {"start", "run"}
       => iterations = 0 \/ iterations < maxIterations

LEMMA IterationsNext == IterationsInv /\ [ServiceNext]_serviceVars => IterationsInv'
<1> SUFFICES ASSUME IterationsInv, [ServiceNext]_serviceVars PROVE IterationsInv'
  OBVIOUS
<1>1. CASE StepReturns
  <2>1. CASE maxIterations = None
    BY <1>1, <2>1 DEF StepReturns, CountIteration, IterationCap, IterationsInv, IterationsBounded
  <2>2. CASE maxIterations # None
    <3>1. maxIterations \in Int
      BY <2>2 DEF IterationsInv
    <3>2. iterations = 0 \/ iterations < maxIterations
      BY <1>1, <2>2 DEF IterationsInv, StepReturns, At, Looping
    <3>3. iterations' = iterations + 1
      BY <1>1, <2>2, <3>1, <3>2 DEF StepReturns, CountIteration, IterationCap, IterationsInv
    <3>4. iterations' < maxIterations \/ stage' = "shutdown"
      BY <1>1, <2>2, <3>1, <3>3 DEF StepReturns, IterationsInv
    <3>5. maxIterations' = maxIterations
      BY <1>1 DEF StepReturns
    <3>6. QED BY <3>1, <3>2, <3>3, <3>4, <3>5 DEF IterationsInv, IterationsBounded, Looping, Unattached
  <2>3. QED BY <2>1, <2>2
<1>2. CASE ~StepReturns
  <2> DEFINE Before == Looping \cup (Unattached \ {"exited"}) \cup {"start", "run"}
  <2>1. iterations' = iterations /\ maxIterations' = maxIterations
    BY <1>2 DEF ServiceNext, StartUp, LoadConfig, Construct, Attach, InstallSignalHandlers,
                StartBus, RunBegins, ControlLoop, While, DrainReturns, CheckPublishes, Sleep,
                Shutdown, PublishStatus, ShutdownDrain, StopBus, RunReturns, Signal, Traffic,
                BusContinues, GoTo, Exit, serviceVars, process
  <2>2. stage' \in Before => stage \in Before
    BY <1>2 DEF ServiceNext, StartUp, LoadConfig, Construct, Attach, InstallSignalHandlers,
                StartBus, RunBegins, ControlLoop, While, DrainReturns, CheckPublishes, Sleep,
                Shutdown, PublishStatus, ShutdownDrain, StopBus, RunReturns, Signal, Traffic,
                BusContinues, At, GoTo, Exit, serviceVars, process, Looping, Unattached
  <2>3. QED BY <2>1, <2>2 DEF IterationsInv, IterationsBounded
<1>3. QED BY <1>1, <1>2

(* The control loop never runs more iterations than --max-iterations asks   *)
(* for, and one if it asks for none.                                        *)
THEOREM IterationsBoundedHolds == ServiceSpec => []IterationsBounded
<1>1. ServiceInit => IterationsInv
  BY IterationsAssumption DEF ServiceInit, IterationsInv, IterationsBounded
<1>2. IterationsInv => IterationsBounded
  BY DEF IterationsInv
<1>3. QED BY <1>1, <1>2, IterationsNext, PTL DEF ServiceSpec

-----------------------------------------------------------------------------
(* Types                                                                    *)

ProcessTypeOK ==
  /\ maxIterations \in Limits
  /\ stage \in {"load", "construct", "attach", "start", "run", "while", "drain",
                "checks", "sleep", "shutdown", "status", "last", "stopping", "exited"}
  /\ running \in BOOLEAN
  /\ iterations \in Nat
  /\ installed \in BOOLEAN
  /\ exitCode \in {None, 0, 1, 2, 3, Killed}
  /\ signalled \in BOOLEAN

LEMMA ProcessTypeNext == ProcessTypeOK /\ [ServiceNext]_serviceVars => ProcessTypeOK'
<1> SUFFICES ASSUME ProcessTypeOK, [ServiceNext]_serviceVars PROVE ProcessTypeOK'
  OBVIOUS
<1>1. maxIterations' \in Limits /\ exitCode' \in {None, 0, 1, 2, 3, Killed}
  BY DEF ProcessTypeOK, ServiceNext, StartUp, LoadConfig, Construct, Attach,
         InstallSignalHandlers, StartBus, RunBegins, ControlLoop, While, DrainReturns,
         CheckPublishes, StepReturns, Sleep, Shutdown, PublishStatus, ShutdownDrain, StopBus,
         RunReturns, Signal, Traffic, BusContinues, GoTo, Exit, serviceVars, process
<1>2. stage' \in {"load", "construct", "attach", "start", "run", "while", "drain",
                  "checks", "sleep", "shutdown", "status", "last", "stopping", "exited"}
  BY DEF ProcessTypeOK, ServiceNext, StartUp, LoadConfig, Construct, Attach,
         InstallSignalHandlers, StartBus, RunBegins, ControlLoop, While, DrainReturns,
         CheckPublishes, StepReturns, Sleep, Shutdown, PublishStatus, ShutdownDrain, StopBus,
         RunReturns, Signal, Traffic, BusContinues, GoTo, Exit, serviceVars, process
<1>3. iterations' \in Nat
  BY DEF ProcessTypeOK, ServiceNext, StartUp, LoadConfig, Construct, Attach,
         InstallSignalHandlers, StartBus, RunBegins, ControlLoop, While, DrainReturns,
         CheckPublishes, StepReturns, CountIteration, Sleep, Shutdown, PublishStatus,
         ShutdownDrain, StopBus, RunReturns, Signal, Traffic, BusContinues, GoTo, Exit,
         serviceVars, process
<1>4. running' \in BOOLEAN /\ installed' \in BOOLEAN /\ signalled' \in BOOLEAN
  <2>1. running' \in {running, TRUE, FALSE}
    BY DEF ServiceNext, StartUp, LoadConfig, Construct, Attach,
         InstallSignalHandlers, StartBus, RunBegins, ControlLoop, While, DrainReturns,
         CheckPublishes, StepReturns, Sleep, Shutdown, PublishStatus, ShutdownDrain, StopBus,
         RunReturns, Signal, Traffic, BusContinues, GoTo, Exit, serviceVars, process
  <2>2. installed' \in {installed, TRUE} /\ signalled' \in {signalled, TRUE}
    BY DEF ServiceNext, StartUp, LoadConfig, Construct, Attach,
         InstallSignalHandlers, StartBus, RunBegins, ControlLoop, While, DrainReturns,
         CheckPublishes, StepReturns, Sleep, Shutdown, PublishStatus, ShutdownDrain, StopBus,
         RunReturns, Signal, Traffic, BusContinues, GoTo, Exit, serviceVars, process
  <2>3. QED BY <2>1, <2>2, Zenon DEF ProcessTypeOK
<1>5. QED BY <1>1, <1>2, <1>3, <1>4 DEF ProcessTypeOK

(* Type correctness of the process and of the bus in it.                    *)
THEOREM ServiceTypes == ServiceSpec => []ServiceTypeOK
<1>1. ServiceInit => ProcessTypeOK
  <2> SUFFICES ASSUME ServiceInit PROVE ProcessTypeOK
    OBVIOUS
  <2>1. running \in BOOLEAN /\ installed \in BOOLEAN /\ signalled \in BOOLEAN
    BY Zenon DEF ServiceInit
  <2>2. QED BY <2>1 DEF ServiceInit, ProcessTypeOK
<1>2. TypeOK /\ ProcessTypeOK => ServiceTypeOK
  BY DEF ProcessTypeOK, ServiceTypeOK
<1>3. QED BY <1>1, <1>2, ProcessTypeNext, ServiceImplementsBus, TypeCorrect, PTL
      DEF ServiceSpec

-----------------------------------------------------------------------------
(* The clean exit.  The status is published by Main before it stops the     *)
(* bus and by nobody else, so the final drain finds it among the messages   *)
(* it has to flush.                                                         *)

(* The points of main() that are reached only after start().                *)
BusStarted == Looping \cup {"run", "shutdown", "status", "last", "stopping"}

ExitInv ==
  /\ stage \in BusStarted => pc[Dispatcher] # "unborn"
  /\ Stopping /\ StatusIn(accepted) => StatusIn(flush)
  /\ exitCode = 0 => pc[Main] = "stopped" /\ pc[Dispatcher] # "unborn"

(* A dispatch thread that was started is never unborn again.                *)
LEMMA BornStays ==
  ASSUME TypeOK, [Next]_vars, pc[Dispatcher] # "unborn"
  PROVE  pc'[Dispatcher] # "unborn"
<1>0. Dispatcher \in Threads /\ Dispatcher \in Drainers /\ Main \in Threads
  BY DEF Threads, Drainers
<1>1. CASE Calls
  BY <1>0, <1>1 DEF Calls, Subscribe, DrainCall, Start, Stop, FinalDrain, DrainBegins, Publish,
              PublishAccepted, PublishDropped, BumpThen, TypeOK, local
<1>2. CASE \E t \in Threads : Bump(t)
  BY <1>0, <1>2 DEF Bump, BumpLoad, BumpStore, TypeOK
<1>3. CASE \E t \in Drainers : Drain(t)
  BY <1>0, <1>3 DEF Drain, Get, Invoke, DispatchReturns, DrainEnds, BumpThen, TypeOK
<1>4. CASE DispatcherLoop \/ StopSteps
  BY <1>0, <1>4 DEF DispatcherLoop, DispatcherCheck, DispatcherWakes, StopSteps,
              JoinReturns, JoinTimesOut, FinalDrain, DrainBegins, TypeOK
<1>5. CASE UNCHANGED vars
  BY <1>5 DEF vars, local
<1>6. QED BY <1>1, <1>2, <1>3, <1>4, <1>5 DEF Next, Continue

(* No step but publish adds to the messages accepted, and that one adds a   *)
(* message of the topic it was given.                                       *)
LEMMA AcceptedByPublish ==
  ASSUME \/ Subscribe \/ DrainCall \/ Start \/ Stop \/ Continue \/ UNCHANGED vars
  PROVE  accepted' = accepted
<1>1. CASE Continue
  BY <1>1 DEF Continue, Bump, BumpLoad, BumpStore, Drain, Get, Invoke, DispatchReturns,
              DrainEnds, DispatcherLoop, DispatcherCheck, DispatcherWakes, StopSteps,
              JoinReturns, JoinTimesOut, FinalDrain, history
<1>2. QED BY <1>1 DEF Subscribe, DrainCall, Start, Stop, FinalDrain, vars, history

LEMMA PublishedTopic ==
  ASSUME NEW t, NEW topic, Publish(t, topic), topic # StatusTopic, StatusIn(accepted')
  PROVE  StatusIn(accepted)
<1> DEFINE m == [topic |-> topic, id |-> sent + 1]
<1>1. accepted' = accepted \/ accepted' = accepted \cup {m}
  BY DEF Publish, PublishAccepted, PublishDropped
<1>2. m.topic = topic
  OBVIOUS
<1>3. QED BY <1>1, <1>2 DEF StatusIn

LEMMA StatusBeforeStop ==
  ASSUME TypeOK, StopInv, AttachedFirst, ExitInv, [ServiceNext]_serviceVars,
         Stopping', StatusIn(accepted')
  PROVE  StatusIn(flush')
<1>1. [Next]_vars
  BY ServiceStepsBus
<1>2. CASE Stop \/ StopSteps
  <2>1. CASE Stop /\ thread
    <3>1. ret' = ret /\ pc[Main] = "idle"
      BY <2>1 DEF Stop
    <3>2. QED BY <3>1 DEF StopInv, Stopping
  <2>2. CASE FinalDrain
    BY <2>2 DEF FinalDrain
  <2>3. QED BY <1>2, <2>1, <2>2 DEF Stop, StopSteps, JoinReturns, JoinTimesOut
<1>3. CASE ~(Stop \/ StopSteps)
  <2>1. Stopping /\ flush' = flush /\ pc[Main] # "idle"
    BY <1>1, <1>3, StopBeginsDrain DEF StopInv
  <2>2. StatusIn(accepted)
    <3>1. CASE Traffic
      BY <3>1, PublishedTopic DEF Traffic, PlatformTopics
    <3>2. CASE BusContinues \/ Signal \/ UNCHANGED serviceVars
      BY <3>2, AcceptedByPublish DEF BusContinues, Signal, serviceVars
    <3>3. CASE RunReturns
      BY <3>3, AcceptedByPublish DEF RunReturns
    <3>4. QED BY <2>1, <3>1, <3>2, <3>3
          DEF ServiceNext, StartUp, LoadConfig, Construct, Attach, InstallSignalHandlers,
              StartBus, RunBegins, ControlLoop, While, DrainReturns, CheckPublishes,
              StepReturns, Sleep, Shutdown, PublishStatus, ShutdownDrain, StopBus, At
  <2>3. QED BY <2>1, <2>2 DEF ExitInv
<1>4. QED BY <1>2, <1>3

LEMMA ExitInvNext ==
  TypeOK /\ StopInv /\ AttachedFirst /\ ExitInv /\ [ServiceNext]_serviceVars => ExitInv'
<1> SUFFICES ASSUME TypeOK, StopInv, AttachedFirst, ExitInv, [ServiceNext]_serviceVars
             PROVE  ExitInv'
  OBVIOUS
<1>1. [Next]_vars
  BY ServiceStepsBus
<1>2. stage' \in BusStarted => pc'[Dispatcher] # "unborn"
  <2>1. CASE StartBus
    BY <2>1 DEF StartBus, Start, TypeOK, Threads, Drainers
  <2>2. CASE ~StartBus
    <3>1. stage' \in BusStarted => stage \in BusStarted
      BY <2>2 DEF ServiceNext, StartUp, LoadConfig, Construct, Attach, InstallSignalHandlers,
                  RunBegins, ControlLoop, While, DrainReturns, CheckPublishes,
                  StepReturns, Sleep, Shutdown, PublishStatus, ShutdownDrain, StopBus,
                  RunReturns, Signal, Traffic, BusContinues, At, GoTo, Exit, serviceVars,
                  process, BusStarted, Looping
    <3>2. QED BY <1>1, <3>1, BornStays DEF ExitInv
  <2>3. QED BY <2>1, <2>2
<1>3. Stopping' /\ StatusIn(accepted') => StatusIn(flush')
  BY StatusBeforeStop
<1>4. exitCode' = 0 => pc'[Main] = "stopped" /\ pc'[Dispatcher] # "unborn"
  <2>1. CASE RunReturns
    BY <2>1 DEF RunReturns, vars, local, ExitInv, BusStarted
  <2>2. CASE UNCHANGED serviceVars
    BY <2>2 DEF serviceVars, process, vars, local, ExitInv
  <2>3. CASE ~RunReturns /\ ServiceNext
    <3>1. exitCode = None /\ exitCode' \in {None, 1, 2, 3, Killed}
      BY <2>3 DEF ServiceNext, StartUp, LoadConfig, Construct, Attach, InstallSignalHandlers,
                  StartBus, RunBegins, ControlLoop, While, DrainReturns, CheckPublishes,
                  StepReturns, Sleep, Shutdown, PublishStatus, ShutdownDrain, StopBus,
                  Signal, Traffic, BusContinues, At, Alive, GoTo, Exit, process
    <3>2. QED BY <3>1, NoneAssumption DEF Killed
  <2>4. QED BY <2>1, <2>2, <2>3
<1>5. QED BY <1>2, <1>3, <1>4 DEF ExitInv, StatusIn

(* A clean exit leaves nothing behind: the dispatch thread has ended and    *)
(* the status, if the queue took it, has been dispatched, unless the join   *)
(* timed out or the queue was longer than a drain.                          *)
THEOREM CleanExitHolds == ServiceSpec => []CleanExit
<1>1. ServiceInit => AttachedFirst /\ ExitInv
  <2> SUFFICES ASSUME ServiceInit PROVE AttachedFirst /\ ExitInv
    OBVIOUS
  <2>1. exitCode # 0 /\ stage = "load" /\ ret[Main] = "idle"
    BY NoneAssumption DEF ServiceInit, Init, Threads, Drainers
  <2>2. QED BY <2>1 DEF AttachedFirst, Unattached, ExitInv, BusStarted, Looping, Stopping
<1>2. TypeOK /\ StopInv /\ FlushInv /\ ExitInv => CleanExit
  <2> SUFFICES ASSUME TypeOK, StopInv, FlushInv, ExitInv PROVE CleanExit
    OBVIOUS
  <2>1. backlog <= DrainLimit => Oldest(backlog - DrainLimit) = {}
    <3>1. \A k \in DOMAIN queue : k \in Int /\ k > 0
      BY DEF TypeOK
    <3>2. backlog \in Int /\ DrainLimit \in Int
      BY LimitAssumption DEF TypeOK
    <3>3. QED BY <3>1, <3>2 DEF Oldest
  <2>2. QED BY <2>1 DEF StopInv, FlushInv, ExitInv, CleanExit, StatusIn
<1>3. ServiceSpec => [](TypeOK /\ StopInv /\ FlushInv)
  BY ServiceImplementsBus, TypeCorrect, StopsInOrder, PTL
<1>4. QED BY <1>1, <1>2, <1>3, AttachedFirstNext, ExitInvNext, PTL DEF ServiceSpec
=============================================================================

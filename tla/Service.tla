------------------------------ MODULE Service ------------------------------
(***************************************************************************)
(* The life of the process: main() and HealthMonitorService in service.py, *)
(* composed with the message bus.                                          *)
(*                                                                         *)
(* Main loads the configuration, constructs and attaches the checks,       *)
(* installs the signal handlers, starts the dispatch thread and runs the   *)
(* control loop; the loop ends on a signal or after max_iterations and the *)
(* shutdown publishes the status, drains and stops the bus.  The dispatch  *)
(* thread and the publishers of platform traffic run all along.  A signal  *)
(* may arrive between any two steps: Python runs its handler on the main   *)
(* thread, and before the handlers are installed it kills the process.     *)
(*                                                                         *)
(* What the checks do is left to HeartbeatCheck: here each of them may     *)
(* publish any result (base.py swallows whatever a check raises).          *)
(***************************************************************************)
EXTENDS MessageBus

CONSTANTS
  StatusTopic,     \* STATUS_TOPIC
  None,            \* Python's None
  Limits           \* what --max-iterations may be, None when it is not given

ASSUME NoneAssumption == None \notin Int
ASSUME IterationsAssumption == Limits \subseteq Int \cup {None}
ASSUME StatusAssumption == StatusTopic \in Topics

(* Topics of the results and of the platform's traffic.                     *)
PlatformTopics == Topics \ {StatusTopic}

VARIABLES
  maxIterations, \* --max-iterations of this process, or None
  stage,         \* where main() is
  running,       \* _running
  iterations,    \* _iterations
  installed,     \* are the signal handlers installed?
  exitCode,      \* None while the process lives
  signalled      \* history: has an installed handler run?

process ==
  <<maxIterations, stage, running, iterations, installed, exitCode, signalled>>
serviceVars == <<vars, process>>

(* The status of a process that a signal killed.                            *)
Killed == 143

Alive == exitCode = None

ServiceInit ==
  /\ Init
  /\ maxIterations \in Limits
  /\ stage = "load"
  /\ running = FALSE
  /\ iterations = 0
  /\ installed = FALSE
  /\ exitCode = None
  /\ signalled = FALSE

(* Main is between two calls to the bus, at the given point of main().      *)
At(point) == Alive /\ stage = point /\ pc[Main] = "idle"

GoTo(point) ==
  stage' = point /\ UNCHANGED <<maxIterations, running, iterations, installed, exitCode, signalled>>

Exit(code) ==
  /\ exitCode' = code
  /\ stage' = "exited"
  /\ UNCHANGED <<maxIterations, running, iterations, installed, signalled>>

-----------------------------------------------------------------------------
(* Start-up                                                                 *)

(* load() succeeds, raises ConfigError (exit 2) or anything else, which     *)
(* main() does not catch (exit 1).                                          *)
LoadConfig ==
  /\ At("load")
  /\ GoTo("construct") \/ Exit(2) \/ Exit(1)
  /\ UNCHANGED vars

(* HealthMonitorService(config): every check is constructed, or one raises. *)
Construct ==
  /\ At("construct")
  /\ GoTo("attach") \/ Exit(3)
  /\ UNCHANGED vars

(* build_checks attaches the checks once all are constructed.               *)
Attach ==
  /\ At("attach")
  /\ Subscribe
  /\ UNCHANGED process

InstallSignalHandlers ==
  /\ At("attach")
  /\ Wired
  /\ installed' = TRUE
  /\ stage' = "start"
  /\ UNCHANGED <<maxIterations, running, iterations, exitCode, signalled, vars>>

StartBus ==
  /\ At("start")
  /\ Start
  /\ GoTo("run")

(* run() begins by setting _running, whatever happened before.              *)
RunBegins ==
  /\ At("run")
  /\ running' = TRUE
  /\ stage' = "while"
  /\ UNCHANGED <<maxIterations, iterations, installed, exitCode, signalled, vars>>

-----------------------------------------------------------------------------
(* The control loop                                                         *)

(* Mutant: the loop does not look at _running.                              *)
WhileTrue ==
  /\ At("while")
  /\ DrainCall
  /\ GoTo("drain")

(* `while self._running', and step() drains the bus.                        *)
While ==
  /\ At("while")
  /\ \/ running /\ DrainCall /\ GoTo("drain")
     \/ ~running /\ GoTo("shutdown") /\ UNCHANGED vars

DrainReturns ==
  /\ At("drain")
  /\ GoTo("checks")
  /\ UNCHANGED vars

(* A check's service() publishes a result or our heartbeat; the last        *)
(* message of a behaviour is kept for the status.                           *)
CheckPublishes ==
  /\ At("checks")
  /\ sent + 1 < MaxMessages
  /\ \E topic \in PlatformTopics : Publish(Main, topic)
  /\ UNCHANGED process

(* The value of the iteration counter is compared with the limit only,  *)
(* so it is not counted any further.                                        *)
IterationCap ==
  IF maxIterations = None \/ maxIterations < 0 THEN 0 ELSE maxIterations

CountIteration == IF iterations <= IterationCap THEN iterations + 1 ELSE iterations

(* Mutant: the limit is tested with the count before this iteration.        *)
StepReturnsLate ==
  /\ At("checks")
  /\ iterations' = CountIteration
  /\ stage' = IF maxIterations # None /\ iterations >= maxIterations
              THEN "shutdown" ELSE "sleep"
  /\ UNCHANGED <<maxIterations, running, installed, exitCode, signalled, vars>>

(* step() returns; the loop breaks once max_iterations is reached.          *)
StepReturns ==
  /\ At("checks")
  /\ iterations' = CountIteration
  /\ stage' = IF maxIterations # None /\ iterations' >= maxIterations
              THEN "shutdown" ELSE "sleep"
  /\ UNCHANGED <<maxIterations, running, installed, exitCode, signalled, vars>>

(* time.sleep: a signal handler runs in between, the sleep then resumes.    *)
Sleep ==
  /\ At("sleep")
  /\ GoTo("while")
  /\ UNCHANGED vars

-----------------------------------------------------------------------------
(* _shutdown                                                                *)

PublishStatus ==
  /\ At("shutdown")
  /\ running' = FALSE
  /\ Publish(Main, StatusTopic)
  /\ stage' = "status"
  /\ UNCHANGED <<maxIterations, iterations, installed, exitCode, signalled>>

ShutdownDrain ==
  /\ At("status")
  /\ DrainCall
  /\ GoTo("last")

StopBus ==
  /\ At("last")
  /\ Stop
  /\ GoTo("stopping")

(* stop() and run() have returned EXIT_OK.                                  *)
RunReturns ==
  /\ Alive
  /\ stage = "stopping"
  /\ pc[Main] = "stopped"
  /\ Exit(0)
  /\ UNCHANGED vars

-----------------------------------------------------------------------------

(* SIGTERM or SIGINT: the installed handler calls request_stop().           *)
Signal ==
  /\ Alive
  /\ \/ /\ ~installed
        /\ Exit(Killed)
     \/ /\ installed
        /\ running' = FALSE
        /\ signalled' = TRUE
        /\ UNCHANGED <<maxIterations, stage, iterations, installed, exitCode>>
  /\ UNCHANGED vars

Traffic ==
  /\ Alive
  /\ sent + 1 < MaxMessages
  /\ \E t \in Publishers, topic \in PlatformTopics : Publish(t, topic)
  /\ UNCHANGED process

(* A call to the bus, or the dispatch thread, goes on.                      *)
BusContinues ==
  /\ Alive
  /\ Continue
  /\ UNCHANGED process

StartUp == LoadConfig \/ Construct \/ Attach \/ InstallSignalHandlers \/ StartBus \/ RunBegins

ControlLoop == While \/ DrainReturns \/ CheckPublishes \/ StepReturns \/ Sleep

Shutdown == PublishStatus \/ ShutdownDrain \/ StopBus \/ RunReturns

ServiceNext ==
  \/ StartUp
  \/ ControlLoop
  \/ Shutdown
  \/ Signal
  \/ Traffic
  \/ BusContinues

ServiceSpec == ServiceInit /\ [][ServiceNext]_serviceVars

(* The main thread keeps running its program, and each thread goes on with  *)
(* the call it is in.  Signals and traffic need not come; a check finishes. *)
ServiceFairness ==
  /\ WF_serviceVars(StartUp)
  /\ WF_serviceVars(While \/ DrainReturns \/ StepReturns \/ Sleep)
  /\ WF_serviceVars(Shutdown)
  /\ \A t \in Threads : WF_serviceVars(Alive /\ Bump(t) /\ UNCHANGED process)
  /\ \A t \in Drainers : WF_serviceVars(Alive /\ Drain(t) /\ UNCHANGED process)
  /\ WF_serviceVars(Alive /\ DispatcherLoop /\ UNCHANGED process)
  /\ WF_serviceVars(Alive /\ StopSteps /\ UNCHANGED process)

FairServiceSpec == ServiceSpec /\ ServiceFairness

-----------------------------------------------------------------------------
(* Properties                                                               *)

ServiceTypeOK ==
  /\ TypeOK
  /\ maxIterations \in Limits
  /\ stage \in {"load", "construct", "attach", "start", "run", "while", "drain",
                "checks", "sleep", "shutdown", "status", "last", "stopping", "exited"}
  /\ running \in BOOLEAN
  /\ iterations \in Nat
  /\ installed \in BOOLEAN
  /\ exitCode \in {None, 0, 1, 2, 3, Killed}
  /\ signalled \in BOOLEAN

StatusIn(messages) == \E m \in messages : m.topic = StatusTopic

(* A clean exit leaves nothing behind: the dispatch thread has ended and    *)
(* the status message, if the queue took it, has been dispatched.  Only a   *)
(* join that times out, or a queue longer than a drain, excuses it.         *)
CleanExit ==
  exitCode = 0 /\ ~timedOut =>
    /\ pc[Dispatcher] = "exited"
    /\ backlog <= DrainLimit /\ StatusIn(accepted) => StatusIn(done)

(* --max-iterations N runs N iterations and no more; the test comes after   *)
(* the step, so that zero still runs one.                                   *)
IterationsBounded ==
  maxIterations # None =>
    iterations <= (IF maxIterations < 1 THEN 1 ELSE maxIterations)

Looping == {"while", "drain", "checks", "sleep"}

(* A stop requested once the control loop runs ends the process with exit   *)
(* code 0, whatever the loop, the dispatch thread and the bus are doing.    *)
StopRequestHonoured == (stage \in Looping /\ ~running) ~> exitCode = 0

(* Any signal that reaches the installed handler ends the process with exit *)
(* code 0.                                                                  *)
SignalStops == signalled ~> exitCode = 0
=============================================================================

# A TLA+ verification of the CA1 health monitor

The health monitor (`src/src/health_monitor/`) is a Python process that runs
three periodic checks on one control loop, listens to the heartbeats of its
peers over an in-process message bus, and publishes verdicts that a supervisor
acts on. This directory models its core as TLA+ modules, model-checks them with
TLC on small instances, and proves the main results with TLAPS for all values of
the constants. `PROJECT.json` maps every definition to the lines it models.

Paths below are relative to `src/src/health_monitor/`.

## Inventory

| Part | State | Operations | What makes it correct |
|---|---|---|---|
| Interval timer `common/interval_timer.py` | cadence anchor, refresh anchor, period, expiry window, a lock | `poll`, `mark_serviced`, `refresh`, `reset`, `seconds_until_due` | slots at least a period apart, missed slots counted once, expiry strict |
| Message bus `bus.py` | bounded queue, subscriptions, three unlocked counters, stop event, dispatch thread | `subscribe`, `publish`, `drain`, `_dispatch`, `start`, `stop` | an accepted message is dispatched once, to every matching handler, even when handlers raise; `stop` ends |
| Heartbeat check `checks/heartbeat.py` | own sequence, a timer / live flag / last sequence per peer | `on_peer_heartbeat`, `on_tick` (`_emit`, `_evaluate_peer`, `_evaluate_quorum`) | no false loss, bounded detection, no replay, subscribers know the verdicts |
| Check scaffolding `checks/base.py` | `_last_published`, statistics | `service`, `_publish` | an exception in a check does not end the loop; a transition is published |
| Control loop and process `service.py`, `__main__.py` | `_running`, `_iterations`, signal handlers, exit code | `main`, `run`, `step`, `_sleep_budget`, `_shutdown`, signal handler | a stop request ends the process cleanly; status delivered before exit |
| Types `common/types.py` | `CheckStats` | `record`, `as_payload` | the reported statistics say what happened |
| Memory check `checks/memory_integrity.py` | cursor, baseline, pass counters | `on_tick`, page read, ECC check | every page read once in a pass, no cell error lost |
| Storage check `checks/storage_health.py` | per-mount state, stall timer | `on_tick`, write probe | a failed or slow probe is reported per mount |
| Configuration `config.py` | frozen dataclasses | `load`, `from_mapping`, `_coerce`, `validate` | what is accepted satisfies what the rest assumes |
| Logging `logging_setup.py` | none that is read back | formatting | not modelled |

How the parts interact: `main()` constructs the checks and attaches them (each
subscribes its handlers), starts the bus's dispatch thread and runs the loop.
Each iteration drains the bus (handlers run on the main thread), services the
checks (which publish on the bus) and sleeps. Meanwhile the dispatch thread
drains the same queue, so **every handler runs on two threads**. The broker
client that puts the platform's traffic on the bus is outside the repository.

What is hard here: the two draining threads; the unlocked `+=` on the counters
and the unlocked replay test of the heartbeat handler; the full queue, which
drops a verdict that the check regards as published; the join that may time out
at shutdown; signals at any step; time limits that hold only because of how the
sleep is computed; counts at their limits. `PROJECT.json` lists each as a hazard
with its line and the property that covers it.

## Modules

| Module | Models |
|---|---|
| `IntervalTimer` | the timer class as operators on records; each method holds its lock throughout, so it is one operator in one step of its caller |
| `TimerClient` (extends `IntervalTimer`) | one timer, its owner (poll, later acknowledge) and another caller that may refresh and reset it |
| `CheckScaffold` (extends `TimerClient`) | `PeriodicCheck.service()` around any `on_tick`, and the statistics of `common/types.py` |
| `MessageBus` | the bus with the control loop, the dispatch thread and publishers |
| `BusPromise` | what the bus promises its subscribers, without threads |
| `BusRefinement` (extends `MessageBus`) | the refinement mapping from the bus to its promise |
| `HeartbeatCheck` (extends `IntervalTimer`) | the check, its handler on one or two threads, the loop that drives it, the clock |
| `PeerLink` (extends `IntervalTimer`) | a peer that emits late, crashes and restarts, a bus that delays, loses, reorders and repeats, and the record the check keeps of the peer |
| `MemoryIntegrity` | the memory sweep, its slices and passes, with a platform that changes, and may raise, between any two calls |
| `StorageHealth` | the scan of the mounts, with a step for every system call of a probe and devices that change between any two |
| `Configuration` | `load`, `from_mapping`, `_coerce` and `validate` over classes of raw values |
| `Service` (extends `MessageBus`) | the process from configuration to exit, composed with the real bus |
| `MC*` | constant values for TLC |
| `*Proofs` | theorems and proofs |

The assumptions the modules make on their constants (positive periods, a peer
window longer than the period, thresholds in order, a quorum that can be reached)
are what `AcceptedIsHonoured` shows of a configuration that `load()` accepts, but
for what `Overlooked` lists. The others are about the encoding: `None` is no number
where numbers are compared with it (`NoneAssumption`), no tick (`NoTickAssumption`)
and no state of a result (`NoneIsNoState`), NaN and the infinities are no integers
(`NumbersAssumption`), and the inputs of `Configuration` are strings, numbers and
lists of strings (`InputsAssumption`).

### CheckScaffold and the code

`service()` begins with the poll of `TimerClient` (`ServiceBegins`). Then, with
anything in between, `on_tick` acknowledges a due slot and returns a list of
results (`ServiceReturns`), or the exception path acknowledges whatever the tick
said (`ServiceRaises`). The loop over the results is one `RecordResult` each; an
empty list records the slots missed (`RecordNone`). `slots` counts the slots acknowledged and
missed; a tick that was not due and raised acknowledges no slot, but restarts the
period. `lastRun` is the instant of the last due tick, whether or not it was
acknowledged, so that a scaffold that forgot to acknowledge would be seen to run its
check again too early. `RefreshTimer` and `ResetTimer` are the class's methods in
the hands of any caller: the service itself refreshes peer timers only and never
calls `reset()`, so the model allows more than the service does. `Payload` is `as_payload`, with the test `if self.last_state` as it is:
`HealthState.OK` is zero, and a check whose last state is OK reports none. The
message in `_publish` and `_last_published` are in `HeartbeatCheck`, the one
check that reads it back.

### MessageBus and the code

`pc[t]` is the point thread `t` has reached inside the bus. A `publish` is one
step for `put_nowait` (accepted or dropped) and two for the counter's `+=`
(`BumpLoad`, `BumpStore`). A `drain` is a `Get` per message (the atomic
`get_nowait`; the handlers collected under the lock), an `Invoke` per handler in
the order of subscription, a `DispatchReturns`, and a `DrainEnds` at the limit or
the empty queue. The list of handlers is taken together with the message: the
subscriptions no longer change once the service is wired. `Start`,
`DispatcherCheck` and `DispatcherWakes` are the thread; `Stop`, `JoinReturns`,
`JoinTimesOut` and the final drain are `stop()`. The message's payload, source
and time are abstracted to an identity; topics are sequences of segments, and
`Matches` is `_matches` on them.

`sent`, `accepted`, `done`, `seen`, `flush`, `backlog` and `timedOut` are
history: no guard of the bus but the bound on `sent` reads them.

`BusPromise` has three actions: a message is accepted, the oldest is taken and is
then owed to every interested handler, and a debt is paid. `BusRefinement` maps
the queue to the messages waiting, the handlers that either thread has still to
call to the debts, and `seen` to what was given. Who is interested is defined
there anew, segment by segment, so that `Matches` is checked and not repeated.

### HeartbeatCheck and the code

The handler is three steps, because only the timer has a lock: the replay test
(`Accept` or `Discard`), `StoreSequence`, and `RefreshPeer`. The loop is
`BeginService` (poll, and `_emit` when due), an `EvaluatePeer` per peer, an
`EvaluateQuorum`, a `PublishResult` per result, `EndIteration` (the sleep budget)
and `Wake`. The bus is the environment: any heartbeat, including a malformed
one or one from an unknown sender, may reach a handler at any time, which covers
loss, duplication, reordering and delay. `BusMayDrop` says whether the queue may
be full when a verdict is published. `announced` and `heard` are history.

A thread may be between two steps of the handler when the dispatch thread is
preempted; on CPython that happens at any bytecode on which the interpreter
gives up its lock (after a conditional jump on 3.10, which `requires-python`
admits, and anywhere on a free-threaded build).

Assumptions: `StepMax`, a bound on the duration of one iteration (the checks are
cooperative; a probe that blocks on a hung mount would break it); a peer is not
named `quorum` (it would share a key of `_last_published` with the quorum); peers
are configured once each.

### PeerLink and the code

`HeartbeatCheck` has an environment without memory: any heartbeat may come. That
shows what the check never does, but not what it does for a peer that behaves, or
for one that is dead. In `PeerLink` the peer emits as `_emit` does (a number that
begins at one, plus one each period), crashes, and begins at one again; a
heartbeat is under way for up to `MaxDelay`, in any order, may be lost, and may be
brought once more after it has been brought. The peer emits when its own loop comes
to it, up to `Lateness` after it is due, and the next period counts from then, as
`mark_serviced(tick.now)` does; for this service's own beacon `BeaconOnTime` bounds
the lateness by two iterations. `OnPeerHeartbeat` and `EvaluatePeer`
are the code's, each as one step (the race between them is `HeartbeatCheck`'s
subject). A heartbeat may come without its number (`MayBeBare`), which the code
reads as -1. `since`, `before`, `crashed`, `lost` and `bare` are history.

### StorageHealth and the code

Each call of the probe that does I/O is an action: `DiskUsage`, `Mkstemp`,
`Write`, `Flush`, `Fsync`, `Close`, `Unlink`. `MustFail` and `MayFail` say on
which conditions of the device a call fails; a call on a hung device does not
return. A payload that fits the buffer of the file object is written without I/O;
`flush` then fails, the bytes stay in the buffer, and `close()` flushes them once
more (`CloseRaises`): the exception leaves the `finally` clause, and `service()`
drops the scan (`ScanReports` says that nothing else does). `EvaluateMount` and `EvaluateLast` are the rest of `on_tick` with
`_stale_for` and `_evaluate`; the last one publishes. Time is kept as ages that
are exact up to `MaxAge`, which lies above every threshold, so that behaviours
are infinite and the liveness of a scan can be asked. `troubled` is history: the
mounts whose device was amiss in, or up to, their last probe. Mounts are taken to have
distinct subjects: `_slug` maps `/` and `/root` to one, which would make them
share a topic.

### Configuration and the code

A raw value is what the code can tell apart: a JSON number, bool, list, null or
object, or a text that `int()` reads, that only `float()` reads, that says yes or
no, that is a log level, that is empty, or that is none of them. A number is a
number of hundredths, or NaN, Infinity or -Infinity, which are values apart:
`AtMost` and `Less` are Python's comparisons of all four kinds. `FloatMax` is where
the floats end: `float()` of a text beyond it is infinite, and of a JSON integer
beyond it an `OverflowError`. `LongestWait` is the longest time that `join()` and
`sleep()` take. Periods so small that `elapsed // period` overflows are not
representable in hundredths and are left out. The document is applied top level
first, then section by section, then the environment; `Reject` ends the load, as an
exception does. An environment variable named like a section (`HM_MEMORY`) replaces
the section by a list, which is what `_apply_section` does with an annotation that
it does not know. `crash` is any exception that is not a `ConfigError`.

### MemoryIntegrity and the code

`BeginSlice`, a `ScanPage` per page, `SliceEnds` and `Summarise` are `on_tick`
for a due slot; `SourceRaises` is the exception path of `service()`, wherever the
source is called. The time budget is a free choice once a page has been scanned,
as in the code. Damage is per byte, and a page whose bytes are damaged is taken
to fail its checksum (collisions of the CRC are ignored). The cadence timer is
reduced to whether a slot is due. `raises`, `covered`, `bytesRead`,
`damagedBefore`, `first` and `reported` are history.

### Service and the code

`stage` is the point main() has reached. A signal before the handlers are
installed kills the process; afterwards the handler clears `_running`, between
any two steps. What a check does is any number of publications. One message of
the bound `MaxMessages` is kept for the status so that the shutdown is always
reachable. The iteration counter stops counting where its value is no longer
compared.

## Runs

| Run | Checks | Bounds |
|---|---|---|
| `check_scaffold` | `SlotsFitElapsedTime`, `CadenceSpacing`, `StatusAgrees` with a stale acknowledgement, refreshes, resets and exceptions | period 2, window 3, clock to 8: up to three missed slots at one poll, several slots in a row; 3 results |
| `bus` | `Custody`, `CountersNeverOverstate`, `StopFlushes`, the refinement `PromiseKept`, and `QueuedIsDispatched` and `DispatcherExits` under `FairSpec` | 3 messages, a queue of 2, a drain limit of 1, a publisher beside the loop: the queue fills and is refilled, the final drain leaves a message beyond its limit, two threads hold a message each; two handlers of one pattern, the first raises; patterns too short and too long to match |
| `heartbeat` | `LossPublishedInTime`, `BeaconOnTime`, `LostOnlyIfSilent`, `SubscribersInformed`, `TransitionsOnly` | two peers, a quorum of two, handlers on both threads, heartbeats with and without a number, emission period 1, window 2, loop period 3 (longer than both, so that only the budget cuts the sleep), iterations of up to 1, a queue that is never full, clock to 5: a loss, its report and a recovery |
| `heartbeat_replay_race` | `ReplayGuardHolds` **is violated** with handlers on both threads | one peer, sequences 0 and 1 |
| `heartbeat_dropped_verdict` | `QuorumLossPublished` **is violated** when the queue may be full | two peers and a quorum of two, one handler thread, clock to 5: a quorum lost, the fault dropped, and the next evaluation |
| `service_shutdown` | `CleanExit`, `IterationsBounded`, and `StopRequestHonoured` under `FairServiceSpec` | 3 messages, no iteration limit, zero or 2, a publisher, signals anywhere |
| `service_lost_signal` | `SignalStops` **is violated** | one message |
| `memory_sweep` | `PassCoversRegion`, `EccAccountedOnce`, `DamageReported`, and `PassCompletes` under `FairSpec` | a region of 5 bytes in pages of 2 (a short last page), slices of 2 pages, 2 damaged bytes, 2 ECC events, 2 exceptions, 2 passes: a pass takes several slices and the second starts from the first one's baseline |
| `storage_health` | `OutageIsFault`, `ProbeFileRemoved`, `ScanReports` | two mounts, the first with a buffered payload on a device that fills and hangs, the second written through, low on space at times, on one that turns read-only and vanishes; ages up to 3 with a stall threshold of 2: both latency thresholds and the stall are passed |
| `storage_hung_probe` | `ScanEnds` **is violated** by a mount that stays hung, under `FairSpec` | one mount |
| `config_layers` | `AcceptedIsHonoured`, `LayersInOrder`, `RejectedAsConfigError` | up to two overrides in document and environment together, an unknown key, an unknown section and a section's own name among the keys, NaN, both infinities, numbers beyond the floats and beyond the longest wait, empty texts and repeated names among the values: every rule of `validate()` relates two fields at most |
| `peer_link` | `DeadPeerIsLost`, `LateIsNotLost`, `RestartIsOvercome` | emission period 2, lateness 1, delay 1, window 4 (the three together), clock to 12: the peer crashes, is declared lost, restarts and passes its old number, up to 2 |

Each module also has its type invariant checked. Every property of a passing run
has a mutant, a plausible bug in the operation it watches, that breaks it; the
mutated operators stand before the ones they mutate and nothing else uses them.

Deadlock is not checked where the system may stop: the clocks of `HeartbeatCheck`
and `PeerLink` end at `MaxClock`, the bus and the process end after `stop()`, a
configuration is loaded once, and the memory model ends with its last pass. The
scaffold and the storage check never stop, and there it is checked.

### Fairness

A thread that is inside a call goes on (weak fairness of `Bump(t)`, `Drain(t)`,
the dispatch thread's loop, and the steps of `stop()`): the operating system
schedules every runnable thread, `get_nowait` does not block, handlers of this
code do not block, and `wait` and `join` have timeouts. No fairness is given to
the beginning of a call in `MessageBus`, to publishers, or to signals. In
`Service` the main thread keeps running its program; a check is assumed to
finish its `service()`, which is why `CheckPublishes` is not part of the fair
action and cannot postpone `StepReturns` for ever under the bound on messages.

In `StorageHealth` (`FairSpec`, used by `storage_hung_probe` alone) time passes and
the loop services the check (weak fairness); a call of a probe has strong fairness,
because a device that hangs and recovers again and again lets the call that it held
return once it recovers. What remains is a device that hangs for good.

In `MemoryIntegrity` time passes, the loop services the check and a slice goes
on; the source raises at most `MaxRaises` times. A page that raises for ever does
stall its pass, since the cursor stays at it.

## Findings

Four disagreements have a run of their own:

1. **Replay race** (`heartbeat_replay_race`). With the dispatch thread running,
   `on_peer_heartbeat` runs on two threads. Between the replay test
   (`checks/heartbeat.py:117`) and `record.sequence = sequence` (line 129) the
   other thread may store a newer sequence; the older heartbeat is then accepted,
   refreshes the peer and moves the sequence back. `test_heartbeat.py` requires a
   replay to be discarded, and `service.py:3` speaks of a single-threaded loop.
   `DeadPeerIsLost` shows what the guard is for where the handler is one step.
2. **Dropped verdict** (`heartbeat_dropped_verdict`). `_publish` records the state
   as published before the bus takes or drops the message (`checks/base.py:73`).
   In TLC's trace the quorum is lost and its fault is dropped; the next evaluation
   finds the quorum still lost and the fault already published, and sends nothing.
   The same goes for a peer, by `record.live`.
3. **Lost signal** (`service_lost_signal`). A signal handled after the handlers
   are installed and before `run()` sets `_running` is forgotten
   (`service.py:123`).
4. **Hung mount** (`storage_hung_probe`). The probe is called on the control loop
   (`checks/storage_health.py:146`), without the worker and the deadline of which
   `checks/storage_health.py:10` speaks and against `service.py:5`; while it hangs,
   so does everything.

Others appear as the exceptions that a passing property names. Without the
exceptions of findings 5, 6, 7 and 9, and without that for repeated peers in 8, TLC
finds the property violated; for floats that are not finite the inequalities it
states have no meaning, and the other three of finding 8 are assumptions of the
models that the property takes over as they are.

5. **A heartbeat without a number** (`~bare` in `DeadPeerIsLost`). It is stored as
   -1 (`checks/heartbeat.py:129`), after which every old number passes, although
   `test_heartbeat.py:129` has replays discarded.
6. **A restarted peer** (`before` in `RestartIsOvercome`). Its numbers begin again
   and are discarded as replays until they pass the old ones; until then it is
   declared lost while it beats on time. `checks/heartbeat.py:9` says that each
   arriving message refreshes the peer.
7. **A full device** (the exception of `ScanReports`). `close()` in the `finally`
   clause raises again (`checks/storage_health.py:92`) and no mount is reported in
   that scan, although `README.md:87` has one message per mount per scan; the probe
   file stays. `ScanReports` shows that this is the only way.
8. **What `validate()` overlooks** (`Overlooked` in `AcceptedIsHonoured`), although
   its docstring (`config.py:219`) promises to reject "any value the service cannot
   honour":
   - NaN. The rules are stated as rejections, and no comparison with NaN is true
     (`config.py:209`): with a `peer_timeout_s` of NaN no peer ever expires.
   - Infinity. An infinite period is positive; `poll()` of a timer that is due at
     once then computes `int(inf // inf)` and raises (`interval_timer.py:163`),
     outside the `try` of `service()` (`checks/base.py:54`). `join()` refuses an
     infinite or a very long `shutdown_grace_s`, and `sleep()` such a wait.
   - Repeated peers. `validate()` counts the list (`config.py:263`), the check keeps
     each name once: a quorum that cannot be reached is accepted.
   - Repeated mounts, which are probed and counted twice in a scan.
   - A peer named `quorum`, which shares the quorum's key of `_last_published`.
9. **Crashes instead of exit code 2** (`RejectedAsConfigError`). `float()` of a JSON
   integer beyond the floats (`config.py:116`) and `int()` of the JSON number
   Infinity (`config.py:121`) raise `OverflowError`, which is not caught; a section
   replaced by a list has no fields (`config.py:226`); a file that cannot be read or
   decoded raises (`config.py:198`).
10. **OK is false** (`Payload`). A check whose last state is OK reports none
    (`common/types.py:85`).

## Proofs

All are for every value of the constants that satisfies the named assumptions:
any number of peers, publishers, messages and subscriptions, any capacity, limit,
period, window and clock bound.

- `ScaffoldProofs`: `TimerTypeCorrect`, `CadenceSpacingHolds`,
  `SlotsFitElapsedTimeHolds`, and `SleepEndsWhenDue`, a fact about
  `seconds_until_due`. The inductive invariant `TimerInv` adds that a tick in the
  owner's hands, however stale, still satisfies both claims relative to the slots
  already counted, which a reset can only strengthen, and that the timer's anchor
  is not before the last due tick once that tick has been dealt with. The arithmetic of
  `missed_slots` is one lemma, `SlotsOfATick`. `ScaffoldKeepsCadence` carries this
  over to a check under `service()`: a step of the scaffold is one of the timer's
  (`TimerStep`), but for the exception path that acknowledges a tick which was not
  due; `TimerInv` therefore also says that such a tick missed no slot and is no
  earlier than the last one acknowledged (`TimerInvRaise`). `StatusAgreesHolds`
  rests on `StatsInv`: each counter is the number of the results recorded so far
  that it counts, which one more result changes by one (`CountAppended`), and the
  slots skipped are among those that `Acknowledge` counted.
- `MessageBusProofs`: `TypeCorrect` and `CustodyHolds`. Custody is not inductive
  alone: a publication must not reuse the identity of an earlier message, so the
  invariant adds `IdsUsed` (every accepted identity is at most `sent`). Only
  `Publish`, `Get` and `DispatchReturns` move a message; every other step is
  covered by `CustodyUnmoved`.

  `CountersNeverOverstateHolds`: what a thread has done is counted in history at
  once and in the counter two steps later. `CountersInv` bounds each counter, and
  each value that a thread has loaded and not yet stored, by the true number less
  the threads that have still to add to it (`Room`): a stale store can then lower
  a counter, but never raise it past the truth.

  `StopFlushesHolds`: `StopInv` says what `stop()` knows of the dispatch thread
  (after a join that returned, it has ended or was never started), so that in the
  final drain only the main thread takes from the front of the queue. `FlushInv`
  then says that a message accepted before that drain has been dispatched, is
  held by the main thread, or is among the `Oldest(Left)` of the queue, those of
  the backlog not taken yet; later publications are appended behind them. Once the
  drain has ended, by its limit or at the empty queue, at most `backlog - DrainLimit`
  of them are left (`OldestBounded`).

  `BusKeepsPromise` is the refinement of `BusPromise`. It
  needs `WiringInv` (the subscriptions are a prefix of the configured ones, all of
  them once anything is taken), custody (the message a thread holds is not the
  other's, so that their debts are disjoint and an accepted message is new), and
  the lemma `MatchesIsInterest`, which shows `_matches` to be the segment-wise
  definition. Every action is one of the three of `BusPromise` or a stutter.
- `ServiceProofs`: `ServiceTypes`; `ServiceImplementsBus`: a step of the service is
  a step of the bus or leaves it alone, given `AttachedFirst` (past the attachment,
  every subscription has been made, which the bus's own calls require). It says
  little by itself, and carries the bus's theorems over to the process:
  `ServiceCustody`, `ServiceKeepsPromise` and `ServiceCountsAndFlushes` follow.
  `IterationsBoundedHolds` rests on `IterationsInv`: while the loop goes on the
  counter is below the limit or zero. `CleanExitHolds` joins the bus's `StopInv`
  and `FlushInv` with `ExitInv`: the dispatch thread was started before anything
  that can lead to exit code 0, `stop()` has returned by then, and a status
  message that the queue took was there before the final drain began.
- `HeartbeatProofs`: `HeartbeatTypeCorrect`; `BeaconOnTimeHolds`, from `TimeInv`,
  which says for each point of the loop where the clock stands relative to the
  iteration, the sleep and the last emission; `LostOnlyIfSilentHolds`, from
  `HeardInv`: the last fresh heartbeat of a peer has reached its timer, or a
  thread still holds it.

  `TransitionsOnlyHolds` and `SubscribersInformedHolds` rest on `VerdictInv`: the
  verdict on every subject is the one last published, or it waits among the
  results, once, and as it still is. The handler on the other thread does not
  disturb this because only the evaluation changes `live`.
  `SubscribersInformedHolds` assumes `~BusMayDrop`: with a full queue the claim is
  false, which is finding 2. `LossPublishedInTimeHolds` rests on `LossInv`: a peer
  found live in this iteration was refreshed within its window of the tick, and
  the sleep lasts no longer than an emission period or an iteration, so that no
  iteration begins later than that after a window has closed, unless the fault is
  already published.

  `ReplayGuardOnOneThread` proves the property that `heartbeat_replay_race`
  refutes, for a handler that runs on at most one thread: then `GuardInv`, that a
  heartbeat between the replay test and the store is still fresh, is inductive.
  The second draining thread is the whole cause of finding 1.
- `ConfigurationProofs`: `ConfigurationTypes`, `LayersInOrderHolds`,
  `RejectedAsConfigErrorHolds`, `AcceptedIsHonouredHolds`, for any sets of keys and
  any values in document and environment. `LoadInv` says that, at each stage,
  every field holds the value of the layers applied so far, with the keys still
  pending left out (`FromDocument`, `FromBoth`); types follow, because a value that
  `_coerce` returns has the type it was asked for. `CoerceErrors` shows the two
  overflows to be all that crashes `_coerce`. `ValidInv` keeps what the four parts of
  `validate()` required when the configuration was accepted; where nothing was
  overlooked the floats are integers, `Comparisons` turns the rules, which are
  negated comparisons of floats, into inequalities, and `DistinctCounted` the length
  of the list of peers into their number.

- `MemoryProofs`: `MemoryTypeCorrect`, `PassCoversRegionHolds`,
  `EccAccountedOnceHolds`, `DamageReportedHolds`, from `SweepInv`: what was read
  is what lies before the cursor, a byte damaged before the pass and already
  passed by the cursor has been counted, and the events reported so far are the
  growth of the counters up to the baseline.

- `StorageProofs`: `StorageTypes`, `OutageIsFaultHolds`, `ScanReportsHolds`,
  `ProbeFileRemovedHolds`. The published verdicts are the gathered ones, mount by
  mount, so each invariant speaks of the results gathered so far: `OutageInv` that
  the probes counted in one outage never exceed the mount's consecutive failures
  (by more than the one being probed), and that a mount probed twice in one
  outage has been given FAULT; `FileInv` that a device that is amiss is accounted to
  its mount, that no probe file is there before `mkstemp` has made one, and that it
  is there from then on until `unlink`, so also when `close()` flushes again.
  `ScanReports` follows for the two ways in which a scan ends: the last mount's
  evaluation, which publishes, and `CloseRaises`.
- `PeerLinkProofs`: `LinkTypes`, `DeadPeerIsLostHolds`, `LateIsNotLostHolds`,
  `RestartIsOvercomeHolds`. `SilenceInv` says that no number that was brought is
  above the recorded one, so that a repeated heartbeat refreshes nothing and the
  last refresh of a dead peer is at most a delay after its crash. For the other
  two, `NumbersInv` bounds the time a running peer takes to count (a `Span`, the
  period and the lateness, for each number) and says that of its new numbers under
  way those up to the recorded one were sent before the last refresh, and `HeardInv` says that a peer has been refreshed since its last
  heartbeat, or one that will pass the replay test (`PassesIsFresh`) is under way,
  or it has not yet counted past its old number. `LateIsNotLost` and
  `RestartIsOvercome` are then both cases of `LiveInv`.

Every invariant, action property and refinement that a passing run checks is thus
also a theorem, most of them of the same specification that the run checks.
Only model-checked are the liveness properties `QueuedIsDispatched`,
`DispatcherExits`, `StopRequestHonoured` and `PassCompletes`: fairness is out of
the prover's reach. The four violations are TLC's counterexamples.

## Not modelled

- Logging (`logging_setup.py`): it formats records for stdout and keeps no state
  that anything else reads.
- `describe()`, `parse_args()`, the texts, metrics and payloads of results, topics
  of results and `_slug`: formatting.
- The broker client that injects the platform's traffic, the memory source and
  the devices are outside the repository; they are environments here, marked
  external in the map.

## Plan

The modules were written in this order: timer, bus, heartbeat check, service,
memory check; then the scaffold, the storage check, the configuration, the peer
link, and the bus's promise. Every part of the program that keeps state is
modelled, and every safety property that a run checks is proved. What is left is
worth having but not pressing:

1. The safety part of the liveness arguments: that a slice of the memory sweep
   always moves the cursor on, and that the steps of a scan, of `stop()` and of
   the shutdown only go forward.
2. What a single call of the bus's `drain` does, as lemmas about the sequence of
   its steps, for a reader who wants the bus's contract without the threads.

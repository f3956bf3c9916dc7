--------------------------- MODULE StorageHealth ---------------------------
(***************************************************************************)
(* FN-HM-DISK, checks/storage_health.py, as checks/base.py drives it: a    *)
(* scan probes the configured mounts one after the other, each with a      *)
(* statvfs and a write-and-fsync round trip, judges each observation and   *)
(* publishes one result per mount when all have been probed.               *)
(*                                                                         *)
(* The devices change at any step.  Every call of a probe that does I/O is *)
(* a step of its own, so that a device may fail between two of them; a     *)
(* call on a hung device does not return.  BufferedWriter (external) keeps *)
(* the bytes of a flush that failed, and close() flushes them once more.   *)
(*                                                                         *)
(* Time is kept as ages, each exact up to MaxAge: a threshold below MaxAge *)
(* is exceeded in the model when it is in the code, and time never ends.   *)
(* The cadence timer's anchor is the tick of the last scan, whether it     *)
(* completed or raised.  The metrics and the texts of results are left     *)
(* out; consecutive_failures counts to two, as the code asks only for > 1. *)
(***************************************************************************)
EXTENDS Integers, Sequences

CONSTANTS
  MountList,       \* config.mounts
  Period,          \* scan_period_s
  Stall,           \* stall_threshold_s
  LatencyWarn,     \* probe_latency_warn_ms
  LatencyFault,    \* probe_latency_fault_ms
  FreeWarn,        \* free_warn_fraction
  FreeFault,       \* free_fault_fraction
  FreeLevels,      \* free fractions the device of each mount may report
  Buffered,        \* mounts whose block size, the file object's buffer, holds probe_write_bytes
  Conditions,      \* conditions the device of each mount may be in
  Never,           \* no probe of the mount has been good yet
  MaxAge           \* bound: ages are exact up to here

Condition == {"good", "full", "readonly", "gone", "hung"}
Mounts    == {MountList[n] : n \in DOMAIN MountList}

ASSUME MountsAssumption ==
  /\ MountList \in Seq(Mounts)
  /\ MountList # << >>
  /\ \A m, n \in DOMAIN MountList : MountList[m] = MountList[n] => m = n
ASSUME ThresholdsAssumption ==
  /\ Period \in Nat \ {0} /\ Stall \in Nat /\ Period < Stall /\ Stall < MaxAge
  /\ LatencyWarn \in Int /\ LatencyFault \in Int
  /\ LatencyWarn < LatencyFault /\ LatencyFault < MaxAge
  /\ FreeFault \in Nat \ {0} /\ FreeWarn \in Nat /\ FreeFault < FreeWarn
  /\ MaxAge \in Nat
ASSUME DevicesAssumption ==
  /\ Buffered \subseteq Mounts
  /\ Conditions \in [Mounts -> SUBSET Condition]
  /\ FreeLevels \in [Mounts -> SUBSET (0 .. 100)]
  /\ \A m \in Mounts : "good" \in Conditions[m] /\ FreeLevels[m] # {}
ASSUME NeverAssumption == Never \notin 0 .. MaxAge

States == {"OK", "DEGRADED", "FAULT"}
Steps  == {"idle", "stat", "mkstemp", "write", "flush", "fsync", "close", "unlink", "evaluate"}

VARIABLES
  device,      \* condition of every mount's device
  sinceTick,   \* age of the tick of the last scan
  at,          \* where the scan is
  turn,        \* index of the mount being probed
  free,        \* free_fraction of this probe
  took,        \* time since the probe read `started'
  caught,      \* has an OSError been caught in this probe?
  buffered,    \* are bytes of the payload still in the file object's buffer?
  path,        \* is the probe file of this probe on the device?
  sinceGood,   \* at the tick of this scan, the age of _last_good_probe
  failures,    \* _consecutive_failures
  results,     \* states in the results of this scan, in the order of the mounts
  published,   \* state last published for a mount, or "none"
  (* history *)
  sent,        \* mounts for which the last scan published, in order
  outage,      \* probes of the mount begun in its present outage
  troubled     \* mounts whose device was amiss in, or up to, their last probe

probe   == <<free, took, caught, buffered, path>>
records == <<sinceGood, failures, results>>
history == <<sent, outage, troubled>>
vars == <<device, sinceTick, at, turn, probe, records, published, history>>

Older(age, by) == IF age + by > MaxAge THEN MaxAge ELSE age + by
UpToTwo(n) == IF n > 2 THEN 2 ELSE n

Init ==
  /\ device = [m \in Mounts |-> "good"]
  /\ sinceTick = Period
  /\ at = "idle"
  /\ turn = 1
  /\ free = 0
  /\ took = 0
  /\ caught = FALSE
  /\ buffered = FALSE
  /\ path = FALSE
  /\ sinceGood = [m \in Mounts |-> Never]
  /\ failures = [m \in Mounts |-> 0]
  /\ results = << >>
  /\ published = [m \in Mounts |-> "none"]
  /\ sent = << >>
  /\ outage = [m \in Mounts |-> 0]
  /\ troubled = {}

-----------------------------------------------------------------------------
(* The devices and time                                                     *)

Outage(condition) == condition \in {"readonly", "gone"}

DeviceChanges ==
  \E m \in Mounts : \E c \in Conditions[m] \ {device[m]} :
    /\ device' = [device EXCEPT ![m] = c]
    /\ outage' = IF Outage(c) THEN outage ELSE [outage EXCEPT ![m] = 0]
    /\ troubled' = troubled \cup {m}
    /\ UNCHANGED <<sinceTick, at, turn, probe, records, published, sent>>

TimePasses ==
  /\ sinceTick' = Older(sinceTick, 1)
  /\ took' = IF at \in {"idle", "stat"} \/ took > LatencyFault THEN took ELSE took + 1
  /\ UNCHANGED <<device, at, turn, free, caught, buffered, path, records, published, history>>

-----------------------------------------------------------------------------
(* One call of a probe on the device of the mount at hand                   *)

Mount == MountList[turn]

MustFail ==
  [ stat    |-> {"gone"},
    mkstemp |-> {"gone", "readonly"},
    flush   |-> {"gone", "readonly", "full"},
    fsync   |-> {"gone"},
    unlink  |-> {"gone", "readonly"} ]

MayFail ==
  [ stat    |-> {"gone"},
    mkstemp |-> {"gone", "readonly", "full"},
    flush   |-> {"gone", "readonly", "full"},
    fsync   |-> {"gone", "readonly", "full"},
    unlink  |-> {"gone", "readonly"} ]

Succeeds(call) == device[Mount] \notin MustFail[call] \cup {"hung"}
Raises(call)   == device[Mount] \in MayFail[call]

-----------------------------------------------------------------------------
(* on_tick for a slot that is due, and FilesystemProbe.probe                *)

BeginScan ==
  /\ at = "idle"
  /\ sinceTick >= Period
  /\ at' = "stat"
  /\ turn' = 1
  /\ sinceTick' = 0
  /\ path' = FALSE
  /\ sinceGood' = [m \in Mounts |-> IF sinceGood[m] = Never THEN Never
                                    ELSE Older(sinceGood[m], sinceTick)]
  /\ sent' = << >>
  /\ UNCHANGED <<device, free, took, caught, buffered, failures, results, published,
                 outage, troubled>>

(* shutil.disk_usage, and the start of the timed part.                      *)
DiskUsage ==
  /\ at = "stat"
  /\ \/ /\ Succeeds("stat")
        /\ free' \in FreeLevels[Mount]
        /\ UNCHANGED caught
        /\ at' = "mkstemp"
     \/ /\ Raises("stat")
        /\ free' = 0
        /\ caught' = TRUE
        /\ at' = "evaluate"
  /\ outage' = [outage EXCEPT ![Mount] = IF Outage(device[Mount]) THEN UpToTwo(@ + 1) ELSE 0]
  /\ troubled' = IF device[Mount] = "good" THEN troubled \ {Mount} ELSE troubled
  /\ UNCHANGED <<device, sinceTick, turn, took, buffered, path, records, published, sent>>

(* What no call of a probe changes.                                         *)
scan == <<device, sinceTick, turn, free, took, records, published, history>>

(* A call of the try block: on to the next call, or to the first call of    *)
(* the finally clause that has something to do.                             *)
Try(call, next, final) ==
  \/ Succeeds(call) /\ at' = next /\ UNCHANGED caught
  \/ Raises(call) /\ at' = final /\ caught' = TRUE

(* Mutant: the temporary file is made before the try block, so that the     *)
(* exception leaves the probe and on_tick.                                  *)
MkstempOutsideTry ==
  /\ at = "mkstemp"
  /\ \/ Succeeds("mkstemp") /\ at' = "write" /\ path' = TRUE /\ UNCHANGED results
     \/ Raises("mkstemp") /\ at' = "idle" /\ results' = << >> /\ UNCHANGED path
  /\ UNCHANGED <<device, sinceTick, turn, free, took, caught, buffered, sinceGood,
                 failures, published, history>>

Mkstemp ==
  /\ at = "mkstemp"
  /\ Try("mkstemp", "write", "evaluate")
  /\ path' = (at' = "write")
  /\ UNCHANGED <<buffered, scan>>

(* A payload that fits the buffer is written without I/O.  A longer one is  *)
(* written through, and nothing of it is kept when that fails.              *)
Write ==
  /\ at = "write"
  /\ IF Mount \in Buffered THEN at' = "flush" /\ UNCHANGED caught
     ELSE Try("flush", "flush", "close")
  /\ buffered' = (at' = "flush")
  /\ UNCHANGED <<path, scan>>

Flush ==
  /\ at = "flush"
  /\ Try("flush", "fsync", "close")
  /\ buffered' = (at' = "close")
  /\ UNCHANGED <<path, scan>>

Fsync ==
  /\ at = "fsync"
  /\ Try("fsync", "close", "close")
  /\ UNCHANGED <<buffered, path, scan>>

(* Mutant: the probe file is removed in the error path only.                *)
UnlinkAfterErrorOnly == IF caught THEN "unlink" ELSE "evaluate"

AfterClose == "unlink"

(* handle.close() flushes what is buffered.                                 *)
Close ==
  /\ at = "close"
  /\ ~buffered \/ Succeeds("flush")
  /\ at' = AfterClose
  /\ buffered' = FALSE
  /\ UNCHANGED <<caught, path, scan>>

(* The flush in close() fails like the one before it, and the exception     *)
(* leaves the finally clause, the probe and on_tick: service() drops the    *)
(* results of the scan and acknowledges the slot.                           *)
CloseRaises ==
  /\ at = "close"
  /\ buffered
  /\ Raises("flush")
  /\ at' = "idle"
  /\ results' = << >>
  /\ free' = 0
  /\ took' = 0
  /\ caught' = FALSE
  /\ buffered' = FALSE
  /\ UNCHANGED <<device, sinceTick, turn, path, sinceGood, failures, published, history>>

(* A file that cannot be removed is only logged.                            *)
Unlink ==
  /\ at = "unlink"
  /\ \/ Succeeds("unlink") /\ path' = FALSE
     \/ Raises("unlink") /\ UNCHANGED path
  /\ at' = "evaluate"
  /\ UNCHANGED <<caught, buffered, scan>>

-----------------------------------------------------------------------------
(* The rest of on_tick, _stale_for and _evaluate                            *)

StaleFor(m) == IF sinceGood'[m] = Never THEN 0 ELSE sinceGood'[m]

Verdict ==
  IF caught THEN IF StaleFor(Mount) > Stall \/ failures'[Mount] > 1 THEN "FAULT" ELSE "DEGRADED"
  ELSE IF free < FreeFault \/ took > LatencyFault THEN "FAULT"
  ELSE IF free < FreeWarn \/ took > LatencyWarn THEN "DEGRADED"
  ELSE "OK"

(* Mutant: a failure is not added to the ones before it.                    *)
FailuresForgotten == IF caught THEN 1 ELSE 0

FailuresNow == IF caught THEN UpToTwo(failures[Mount] + 1) ELSE 0

(* The mount is judged, and the locals of its probe are gone.               *)
Judge ==
  /\ at = "evaluate"
  /\ sinceGood' = IF caught THEN sinceGood ELSE [sinceGood EXCEPT ![Mount] = 0]
  /\ failures' = [failures EXCEPT ![Mount] = FailuresNow]
  /\ free' = 0
  /\ took' = 0
  /\ caught' = FALSE
  /\ path' = FALSE
  /\ UNCHANGED <<device, sinceTick, buffered, outage, troubled>>

(* Mutant: the result of a mount that fails is left out.                    *)
SkipFailed ==
  /\ at' = "stat"
  /\ turn' = turn + 1
  /\ results' = IF caught THEN results ELSE Append(results, Verdict)

ToNextMount ==
  /\ at' = "stat"
  /\ turn' = turn + 1
  /\ results' = Append(results, Verdict)

EvaluateMount ==
  /\ Judge
  /\ turn < Len(MountList)
  /\ ToNextMount
  /\ UNCHANGED <<published, sent>>

(* After the last mount the slot is acknowledged and service() publishes.   *)
EvaluateLast ==
  /\ Judge
  /\ turn = Len(MountList)
  /\ at' = "idle"
  /\ published' = [m \in Mounts |->
       Append(results, Verdict)[CHOOSE n \in DOMAIN MountList : MountList[n] = m]]
  /\ sent' = MountList
  /\ results' = << >>
  /\ UNCHANGED turn

ProbeStep ==
  \/ DiskUsage \/ Mkstemp \/ Write \/ Flush \/ Fsync
  \/ Close \/ CloseRaises \/ Unlink
  \/ EvaluateMount \/ EvaluateLast

Next == DeviceChanges \/ TimePasses \/ BeginScan \/ ProbeStep

Spec == Init /\ [][Next]_vars

(* Time passes, the control loop services the check, and a call of a probe  *)
(* that is possible again and again is made: a hang that ends lets the call *)
(* that it held return.                                                     *)
FairSpec == Spec /\ WF_vars(TimePasses) /\ WF_vars(BeginScan) /\ SF_vars(ProbeStep)

-----------------------------------------------------------------------------
(* Properties                                                               *)

Ages == 0 .. MaxAge

TypeOK ==
  /\ device \in [Mounts -> Condition]
  /\ sinceTick \in Ages
  /\ at \in Steps
  /\ turn \in DOMAIN MountList
  /\ free \in 0 .. 100
  /\ took \in Ages
  /\ caught \in BOOLEAN
  /\ buffered \in BOOLEAN
  /\ path \in BOOLEAN
  /\ sinceGood \in [Mounts -> Ages \cup {Never}]
  /\ failures \in [Mounts -> 0 .. 2]
  /\ results \in Seq(States)
  /\ Len(results) = IF at = "idle" THEN 0 ELSE turn - 1
  /\ published \in [Mounts -> States \cup {"none"}]
  /\ sent \in {<< >>, MountList}
  /\ outage \in [Mounts -> 0 .. 2]
  /\ troubled \subseteq Mounts

(* A mount that two scans in a row have found missing or read-only, in one  *)
(* outage, is published as a fault by the second, unless that scan raised;  *)
(* scans that raised in between do not make the check forget the first.     *)
OutageIsFault ==
  at = "idle" /\ sent # << >> =>
    \A m \in Mounts : outage[m] = 2 => published[m] = "FAULT"

(* README.md promises one message per mount per scan.  A scan keeps it      *)
(* whatever fails in its probes, with one exception, the only way in which  *)
(* one mount silences the others: the flush that handle.close() repeats in  *)
(* the finally clause.  The device has then failed and has the probe file.  *)
ScanReports ==
  [][at # "idle" /\ at' = "idle"
       => sent' = MountList \/ (path' /\ Mount \in troubled)]_vars

(* A probe leaves its file behind only on a device that failed under it.    *)
ProbeFileRemoved ==
  at \in {"idle", "evaluate"} /\ path => Mount \in troubled

(* Probes run on a worker with a deadline of their own and can be abandoned *)
(* (the module's docstring), and no check blocks the loop beyond its slice  *)
(* budget (service.py): a scan that begins ends, also on a hung mount.      *)
ScanEnds == at # "idle" ~> at = "idle"
=============================================================================

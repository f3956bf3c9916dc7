--------------------------- MODULE StorageProofs ---------------------------
(***************************************************************************)
(* Proofs about the storage check: its types, and that two scans of an     *)
(* outage make a fault, that a probe file stays only on a device that      *)
(* failed, and that a scan is lost in one way only, for any list of        *)
(* mounts, any thresholds and any behaviour of the devices.                *)
(***************************************************************************)
EXTENDS StorageHealth, SequenceTheorems, TLAPS

(* The mount at hand has been begun and not yet judged.                     *)
InProbe == at \notin {"idle", "stat"}

-----------------------------------------------------------------------------
(* The strengthened invariants                                              *)

(* Scans that found a mount in an outage have been counted as failures; a   *)
(* probe that is under way in one can only fail.                            *)
OutageInv ==
  /\ \A m \in Mounts : outage[m] > 0 => Outage(device[m])
  /\ InProbe /\ outage[Mount] > 0 => at = "mkstemp" \/ (at = "evaluate" /\ caught)
  /\ \A m \in Mounts : outage[m] <= failures[m] + (IF InProbe /\ m = Mount THEN 1 ELSE 0)
  /\ \A k \in 1 .. Len(results) : outage[MountList[k]] = 2 => results[k] = "FAULT"
  /\ at # "idle" => sent = << >>
  /\ OutageIsFault

(* A file is there from when it is made until it can be removed, and a      *)
(* device that is amiss is accounted to its mount.                          *)
FileInv ==
  /\ \A m \in Mounts : device[m] = "good" \/ m \in troubled
  /\ at \in {"stat", "mkstemp"} => ~path
  /\ at \in {"write", "flush", "fsync", "close", "unlink"} => path
  /\ ProbeFileRemoved

-----------------------------------------------------------------------------
(* Mounts and calls                                                         *)

LEMMA MountTurns ==
  ASSUME turn \in DOMAIN MountList
  PROVE  /\ Mount \in Mounts
         /\ turn \in 1 .. Len(MountList)
         /\ \A k \in 1 .. Len(MountList) : k # turn => MountList[k] # Mount
BY MountsAssumption DEF Mount, Mounts

LEMMA ListedMounts ==
  /\ Len(MountList) \in Nat \ {0}
  /\ DOMAIN MountList = 1 .. Len(MountList)
  /\ \A k \in 1 .. Len(MountList) : MountList[k] \in Mounts
BY MountsAssumption DEF Mounts

LEMMA OnlyTheUnwellRaise ==
  ASSUME NEW call \in {"stat", "mkstemp", "flush", "fsync", "unlink"}, Raises(call)
  PROVE  device[Mount] # "good"
BY DEF Raises, MayFail

LEMMA NoFileInAnOutage ==
  ASSUME Outage(device[Mount])
  PROVE  ~Succeeds("mkstemp")
BY DEF Outage, Succeeds, MustFail

LEMMA NoStatWhenGone ==
  ASSUME Outage(device[Mount]), Succeeds("stat")
  PROVE  device[Mount] = "readonly"
BY DEF Outage, Succeeds, MustFail

LEMMA VerdictType == Verdict \in States
BY DEF Verdict, States

(* The calls of a probe that neither begin nor end it.                      *)
Call == Mkstemp \/ Write \/ Flush \/ Fsync \/ Close \/ Unlink

LEMMA CallSteps ==
  ASSUME TypeOK, Call
  PROVE  /\ UNCHANGED scan
         /\ at \in Steps \ {"idle", "stat", "evaluate"}
         /\ at' \in Steps \ {"idle", "stat", "mkstemp"}
         /\ caught' = caught \/ (caught' = TRUE /\ device[Mount] # "good")
         /\ caught' \in BOOLEAN /\ buffered' \in BOOLEAN /\ path' \in BOOLEAN
<1>1. CASE Mkstemp
  BY <1>1, OnlyTheUnwellRaise DEF Mkstemp, Try, TypeOK, Steps
<1>2. CASE Write
  BY <1>2, OnlyTheUnwellRaise DEF Write, Try, TypeOK, Steps
<1>3. CASE Flush
  BY <1>3, OnlyTheUnwellRaise DEF Flush, Try, TypeOK, Steps
<1>4. CASE Fsync
  BY <1>4, OnlyTheUnwellRaise DEF Fsync, Try, TypeOK, Steps
<1>5. CASE Close
  BY <1>5 DEF Close, AfterClose, TypeOK, Steps
<1>6. CASE Unlink
  BY <1>6 DEF Unlink, TypeOK, Steps
<1>7. QED BY <1>1, <1>2, <1>3, <1>4, <1>5, <1>6 DEF Call

-----------------------------------------------------------------------------
(* Types                                                                    *)

LEMMA NoResults == << >> \in Seq(States) /\ Len(<< >>) = 0
OBVIOUS

LEMMA TypeInit == Init => TypeOK
<1> SUFFICES ASSUME Init PROVE TypeOK
  OBVIOUS
<1>1. turn \in DOMAIN MountList
  BY ListedMounts DEF Init
<1>2. sinceTick \in Ages /\ took \in Ages
  BY ThresholdsAssumption DEF Init, Ages
<1>3. results \in Seq(States) /\ Len(results) = 0
  BY NoResults DEF Init
<1>4. failures \in [Mounts -> 0 .. 2] /\ outage \in [Mounts -> 0 .. 2]
  BY DEF Init
<1>5. device \in [Mounts -> Condition] /\ published \in [Mounts -> States \cup {"none"}]
  BY DEF Init, Condition
<1>6. sinceGood \in [Mounts -> Ages \cup {Never}]
  BY DEF Init
<1>7. sent \in {<< >>, MountList}
  BY DEF Init
<1>8. at = "idle" /\ free \in 0 .. 100 /\ troubled \subseteq Mounts
  <2>1. free = 0 /\ at = "idle" /\ troubled = {}
    BY DEF Init
  <2>2. QED BY <2>1
<1>9. caught \in BOOLEAN /\ buffered \in BOOLEAN /\ path \in BOOLEAN
  BY Zenon DEF Init
<1>10. QED BY <1>1, <1>2, <1>3, <1>4, <1>5, <1>6, <1>7, <1>8, <1>9 DEF TypeOK, Steps

LEMMA OlderType ==
  ASSUME NEW a \in Ages, NEW b \in Ages
  PROVE  Older(a, b) \in Ages /\ Older(a, 1) \in Ages
BY ThresholdsAssumption DEF Older, Ages

LEMMA JudgeType ==
  ASSUME TypeOK, Judge
  PROVE  /\ sinceGood' \in [Mounts -> Ages \cup {Never}]
         /\ failures' \in [Mounts -> 0 .. 2]
         /\ troubled' \subseteq Mounts
         /\ free' \in 0 .. 100 /\ took' \in Ages /\ caught' = FALSE /\ path' = FALSE
         /\ UNCHANGED <<device, sinceTick, buffered, outage>>
<1>1. Mount \in Mounts
  BY MountTurns DEF TypeOK
<1>2. 0 \in Ages
  BY ThresholdsAssumption DEF Ages
<1>3. sinceGood' \in [Mounts -> Ages \cup {Never}]
  BY <1>1, <1>2 DEF Judge, TypeOK
<1>4. FailuresNow \in 0 .. 2
  BY <1>1 DEF FailuresNow, UpToTwo, TypeOK
<1>5. failures' \in [Mounts -> 0 .. 2]
  BY <1>1, <1>4 DEF Judge, TypeOK
<1>6. QED BY <1>1, <1>2, <1>3, <1>5 DEF Judge, TypeOK

LEMMA TypeNext == TypeOK /\ [Next]_vars => TypeOK'
<1> SUFFICES ASSUME TypeOK, [Next]_vars PROVE TypeOK'
  OBVIOUS
<1>1. CASE DeviceChanges
  <2>1. PICK m \in Mounts, c \in Condition :
          /\ device' = [device EXCEPT ![m] = c]
          /\ outage' = IF Outage(c) THEN outage ELSE [outage EXCEPT ![m] = 0]
          /\ troubled' = troubled \cup {m}
          /\ UNCHANGED <<sinceTick, at, turn, probe, records, published, sent>>
    BY <1>1, DevicesAssumption DEF DeviceChanges
  <2>2. device' \in [Mounts -> Condition] /\ troubled' \subseteq Mounts
    BY <2>1 DEF TypeOK
  <2>3. outage' \in [Mounts -> 0 .. 2]
    BY <2>1 DEF TypeOK
  <2>4. QED BY <2>1, <2>2, <2>3 DEF TypeOK, probe, records
<1>2. CASE TimePasses
  <2>1. sinceTick' \in Ages
    BY <1>2, OlderType DEF TimePasses, TypeOK
  <2>2. took' \in Ages
    BY <1>2, ThresholdsAssumption DEF TimePasses, TypeOK, Ages
  <2>3. QED BY <1>2, <2>1, <2>2 DEF TimePasses, TypeOK, records, history
<1>3. CASE BeginScan
  <2>1. sinceGood' \in [Mounts -> Ages \cup {Never}]
    BY <1>3, OlderType DEF BeginScan, TypeOK
  <2>2. sinceTick' \in Ages /\ turn' \in DOMAIN MountList
    BY <1>3, ThresholdsAssumption, ListedMounts DEF BeginScan, Ages
  <2>3. Len(results') = turn' - 1
    BY <1>3 DEF BeginScan, TypeOK
  <2>4. QED BY <1>3, <2>1, <2>2, <2>3 DEF BeginScan, TypeOK, Steps
<1>4. CASE DiskUsage
  <2>1. Mount \in Mounts
    BY MountTurns DEF TypeOK
  <2>2. outage' \in [Mounts -> 0 .. 2]
    BY <1>4, <2>1 DEF DiskUsage, TypeOK, UpToTwo
  <2>3. free' \in 0 .. 100
    <3>1. FreeLevels[Mount] \subseteq 0 .. 100
      BY <2>1, DevicesAssumption
    <3>2. QED BY <1>4, <3>1 DEF DiskUsage
  <2>4. caught' \in BOOLEAN /\ at' \in Steps \ {"idle"} /\ at = "stat"
    BY <1>4 DEF DiskUsage, TypeOK, Steps
  <2>5. QED BY <1>4, <2>2, <2>3, <2>4 DEF DiskUsage, TypeOK, records, Steps
<1>5. CASE Call
  BY <1>5, CallSteps DEF TypeOK, scan, records, history
<1>6. CASE CloseRaises
  <2>1. 0 \in Ages
    BY ThresholdsAssumption DEF Ages
  <2>2. results' \in Seq(States) /\ Len(results') = 0
    BY <1>6, NoResults DEF CloseRaises
  <2>3. caught' \in BOOLEAN /\ buffered' \in BOOLEAN
    BY <1>6, Zenon DEF CloseRaises
  <2>4. free' = 0
    BY <1>6 DEF CloseRaises
  <2>5. /\ at' = "idle" /\ took' \in Ages
        /\ UNCHANGED <<device, sinceTick, turn, path, sinceGood, failures, published,
                       sent, outage, troubled>>
    BY <1>6, <2>1 DEF CloseRaises, history
  <2>6. QED BY <2>2, <2>3, <2>4, <2>5 DEF TypeOK, Steps
<1>7. CASE EvaluateMount
  <2>1. Judge /\ at = "evaluate" /\ turn < Len(MountList) /\ at' = "stat" /\ turn' = turn + 1
        /\ results' = Append(results, Verdict) /\ UNCHANGED <<published, sent>>
    BY <1>7 DEF EvaluateMount, ToNextMount, Judge
  <2>2. turn' \in DOMAIN MountList
    BY <2>1, ListedMounts DEF TypeOK
  <2>3. results' \in Seq(States) /\ Len(results') = turn' - 1
    BY <2>1, VerdictType, ListedMounts DEF TypeOK
  <2>4. QED BY <2>1, <2>2, <2>3, JudgeType DEF TypeOK, Steps
<1>8. CASE EvaluateLast
  <2>1. Judge /\ at = "evaluate" /\ turn = Len(MountList) /\ at' = "idle" /\ turn' = turn
        /\ results' = << >> /\ sent' = MountList
    BY <1>8 DEF EvaluateLast, Judge
  <2> DEFINE all == Append(results, Verdict)
             Place(m) == CHOOSE n \in DOMAIN MountList : MountList[n] = m
  <2>2. all \in Seq(States) /\ Len(all) = Len(MountList)
    BY <2>1, VerdictType, ListedMounts DEF TypeOK
  <2>3. \A m \in Mounts : Place(m) \in 1 .. Len(MountList)
    BY ListedMounts DEF Mounts
  <2>4. \A m \in Mounts : all[Place(m)] \in States
    BY <2>2, <2>3
  <2>5. published' \in [Mounts -> States \cup {"none"}]
    BY <1>8, <2>4 DEF EvaluateLast
  <2>6. results' \in Seq(States) /\ Len(results') = 0
    BY <2>1, NoResults
  <2>7. sent' \in {<< >>, MountList} /\ at' = "idle" /\ turn' = turn /\ Judge
    BY <2>1
  <2>8. QED BY <2>5, <2>6, <2>7, JudgeType DEF TypeOK, Steps
<1>9. CASE UNCHANGED vars
  BY <1>9 DEF TypeOK, vars, probe, records, history
<1>10. QED BY <1>1, <1>2, <1>3, <1>4, <1>5, <1>6, <1>7, <1>8, <1>9 DEF Next, ProbeStep, Call

(* Everything the storage check keeps has its type at every step, and there *)
(* is one verdict for each mount already judged in the scan under way.      *)
THEOREM StorageTypes == Spec => []TypeOK
<1>1. QED BY TypeInit, TypeNext, PTL DEF Spec

-----------------------------------------------------------------------------
(* What a device does, and what follows for the mounts                      *)

LEMMA DeviceSteps ==
  ASSUME TypeOK, DeviceChanges
  PROVE  /\ UNCHANGED <<sinceTick, at, turn, probe, records, published, sent>>
         /\ \A m \in Mounts : device'[m] = device[m] \/ m \in troubled'
         /\ \A m \in Mounts : outage'[m] \in {0, outage[m]}
         /\ \A m \in Mounts : outage'[m] > 0 => device'[m] = device[m] \/ Outage(device'[m])
         /\ troubled \subseteq troubled'
<1>1. PICK m \in Mounts, c \in Condition :
        /\ device' = [device EXCEPT ![m] = c]
        /\ outage' = IF Outage(c) THEN outage ELSE [outage EXCEPT ![m] = 0]
        /\ troubled' = troubled \cup {m}
        /\ UNCHANGED <<sinceTick, at, turn, probe, records, published, sent>>
  BY DevicesAssumption DEF DeviceChanges
<1>2. QED BY <1>1 DEF TypeOK

LEMMA VerdictsAppended ==
  ASSUME TypeOK, at = "evaluate"
  PROVE  /\ Len(Append(results, Verdict)) = turn
         /\ turn \in 1 .. Len(MountList)
         /\ Append(results, Verdict)[turn] = Verdict
         /\ \A k \in 1 .. turn - 1 : Append(results, Verdict)[k] = results[k]
         /\ Len(results) = turn - 1
<1>1. results \in Seq(States) /\ Len(results) = turn - 1 /\ turn \in 1 .. Len(MountList)
  BY ListedMounts DEF TypeOK
<1>2. QED BY <1>1, VerdictType

(* The last verdicts are published under their mounts.                      *)
LEMMA PublishedInPlace ==
  ASSUME TypeOK, EvaluateLast, NEW m \in Mounts
  PROVE  \E k \in 1 .. turn : m = MountList[k] /\ published'[m] = Append(results, Verdict)[k]
<1> DEFINE k == CHOOSE n \in DOMAIN MountList : MountList[n] = m
<1>1. k \in DOMAIN MountList /\ MountList[k] = m
  BY DEF Mounts
<1>2. published'[m] = Append(results, Verdict)[k]
  BY DEF EvaluateLast
<1>3. k \in 1 .. turn
  BY <1>1, ListedMounts DEF EvaluateLast
<1>4. QED BY <1>1, <1>2, <1>3

-----------------------------------------------------------------------------
(* Two probes of an outage make a fault                                     *)

LEMMA OutageJudged ==
  ASSUME TypeOK, OutageInv, Judge
  PROVE  /\ \A m \in Mounts : outage[m] <= failures'[m]
         /\ outage[Mount] = 2 => Verdict = "FAULT"
<1>1. Mount \in Mounts /\ at = "evaluate"
  BY MountTurns DEF TypeOK, Judge
<1>2. InProbe
  BY <1>1 DEF InProbe
<1>3. outage[Mount] > 0 => caught
  BY <1>1, <1>2 DEF OutageInv
<1>4. outage[Mount] <= failures[Mount] + 1 /\ outage[Mount] \in 0 .. 2 /\ failures[Mount] \in 0 .. 2
  BY <1>1, <1>2 DEF OutageInv, TypeOK
<1>5. failures'[Mount] = IF caught THEN UpToTwo(failures[Mount] + 1) ELSE 0
  BY <1>1 DEF Judge, FailuresNow, TypeOK
<1>6. outage[Mount] <= failures'[Mount]
  BY <1>3, <1>4, <1>5 DEF UpToTwo
<1>7. ASSUME NEW m \in Mounts, m # Mount PROVE outage[m] <= failures'[m]
  <2>1. failures'[m] = failures[m]
    BY <1>7 DEF Judge, TypeOK
  <2>2. outage[m] <= failures[m] + 0 /\ failures[m] \in 0 .. 2
    BY <1>7 DEF OutageInv, TypeOK
  <2>3. QED BY <2>1, <2>2
<1>8. outage[Mount] = 2 => Verdict = "FAULT"
  BY <1>3, <1>4, <1>5 DEF Verdict, UpToTwo
<1>9. QED BY <1>6, <1>7, <1>8

LEMMA OutageNext == TypeOK /\ OutageInv /\ [Next]_vars => OutageInv'
<1> SUFFICES ASSUME TypeOK, OutageInv, [Next]_vars PROVE OutageInv'
  OBVIOUS
<1>0. Mount \in Mounts /\ turn \in 1 .. Len(MountList)
      /\ \A k \in 1 .. Len(MountList) : k # turn => MountList[k] # Mount
  BY MountTurns DEF TypeOK
<1>00. /\ \A m \in Mounts : outage[m] \in 0 .. 2 /\ failures[m] \in 0 .. 2
       /\ Len(results) \in Nat /\ Len(results) = IF at = "idle" THEN 0 ELSE turn - 1
       /\ \A k \in 1 .. Len(results) : k \in 1 .. Len(MountList) /\ k < turn /\ MountList[k] \in Mounts
  BY <1>0, ListedMounts DEF TypeOK
<1>1. CASE DeviceChanges
  <2>1. /\ UNCHANGED <<at, turn, caught, failures, results, published, sent>>
        /\ \A m \in Mounts : outage'[m] \in {0, outage[m]}
        /\ \A m \in Mounts : outage'[m] > 0 => device'[m] = device[m] \/ Outage(device'[m])
    BY <1>1, DeviceSteps DEF probe, records
  <2>2. Mount' = Mount /\ InProbe' = InProbe
    BY <2>1 DEF Mount, InProbe
  <2>3. \A m \in Mounts : outage'[m] > 0 => Outage(device'[m])
    BY <2>1 DEF OutageInv
  <2>4. InProbe' /\ outage'[Mount'] > 0 => at' = "mkstemp" \/ (at' = "evaluate" /\ caught')
    BY <1>0, <2>1, <2>2 DEF OutageInv
  <2>5. \A m \in Mounts :
          outage'[m] <= failures'[m] + (IF InProbe' /\ m = Mount' THEN 1 ELSE 0)
    BY <1>00, <2>1, <2>2 DEF OutageInv
  <2>6. \A k \in 1 .. Len(results') : outage'[MountList[k]] = 2 => results'[k] = "FAULT"
    BY <1>00, <2>1 DEF OutageInv
  <2>7. OutageIsFault' /\ (at' # "idle" => sent' = << >>)
    BY <2>1 DEF OutageInv, OutageIsFault
  <2>8. QED BY <2>3, <2>4, <2>5, <2>6, <2>7 DEF OutageInv
<1>2. CASE TimePasses \/ UNCHANGED vars
  BY <1>2 DEF TimePasses, vars, probe, records, history, OutageInv, OutageIsFault, InProbe, Mount
<1>3. CASE BeginScan
  <2>1. UNCHANGED <<device, outage, failures, results>> /\ at = "idle" /\ at' = "stat" /\ sent' = << >>
    BY <1>3 DEF BeginScan
  <2>2. ~InProbe /\ ~InProbe'
    BY <2>1 DEF InProbe
  <2>3. QED BY <1>00, <2>1, <2>2 DEF OutageInv, OutageIsFault
<1>4. CASE DiskUsage
  <2>1. /\ at = "stat" /\ UNCHANGED <<device, turn, failures, results, sent>>
        /\ outage' = [outage EXCEPT ![Mount] = IF Outage(device[Mount]) THEN UpToTwo(@ + 1) ELSE 0]
    BY <1>4 DEF DiskUsage, records
  <2>2. Mount' = Mount /\ InProbe' /\ at' # "idle" /\ ~InProbe
    BY <1>4, <2>1 DEF Mount, InProbe, DiskUsage
  <2>3. /\ outage'[Mount] = IF Outage(device[Mount]) THEN UpToTwo(outage[Mount] + 1) ELSE 0
        /\ \A m \in Mounts : m # Mount => outage'[m] = outage[m]
    BY <1>0, <2>1 DEF TypeOK
  <2>4. \A m \in Mounts : outage'[m] > 0 => Outage(device'[m])
    BY <2>1, <2>3 DEF OutageInv
  <2>5. outage'[Mount] > 0 => at' = "mkstemp" \/ (at' = "evaluate" /\ caught')
    BY <1>4, <2>3 DEF DiskUsage
  <2>6. \A m \in Mounts : outage'[m] <= failures'[m] + (IF m = Mount THEN 1 ELSE 0)
    <3>1. outage[Mount] <= failures[Mount]
      BY <1>0, <1>00, <2>2 DEF OutageInv
    <3>2. outage'[Mount] <= failures[Mount] + 1
      BY <1>0, <1>00, <2>3, <3>1 DEF UpToTwo
    <3>3. \A m \in Mounts : m # Mount => outage'[m] <= failures[m] + 0
      BY <2>2, <2>3 DEF OutageInv
    <3>4. QED BY <2>1, <3>2, <3>3
  <2>7. \A k \in 1 .. Len(results') : outage'[MountList[k]] = 2 => results'[k] = "FAULT"
    BY <1>0, <1>00, <2>1, <2>3 DEF OutageInv
  <2>8. sent' = << >>
    BY <2>1 DEF OutageInv
  <2>9. QED BY <2>2, <2>4, <2>5, <2>6, <2>7, <2>8 DEF OutageInv, OutageIsFault
<1>5. CASE Call
  <2>1. UNCHANGED <<device, turn, failures, results, outage, sent>>
        /\ at \notin {"idle", "stat", "evaluate"} /\ at' \notin {"idle", "stat", "mkstemp"}
    BY <1>5, CallSteps DEF scan, records, history
  <2>2. Mount' = Mount /\ InProbe' /\ InProbe
    BY <2>1 DEF Mount, InProbe
  <2>3. outage[Mount] > 0 => at' = "evaluate" /\ caught'
    <3>1. SUFFICES ASSUME outage[Mount] > 0 PROVE at' = "evaluate" /\ caught'
      OBVIOUS
    <3>2. at = "mkstemp" /\ Outage(device[Mount])
      BY <1>0, <2>1, <2>2, <3>1 DEF OutageInv
    <3>3. Mkstemp
      BY <1>5, <3>2 DEF Call, Write, Flush, Fsync, Close, Unlink
    <3>4. QED BY <3>2, <3>3, NoFileInAnOutage DEF Mkstemp, Try
  <2>4. QED BY <2>1, <2>2, <2>3 DEF OutageInv, OutageIsFault
<1>6. CASE CloseRaises
  <2>1. /\ at = "close" /\ at' = "idle" /\ results' = << >> /\ sent = << >>
        /\ UNCHANGED <<device, turn, failures, outage, sent>>
    BY <1>6 DEF CloseRaises, history, OutageInv
  <2>2. Mount' = Mount /\ InProbe /\ ~InProbe'
    BY <2>1 DEF Mount, InProbe
  <2>3. ~(outage[Mount] > 0)
    BY <2>1, <2>2 DEF OutageInv
  <2>4. \A m \in Mounts : outage[m] <= failures[m] + 0
    BY <1>0, <1>00, <2>2, <2>3 DEF OutageInv
  <2>5. Len(results') = 0
    BY <2>1
  <2>6. \A k \in 1 .. Len(results') : outage'[MountList[k]] = 2 => results'[k] = "FAULT"
    BY <2>5
  <2>7. QED BY <2>1, <2>2, <2>4, <2>6 DEF OutageInv, OutageIsFault
<1>7. CASE EvaluateMount
  <2>1. /\ Judge /\ at = "evaluate" /\ at' = "stat" /\ UNCHANGED <<device, outage, sent>>
        /\ results' = Append(results, Verdict)
    BY <1>7 DEF EvaluateMount, Judge, ToNextMount
  <2>2. ~InProbe'
    BY <2>1 DEF InProbe
  <2>3. \A k \in 1 .. Len(results') : outage'[MountList[k]] = 2 => results'[k] = "FAULT"
    BY <1>00, <2>1, VerdictsAppended, OutageJudged DEF OutageInv, Mount
  <2>4. \A m \in Mounts : outage'[m] <= failures'[m] + 0
    BY <1>00, <2>1, OutageJudged, JudgeType
  <2>5. QED BY <2>1, <2>2, <2>3, <2>4 DEF OutageInv, OutageIsFault
<1>8. CASE EvaluateLast
  <2>1. Judge /\ at = "evaluate" /\ at' = "idle" /\ results' = << >> /\ UNCHANGED <<device, outage>>
    BY <1>8 DEF EvaluateLast, Judge
  <2>2. ~InProbe'
    BY <2>1 DEF InProbe
  <2>3. \A m \in Mounts : outage[m] = 2 => published'[m] = "FAULT"
    <3>1. SUFFICES ASSUME NEW m \in Mounts, outage[m] = 2 PROVE published'[m] = "FAULT"
      OBVIOUS
    <3>2. PICK k \in 1 .. turn :
            m = MountList[k] /\ published'[m] = Append(results, Verdict)[k]
      BY <1>8, PublishedInPlace
    <3>3. CASE k = turn
      BY <2>1, <3>1, <3>2, <3>3, VerdictsAppended, OutageJudged DEF Mount
    <3>4. CASE k # turn
      <4>1. k \in 1 .. Len(results) /\ published'[m] = results[k]
        BY <1>0, <2>1, <3>2, <3>4, VerdictsAppended
      <4>2. QED BY <3>1, <3>2, <4>1 DEF OutageInv
    <3>5. QED BY <3>3, <3>4
  <2>4. \A m \in Mounts : outage'[m] <= failures'[m] + 0
    BY <1>00, <2>1, OutageJudged, JudgeType
  <2>5. Len(results') = 0
    BY <2>1
  <2>6. \A k \in 1 .. Len(results') : outage'[MountList[k]] = 2 => results'[k] = "FAULT"
    BY <2>5
  <2>7. QED BY <2>1, <2>2, <2>3, <2>4, <2>6 DEF OutageInv, OutageIsFault
<1>9. QED BY <1>1, <1>2, <1>3, <1>4, <1>5, <1>6, <1>7, <1>8 DEF Next, ProbeStep, Call

(* Whatever the devices do and whichever scans raise, the second scan that  *)
(* finds a mount missing or read-only in one outage publishes a fault.      *)
THEOREM OutageIsFaultHolds == Spec => []OutageIsFault
<1>1. Init => OutageInv
  <2> SUFFICES ASSUME Init PROVE OutageInv
    OBVIOUS
  <2>1. Len(results) = 0 /\ at = "idle" /\ sent = << >>
    BY DEF Init
  <2>2. \A m \in Mounts : outage[m] = 0 /\ failures[m] = 0
    BY DEF Init
  <2>3. QED BY <2>1, <2>2 DEF OutageInv, OutageIsFault, InProbe
<1>2. OutageInv => OutageIsFault
  BY DEF OutageInv
<1>3. QED BY <1>1, <1>2, StorageTypes, OutageNext, PTL DEF Spec

-----------------------------------------------------------------------------
(* No file is left on a good device, and no scan is lost on one             *)

LEMMA GoodUnlessTroubled ==
  ASSUME TypeOK, \A m \in Mounts : device[m] = "good" \/ m \in troubled, [Next]_vars
  PROVE  \A m \in Mounts : device'[m] = "good" \/ m \in troubled'
<1>1. CASE DeviceChanges
  BY <1>1, DeviceSteps
<1>2. CASE DiskUsage
  BY <1>2 DEF DiskUsage
<1>3. CASE Call
  BY <1>3, CallSteps DEF scan, history
<1>4. CASE EvaluateMount \/ EvaluateLast
  BY <1>4 DEF EvaluateMount, EvaluateLast, Judge
<1>5. CASE TimePasses \/ BeginScan \/ CloseRaises \/ UNCHANGED vars
  BY <1>5 DEF TimePasses, BeginScan, CloseRaises, vars, history
<1>6. QED BY <1>1, <1>2, <1>3, <1>4, <1>5 DEF Next, ProbeStep, Call

LEMMA FileNext == TypeOK /\ FileInv /\ [Next]_vars => FileInv'
<1> SUFFICES ASSUME TypeOK, FileInv, [Next]_vars PROVE FileInv'
  OBVIOUS
<1>0. Mount \in Mounts
  BY MountTurns DEF TypeOK
<1>00. \A m \in Mounts : device'[m] = "good" \/ m \in troubled'
  BY GoodUnlessTroubled DEF FileInv
<1>1. CASE DeviceChanges
  <2>1. UNCHANGED <<at, turn, path>> /\ troubled \subseteq troubled'
    BY <1>1, DeviceSteps DEF probe
  <2>2. QED BY <1>00, <2>1 DEF FileInv, ProbeFileRemoved, Mount
<1>2. CASE TimePasses \/ UNCHANGED vars
  BY <1>2 DEF TimePasses, vars, probe, history, FileInv, ProbeFileRemoved, Mount
<1>3. CASE BeginScan \/ EvaluateMount \/ EvaluateLast
  <2>1. ~path' /\ at' \in {"idle", "stat"}
    BY <1>3 DEF BeginScan, EvaluateMount, EvaluateLast, ToNextMount, Judge
  <2>2. QED BY <1>00, <2>1 DEF FileInv, ProbeFileRemoved
<1>4. CASE DiskUsage
  <2>1. ~path' /\ at' \in {"mkstemp", "evaluate"}
    BY <1>4 DEF DiskUsage, FileInv
  <2>2. QED BY <1>00, <2>1 DEF FileInv, ProbeFileRemoved
<1>5. CASE Mkstemp
  <2>1. \/ at' = "write" /\ path'
        \/ at' = "evaluate" /\ ~path'
    BY <1>5 DEF Mkstemp, Try
  <2>2. QED BY <1>00, <2>1 DEF FileInv, ProbeFileRemoved
<1>6. CASE Write \/ Flush \/ Fsync \/ Close
  <2>1. at' \in {"flush", "fsync", "close", "unlink"} /\ path' = path /\ path
    BY <1>6 DEF Write, Flush, Fsync, Close, Try, AfterClose, FileInv
  <2>2. QED BY <1>00, <2>1 DEF FileInv, ProbeFileRemoved
<1>7. CASE Unlink
  <2>1. at' = "evaluate" /\ Mount' = Mount /\ UNCHANGED troubled
    BY <1>7 DEF Unlink, scan, history, Mount
  <2>2. path' => device[Mount] # "good"
    BY <1>7, OnlyTheUnwellRaise DEF Unlink
  <2>3. path' => Mount \in troubled
    BY <1>0, <2>2 DEF FileInv
  <2>4. QED BY <1>00, <2>1, <2>3 DEF FileInv, ProbeFileRemoved
<1>8. CASE CloseRaises
  <2>1. at' = "idle" /\ Mount' = Mount /\ UNCHANGED troubled
    BY <1>8 DEF CloseRaises, history, Mount
  <2>2. device[Mount] # "good"
    BY <1>8, OnlyTheUnwellRaise DEF CloseRaises
  <2>3. Mount \in troubled
    BY <1>0, <2>2 DEF FileInv
  <2>4. QED BY <1>00, <2>1, <2>3 DEF FileInv, ProbeFileRemoved
<1>9. QED BY <1>1, <1>2, <1>3, <1>4, <1>5, <1>6, <1>7, <1>8 DEF Next, ProbeStep

LEMMA FileInit == Init => FileInv
BY DEF Init, FileInv, ProbeFileRemoved

LEMMA FilesKept == Spec => []FileInv
<1>1. QED BY FileInit, StorageTypes, FileNext, PTL DEF Spec

(* A probe file outlives its probe only on a device that failed under it.   *)
THEOREM ProbeFileRemovedHolds == Spec => []ProbeFileRemoved
<1>1. FileInv => ProbeFileRemoved
  BY DEF FileInv
<1>2. QED BY <1>1, FilesKept, PTL

(* Whatever the devices do, a scan that ends has published a result for     *)
(* every mount, unless close() raised on a device that failed and on which  *)
(* the probe file is left.                                                  *)
THEOREM ScanReportsHolds == Spec => ScanReports
<1> DEFINE Reports == at # "idle" /\ at' = "idle"
                        => sent' = MountList \/ (path' /\ Mount \in troubled)
<1>1. TypeOK /\ FileInv /\ [Next]_vars => [Reports]_vars
  <2> SUFFICES ASSUME TypeOK, FileInv, [Next]_vars, at # "idle", at' = "idle"
               PROVE  sent' = MountList \/ (path' /\ Mount \in troubled)
    OBVIOUS
  <2>1. CASE EvaluateLast
    BY <2>1 DEF EvaluateLast
  <2>2. CASE CloseRaises
    <3>1. path' = path /\ at = "close"
      BY <2>2 DEF CloseRaises
    <3>2. device[Mount] # "good"
      BY <2>2, OnlyTheUnwellRaise DEF CloseRaises
    <3>3. Mount \in Mounts
      BY MountTurns DEF TypeOK
    <3>4. QED BY <3>1, <3>2, <3>3 DEF FileInv
  <2>3. CASE Call
    BY <2>3, CallSteps
  <2>4. CASE DeviceChanges
    BY <2>4, DeviceSteps
  <2>5. CASE TimePasses \/ UNCHANGED vars
    BY <2>5 DEF TimePasses, vars
  <2>6. CASE BeginScan \/ DiskUsage \/ EvaluateMount
    BY <2>6 DEF BeginScan, DiskUsage, EvaluateMount, ToNextMount
  <2>7. QED BY <2>1, <2>2, <2>3, <2>4, <2>5, <2>6 DEF Next, ProbeStep, Call
<1>2. QED BY <1>1, StorageTypes, FilesKept, PTL DEF Spec, ScanReports
=============================================================================

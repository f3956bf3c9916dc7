---------------------------- MODULE MemoryProofs ----------------------------
(***************************************************************************)
(* Proofs about the memory sweep, for every region, page size, slice and   *)
(* threshold: types, coverage of a pass, accounting of ECC events and the  *)
(* verdict of a pass over damaged memory.                                  *)
(***************************************************************************)
EXTENDS MemoryIntegrity, TLAPS

USE RegionAssumption, SliceAssumption, ThresholdsAssumption, NoneAssumption

(* The page at the cursor: not empty, and within the region.                *)
LEMMA PageFits ==
  ASSUME cursor \in 0 .. RegionBytes, cursor < RegionBytes
  PROVE  /\ PageLength \in Nat \ {0}
         /\ cursor + PageLength \in 0 .. RegionBytes
         /\ Page \subseteq Bytes
         /\ (0 .. cursor - 1) \cup Page = 0 .. cursor + PageLength - 1
BY DEF PageLength, Page, Bytes

(* Events since the baseline, when the counters only grew.                  *)
LEMMA DeltaType ==
  ASSUME NEW k \in Kinds, ecc \in Counters, baseline \in Counters
  PROVE  /\ Delta(k) \in Nat
         /\ baseline[k] <= ecc[k] => baseline[k] + Delta(k) = ecc[k]
BY DEF Delta, AtLeastZero, Counters

LEMMA TypeInit == Init => TypeOK
BY DEF Init, TypeOK, Counters

LEMMA TypeNext == TypeOK /\ [Next]_vars => TypeOK'
<1> SUFFICES ASSUME TypeOK, [Next]_vars PROVE TypeOK'
  OBVIOUS
<1>1. CASE Damage
  BY <1>1 DEF Damage, TypeOK, pass, history
<1>2. CASE EccEvent
  <2>1. ecc' \in Counters
    BY <1>2 DEF EccEvent, TypeOK, Counters
  <2>2. QED BY <1>2, <2>1 DEF EccEvent, TypeOK, pass, history
<1>3. CASE SlotFallsDue
  BY <1>3 DEF SlotFallsDue, TypeOK, platform, pass, history
<1>4. CASE BeginSlice
  BY <1>4 DEF BeginSlice, TypeOK, platform
<1>5. CASE ScanPage
  <2>1. PageLength \in Nat \ {0} /\ cursor + PageLength \in 0 .. RegionBytes /\ Page \subseteq Bytes
    BY <1>5, PageFits DEF ScanPage, MayScan, TypeOK
  <2>2. mismatches' \in Nat /\ scanned' \in 0 .. PagesPerSlice /\ bytesRead' \in Nat /\ pages' \in Nat
    BY <1>5, <2>1 DEF ScanPage, MayScan, TypeOK
  <2>3. cursor' \in 0 .. RegionBytes /\ covered' \subseteq Bytes
    BY <1>5, <2>1 DEF ScanPage, TypeOK
  <2>4. QED BY <1>5, <2>2, <2>3 DEF ScanPage, TypeOK, platform
<1>6. CASE SliceEnds
  BY <1>6 DEF SliceEnds, TypeOK, platform, pass, history
<1>7. CASE SourceRaises
  <2>1. raises' \in Nat
    BY <1>7 DEF SourceRaises, TypeOK
  <2>2. at' = "idle" /\ due' = FALSE
        /\ UNCHANGED <<platform, scanned, pass, passIndex, verdict,
                       covered, bytesRead, damagedBefore, first, reported>>
    BY <1>7 DEF SourceRaises
  <2>3. QED BY <2>1, <2>2 DEF TypeOK, platform, pass
<1>8. CASE Summarise
  <2>1. ecc \in Counters /\ baseline \in Counters
    BY <1>8 DEF Summarise, NextPass, TypeOK
  <2>2. reported' \in Counters
    BY <1>8, <2>1, DeltaType DEF Summarise, NextPass, TypeOK, Counters
  <2>3. verdict' \in {"OK", "DEGRADED", "FAULT"}
    BY <1>8 DEF Summarise, NextPass, PassVerdict
  <2>4. QED BY <1>8, <2>2, <2>3 DEF Summarise, NextPass, TypeOK, platform
<1>9. CASE UNCHANGED vars
  BY <1>9 DEF TypeOK, vars, platform, pass, history
<1>10. QED BY <1>1, <1>2, <1>3, <1>4, <1>5, <1>6, <1>7, <1>8, <1>9 DEF Next, SliceStep

(* Type correctness; the cursor never leaves the region and a slice never   *)
(* scans more than pages_per_slice pages.                                   *)
THEOREM MemoryTypeCorrect == Spec => []TypeOK
<1>1. QED BY TypeInit, TypeNext, PTL DEF Spec

-----------------------------------------------------------------------------
(* What has been read is what lies before the cursor, and a damaged byte    *)
(* before the cursor has been counted.                                      *)

Read == 0 .. cursor - 1

CoverageInv ==
  /\ covered = Read
  /\ bytesRead = cursor
  /\ at = "summary" => cursor = RegionBytes

DamageInv ==
  /\ damagedBefore \subseteq damaged
  /\ damagedBefore \cap Read # {} => mismatches > 0

(* Before the first slice nothing has been reported.                        *)
EccInv ==
  /\ EccAccountedOnce
  /\ baseline = None => \A k \in Kinds : reported[k] = 0

SweepInv == CoverageInv /\ DamageInv /\ EccInv

LEMMA SweepInvInit == Init => SweepInv
BY DEF Init, SweepInv, CoverageInv, DamageInv, EccInv, EccAccountedOnce, Read

LEMMA SweepInvScan == TypeOK /\ SweepInv /\ ScanPage => SweepInv'
<1> SUFFICES ASSUME TypeOK, SweepInv, ScanPage PROVE SweepInv'
  OBVIOUS
<1>1. /\ PageLength \in Nat \ {0}
      /\ cursor' = cursor + PageLength
      /\ Read' = Read \cup Page
  BY PageFits DEF ScanPage, MayScan, TypeOK, Read
<1>2. CoverageInv'
  BY <1>1 DEF ScanPage, SweepInv, CoverageInv, TypeOK
<1>3. DamageInv'
  <2>1. damagedBefore' = damagedBefore /\ damaged' = damaged
    BY DEF ScanPage, platform
  <2>2. mismatches \in Nat /\ mismatches' \in {mismatches, mismatches + 1}
    BY DEF ScanPage, TypeOK
  <2>3. CASE damagedBefore \cap Read # {}
    BY <2>1, <2>2, <2>3 DEF SweepInv, DamageInv
  <2>4. CASE damagedBefore \cap Page # {}
    <3>1. Page \cap damaged # {}
      BY <2>4 DEF SweepInv, DamageInv
    <3>2. mismatches' = mismatches + 1
      BY <3>1 DEF ScanPage
    <3>3. QED BY <2>1, <2>2, <3>2 DEF SweepInv, DamageInv
  <2>5. QED BY <1>1, <2>1, <2>3, <2>4 DEF SweepInv, DamageInv
<1>4. EccInv'
  BY DEF ScanPage, SweepInv, EccInv, EccAccountedOnce, platform
<1>5. QED BY <1>2, <1>3, <1>4 DEF SweepInv

LEMMA SweepInvSummarise == TypeOK /\ SweepInv /\ Summarise => SweepInv'
<1> SUFFICES ASSUME TypeOK, SweepInv, Summarise PROVE SweepInv'
  OBVIOUS
<1>1. CoverageInv' /\ DamageInv'
  BY DEF Summarise, NextPass, CoverageInv, DamageInv, Read, platform
<1>2. EccInv'
  <2>1. /\ ecc \in Counters /\ baseline \in Counters /\ first \in Counters /\ reported \in Counters
        /\ \A k \in Kinds : first[k] + reported[k] = baseline[k] /\ baseline[k] <= ecc[k]
    BY DEF Summarise, NextPass, TypeOK, SweepInv, EccInv, EccAccountedOnce
  <2>2. /\ baseline' = ecc /\ ecc' = ecc /\ first' = first
        /\ reported' = [k \in Kinds |-> reported[k] + Delta(k)]
    BY DEF Summarise, NextPass, platform
  <2>3. ASSUME NEW k \in Kinds
        PROVE  first'[k] + reported'[k] = baseline'[k] /\ baseline'[k] <= ecc'[k]
    <3>1. Delta(k) \in Nat /\ baseline[k] + Delta(k) = ecc[k]
      BY <2>1, DeltaType
    <3>2. first[k] \in Nat /\ reported[k] \in Nat /\ baseline[k] \in Nat /\ ecc[k] \in Nat
      BY <2>1 DEF Counters
    <3>3. QED BY <2>1, <2>2, <3>1, <3>2
  <2>4. baseline' # None
    BY <2>1, <2>2
  <2>5. QED BY <2>3, <2>4 DEF EccInv, EccAccountedOnce
<1>3. QED BY <1>1, <1>2 DEF SweepInv

LEMMA SweepInvNext == TypeOK /\ SweepInv /\ [Next]_vars => SweepInv'
<1> SUFFICES ASSUME TypeOK, SweepInv, [Next]_vars PROVE SweepInv'
  OBVIOUS
<1>1. CASE Damage
  BY <1>1 DEF Damage, SweepInv, CoverageInv, DamageInv, EccInv, EccAccountedOnce, Read, pass, history
<1>2. CASE EccEvent
  <2>1. CoverageInv' /\ DamageInv'
    BY <1>2 DEF EccEvent, SweepInv, CoverageInv, DamageInv, Read, pass, history
  <2>2. \A k \in Kinds : ecc[k] <= ecc'[k] /\ ecc[k] \in Nat /\ ecc'[k] \in Nat
    BY <1>2 DEF EccEvent, TypeOK, Counters
  <2>3. UNCHANGED <<baseline, first, reported>>
    BY <1>2 DEF EccEvent, pass, history
  <2>4. baseline # None => \A k \in Kinds : baseline[k] \in Nat
    BY DEF TypeOK, Counters
  <2>5. EccInv'
    BY <2>2, <2>3, <2>4 DEF SweepInv, EccInv, EccAccountedOnce
  <2>6. QED BY <2>1, <2>5 DEF SweepInv
<1>3. CASE BeginSlice
  <2>1. CoverageInv' /\ DamageInv'
    BY <1>3 DEF BeginSlice, SweepInv, CoverageInv, DamageInv, Read, platform
  <2>2. EccInv'
    BY <1>3 DEF BeginSlice, SweepInv, EccInv, EccAccountedOnce, TypeOK, Counters, platform
  <2>3. QED BY <2>1, <2>2 DEF SweepInv
<1>4. CASE SlotFallsDue \/ SliceEnds \/ SourceRaises \/ UNCHANGED vars
  <2>1. UNCHANGED <<damaged, ecc, cursor, mismatches, baseline, covered, bytesRead,
                    damagedBefore, first, reported>>
    BY <1>4 DEF SlotFallsDue, SliceEnds, SourceRaises, vars, platform, pass, history
  <2>2. at' = "summary" => cursor = RegionBytes
    BY <1>4 DEF SlotFallsDue, SliceEnds, SourceRaises, vars, SweepInv, CoverageInv, TypeOK
  <2>3. QED BY <2>1, <2>2 DEF SweepInv, CoverageInv, DamageInv, EccInv, EccAccountedOnce, Read
<1>5. QED BY <1>1, <1>2, <1>3, <1>4, SweepInvScan, SweepInvSummarise DEF Next, SliceStep

LEMMA SweepInvHolds == Spec => []SweepInv
<1>1. QED BY SweepInvInit, SweepInvNext, MemoryTypeCorrect, PTL DEF Spec

(* A summarised pass has read every byte of the region exactly once, for    *)
(* every region, page and slice size, cut and exception.                    *)
THEOREM PassCoversRegionHolds == Spec => []PassCoversRegion
<1>1. SweepInv => PassCoversRegion
  BY DEF SweepInv, CoverageInv, PassCoversRegion, Read, Bytes
<1>2. QED BY <1>1, SweepInvHolds, PTL

(* ECC events are neither lost between two passes nor reported twice.       *)
THEOREM EccAccountedOnceHolds == Spec => []EccAccountedOnce
<1>1. SweepInv => EccAccountedOnce
  BY DEF SweepInv, EccInv
<1>2. QED BY <1>1, SweepInvHolds, PTL

(* Damage present when a pass begins makes its verdict FAULT.               *)
THEOREM DamageReportedHolds == Spec => DamageReported
<1>1. TypeOK /\ SweepInv /\ [Next]_vars =>
        [passIndex' # passIndex /\ damagedBefore # {} => verdict' = "FAULT"]_vars
  <2> SUFFICES ASSUME TypeOK, SweepInv, Next, passIndex' # passIndex, damagedBefore # {}
               PROVE  verdict' = "FAULT"
    OBVIOUS
  <2>1. Summarise
    BY DEF Next, SliceStep, Damage, EccEvent, SlotFallsDue, BeginSlice, ScanPage,
           SliceEnds, SourceRaises
  <2>2. Read = Bytes
    BY <2>1 DEF Summarise, NextPass, SweepInv, CoverageInv, Read, Bytes
  <2>3. mismatches > 0
    BY <2>2 DEF SweepInv, DamageInv, TypeOK
  <2>4. QED BY <2>1, <2>3 DEF Summarise, NextPass, PassVerdict
<1>2. QED BY <1>1, SweepInvHolds, MemoryTypeCorrect, PTL DEF Spec, DamageReported
=============================================================================

-------------------------- MODULE MemoryIntegrity --------------------------
(***************************************************************************)
(* FN-HM-RAM, checks/memory_integrity.py, as checks/base.py drives it: a   *)
(* checksum sweep over a region, carried over many cadence slots in slices *)
(* that end at a page limit, at a time budget or at the end of the region, *)
(* and a summary per pass with the ECC events counted since the last one.  *)
(*                                                                         *)
(* The platform (the MemorySource) changes between any two calls of the    *)
(* sweep: bytes are damaged, ECC counters grow, and any call may raise, in *)
(* which case service() acknowledges the slot and the sweep resumes at the *)
(* next one from where it stands.  A damaged byte is taken to change the   *)
(* checksum of its page.  The cadence timer (see TimerClient) is the flag  *)
(* due; the statistics and the texts of the result are left out.           *)
(***************************************************************************)
EXTENDS Integers, FiniteSets

CONSTANTS
  RegionBytes,      \* region_bytes
  PageBytes,        \* PAGE_BYTES
  PagesPerSlice,    \* pages_per_slice
  FaultThreshold,   \* uncorrectable_fault_threshold
  WarnThreshold,    \* correctable_warn_threshold
  None,             \* Python's None
  MaxDamage,        \* bound: damaged bytes
  MaxEvents,        \* bound: ECC events of each kind
  MaxRaises,        \* bound: calls of the source that raise
  MaxPasses         \* bound: passes

ASSUME RegionAssumption == RegionBytes \in Nat \ {0} /\ PageBytes \in Nat \ {0}
ASSUME SliceAssumption == PagesPerSlice \in Nat \ {0}
ASSUME ThresholdsAssumption == FaultThreshold \in Int /\ WarnThreshold \in Int

Kinds    == {"correctable", "uncorrectable"}
Counters == [Kinds -> Nat]

ASSUME NoneAssumption == None \notin Counters
ASSUME BoundsAssumption ==
  MaxDamage \in Nat /\ MaxEvents \in Nat /\ MaxRaises \in Nat /\ MaxPasses \in Nat

Bytes == 0 .. RegionBytes - 1

VARIABLES
  damaged,      \* bytes that differ from what was committed
  ecc,          \* the platform's ECC counters
  due,          \* is a cadence slot due?
  at,           \* where on_tick is: idle, scan or summary
  scanned,      \* pages_scanned of the slice
  cursor,       \* _cursor
  passIndex,    \* _pass_index
  mismatches,   \* _mismatches_this_pass
  pages,        \* _pages_this_pass
  baseline,     \* _baseline
  verdict,      \* state of the last summary published, or "none"
  (* history *)
  raises,       \* calls of the source that raised
  covered,      \* bytes read in this pass
  bytesRead,    \* how many were read, with repetition
  damagedBefore,\* bytes already damaged when this pass began
  first,        \* the counters when the first slice began
  reported      \* ECC events reported in all summaries

platform == <<damaged, ecc>>
pass     == <<cursor, mismatches, pages, baseline>>
history  == <<raises, covered, bytesRead, damagedBefore, first, reported>>
vars == <<platform, due, at, scanned, pass, passIndex, verdict, history>>

AtLeastZero(x) == IF x > 0 THEN x ELSE 0

Init ==
  /\ damaged = {}
  /\ ecc = [k \in Kinds |-> 0]
  /\ due = TRUE
  /\ at = "idle"
  /\ scanned = 0
  /\ cursor = 0
  /\ passIndex = 0
  /\ mismatches = 0
  /\ pages = 0
  /\ baseline = None
  /\ verdict = "none"
  /\ raises = 0
  /\ covered = {}
  /\ bytesRead = 0
  /\ damagedBefore = {}
  /\ first = ecc
  /\ reported = [k \in Kinds |-> 0]

-----------------------------------------------------------------------------
(* The platform                                                             *)

Damage ==
  /\ Cardinality(damaged) < MaxDamage
  /\ \E b \in Bytes \ damaged : damaged' = damaged \cup {b}
  /\ UNCHANGED <<ecc, due, at, scanned, pass, passIndex, verdict, history>>

EccEvent ==
  /\ \E k \in Kinds : ecc[k] < MaxEvents /\ ecc' = [ecc EXCEPT ![k] = @ + 1]
  /\ UNCHANGED <<damaged, due, at, scanned, pass, passIndex, verdict, history>>

SlotFallsDue ==
  /\ ~due
  /\ due' = TRUE
  /\ UNCHANGED <<platform, at, scanned, pass, passIndex, verdict, history>>

-----------------------------------------------------------------------------
(* on_tick for a slot that is due, and _advance_slice                       *)

BeginSlice ==
  /\ at = "idle"
  /\ due
  /\ passIndex < MaxPasses
  /\ baseline' = IF baseline = None THEN ecc ELSE baseline
  /\ first' = IF baseline = None THEN ecc ELSE first
  /\ scanned' = 0
  /\ at' = "scan"
  /\ UNCHANGED <<platform, due, cursor, mismatches, pages, passIndex, verdict,
                 raises, covered, bytesRead, damagedBefore, reported>>

(* Mutant: the page limit is off by one.                                    *)
MayScanOneMore == scanned <= PagesPerSlice /\ cursor < RegionBytes

MayScan == scanned < PagesPerSlice /\ cursor < RegionBytes

(* A page, or what is left of the region.                                   *)
PageLength ==
  IF RegionBytes - cursor < PageBytes THEN RegionBytes - cursor ELSE PageBytes

Page == cursor .. cursor + PageLength - 1

(* One page is read and compared with its checksum.                         *)
ScanPage ==
  /\ at = "scan"
  /\ MayScan
  /\ mismatches' = IF Page \cap damaged # {} THEN mismatches + 1 ELSE mismatches
  /\ cursor' = cursor + PageLength
  /\ scanned' = scanned + 1
  /\ pages' = pages + 1
  /\ covered' = covered \cup Page
  /\ bytesRead' = bytesRead + PageLength
  /\ UNCHANGED <<platform, due, at, passIndex, baseline, verdict,
                 raises, damagedBefore, first, reported>>

(* Mutant: the budget is tested before the first page too.                  *)
SliceEndsEmpty ==
  /\ at = "scan"
  /\ due' = FALSE
  /\ at' = IF cursor >= RegionBytes THEN "summary" ELSE "idle"
  /\ UNCHANGED <<platform, scanned, pass, passIndex, verdict, history>>

(* Mutant: the mismatches are counted per slice.                            *)
SliceEndsForgetful ==
  /\ at = "scan"
  /\ scanned > 0 \/ ~MayScan
  /\ due' = FALSE
  /\ at' = IF cursor >= RegionBytes THEN "summary" ELSE "idle"
  /\ mismatches' = IF cursor >= RegionBytes THEN mismatches ELSE 0
  /\ UNCHANGED <<platform, scanned, cursor, pages, baseline, passIndex, verdict, history>>

(* The slice ends: page limit, end of the region, or, once a page has been  *)
(* scanned, the time budget.  The slot is acknowledged.                     *)
SliceEnds ==
  /\ at = "scan"
  /\ scanned > 0 \/ ~MayScan
  /\ due' = FALSE
  /\ at' = IF cursor >= RegionBytes THEN "summary" ELSE "idle"
  /\ UNCHANGED <<platform, scanned, pass, passIndex, verdict, history>>

(* Does the sweep call the source here?                                     *)
CallsSource ==
  \/ at = "idle" /\ due /\ baseline = None
  \/ at = "scan" /\ MayScan
  \/ at = "summary"

(* Mutant: a page that cannot be read is skipped.                           *)
SourceRaisesAndSkips ==
  /\ CallsSource
  /\ raises < MaxRaises
  /\ raises' = raises + 1
  /\ due' = FALSE
  /\ at' = "idle"
  /\ cursor' = IF at = "scan" THEN cursor + PageLength ELSE cursor
  /\ UNCHANGED <<platform, scanned, mismatches, pages, baseline, passIndex, verdict,
                 covered, bytesRead, damagedBefore, first, reported>>

(* ecc_counters, read_page or expected_checksum raises: service() catches   *)
(* it and acknowledges the slot; the pass stands where it was.              *)
SourceRaises ==
  /\ CallsSource
  /\ raises < MaxRaises
  /\ raises' = raises + 1
  /\ due' = FALSE
  /\ at' = "idle"
  /\ UNCHANGED <<platform, scanned, pass, passIndex, verdict,
                 covered, bytesRead, damagedBefore, first, reported>>

-----------------------------------------------------------------------------
(* _summarise_pass                                                          *)

Delta(k) == AtLeastZero(ecc[k] - baseline[k])

PassVerdict ==
  IF Delta("uncorrectable") >= FaultThreshold \/ mismatches > 0 THEN "FAULT"
  ELSE IF Delta("correctable") >= WarnThreshold THEN "DEGRADED" ELSE "OK"

(* The summary is published and the next pass begins at once.               *)
NextPass ==
  /\ at = "summary"
  /\ at' = "idle"
  /\ verdict' = PassVerdict
  /\ reported' = [k \in Kinds |-> reported[k] + Delta(k)]
  /\ passIndex' = passIndex + 1
  /\ cursor' = 0
  /\ mismatches' = 0
  /\ pages' = 0
  /\ covered' = {}
  /\ bytesRead' = 0
  /\ damagedBefore' = damaged
  /\ UNCHANGED <<platform, due, scanned, raises, first>>

(* Mutant: the next pass takes its own baseline when it begins.             *)
SummariseForgetsBaseline == NextPass /\ baseline' = None

Summarise == NextPass /\ baseline' = ecc

SliceStep == ScanPage \/ SliceEnds \/ Summarise

Next ==
  \/ Damage
  \/ EccEvent
  \/ SlotFallsDue
  \/ BeginSlice
  \/ SliceStep
  \/ SourceRaises

Spec == Init /\ [][Next]_vars

(* Time passes, the control loop services the check and a slice that has    *)
(* begun goes on; nothing has to be damaged.  The time budget may cut every *)
(* slice, and the source raises a bounded number of times.                  *)
FairSpec ==
  Spec /\ WF_vars(SlotFallsDue) /\ WF_vars(BeginSlice) /\ WF_vars(SliceStep)

-----------------------------------------------------------------------------
(* Properties                                                               *)

TypeOK ==
  /\ damaged \subseteq Bytes
  /\ ecc \in Counters
  /\ due \in BOOLEAN
  /\ at \in {"idle", "scan", "summary"}
  /\ scanned \in 0 .. PagesPerSlice
  /\ cursor \in 0 .. RegionBytes
  /\ passIndex \in Nat
  /\ mismatches \in Nat
  /\ pages \in Nat
  /\ baseline \in Counters \cup {None}
  /\ at # "idle" => baseline # None
  /\ verdict \in {"none", "OK", "DEGRADED", "FAULT"}
  /\ raises \in Nat
  /\ covered \subseteq Bytes
  /\ bytesRead \in Nat
  /\ damagedBefore \subseteq Bytes
  /\ first \in Counters
  /\ reported \in Counters

(* A pass that is summarised has read every byte of the region once and no  *)
(* byte twice, wherever its slices were cut and whatever calls of the       *)
(* source raised, a last page shorter than the others included.             *)
PassCoversRegion ==
  at = "summary" => covered = Bytes /\ bytesRead = RegionBytes

(* Damage that was there when a pass began makes the verdict of that pass   *)
(* FAULT, although the sweep carries its findings over many slots.          *)
DamageReported ==
  [][passIndex' # passIndex /\ damagedBefore # {} => verdict' = "FAULT"]_vars

(* No ECC event after the first slice is lost or reported twice: what the   *)
(* summaries have reported is what the counters grew by up to the last one, *)
(* events between two passes included.                                      *)
EccAccountedOnce ==
  baseline # None =>
    \A k \in Kinds : first[k] + reported[k] = baseline[k] /\ baseline[k] <= ecc[k]

(* Every pass completes: a slice scans at least one page, however small the *)
(* budget, and an exception only delays the pass.                           *)
PassCompletes ==
  \A n \in 0 .. MaxPasses - 1 : (passIndex = n) ~> (passIndex > n)
=============================================================================

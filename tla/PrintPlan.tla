------------------------------ MODULE PrintPlan ------------------------------
(***************************************************************************)
(* The print planner (printing/planner.py): create_print_plan checks the    *)
(* preview against the printer profile, appends the blank tail that         *)
(* continuous paper needs, and cuts the transfer raster into the bands that *)
(* the BLE transport sends one by one.  The raster's rows are numbered from *)
(* 0; the dots in them matter only through the black coverage of a band,    *)
(* which is any member of Coverages (in percent).                           *)
(***************************************************************************)
EXTENDS Integers, Sequences

CONSTANTS RowBytes,        \* profile print.rowBytes
          MaxBandHeight,   \* profile longPrint.defaultMaxBandHeightDots
          TailRows,        \* profile longPrint.appendTailBlankRowsContinuous
          PacingEnabled,   \* thermalPacing.enabled
          BaseDelay,       \* thermalPacing.baseInterBandDelayMs
          CoverageLimit,   \* thermalPacing.cooldownBandCoverage, in percent
          MsPerPoint,      \* thermalPacing.cooldownMsPerCoveragePoint
          MaxCooldown,     \* thermalPacing.maxCooldownMs
          Coverages,       \* black coverages a band may have, in percent
          ContentHeights,  \* heights of the previews, in rows
          PreviewRowBytes  \* bytes per row the previews were rendered with

ASSUME PlannerAssumption ==
    /\ RowBytes \in Nat \ {0}
    /\ MaxBandHeight \in Nat \ {0}
    /\ TailRows \in Nat
    /\ PacingEnabled \in BOOLEAN
    /\ BaseDelay \in Nat
    /\ MaxCooldown \in Nat

ASSUME InputAssumption ==
    /\ CoverageLimit \in 0..100
    /\ MsPerPoint \in Nat
    /\ Coverages \subseteq 0..100
    /\ ContentHeights \subseteq Nat \ {0}
    /\ PreviewRowBytes \subseteq Nat \ {0}

PaperModes == {"continuous", "gap_label", "black_mark"}

(* A stored preview and the paper mode of the request.                      *)
Requests == [contentHeight : ContentHeights,
             rowBytes      : PreviewRowBytes,
             paperMode     : PaperModes]

VARIABLES request,   \* the arguments of create_print_plan
          phase,     \* "validate", "segment", "planned" or "rejected"
          startRow,  \* _segment_transfer_raster's start_row
          bands      \* the bands cut so far

planVars == <<request, phase, startRow, bands>>

-----------------------------------------------------------------------------
(* Only continuous paper gets the blank tail.                               *)
TransferRows(req) ==
    req.contentHeight + (IF req.paperMode = "continuous" THEN TailRows ELSE 0)

(* len(content_raster) against row_bytes * content_height_dots: the preview *)
(* may have been rendered for another profile than the one printed with.    *)
FitsProfile(req) ==
    req.rowBytes * req.contentHeight = RowBytes * req.contentHeight

Smaller(a, b) == IF a <= b THEN a ELSE b

CeilDiv(a, b) == (a + b - 1) \div b

(* The delay for a band that is not the last: the base delay, more for each *)
(* point of coverage above the limit, never more than the cap.              *)
PacedDelay(coverage) ==
    Smaller(BaseDelay +
              (IF coverage > CoverageLimit
                 THEN CeilDiv((coverage - CoverageLimit) * MsPerPoint, 100)
                 ELSE 0),
            MaxCooldown)

(* Mutant: the last band is followed by a delay as well.                    *)
CooldownAfterAll(coverage, isLast) ==
    IF ~PacingEnabled THEN 0 ELSE PacedDelay(coverage)

CooldownAfter(coverage, isLast) ==
    IF isLast \/ ~PacingEnabled THEN 0 ELSE PacedDelay(coverage)

BandHeight(start, total) == Smaller(MaxBandHeight, total - start)

Band(index, start, height, total, coverage) ==
    [index           |-> index,
     startRow        |-> start,
     heightDots      |-> height,
     byteOffset      |-> start * RowBytes,
     byteLength      |-> height * RowBytes,
     cooldownAfterMs |-> CooldownAfter(coverage, start + height >= total)]

-----------------------------------------------------------------------------
PlanInit ==
    /\ request \in Requests
    /\ phase = "validate"
    /\ startRow = 0
    /\ bands = <<>>

(* A preview rendered for other row bytes raises ValueError: no plan.       *)
Reject ==
    /\ phase = "validate"
    /\ ~FitsProfile(request)
    /\ phase' = "rejected"
    /\ UNCHANGED <<request, startRow, bands>>

Accept ==
    /\ phase = "validate"
    /\ FitsProfile(request)
    /\ phase' = "segment"
    /\ UNCHANGED <<request, startRow, bands>>

(* One turn of the while loop.                                              *)
CutBand ==
    LET total  == TransferRows(request)
        height == BandHeight(startRow, total)
    IN
    /\ phase = "segment"
    /\ startRow < total
    /\ \E coverage \in Coverages :
         bands' = Append(bands, Band(Len(bands), startRow, height, total, coverage))
    /\ startRow' = startRow + height
    /\ UNCHANGED <<request, phase>>

FinishPlan ==
    /\ phase = "segment"
    /\ startRow >= TransferRows(request)
    /\ phase' = "planned"
    /\ UNCHANGED <<request, startRow, bands>>

PlanNext == Reject \/ Accept \/ CutBand \/ FinishPlan

(* The planner is straight-line code: it never waits for anything.          *)
PlanSpec == PlanInit /\ [][PlanNext]_planVars /\ WF_planVars(PlanNext)

-----------------------------------------------------------------------------
BandType ==
    [index : Nat, startRow : Nat, heightDots : Nat, byteOffset : Nat,
     byteLength : Nat, cooldownAfterMs : Nat]

PlanTypeOK ==
    /\ request \in Requests
    /\ phase \in {"validate", "segment", "planned", "rejected"}
    /\ startRow \in Nat
    /\ bands \in Seq(BandType)

(* Each band starts at the row where the one before it ended, the first at  *)
(* row 0.                                                                   *)
Contiguous ==
    \A i \in 1..Len(bands) :
        IF i = 1 THEN bands[i].startRow = 0
        ELSE bands[i].startRow = bands[i-1].startRow + bands[i-1].heightDots

(* A finished plan covers the transfer raster exactly: the bands are        *)
(* contiguous, each is at least one row and at most the profile's band      *)
(* height, and the last one ends with the last row: _segment_transfer_raster *)
(* neither skips nor repeats a row.                                         *)
PlanTilesTransfer ==
    phase = "planned" =>
      /\ Contiguous
      /\ \A i \in 1..Len(bands) : bands[i].heightDots \in 1..MaxBandHeight
      /\ Len(bands) > 0
      /\ bands[Len(bands)].startRow + bands[Len(bands)].heightDots = TransferRows(request)

(* Thermal pacing sits between bands and nowhere else: the last band is     *)
(* followed by no delay, every other one by at least the base delay (if the *)
(* cap allows it) and never by more than the cap.                           *)
PacingBetweenBandsOnly ==
    \A i \in 1..Len(bands) :
      LET last == bands[i].startRow + bands[i].heightDots = TransferRows(request) IN
      /\ bands[i].cooldownAfterMs <= MaxCooldown
      /\ last => bands[i].cooldownAfterMs = 0
      /\ (~last /\ PacingEnabled) =>
           bands[i].cooldownAfterMs >= Smaller(BaseDelay, MaxCooldown)
=============================================================================

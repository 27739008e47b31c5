----------------------------- MODULE PreviewRaster -----------------------------
(***************************************************************************)
(* From a document to paper: render_document draws the elements and packs   *)
(* the picture (canonical.py, packing.py), the safety report measures its   *)
(* bands, the planner (PrintPlan) cuts it into other bands, each becomes a  *)
(* GS v 0 command (aiyin.py), and the printer unpacks the rows.  A dot is a *)
(* pair <<x, y>> and a picture the set of its black dots.                   *)
(***************************************************************************)
EXTENDS PrintPlan, FiniteSets

CONSTANTS Elements,      \* rectangles, images and QR codes with their geometry
          MaxElements,   \* bound: elements of a document
          SafetyBand,    \* profile safety.bandHeightDots
          BlockCoverage, \* profile safety.blockBandCoverage, in percent
          HeaderBase     \* values of a header byte: 256, less to see carries

ASSUME SafetyAssumption ==
    /\ SafetyBand \in Nat \ {0}
    /\ MaxBandHeight % SafetyBand = 0  \* 256 and 64 in the profile
    /\ BlockCoverage \in 0..100
    /\ HeaderBase \in Nat \ {0, 1}

(* What the drawing functions read of an element.                           *)
ASSUME ElementAssumption ==
    \A e \in Elements :
      /\ e.x \in Int /\ e.y \in Int /\ e.w \in Int /\ e.h \in Int
      /\ \/ e.type = "rect" /\ e.black \in BOOLEAN
         \/ /\ e.type = "image"
            /\ e.fit \in {"contain", "cover"} /\ e.invert \in BOOLEAN
            /\ e.sourceW \in Nat \ {0} /\ e.sourceH \in Nat \ {0}
         \/ /\ e.type = "qr" /\ e.size \in Nat \ {0}
            /\ e.modules \subseteq (0..e.size - 1) \X (0..e.size - 1)

VARIABLES stage,    \* "draw", "stored", "planning", "blocked", "sending", "error" or "done"
          elements, \* the elements drawn so far
          picture,  \* the black dots of the image
          packed,   \* the packed raster, a sequence of bytes
          sent,     \* bands sent to the printer
          paper     \* the rows the printer made, each the set of its black dots

rvars == <<planVars, stage, elements, picture, packed, sent, paper>>

-----------------------------------------------------------------------------
(* Drawing.  Pillow clips at the canvas.                                    *)
Width == 8 * request.rowBytes
Canvas == (0..Width - 1) \X (0..request.contentHeight - 1)

Area(x, y, w, h) == (x..x + w - 1) \X (y..y + h - 1)
Box(e) == Area(e.x, e.y, e.w, e.h)
Empty(e) == e.w <= 0 \/ e.h <= 0

Larger(a, b) == IF a >= b THEN a ELSE b

(* Python's round.                                                          *)
RoundDiv(n, d) ==
    LET q == n \div d
        r == 2 * (n % d)
    IN  IF r > d \/ (r = d /\ q % 2 = 1) THEN q + 1 ELSE q

(* _fit_image: the source, scaled to touch the box from inside ("contain")  *)
(* or to fill it, cut at its edges ("cover").                               *)
ByWidth(e) ==
    IF e.fit = "contain" THEN e.w * e.sourceH <= e.h * e.sourceW
                         ELSE e.w * e.sourceH >= e.h * e.sourceW
ResizedW(e) == IF ByWidth(e) THEN e.w ELSE Larger(1, RoundDiv(e.sourceW * e.h, e.sourceH))
ResizedH(e) == IF ByWidth(e) THEN Larger(1, RoundDiv(e.sourceH * e.w, e.sourceW)) ELSE e.h

Inside(e) ==
    IF e.fit = "contain"
      THEN Area(e.x + (e.w - ResizedW(e)) \div 2, e.y + (e.h - ResizedH(e)) \div 2,
                ResizedW(e), ResizedH(e))
      ELSE Box(e)

(* A source below the threshold all over.  Inverting it inverts the white   *)
(* margin that fitting left as well.                                        *)
ImageDots(e) == IF e.invert THEN Box(e) \ Inside(e) ELSE Inside(e)

(* Mutant: modules as large as the longer side allows.                      *)
ModuleSizeByLonger(e) == Larger(1, Larger(e.w, e.h) \div e.size)

ModuleSize(e) == Larger(1, Smaller(e.w, e.h) \div e.size)

QrDots(e) ==
    LET m == ModuleSize(e)
        left == e.x + Larger(0, (e.w - m * e.size) \div 2)
        top == e.y + Larger(0, (e.h - m * e.size) \div 2)
    IN  UNION {Area(left + c[1] * m, top + c[2] * m, m, m) : c \in e.modules}

(* What a picture is after an element; images and QR codes are opaque.      *)
Painted(e) ==
    IF Empty(e) THEN picture
    ELSE Canvas \cap
         CASE e.type = "rect" /\ e.black -> picture \cup Box(e)
           [] e.type = "rect" /\ ~e.black -> picture \ Box(e)
           [] e.type = "image" -> (picture \ Box(e)) \cup ImageDots(e)
           [] e.type = "qr" -> (picture \ Box(e)) \cup QrDots(e)

-----------------------------------------------------------------------------

(* The leftmost dot of eight is the highest bit of its byte.                *)
Weights == <<128, 64, 32, 16, 8, 4, 2, 1>>

Dot(black, x, y) == IF <<x, y>> \in black THEN 1 ELSE 0

ByteOf(black, x, y) ==
    128 * Dot(black, x, y) + 64 * Dot(black, x + 1, y) + 32 * Dot(black, x + 2, y)
    + 16 * Dot(black, x + 3, y) + 8 * Dot(black, x + 4, y) + 4 * Dot(black, x + 5, y)
    + 2 * Dot(black, x + 6, y) + Dot(black, x + 7, y)

(* pack_rows_msb.                                                           *)
PackRows(black, rowBytes, height) ==
    [i \in 1..rowBytes * height |->
       ByteOf(black, 8 * ((i - 1) % rowBytes), (i - 1) \div rowBytes)]

BitSet(byte, b) == (byte \div Weights[b + 1]) % 2 = 1

(* The bits that are set: sum of bit_count.                                 *)
BitsSet(raster, at) == {d \in at \X (0..7) : BitSet(raster[d[1]], d[2])}
BlackDots(raster) == Cardinality(BitsSet(raster, DOMAIN raster))

(* More than percent of the dots of these rows are black.                   *)
Blacker(raster, percent) == 100 * BlackDots(raster) > percent * 8 * Len(raster)

Rows(raster, rowBytes, start, height) ==
    SubSeq(raster, start * rowBytes + 1, (start + height) * rowBytes)

(* Mutant: the shorter band at the end is not measured.                     *)
AllowedButLast ==
    \A k \in 0..request.contentHeight \div SafetyBand - 1 :
      ~Blacker(Rows(packed, request.rowBytes, k * SafetyBand, SafetyBand), BlockCoverage)

(* _build_safety_report: whether each band of the preview may be printed.   *)
Allowed ==
    \A start \in {k * SafetyBand : k \in 0..(request.contentHeight - 1) \div SafetyBand} :
      ~Blacker(Rows(packed, request.rowBytes, start,
                    Smaller(SafetyBand, request.contentHeight - start)), BlockCoverage)

(* transfer_raster: the content, and blank rows after it.                   *)
Transfer == packed \o [i \in 1..RowBytes * (TransferRows(request) - request.contentHeight) |-> 0]
BandRaster(b) ==
    SubSeq(Transfer, b.byteOffset + 1, Smaller(b.byteOffset + b.byteLength, Len(Transfer)))

-----------------------------------------------------------------------------
(* build_raster_command: sizes in two bytes, the lower one first.           *)
Fits(n) == n < HeaderBase * HeaderBase
TwoBytes(n) == <<n % HeaderBase, n \div HeaderBase>>
RasterHeader(height) == TwoBytes(RowBytes) \o TwoBytes(height)

(* The printer: as many rows as the header says, of the bytes it says.      *)
Number(low, high) == low + HeaderBase * high
PrinterRows(header, raster) ==
    LET bytes == Number(header[1], header[2])
    IN  [y \in 1..Number(header[3], header[4]) |->
           {x \in 0..8 * bytes - 1 :
              BitSet(raster[(y - 1) * bytes + x \div 8 + 1], x % 8)}]

-----------------------------------------------------------------------------
RInit ==
    /\ PlanInit
    /\ stage = "draw"
    /\ elements = <<>>
    /\ picture = {}
    /\ packed = <<>>
    /\ sent = 0
    /\ paper = <<>>

Draw(e) ==
    /\ stage = "draw"
    /\ Len(elements) < MaxElements
    /\ elements' = Append(elements, e)
    /\ picture' = Painted(e)
    /\ UNCHANGED <<planVars, stage, packed, sent, paper>>

(* The preview is stored with its raster and its safety report.             *)
Pack ==
    /\ stage = "draw"
    /\ packed' = PackRows(picture, request.rowBytes, request.contentHeight)
    /\ stage' = "stored"
    /\ UNCHANGED <<planVars, elements, picture, sent, paper>>

(* preview_safety_block_reason comes before the planner.                    *)
Check ==
    /\ stage = "stored"
    /\ stage' = IF Allowed THEN "planning" ELSE "blocked"
    /\ UNCHANGED <<planVars, elements, picture, packed, sent, paper>>

(* PrintPlan's coverage of a band, in whole percents.                       *)
Percent(raster) == (100 * BlackDots(raster)) \div (8 * Len(raster))

Plan ==
    /\ stage = "planning"
    /\ PlanNext
    /\ \A i \in 1..Len(bands') :
         LET b == bands'[i]
         IN  b.cooldownAfterMs = CooldownAfter(Percent(BandRaster(b)),
                                   b.byteOffset + b.byteLength >= Len(Transfer))
    /\ stage' = IF phase' = "planned" THEN "sending" ELSE stage
    /\ UNCHANGED <<elements, picture, packed, sent, paper>>

(* Mutant: the printer is told the highest band's height for each band.     *)
SendBandFull ==
    /\ stage = "sending" /\ sent < Len(bands)
    /\ LET b == bands[sent + 1]
       IN  paper' = paper \o PrinterRows(RasterHeader(bands[1].heightDots),
                                BandRaster(b) \o [i \in 1..RowBytes * MaxBandHeight |-> 0])
    /\ sent' = sent + 1
    /\ UNCHANGED <<planVars, stage, elements, picture, packed>>

SendBand ==
    /\ stage = "sending" /\ sent < Len(bands)
    /\ LET b == bands[sent + 1]
       IN  IF Fits(RowBytes) /\ Fits(b.heightDots)
             THEN /\ paper' = paper \o PrinterRows(RasterHeader(b.heightDots), BandRaster(b))
                  /\ sent' = sent + 1
                  /\ UNCHANGED stage
             ELSE stage' = "error" /\ UNCHANGED <<sent, paper>>
    /\ UNCHANGED <<planVars, elements, picture, packed>>

Finished ==
    /\ stage = "sending" /\ sent = Len(bands)
    /\ stage' = "done"
    /\ UNCHANGED <<planVars, elements, picture, packed, sent, paper>>

RNext ==
    \/ \E e \in Elements : Draw(e)
    \/ Pack
    \/ Check
    \/ Plan
    \/ SendBand
    \/ Finished

RSpec == RInit /\ [][RNext]_rvars

-----------------------------------------------------------------------------

(* An element changes no dot outside its box, whatever its fit and wherever *)
(* it is placed, unless it is a QR code with more modules than dots.        *)
DrawingStaysInBox ==
    [][\A e \in Elements :
         elements' = Append(elements, e) /\ (e.type = "qr" => Smaller(e.w, e.h) >= e.size) =>
           (picture \cup picture') \ (picture \cap picture') \subseteq Box(e)]_rvars

(* What comes out of the printer is the picture that was drawn, row by row  *)
(* and dot by dot, and blank rows after it on continuous paper: packing,    *)
(* cutting, headers and the printer's unpacking undo each other.            *)
PaperShowsPicture ==
    stage = "done" =>
      paper = [y \in 1..TransferRows(request) |->
                 {x \in 0..Width - 1 : <<x, y - 1>> \in picture}]

(* No band is sent that is blacker than the thermal limit, although the     *)
(* report measures other bands than the planner cuts, the last ones shorter *)
(* or with blank rows added.                                                *)
SentBandsAreCool ==
    \A i \in 1..sent : ~Blacker(BandRaster(bands[i]), BlockCoverage)

=============================================================================

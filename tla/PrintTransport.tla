--------------------------- MODULE PrintTransport ---------------------------
(***************************************************************************)
(* BleakPrintTransport._print_plan (printing/transport.py): find the        *)
(* printer, connect, subscribe to its notifications, write the command      *)
(* script in BLE chunks, unsubscribe, disconnect.  Every await may fail.    *)
(* The printer's side is modelled too: how far into the script it has got.  *)
(***************************************************************************)
EXTENDS Integers, Sequences, FiniteSets

CONSTANTS Bands,      \* the plan: [startRow, heightDots, byteOffset, byteLength, cools]
          TotalRows,  \* plan.transfer_height_dots
          TotalBytes, \* plan.total_raster_bytes
          Profiles,   \* printer profiles: [writeChar, filtered, notify, chunkSize]
          Target,     \* the device id of the request
          Others      \* other devices in radio range

(* A plan of so many rows and bytes: its bands follow each other from the   *)
(* first row to the last.  create_print_plan makes such plans, as the       *)
(* theorem PlansAreTransportable shows of PrintPlan.                        *)
IsPlan(plan, rows, bytes) ==
    /\ plan \in Seq([startRow : Nat, heightDots : Nat \ {0}, byteOffset : Nat,
                     byteLength : Nat \ {0}, cools : BOOLEAN])
    /\ Len(plan) > 0
    /\ rows \in Nat /\ bytes \in Nat
    /\ plan[1].startRow = 0 /\ plan[1].byteOffset = 0
    /\ \A i \in 1..(Len(plan) - 1) :
         /\ plan[i + 1].startRow = plan[i].startRow + plan[i].heightDots
         /\ plan[i + 1].byteOffset = plan[i].byteOffset + plan[i].byteLength
    /\ plan[Len(plan)].startRow + plan[Len(plan)].heightDots = rows
    /\ plan[Len(plan)].byteOffset + plan[Len(plan)].byteLength = bytes

ASSUME PlanAssumption == IsPlan(Bands, TotalRows, TotalBytes)

(* writeChar: the profile names a write characteristic; filtered: it names  *)
(* a service to filter scans by; notify: its notify characteristics.        *)
ASSUME ProfileAssumption ==
    \A p \in Profiles : /\ p.writeChar \in BOOLEAN
                        /\ p.filtered \in BOOLEAN
                        /\ p.notify \in Seq(STRING)
                        /\ p.chunkSize \in Int

ASSUME DeviceAssumption == Target \notin Others

VARIABLES
    profile,      \* the profile of the request
    nameOnly,     \* the printer advertises its name but not its service
    pc,           \* where _print_plan is
    discovered,   \* the devices of the last scan
    notifyIndex,  \* the next notify characteristic to subscribe to
    started,      \* the members of started_notify not yet given to stop_notify
    cmd, offset,  \* the command being written and the bytes of it accepted
    counters,     \* _TransferCounters
    slept,        \* cooldown sleeps completed
    pending,      \* how the body of the async-with left: "none", "ok" or "error"
    result,       \* what print_plan returned or raised
    connected,    \* the BLE connection is up
    printer       \* the printer: next command and byte it expects

vars == <<profile, nameOnly, pc, discovered, notifyIndex, started, cmd, offset,
          counters, slept, pending, result, connected, printer>>

environment == <<profile, nameOnly>>

-----------------------------------------------------------------------------
(* The script: wake, density, paper mode, enable, one raster command per    *)
(* band, feed, stop.                                                        *)
PreludeBytes == <<12, 5, 4, 4>>
FeedBytes == 2
StopBytes == 4
HeaderBytes == 8

NumBands == Len(Bands)
FeedCommand == NumBands + 5
StopCommand == NumBands + 6
IsBand(k) == k \in 5..(NumBands + 4)
BandOf(k) == Bands[k - 4]

CommandBytes(k) ==
    IF k <= 4 THEN PreludeBytes[k]
    ELSE IF IsBand(k) THEN HeaderBytes + BandOf(k).byteLength
    ELSE IF k = FeedCommand THEN FeedBytes
    ELSE StopBytes

(* Raster bytes in the part of the script before byte off of command k.     *)
RasterBytesBefore(k, off) ==
    IF k <= 4 THEN 0
    ELSE IF IsBand(k)
      THEN BandOf(k).byteOffset + (IF off > HeaderBytes THEN off - HeaderBytes ELSE 0)
      ELSE TotalBytes

RasterReceived == RasterBytesBefore(printer.cmd, printer.offset)

(* Every chunk but the last of a command is chunkSize long.                 *)
ChunkBytes(k, off) ==
    IF CommandBytes(k) - off <= profile.chunkSize
      THEN CommandBytes(k) - off ELSE profile.chunkSize

NoCount == [bands |-> 0, rows |-> 0, raster |-> 0]

CountBand(c, b) ==
    [bands  |-> c.bands + 1,
     rows   |-> c.rows + b.heightDots,
     raster |-> c.raster + b.byteLength]

(* The printer takes a chunk if it continues what it already has.           *)
Receive(k, off, n) ==
    IF printer.cmd = k /\ printer.offset = off
      THEN IF off + n = CommandBytes(k)
             THEN [cmd |-> k + 1, offset |-> 0, intact |-> printer.intact]
             ELSE [cmd |-> k, offset |-> off + n, intact |-> printer.intact]
      ELSE [printer EXCEPT !.intact = FALSE]

-----------------------------------------------------------------------------
Init ==
    /\ profile \in Profiles
    /\ nameOnly \in BOOLEAN
    /\ pc = "profile"
    /\ discovered = {}
    /\ notifyIndex = 1
    /\ started = <<>>
    /\ cmd = 1 /\ offset = 0
    /\ counters = NoCount
    /\ slept = 0
    /\ pending = "none"
    /\ result = [kind |-> "none", count |-> NoCount]
    /\ connected = FALSE
    /\ printer = [cmd |-> 1, offset |-> 0, intact |-> TRUE]

sending == <<cmd, offset, counters, slept, printer>>

(* print_plan ends with a value, a PrintTransportError (it carries the      *)
(* counters), or an exception of another type.                              *)
Finish(kind) ==
    /\ pc' = "done"
    /\ result' = [kind  |-> kind,
                  count |-> IF kind = "raised" THEN NoCount ELSE counters]

(* Inside the async-with every exception becomes a PrintTransportError and  *)
(* the finally block runs before the connection is closed.                  *)
Fail ==
    /\ pending' = "error"
    /\ pc' = "unsubscribe"

CheckProfile ==
    /\ pc = "profile"
    /\ IF profile.writeChar
         THEN pc' = "scan" /\ UNCHANGED result
         ELSE Finish("error")
    /\ UNCHANGED <<environment, discovered, notifyIndex, started, sending, pending, connected>>

(* A filtered scan cannot see a printer that advertises only its name.      *)
Visible(filtered) ==
    Others \cup (IF filtered /\ nameOnly THEN {} ELSE {Target})

(* The unfiltered scan is tried only when the filtered one found nothing.   *)
ScanReturns(filtered) ==
    /\ discovered' \in SUBSET Visible(filtered)
    /\ pc' = IF filtered /\ discovered' = {} THEN "rescan" ELSE "lookup"
    /\ UNCHANGED result

(* Only "Bluetooth not available" is turned into a PrintTransportError.     *)
ScanFails ==
    /\ \/ Finish("error")
       \/ Finish("raised")
    /\ UNCHANGED discovered

Scan ==
    /\ pc = "scan"
    /\ ScanReturns(profile.filtered) \/ ScanFails
    /\ UNCHANGED <<environment, notifyIndex, started, sending, pending, connected>>

Rescan ==
    /\ pc = "rescan"
    /\ ScanReturns(FALSE) \/ ScanFails
    /\ UNCHANGED <<environment, notifyIndex, started, sending, pending, connected>>

DeviceMissing ==
    /\ pc = "lookup"
    /\ Target \notin discovered
    /\ Finish("error")
    /\ UNCHANGED <<environment, discovered, notifyIndex, started, sending, pending, connected>>

(* client.__aenter__ is outside the try: its exceptions escape unconverted. *)
Connect ==
    /\ pc = "lookup"
    /\ Target \in discovered
    /\ \/ /\ connected' = TRUE
          /\ pc' = "services"
          /\ UNCHANGED result
       \/ /\ Finish("raised")
          /\ UNCHANGED connected
    /\ UNCHANGED <<environment, discovered, notifyIndex, started, sending, pending>>

(* The write characteristic must be among the printer's services.           *)
CheckServices ==
    /\ pc = "services"
    /\ \/ pc' = "notify" /\ UNCHANGED pending
       \/ Fail
    /\ UNCHANGED <<environment, discovered, notifyIndex, started, sending, result, connected>>

(* Subscribe to the next notify characteristic, or skip one that the        *)
(* printer does not offer.                                                  *)
Subscribe ==
    /\ pc = "notify"
    /\ notifyIndex <= Len(profile.notify)
    /\ \/ /\ started' = Append(started, profile.notify[notifyIndex])
          /\ notifyIndex' = notifyIndex + 1
          /\ UNCHANGED <<pc, pending>>
       \/ /\ notifyIndex' = notifyIndex + 1
          /\ UNCHANGED <<started, pc, pending>>
       \/ /\ Fail
          /\ UNCHANGED <<started, notifyIndex>>
    /\ UNCHANGED <<environment, discovered, sending, result, connected>>

Subscribed ==
    /\ pc = "notify"
    /\ notifyIndex > Len(profile.notify)
    /\ pc' = "write"
    /\ UNCHANGED <<environment, discovered, notifyIndex, started, sending, pending,
                   result, connected>>

(* Mutants: the offset restarts at 1; the cooldown is skipped.              *)
CommandWrittenOffByOne(k) ==
    /\ cmd' = k + 1
    /\ offset' = 1
    /\ counters' = IF IsBand(k) THEN CountBand(counters, BandOf(k)) ELSE counters
    /\ pc' = IF k = StopCommand THEN "unsubscribe"
             ELSE IF IsBand(k) /\ BandOf(k).cools THEN "cooldown" ELSE "write"
    /\ pending' = IF k = StopCommand THEN "ok" ELSE pending

CommandWrittenNoPause(k) ==
    /\ cmd' = k + 1
    /\ offset' = 0
    /\ counters' = IF IsBand(k) THEN CountBand(counters, BandOf(k)) ELSE counters
    /\ pc' = IF k = StopCommand THEN "unsubscribe" ELSE "write"
    /\ pending' = IF k = StopCommand THEN "ok" ELSE pending

(* What follows the last chunk of command k: the counters move by a whole   *)
(* band, its cooldown starts, and after the stop command the body is over.  *)
CommandWritten(k) ==
    /\ cmd' = k + 1
    /\ offset' = 0
    /\ counters' = IF IsBand(k) THEN CountBand(counters, BandOf(k)) ELSE counters
    /\ pc' = IF k = StopCommand THEN "unsubscribe"
             ELSE IF IsBand(k) /\ BandOf(k).cools THEN "cooldown" ELSE "write"
    /\ pending' = IF k = StopCommand THEN "ok" ELSE pending

ChunkWritten ==
    LET n == ChunkBytes(cmd, offset) IN
    /\ printer' = Receive(cmd, offset, n)
    /\ IF offset + n = CommandBytes(cmd)
         THEN CommandWritten(cmd)
         ELSE offset' = offset + n /\ UNCHANGED <<cmd, counters, pc, pending>>

(* Mutant: the band is counted before its chunks are written.               *)
ChunkFailsCounted ==
    /\ printer' \in {printer, Receive(cmd, offset, ChunkBytes(cmd, offset))}
    /\ Fail
    /\ counters' = IF IsBand(cmd) THEN CountBand(counters, BandOf(cmd)) ELSE counters
    /\ UNCHANGED <<cmd, offset>>

(* A failed write may have reached the printer all the same: the response   *)
(* of a write-with-response can be lost.                                    *)
ChunkFails ==
    /\ printer' \in {printer, Receive(cmd, offset, ChunkBytes(cmd, offset))}
    /\ Fail
    /\ UNCHANGED <<cmd, offset, counters>>

WriteChunk ==
    /\ pc = "write"
    /\ profile.chunkSize > 0
    /\ ChunkWritten \/ ChunkFails
    /\ UNCHANGED <<environment, discovered, notifyIndex, started, slept, result, connected>>

BadChunkSize ==
    /\ pc = "write"
    /\ profile.chunkSize <= 0
    /\ Fail
    /\ UNCHANGED <<environment, discovered, notifyIndex, started, sending, result, connected>>

Cooldown ==
    /\ pc = "cooldown"
    /\ slept' = slept + 1
    /\ pc' = "write"
    /\ UNCHANGED <<environment, discovered, notifyIndex, started, cmd, offset, counters,
                   printer, pending, result, connected>>

(* Mutant: a subscription that cannot be stopped ends the call.             *)
UnsubscribeRaises ==
    /\ pc = "unsubscribe"
    /\ started # <<>>
    /\ \/ started' = Tail(started) /\ UNCHANGED <<pc, result, connected>>
       \/ Finish("raised") /\ connected' = FALSE /\ UNCHANGED started
    /\ UNCHANGED <<environment, discovered, notifyIndex, sending, pending>>

(* stop_notify's exceptions are swallowed: either way the next one is due.  *)
Unsubscribe ==
    /\ pc = "unsubscribe"
    /\ started # <<>>
    /\ started' = Tail(started)
    /\ UNCHANGED <<environment, pc, discovered, notifyIndex, sending, pending, result, connected>>

(* client.__aexit__ is outside the try as well: if it raises, the counters  *)
(* of a pending PrintTransportError are lost with it.                       *)
Disconnect ==
    /\ pc = "unsubscribe"
    /\ started = <<>>
    /\ \/ Finish(pending) /\ connected' = FALSE
       \/ Finish("raised") /\ connected' \in BOOLEAN
    /\ UNCHANGED <<environment, discovered, notifyIndex, started, sending, pending>>

Next ==
    \/ CheckProfile \/ Scan \/ Rescan \/ DeviceMissing \/ Connect
    \/ CheckServices \/ Subscribe \/ Subscribed
    \/ WriteChunk \/ BadChunkSize \/ Cooldown
    \/ Unsubscribe \/ Disconnect

(* The coroutine runs whenever it can, and each BLE call returns or raises. *)
Spec == Init /\ [][Next]_vars /\ WF_vars(Next)

-----------------------------------------------------------------------------
CountType == [bands : Nat, rows : Nat, raster : Nat]

TypeOK ==
    /\ profile \in Profiles
    /\ nameOnly \in BOOLEAN
    /\ pc \in {"profile", "scan", "rescan", "lookup", "services", "notify", "write",
               "cooldown", "unsubscribe", "done"}
    /\ discovered \subseteq Others \cup {Target}
    /\ notifyIndex \in Nat \ {0}
    /\ started \in Seq(STRING)
    /\ cmd \in 1..(StopCommand + 1)
    /\ offset \in Nat
    /\ counters \in CountType
    /\ slept \in Nat
    /\ pending \in {"none", "ok", "error"}
    /\ result \in [kind : {"none", "ok", "error", "raised"}, count : CountType]
    /\ connected \in BOOLEAN
    /\ printer \in [cmd : 1..(StopCommand + 1), offset : Nat, intact : BOOLEAN]

(* The printer receives a prefix of the script: no byte skipped, repeated   *)
(* or out of order, whichever chunk size and whichever await fails          *)
(* (_write_chunked and the order of the calls in _print_plan).              *)
ScriptArrivesInOrder == printer.intact

(* The counters a failure reports never claim more than the printer got,    *)
(* and leave out at most the one band that was being written (the counters  *)
(* move only after a band's last chunk).                                    *)
CountersBracketOutput ==
    /\ counters.raster <= RasterReceived
    /\ counters.bands < NumBands =>
         RasterReceived <= counters.raster + Bands[counters.bands + 1].byteLength

(* The three counters always stand at the same band boundary, so a job's    *)
(* bands, rows and bytes sent cannot contradict each other.                 *)
CountersAgree ==
    IF counters.bands < NumBands
      THEN /\ counters.rows = Bands[counters.bands + 1].startRow
           /\ counters.raster = Bands[counters.bands + 1].byteOffset
      ELSE /\ counters.bands = NumBands
           /\ counters.rows = TotalRows
           /\ counters.raster = TotalBytes

(* A normal return means that the printer has the whole script, feed and    *)
(* stop included, that every band was counted, and that the connection and  *)
(* all subscriptions are released.                                          *)
OkMeansComplete ==
    result.kind = "ok" =>
      /\ printer.cmd = StopCommand + 1
      /\ result.count = [bands |-> NumBands, rows |-> TotalRows, raster |-> TotalBytes]
      /\ started = <<>>
      /\ ~connected

(* A PrintTransportError leaves no connection and no subscription behind.   *)
(* A call that had connected ends only when stop_notify was tried for every *)
(* subscription, whatever it raised, and then with the outcome and the      *)
(* counters of its own body, unless __aexit__ raised after that (the        *)
(* finally block and the async-with).                                       *)
ErrorReleasesPrinter ==
    /\ result.kind = "error" => started = <<>> /\ ~connected
    /\ pc = "done" /\ pending # "none" =>
         /\ started = <<>>
         /\ result.kind \in {pending, "raised"}
         /\ result.kind = pending => result.count = counters

CooldownsBefore(k) == Cardinality({i \in 1..NumBands : i + 4 < k /\ Bands[i].cools})

(* Thermal pacing is honoured: nothing is written before the cooldown of    *)
(* every band already received has been slept (docs/safety.md: "physical    *)
(* transport must still honor it").                                         *)
CooldownHonoured ==
    [][printer' # printer => slept = CooldownsBefore(printer.cmd)]_vars

(* Once the body has failed nothing more is written: the transport neither  *)
(* retries nor resumes a band (docs: no automatic retry).                   *)
NothingWrittenAfterFailure ==
    [][pending = "error" \/ pc = "done" => UNCHANGED <<printer, counters>>]_vars

(* The contract the print queue relies on.                                  *)
Contract == INSTANCE TransportContract
              WITH printed  <- RasterReceived,
                   outcome  <- IF result.kind = "none" THEN "running" ELSE result.kind,
                   reported <- result.count.raster

(* Every step of the transport is a step of that contract or a stutter: the *)
(* queue's model may use TransportContract in the transport's place.        *)
ImplementsContract == Contract!Spec
=============================================================================

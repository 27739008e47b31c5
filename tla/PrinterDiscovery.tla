-------------------------- MODULE PrinterDiscovery --------------------------
(***************************************************************************)
(* Scanning for printers and verifying one without printing: the endpoints  *)
(* of api/printers.py and the hardware test of api/diagnostics.py, over     *)
(* PrinterDiscoveryService, BleakBleAdapter and ProfileReadOnlyProbe.  Each *)
(* request is a coroutine of one event loop, interrupted at its awaits: the *)
(* scan passes, the connection, the subscriptions, the two query writes and *)
(* the polling for their replies.  A printer answers with notifications     *)
(* when it likes, late or never, and sends others unasked.                  *)
(***************************************************************************)
EXTENDS Integers, Sequences, Functions

CONSTANTS Requests,      \* coroutines that handle requests
          Devices,       \* BLE devices about
          Catalogue,     \* the profiles, in the order they were loaded
          ServiceOf,     \* [profile -> ble.serviceUuid]
          ModelOf,       \* [profile -> modelResponse]
          FirmwareOf,    \* [profile -> observedFirmware, a sequence]
          Advertised,    \* [device -> the service UUIDs it advertises]
          Named,         \* [device -> the profiles whose prefix its name has]
          Gatt,          \* [device -> the services it offers when connected]
          Writable,      \* [device -> whether it has the profile's write characteristic]
          NotifyCount,   \* [device -> its notify characteristics]
          ModelReply,    \* [device -> the text of its reply to the model query]
          FirmwareReply, \* [device -> the text of its reply to the firmware query]
          Unasked,       \* texts that a printer may send without being asked
          Within,        \* pairs <<text, payload>> with the text inside the payload
          MaxRaw,        \* bound: notifications that one session captures
          Blank,         \* a payload without a printable character
          None

Profiles == Range(Catalogue)
Texts == {ModelReply[d] : d \in Devices} \cup {FirmwareReply[d] : d \in Devices}
           \cup {ModelOf[p] : p \in Profiles} \cup Unasked
           \cup UNION {Range(FirmwareOf[p]) : p \in Profiles}

ASSUME CatalogueAssumption ==
    /\ Catalogue \in Seq(DOMAIN ServiceOf) /\ Profiles = DOMAIN ServiceOf
    /\ \A p \in Profiles : FirmwareOf[p] \in Seq(Range(FirmwareOf[p]))
    /\ NotifyCount \in [Devices -> Nat]
    /\ None \notin Requests \cup Devices \cup Profiles \cup Texts

(* A text is inside itself, and nothing that a profile expects is inside    *)
(* what printers send unasked.                                              *)
ASSUME TextAssumption ==
    /\ \A t \in Texts : <<t, t>> \in Within
    /\ \A t \in Unasked : \A p \in Profiles :
         /\ <<ModelOf[p], t>> \notin Within
         /\ \A f \in Range(FirmwareOf[p]) : <<f, t>> \notin Within

VARIABLES reqs,   \* the requests and where their coroutines are
          link,   \* [device -> the request connected to it, or None]
          outbox, \* [device -> the replies it has yet to send]
          late    \* ghost: requests that stopped waiting for a reply

discoveryVars == <<reqs, link, outbox, late>>

-----------------------------------------------------------------------------
(* What the service decides from an advertisement and from an answer.       *)
OfferedBy(services) == {p \in Profiles : ServiceOf[p] \in services}

(* By service or by name; in which order makes no difference to a verdict.  *)
CandidateProfiles(d) == OfferedBy(Advertised[d]) \cup (Profiles \cap Named[d])

(* read_only_verify falls back to the services it found on the device.      *)
ProfilesToCheck(d) ==
    IF CandidateProfiles(d) # {} THEN CandidateProfiles(d) ELSE OfferedBy(Gatt[d])

MatchesProfile(d, p, model, firmware) ==
    /\ model = ModelOf[p]
    /\ firmware \in Range(FirmwareOf[p])
    /\ ServiceOf[p] \in Gatt[d]

(* The element of a list that comes first among those at some positions.    *)
First(list, positions) == list[CHOOSE i \in positions : \A j \in positions : i <= j]

(* The probe asks by the first profile whose service the device offers.     *)
ProbeProfile(d) ==
    IF OfferedBy(Gatt[d]) = {} THEN None
    ELSE First(Catalogue, {i \in DOMAIN Catalogue : Catalogue[i] \in OfferedBy(Gatt[d])})

Expected(query, d) ==
    IF query = "model" THEN <<ModelOf[ProbeProfile(d)]>> ELSE FirmwareOf[ProbeProfile(d)]

Reply(query, d) == IF query = "model" THEN ModelReply[d] ELSE FirmwareReply[d]

(* _extract_expected_text: an expected value inside some payload, or, when  *)
(* time is up, whatever came first.                                         *)
ExtractText(window, expected, fallback) ==
    LET found == {i \in DOMAIN expected :
                    \E j \in DOMAIN window : <<expected[i], window[j]>> \in Within}
        texts == {j \in DOMAIN window : window[j] # Blank}
    IN  IF found # {} THEN First(expected, found)
        ELSE IF fallback /\ texts # {} THEN First(window, texts) ELSE None

-----------------------------------------------------------------------------
Idle == [kind |-> "none", device |-> None, phase |-> "idle", started |-> 0,
         raw |-> <<>>, query |-> "model", mark |-> 0, model |-> None,
         firmware |-> None, failed |-> FALSE, result |-> "none"]

DiscoveryInit ==
    /\ reqs = [r \in Requests |-> Idle]
    /\ link = [d \in Devices |-> None]
    /\ outbox = [d \in Devices |-> <<>>]
    /\ late = {}

At(r, phase) == reqs[r].phase = phase
Device(r) == reqs[r].device
Connected(r) == link[Device(r)] = r

Goto(r, phase) == reqs' = [reqs EXCEPT ![r].phase = phase]
(* The coroutine's locals are gone with it.                                 *)
Respond(r, result) ==
    reqs' = [reqs EXCEPT ![r] = [Idle EXCEPT !.kind = reqs[r].kind, !.device = Device(r),
                                             !.phase = "done", !.result = result]]
Raise(r, phase) ==
    reqs' = [reqs EXCEPT ![r].phase = phase, ![r].failed = TRUE,
                         ![r].raw = <<>>, ![r].mark = 0]

(* GET and POST /scan.                                                      *)
ScanPrinters(r) ==
    /\ At(r, "idle")
    /\ reqs' = [reqs EXCEPT ![r].kind = "scan", ![r].phase = "filtered"]
    /\ UNCHANGED <<link, outbox, late>>

(* Bound: the verifications of a behaviour concern one device, since those  *)
(* of different devices share nothing.                                      *)
SameDevice(d) == \A q \in Requests : Device(q) \in {None, d}

(* POST /read-only-verify, and the diagnostics' /hardware-test, which makes *)
(* an archive of the same verification.                                     *)
ReadOnlyVerify(r, d) ==
    /\ At(r, "idle")
    /\ SameDevice(d)
    /\ reqs' = [reqs EXCEPT ![r].kind = "verify", ![r].device = d,
                            ![r].phase = "filtered"]
    /\ UNCHANGED <<link, outbox, late>>

(* Mutant: a printer that is not found is looked for again.                 *)
ScannedOrAgain(r, seen) ==
    IF reqs[r].kind = "scan" THEN Respond(r, "listed")
    ELSE IF Device(r) \in seen THEN Goto(r, "connect")
    ELSE Goto(r, "filtered")

(* _find_advertisement; no await lies between the end of the scan and the   *)
(* look-up of the device that it found.                                     *)
Scanned(r, seen) ==
    IF reqs[r].kind = "scan" THEN Respond(r, "listed")
    ELSE IF Device(r) \in seen THEN Goto(r, "connect")
    ELSE Respond(r, "not_found")

(* BleakBleAdapter.scan: a pass for the profiles' services, and one for     *)
(* everything when that found nothing.                                      *)
ScanFiltered(r) ==
    /\ At(r, "filtered")
    /\ \/ \E seen \in SUBSET {d \in Devices : OfferedBy(Advertised[d]) # {}} :
            IF seen = {} /\ Catalogue # <<>>
              THEN Goto(r, "unfiltered") ELSE Scanned(r, seen)
       \/ Respond(r, "unavailable")
       \/ Respond(r, "error")
    /\ UNCHANGED <<link, outbox, late>>

ScanUnfiltered(r) ==
    /\ At(r, "unfiltered")
    /\ \/ \E seen \in SUBSET Devices : Scanned(r, seen)
       \/ Respond(r, "unavailable")
       \/ Respond(r, "error")
    /\ UNCHANGED <<link, outbox, late>>

(* A printer takes one connection at a time.                                *)
Connect(r) ==
    /\ At(r, "connect")
    /\ \/ link[Device(r)] = None /\ Goto(r, "subscribe")
            /\ link' = [link EXCEPT ![Device(r)] = r]
       \/ Respond(r, "error") /\ UNCHANGED link
    /\ UNCHANGED <<outbox, late>>

Subscribe(r) ==
    /\ At(r, "subscribe")
    /\ reqs[r].started < NotifyCount[Device(r)]
    /\ \/ Connected(r) /\ reqs' = [reqs EXCEPT ![r].started = @ + 1]
       \/ Raise(r, "unsubscribe")
    /\ UNCHANGED <<link, outbox, late>>

(* ProfileReadOnlyProbe.__call__ up to its first query.                     *)
BeginProbe(r) ==
    /\ At(r, "subscribe")
    /\ reqs[r].started = NotifyCount[Device(r)]
    /\ IF ProbeProfile(Device(r)) # None /\ Writable[Device(r)]
         THEN Goto(r, "ask") ELSE Goto(r, "unsubscribe")
    /\ UNCHANGED <<link, outbox, late>>

(* The printer will reply, or it does not get the query or ignores it.      *)
Deliver(r) ==
    \/ UNCHANGED outbox
    \/ /\ Connected(r)
       /\ outbox' = [outbox EXCEPT ![Device(r)] =
                        Append(@, Reply(reqs[r].query, Device(r)))]

(* Mutant: both replies are looked for among all notifications.             *)
AskFromTheStart(r) ==
    /\ At(r, "ask")
    /\ reqs' = [reqs EXCEPT ![r].phase = "write", ![r].mark = 0]
    /\ Deliver(r)
    /\ UNCHANGED <<link, late>>

(* The replies that count are those captured from here on: the write may be *)
(* answered before its await returns.                                       *)
Ask(r) ==
    /\ At(r, "ask")
    /\ reqs' = [reqs EXCEPT ![r].phase = "write", ![r].mark = Len(reqs[r].raw)]
    /\ Deliver(r)
    /\ UNCHANGED <<link, late>>

Written(r) ==
    /\ At(r, "write")
    /\ \/ Connected(r) /\ Goto(r, "wait")
       \/ Raise(r, "unsubscribe")
    /\ UNCHANGED <<link, outbox, late>>

Window(r) == SubSeq(reqs[r].raw, reqs[r].mark + 1, Len(reqs[r].raw))

(* After the second reply nobody looks at the notifications again.          *)
Accept(r, text) ==
    IF reqs[r].query = "model"
      THEN reqs' = [reqs EXCEPT ![r].model = text, ![r].query = "firmware",
                                ![r].phase = "ask"]
      ELSE reqs' = [reqs EXCEPT ![r].firmware = text, ![r].phase = "unsubscribe",
                                ![r].raw = <<>>, ![r].mark = 0]

(* Mutant: a poll takes whatever has come.                                  *)
PollTakesAnything(r) ==
    /\ At(r, "wait")
    /\ LET text == ExtractText(Window(r), Expected(reqs[r].query, Device(r)), TRUE)
       IN text # None /\ Accept(r, text)
    /\ UNCHANGED <<link, outbox, late>>

Poll(r) ==
    /\ At(r, "wait")
    /\ LET text == ExtractText(Window(r), Expected(reqs[r].query, Device(r)), FALSE)
       IN text # None /\ Accept(r, text)
    /\ UNCHANGED <<link, outbox, late>>

Deadline(r) ==
    /\ At(r, "wait")
    /\ Accept(r, ExtractText(Window(r), Expected(reqs[r].query, Device(r)), TRUE))
    /\ late' = IF Reply(reqs[r].query, Device(r)) \in Range(Window(r))
                 THEN late ELSE late \cup {r}
    /\ UNCHANGED <<link, outbox>>

(* Mutants: the subscriptions are stopped once too often; one that will not *)
(* stop keeps the connection.                                               *)
UnsubscribeOnceMore(r) ==
    /\ At(r, "unsubscribe")
    /\ \/ Connected(r) /\ reqs' = [reqs EXCEPT ![r].started = @ - 1]
       \/ Raise(r, "disconnect")
    /\ UNCHANGED <<link, outbox, late>>

UnsubscribeOrGiveUp(r) ==
    /\ At(r, "unsubscribe")
    /\ IF reqs[r].started = 0 THEN Goto(r, "disconnect")
       ELSE \/ Connected(r) /\ reqs' = [reqs EXCEPT ![r].started = @ - 1]
            \/ Respond(r, "error")
    /\ UNCHANGED <<link, outbox, late>>

(* The finally block; a stop_notify that raises ends it.                    *)
Unsubscribe(r) ==
    /\ At(r, "unsubscribe")
    /\ IF reqs[r].started = 0 THEN Goto(r, "disconnect")
       ELSE \/ Connected(r) /\ reqs' = [reqs EXCEPT ![r].started = @ - 1]
            \/ Raise(r, "disconnect")
    /\ UNCHANGED <<link, outbox, late>>

Verdict(r) ==
    IF \E p \in ProfilesToCheck(Device(r)) :
         MatchesProfile(Device(r), p, reqs[r].model, reqs[r].firmware)
      THEN "verified" ELSE "mismatch"

(* A connection that ends takes the replies under way with it.              *)
Drop(d) ==
    /\ link' = [link EXCEPT ![d] = None]
    /\ outbox' = [outbox EXCEPT ![d] = <<>>]

(* client.__aexit__; if it raises itself, the connection may still be up.   *)
Disconnect(r) ==
    /\ At(r, "disconnect")
    /\ \/ /\ Respond(r, IF reqs[r].failed THEN "error" ELSE Verdict(r))
          /\ IF Connected(r) THEN Drop(Device(r)) ELSE UNCHANGED <<link, outbox>>
       \/ /\ Respond(r, "close_failed")
          /\ UNCHANGED <<link, outbox>> \/ (Connected(r) /\ Drop(Device(r)))
    /\ UNCHANGED late

-----------------------------------------------------------------------------
(* The printer and the air between.                                         *)
Capturing(d) ==
    {r \in Requests : link[d] = r /\ reqs[r].phase \in {"subscribe", "ask", "write", "wait"}
                                 /\ reqs[r].started > 0}

Capture(d, text) ==
    reqs' = [r \in Requests |->
               IF r \in Capturing(d) /\ Len(reqs[r].raw) < MaxRaw
                 THEN [reqs[r] EXCEPT !.raw = Append(@, text)] ELSE reqs[r]]

SendReply(d) ==
    /\ outbox[d] # <<>>
    /\ Capture(d, Head(outbox[d]))
    /\ outbox' = [outbox EXCEPT ![d] = Tail(@)]
    /\ UNCHANGED <<link, late>>

(* Room is left for the two replies.                                        *)
SendUnasked(d) ==
    /\ \E r \in Capturing(d) : Len(reqs[r].raw) < MaxRaw - 2
    /\ \E text \in Unasked : Capture(d, text)
    /\ UNCHANGED <<link, outbox, late>>

LoseLink(d) ==
    /\ link[d] # None
    /\ Drop(d)
    /\ UNCHANGED <<reqs, late>>

Resume(r) ==
    \/ ScanFiltered(r) \/ ScanUnfiltered(r) \/ Connect(r)
    \/ Subscribe(r) \/ BeginProbe(r) \/ Ask(r) \/ Written(r)
    \/ Poll(r) \/ Deadline(r) \/ Unsubscribe(r) \/ Disconnect(r)

DiscoveryNext ==
    \/ \E r \in Requests :
         \/ Resume(r) \/ ScanPrinters(r)
         \/ \E d \in Devices : ReadOnlyVerify(r, d)
    \/ \E d \in Devices :
         SendReply(d) \/ SendUnasked(d) \/ LoseLink(d)

(* The event loop runs what can go on, each bleak call returns or raises,   *)
(* and time passes; the printer need not do anything.                       *)
Fairness == \A r \in Requests : WF_discoveryVars(Resume(r))

DiscoverySpec == DiscoveryInit /\ [][DiscoveryNext]_discoveryVars /\ Fairness

-----------------------------------------------------------------------------
DiscoveryTypeOK ==
    /\ reqs \in [Requests ->
         [kind : {"none", "scan", "verify"}, device : Devices \cup {None},
          phase : {"idle", "filtered", "unfiltered", "connect", "subscribe", "ask",
                   "write", "wait", "unsubscribe", "disconnect", "done"},
          started : Nat, raw : Seq(Texts), query : {"model", "firmware"}, mark : Nat,
          model : Texts \cup {None}, firmware : Texts \cup {None}, failed : BOOLEAN,
          result : {"none", "listed", "unavailable", "error", "not_found", "close_failed",
                    "verified", "mismatch"}]]
    /\ link \in [Devices -> Requests \cup {None}]
    /\ outbox \in [Devices -> Seq(Texts)]
    /\ late \subseteq Requests

(* A verified device's own replies contain the model and a firmware of a    *)
(* profile whose service it offers: neither a reply to the other question,  *)
(* a late one, one asked for by another request, nor a notification that    *)
(* nobody asked for makes another device pass (the gate of Stage A).        *)
VerifiedIsEarned ==
    \A r \in Requests : reqs[r].result = "verified" =>
      \E p \in Profiles :
        /\ ServiceOf[p] \in Gatt[Device(r)]
        /\ <<ModelOf[p], ModelReply[Device(r)]>> \in Within
        /\ \E f \in Range(FirmwareOf[p]) : <<f, FirmwareReply[Device(r)]>> \in Within

(* The printer of a profile, as the profile describes it.                   *)
Genuine(d) ==
    /\ OfferedBy(Gatt[d]) # {}
    /\ Writable[d]
    /\ ProbeProfile(d) \in ProfilesToCheck(d)
    /\ <<ModelOf[ProbeProfile(d)], ModelReply[d]>> \in Within
    /\ \E f \in Range(FirmwareOf[ProbeProfile(d)]) : <<f, FirmwareReply[d]>> \in Within

(* A genuine printer is turned down only if a reply of its did not come in  *)
(* time: what else it sends, and what other requests do at the same time,   *)
(* does not matter.                                                         *)
GenuinePasses ==
    \A r \in Requests :
      reqs[r].result = "mismatch" /\ Genuine(Device(r)) => r \in late

(* However a request ends, it lets go of the printer, so that the next one  *)
(* and a print can connect; only a disconnect that itself raised may not.   *)
LetsGo ==
    \A d \in Devices : \A r \in Requests :
      link[d] = r /\ At(r, "done") => reqs[r].result = "close_failed"

(* Every scan and every verification is answered, whatever fails.           *)
RequestsEnd == \A r \in Requests : ~At(r, "idle") ~> At(r, "done")
=============================================================================

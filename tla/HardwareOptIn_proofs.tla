--------------------------- MODULE HardwareOptIn_proofs ---------------------------
(***************************************************************************)
(* From the evidence for a printer to the opt-in that agents rely on.       *)
(* The gate of CertificationLadder is earned for any number of printers,    *)
(* exports, jobs and editions.  The commands compare artifacts with each    *)
(* other but look at a print job only when they record its evidence, so     *)
(* the invariant adds that the evidence on disk still has its job behind    *)
(* it: jobs are only ever added and confirmed.                              *)
(* DesktopHandoff, for any number of tool calls, launches, selections and   *)
(* torn files: as long as no file was left torn, the three files fit        *)
(* together at every step of main, so that a call which no write disturbed  *)
(* finds what the file before refers it to; and the port has one candidate. *)
(***************************************************************************)
EXTENDS CertificationLadder, DesktopHandoff, TLAPS

-----------------------------------------------------------------------------
(* The ladder.                                                              *)
TinyCardsHaveJobs == \A j \in Jobs : Whole(tiny[j]) => ConfirmedOn(tiny[j].printer, tiny[j].job)

LongPrintsHaveJobs ==
    \A j \in Jobs : Whole(long[j]) =>
        /\ ConfirmedOn(long[j].printer, long[j].job)
        /\ jobs[long[j].job].long

GatesWereWritten == \A p \in Printers : Whole(gate[p]) => p \in supported

Evidence == TinyCardsHaveJobs /\ LongPrintsHaveJobs /\ GateIsEarned

IInv == TypeOK /\ Evidence /\ GatesWereWritten /\ OptInRestsOnGate

-----------------------------------------------------------------------------
(* A file that is whole is an artifact of its kind.                         *)
LEMMA WholeFiles ==
    ASSUME TypeOK
    PROVE  /\ \A e \in Exports : Whole(stageA[e]) => stageA[e] \in StageAs
           /\ Whole(protocol) => protocol \in Protocols
           /\ \A j \in Jobs : Whole(tiny[j]) => tiny[j] \in TinyCards
           /\ \A p \in Printers : Whole(trusted[p]) => trusted[p] \in TrustRecords
           /\ \A j \in Jobs : Whole(long[j]) => long[j] \in LongPrints
           /\ \A p \in Printers : Whole(gate[p]) => gate[p] \in Gates
BY DEF TypeOK, Whole

(* Editions stay natural numbers.                                           *)
LEMMA PublishType ==
    ASSUME TypeOK, NEW s \in Stages, Publish(s)
    PROVE  editions' \in [Stages -> Nat] /\ NextEdition(s) \in Nat
BY DEF TypeOK, Publish, NextEdition

(* A job that is confirmed stays as it is, whatever happens.                *)
LEMMA JobsStayConfirmed ==
    ASSUME TypeOK, [Next]_vars
    PROVE  \A p \in Printers, j \in Jobs : ConfirmedOn(p, j) =>
             ConfirmedOn(p, j)' /\ jobs'[j].long = jobs[j].long
<1> SUFFICES ASSUME NEW p \in Printers, NEW j \in Jobs, ConfirmedOn(p, j)
             PROVE  jobs'[j] = jobs[j]
  BY DEF ConfirmedOn
<1>1. ASSUME NEW i \in Jobs, NEW q \in Printers, NEW b \in BOOLEAN, NewJob(i, q, b)
      PROVE  jobs'[j] = jobs[j]
  BY <1>1 DEF NewJob, ConfirmedOn, TypeOK
<1>2. ASSUME NEW i \in Jobs, ConfirmOutput(i) PROVE jobs'[j] = jobs[j]
  BY <1>2 DEF ConfirmOutput, ConfirmedOn, TypeOK
<1>3. ASSUME NEW i \in Jobs, NEW q \in Printers, PrintPreview(i, q) PROVE jobs'[j] = jobs[j]
  BY <1>3, <1>1 DEF PrintPreview
<1>4. ASSUME NEW e \in Exports, NEW c \in Jobs, NEW i \in Jobs, NEW r \in Printers,
             PrintLongFixture(e, c, r, i)
      PROVE  jobs'[j] = jobs[j]
  <2>1. stageA[e].printer \in Printers
    BY <1>4, WholeFiles DEF PrintLongFixture, StageAs
  <2> QED
    BY <1>1, <1>4, <2>1 DEF PrintLongFixture
<1>5. ASSUME UNCHANGED jobs PROVE jobs'[j] = jobs[j]
  BY <1>5
<1>6. ASSUME NEW e \in Exports, NEW c \in Jobs, NEW i \in Jobs, NEW r \in Printers,
             \/ ExportReadOnly(e, r) \/ RecordProtocolSanity(e)
             \/ RecordTinyVisualCard(e, i) \/ RecordTrustedPrinter(e, i)
             \/ RecordLongPrint(e, c, r, i) \/ RecordStableSupportGate(e, c, r, i)
      PROVE  UNCHANGED jobs
  BY <1>6 DEF ExportReadOnly, RecordProtocolSanity, RecordTinyVisualCard,
              RecordTrustedPrinter, RecordLongPrint, RecordStableSupportGate
<1>7. ASSUME NEW q \in Printers, RecordPolicyReview(q) \/ RecordUserOptIn \/ UNCHANGED vars
      PROVE  UNCHANGED jobs
  BY <1>7 DEF RecordPolicyReview, RecordUserOptIn, vars
<1>8. CASE Next
  <2>1. CASE \E i \in Jobs, q \in Printers : PrintPreview(i, q)
    BY <1>3, <2>1
  <2>2. CASE \E i \in Jobs : ConfirmOutput(i)
    BY <1>2, <2>2
  <2>3. CASE \E e \in Exports, c, i \in Jobs, r \in Printers : PrintLongFixture(e, c, r, i)
    BY <1>4, <2>3
  <2> QED
    BY <1>5, <1>6, <1>7, <1>8, <2>1, <2>2, <2>3 DEF Next
<1> QED
  BY <1>5, <1>7, <1>8

(* What was earned by its jobs stays earned.                                *)
LEMMA EarnedStays ==
    ASSUME TypeOK, [Next]_vars
    PROVE  \A g \in Gates : Earned(g) => Earned(g)'
<1> SUFFICES ASSUME NEW g \in Gates, Earned(g) PROVE Earned(g)'
  OBVIOUS
<1>1. g.printer \in Printers /\ g.tiny.job \in Jobs /\ g.long.job \in Jobs
  BY DEF Gates, TinyCards, LongPrints
<1>2. /\ ConfirmedOn(g.printer, g.tiny.job)'
      /\ ConfirmedOn(g.printer, g.long.job)' /\ jobs'[g.long.job].long
  BY <1>1, JobsStayConfirmed DEF Earned
<1> QED
  BY <1>2 DEF Earned, TrustMatches, LongMatches

(* Evidence that a step leaves alone keeps its worth.                       *)
LEMMA EvidenceStays ==
    ASSUME TypeOK, Evidence, [Next]_vars
    PROVE  /\ UNCHANGED tiny => TinyCardsHaveJobs'
           /\ UNCHANGED long => LongPrintsHaveJobs'
           /\ UNCHANGED gate => GateIsEarned'
<1>1. ASSUME UNCHANGED tiny PROVE TinyCardsHaveJobs'
  <2> SUFFICES ASSUME NEW j \in Jobs, Whole(tiny[j])
               PROVE  ConfirmedOn(tiny[j].printer, tiny[j].job)'
    BY <1>1 DEF TinyCardsHaveJobs, Whole
  <2>1. tiny[j].printer \in Printers /\ tiny[j].job \in Jobs
    BY WholeFiles DEF TinyCards
  <2>2. ConfirmedOn(tiny[j].printer, tiny[j].job)
    BY DEF Evidence, TinyCardsHaveJobs
  <2> QED
    BY <1>1, <2>1, <2>2, JobsStayConfirmed DEF ConfirmedOn
<1>2. ASSUME UNCHANGED long PROVE LongPrintsHaveJobs'
  <2> SUFFICES ASSUME NEW j \in Jobs, Whole(long[j])
               PROVE  /\ ConfirmedOn(long[j].printer, long[j].job)'
                      /\ jobs'[long[j].job].long
    BY <1>2 DEF LongPrintsHaveJobs, Whole
  <2>1. long[j].printer \in Printers /\ long[j].job \in Jobs
    BY WholeFiles DEF LongPrints
  <2>2. ConfirmedOn(long[j].printer, long[j].job) /\ jobs[long[j].job].long
    BY DEF Evidence, LongPrintsHaveJobs
  <2> QED
    BY <1>2, <2>1, <2>2, JobsStayConfirmed DEF ConfirmedOn
<1>3. ASSUME UNCHANGED gate PROVE GateIsEarned'
  <2> SUFFICES ASSUME NEW p \in Printers, Whole(gate[p])
               PROVE  gate[p].printer = p /\ Earned(gate[p])'
    BY <1>3 DEF GateIsEarned, Whole, Earned, ConfirmedOn
  <2>1. gate[p] \in Gates /\ gate[p].printer = p /\ Earned(gate[p])
    BY WholeFiles DEF Evidence, GateIsEarned
  <2> QED
    BY <1>3, <2>1, EarnedStays DEF Earned, ConfirmedOn
<1> QED
  BY <1>1, <1>2, <1>3

-----------------------------------------------------------------------------
LEMMA InitIInv == Init => IInv
<1> SUFFICES ASSUME Init PROVE IInv
  OBVIOUS
<1>1. TypeOK
  BY DEF Init, TypeOK
<1> QED
  BY <1>1 DEF Init, IInv, Evidence, TinyCardsHaveJobs, LongPrintsHaveJobs, GateIsEarned,
              GatesWereWritten, OptInRestsOnGate, Whole

(* Printing and confirming change the jobs only.                            *)
LEMMA JobSteps ==
    ASSUME IInv, [Next]_vars,
           UNCHANGED <<stageA, protocol, tiny, trusted, long, gate, policy, editions, supported>>,
           jobs' \in [Jobs -> JobRecords \cup {None}]
    PROVE  IInv'
<1>1. Evidence'
  BY EvidenceStays DEF IInv, Evidence
<1>2. TypeOK'
  BY DEF IInv, TypeOK, policy
<1>3. (GatesWereWritten /\ OptInRestsOnGate)'
  BY DEF IInv, GatesWereWritten, OptInRestsOnGate, Whole, policy
<1> QED
  BY <1>1, <1>2, <1>3 DEF IInv

LEMMA NewJobType ==
    ASSUME TypeOK, NEW j \in Jobs, NEW p \in Printers, NEW b \in BOOLEAN, NewJob(j, p, b)
    PROVE  jobs' \in [Jobs -> JobRecords \cup {None}]
BY DEF TypeOK, NewJob, JobRecords

(* A new tiny card has the confirmed job it was recorded for.               *)
LEMMA RecordTinyIInv ==
    ASSUME IInv, Next, NEW e \in Exports, NEW j \in Jobs, RecordTinyVisualCard(e, j)
    PROVE  IInv'
<1>1. /\ stageA[e] \in StageAs /\ protocol \in Protocols
      /\ editions' \in [Stages -> Nat] /\ NextEdition("tiny") \in Nat
  BY WholeFiles, PublishType DEF IInv, RecordTinyVisualCard, Stages
<1>2. PICK t \in TinyCards :
        /\ t.printer = stageA[e].printer /\ t.job = j
        /\ \E f \in {t, Torn} : tiny' = [tiny EXCEPT ![j] = f]
  <2>1. TinyCard(stageA[e], protocol, j) \in TinyCards
    BY <1>1 DEF TinyCard, TinyCards, StageAs
  <2>2. PICK t \in TinyCards : t = TinyCard(stageA[e], protocol, j)
    BY <2>1
  <2>3. \E f \in {t, Torn} : tiny' = [tiny EXCEPT ![j] = f]
    BY <2>2 DEF RecordTinyVisualCard, Written
  <2> QED
    BY <2>2, <2>3 DEF TinyCard
<1>3. PICK f \in {t, Torn} : tiny' = [tiny EXCEPT ![j] = f]
  BY <1>2
<1>4. TypeOK'
  BY <1>1, <1>3 DEF IInv, TypeOK, RecordTinyVisualCard, policy
<1>5. ConfirmedOn(t.printer, t.job)'
  BY <1>2 DEF RecordTinyVisualCard, ConfirmedOn
<1>6. TinyCardsHaveJobs'
  <2> SUFFICES ASSUME NEW i \in Jobs
               PROVE  (Whole(tiny[i]) => ConfirmedOn(tiny[i].printer, tiny[i].job))'
    BY DEF TinyCardsHaveJobs
  <2>1. CASE i = j
    BY <1>3, <1>5, <2>1 DEF IInv, TypeOK, Whole, ConfirmedOn
  <2>2. CASE i # j
    <3>1. tiny'[i] = tiny[i] /\ jobs' = jobs
      BY <1>3, <2>2 DEF IInv, TypeOK, RecordTinyVisualCard
    <3> QED
      BY <3>1 DEF IInv, Evidence, TinyCardsHaveJobs, Whole, ConfirmedOn
  <2> QED
    BY <2>1, <2>2
<1>7. (LongPrintsHaveJobs /\ GateIsEarned)'
  BY EvidenceStays DEF IInv, RecordTinyVisualCard
<1>8. (GatesWereWritten /\ OptInRestsOnGate)'
  BY DEF IInv, GatesWereWritten, OptInRestsOnGate, Whole, policy, RecordTinyVisualCard
<1> QED
  BY <1>4, <1>6, <1>7, <1>8 DEF IInv, Evidence

(* So has a new long print, and its job was long.                           *)
LEMMA RecordLongIInv ==
    ASSUME IInv, Next, NEW e \in Exports, NEW c \in Jobs, NEW r \in Printers, NEW j \in Jobs,
           RecordLongPrint(e, c, r, j)
    PROVE  IInv'
<1>1. /\ stageA[e] \in StageAs /\ protocol \in Protocols
      /\ tiny[c] \in TinyCards /\ trusted[r] \in TrustRecords
      /\ editions' \in [Stages -> Nat] /\ NextEdition("long") \in Nat
  BY WholeFiles, PublishType DEF IInv, RecordLongPrint, Stages
<1>2. PICK l \in LongPrints :
        /\ l.printer = stageA[e].printer /\ l.job = j
        /\ \E f \in {l, Torn} : long' = [long EXCEPT ![j] = f]
  <2> DEFINE new == [printer |-> stageA[e].printer, job |-> j, stageA |-> stageA[e],
                     protocol |-> protocol, tiny |-> tiny[c], trusted |-> trusted[r],
                     edition |-> NextEdition("long")]
  <2>1. PICK l \in LongPrints : l = new
    BY <1>1 DEF LongPrints, StageAs
  <2>2. \E f \in {new, Torn} : long' = [long EXCEPT ![j] = f]
    BY DEF RecordLongPrint, Written
  <2> QED
    BY <2>1, <2>2
<1>3. PICK f \in {l, Torn} : long' = [long EXCEPT ![j] = f]
  BY <1>2
<1>4. TypeOK'
  BY <1>1, <1>3 DEF IInv, TypeOK, RecordLongPrint, policy
<1>5. (ConfirmedOn(l.printer, l.job) /\ jobs[l.job].long)'
  BY <1>2 DEF RecordLongPrint, ConfirmedOn
<1>6. LongPrintsHaveJobs'
  <2> SUFFICES ASSUME NEW i \in Jobs
               PROVE  (Whole(long[i]) => /\ ConfirmedOn(long[i].printer, long[i].job)
                                        /\ jobs[long[i].job].long)'
    BY DEF LongPrintsHaveJobs
  <2>1. CASE i = j
    BY <1>3, <1>5, <2>1 DEF IInv, TypeOK, Whole, ConfirmedOn
  <2>2. CASE i # j
    <3>1. long'[i] = long[i] /\ jobs' = jobs
      BY <1>3, <2>2 DEF IInv, TypeOK, RecordLongPrint
    <3> QED
      BY <3>1 DEF IInv, Evidence, LongPrintsHaveJobs, Whole, ConfirmedOn
  <2> QED
    BY <2>1, <2>2
<1>7. (TinyCardsHaveJobs /\ GateIsEarned)'
  BY EvidenceStays DEF IInv, RecordLongPrint
<1>8. (GatesWereWritten /\ OptInRestsOnGate)'
  BY DEF IInv, GatesWereWritten, OptInRestsOnGate, Whole, policy, RecordLongPrint
<1> QED
  BY <1>4, <1>6, <1>7, <1>8 DEF IInv, Evidence

(* The checks before a gate is written make it earned.                      *)
LEMMA RecordGateIInv ==
    ASSUME IInv, Next, NEW e \in Exports, NEW c \in Jobs, NEW r \in Printers, NEW j \in Jobs,
           RecordStableSupportGate(e, c, r, j)
    PROVE  IInv'
<1>1. /\ stageA[e] \in StageAs /\ protocol \in Protocols
      /\ tiny[c] \in TinyCards /\ trusted[r] \in TrustRecords /\ long[j] \in LongPrints
  BY WholeFiles DEF IInv, RecordStableSupportGate
<1>2. PICK g \in Gates :
        /\ g = [printer |-> stageA[e].printer, stageA |-> stageA[e], protocol |-> protocol,
                tiny |-> tiny[c], trusted |-> trusted[r], long |-> long[j]]
        /\ \E f \in {g, Torn} :
             /\ gate' = [gate EXCEPT ![g.printer] = f]
             /\ supported' = IF f = g THEN supported \cup {g.printer} ELSE supported
  BY <1>1 DEF RecordStableSupportGate, Written, Gates, StageAs
<1>3. PICK f \in {g, Torn} :
        /\ gate' = [gate EXCEPT ![g.printer] = f]
        /\ supported' = IF f = g THEN supported \cup {g.printer} ELSE supported
  BY <1>2
<1>4. g.printer \in Printers
  BY DEF Gates
<1>5. TypeOK'
  BY <1>3, <1>4 DEF IInv, TypeOK, RecordStableSupportGate, policy
<1>6. Earned(g)
  <2>1. /\ ProtocolMatches(g.stageA, g.protocol)
        /\ TinyMatches(g.stageA, g.protocol, g.tiny)
        /\ TrustMatches(g.stageA, g.protocol, g.tiny, g.trusted)
        /\ LongMatches(g.stageA, g.protocol, g.tiny, g.trusted, g.long)
        /\ g.stageA.printer = g.printer
    BY <1>2 DEF RecordStableSupportGate
  <2>2. ConfirmedOn(g.tiny.printer, g.tiny.job)
    BY <1>2 DEF IInv, Evidence, TinyCardsHaveJobs, RecordStableSupportGate
  <2>3. ConfirmedOn(g.long.printer, g.long.job) /\ jobs[g.long.job].long
    BY <1>2 DEF IInv, Evidence, LongPrintsHaveJobs, RecordStableSupportGate
  <2> QED
    BY <2>1, <2>2, <2>3 DEF Earned, ProtocolMatches, TinyMatches, TrustMatches, LongMatches
<1>7. \A h \in Gates : Earned(h) => Earned(h)'
  BY EarnedStays DEF IInv
<1>8. GateIsEarned'
  <2> SUFFICES ASSUME NEW p \in Printers
               PROVE  (Whole(gate[p]) => gate[p].printer = p /\ Earned(gate[p]))'
    BY DEF GateIsEarned
  <2>1. CASE p = g.printer
    BY <1>3, <1>6, <1>7, <2>1 DEF IInv, TypeOK, Whole, Earned, ConfirmedOn
  <2>2. CASE p # g.printer
    <3>1. gate'[p] = gate[p]
      BY <1>3, <1>4, <2>2 DEF IInv, TypeOK
    <3>2. Whole(gate[p]) => gate[p] \in Gates /\ gate[p].printer = p /\ Earned(gate[p])
      BY WholeFiles DEF IInv, Evidence, GateIsEarned
    <3> QED
      BY <1>7, <3>1, <3>2 DEF Whole, Earned, ConfirmedOn
  <2> QED
    BY <2>1, <2>2
<1>9. (TinyCardsHaveJobs /\ LongPrintsHaveJobs)'
  BY EvidenceStays DEF IInv, RecordStableSupportGate
<1>10. GatesWereWritten'
  BY <1>3, <1>4 DEF IInv, TypeOK, GatesWereWritten, Whole
<1>11. OptInRestsOnGate'
  BY <1>3 DEF IInv, OptInRestsOnGate, Whole, policy, RecordStableSupportGate
<1> QED
  BY <1>5, <1>8, <1>9, <1>10, <1>11 DEF IInv, Evidence

(* The other commands write no evidence that needs a job.                   *)
LEMMA OtherRecordsIInv ==
    ASSUME IInv, Next,
           \/ \E e \in Exports, p \in Printers : ExportReadOnly(e, p)
           \/ \E e \in Exports : RecordProtocolSanity(e)
           \/ \E e \in Exports, j \in Jobs : RecordTrustedPrinter(e, j)
    PROVE  IInv'
<1>1. UNCHANGED <<jobs, tiny, long, gate, policy, supported>>
  BY DEF ExportReadOnly, RecordProtocolSanity, RecordTrustedPrinter
<1>2. Evidence'
  BY <1>1, EvidenceStays DEF IInv, Evidence
<1>3. (GatesWereWritten /\ OptInRestsOnGate)'
  BY <1>1 DEF IInv, GatesWereWritten, OptInRestsOnGate, Whole, policy
<1>4. ASSUME NEW e \in Exports, NEW p \in Printers, ExportReadOnly(e, p) PROVE TypeOK'
  BY <1>4 DEF IInv, TypeOK, ExportReadOnly, StageAs, Written, policy
<1>5. ASSUME NEW e \in Exports, RecordProtocolSanity(e) PROVE TypeOK'
  <2>1. /\ stageA[e] \in StageAs
        /\ editions' \in [Stages -> Nat] /\ NextEdition("protocol") \in Nat
    BY <1>5, WholeFiles, PublishType DEF IInv, RecordProtocolSanity, Stages
  <2> QED
    BY <1>5, <2>1 DEF IInv, TypeOK, RecordProtocolSanity, StageAs, Protocols, Written, policy
<1>6. ASSUME NEW e \in Exports, NEW j \in Jobs, RecordTrustedPrinter(e, j) PROVE TypeOK'
  <2>1. /\ stageA[e] \in StageAs /\ protocol \in Protocols /\ tiny[j] \in TinyCards
        /\ editions' \in [Stages -> Nat] /\ NextEdition("trusted") \in Nat
    BY <1>6, WholeFiles, PublishType DEF IInv, RecordTrustedPrinter, Stages
  <2>2. PICK r \in TrustRecords : \E f \in {r, Torn} :
          trusted' = [trusted EXCEPT ![stageA[e].printer] = f]
    <3> DEFINE new == [printer |-> stageA[e].printer, stageA |-> stageA[e],
                       protocol |-> protocol, tiny |-> tiny[j],
                       edition |-> NextEdition("trusted")]
    <3>1. new \in TrustRecords
      BY <2>1 DEF TrustRecords, StageAs
    <3>2. \E f \in {new, Torn} : trusted' = [trusted EXCEPT ![stageA[e].printer] = f]
      BY <1>6 DEF RecordTrustedPrinter, Written
    <3> QED
      BY <3>1, <3>2
  <2>3. trusted' \in [Printers -> TrustRecords \cup {None, Torn}]
    <3>1. PICK f \in TrustRecords \cup {Torn} :
            trusted' = [trusted EXCEPT ![stageA[e].printer] = f]
      BY <2>2
    <3> QED
      BY <3>1 DEF IInv, TypeOK
  <2> QED
    BY <1>6, <2>1, <2>3 DEF IInv, TypeOK, RecordTrustedPrinter, policy
<1> QED
  BY <1>2, <1>3, <1>4, <1>5, <1>6 DEF IInv

(* The review needs a gate, the opt-in a review.                            *)
LEMMA PolicyIInv ==
    ASSUME IInv, Next, (\E p \in Printers : RecordPolicyReview(p)) \/ RecordUserOptIn
    PROVE  IInv'
<1>1. UNCHANGED <<jobs, stageA, protocol, tiny, trusted, long, gate, editions, supported>>
  BY DEF RecordPolicyReview, RecordUserOptIn
<1>2. Evidence'
  BY <1>1, EvidenceStays DEF IInv, Evidence
<1>3. TypeOK'
  BY <1>1 DEF IInv, TypeOK, RecordPolicyReview, RecordUserOptIn, Written
<1>4. GatesWereWritten'
  BY <1>1 DEF IInv, GatesWereWritten, Whole
<1>5. OptInRestsOnGate'
  BY <1>1 DEF IInv, OptInRestsOnGate, GatesWereWritten, RecordPolicyReview, RecordUserOptIn, Whole
<1> QED
  BY <1>2, <1>3, <1>4, <1>5 DEF IInv

LEMMA NextIInv == IInv /\ [Next]_vars => IInv'
<1> SUFFICES ASSUME IInv, [Next]_vars PROVE IInv'
  OBVIOUS
<1> DEFINE rest == <<stageA, protocol, tiny, trusted, long, gate, policy, editions, supported>>
<1>1. ASSUME NEW j \in Jobs, NEW p \in Printers, PrintPreview(j, p) PROVE IInv'
  <2>1. UNCHANGED rest /\ \E b \in BOOLEAN : NewJob(j, p, b)
    BY <1>1 DEF PrintPreview
  <2> QED
    BY <2>1, NewJobType, JobSteps DEF IInv
<1>2. ASSUME NEW j \in Jobs, ConfirmOutput(j) PROVE IInv'
  <2>1. jobs' \in [Jobs -> JobRecords \cup {None}]
    BY <1>2 DEF ConfirmOutput, IInv, TypeOK, JobRecords
  <2> QED
    BY <1>2, <2>1, JobSteps DEF ConfirmOutput
<1>3. ASSUME NEW e \in Exports, NEW c \in Jobs, NEW j \in Jobs, NEW r \in Printers,
             PrintLongFixture(e, c, r, j)
      PROVE  IInv'
  <2>1. stageA[e].printer \in Printers /\ NewJob(j, stageA[e].printer, TRUE) /\ UNCHANGED rest
    BY <1>3, WholeFiles DEF PrintLongFixture, StageAs, IInv
  <2>2. jobs' \in [Jobs -> JobRecords \cup {None}]
    BY <2>1, NewJobType DEF IInv
  <2> QED
    BY <2>1, <2>2, JobSteps
<1>4. CASE UNCHANGED vars
  BY <1>4, JobSteps DEF vars, policy, IInv, TypeOK
<1>5. CASE Next
  <2>1. ASSUME NEW e \in Exports, NEW j \in Jobs, RecordTinyVisualCard(e, j) PROVE IInv'
    BY <1>5, <2>1, RecordTinyIInv
  <2>2. ASSUME NEW e \in Exports, NEW c \in Jobs, NEW j \in Jobs, NEW r \in Printers,
               RecordLongPrint(e, c, r, j) \/ RecordStableSupportGate(e, c, r, j)
        PROVE  IInv'
    BY <1>5, <2>2, RecordLongIInv, RecordGateIInv
  <2>3. ASSUME NEW p \in Printers, RecordPolicyReview(p) PROVE IInv'
    BY <1>5, <2>3, PolicyIInv
  <2>4. CASE RecordUserOptIn
    BY <1>5, <2>4, PolicyIInv
  <2> QED
    BY <1>1, <1>2, <1>3, <1>5, <2>1, <2>2, <2>3, <2>4, OtherRecordsIInv DEF Next
<1> QED
  BY <1>4, <1>5

-----------------------------------------------------------------------------
(* Every file of the ladder is missing, cut short or an artifact of its     *)
(* kind (hardware_test_cli.py).                                             *)
THEOREM LadderTypeCorrect == Spec => []TypeOK
<1>1. IInv => TypeOK
  BY DEF IInv
<1> QED
  BY <1>1, InitIInv, NextIInv, PTL DEF Spec

(* A stable-support gate on disk rests on an unbroken chain of evidence for *)
(* its own printer, in which both jobs were confirmed.                      *)
THEOREM GateAlwaysEarned == Spec => []GateIsEarned
<1>1. IInv => GateIsEarned
  BY DEF IInv, Evidence
<1> QED
  BY <1>1, InitIInv, NextIInv, PTL DEF Spec

(* No policy review and no opt-in exists before some gate was written.      *)
THEOREM OptInAlwaysRestsOnGate == Spec => []OptInRestsOnGate
<1>1. IInv => OptInRestsOnGate
  BY DEF IInv
<1> QED
  BY <1>1, InitIInv, NextIInv, PTL DEF Spec

-----------------------------------------------------------------------------
(* The handoff.                                                             *)
FilesFit ==
    damage = 0 =>
      /\ runtime = "torn" => main \in {"plain", "opted", "refer"}
      /\ token = "torn" => main = "token"
      /\ token = "missing" => runtime = "missing" /\ main \in {"down", "start"}
      /\ runtime = "opted" /\ main # "copy" => optin = "whole"
      /\ main \in {"opted", "copied", "refer"} => optin = "whole"

ChosenIsKept ==
    damage = 0 /\ chosen =>
      /\ main # "plain"
      /\ main \notin {"opted", "refer"} => runtime = "opted"
      /\ main # "copy" => optin = "whole"

(* What an active call that was not disturbed may rely on.                  *)
CallFits(c) ==
    /\ Active(c) => runtime # "missing"
    /\ Active(c) /\ ~calls[c].disturbed =>
         /\ main \in Settled \cup {"start"}
         /\ calls[c].phase \in {"token", "opt-in"} /\ calls[c].refers => runtime = "opted"
    /\ calls[c].phase = "opt-in" => calls[c].refers
    /\ calls[c].result = "raised" => calls[c].disturbed \/ damage > 0

CallsFit == \A c \in Calls : CallFits(c)

(* What a launch has repaired by the time it is at each place.              *)
Mended ==
    /\ main \in {"next", "plain", "opted", "copy", "copied", "refer"} => token = "whole"
    /\ main \in {"up", "inspected"} /\ runtime # "torn" => token = "whole"
    /\ main \in {"up", "inspected", "copy", "copied"} => runtime # "missing"
    /\ main \in {"opted", "copy", "copied", "refer"} => optin # "missing"
    /\ runtime = "opted" => optin # "missing"

HandoffInv == HandoffTypeOK /\ FilesFit /\ ChosenIsKept /\ CallsFit /\ Mended

-----------------------------------------------------------------------------
Records == [phase : {"idle", "runtime", "token", "opt-in", "ask", "done"}, round : 0..2,
            refers : BOOLEAN, disturbed : BOOLEAN,
            result : {"none", "raised", "answered", "refused", "app_not_running"}]

(* What is left of the types when the calls are set aside.                  *)
OwnTypes ==
    /\ main \in Settled \cup Writing \cup {"start", "next", "copied"}
    /\ launch \in 0..MaxLaunches
    /\ token \in {"missing", "torn", "whole"}
    /\ runtime \in {"missing", "torn", "plain", "opted"}
    /\ optin \in {"missing", "torn", "whole"}
    /\ record \in {"torn", "whole"}
    /\ picks \in 0..MaxPicks /\ damage \in 0..MaxDamage
    /\ chosen \in BOOLEAN

LEMMA TypeParts ==
    /\ HandoffTypeOK <=> OwnTypes /\ calls \in [Calls -> Records]
    /\ OwnTypes' /\ calls' \in [Calls -> Records] => HandoffTypeOK'
BY DEF HandoffTypeOK, OwnTypes, Records

(* A write marks the active calls and changes nothing else about a call.    *)
LEMMA Disturbed ==
    ASSUME HandoffTypeOK, Disturb
    PROVE  /\ calls' \in [Calls -> Records]
           /\ \A c \in Calls :
                /\ calls'[c].disturbed = (calls[c].disturbed \/ Active(c))
                /\ calls'[c].phase = calls[c].phase
                /\ calls'[c].refers = calls[c].refers
                /\ calls'[c].result = calls[c].result
<1>1. calls \in [Calls -> Records]
  BY TypeParts
<1>2. ASSUME NEW c \in Calls
      PROVE  /\ [calls[c] EXCEPT !.disturbed = @ \/ Active(c)] \in Records
             /\ calls'[c] = [calls[c] EXCEPT !.disturbed = @ \/ Active(c)]
  BY <1>1 DEF Records, Active, Disturb
<1> QED
  BY <1>1, <1>2 DEF Disturb, Records

(* The four steps of a call, and its beginning, change that call only.      *)
LEMMA CallSteps ==
    ASSUME HandoffTypeOK, NEW c \in Calls, CallTool(c) \/ Step(c)
    PROVE  /\ calls' \in [Calls -> Records]
           /\ \A d \in Calls \ {c} : calls'[d] = calls[d]
           /\ UNCHANGED <<main, launch, files, record, ghosts>>
<1>1. calls \in [Calls -> Records] /\ calls[c] \in Records
  BY TypeParts
<1>2. CASE CallTool(c)
  <2>1. PICK d \in BOOLEAN : d = (main \notin Settled)
    OBVIOUS
  <2>2. PICK r \in {1, 2} : calls' = [calls EXCEPT ![c] =
          [phase |-> "runtime", round |-> r, refers |-> FALSE, disturbed |-> d,
           result |-> "none"]]
    BY <1>2, <2>1, Zenon DEF CallTool, NoCall
  <2>3. UNCHANGED <<main, launch, files, record, ghosts>>
    BY <1>2, Zenon DEF CallTool
  <2> QED
    BY <1>1, <2>2, <2>3 DEF Records
<1>3. CASE ReadRuntime(c)
  BY <1>1, <1>3 DEF ReadRuntime, End, Records
<1>4. CASE ReadToken(c)
  BY <1>1, <1>4 DEF ReadToken, End, Goto, Resolved, Records
<1>5. CASE ReadOptIn(c)
  BY <1>1, <1>5 DEF ReadOptIn, End, Goto, Resolved, Records
<1>6. CASE Ask(c)
  <2>1. PICK result \in {"answered", "refused", "app_not_running"} : End(c, result)
    BY <1>6, Zenon DEF Ask
  <2>2. UNCHANGED <<main, launch, files, record, ghosts>>
    BY <1>6, Zenon DEF Ask
  <2> QED
    BY <1>1, <2>1, <2>2 DEF End, Records
<1> QED
  BY <1>2, <1>3, <1>4, <1>5, <1>6 DEF Step

-----------------------------------------------------------------------------
LEMMA InitHandoffInv == HandoffInit => HandoffInv
<1> SUFFICES ASSUME HandoffInit PROVE HandoffInv
  OBVIOUS
<1>1. OwnTypes
  <2>1. chosen \in BOOLEAN
    BY DEF HandoffInit
  <2>2. /\ launch \in 0..MaxLaunches
        /\ picks \in 0..MaxPicks /\ damage \in 0..MaxDamage
    BY HandoffAssumption DEF HandoffInit
  <2> QED
    BY <2>1, <2>2 DEF HandoffInit, OwnTypes, Settled
<1>2. calls \in [Calls -> Records]
  BY DEF HandoffInit, Records, NoCall
<1>3. FilesFit /\ ChosenIsKept /\ Mended
  BY DEF HandoffInit, FilesFit, ChosenIsKept, Mended
<1>4. CallsFit
  BY DEF HandoffInit, CallsFit, CallFits, NoCall, Active
<1> QED
  BY <1>1, <1>2, <1>3, <1>4, TypeParts DEF HandoffInv

(* Main's steps, one by one: types and files.                               *)
LEMMA MainSteps ==
    ASSUME HandoffInv, Main
    PROVE  OwnTypes' /\ FilesFit' /\ ChosenIsKept' /\ Mended'
<1> USE HandoffAssumption DEF Settled, Writing
<1>0. OwnTypes /\ FilesFit /\ ChosenIsKept /\ Mended
  BY TypeParts DEF HandoffInv
<1>1. CASE Launch
  <2>1. OwnTypes'
    BY <1>0, <1>1 DEF Launch, files, ghosts, OwnTypes
  <2>2. FilesFit' /\ ChosenIsKept'
    BY <1>0, <1>1 DEF Launch, files, ghosts, OwnTypes, FilesFit, ChosenIsKept
  <2>3. Mended'
    BY <1>0, <1>1 DEF Launch, files, Mended
  <2> QED
    BY <2>1, <2>2, <2>3
<1>2. CASE HandoffFails
  BY <1>0, <1>2 DEF HandoffFails, files, ghosts, OwnTypes, FilesFit, ChosenIsKept,
                    Mended
<1>3. CASE BeginToken
  BY <1>0, <1>3 DEF BeginToken, ghosts, OwnTypes, FilesFit, ChosenIsKept, Mended
<1>4. CASE EndToken
  BY <1>0, <1>4 DEF EndToken, ghosts, OwnTypes, FilesFit, ChosenIsKept, Mended
<1>5. CASE BeginRuntime
  BY <1>0, <1>5 DEF BeginRuntime, ghosts, OwnTypes, FilesFit, ChosenIsKept, Mended
<1>6. CASE EndRuntime
  BY <1>0, <1>6 DEF EndRuntime, ghosts, OwnTypes, FilesFit, ChosenIsKept, Mended
<1>7. CASE Select
  BY <1>0, <1>7 DEF Select, files, OwnTypes, FilesFit, ChosenIsKept, Mended
<1>8. CASE SelectFails
  BY <1>0, <1>8 DEF SelectFails, Broken, files, ghosts, OwnTypes, FilesFit,
                    ChosenIsKept, Mended
<1>9. CASE BeginCopy
  BY <1>0, <1>9 DEF BeginCopy, Broken, ghosts, OwnTypes, FilesFit, ChosenIsKept,
                    Mended
<1>10. CASE EndCopy
  BY <1>0, <1>10 DEF EndCopy, OwnTypes, FilesFit, ChosenIsKept, Mended
<1>11. CASE BeginRefer
  BY <1>0, <1>11 DEF BeginRefer, ghosts, OwnTypes, FilesFit, ChosenIsKept, Mended
<1>12. CASE EndRefer
  BY <1>0, <1>12 DEF EndRefer, OwnTypes, FilesFit, ChosenIsKept, Mended
<1>13. CASE Kill
  BY <1>0, <1>13 DEF Kill, files, OwnTypes, FilesFit, ChosenIsKept, Mended
<1> QED
  BY <1>1, <1>2, <1>3, <1>4, <1>5, <1>6, <1>7, <1>8, <1>9, <1>10, <1>11, <1>12, <1>13 DEF Main

(* Main's steps, as its calls see them: each either disturbs the active     *)
(* calls, or leaves the files and every place where main is not writing.    *)
LEMMA MainAndCalls ==
    ASSUME HandoffInv, Main
    PROVE  calls' \in [Calls -> Records] /\ CallsFit'
<1> USE DEF Settled, Writing
<1>0. HandoffTypeOK /\ CallsFit /\ calls \in [Calls -> Records] /\ damage \in Nat
  BY TypeParts, HandoffAssumption DEF HandoffInv, OwnTypes
<1>1. damage' \in Nat /\ (damage > 0 => damage' > 0)
  BY <1>0, HandoffAssumption DEF Main, Launch, HandoffFails, BeginToken, EndToken,
     BeginRuntime, EndRuntime, Select, SelectFails, BeginCopy, EndCopy, BeginRefer,
     EndRefer, Kill, ghosts
<1>2. CASE Disturb /\ runtime' # "missing"
  BY <1>0, <1>1, <1>2, Disturbed DEF CallsFit, CallFits, Active
<1>3. CASE Disturb /\ runtime' = runtime
  BY <1>0, <1>1, <1>3, Disturbed DEF CallsFit, CallFits, Active
<1>4. CASE /\ calls' = calls /\ runtime' = runtime
           /\ main \in Settled \cup {"start"} => main' \in Settled \cup {"start"}
  BY <1>0, <1>1, <1>4 DEF CallsFit, CallFits, Active
<1> QED
  BY <1>2, <1>3, <1>4 DEF Main, Launch, HandoffFails, BeginToken, EndToken,
     BeginRuntime, EndRuntime, Select, SelectFails, BeginCopy, EndCopy, BeginRefer,
     EndRefer, Kill, files

(* A call that nothing disturbed finds three files that fit together.       *)
LEMMA CallsStayFit ==
    ASSUME HandoffInv, NEW c \in Calls, CallTool(c) \/ Step(c)
    PROVE  CallsFit'
<1> USE DEF Settled, Writing
<1>0. /\ HandoffTypeOK /\ OwnTypes /\ calls \in [Calls -> Records] /\ calls[c] \in Records
      /\ CallFits(c) /\ FilesFit /\ damage \in Nat
  BY TypeParts, HandoffAssumption DEF HandoffInv, OwnTypes, CallsFit
<1>1. /\ \A d \in Calls \ {c} : calls'[d] = calls[d]
      /\ main' = main /\ runtime' = runtime /\ damage' = damage
  BY <1>0, CallSteps DEF files, ghosts
<1>2. CallFits(c)'
  <2>1. CASE CallTool(c)
    <3>1. /\ main \notin Settled => calls'[c].disturbed
          /\ calls'[c].phase = "runtime" /\ calls'[c].result = "none"
          /\ runtime # "missing"
      BY <1>0, <2>1, Zenon DEF CallTool, NoCall
    <3> QED
      BY <1>1, <3>1 DEF CallFits, Active
  <2>2. CASE ReadRuntime(c)
    BY <1>0, <1>1, <2>2 DEF ReadRuntime, End, Broken, CallFits, Active, Records, FilesFit, OwnTypes
  <2>3. CASE ReadToken(c)
    BY <1>0, <1>1, <2>3 DEF ReadToken, End, Goto, Resolved, Broken, CallFits, Active, Records,
       FilesFit, OwnTypes
  <2>4. CASE ReadOptIn(c)
    BY <1>0, <1>1, <2>4 DEF ReadOptIn, End, Goto, Resolved, Broken, CallFits, Active, Records,
       FilesFit, OwnTypes
  <2>5. CASE Ask(c)
    BY <1>0, <1>1, <2>5 DEF Ask, End, CallFits, Active, Records
  <2> QED
    BY <2>1, <2>2, <2>3, <2>4, <2>5 DEF Step
<1>3. ASSUME NEW d \in Calls \ {c} PROVE CallFits(d)'
  BY <1>1, <1>3 DEF HandoffInv, CallsFit, CallFits, Active
<1> QED
  BY <1>2, <1>3 DEF CallsFit

LEMMA NextHandoffInv == HandoffInv /\ [HandoffNext]_handoffVars => HandoffInv'
<1> SUFFICES ASSUME HandoffInv, [HandoffNext]_handoffVars PROVE HandoffInv'
  OBVIOUS
<1>0. OwnTypes /\ calls \in [Calls -> Records]
  BY TypeParts DEF HandoffInv
<1>1. CASE Main
  BY <1>1, MainSteps, MainAndCalls, TypeParts DEF HandoffInv
<1>2. ASSUME NEW c \in Calls, CallTool(c) \/ Step(c) PROVE HandoffInv'
  <2>1. calls' \in [Calls -> Records] /\ UNCHANGED <<main, launch, files, record, ghosts>>
    BY <1>2, CallSteps DEF HandoffInv
  <2>2. OwnTypes' /\ FilesFit' /\ ChosenIsKept' /\ Mended'
    BY <1>0, <2>1 DEF HandoffInv, OwnTypes, FilesFit, ChosenIsKept, Mended, files, ghosts
  <2> QED
    BY <1>2, <2>1, <2>2, CallsStayFit, TypeParts DEF HandoffInv
<1>3. ASSUME UNCHANGED <<main, launch, files, calls, ghosts>>, record' \in {"torn", "whole"}
      PROVE  HandoffInv'
  <2>1. FilesFit' /\ ChosenIsKept' /\ CallsFit' /\ Mended'
    BY <1>3 DEF HandoffInv, FilesFit, ChosenIsKept, CallsFit, CallFits, Active, Mended, files, ghosts
  <2>2. OwnTypes'
    BY <1>0, <1>3 DEF OwnTypes, files, ghosts
  <2> QED
    BY <1>0, <1>3, <2>1, <2>2, TypeParts DEF HandoffInv
<1>4. CASE RecordAnew
  BY <1>3, <1>4 DEF RecordAnew
<1>5. CASE UNCHANGED handoffVars
  BY <1>0, <1>3, <1>5 DEF handoffVars, files, ghosts, OwnTypes
<1> QED
  BY <1>1, <1>2, <1>4, <1>5 DEF HandoffNext

-----------------------------------------------------------------------------
THEOREM HandoffInvariant == HandoffSpec => []HandoffInv
BY InitHandoffInv, NextHandoffInv, PTL DEF HandoffSpec

(* The files and the calls keep their types.                                *)
THEOREM HandoffTypeCorrect == HandoffSpec => []HandoffTypeOK
BY HandoffInvariant, PTL DEF HandoffInv

(* A selected opt-in outlives the application, unless a file was left torn. *)
THEOREM SelectedOptInSurvives == HandoffSpec => []OptInSurvives
<1>1. HandoffInv => OptInSurvives
  BY DEF HandoffInv, ChosenIsKept, OptInSurvives, Settled
<1> QED
  BY <1>1, HandoffInvariant, PTL

(* A call fails over the files only while they are written, or torn.        *)
THEOREM QuietCallsAreAnswered == HandoffSpec => []QuietCallsAnswered
<1>1. HandoffInv => QuietCallsAnswered
  BY DEF HandoffInv, CallsFit, CallFits, QuietCallsAnswered
<1> QED
  BY <1>1, HandoffInvariant, PTL

(* A launch mends a torn token, and refers to an opt-in that is there.      *)
THEOREM LaunchAlwaysMends == HandoffSpec => []LaunchMends
<1>1. HandoffInv => LaunchMends
  BY DEF HandoffInv, Mended, LaunchMends
<1> QED
  BY <1>1, HandoffInvariant, PTL

=============================================================================

------------------------ MODULE CertificationLadder ------------------------
(***************************************************************************)
(* The hardware certification ladder of hardware_test_cli.py: from a        *)
(* read-only export (Stage A) over protocol sanity (B), the tiny card (C),  *)
(* the trusted-printer record and the long print (D) to the stable-support  *)
(* gate and the agent's opt-in.  Each command reads earlier artifacts from  *)
(* files that the operator names, checks them, and writes one file in       *)
(* place, over an older one if there is one.  Nothing else remembers which  *)
(* rung was reached: what the gate is worth is what the checks make sure.   *)
(*                                                                         *)
(* A later artifact names an earlier one by its SHA-256.  Two files have    *)
(* the same digest only if they have the same content, so an artifact here  *)
(* simply holds the artifacts it names; a time stamp makes every writing of *)
(* a file differ from the one before, which is what editions are for.       *)
(***************************************************************************)
EXTENDS Naturals

CONSTANTS Printers, Exports, Jobs,  \* exports: file names, one for each time
          MaxEditions,              \* bound: how often each kind is written
          None, Torn                \* no such file; one cut short

ASSUME LadderAssumption == MaxEditions \in Nat

VARIABLES
    jobs,       \* the daemon's print jobs
    stageA,     \* hardware-test-<time>.zip
    protocol,   \* hardware-test-protocol-sanity.zip: one path for all printers
    tiny,       \* hardware-test-tiny-visual-card-<job>.zip
    trusted,    \* trusted-printer-<fingerprint>.json
    long,       \* hardware-test-long-print-reliability-<job>.zip
    gate,       \* stable-support-gate-<fingerprint>.json
    review,     \* agent-direct-policy-review.json
    optIn,      \* agent-direct-user-opt-in.json
    editions,   \* how often each kind of artifact was written
    supported   \* ghost: printers for which a gate was ever written

policy == <<review, optIn>>
vars == <<jobs, stageA, protocol, tiny, trusted, long, gate, policy, editions, supported>>

Stages == {"protocol", "tiny", "trusted", "long"}

JobRecords == [printer : Printers, long : BOOLEAN,
               state : {"completed_unverified", "failed", "confirmed_complete"}]

StageAs == [printer : Printers, export : Exports]
Protocols == [printer : Printers, edition : Nat]
TinyCards == [printer : Printers, job : Jobs, protocol : Protocols, edition : Nat]
TrustRecords == [printer : Printers, stageA : StageAs, protocol : Protocols,
                 tiny : TinyCards, edition : Nat]
LongPrints == [printer : Printers, job : Jobs, stageA : StageAs, protocol : Protocols,
               tiny : TinyCards, trusted : TrustRecords, edition : Nat]
Gates == [printer : Printers, stageA : StageAs, protocol : Protocols, tiny : TinyCards,
          trusted : TrustRecords, long : LongPrints]

(* A file that is not there or was cut short is refused by every command.   *)
Whole(file) == file \notin {None, Torn}

-----------------------------------------------------------------------------
(* What the inspections accept, for the contents of whole files: a Stage A  *)
(* export, x protocol sanity, t tiny card, r trust record, l long print.    *)

(* Stage B is matched with Stage A by the printer only.                     *)
ProtocolMatches(a, x) == x.printer = a.printer

(* Mutant: Stage C matched by the printer, not chained to this Stage B.     *)
TinyMatchesPrinter(a, x, t) == t.printer = a.printer

TinyMatches(a, x, t) ==
    /\ t.printer = a.printer
    /\ t.protocol = x

(* The fixture's print asks no more than this of its evidence.              *)
TrustMatches(a, x, t, r) ==
    /\ r.printer = a.printer
    /\ r.stageA = a
    /\ r.protocol = x
    /\ r.tiny = t

LongMatches(a, x, t, r, l) ==
    /\ l.printer = a.printer
    /\ l.trusted = r
    /\ l.stageA = a
    /\ l.protocol = x
    /\ l.tiny = t

ConfirmedOn(p, j) ==
    /\ jobs[j] # None
    /\ jobs[j].state = "confirmed_complete"
    /\ jobs[j].printer = p

-----------------------------------------------------------------------------
Init ==
    /\ jobs = [j \in Jobs |-> None]
    /\ stageA = [e \in Exports |-> None]
    /\ protocol = None
    /\ tiny = [j \in Jobs |-> None]
    /\ trusted = [p \in Printers |-> None]
    /\ long = [j \in Jobs |-> None]
    /\ gate = [p \in Printers |-> None]
    /\ review = None
    /\ optIn = None
    /\ editions = [s \in Stages |-> 0]
    /\ supported = {}

(* The command is killed while it writes, or the disk is full.              *)
Written(content) == {content, Torn}

NextEdition(stage) == editions[stage] + 1

Publish(stage) ==
    /\ editions[stage] < MaxEditions
    /\ editions' = [editions EXCEPT ![stage] = @ + 1]

(* Any client of the daemon prints on any printer at any time.              *)
NewJob(j, p, isLong) ==
    /\ jobs[j] = None
    /\ \E s \in {"completed_unverified", "failed"} :
         jobs' = [jobs EXCEPT ![j] = [printer |-> p, long |-> isLong, state |-> s]]

PrintPreview(j, p) ==
    /\ \E isLong \in BOOLEAN : NewJob(j, p, isLong)
    /\ UNCHANGED <<stageA, protocol, tiny, trusted, long, gate, policy, editions, supported>>

ConfirmOutput(j) ==
    /\ jobs[j] # None
    /\ jobs[j].state = "completed_unverified"
    /\ jobs' = [jobs EXCEPT ![j].state = "confirmed_complete"]
    /\ UNCHANGED <<stageA, protocol, tiny, trusted, long, gate, policy, editions, supported>>

ExportReadOnly(e, p) ==
    /\ stageA[e] = None
    /\ \E f \in Written([printer |-> p, export |-> e]) : stageA' = [stageA EXCEPT ![e] = f]
    /\ UNCHANGED <<jobs, protocol, tiny, trusted, long, gate, policy, editions, supported>>

RecordProtocolSanity(e) ==
    /\ Whole(stageA[e])
    /\ Publish("protocol")
    /\ protocol' \in Written([printer |-> stageA[e].printer,
                              edition |-> NextEdition("protocol")])
    /\ UNCHANGED <<jobs, stageA, tiny, trusted, long, gate, policy, supported>>

TinyCard(a, x, j) ==
    [printer |-> a.printer, job |-> j, protocol |-> x, edition |-> NextEdition("tiny")]

(* Neither the job's size nor the time it was printed is looked at.         *)
RecordTinyVisualCard(e, j) ==
    /\ Whole(stageA[e]) /\ Whole(protocol)
    /\ ProtocolMatches(stageA[e], protocol)
    /\ ConfirmedOn(stageA[e].printer, j)
    /\ Publish("tiny")
    /\ \E f \in Written(TinyCard(stageA[e], protocol, j)) : tiny' = [tiny EXCEPT ![j] = f]
    /\ UNCHANGED <<jobs, stageA, protocol, trusted, long, gate, policy, supported>>

RecordTrustedPrinter(e, j) ==
    LET a == stageA[e]  p == a.printer  t == tiny[j] IN
    /\ Whole(a) /\ Whole(protocol) /\ Whole(t)
    /\ ProtocolMatches(a, protocol)
    /\ TinyMatches(a, protocol, t)
    /\ Publish("trusted")
    /\ \E f \in Written([printer |-> p, stageA |-> a, protocol |-> protocol, tiny |-> t,
                         edition |-> NextEdition("trusted")]) :
         trusted' = [trusted EXCEPT ![p] = f]
    /\ UNCHANGED <<jobs, stageA, protocol, tiny, long, gate, policy, supported>>

PrintLongFixture(e, c, r, j) ==
    /\ Whole(stageA[e]) /\ Whole(protocol) /\ Whole(tiny[c]) /\ Whole(trusted[r])
    /\ TrustMatches(stageA[e], protocol, tiny[c], trusted[r])
    /\ NewJob(j, stageA[e].printer, TRUE)
    /\ UNCHANGED <<stageA, protocol, tiny, trusted, long, gate, policy, editions, supported>>

(* Any long job that was confirmed will do, whoever printed it and when.    *)
RecordLongPrint(e, c, r, j) ==
    LET a == stageA[e]  t == tiny[c] IN
    /\ Whole(a) /\ Whole(protocol) /\ Whole(t) /\ Whole(trusted[r])
    /\ ProtocolMatches(a, protocol)
    /\ TinyMatches(a, protocol, t)
    /\ TrustMatches(a, protocol, t, trusted[r])
    /\ ConfirmedOn(a.printer, j)
    /\ jobs[j].long
    /\ Publish("long")
    /\ \E f \in Written([printer |-> a.printer, job |-> j, stageA |-> a,
                         protocol |-> protocol, tiny |-> t, trusted |-> trusted[r],
                         edition |-> NextEdition("long")]) :
         long' = [long EXCEPT ![j] = f]
    /\ UNCHANGED <<jobs, stageA, protocol, tiny, trusted, gate, policy, supported>>

RecordStableSupportGate(e, c, r, j) ==
    LET a == stageA[e]  p == a.printer  t == tiny[c]
        g == [printer |-> p, stageA |-> a, protocol |-> protocol, tiny |-> t,
              trusted |-> trusted[r], long |-> long[j]] IN
    /\ Whole(a) /\ Whole(protocol) /\ Whole(t) /\ Whole(trusted[r]) /\ Whole(long[j])
    /\ ProtocolMatches(a, protocol)
    /\ TinyMatches(a, protocol, t)
    /\ TrustMatches(a, protocol, t, trusted[r])
    /\ LongMatches(a, protocol, t, trusted[r], long[j])
    /\ \E f \in Written(g) :
         /\ gate' = [gate EXCEPT ![p] = f]
         /\ supported' = IF f = g THEN supported \cup {p} ELSE supported
    /\ UNCHANGED <<jobs, stageA, protocol, tiny, trusted, long, policy, editions>>

RecordPolicyReview(p) ==
    /\ Whole(gate[p])
    /\ review' \in Written("agent_direct_policy_reviewed")
    /\ UNCHANGED <<jobs, stageA, protocol, tiny, trusted, long, gate, optIn, editions, supported>>

RecordUserOptIn ==
    /\ Whole(review)
    /\ optIn' \in Written("agent_direct_user_opt_in_recorded")
    /\ UNCHANGED <<jobs, stageA, protocol, tiny, trusted, long, gate, review, editions, supported>>

Next ==
    \/ \E j \in Jobs, p \in Printers : PrintPreview(j, p)
    \/ \E j \in Jobs : ConfirmOutput(j)
    \/ \E e \in Exports, p \in Printers : ExportReadOnly(e, p)
    \/ \E e \in Exports : RecordProtocolSanity(e)
    \/ \E e \in Exports, j \in Jobs :
         RecordTinyVisualCard(e, j) \/ RecordTrustedPrinter(e, j)
    \/ \E e \in Exports, c, j \in Jobs, r \in Printers :
         \/ PrintLongFixture(e, c, r, j)
         \/ RecordLongPrint(e, c, r, j)
         \/ RecordStableSupportGate(e, c, r, j)
    \/ \E p \in Printers : RecordPolicyReview(p)
    \/ RecordUserOptIn

Spec == Init /\ [][Next]_vars

-----------------------------------------------------------------------------
(* Every file is missing, cut short or an artifact of its kind, under the   *)
(* name that its contents call for.                                         *)
TypeOK ==
    /\ jobs \in [Jobs -> JobRecords \cup {None}]
    /\ stageA \in [Exports -> StageAs \cup {None, Torn}]
    /\ protocol \in Protocols \cup {None, Torn}
    /\ tiny \in [Jobs -> TinyCards \cup {None, Torn}]
    /\ trusted \in [Printers -> TrustRecords \cup {None, Torn}]
    /\ long \in [Jobs -> LongPrints \cup {None, Torn}]
    /\ gate \in [Printers -> Gates \cup {None, Torn}]
    /\ review \in {None, Torn, "agent_direct_policy_reviewed"}
    /\ optIn \in {None, Torn, "agent_direct_user_opt_in_recorded"}
    /\ editions \in [Stages -> Nat]
    /\ supported \subseteq Printers

(* All the evidence is of one printer, each artifact names the very ones    *)
(* that the next artifacts were built on, and both print jobs were printed  *)
(* on that printer and confirmed, the long one being long.                  *)
Earned(g) ==
    /\ \A evidence \in {g.stageA, g.protocol, g.tiny, g.trusted, g.long} :
         evidence.printer = g.printer
    /\ g.tiny.protocol = g.protocol
    /\ TrustMatches(g.stageA, g.protocol, g.tiny, g.trusted)
    /\ LongMatches(g.stageA, g.protocol, g.tiny, g.trusted, g.long)
    /\ ConfirmedOn(g.printer, g.tiny.job)
    /\ ConfirmedOn(g.printer, g.long.job) /\ jobs[g.long.job].long

(* A stable-support gate rests on an unbroken chain of evidence for the     *)
(* printer whose name it bears, although the operator may name any files,   *)
(* the protocol file is shared by all printers, evidence is recorded anew   *)
(* in place and commands are cut short (record_stable_support_gate).        *)
GateIsEarned == \A p \in Printers : Whole(gate[p]) => gate[p].printer = p /\ Earned(gate[p])

(* Agents get direct printing only where stable support was once earned:    *)
(* neither the review nor the opt-in can be had from a gate that was never  *)
(* completely written (record_agent_direct_policy_review, _user_opt_in).    *)
OptInRestsOnGate == Whole(review) \/ Whole(optIn) => supported # {}

=============================================================================

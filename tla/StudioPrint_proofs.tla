-------------------------- MODULE StudioPrint_proofs --------------------------
(***************************************************************************)
(* What the renderer shows of previews and jobs (StudioPrint), for any      *)
(* documents, previews, jobs, requests and length of the history.  Answers  *)
(* are late, so what holds when the daemon answers must still hold when the *)
(* answer is used: the daemon's records only ever grow.                     *)
(***************************************************************************)
EXTENDS StudioPrint, Lists_proofs, SequenceTheorems, TLAPS

(* The requests and their answers.                                          *)
CallRecords ==
    [kind : {"free", "render", "plan", "print", "confirm"},
     arg : Documents \cup Previews \cup Jobs \cup {None},
     phase : {"sent", "answered", "failed", "done"},
     answer : Previews \cup JobReports \cup {None}]

(* A job is on record, as reported or better.                               *)
BorneBy(report, j) ==
    report \in JobReports /\ j[report.job] \in {report.state, "confirmed"}

(* What a request carries, given the daemon's documents s and jobs j.       *)
Fits(r, s, j) ==
    /\ r.kind = "render" /\ r.phase = "sent" => r.arg \in Documents
    /\ r.kind = "render" /\ r.phase = "answered" => r.answer \in Previews
    /\ r.kind \in {"plan", "print"} => r.arg \in Previews
    /\ r.kind = "plan" /\ r.phase = "answered" => s[r.arg] \in Documents \ Blocked
    /\ r.kind = "confirm" => r.arg \in Jobs
    /\ r.kind \in {"print", "confirm"} /\ r.phase = "answered"
         => BorneBy(r.answer, j)

(* Every request carries what its kind asks for.                            *)
CallsFit ==
    /\ calls \in [Calls -> CallRecords]
    /\ \A c \in Calls : Fits(calls[c], stored, jobs)

(* The daemon has the document of each preview that has not expired.        *)
ValidAreStored == \A p \in valid : stored[p] # None

(* A preview that is ready is one the daemon has, so that its document is   *)
(* settled: an id that is still free might yet get a blocked one.           *)
ReadyIsStored ==
    preview.status = "ready" => stored[preview.of] \in Documents \ Blocked

(* The inductive invariant.                                                 *)
StudioInv ==
    /\ TypeOK
    /\ CallsFit
    /\ ValidAreStored
    /\ StudioTruthful
    /\ HistoryAgrees
    /\ BlockedNeverReady
    /\ ReadyIsStored

(* The daemon forgets no document and no job, and takes nothing back.       *)
Growing ==
    /\ stored' \in [Previews -> Documents \cup {None}]
    /\ jobs' \in [Jobs -> JobStates \cup {"none"}]
    /\ valid' \subseteq Previews
    /\ \A p \in Previews : stored[p] # None => stored'[p] = stored[p]
    /\ \A j \in Jobs : jobs[j] # "none" =>
         jobs'[j] = jobs[j] \/ (jobs[j] = "unverified" /\ jobs'[j] = "confirmed")
    /\ \A p \in valid' : stored'[p] # None

-----------------------------------------------------------------------------
(* The list of jobs after one more report.                                  *)
LEMMA PrependProperties ==
    ASSUME StudioAssumption, NEW h \in Seq(JobReports), NEW report \in JobReports
    PROVE  /\ Prepend(h, report) \in Seq(JobReports)
           /\ Len(Prepend(h, report)) <= MaxHistory
           /\ Prepend(h, report) # <<>>
           /\ Prepend(h, report)[1] = report
           /\ \A i \in DOMAIN Prepend(h, report) :
                \/ Prepend(h, report)[i] = report
                \/ \E k \in DOMAIN h : Prepend(h, report)[i] = h[k]
<1> DEFINE rest == Keep(h, Others(h, report))
           all == <<report>> \o rest
<1>1. Others(h, report) \in SUBSET (DOMAIN h)
  BY DEF Others
<1>2. /\ rest \in Seq(JobReports)
      /\ \A k \in DOMAIN rest : \E i \in DOMAIN h : rest[k] = h[i]
  BY <1>1, KeepElements
<1>3. MaxHistory \in Nat /\ MaxHistory >= 1
  BY DEF StudioAssumption
<1>4. Prepend(h, report) = IF Len(all) <= MaxHistory THEN all ELSE SubSeq(all, 1, MaxHistory)
  BY DEF Prepend
<1> HIDE DEF rest
<1>5. /\ all \in Seq(JobReports) /\ Len(all) = Len(rest) + 1
      /\ all[1] = report
      /\ \A i \in 2..Len(all) : all[i] = rest[i - 1]
  BY <1>2
<1>6. \A i \in DOMAIN all : all[i] = report \/ \E k \in DOMAIN h : all[i] = h[k]
  BY <1>2, <1>5
<1> HIDE DEF all
<1>7. CASE Len(all) <= MaxHistory
  <2>1. Prepend(h, report) = all
    BY <1>4, <1>7
  <2>2. all # <<>>
    BY <1>2, <1>5
  <2> QED
    BY <1>5, <1>6, <1>7, <2>1, <2>2
<1>8. CASE ~(Len(all) <= MaxHistory)
  <2>1. Prepend(h, report) = SubSeq(all, 1, MaxHistory)
    BY <1>4, <1>8
  <2>2. Len(all) \in Nat /\ MaxHistory <= Len(all)
    BY <1>2, <1>3, <1>5, <1>8
  <2>3. /\ SubSeq(all, 1, MaxHistory) \in Seq(JobReports)
        /\ Len(SubSeq(all, 1, MaxHistory)) = MaxHistory
        /\ \A i \in 1..MaxHistory : SubSeq(all, 1, MaxHistory)[i] = all[i]
    BY <1>3, <1>5, <2>2
  <2>4. DOMAIN SubSeq(all, 1, MaxHistory) = 1..MaxHistory
    BY <1>3, <2>3
  <2>5. SubSeq(all, 1, MaxHistory) # <<>>
    BY <1>3, <2>3
  <2>6. \A i \in 1..MaxHistory : i \in DOMAIN all
    BY <1>3, <1>5, <2>2
  <2> QED
    BY <1>3, <1>5, <1>6, <2>1, <2>3, <2>4, <2>5, <2>6
<1> QED
  BY <1>7, <1>8

(* What a request carries stays right while the daemon's records grow.      *)
LEMMA FitsStays ==
    ASSUME StudioAssumption, TypeOK, Growing, NEW r \in CallRecords, Fits(r, stored, jobs)
    PROVE  Fits(r, stored', jobs')
<1>1. ASSUME NEW report, BorneBy(report, jobs)
      PROVE  BorneBy(report, jobs')
  BY <1>1 DEF BorneBy, JobReports, JobStates, Growing
<1>2. \A p \in Previews : stored[p] \in Documents \ Blocked => stored'[p] \in Documents \ Blocked
  BY DEF Growing, StudioAssumption
<1> QED
  BY <1>1, <1>2 DEF Fits

(* What the page shows stays right while the daemon's records grow.         *)
LEMMA ShownStays ==
    ASSUME StudioAssumption, StudioInv, Growing, UNCHANGED ui
    PROVE  TypeOK' /\ ValidAreStored' /\ StudioTruthful' /\ HistoryAgrees'
           /\ BlockedNeverReady' /\ ReadyIsStored'
<1> USE DEF StudioInv
<1>1. TypeOK'
  BY DEF TypeOK, Growing, ui
<1>2. ValidAreStored'
  BY DEF ValidAreStored, Growing
<1>3. \A report \in JobReports : Borne(report) => Borne(report)'
  BY DEF Borne, JobReports, JobStates, Growing
<1>4. StudioTruthful'
  <2>1. \A i \in DOMAIN history : history[i] \in JobReports
    BY DEF TypeOK
  <2>2. print.status \in {"completed", "confirming"} => print.of \in JobReports
    BY DEF TypeOK
  <2> QED
    BY <1>3, <2>1, <2>2 DEF StudioTruthful, ui
<1>5. HistoryAgrees'
  BY DEF HistoryAgrees, ui
<1>6. BlockedNeverReady' /\ ReadyIsStored'
  <2>1. preview.status \in {"ready", "blocked"} => preview.of \in Previews
    BY DEF TypeOK
  <2>2. None \notin Blocked
    BY DEF StudioAssumption
  <2>3. /\ preview.status = "ready" => stored[preview.of] \in Documents \ Blocked
        /\ preview.status = "blocked" => stored[preview.of] \in Blocked
    BY DEF BlockedNeverReady, ReadyIsStored
  <2>4. \A p \in Previews : stored[p] # None => stored'[p] = stored[p]
    BY DEF Growing
  <2>5. None \notin Documents
    BY DEF StudioAssumption
  <2> QED
    BY <2>1, <2>2, <2>3, <2>4, <2>5 DEF BlockedNeverReady, ReadyIsStored, ui
<1> QED
  BY <1>1, <1>2, <1>4, <1>5, <1>6

(* A daemon that does nothing grows, one whose previews expire too.         *)
LEMMA DaemonAtRest ==
    ASSUME StudioInv, UNCHANGED <<stored, jobs>>, valid' \subseteq valid
    PROVE  Growing
BY DEF Growing, StudioInv, TypeOK, ValidAreStored

LEMMA OneCallChanges ==
    ASSUME StudioAssumption, StudioInv, Growing, NEW c \in Calls, NEW r \in CallRecords,
           calls' = [calls EXCEPT ![c] = r], Fits(r, stored', jobs')
    PROVE  CallsFit'
<1>1. calls \in [Calls -> CallRecords] /\ \A d \in Calls : Fits(calls[d], stored, jobs)
  BY DEF StudioInv, CallsFit
<1>2. calls' \in [Calls -> CallRecords]
  BY <1>1
<1>3. ASSUME NEW d \in Calls
      PROVE  Fits(calls'[d], stored', jobs')
  <2>1. CASE d = c
    BY <1>1, <2>1
  <2>2. CASE d # c
    <3>1. calls'[d] = calls[d] /\ calls[d] \in CallRecords
      BY <1>1, <2>2
    <3>2. TypeOK
      BY DEF StudioInv
    <3>3. Fits(calls[d], stored', jobs')
      BY <1>1, <3>1, <3>2, FitsStays
    <3> QED
      BY <3>1, <3>3
  <2> QED
    BY <2>1, <2>2
<1> QED
  BY <1>2, <1>3 DEF CallsFit

LEMMA FreshRequest ==
    ASSUME StudioAssumption, NEW kind \in {"render", "plan", "print", "confirm"},
           NEW arg, NEW s, NEW j,
           kind = "render" => arg \in Documents,
           kind \in {"plan", "print"} => arg \in Previews,
           kind = "confirm" => arg \in Jobs
    PROVE  Request(kind, arg) \in CallRecords /\ Fits(Request(kind, arg), s, j)
<1>1. arg \in Documents \cup Previews \cup Jobs \cup {None}
  OBVIOUS
<1>2. Request(kind, arg) \in CallRecords
  BY <1>1 DEF Request, CallRecords
<1>3. Fits(Request(kind, arg), s, j)
  BY DEF Request, Fits
<1> QED
  BY <1>2, <1>3

LEMMA FreeFits ==
    ASSUME NEW s, NEW j
    PROVE  Free \in CallRecords /\ Fits(Free, s, j)
<1>1. Free \in CallRecords
  BY DEF Free, CallRecords
<1>2. Fits(Free, s, j)
  BY DEF Free, Fits
<1> QED
  BY <1>1, <1>2

LEMMA RefusedFits ==
    ASSUME StudioInv, NEW c \in Calls, NEW s, NEW j
    PROVE  LET r == [calls[c] EXCEPT !.phase = "failed", !.answer = None]
           IN  r \in CallRecords /\ Fits(r, s, j)
<1>1. calls[c] \in CallRecords /\ Fits(calls[c], stored, jobs)
  BY DEF StudioInv, CallsFit
<1> DEFINE r == [calls[c] EXCEPT !.phase = "failed", !.answer = None]
<1>2. r \in CallRecords
  BY <1>1 DEF CallRecords
<1>3. r.kind = calls[c].kind /\ r.arg = calls[c].arg /\ r.phase = "failed"
  BY <1>1 DEF CallRecords
<1>4. Fits(r, s, j)
  BY <1>1, <1>3 DEF Fits
<1> QED
  BY <1>2, <1>4

LEMMA AnsweredFits ==
    ASSUME StudioInv, NEW c \in Calls, NEW s, NEW j, NEW a,
           a \in Previews \cup JobReports \cup {None},
           calls[c].kind = "render" => a \in Previews,
           calls[c].kind = "plan" => s[calls[c].arg] \in Documents \ Blocked,
           calls[c].kind \in {"print", "confirm"} => BorneBy(a, j)
    PROVE  LET r == [calls[c] EXCEPT !.phase = "answered", !.answer = a]
           IN  r \in CallRecords /\ Fits(r, s, j)
<1>1. calls[c] \in CallRecords /\ Fits(calls[c], stored, jobs)
  BY DEF StudioInv, CallsFit
<1> DEFINE r == [calls[c] EXCEPT !.phase = "answered", !.answer = a]
<1>2. r \in CallRecords
  BY <1>1 DEF CallRecords
<1>3. r.kind = calls[c].kind /\ r.arg = calls[c].arg /\ r.phase = "answered" /\ r.answer = a
  BY <1>1 DEF CallRecords
<1>4. Fits(r, s, j)
  BY <1>1, <1>3 DEF Fits
<1> QED
  BY <1>2, <1>4

-----------------------------------------------------------------------------
(* The steps.                                                               *)

(* Where only the page changes, its own state is what there is to show.     *)
LEMMA PageChanges ==
    ASSUME StudioAssumption, StudioInv, UNCHANGED <<stored, jobs, valid>>, TypeOK',
           CallsFit', StudioTruthful', HistoryAgrees', BlockedNeverReady', ReadyIsStored'
    PROVE  StudioInv'
<1>1. ValidAreStored'
  BY DEF StudioInv, ValidAreStored
<1> QED
  BY <1>1 DEF StudioInv

(* A page that shows nothing of a preview claims nothing of it.             *)
LEMMA PreviewIdle ==
    ASSUME preview'.status \notin {"ready", "blocked"}
    PROVE  BlockedNeverReady' /\ ReadyIsStored'
BY DEF BlockedNeverReady, ReadyIsStored

LEMMA PreviewKept ==
    ASSUME StudioInv, UNCHANGED <<preview, stored>>
    PROVE  BlockedNeverReady' /\ ReadyIsStored'
BY DEF BlockedNeverReady, ReadyIsStored, StudioInv

(* With the history unchanged, a print status without a report claims       *)
(* nothing.                                                                 *)
LEMMA PrintIdle ==
    ASSUME StudioInv, UNCHANGED <<history, jobs>>, print'.status \notin {"completed", "confirming"}
    PROVE  StudioTruthful' /\ HistoryAgrees'
BY DEF StudioInv, StudioTruthful, HistoryAgrees, Borne

LEMMA PrintKept ==
    ASSUME StudioInv, UNCHANGED <<history, jobs, print>>
    PROVE  StudioTruthful' /\ HistoryAgrees'
BY DEF StudioInv, StudioTruthful, HistoryAgrees, Borne

LEMMA CallsKept ==
    ASSUME StudioInv, UNCHANGED <<calls, stored, jobs>>
    PROVE  CallsFit'
BY DEF StudioInv, CallsFit

(* A new request of the page, the daemon being at rest.                     *)
LEMMA CallSent ==
    ASSUME StudioAssumption, StudioInv, UNCHANGED <<stored, jobs, valid>>,
           NEW kind \in {"render", "plan", "print", "confirm"}, NEW arg,
           kind = "render" => arg \in Documents,
           kind \in {"plan", "print"} => arg \in Previews,
           kind = "confirm" => arg \in Jobs,
           Send(kind, arg)
    PROVE  CallsFit'
<1>1. Growing
  BY DaemonAtRest
<1>2. PICK c \in Calls : calls' = [calls EXCEPT ![c] = Request(kind, arg)]
  BY DEF Send
<1>3. Request(kind, arg) \in CallRecords /\ Fits(Request(kind, arg), stored', jobs')
  BY FreshRequest
<1> QED
  BY <1>1, <1>2, <1>3, OneCallChanges

LEMMA CallEnded ==
    ASSUME StudioAssumption, StudioInv, UNCHANGED <<stored, jobs, valid>>,
           NEW c \in Calls, Hangup(c)
    PROVE  CallsFit'
<1>1. Growing
  BY DaemonAtRest
<1>2. Free \in CallRecords /\ Fits(Free, stored', jobs')
  BY FreeFits
<1> QED
  BY <1>1, <1>2, OneCallChanges DEF Hangup

LEMMA CallRefused ==
    ASSUME StudioAssumption, StudioInv, UNCHANGED <<stored, jobs, valid>>,
           NEW c \in Calls, Refuse(c)
    PROVE  CallsFit'
<1>1. Growing
  BY DaemonAtRest
<1> DEFINE r == [calls[c] EXCEPT !.phase = "failed", !.answer = None]
<1>2. r \in CallRecords /\ Fits(r, stored', jobs')
  BY RefusedFits
<1>3. calls' = [calls EXCEPT ![c] = r]
  BY DEF Refuse
<1> HIDE DEF r
<1> QED
  BY <1>1, <1>2, <1>3, OneCallChanges

LEMMA CallAnswered ==
    ASSUME StudioAssumption, StudioInv, Growing, NEW c \in Calls, NEW a, Answer(c, a),
           a \in Previews \cup JobReports \cup {None},
           calls[c].kind = "render" => a \in Previews,
           calls[c].kind = "plan" => stored'[calls[c].arg] \in Documents \ Blocked,
           calls[c].kind \in {"print", "confirm"} => BorneBy(a, jobs')
    PROVE  CallsFit'
<1> DEFINE r == [calls[c] EXCEPT !.phase = "answered", !.answer = a]
<1>1. r \in CallRecords /\ Fits(r, stored', jobs')
  BY AnsweredFits
<1>2. calls' = [calls EXCEPT ![c] = r]
  BY DEF Answer
<1> HIDE DEF r
<1> QED
  BY <1>1, <1>2, OneCallChanges

(* The daemon serves a request and the page stays as it is.                 *)
LEMMA DaemonSteps ==
    ASSUME StudioAssumption, StudioInv, Growing, UNCHANGED ui, CallsFit'
    PROVE  StudioInv'
BY ShownStays DEF StudioInv

LEMMA StudioInit == ASSUME StudioAssumption PROVE Init => StudioInv
<1> SUFFICES ASSUME Init PROVE StudioInv
  OBVIOUS
<1>1. TypeOK
  <2>1. <<>> \in Seq(JobReports)
    OBVIOUS
  <2> HIDE DEF JobReports
  <2> QED
    BY <2>1 DEF Init, TypeOK, Idle
<1>2. CallsFit
  BY FreeFits DEF Init, CallsFit
<1>3. ValidAreStored
  BY DEF Init, ValidAreStored
<1>4. StudioTruthful /\ HistoryAgrees
  BY DEF Init, Idle, StudioTruthful, HistoryAgrees, StudioAssumption
<1>5. BlockedNeverReady /\ ReadyIsStored
  BY DEF Init, Idle, BlockedNeverReady, ReadyIsStored
<1> QED
  BY <1>1, <1>2, <1>3, <1>4, <1>5 DEF StudioInv

LEMMA EditStep ==
    ASSUME StudioAssumption, StudioInv, NEW d \in Documents, Edit(d)
    PROVE  StudioInv'
<1>1. UNCHANGED <<stored, jobs, valid>> /\ UNCHANGED <<history, calls>>
  BY DEF Edit, daemon
<1>2. preview' = [status |-> "idle", of |-> None] /\ print' = [status |-> "idle", of |-> None]
  BY DEF Edit, Invalidate, Idle
<1>3. TypeOK'
  BY <1>1, <1>2 DEF StudioInv, TypeOK, Edit
<1>4. CallsFit'
  BY <1>1, CallsKept
<1>5. BlockedNeverReady' /\ ReadyIsStored'
  BY <1>2, PreviewIdle
<1>6. StudioTruthful' /\ HistoryAgrees'
  BY <1>1, <1>2, PrintIdle
<1> QED
  BY <1>1, <1>3, <1>4, <1>5, <1>6, PageChanges

LEMMA ReloadStep ==
    ASSUME StudioAssumption, StudioInv, Reload
    PROVE  StudioInv'
<1>1. UNCHANGED <<stored, jobs, valid>> /\ UNCHANGED <<document, history>>
  BY DEF Reload, daemon
<1>2. preview' = [status |-> "idle", of |-> None] /\ print' = [status |-> "idle", of |-> None]
  BY DEF Reload, Invalidate, Idle
<1>3. TypeOK'
  BY <1>1, <1>2 DEF StudioInv, TypeOK
<1>4. CallsFit'
  BY FreeFits DEF Reload, CallsFit
<1>5. BlockedNeverReady' /\ ReadyIsStored'
  BY <1>2, PreviewIdle
<1>6. StudioTruthful' /\ HistoryAgrees'
  BY <1>1, <1>2, PrintIdle
<1> QED
  BY <1>1, <1>3, <1>4, <1>5, <1>6, PageChanges

LEMMA RunPreviewStep ==
    ASSUME StudioAssumption, StudioInv, RunPreview
    PROVE  StudioInv'
<1>1. UNCHANGED <<stored, jobs, valid>> /\ UNCHANGED <<document, history>>
  BY DEF RunPreview, daemon
<1>2. preview' = [status |-> "running", of |-> None] /\ print' = [status |-> "idle", of |-> None]
  BY DEF RunPreview, Idle
<1>3. TypeOK'
  BY <1>1, <1>2 DEF StudioInv, TypeOK
<1>4. CallsFit'
  <2>1. document \in Documents /\ Send("render", document)
    BY DEF StudioInv, TypeOK, RunPreview
  <2> QED
    BY <1>1, <2>1, CallSent
<1>5. BlockedNeverReady' /\ ReadyIsStored'
  BY <1>2, PreviewIdle
<1>6. StudioTruthful' /\ HistoryAgrees'
  BY <1>1, <1>2, PrintIdle
<1> QED
  BY <1>1, <1>3, <1>4, <1>5, <1>6, PageChanges

LEMMA RunPrintStep ==
    ASSUME StudioAssumption, StudioInv, RunPrint
    PROVE  StudioInv'
<1>1. UNCHANGED <<stored, jobs, valid>> /\ UNCHANGED <<document, preview, history>>
  BY DEF RunPrint, daemon
<1>2. print' = [status |-> "running", of |-> None]
  BY DEF RunPrint
<1>3. TypeOK'
  BY <1>1, <1>2 DEF StudioInv, TypeOK
<1>4. CallsFit'
  <2>1. preview.of \in Previews /\ Send("print", preview.of)
    BY DEF StudioInv, TypeOK, RunPrint
  <2> QED
    BY <1>1, <2>1, CallSent
<1>5. BlockedNeverReady' /\ ReadyIsStored'
  BY <1>1, PreviewKept
<1>6. StudioTruthful' /\ HistoryAgrees'
  BY <1>1, <1>2, PrintIdle
<1> QED
  BY <1>1, <1>3, <1>4, <1>5, <1>6, PageChanges

LEMMA ConfirmOutputStep ==
    ASSUME StudioAssumption, StudioInv, ConfirmOutput
    PROVE  StudioInv'
<1>1. UNCHANGED <<stored, jobs, valid>> /\ UNCHANGED <<document, preview, history>>
  BY DEF ConfirmOutput, daemon
<1>2. print.status = "completed" /\ print' = [status |-> "confirming", of |-> print.of]
  BY DEF ConfirmOutput, CanConfirm
<1>3. print.of \in JobReports
  BY <1>2 DEF StudioInv, TypeOK
<1>4. TypeOK'
  BY <1>1, <1>2, <1>3 DEF StudioInv, TypeOK
<1>5. CallsFit'
  <2>1. print.of.job \in Jobs /\ Send("confirm", print.of.job)
    BY <1>3 DEF JobReports, ConfirmOutput
  <2> QED
    BY <1>1, <2>1, CallSent
<1>6. BlockedNeverReady' /\ ReadyIsStored'
  BY <1>1, PreviewKept
<1>7. StudioTruthful' /\ HistoryAgrees'
  BY <1>1, <1>2 DEF StudioInv, StudioTruthful, HistoryAgrees, Borne
<1> QED
  BY <1>1, <1>4, <1>5, <1>6, <1>7, PageChanges

(* The daemon's half of a request.                                          *)
LEMMA RenderStep ==
    ASSUME StudioAssumption, StudioInv, NEW c \in Calls, Render(c)
    PROVE  StudioInv'
<1>1. /\ calls[c].kind = "render" /\ calls[c].arg \in Documents
      /\ UNCHANGED ui /\ UNCHANGED jobs
  BY DEF Render, Waiting, StudioInv, CallsFit, Fits
<1>2. PICK p \in Previews :
         /\ stored[p] = None
         /\ stored' = [stored EXCEPT ![p] = calls[c].arg]
         /\ valid' = valid \cup {p}
         /\ Answer(c, p)
  BY DEF Render, FreshPreviews
<1>3. Growing
  <2>1. /\ stored \in [Previews -> Documents \cup {None}] /\ valid \subseteq Previews
        /\ jobs \in [Jobs -> JobStates \cup {"none"}]
        /\ \A q \in valid : stored[q] # None
    BY DEF StudioInv, TypeOK, ValidAreStored
  <2>2. None \notin Documents
    BY DEF StudioAssumption
  <2> QED
    BY <1>1, <1>2, <2>1, <2>2 DEF Growing
<1>4. CallsFit'
  BY <1>1, <1>2, <1>3, CallAnswered
<1> QED
  BY <1>1, <1>3, <1>4, DaemonSteps

LEMMA PlanStep ==
    ASSUME StudioAssumption, StudioInv, NEW c \in Calls, Plan(c)
    PROVE  StudioInv'
<1>1. /\ calls[c].kind = "plan" /\ calls[c].arg \in Previews
      /\ UNCHANGED ui /\ UNCHANGED <<stored, jobs, valid>>
  BY DEF Plan, daemon, Waiting, StudioInv, CallsFit, Fits
<1>2. Growing
  BY <1>1, DaemonAtRest
<1>3. CallsFit'
  <2>1. CASE Allowed(calls[c].arg)
    <3>1. Answer(c, None)
      BY <2>1 DEF Plan
    <3>2. calls[c].arg \in valid /\ stored[calls[c].arg] \notin Blocked
      BY <2>1 DEF Allowed
    <3>3. stored'[calls[c].arg] \in Documents \ Blocked
      BY <1>1, <3>2 DEF StudioInv, TypeOK, ValidAreStored
    <3> QED
      BY <1>1, <1>2, <3>1, <3>3, CallAnswered
  <2>2. CASE ~Allowed(calls[c].arg)
    BY <1>1, <2>2, CallRefused DEF Plan
  <2> QED
    BY <2>1, <2>2
<1> QED
  BY <1>1, <1>2, <1>3, DaemonSteps

LEMMA PrintPreviewStep ==
    ASSUME StudioAssumption, StudioInv, NEW c \in Calls, PrintPreview(c)
    PROVE  StudioInv'
<1>1. calls[c].kind = "print" /\ UNCHANGED ui /\ UNCHANGED <<stored, valid>>
  BY DEF PrintPreview, Waiting
<1>2. CASE Refuse(c) /\ UNCHANGED jobs
  <2>1. CallsFit' /\ Growing
    BY <1>1, <1>2, CallRefused, DaemonAtRest
  <2> QED
    BY <1>1, <2>1, DaemonSteps
<1>3. CASE \E j \in FreshJobs, s \in {"unverified", "failed"} :
             /\ jobs' = [jobs EXCEPT ![j] = s]
             /\ Answer(c, [job |-> j, state |-> s])
  <2>1. PICK j \in Jobs, s \in {"unverified", "failed"} :
             /\ jobs[j] = "none"
             /\ jobs' = [jobs EXCEPT ![j] = s]
             /\ Answer(c, [job |-> j, state |-> s])
    BY <1>3 DEF FreshJobs
  <2>2. Growing
    <3>1. jobs \in [Jobs -> JobStates \cup {"none"}] /\ s \in JobStates
      BY DEF StudioInv, TypeOK, JobStates
    <3>2. jobs' \in [Jobs -> JobStates \cup {"none"}]
      BY <2>1, <3>1
    <3>3. \A i \in Jobs : jobs[i] # "none" => jobs'[i] = jobs[i]
      BY <2>1, <3>1
    <3> QED
      BY <1>1, <3>2, <3>3 DEF StudioInv, TypeOK, ValidAreStored, Growing
  <2>3. [job |-> j, state |-> s] \in JobReports /\ BorneBy([job |-> j, state |-> s], jobs')
    <3>1. jobs'[j] = s
      BY <2>1 DEF StudioInv, TypeOK
    <3> QED
      BY <3>1 DEF JobReports, JobStates, BorneBy
  <2>4. CallsFit'
    BY <1>1, <2>1, <2>2, <2>3, CallAnswered
  <2> QED
    BY <1>1, <2>2, <2>4, DaemonSteps
<1> QED
  BY <1>2, <1>3 DEF PrintPreview

LEMMA ConfirmStep ==
    ASSUME StudioAssumption, StudioInv, NEW c \in Calls, Confirm(c)
    PROVE  StudioInv'
<1>1. /\ calls[c].kind = "confirm" /\ calls[c].arg \in Jobs
      /\ UNCHANGED ui /\ UNCHANGED <<stored, valid>>
  BY DEF Confirm, Waiting, StudioInv, CallsFit, Fits
<1>2. CASE Refuse(c) /\ UNCHANGED jobs
  <2>1. CallsFit' /\ Growing
    BY <1>1, <1>2, CallRefused, DaemonAtRest
  <2> QED
    BY <1>1, <2>1, DaemonSteps
<1>3. CASE /\ jobs[calls[c].arg] = "unverified"
           /\ jobs' = [jobs EXCEPT ![calls[c].arg] = "confirmed"]
           /\ Answer(c, [job |-> calls[c].arg, state |-> "confirmed"])
  <2>1. PICK j \in Jobs : j = calls[c].arg
    BY <1>1
  <2>2. /\ jobs[j] = "unverified"
        /\ jobs' = [jobs EXCEPT ![j] = "confirmed"]
        /\ Answer(c, [job |-> j, state |-> "confirmed"])
    BY <1>3, <2>1
  <2>3. jobs \in [Jobs -> JobStates \cup {"none"}] /\ "confirmed" \in JobStates
    BY DEF StudioInv, TypeOK, JobStates
  <2>4. Growing
    <3>1. jobs' \in [Jobs -> JobStates \cup {"none"}]
      BY <2>2, <2>3
    <3>2. \A i \in Jobs : jobs[i] # "none" =>
            jobs'[i] = jobs[i] \/ (jobs[i] = "unverified" /\ jobs'[i] = "confirmed")
      BY <2>2, <2>3
    <3> QED
      BY <1>1, <3>1, <3>2 DEF StudioInv, TypeOK, ValidAreStored, Growing
  <2>5. [job |-> j, state |-> "confirmed"] \in JobReports
        /\ BorneBy([job |-> j, state |-> "confirmed"], jobs')
    <3>1. jobs'[j] = "confirmed"
      BY <2>2, <2>3
    <3> QED
      BY <3>1 DEF JobReports, JobStates, BorneBy
  <2>6. CallsFit'
    BY <1>1, <2>2, <2>4, <2>5, CallAnswered
  <2> QED
    BY <1>1, <2>4, <2>6, DaemonSteps
<1> QED
  BY <1>2, <1>3 DEF Confirm

LEMMA ExpireStep ==
    ASSUME StudioAssumption, StudioInv, NEW p \in Previews, Expire(p)
    PROVE  StudioInv'
<1>1. UNCHANGED ui /\ UNCHANGED <<calls, stored, jobs>> /\ valid' \subseteq valid
  BY DEF Expire
<1>2. Growing /\ CallsFit'
  BY <1>1, DaemonAtRest, CallsKept
<1> QED
  BY <1>1, <1>2, DaemonSteps

LEMMA DisconnectStep ==
    ASSUME StudioAssumption, StudioInv, NEW c \in Calls, Disconnect(c)
    PROVE  StudioInv'
<1>1. UNCHANGED ui /\ UNCHANGED <<stored, jobs, valid>> /\ Refuse(c)
  BY DEF Disconnect, daemon
<1>2. Growing /\ CallsFit'
  BY <1>1, DaemonAtRest, CallRefused
<1> QED
  BY <1>1, <1>2, DaemonSteps

(* The page's half of an answer.                                            *)
LEMMA RenderedStep ==
    ASSUME StudioAssumption, StudioInv, NEW c \in Calls, Rendered(c)
    PROVE  StudioInv'
<1>1. UNCHANGED ui /\ UNCHANGED <<stored, jobs, valid>>
  BY DEF Rendered, daemon
<1>2. calls[c].answer \in Previews /\ calls' = [calls EXCEPT ![c] = Request("plan", calls[c].answer)]
  BY DEF Rendered, Answered, StudioInv, CallsFit, Fits
<1>3. Growing
  BY <1>1, DaemonAtRest
<1>4. CallsFit'
  <2>1. LET r == Request("plan", calls[c].answer)
        IN  r \in CallRecords /\ Fits(r, stored', jobs')
    BY <1>2, FreshRequest
  <2> QED
    BY <1>2, <1>3, <2>1, OneCallChanges
<1> QED
  BY <1>1, <1>3, <1>4, DaemonSteps

LEMMA PlannedStep ==
    ASSUME StudioAssumption, StudioInv, NEW c \in Calls, Planned(c)
    PROVE  StudioInv'
<1>1. UNCHANGED <<stored, jobs, valid>> /\ UNCHANGED <<document, print, history>> /\ Hangup(c)
  BY DEF Planned, daemon
<1>2. calls[c].arg \in Previews /\ stored[calls[c].arg] \in Documents \ Blocked
  BY DEF Planned, Answered, StudioInv, CallsFit, Fits
<1>3. preview' = [status |-> "ready", of |-> calls[c].arg]
  BY DEF Planned
<1>4. TypeOK'
  BY <1>1, <1>2, <1>3 DEF StudioInv, TypeOK
<1>5. CallsFit'
  BY <1>1, CallEnded
<1>6. BlockedNeverReady' /\ ReadyIsStored'
  BY <1>1, <1>2, <1>3 DEF BlockedNeverReady, ReadyIsStored
<1>7. StudioTruthful' /\ HistoryAgrees'
  BY <1>1, PrintKept
<1> QED
  BY <1>1, <1>4, <1>5, <1>6, <1>7, PageChanges

LEMMA PreviewFailsStep ==
    ASSUME StudioAssumption, StudioInv, NEW c \in Calls, PreviewFails(c)
    PROVE  StudioInv'
<1>1. UNCHANGED <<stored, jobs, valid>> /\ UNCHANGED <<document, print, history>> /\ Hangup(c)
  BY DEF PreviewFails, daemon
<1>2. CallsFit' /\ StudioTruthful' /\ HistoryAgrees'
  BY <1>1, CallEnded, PrintKept
<1>3. TypeOK' /\ BlockedNeverReady' /\ ReadyIsStored'
  <2>1. CASE calls[c].kind = "plan" /\ stored[calls[c].arg] \in Blocked
    <3>1. calls[c].arg \in Previews
      BY <2>1 DEF StudioInv, CallsFit, Fits
    <3>2. preview' = [status |-> "blocked", of |-> calls[c].arg]
      BY <2>1 DEF PreviewFails
    <3>3. TypeOK'
      BY <1>1, <3>1, <3>2 DEF StudioInv, TypeOK
    <3> QED
      BY <1>1, <2>1, <3>2, <3>3 DEF BlockedNeverReady, ReadyIsStored
  <2>2. CASE ~(calls[c].kind = "plan" /\ stored[calls[c].arg] \in Blocked)
    <3>1. preview' = [status |-> "error", of |-> None]
      BY <2>2 DEF PreviewFails
    <3>2. TypeOK'
      BY <1>1, <3>1 DEF StudioInv, TypeOK
    <3> QED
      BY <3>1, <3>2, PreviewIdle
  <2> QED
    BY <2>1, <2>2
<1> QED
  BY <1>1, <1>2, <1>3, PageChanges

LEMMA JobReturnedStep ==
    ASSUME StudioAssumption, StudioInv, NEW c \in Calls, JobReturned(c)
    PROVE  StudioInv'
<1>1. UNCHANGED <<stored, jobs, valid>> /\ UNCHANGED <<document, preview>> /\ Hangup(c)
  BY DEF JobReturned, daemon
<1>2. BorneBy(calls[c].answer, jobs)
  BY DEF JobReturned, Answered, StudioInv, CallsFit, Fits
<1>3. PICK report \in JobReports : report = calls[c].answer /\ Borne(report)
  BY <1>2 DEF BorneBy, Borne
<1>4. history' = Prepend(history, report) /\ print' = [status |-> "completed", of |-> report]
  BY <1>3 DEF JobReturned
<1>5. /\ history' \in Seq(JobReports) /\ Len(history') <= MaxHistory
      /\ history' # <<>> /\ history'[1] = report
      /\ \A i \in DOMAIN history' : history'[i] = report \/ \E k \in DOMAIN history : history'[i] = history[k]
  <2>1. history \in Seq(JobReports)
    BY DEF StudioInv, TypeOK
  <2>2. /\ Prepend(history, report) \in Seq(JobReports)
        /\ Len(Prepend(history, report)) <= MaxHistory
        /\ Prepend(history, report) # <<>>
        /\ Prepend(history, report)[1] = report
        /\ \A i \in DOMAIN Prepend(history, report) :
             \/ Prepend(history, report)[i] = report
             \/ \E k \in DOMAIN history : Prepend(history, report)[i] = history[k]
    BY <2>1, PrependProperties
  <2> QED
    BY <1>4, <2>2
<1>6. TypeOK'
  BY <1>1, <1>4, <1>5 DEF StudioInv, TypeOK
<1>7. CallsFit' /\ BlockedNeverReady' /\ ReadyIsStored'
  BY <1>1, CallEnded, PreviewKept
<1>8. HistoryAgrees'
  BY <1>4, <1>5 DEF HistoryAgrees
<1>9. StudioTruthful'
  BY <1>1, <1>3, <1>4, <1>5 DEF StudioInv, StudioTruthful, Borne
<1> QED
  BY <1>1, <1>6, <1>7, <1>8, <1>9, PageChanges

LEMMA JobFailsStep ==
    ASSUME StudioAssumption, StudioInv, NEW c \in Calls, JobFails(c)
    PROVE  StudioInv'
<1>1. UNCHANGED <<stored, jobs, valid>> /\ UNCHANGED <<document, preview, history>> /\ Hangup(c)
  BY DEF JobFails, daemon
<1>2. print' = [status |-> "error", of |-> None]
  BY DEF JobFails
<1>3. TypeOK'
  BY <1>1, <1>2 DEF StudioInv, TypeOK
<1>4. CallsFit' /\ BlockedNeverReady' /\ ReadyIsStored'
  BY <1>1, CallEnded, PreviewKept
<1>5. StudioTruthful' /\ HistoryAgrees'
  BY <1>1, <1>2, PrintIdle
<1> QED
  BY <1>1, <1>3, <1>4, <1>5, PageChanges

LEMMA StudioStutter ==
    ASSUME StudioAssumption, StudioInv, UNCHANGED vars
    PROVE  StudioInv'
<1>1. UNCHANGED ui /\ UNCHANGED <<stored, jobs, calls>> /\ valid' \subseteq valid
  BY DEF vars, ui
<1>2. Growing /\ CallsFit'
  BY <1>1, DaemonAtRest, CallsKept
<1> QED
  BY <1>1, <1>2, DaemonSteps

LEMMA StudioNext ==
    ASSUME StudioAssumption
    PROVE  StudioInv /\ [Next]_vars => StudioInv'
<1> SUFFICES ASSUME StudioInv, [Next]_vars PROVE StudioInv'
  OBVIOUS
<1>1. CASE \E d \in Documents : Edit(d)
  BY <1>1, EditStep
<1>2. CASE RunPreview \/ RunPrint \/ ConfirmOutput \/ Reload
  BY <1>2, RunPreviewStep, RunPrintStep, ConfirmOutputStep, ReloadStep
<1>3. ASSUME NEW c \in Calls, Serve(c) \/ Return(c) \/ Disconnect(c)
      PROVE  StudioInv'
  <2>1. CASE Serve(c)
    BY <2>1, RenderStep, PlanStep, PrintPreviewStep, ConfirmStep DEF Serve
  <2>2. CASE Return(c)
    BY <2>2, RenderedStep, PlannedStep, PreviewFailsStep, JobReturnedStep, JobFailsStep DEF Return
  <2>3. CASE Disconnect(c)
    BY <2>3, DisconnectStep
  <2> QED
    BY <1>3, <2>1, <2>2, <2>3
<1>4. CASE \E p \in Previews : Expire(p)
  BY <1>4, ExpireStep
<1>5. CASE UNCHANGED vars
  BY <1>5, StudioStutter
<1> QED
  BY <1>1, <1>2, <1>3, <1>4, <1>5 DEF Next

-----------------------------------------------------------------------------
(* The inductive invariant holds throughout: what the page shows, what its  *)
(* requests carry and what the daemon has on record fit together.           *)
THEOREM StudioInvariant == Spec => []StudioInv
<1>1. Init => StudioInv
  BY StudioInit, StudioAssumption
<1>2. StudioInv /\ [Next]_vars => StudioInv'
  BY StudioNext, StudioAssumption
<1> QED
  BY <1>1, <1>2, PTL DEF Spec

(* The workflow's states, the history and the daemon's records keep their   *)
(* types: a status with a preview or a report never comes without it.       *)
THEOREM StudioTypeCorrect == Spec => []TypeOK
<1>1. StudioInv => TypeOK
  BY DEF StudioInv
<1> QED
  BY <1>1, StudioInvariant, PTL

(* The job history and the print status never show a job as better than the *)
(* daemon's record of it.                                                   *)
THEOREM StudioNeverBoasts == Spec => []StudioTruthful
<1>1. StudioInv => StudioTruthful
  BY DEF StudioInv
<1> QED
  BY <1>1, StudioInvariant, PTL

(* The history is bounded and begins with the job that the print status     *)
(* shows.                                                                   *)
THEOREM HistoryMatchesStatus == Spec => []HistoryAgrees
<1>1. StudioInv => HistoryAgrees
  BY DEF StudioInv
<1> QED
  BY <1>1, StudioInvariant, PTL

(* A preview that its safety report blocks never becomes ready, whatever    *)
(* was edited, reloaded, expired or answered late in between.               *)
THEOREM BlockedStaysUnready == Spec => []BlockedNeverReady
<1>1. StudioInv => BlockedNeverReady
  BY DEF StudioInv
<1> QED
  BY <1>1, StudioInvariant, PTL
=============================================================================

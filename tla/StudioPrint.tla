----------------------------- MODULE StudioPrint -----------------------------
(***************************************************************************)
(* The renderer's way from a document to paper (App.tsx): runPreview,       *)
(* runPrint and confirmPrintOutput are coroutines that wait for the daemon  *)
(* while the user goes on editing, and each sets the workflow state when    *)
(* its answer arrives.  The daemon is kept as far as the renderer sees it;  *)
(* PrintQueue models it in full.                                            *)
(***************************************************************************)
EXTENDS Integers, Sequences, FiniteSets, Lists

CONSTANTS Documents,
          Blocked,      \* documents whose safety report refuses printing
          Previews,     \* bound: preview ids
          Jobs,         \* bound: job ids
          Calls,        \* bound: requests in flight
          MaxHistory,   \* MAX_STORED_JOBS
          None

ASSUME StudioAssumption ==
    /\ Blocked \subseteq Documents
    /\ MaxHistory \in Nat \ {0}
    /\ None \notin Documents \cup Previews \cup Jobs \cup Calls

VARIABLES document,   \* the document in the editor
          preview,    \* previewWorkflow
          print,      \* printWorkflow
          history,    \* jobHistory, which localStorage always agrees with
          calls,      \* the coroutines' requests
          stored,     \* daemon: preview id -> the document it shows
          valid,      \* daemon: previews that have not expired
          jobs        \* daemon: job id -> its state

ui == <<document, preview, print, history>>
daemon == <<stored, valid, jobs>>
vars == <<document, preview, print, history, calls, stored, valid, jobs>>

-----------------------------------------------------------------------------
JobStates == {"unverified", "failed", "confirmed"}
JobReports == [job : Jobs, state : JobStates]

Free == [kind |-> "free", arg |-> None, phase |-> "done", answer |-> None]

Request(kind, arg) == [kind |-> kind, arg |-> arg, phase |-> "sent", answer |-> None]

Idle(content) == [status |-> "idle", of |-> content]

Waiting(c, kind) == calls[c].kind = kind /\ calls[c].phase = "sent"
Answered(c, kinds) == calls[c].kind \in kinds /\ calls[c].phase = "answered"
Refused(c, kinds) == calls[c].kind \in kinds /\ calls[c].phase = "failed"

FreshPreviews == {p \in Previews : stored[p] = None}
FreshJobs == {j \in Jobs : jobs[j] = "none"}

(* Bound: an id is left for every request that may need one.                *)
RoomFor(kind, ids) ==
    Cardinality({c \in Calls : Waiting(c, kind)}) < Cardinality(ids)

Send(kind, arg) ==
    \E c \in Calls :
      /\ calls[c] = Free
      /\ calls' = [calls EXCEPT ![c] = Request(kind, arg)]

Answer(c, a) == calls' = [calls EXCEPT ![c].phase = "answered", ![c].answer = a]
Refuse(c) == calls' = [calls EXCEPT ![c].phase = "failed", ![c].answer = None]
Hangup(c) == calls' = [calls EXCEPT ![c] = Free]

(* invalidatePreview.                                                       *)
Invalidate == preview' = Idle(None) /\ print' = Idle(None)

Allowed(p) == p \in valid /\ stored[p] \notin Blocked

(* Where other jobs than the reported one stand in a history.               *)
Others(h, report) == {i \in DOMAIN h : h[i].job # report.job}

(* Mutant: the list is not cut.                                             *)
PrependUncut(h, report) == <<report>> \o Keep(h, Others(h, report))

(* prependStoredPrintJob: the newest first, each job once.                  *)
Prepend(h, report) ==
    LET all == <<report>> \o Keep(h, Others(h, report))
    IN  IF Len(all) <= MaxHistory THEN all ELSE SubSeq(all, 1, MaxHistory)

-----------------------------------------------------------------------------
Init ==
    /\ document \in Documents
    /\ preview = Idle(None)
    /\ print = Idle(None)
    /\ history = <<>>
    /\ calls = [c \in Calls |-> Free]
    /\ stored = [p \in Previews |-> None]
    /\ valid = {}
    /\ jobs = [j \in Jobs |-> "none"]

(* commitDocument, undo, redo and opening a project: whatever changes the   *)
(* document invalidates the preview.                                        *)
Edit(d) ==
    /\ document' = d
    /\ Invalidate
    /\ UNCHANGED <<history, calls, daemon>>

RunPreview ==
    /\ preview.status # "running"
    /\ RoomFor("render", FreshPreviews)
    /\ preview' = [status |-> "running", of |-> None]
    /\ print' = Idle(None)
    /\ Send("render", document)
    /\ UNCHANGED <<document, history, daemon>>

(* Daemon: POST /v1/render/document-preview.                                *)
Render(c) ==
    /\ Waiting(c, "render")
    /\ \E p \in FreshPreviews :
         /\ stored' = [stored EXCEPT ![p] = calls[c].arg]
         /\ valid' = valid \cup {p}
         /\ Answer(c, p)
    /\ UNCHANGED <<ui, jobs>>

(* runPreview goes on with planApprovedPreview.                             *)
Rendered(c) ==
    /\ Answered(c, {"render"})
    /\ calls' = [calls EXCEPT ![c] = Request("plan", calls[c].answer)]
    /\ UNCHANGED <<ui, daemon>>

(* Mutant: the plan is made without a look at the safety report.            *)
PlanUnchecked(c) ==
    /\ Waiting(c, "plan")
    /\ IF calls[c].arg \in valid THEN Answer(c, None) ELSE Refuse(c)
    /\ UNCHANGED <<ui, daemon>>

(* Daemon: POST /v1/jobs/plan.                                              *)
Plan(c) ==
    /\ Waiting(c, "plan")
    /\ IF Allowed(calls[c].arg) THEN Answer(c, None) ELSE Refuse(c)
    /\ UNCHANGED <<ui, daemon>>

Planned(c) ==
    /\ Answered(c, {"plan"})
    /\ preview' = [status |-> "ready", of |-> calls[c].arg]
    /\ Hangup(c)
    /\ UNCHANGED <<document, print, history, daemon>>

(* Mutant: an error is not shown.                                           *)
PreviewFailsSilently(c) ==
    /\ Refused(c, {"render", "plan"})
    /\ Hangup(c)
    /\ UNCHANGED <<ui, daemon>>

(* The two catch clauses of runPreview.                                     *)
PreviewFails(c) ==
    /\ Refused(c, {"render", "plan"})
    /\ preview' = IF calls[c].kind = "plan" /\ stored[calls[c].arg] \in Blocked
                    THEN [status |-> "blocked", of |-> calls[c].arg]
                    ELSE [status |-> "error", of |-> None]
    /\ Hangup(c)
    /\ UNCHANGED <<document, print, history, daemon>>

(* The Print button: enabled when previewReady and not already running.     *)
RunPrint ==
    /\ preview.status = "ready"
    /\ print.status # "running"
    /\ RoomFor("print", FreshJobs)
    /\ print' = [status |-> "running", of |-> None]
    /\ Send("print", preview.of)
    /\ UNCHANGED <<document, preview, history, daemon>>

(* Daemon: POST /v1/jobs/print; the transfer may fail.                      *)
PrintPreview(c) ==
    /\ Waiting(c, "print")
    /\ \/ /\ Allowed(calls[c].arg)
          /\ \E j \in FreshJobs, s \in {"unverified", "failed"} :
               /\ jobs' = [jobs EXCEPT ![j] = s]
               /\ Answer(c, [job |-> j, state |-> s])
       \/ /\ ~Allowed(calls[c].arg)
          /\ Refuse(c)
          /\ UNCHANGED jobs
    /\ UNCHANGED <<ui, stored, valid>>

(* PrintStatus, shown with a ready preview, has the Confirm output button.  *)
CanConfirm ==
    /\ preview.status = "ready"
    /\ print.status = "completed"
    /\ print.of.state = "unverified"

(* Mutant: the status shows what the daemon has yet to confirm.             *)
ConfirmOutputEarly ==
    /\ CanConfirm
    /\ print' = [status |-> "confirming", of |-> [print.of EXCEPT !.state = "confirmed"]]
    /\ Send("confirm", print.of.job)
    /\ UNCHANGED <<document, preview, history, daemon>>

(* The operator has also said yes to the confirmation's question.           *)
ConfirmOutput ==
    /\ CanConfirm
    /\ print' = [status |-> "confirming", of |-> print.of]
    /\ Send("confirm", print.of.job)
    /\ UNCHANGED <<document, preview, history, daemon>>

(* Daemon: POST /v1/jobs/{jobId}/operator-confirmation.                     *)
Confirm(c) ==
    /\ Waiting(c, "confirm")
    /\ \/ /\ jobs[calls[c].arg] = "unverified"
          /\ jobs' = [jobs EXCEPT ![calls[c].arg] = "confirmed"]
          /\ Answer(c, [job |-> calls[c].arg, state |-> "confirmed"])
       \/ /\ jobs[calls[c].arg] # "unverified"
          /\ Refuse(c)
          /\ UNCHANGED jobs
    /\ UNCHANGED <<ui, stored, valid>>

(* runPrint and confirmPrintOutput end alike.                               *)
JobReturned(c) ==
    /\ Answered(c, {"print", "confirm"})
    /\ history' = Prepend(history, calls[c].answer)
    /\ print' = [status |-> "completed", of |-> calls[c].answer]
    /\ Hangup(c)
    /\ UNCHANGED <<document, preview, daemon>>

JobFails(c) ==
    /\ Refused(c, {"print", "confirm"})
    /\ print' = [status |-> "error", of |-> None]
    /\ Hangup(c)
    /\ UNCHANGED <<document, preview, history, daemon>>

(* The connection breaks before or after the daemon has done its part.      *)
Disconnect(c) ==
    /\ calls[c] # Free
    /\ calls[c].phase # "failed"
    /\ Refuse(c)
    /\ UNCHANGED <<ui, daemon>>

(* Fifteen minutes have passed, or the daemon was started again: previews   *)
(* are kept in memory.                                                      *)
Expire(p) ==
    /\ p \in valid
    /\ valid' = valid \ {p}
    /\ UNCHANGED <<ui, calls, stored, jobs>>

(* The window is reloaded; the document and the history come back from      *)
(* localStorage.                                                            *)
Reload ==
    /\ Invalidate
    /\ calls' = [c \in Calls |-> Free]
    /\ UNCHANGED <<document, history, daemon>>

Serve(c) == Render(c) \/ Plan(c) \/ PrintPreview(c) \/ Confirm(c)

Return(c) ==
    \/ Rendered(c) \/ Planned(c) \/ PreviewFails(c)
    \/ JobReturned(c) \/ JobFails(c)

Next ==
    \/ \E d \in Documents : Edit(d)
    \/ RunPreview \/ RunPrint \/ ConfirmOutput \/ Reload
    \/ \E c \in Calls : Serve(c) \/ Return(c) \/ Disconnect(c)
    \/ \E p \in Previews : Expire(p)

(* The daemon answers every request, and the renderer's event loop runs the *)
(* continuation of every promise that has settled.                          *)
Fairness == \A c \in Calls : WF_vars(Serve(c)) /\ WF_vars(Return(c))

Spec == Init /\ [][Next]_vars /\ Fairness

-----------------------------------------------------------------------------
TypeOK ==
    /\ document \in Documents
    /\ \/ preview \in [status : {"idle", "running", "error"}, of : {None}]
       \/ preview \in [status : {"ready", "blocked"}, of : Previews]
    /\ \/ print \in [status : {"idle", "running", "error"}, of : {None}]
       \/ print \in [status : {"completed", "confirming"}, of : JobReports]
    /\ history \in Seq(JobReports)
    /\ stored \in [Previews -> Documents \cup {None}]
    /\ valid \subseteq Previews
    /\ jobs \in [Jobs -> JobStates \cup {"none"}]

InFlight(kinds) == \E c \in Calls : calls[c].kind \in kinds

(* No more is claimed than the daemon has on record.                        *)
Borne(report) == jobs[report.job] \in {report.state, "confirmed"}

(* The job history and the print status never show a job as better than the *)
(* daemon's own record of it, lost answers and late ones included.          *)
StudioTruthful ==
    /\ \A i \in DOMAIN history : Borne(history[i])
    /\ print.status \in {"completed", "confirming"} => Borne(print.of)

(* The history never holds more than MAX_STORED_JOBS, and starts with the   *)
(* job that the print status shows, although a job comes back after its     *)
(* confirmation, perhaps when it has already fallen out.                    *)
HistoryAgrees ==
    /\ Len(history) <= MaxHistory
    /\ print.status = "completed" => history # <<>> /\ history[1] = print.of

(* A preview that its safety report blocks is never ready to be printed,    *)
(* and one that is called blocked is.                                       *)
BlockedNeverReady ==
    /\ preview.status = "ready" => stored[preview.of] \notin Blocked
    /\ preview.status = "blocked" => stored[preview.of] \in Blocked

(* Every preview, print and confirmation comes to an end on the screen.     *)
BusyEnds ==
    /\ preview.status = "running" ~> preview.status # "running"
    /\ print.status = "running" ~> print.status # "running"
    /\ print.status = "confirming" ~> print.status # "confirming"

(* "keeps the daemon preview/print state invalidated after edits"           *)
(* (implementation-status.md): what is ready to be printed is the document  *)
(* in the editor.                                                           *)
ReadyPreviewIsCurrent ==
    preview.status = "ready" => stored[preview.of] = document
=============================================================================

----------------------------- MODULE PrintQueue -----------------------------
(***************************************************************************)
(* The daemon's print queue (printing/queue.py) as its API handlers run it: *)
(* each request is served by a thread of the pool, no lock is taken, and a  *)
(* thread may be preempted between any two of the steps below.  The job     *)
(* store on disk is rewritten in place, and the daemon may die and be       *)
(* started again at any time.  The transport is what TransportContract says *)
(* of it, or the mock.                                                      *)
(***************************************************************************)
EXTENDS Integers, FiniteSets

CONSTANTS Handlers,        \* threads that serve requests
          Jobs,            \* the job ids uuid4 may return
          Previews,        \* the preview ids uuid4 may return
          BlockedPreviews, \* those whose safety report says allowed: False
          TotalBytes,      \* the size of a transfer raster
          Modes,           \* settings the daemon may be started with
          MockSent,        \* the raster bytes of the bands up to that one
          CanCrash         \* the daemon may die

ASSUME QueueAssumption ==
    /\ BlockedPreviews \subseteq Previews
    /\ TotalBytes \in Nat \ {0}
    /\ Modes \subseteq {"physical", "mock", "mock_disconnect"}
    /\ MockSent \in 0..TotalBytes
    /\ CanCrash \in BOOLEAN

CONSTANTS NoJob, NoRecord   \* model values: no job, no record

VARIABLES
    up,         \* the daemon serves requests
    mode,       \* with the printer, the mock, or a mock that disconnects
    previews,   \* PreviewStore: "none", "live" or "expired" (in memory only)
    jobs,       \* _jobs: a record or NoRecord for each id
    segments,   \* ids whose bands are in _segments
    pc,         \* where each handler is
    task,       \* each handler's local variables
    disk,       \* jobs.json
    fresh,      \* ids uuid4 has not returned yet
    printed,    \* raster bytes of each job that reached the (mock) printer
    checked,    \* jobs whose output the operator has confirmed
    answered    \* the record each job had in the last answer a client got

vars == <<up, mode, previews, jobs, segments, pc, task, disk, fresh, printed, checked, answered>>

-----------------------------------------------------------------------------
(* Job records: the fields the queue's own decisions depend on.             *)
UnverifiedActions == {"confirm_complete", "feed_paper", "reprint_from_start"}

Unverified(n) ==
    [state |-> "completed_unverified", sent |-> n, check |-> TRUE,
     actions |-> UnverifiedActions]

(* Mutants: an off-by-one in partial_output; partial output may be confirmed. *)
FailureOffByOne(n) ==
    IF n >= 0
      THEN [state |-> "failed_partial_output", sent |-> n, check |-> TRUE,
            actions |-> {"inspect_output", "clear_printer", "reprint_from_start"}]
      ELSE [state |-> "failed_before_output", sent |-> n, check |-> FALSE,
            actions |-> {"retry_from_start"}]

FailureConfirmable(n) ==
    IF n > 0
      THEN [state |-> "failed_partial_output", sent |-> n, check |-> TRUE,
            actions |-> UnverifiedActions]
      ELSE [state |-> "failed_before_output", sent |-> n, check |-> FALSE,
            actions |-> {"retry_from_start"}]

(* _transport_failure_job and _mock_disconnect_job.                         *)
Failure(n) ==
    IF n > 0
      THEN [state |-> "failed_partial_output", sent |-> n, check |-> TRUE,
            actions |-> {"inspect_output", "clear_printer", "reprint_from_start"}]
      ELSE [state |-> "failed_before_output", sent |-> n, check |-> FALSE,
            actions |-> {"retry_from_start"}]

Confirmed(r) ==
    [state |-> "confirmed_complete", sent |-> r.sent, check |-> FALSE,
     actions |-> {"reprint_on_user_request"}]

States == {"completed_unverified", "failed_partial_output", "failed_before_output",
           "confirmed_complete"}

Records ==
    [state : States, sent : 0..TotalBytes, check : BOOLEAN,
     actions : SUBSET (UnverifiedActions \cup
                       {"inspect_output", "clear_printer", "retry_from_start",
                        "reprint_on_user_request"})]

ASSUME SentinelAssumption == NoJob \notin Jobs /\ NoRecord \notin Records

(* What _persist_jobs serialises: the jobs, and which of them come with     *)
(* their segments.                                                          *)
Snapshots == [jobs : [Jobs -> Records \cup {NoRecord}], segments : SUBSET Jobs]

NoSnapshot == [jobs |-> [j \in Jobs |-> NoRecord], segments |-> {}]

Known(s) == {j \in Jobs : s.jobs[j] # NoRecord}

(* The text of snapshot a is at least as long as that of b: it holds the    *)
(* same jobs or more, and a confirmation only lengthens a record.           *)
AsLong(a, b) ==
    \A j \in Known(b) :
      /\ j \in Known(a)
      /\ b.jobs[j].state = "confirmed_complete" => a.jobs[j].state = "confirmed_complete"
      /\ j \in b.segments => j \in a.segments

(* jobs.json: text is what the last write put at its start, longest the     *)
(* longest text written since a writer last truncated it.  The file is      *)
(* valid JSON only when nothing sticks out behind the last text.            *)
Absent == [kind |-> "absent", text |-> NoSnapshot, longest |-> NoSnapshot]
Empty == [kind |-> "empty", text |-> NoSnapshot, longest |-> NoSnapshot]

Overwrite(file, s) ==
    [kind    |-> "written",
     text    |-> s,
     longest |-> IF AsLong(s, file.longest) THEN s ELSE file.longest]

Readable(file) == file.kind = "written" /\ AsLong(file.text, file.longest)

IdleTask == [job |-> NoJob, record |-> NoRecord, snapshot |-> NoSnapshot]

-----------------------------------------------------------------------------
Init ==
    /\ up = TRUE
    /\ mode \in Modes
    /\ previews = [p \in Previews |-> "none"]
    /\ jobs = [j \in Jobs |-> NoRecord]
    /\ segments = {}
    /\ pc = [h \in Handlers |-> "idle"]
    /\ task = [h \in Handlers |-> IdleTask]
    /\ disk = Absent
    /\ fresh = Jobs
    /\ printed = [j \in Jobs |-> 0]
    /\ checked = {}
    /\ answered = [j \in Jobs |-> NoRecord]

(* render_preview, render_document_preview: PreviewStore.create.            *)
CreatePreview(p) ==
    /\ up
    /\ previews[p] = "none"
    /\ previews' = [previews EXCEPT ![p] = "live"]
    /\ UNCHANGED <<up, mode, jobs, segments, pc, task, disk, fresh, printed, checked, answered>>

(* The clock passes the preview's expires_at.                               *)
Expire(p) ==
    /\ previews[p] = "live"
    /\ previews' = [previews EXCEPT ![p] = "expired"]
    /\ UNCHANGED <<up, mode, jobs, segments, pc, task, disk, fresh, printed, checked, answered>>

(* PreviewStore.verify and preview_safety_block_reason, for a request that  *)
(* carries the preview's own token and hashes (print_stored_preview reads   *)
(* them from the store).  Any other request is answered 409 and changes     *)
(* nothing.                                                                 *)
Printable(p) == previews[p] = "live" /\ p \notin BlockedPreviews

(* The mock's outcome; no byte leaves the daemon, printed is what the job   *)
(* claims to have sent.                                                     *)
MockBytes == IF mode = "mock_disconnect" THEN MockSent ELSE TotalBytes

MockRecord == IF mode = "mock_disconnect" THEN Failure(MockSent) ELSE Unverified(TotalBytes)

(* print_preview up to _complete_unverified_job: the request passes its     *)
(* checks and gets a fresh job id.                                          *)
BeginPrint(h, p) ==
    /\ up
    /\ pc[h] = "idle"
    /\ Printable(p)
    /\ \E j \in fresh :
         /\ fresh' = fresh \ {j}
         /\ IF mode # "physical"
              THEN /\ pc' = [pc EXCEPT ![h] = "store_job"]
                   /\ task' = [task EXCEPT ![h].job = j, ![h].record = MockRecord]
                   /\ printed' = [printed EXCEPT ![j] = MockBytes]
              ELSE /\ pc' = [pc EXCEPT ![h] = "transfer"]
                   /\ task' = [task EXCEPT ![h].job = j]
                   /\ UNCHANGED printed
    /\ UNCHANGED <<up, mode, previews, jobs, segments, disk, checked, answered>>

(* transport.print_plan is running: some more of the raster arrives.        *)
Transfer(h) ==
    LET j == task[h].job IN
    /\ up
    /\ pc[h] = "transfer"
    /\ \E n \in (printed[j] + 1)..TotalBytes : printed' = [printed EXCEPT ![j] = n]
    /\ UNCHANGED <<up, mode, previews, jobs, segments, pc, task, disk, fresh, checked, answered>>

TransferSucceeds(h) ==
    /\ up
    /\ pc[h] = "transfer"
    /\ printed[task[h].job] = TotalBytes
    /\ task' = [task EXCEPT ![h].record = Unverified(TotalBytes)]
    /\ pc' = [pc EXCEPT ![h] = "store_job"]
    /\ UNCHANGED <<up, mode, previews, jobs, segments, disk, fresh, printed, checked, answered>>

(* PrintTransportError, with the transport's count of raster bytes.         *)
TransferFails(h) ==
    /\ up
    /\ pc[h] = "transfer"
    /\ \E n \in 0..printed[task[h].job] :
         task' = [task EXCEPT ![h].record = Failure(n)]
    /\ pc' = [pc EXCEPT ![h] = "store_job"]
    /\ UNCHANGED <<up, mode, previews, jobs, segments, disk, fresh, printed, checked, answered>>

(* Mutant: the transfer is retried from the start.                          *)
TransferRetries(h) ==
    /\ up
    /\ pc[h] = "transfer"
    /\ printed' = [printed EXCEPT ![task[h].job] = 0]
    /\ UNCHANGED <<up, mode, previews, jobs, segments, pc, task, disk, fresh, checked, answered>>

(* Any other exception leaves print_preview: answer 500, no job.            *)
TransferRaises(h) ==
    /\ up
    /\ pc[h] = "transfer"
    /\ pc' = [pc EXCEPT ![h] = "idle"]
    /\ task' = [task EXCEPT ![h] = IdleTask]
    /\ UNCHANGED <<up, mode, previews, jobs, segments, disk, fresh, printed, checked, answered>>

(* self._jobs[job_id] = job, in print_preview and in confirm_output.        *)
StoreJob(h) ==
    LET t == task[h] IN
    /\ up
    /\ pc[h] \in {"store_job", "store_confirmed"}
    /\ jobs' = [jobs EXCEPT ![t.job] = t.record]
    /\ pc' = [pc EXCEPT ![h] = IF pc[h] = "store_job" THEN "store_segments" ELSE "snapshot"]
    /\ UNCHANGED <<up, mode, previews, segments, task, disk, fresh, printed, checked, answered>>

StoreSegments(h) ==
    /\ up
    /\ pc[h] = "store_segments"
    /\ segments' = segments \cup {task[h].job}
    /\ pc' = [pc EXCEPT ![h] = "snapshot"]
    /\ UNCHANGED <<up, mode, previews, jobs, task, disk, fresh, printed, checked, answered>>

(* confirm_output: the job as the handler reads it must offer confirmation, *)
(* and the operator's checklist must pass.  The record is stored later.     *)
BeginConfirm(h, j) ==
    /\ up
    /\ pc[h] = "idle"
    /\ jobs[j] # NoRecord
    /\ "confirm_complete" \in jobs[j].actions
    /\ checked' = checked \cup {j}
    /\ task' = [task EXCEPT ![h].job = j, ![h].record = Confirmed(jobs[j])]
    /\ pc' = [pc EXCEPT ![h] = "store_confirmed"]
    /\ UNCHANGED <<up, mode, previews, jobs, segments, disk, fresh, printed, answered>>

(* Mutant: failed jobs are not persisted.                                   *)
SnapshotCompleted(h) ==
    /\ up
    /\ pc[h] = "snapshot"
    /\ task' = [task EXCEPT ![h].snapshot =
                  [jobs |-> [j \in Jobs |->
                               IF jobs[j] # NoRecord /\ jobs[j].state = "completed_unverified"
                                 THEN jobs[j] ELSE NoRecord],
                   segments |-> segments]]
    /\ pc' = [pc EXCEPT ![h] = "open"]
    /\ UNCHANGED <<up, mode, previews, jobs, segments, disk, fresh, printed, checked, answered>>

(* _persist_jobs: serialise every job, open the file (which truncates it),  *)
(* write, answer the request.                                               *)
Snapshot(h) ==
    /\ up
    /\ pc[h] = "snapshot"
    /\ task' = [task EXCEPT ![h].snapshot = [jobs |-> jobs, segments |-> segments]]
    /\ pc' = [pc EXCEPT ![h] = "open"]
    /\ UNCHANGED <<up, mode, previews, jobs, segments, disk, fresh, printed, checked, answered>>

Open(h) ==
    /\ up
    /\ pc[h] = "open"
    /\ disk' = Empty
    /\ pc' = [pc EXCEPT ![h] = "write"]
    /\ UNCHANGED <<up, mode, previews, jobs, segments, task, fresh, printed, checked, answered>>

Write(h) ==
    LET t == task[h] IN
    /\ up
    /\ pc[h] = "write"
    /\ disk' = Overwrite(disk, t.snapshot)
    /\ answered' = [answered EXCEPT ![t.job] = t.record]
    /\ pc' = [pc EXCEPT ![h] = "idle"]
    /\ task' = [task EXCEPT ![h] = IdleTask]
    /\ UNCHANGED <<up, mode, previews, jobs, segments, fresh, printed, checked>>

(* The daemon dies: memory is gone, whatever the handlers were doing.       *)
Crash ==
    /\ CanCrash
    /\ up
    /\ up' = FALSE
    /\ previews' = [p \in Previews |-> "none"]
    /\ jobs' = [j \in Jobs |-> NoRecord]
    /\ segments' = {}
    /\ pc' = [h \in Handlers |-> "idle"]
    /\ task' = [h \in Handlers |-> IdleTask]
    /\ UNCHANGED <<mode, disk, fresh, printed, checked, answered>>

(* create_app: _load_jobs reads the store; a file that is not valid JSON    *)
(* makes json.loads raise, and the daemon does not start.                   *)
Start ==
    /\ ~up
    /\ disk.kind = "absent" \/ Readable(disk)
    /\ up' = TRUE
    /\ mode' \in Modes
    /\ jobs' = disk.text.jobs
    /\ segments' = disk.text.segments
    /\ UNCHANGED <<previews, pc, task, disk, fresh, printed, checked, answered>>

Handle(h) ==
    \/ Transfer(h) \/ TransferSucceeds(h) \/ TransferFails(h) \/ TransferRaises(h)
    \/ StoreJob(h) \/ StoreSegments(h) \/ Snapshot(h) \/ Open(h) \/ Write(h)

Next ==
    \/ \E p \in Previews : CreatePreview(p) \/ Expire(p)
    \/ \E h \in Handlers, p \in Previews : BeginPrint(h, p)
    \/ \E h \in Handlers, j \in Jobs : BeginConfirm(h, j)
    \/ \E h \in Handlers : Handle(h)
    \/ Crash
    \/ Start

(* A running handler goes on running, and the user of a daemon that is down *)
(* starts the application again (index.ts starts it at launch, and only     *)
(* then); requests, expiry and crashes are nobody's duty.                   *)
Fairness ==
    /\ \A h \in Handlers : WF_vars(Handle(h))
    /\ WF_vars(Start)

Spec == Init /\ [][Next]_vars /\ Fairness
-----------------------------------------------------------------------------
Tasks == [job : Jobs \cup {NoJob}, record : Records \cup {NoRecord}, snapshot : Snapshots]

TypeOK ==
    /\ up \in BOOLEAN
    /\ mode \in Modes
    /\ previews \in [Previews -> {"none", "live", "expired"}]
    /\ jobs \in [Jobs -> Records \cup {NoRecord}]
    /\ segments \subseteq Jobs
    /\ pc \in [Handlers -> {"idle", "transfer", "store_job", "store_segments",
                           "store_confirmed", "snapshot", "open", "write"}]
    /\ task \in [Handlers -> Tasks]
    /\ disk \in [kind : {"absent", "empty", "written"}, text : Snapshots, longest : Snapshots]
    /\ fresh \subseteq Jobs
    /\ printed \in [Jobs -> 0..TotalBytes]
    /\ checked \subseteq Jobs
    /\ answered \in [Jobs -> Records \cup {NoRecord}]

(* A record that agrees with what happened: no more bytes than reached the  *)
(* printer, completion only after the whole raster, verification only after *)
(* the operator's check.                                                    *)
Truthful(j, r) ==
    r # NoRecord =>
      /\ r.sent <= printed[j]
      /\ r.state \in {"completed_unverified", "confirmed_complete"} => r.sent = TotalBytes
      /\ r.state = "confirmed_complete" => j \in checked
      /\ "confirm_complete" \in r.actions => r.state = "completed_unverified"

(* "The daemon never reports verified success without meeting completion    *)
(* criteria" (Initial Spec 17.18): every record in memory, on disk, or in   *)
(* an answer is truthful, across concurrent handlers, crashes and restarts. *)
RecordsTruthful ==
    \A j \in Jobs : /\ Truthful(j, jobs[j])
                    /\ Truthful(j, disk.text.jobs[j])
                    /\ Truthful(j, answered[j])

(* While the daemon is up no record changes, except from                    *)
(* completed_unverified to confirmed_complete (confirm_output).             *)
RecordsOnlyConfirm ==
    [][up /\ up' =>
         \A j \in Jobs :
           jobs[j] # NoRecord /\ jobs'[j] # jobs[j] =>
             /\ jobs[j].state = "completed_unverified"
             /\ jobs'[j] = Confirmed(jobs[j])]_vars

(* Every request is answered, unless the daemon dies first.                 *)
RequestsEnd == \A h \in Handlers : pc[h] # "idle" ~> pc[h] = "idle"

(* The lifecycle that clients see.  A daemon that is down stands for what   *)
(* it will show when it is started: the jobs at the start of its store.     *)
ShownJobs == IF up THEN jobs ELSE disk.text.jobs

Lifecycle == INSTANCE PrintJobLifecycle
               WITH state  <- [j \in Jobs |-> IF ShownJobs[j] = NoRecord THEN "none"
                                              ELSE ShownJobs[j].state],
                    output <- printed

(* Every step of the queue is a step of the lifecycle or changes nothing a  *)
(* client sees.                                                             *)
ImplementsLifecycle == Lifecycle!Spec
=============================================================================

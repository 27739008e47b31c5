-------------------------- MODULE PrintQueue_proofs --------------------------
(***************************************************************************)
(* The print queue's records are truthful for any number of handlers, jobs  *)
(* and previews, whatever the threads, crashes and restarts do.             *)
(***************************************************************************)
EXTENDS PrintQueueHistory, TLAPS

(* A handler that is past its checks works for a job id, and a transfer     *)
(* under way for one that uuid4 has handed out.                             *)
TasksHaveJobs ==
    \A h \in Handlers : /\ pc[h] # "idle" => task[h].job \in Jobs
                        /\ pc[h] = "transfer" => task[h].job \notin fresh
                        /\ pc[h] = "idle" => task[h] = IdleTask

FreshUnprinted == \A j \in fresh : printed[j] = 0

(* The records and snapshots that handlers carry are truthful before they   *)
(* reach memory, disk or a client.                                          *)
WorkTruthful ==
    \A h \in Handlers, j \in Jobs :
      /\ task[h].job = j => Truthful(j, task[h].record)
      /\ Truthful(j, task[h].snapshot.jobs[j])

IInv == TypeOK /\ TasksHaveJobs /\ FreshUnprinted /\ RecordsTruthful /\ WorkTruthful

-----------------------------------------------------------------------------
(* The records the queue makes are records, and agree with their counts.    *)
LEMMA UnverifiedFacts ==
    ASSUME NEW n \in 0..TotalBytes
    PROVE  /\ Unverified(n) \in Records
           /\ Unverified(n).sent = n
           /\ Unverified(n).state = "completed_unverified"
<1>1. UnverifiedActions \in SUBSET (UnverifiedActions \cup
                       {"inspect_output", "clear_printer", "retry_from_start",
                        "reprint_on_user_request"})
  OBVIOUS
<1> QED
  BY <1>1 DEF Unverified, Records, States

LEMMA FailureFacts ==
    ASSUME NEW n \in 0..TotalBytes
    PROVE  /\ Failure(n) \in Records
           /\ Failure(n).sent = n
           /\ Failure(n).state \in {"failed_partial_output", "failed_before_output"}
           /\ "confirm_complete" \notin Failure(n).actions
BY DEF Failure, Records, States, UnverifiedActions

LEMMA ConfirmedFacts ==
    ASSUME NEW r \in Records
    PROVE  /\ Confirmed(r) \in Records
           /\ Confirmed(r).sent = r.sent
           /\ Confirmed(r).state = "confirmed_complete"
           /\ "confirm_complete" \notin Confirmed(r).actions
BY DEF Confirmed, Records, States, UnverifiedActions

LEMMA MockFacts ==
    /\ MockBytes \in 0..TotalBytes
    /\ MockRecord \in Records
    /\ MockRecord.sent = MockBytes
    /\ MockRecord.state # "confirmed_complete"
    /\ MockRecord.state = "completed_unverified" => MockBytes = TotalBytes
    /\ "confirm_complete" \in MockRecord.actions => MockRecord.state = "completed_unverified"
<1>1. TotalBytes \in 0..TotalBytes /\ MockSent \in 0..TotalBytes
  BY QueueAssumption
<1> QED
  BY <1>1, UnverifiedFacts, FailureFacts DEF MockBytes, MockRecord

LEMMA NoSnapshotType == NoSnapshot \in Snapshots
BY DEF NoSnapshot, Snapshots

LEMMA IdleTaskType == IdleTask \in Tasks
BY NoSnapshotType DEF IdleTask, Tasks

-----------------------------------------------------------------------------
(* Type correctness, one lemma per group of actions that build their next   *)
(* state the same way.                                                      *)
LEMMA TypeBeginPrint ==
    ASSUME TypeOK, TasksHaveJobs, NEW h \in Handlers, NEW p \in Previews, BeginPrint(h, p)
    PROVE  TypeOK'
<1>1. PICK j \in fresh :
        /\ fresh' = fresh \ {j}
        /\ IF mode # "physical"
             THEN /\ pc' = [pc EXCEPT ![h] = "store_job"]
                  /\ task' = [task EXCEPT ![h].job = j, ![h].record = MockRecord]
                  /\ printed' = [printed EXCEPT ![j] = MockBytes]
             ELSE /\ pc' = [pc EXCEPT ![h] = "transfer"]
                  /\ task' = [task EXCEPT ![h].job = j]
                  /\ UNCHANGED printed
  BY DEF BeginPrint
<1>2. j \in Jobs /\ fresh' \subseteq Jobs
  BY <1>1 DEF TypeOK
<1>3. printed' \in [Jobs -> 0..TotalBytes]
  BY <1>1, <1>2, MockFacts DEF TypeOK
<1>4. task' \in [Handlers -> Tasks]
  BY <1>1, <1>2, MockFacts DEF TypeOK, Tasks
<1>5. pc' \in [Handlers -> {"idle", "transfer", "store_job", "store_segments",
                           "store_confirmed", "snapshot", "open", "write"}]
  BY <1>1 DEF TypeOK
<1> QED
  BY <1>2, <1>3, <1>4, <1>5 DEF TypeOK, BeginPrint

LEMMA TypeTransfer ==
    ASSUME TypeOK, TasksHaveJobs, NEW h \in Handlers,
           Transfer(h) \/ TransferSucceeds(h) \/ TransferFails(h) \/ TransferRaises(h)
    PROVE  TypeOK'
<1>1. task[h].job \in Jobs
  BY DEF TasksHaveJobs, Transfer, TransferSucceeds, TransferFails, TransferRaises
<1>2. printed[task[h].job] \in 0..TotalBytes /\ TotalBytes \in 0..TotalBytes
  BY <1>1, QueueAssumption DEF TypeOK
<1>3. CASE Transfer(h)
  <2>1. PICK n \in (printed[task[h].job] + 1)..TotalBytes :
          printed' = [printed EXCEPT ![task[h].job] = n]
    BY <1>3 DEF Transfer
  <2>2. n \in 0..TotalBytes
    BY <1>2, <2>1
  <2>3. printed' \in [Jobs -> 0..TotalBytes]
    BY <2>1, <2>2 DEF TypeOK
  <2> QED
    BY <1>3, <2>3 DEF TypeOK, Transfer
<1>4. CASE TransferSucceeds(h)
  <2>1. Unverified(TotalBytes) \in Records
    BY <1>2, UnverifiedFacts
  <2>2. task' \in [Handlers -> Tasks]
    BY <1>4, <2>1 DEF TypeOK, Tasks, TransferSucceeds
  <2> QED
    BY <1>4, <2>2 DEF TypeOK, TransferSucceeds
<1>5. CASE TransferFails(h)
  <2>1. PICK n \in 0..printed[task[h].job] : task' = [task EXCEPT ![h].record = Failure(n)]
    BY <1>5 DEF TransferFails
  <2>2. n \in 0..TotalBytes
    BY <1>2, <2>1
  <2>3. Failure(n) \in Records
    BY <2>2, FailureFacts
  <2>4. task' \in [Handlers -> Tasks]
    BY <2>1, <2>3 DEF TypeOK, Tasks
  <2> QED
    BY <1>5, <2>4 DEF TypeOK, TransferFails
<1>6. CASE TransferRaises(h)
  BY <1>6, IdleTaskType DEF TypeOK, TransferRaises
<1> QED
  BY <1>3, <1>4, <1>5, <1>6

LEMMA TypeStore ==
    ASSUME TypeOK, TasksHaveJobs, NEW h \in Handlers,
           StoreJob(h) \/ StoreSegments(h) \/ Snapshot(h) \/ Open(h) \/ Write(h)
    PROVE  TypeOK'
<1>1. task[h] \in Tasks /\ task[h].job \in Jobs
  BY DEF TypeOK, TasksHaveJobs, StoreJob, StoreSegments, Snapshot, Open, Write
<1>2. CASE StoreJob(h)
  BY <1>1, <1>2 DEF TypeOK, Tasks, StoreJob
<1>3. CASE StoreSegments(h)
  BY <1>1, <1>3 DEF TypeOK, StoreSegments
<1>4. CASE Snapshot(h)
  <2>1. [jobs |-> jobs, segments |-> segments] \in Snapshots
    BY DEF TypeOK, Snapshots
  <2>2. task' \in [Handlers -> Tasks]
    BY <1>4, <2>1 DEF TypeOK, Tasks, Snapshot
  <2> QED
    BY <1>4, <2>2 DEF TypeOK, Snapshot
<1>5. CASE Open(h)
  BY <1>5, NoSnapshotType DEF TypeOK, Open, Empty
<1>6. CASE Write(h)
  <2>1. disk' \in [kind : {"absent", "empty", "written"}, text : Snapshots, longest : Snapshots]
    BY <1>1, <1>6 DEF TypeOK, Tasks, Write, Overwrite
  <2>2. answered' \in [Jobs -> Records \cup {NoRecord}]
    BY <1>1, <1>6 DEF TypeOK, Tasks, Write
  <2>3. task' \in [Handlers -> Tasks]
    BY <1>6, IdleTaskType DEF TypeOK, Write
  <2> QED
    BY <1>6, <2>1, <2>2, <2>3 DEF TypeOK, Write
<1> QED
  BY <1>2, <1>3, <1>4, <1>5, <1>6

LEMMA TypeBeginConfirm ==
    ASSUME TypeOK, NEW h \in Handlers, NEW j \in Jobs, BeginConfirm(h, j)
    PROVE  TypeOK'
<1>1. Confirmed(jobs[j]) \in Records
  BY ConfirmedFacts DEF TypeOK, BeginConfirm
<1>2. [task[h] EXCEPT !.job = j, !.record = Confirmed(jobs[j])] \in Tasks
  BY <1>1 DEF TypeOK, Tasks
<1>3. task' \in [Handlers -> Tasks]
  BY <1>2 DEF TypeOK, BeginConfirm
<1> QED
  BY <1>3 DEF TypeOK, BeginConfirm

LEMMA TypeRest ==
    ASSUME TypeOK,
           \/ \E p \in Previews : CreatePreview(p) \/ Expire(p)
           \/ Crash
           \/ Start
    PROVE  TypeOK'
<1>1. ASSUME NEW p \in Previews, CreatePreview(p) \/ Expire(p) PROVE TypeOK'
  BY <1>1 DEF TypeOK, CreatePreview, Expire
<1>2. CASE Crash
  BY <1>2, IdleTaskType DEF TypeOK, Crash
<1>3. CASE Start
  BY <1>3 DEF TypeOK, Snapshots, Start
<1> QED
  BY <1>1, <1>2, <1>3

-----------------------------------------------------------------------------
(* Truthful as a formula about what was printed and what was checked.       *)
TruthfulWhen(j, r, n, done) ==
    r # NoRecord =>
      /\ r.sent <= n
      /\ r.state \in {"completed_unverified", "confirmed_complete"} => r.sent = TotalBytes
      /\ r.state = "confirmed_complete" => j \in done
      /\ "confirm_complete" \in r.actions => r.state = "completed_unverified"

(* What is printed and checked only grows, so truthful records stay so.     *)
LEMMA TruthGrows ==
    ASSUME NEW j, NEW r \in Records \cup {NoRecord}, NEW n \in Nat, NEW m \in Nat, n <= m,
           NEW done, NEW more, done \subseteq more, TruthfulWhen(j, r, n, done)
    PROVE  TruthfulWhen(j, r, m, more)
BY QueueAssumption DEF TruthfulWhen, Records

(* IInv's last two parts with Truthful expanded.                            *)
AllTruthful ==
    \A j \in Jobs :
      /\ TruthfulWhen(j, jobs[j], printed[j], checked)
      /\ TruthfulWhen(j, disk.text.jobs[j], printed[j], checked)
      /\ TruthfulWhen(j, answered[j], printed[j], checked)
      /\ \A h \in Handlers :
           /\ task[h].job = j => TruthfulWhen(j, task[h].record, printed[j], checked)
           /\ TruthfulWhen(j, task[h].snapshot.jobs[j], printed[j], checked)

LEMMA AllTruthfulIs == AllTruthful <=> RecordsTruthful /\ WorkTruthful
BY DEF AllTruthful, RecordsTruthful, WorkTruthful, Truthful, TruthfulWhen

LEMMA AllTruthfulIsNext == AllTruthful' <=> (RecordsTruthful /\ WorkTruthful)'
BY DEF AllTruthful, RecordsTruthful, WorkTruthful, Truthful, TruthfulWhen

(* The records of the state satisfy the hypothesis of TruthGrows.           *)
LEMMA RecordTypes ==
    ASSUME TypeOK, NEW j \in Jobs, NEW h \in Handlers
    PROVE  /\ jobs[j] \in Records \cup {NoRecord}
           /\ disk.text.jobs[j] \in Records \cup {NoRecord}
           /\ answered[j] \in Records \cup {NoRecord}
           /\ task[h].record \in Records \cup {NoRecord}
           /\ task[h].snapshot.jobs[j] \in Records \cup {NoRecord}
           /\ printed[j] \in Nat
BY QueueAssumption DEF TypeOK, Tasks, Snapshots

LEMMA TruthBeginPrint ==
    ASSUME TypeOK, TasksHaveJobs, FreshUnprinted, AllTruthful, TypeOK',
           NEW h \in Handlers, NEW p \in Previews, BeginPrint(h, p)
    PROVE  TasksHaveJobs' /\ FreshUnprinted' /\ AllTruthful'
<1>1. PICK j \in fresh :
        /\ fresh' = fresh \ {j}
        /\ IF mode # "physical"
             THEN /\ pc' = [pc EXCEPT ![h] = "store_job"]
                  /\ task' = [task EXCEPT ![h].job = j, ![h].record = MockRecord]
                  /\ printed' = [printed EXCEPT ![j] = MockBytes]
             ELSE /\ pc' = [pc EXCEPT ![h] = "transfer"]
                  /\ task' = [task EXCEPT ![h].job = j]
                  /\ UNCHANGED printed
  BY DEF BeginPrint
<1>2. j \in Jobs /\ printed[j] = 0 /\ pc[h] = "idle" /\ task[h] = IdleTask
  BY <1>1 DEF TypeOK, FreshUnprinted, TasksHaveJobs, BeginPrint
<1>3. UNCHANGED <<jobs, disk, checked, answered>>
  BY DEF BeginPrint
<1>4. /\ \A i \in Jobs : printed[i] \in Nat /\ printed'[i] \in Nat /\ printed[i] <= printed'[i]
      /\ \A i \in Jobs \ {j} : printed'[i] = printed[i]
  BY <1>1, <1>2, QueueAssumption, MockFacts DEF TypeOK
<1>5. /\ task'[h].job = j
      /\ task'[h].snapshot = NoSnapshot
      /\ task'[h].record = IF mode # "physical" THEN MockRecord ELSE NoRecord
      /\ \A g \in Handlers \ {h} : task'[g] = task[g] /\ pc'[g] = pc[g]
      /\ pc'[h] = IF mode # "physical" THEN "store_job" ELSE "transfer"
  <2>1. task[h].record = NoRecord /\ task[h].snapshot = NoSnapshot
    BY <1>2 DEF IdleTask
  <2> QED
    BY <1>1, <2>1 DEF TypeOK, Tasks
<1>6. TasksHaveJobs'
  BY <1>1, <1>2, <1>5 DEF TasksHaveJobs
<1>7. FreshUnprinted'
  BY <1>1, <1>4 DEF TypeOK, FreshUnprinted
<1>8. AllTruthful'
  <2> SUFFICES ASSUME NEW i \in Jobs
               PROVE  /\ TruthfulWhen(i, jobs[i], printed'[i], checked)
                      /\ TruthfulWhen(i, disk.text.jobs[i], printed'[i], checked)
                      /\ TruthfulWhen(i, answered[i], printed'[i], checked)
                      /\ \A g \in Handlers :
                           /\ task'[g].job = i =>
                                TruthfulWhen(i, task'[g].record, printed'[i], checked)
                           /\ TruthfulWhen(i, task'[g].snapshot.jobs[i], printed'[i], checked)
    BY <1>3 DEF AllTruthful
  <2>1. /\ TruthfulWhen(i, jobs[i], printed'[i], checked)
        /\ TruthfulWhen(i, disk.text.jobs[i], printed'[i], checked)
        /\ TruthfulWhen(i, answered[i], printed'[i], checked)
    BY <1>2, <1>4, RecordTypes, TruthGrows DEF AllTruthful
  <2>2. ASSUME NEW g \in Handlers \ {h}
        PROVE  /\ task'[g].job = i =>
                    TruthfulWhen(i, task'[g].record, printed'[i], checked)
               /\ TruthfulWhen(i, task'[g].snapshot.jobs[i], printed'[i], checked)
    BY <1>4, <1>5, RecordTypes, TruthGrows DEF AllTruthful
  <2>3. /\ task'[h].job = i => TruthfulWhen(i, task'[h].record, printed'[i], checked)
        /\ TruthfulWhen(i, task'[h].snapshot.jobs[i], printed'[i], checked)
    <3>1. TruthfulWhen(i, NoSnapshot.jobs[i], printed'[i], checked)
      BY DEF TruthfulWhen, NoSnapshot
    <3>2. mode # "physical" => printed'[j] = MockBytes
      BY <1>1, <1>2 DEF TypeOK
    <3> QED
      BY <1>5, <3>1, <3>2, MockFacts, QueueAssumption DEF TruthfulWhen
  <2> QED
    BY <2>1, <2>2, <2>3
<1> QED
  BY <1>6, <1>7, <1>8

LEMMA TruthTransfer ==
    ASSUME TypeOK, TasksHaveJobs, FreshUnprinted, AllTruthful, TypeOK',
           NEW h \in Handlers,
           Transfer(h) \/ TransferSucceeds(h) \/ TransferFails(h) \/ TransferRaises(h)
    PROVE  TasksHaveJobs' /\ FreshUnprinted' /\ AllTruthful'
<1> DEFINE j == task[h].job
<1>1. /\ j \in Jobs \ fresh
      /\ pc[h] = "transfer"
      /\ UNCHANGED <<jobs, disk, fresh, checked, answered>>
  BY DEF TasksHaveJobs, Transfer, TransferSucceeds, TransferFails, TransferRaises
<1>2. CASE Transfer(h)
  <2>1. PICK n \in (printed[j] + 1)..TotalBytes : printed' = [printed EXCEPT ![j] = n]
    BY <1>2 DEF Transfer
  <2>2. \A i \in Jobs : printed[i] \in Nat /\ printed'[i] \in Nat /\ printed[i] <= printed'[i]
    BY <1>1, <2>1, QueueAssumption DEF TypeOK
  <2>3. UNCHANGED <<pc, task>>
    BY <1>2 DEF Transfer
  <2>4. TasksHaveJobs' /\ FreshUnprinted'
    BY <1>1, <2>1, <2>3 DEF TypeOK, TasksHaveJobs, FreshUnprinted
  <2>5. AllTruthful'
    BY <1>1, <2>2, <2>3, RecordTypes, TruthGrows DEF AllTruthful
  <2> QED
    BY <2>4, <2>5
<1>3. ASSUME UNCHANGED printed,
             \A g \in Handlers \ {h} : task'[g] = task[g] /\ pc'[g] = pc[g],
             task'[h].job = j => TruthfulWhen(j, task'[h].record, printed[j], checked),
             \/ /\ pc'[h] \notin {"idle", "transfer"}
                /\ task'[h].job = j
                /\ task'[h].snapshot = task[h].snapshot
             \/ pc'[h] = "idle" /\ task'[h] = IdleTask
      PROVE  TasksHaveJobs' /\ FreshUnprinted' /\ AllTruthful'
  <2>1. TasksHaveJobs' /\ FreshUnprinted'
    BY <1>1, <1>3 DEF TasksHaveJobs, FreshUnprinted
  <2>2. AllTruthful'
    BY <1>1, <1>3 DEF AllTruthful, TruthfulWhen, IdleTask, NoSnapshot
  <2> QED
    BY <2>1, <2>2
<1>4. task[h] \in Tasks /\ printed[j] \in 0..TotalBytes
  BY <1>1 DEF TypeOK
<1>5. CASE TransferSucceeds(h)
  <2>1. TruthfulWhen(j, Unverified(TotalBytes), printed[j], checked)
    BY <1>4, <1>5, UnverifiedFacts, QueueAssumption DEF TruthfulWhen, TransferSucceeds
  <2>2. /\ task'[h].record = Unverified(TotalBytes)
        /\ task'[h].job = j
        /\ task'[h].snapshot = task[h].snapshot
    BY <1>4, <1>5 DEF TransferSucceeds, TypeOK, Tasks
  <2> QED
    BY <1>3, <1>5, <2>1, <2>2 DEF TransferSucceeds, TypeOK
<1>6. CASE TransferFails(h)
  <2>1. PICK n \in 0..printed[j] : task' = [task EXCEPT ![h].record = Failure(n)]
    BY <1>6 DEF TransferFails
  <2>2. n \in 0..TotalBytes /\ n <= printed[j]
    BY <1>4, <2>1, QueueAssumption
  <2>3. TruthfulWhen(j, Failure(n), printed[j], checked)
    BY <2>2, FailureFacts DEF TruthfulWhen
  <2>4. /\ task'[h].record = Failure(n)
        /\ task'[h].job = j
        /\ task'[h].snapshot = task[h].snapshot
    BY <1>4, <2>1 DEF TypeOK, Tasks
  <2> QED
    BY <1>3, <1>6, <2>1, <2>3, <2>4 DEF TransferFails, TypeOK
<1>7. CASE TransferRaises(h)
  <2>1. task'[h] = IdleTask
    BY <1>7 DEF TransferRaises, TypeOK
  <2>2. TruthfulWhen(j, task'[h].record, printed[j], checked)
    BY <2>1 DEF TruthfulWhen, IdleTask
  <2> QED
    BY <1>3, <1>7, <2>1, <2>2 DEF TransferRaises, TypeOK
<1> QED
  BY <1>2, <1>5, <1>6, <1>7

LEMMA TruthStore ==
    ASSUME TypeOK, TasksHaveJobs, FreshUnprinted, AllTruthful, TypeOK',
           NEW h \in Handlers,
           StoreJob(h) \/ StoreSegments(h) \/ Snapshot(h) \/ Open(h) \/ Write(h)
    PROVE  TasksHaveJobs' /\ FreshUnprinted' /\ AllTruthful'
<1>1. /\ task[h] \in Tasks /\ task[h].job \in Jobs
      /\ UNCHANGED <<fresh, printed, checked>>
  BY DEF TypeOK, TasksHaveJobs, StoreJob, StoreSegments, Snapshot, Open, Write
<1>2. FreshUnprinted'
  BY <1>1 DEF FreshUnprinted
<1>3. CASE StoreJob(h)
  <2>1. TasksHaveJobs'
    BY <1>1, <1>3 DEF TypeOK, TasksHaveJobs, StoreJob
  <2>2. AllTruthful'
    BY <1>1, <1>3 DEF TypeOK, AllTruthful, StoreJob
  <2> QED
    BY <1>2, <2>1, <2>2
<1>4. CASE StoreSegments(h)
  <2>1. TasksHaveJobs'
    BY <1>1, <1>4 DEF TypeOK, TasksHaveJobs, StoreSegments
  <2>2. AllTruthful'
    BY <1>1, <1>4 DEF AllTruthful, StoreSegments
  <2> QED
    BY <1>2, <2>1, <2>2
<1>5. CASE Snapshot(h)
  <2>1. /\ task'[h].job = task[h].job
        /\ task'[h].record = task[h].record
        /\ task'[h].snapshot.jobs = jobs
        /\ pc'[h] = "open"
        /\ \A g \in Handlers \ {h} : task'[g] = task[g] /\ pc'[g] = pc[g]
    BY <1>1, <1>5 DEF TypeOK, Tasks, Snapshot
  <2>2. TasksHaveJobs'
    BY <1>1, <1>5, <2>1 DEF TasksHaveJobs, Snapshot
  <2>3. AllTruthful'
    BY <1>1, <1>5, <2>1 DEF AllTruthful, Snapshot
  <2> QED
    BY <1>2, <2>2, <2>3
<1>6. CASE Open(h)
  <2>1. TasksHaveJobs'
    BY <1>1, <1>6 DEF TypeOK, TasksHaveJobs, Open
  <2>2. \A i \in Jobs : TruthfulWhen(i, disk'.text.jobs[i], printed[i], checked)
    BY <1>6 DEF Open, Empty, NoSnapshot, TruthfulWhen
  <2>3. AllTruthful'
    BY <1>1, <1>6, <2>2 DEF AllTruthful, Open
  <2> QED
    BY <1>2, <2>1, <2>3
<1>7. CASE Write(h)
  <2>1. /\ task'[h] = IdleTask
        /\ pc'[h] = "idle"
        /\ \A g \in Handlers \ {h} : task'[g] = task[g] /\ pc'[g] = pc[g]
        /\ jobs' = jobs
    BY <1>7 DEF TypeOK, Write
  <2>2. TasksHaveJobs'
    BY <1>1, <2>1 DEF TasksHaveJobs
  <2>3. disk'.text = task[h].snapshot
    BY <1>7 DEF Write, Overwrite
  <2>4. \A i \in Jobs : answered'[i] = IF i = task[h].job THEN task[h].record ELSE answered[i]
    BY <1>7 DEF TypeOK, Write
  <2>5. AllTruthful'
    BY <1>1, <2>1, <2>3, <2>4 DEF AllTruthful, TruthfulWhen, IdleTask, NoSnapshot
  <2> QED
    BY <1>2, <2>2, <2>5
<1> QED
  BY <1>3, <1>4, <1>5, <1>6, <1>7

LEMMA TruthBeginConfirm ==
    ASSUME TypeOK, TasksHaveJobs, FreshUnprinted, AllTruthful, TypeOK',
           NEW h \in Handlers, NEW j \in Jobs, BeginConfirm(h, j)
    PROVE  TasksHaveJobs' /\ FreshUnprinted' /\ AllTruthful'
<1>1. /\ UNCHANGED <<jobs, disk, fresh, printed, answered>>
      /\ checked' = checked \cup {j}
      /\ pc[h] = "idle" /\ task[h] = IdleTask
  BY DEF BeginConfirm, TasksHaveJobs
<1>2. /\ task'[h].job = j
      /\ task'[h].record = Confirmed(jobs[j])
      /\ task'[h].snapshot = NoSnapshot
      /\ pc'[h] = "store_confirmed"
      /\ \A g \in Handlers \ {h} : task'[g] = task[g] /\ pc'[g] = pc[g]
  <2>1. task[h].snapshot = NoSnapshot /\ task[h] \in Tasks
    BY <1>1 DEF IdleTask, TypeOK
  <2> QED
    BY <2>1 DEF BeginConfirm, TypeOK, Tasks
<1>3. TasksHaveJobs' /\ FreshUnprinted'
  BY <1>1, <1>2 DEF TasksHaveJobs, FreshUnprinted
<1>4. TruthfulWhen(j, Confirmed(jobs[j]), printed[j], checked')
  <2>1. jobs[j] \in Records /\ "confirm_complete" \in jobs[j].actions
    BY DEF BeginConfirm, TypeOK
  <2>2. jobs[j].sent <= printed[j] /\ jobs[j].sent = TotalBytes
    BY <2>1 DEF AllTruthful, TruthfulWhen, BeginConfirm
  <2> QED
    BY <1>1, <2>1, <2>2, ConfirmedFacts DEF TruthfulWhen
<1>5. AllTruthful'
  <2> SUFFICES ASSUME NEW i \in Jobs
               PROVE  /\ TruthfulWhen(i, jobs[i], printed[i], checked')
                      /\ TruthfulWhen(i, disk.text.jobs[i], printed[i], checked')
                      /\ TruthfulWhen(i, answered[i], printed[i], checked')
                      /\ \A g \in Handlers :
                           /\ task'[g].job = i =>
                                TruthfulWhen(i, task'[g].record, printed[i], checked')
                           /\ TruthfulWhen(i, task'[g].snapshot.jobs[i], printed[i], checked')
    BY <1>1 DEF AllTruthful
  <2>1. /\ TruthfulWhen(i, jobs[i], printed[i], checked')
        /\ TruthfulWhen(i, disk.text.jobs[i], printed[i], checked')
        /\ TruthfulWhen(i, answered[i], printed[i], checked')
    BY <1>1 DEF AllTruthful, TruthfulWhen
  <2>2. ASSUME NEW g \in Handlers \ {h}
        PROVE  /\ task'[g].job = i =>
                    TruthfulWhen(i, task'[g].record, printed[i], checked')
               /\ TruthfulWhen(i, task'[g].snapshot.jobs[i], printed[i], checked')
    BY <1>1, <1>2 DEF AllTruthful, TruthfulWhen
  <2>3. /\ task'[h].job = i => TruthfulWhen(i, task'[h].record, printed[i], checked')
        /\ TruthfulWhen(i, task'[h].snapshot.jobs[i], printed[i], checked')
    BY <1>2, <1>4 DEF TruthfulWhen, NoSnapshot
  <2> QED
    BY <2>1, <2>2, <2>3
<1> QED
  BY <1>3, <1>5

LEMMA TruthRest ==
    ASSUME TypeOK, TasksHaveJobs, FreshUnprinted, AllTruthful, TypeOK',
           \/ \E p \in Previews : CreatePreview(p) \/ Expire(p)
           \/ Crash
           \/ Start
    PROVE  TasksHaveJobs' /\ FreshUnprinted' /\ AllTruthful'
<1>1. ASSUME NEW p \in Previews, CreatePreview(p) \/ Expire(p)
      PROVE  TasksHaveJobs' /\ FreshUnprinted' /\ AllTruthful'
  BY <1>1 DEF TasksHaveJobs, FreshUnprinted, AllTruthful, CreatePreview, Expire
<1>2. CASE Crash
  <2>1. TasksHaveJobs' /\ FreshUnprinted'
    BY <1>2 DEF TasksHaveJobs, FreshUnprinted, Crash
  <2>2. AllTruthful'
    BY <1>2 DEF AllTruthful, TruthfulWhen, Crash, IdleTask, NoSnapshot
  <2> QED
    BY <2>1, <2>2
<1>3. CASE Start
  BY <1>3 DEF TasksHaveJobs, FreshUnprinted, AllTruthful, Start
<1> QED
  BY <1>1, <1>2, <1>3

-----------------------------------------------------------------------------
LEMMA InitIInv == Init => IInv
<1> SUFFICES ASSUME Init PROVE IInv
  OBVIOUS
<1>1. TypeOK
  BY NoSnapshotType, IdleTaskType, QueueAssumption DEF Init, TypeOK, Absent
<1>2. TasksHaveJobs /\ FreshUnprinted
  BY DEF Init, TasksHaveJobs, FreshUnprinted
<1>3. AllTruthful
  BY DEF Init, AllTruthful, TruthfulWhen, Absent, IdleTask, NoSnapshot
<1> QED
  BY <1>1, <1>2, <1>3, AllTruthfulIs DEF IInv

LEMMA NextIInv == IInv /\ [Next]_vars => IInv'
<1> SUFFICES ASSUME IInv, [Next]_vars PROVE IInv'
  OBVIOUS
<1>1. TypeOK /\ TasksHaveJobs /\ FreshUnprinted /\ AllTruthful
  BY AllTruthfulIs DEF IInv
<1>2. CASE \E h \in Handlers, p \in Previews : BeginPrint(h, p)
  BY <1>1, <1>2, TypeBeginPrint, TruthBeginPrint, AllTruthfulIsNext DEF IInv
<1>3. CASE \E h \in Handlers, j \in Jobs : BeginConfirm(h, j)
  BY <1>1, <1>3, TypeBeginConfirm, TruthBeginConfirm, AllTruthfulIsNext DEF IInv
<1>4. ASSUME NEW h \in Handlers, Handle(h) PROVE IInv'
  <2>1. CASE Transfer(h) \/ TransferSucceeds(h) \/ TransferFails(h) \/ TransferRaises(h)
    BY <1>1, <2>1, TypeTransfer, TruthTransfer, AllTruthfulIsNext DEF IInv
  <2>2. CASE StoreJob(h) \/ StoreSegments(h) \/ Snapshot(h) \/ Open(h) \/ Write(h)
    BY <1>1, <2>2, TypeStore, TruthStore, AllTruthfulIsNext DEF IInv
  <2> QED
    BY <1>4, <2>1, <2>2 DEF Handle
<1>5. CASE (\E p \in Previews : CreatePreview(p) \/ Expire(p)) \/ Crash \/ Start
  BY <1>1, <1>5, TypeRest, TruthRest, AllTruthfulIsNext DEF IInv
<1>6. CASE UNCHANGED vars
  BY <1>6 DEF IInv, TypeOK, TasksHaveJobs, FreshUnprinted, RecordsTruthful,
              WorkTruthful, Truthful, vars
<1> QED
  BY <1>2, <1>3, <1>4, <1>5, <1>6 DEF Next

(* The daemon's state, its store included, keeps its types whatever the     *)
(* handlers, crashes and restarts do (printing/queue.py).                   *)
THEOREM QueueTypeCorrect == Spec => []TypeOK
<1>1. IInv => TypeOK
  BY DEF IInv
<1> QED
  BY InitIInv, NextIInv, <1>1, PTL DEF Spec

(* No record in memory, on disk or in an answer ever claims more bytes than *)
(* reached the printer, completion before the whole raster was sent, or     *)
(* verification without the operator's check.                               *)
THEOREM QueueIsTruthful == Spec => []RecordsTruthful
<1>1. IInv => RecordsTruthful
  BY DEF IInv
<1> QED
  BY InitIInv, NextIInv, <1>1, PTL DEF Spec

-----------------------------------------------------------------------------
(* Why records change by confirmation only: a handler that has not stored   *)
(* its new job is the only one to know the job's id, and a handler that     *)
(* confirms carries the confirmation of the record that is still there.     *)
Owner(h) == pc[h] \in {"transfer", "store_job"}

(* No record of job j anywhere a handler could take it from.                *)
Unrecorded(j) ==
    /\ jobs[j] = NoRecord
    /\ disk.text.jobs[j] = NoRecord
    /\ \A g \in Handlers : task[g].snapshot.jobs[j] = NoRecord

FreshUnrecorded ==
    \A j \in fresh : /\ Unrecorded(j)
                     /\ \A g \in Handlers : pc[g] # "idle" => task[g].job # j

OwnedUnrecorded ==
    \A h \in Handlers :
      Owner(h) =>
        /\ Unrecorded(task[h].job)
        /\ \A g \in Handlers \ {h} : pc[g] # "idle" => task[g].job # task[h].job

ConfirmsCurrent ==
    \A h \in Handlers :
      pc[h] = "store_confirmed" =>
        /\ jobs[task[h].job] # NoRecord
        /\ jobs[task[h].job].state \in {"completed_unverified", "confirmed_complete"}
        /\ task[h].record = Confirmed(jobs[task[h].job])

(* A confirmed record is the confirmation of itself.                        *)
Settled(r) == r # NoRecord /\ r.state = "confirmed_complete" => r = Confirmed(r)

AllSettled ==
    \A j \in Jobs : /\ Settled(jobs[j])
                    /\ Settled(disk.text.jobs[j])
                    /\ \A h \in Handlers : /\ Settled(task[h].record)
                                           /\ Settled(task[h].snapshot.jobs[j])

DownIdle == ~up => \A h \in Handlers : pc[h] = "idle"

OwnInv == FreshUnrecorded /\ OwnedUnrecorded /\ ConfirmsCurrent /\ AllSettled /\ DownIdle

LEMMA SettledRecords ==
    /\ Settled(NoRecord)
    /\ \A n : Settled(Unverified(n)) /\ Settled(Failure(n))
    /\ Settled(MockRecord)
    /\ \A r : Settled(Confirmed(r))
<1>1. /\ \A n : Unverified(n).state # "confirmed_complete"
      /\ \A n : Failure(n).state # "confirmed_complete"
  BY DEF Unverified, Failure
<1>2. \A r : Confirmed(Confirmed(r)) = Confirmed(r)
  BY DEF Confirmed
<1>3. MockRecord.state # "confirmed_complete"
  BY <1>1 DEF MockRecord
<1> QED
  BY <1>1, <1>2, <1>3 DEF Settled

LEMMA OwnBeginPrint ==
    ASSUME IInv, OwnInv, NEW h \in Handlers, NEW p \in Previews, BeginPrint(h, p)
    PROVE  OwnInv'
<1>1. PICK j \in fresh :
        /\ fresh' = fresh \ {j}
        /\ IF mode # "physical"
             THEN /\ pc' = [pc EXCEPT ![h] = "store_job"]
                  /\ task' = [task EXCEPT ![h].job = j, ![h].record = MockRecord]
             ELSE /\ pc' = [pc EXCEPT ![h] = "transfer"]
                  /\ task' = [task EXCEPT ![h].job = j]
  BY DEF BeginPrint
<1>2. /\ j \in Jobs /\ pc[h] = "idle" /\ task[h] = IdleTask
      /\ UNCHANGED <<up, jobs, disk>> /\ up
  BY <1>1 DEF IInv, TypeOK, TasksHaveJobs, BeginPrint
<1>3. /\ task'[h].job = j
      /\ task'[h].snapshot = NoSnapshot
      /\ task'[h].record \in {MockRecord, NoRecord}
      /\ pc'[h] \in {"store_job", "transfer"}
      /\ \A g \in Handlers \ {h} : task'[g] = task[g] /\ pc'[g] = pc[g]
  <2>1. task[h].record = NoRecord /\ task[h].snapshot = NoSnapshot
    BY <1>2 DEF IdleTask
  <2> QED
    BY <1>1, <2>1 DEF IInv, TypeOK, Tasks
<1>4. \A i \in Jobs : NoSnapshot.jobs[i] = NoRecord
  BY DEF NoSnapshot
<1>5. \A i \in Jobs : Unrecorded(i) => Unrecorded(i)'
  BY <1>2, <1>3, <1>4 DEF Unrecorded
<1>6. fresh \subseteq Jobs /\ \A g \in Handlers : pc[g] # "idle" => task[g].job \in Jobs
  BY DEF IInv, TypeOK, TasksHaveJobs
<1>7. FreshUnrecorded'
  BY <1>1, <1>3, <1>5, <1>6 DEF OwnInv, FreshUnrecorded
<1>8. OwnedUnrecorded'
  BY <1>1, <1>2, <1>3, <1>5, <1>6 DEF OwnInv, FreshUnrecorded, OwnedUnrecorded, Owner
<1>9. ConfirmsCurrent'
  BY <1>2, <1>3 DEF OwnInv, ConfirmsCurrent
<1>10. AllSettled'
  BY <1>2, <1>3, <1>4, SettledRecords DEF OwnInv, AllSettled
<1> QED
  BY <1>2, <1>7, <1>8, <1>9, <1>10 DEF OwnInv, DownIdle

LEMMA OwnTransfer ==
    ASSUME IInv, OwnInv, NEW h \in Handlers,
           Transfer(h) \/ TransferSucceeds(h) \/ TransferFails(h) \/ TransferRaises(h)
    PROVE  OwnInv'
<1>1. /\ UNCHANGED <<up, jobs, disk, fresh>>
      /\ up /\ pc[h] = "transfer" /\ task[h] \in Tasks
      /\ \A g \in Handlers \ {h} : task'[g] = task[g] /\ pc'[g] = pc[g]
  BY DEF IInv, TypeOK, Transfer, TransferSucceeds, TransferFails, TransferRaises
<1>2. \/ /\ pc'[h] \in {"transfer", "store_job"}
         /\ task'[h].job = task[h].job
         /\ task'[h].snapshot = task[h].snapshot
         /\ Settled(task'[h].record)
      \/ pc'[h] = "idle" /\ task'[h] = IdleTask
  <2>1. CASE Transfer(h)
    BY <1>1, <2>1 DEF Transfer, OwnInv, AllSettled, IInv, TasksHaveJobs
  <2>2. CASE TransferSucceeds(h)
    BY <1>1, <2>2, SettledRecords DEF TransferSucceeds, IInv, TypeOK, Tasks
  <2>3. CASE TransferFails(h)
    BY <1>1, <2>3, SettledRecords DEF TransferFails, IInv, TypeOK, Tasks
  <2>4. CASE TransferRaises(h)
    BY <1>1, <2>4 DEF TransferRaises, IInv, TypeOK
  <2> QED
    BY <2>1, <2>2, <2>3, <2>4
<1>3. /\ IdleTask.record = NoRecord /\ IdleTask.snapshot = NoSnapshot
      /\ \A i \in Jobs : NoSnapshot.jobs[i] = NoRecord
  BY DEF IdleTask, NoSnapshot
<1>4. \A i \in Jobs : Unrecorded(i) => Unrecorded(i)'
  BY <1>1, <1>2, <1>3 DEF Unrecorded
<1>5. fresh \subseteq Jobs /\ \A g \in Handlers : pc[g] # "idle" => task[g].job \in Jobs
  BY DEF IInv, TypeOK, TasksHaveJobs
<1>6. FreshUnrecorded'
  BY <1>1, <1>2, <1>4, <1>5 DEF OwnInv, FreshUnrecorded
<1>7. OwnedUnrecorded'
  BY <1>1, <1>2, <1>4, <1>5 DEF OwnInv, OwnedUnrecorded, Owner
<1>8. ConfirmsCurrent'
  BY <1>1, <1>2 DEF OwnInv, ConfirmsCurrent
<1>9. AllSettled'
  BY <1>1, <1>2, <1>3, SettledRecords DEF OwnInv, AllSettled
<1> QED
  BY <1>1, <1>6, <1>7, <1>8, <1>9 DEF OwnInv, DownIdle

LEMMA OwnStoreJob ==
    ASSUME IInv, OwnInv, NEW h \in Handlers, StoreJob(h)
    PROVE  OwnInv'
<1> DEFINE j == task[h].job
<1>1. /\ j \in Jobs /\ up
      /\ UNCHANGED <<up, disk, fresh, task>>
      /\ pc[h] \in {"store_job", "store_confirmed"}
      /\ pc'[h] = IF pc[h] = "store_job" THEN "store_segments" ELSE "snapshot"
      /\ \A g \in Handlers \ {h} : pc'[g] = pc[g]
      /\ jobs'[j] = task[h].record
      /\ \A i \in Jobs \ {j} : jobs'[i] = jobs[i]
  BY DEF IInv, TypeOK, TasksHaveJobs, StoreJob
<1>2. fresh \subseteq Jobs /\ \A g \in Handlers : pc[g] # "idle" => task[g].job \in Jobs
  BY DEF IInv, TypeOK, TasksHaveJobs
<1>3. \A i \in Jobs \ {j} : Unrecorded(i) => Unrecorded(i)'
  BY <1>1 DEF Unrecorded
<1>4. FreshUnrecorded'
  BY <1>1, <1>2, <1>3 DEF OwnInv, FreshUnrecorded
<1>5. \A g \in Handlers \ {h} : Owner(g) => task[g].job # j
  BY <1>1 DEF OwnInv, OwnedUnrecorded
<1>6. OwnedUnrecorded'
  <2> SUFFICES ASSUME NEW k \in Handlers, Owner(k)'
               PROVE  /\ Unrecorded(task[k].job)'
                      /\ \A g \in Handlers \ {k} : pc'[g] # "idle" => task[g].job # task[k].job
    BY <1>1 DEF OwnedUnrecorded
  <2>1. k # h /\ Owner(k) /\ task[k].job \in Jobs \ {j}
    BY <1>1, <1>2, <1>5 DEF Owner
  <2>2. /\ Unrecorded(task[k].job)
        /\ \A g \in Handlers \ {k} : pc[g] # "idle" => task[g].job # task[k].job
    BY <2>1 DEF OwnInv, OwnedUnrecorded
  <2>3. Unrecorded(task[k].job)'
    BY <1>1, <1>3, <2>1, <2>2 DEF Unrecorded
  <2> QED
    BY <1>1, <2>1, <2>2, <2>3
<1>7. ConfirmsCurrent'
  <2> SUFFICES ASSUME NEW g \in Handlers, pc'[g] = "store_confirmed"
               PROVE  /\ jobs'[task[g].job] # NoRecord
                      /\ jobs'[task[g].job].state \in {"completed_unverified", "confirmed_complete"}
                      /\ task[g].record = Confirmed(jobs'[task[g].job])
    BY <1>1 DEF ConfirmsCurrent
  <2>1. g # h /\ pc[g] = "store_confirmed" /\ task[g].job \in Jobs
    BY <1>1, <1>2
  <2>2. /\ jobs[task[g].job] # NoRecord
        /\ jobs[task[g].job].state \in {"completed_unverified", "confirmed_complete"}
        /\ task[g].record = Confirmed(jobs[task[g].job])
    BY <2>1 DEF OwnInv, ConfirmsCurrent
  <2>3. CASE task[g].job # j
    BY <1>1, <2>1, <2>2, <2>3
  <2>4. CASE task[g].job = j
    <3>1. pc[h] = "store_confirmed"
      BY <1>1, <2>1, <2>4 DEF OwnInv, OwnedUnrecorded, Owner
    <3>2. task[h].record = Confirmed(jobs[j])
      BY <3>1 DEF OwnInv, ConfirmsCurrent
    <3>3. jobs[j] \in Records
      BY <2>2, <2>4, <1>1 DEF IInv, TypeOK
    <3>4. jobs'[j] = Confirmed(jobs[j]) /\ task[g].record = Confirmed(jobs[j])
      BY <1>1, <2>2, <2>4, <3>2
    <3>5. /\ Confirmed(jobs[j]) # NoRecord
          /\ Confirmed(jobs[j]).state = "confirmed_complete"
      BY <3>3, ConfirmedFacts, SentinelAssumption
    <3>6. Confirmed(Confirmed(jobs[j])) = Confirmed(jobs[j])
      BY DEF Confirmed
    <3> QED
      BY <2>4, <3>4, <3>5, <3>6
  <2> QED
    BY <2>3, <2>4
<1>8. AllSettled'
  BY <1>1 DEF OwnInv, AllSettled
<1> QED
  BY <1>1, <1>4, <1>6, <1>7, <1>8 DEF OwnInv, DownIdle

LEMMA OwnStore ==
    ASSUME IInv, OwnInv, NEW h \in Handlers,
           StoreSegments(h) \/ Snapshot(h) \/ Open(h) \/ Write(h)
    PROVE  OwnInv'
<1>1. /\ UNCHANGED <<up, jobs, fresh>>
      /\ up /\ pc[h] \in {"store_segments", "snapshot", "open", "write"} /\ task[h] \in Tasks
      /\ \A g \in Handlers \ {h} : task'[g] = task[g] /\ pc'[g] = pc[g]
  BY DEF IInv, TypeOK, StoreSegments, Snapshot, Open, Write
<1>2. /\ fresh \subseteq Jobs
      /\ \A g \in Handlers : pc[g] # "idle" => task[g].job \in Jobs
  BY DEF IInv, TypeOK, TasksHaveJobs
<1>3. /\ IdleTask.record = NoRecord /\ IdleTask.snapshot = NoSnapshot
      /\ \A i \in Jobs : NoSnapshot.jobs[i] = NoRecord
  BY DEF IdleTask, NoSnapshot
<1>4. /\ pc'[h] \in {"snapshot", "open", "write", "idle"}
      /\ \/ task'[h].job = task[h].job /\ task'[h].record = task[h].record
         \/ pc'[h] = "idle" /\ task'[h] = IdleTask
      /\ task'[h].snapshot.jobs \in {task[h].snapshot.jobs, jobs, NoSnapshot.jobs}
      /\ disk'.text.jobs \in {disk.text.jobs, task[h].snapshot.jobs, NoSnapshot.jobs}
  <2>1. CASE StoreSegments(h)
    BY <1>1, <2>1 DEF StoreSegments, IInv, TypeOK
  <2>2. CASE Snapshot(h)
    BY <1>1, <2>2 DEF Snapshot, IInv, TypeOK, Tasks
  <2>3. CASE Open(h)
    BY <1>1, <2>3 DEF Open, IInv, TypeOK, Empty
  <2>4. CASE Write(h)
    <3>1. disk'.text = task[h].snapshot
      BY <2>4 DEF Write, Overwrite
    <3>2. pc'[h] = "idle" /\ task'[h] = IdleTask
      BY <2>4 DEF Write, IInv, TypeOK
    <3> QED
      BY <1>3, <3>1, <3>2
  <2> QED
    BY <2>1, <2>2, <2>3, <2>4
<1>5. \A i \in Jobs : Unrecorded(i) => Unrecorded(i)'
  BY <1>1, <1>3, <1>4 DEF Unrecorded
<1>6. FreshUnrecorded'
  BY <1>1, <1>2, <1>4, <1>5 DEF OwnInv, FreshUnrecorded
<1>7. OwnedUnrecorded'
  BY <1>1, <1>2, <1>4, <1>5 DEF OwnInv, OwnedUnrecorded, Owner
<1>8. ConfirmsCurrent'
  BY <1>1, <1>4 DEF OwnInv, ConfirmsCurrent
<1>9. AllSettled'
  BY <1>1, <1>3, <1>4, SettledRecords DEF OwnInv, AllSettled
<1> QED
  BY <1>1, <1>6, <1>7, <1>8, <1>9 DEF OwnInv, DownIdle

LEMMA OwnBeginConfirm ==
    ASSUME IInv, OwnInv, NEW h \in Handlers, NEW j \in Jobs, BeginConfirm(h, j)
    PROVE  OwnInv'
<1>1. /\ UNCHANGED <<up, jobs, disk, fresh>>
      /\ up /\ pc[h] = "idle" /\ task[h] = IdleTask
      /\ jobs[j] \in Records /\ jobs[j] # NoRecord
      /\ "confirm_complete" \in jobs[j].actions
      /\ \A g \in Handlers \ {h} : task'[g] = task[g] /\ pc'[g] = pc[g]
  BY DEF IInv, TypeOK, TasksHaveJobs, BeginConfirm
<1>2. /\ IdleTask.record = NoRecord /\ IdleTask.snapshot = NoSnapshot
      /\ \A i \in Jobs : NoSnapshot.jobs[i] = NoRecord
  BY DEF IdleTask, NoSnapshot
<1>3. /\ task'[h].job = j
      /\ task'[h].record = Confirmed(jobs[j])
      /\ task'[h].snapshot = NoSnapshot
      /\ pc'[h] = "store_confirmed"
  BY <1>1, <1>2 DEF IInv, TypeOK, Tasks, BeginConfirm
<1>4. jobs[j].state = "completed_unverified"
  BY <1>1 DEF IInv, RecordsTruthful, Truthful
<1>5. \A i \in Jobs : Unrecorded(i) => Unrecorded(i)'
  BY <1>1, <1>2, <1>3 DEF Unrecorded
<1>6. fresh \subseteq Jobs /\ \A g \in Handlers : pc[g] # "idle" => task[g].job \in Jobs
  BY DEF IInv, TypeOK, TasksHaveJobs
<1>7. FreshUnrecorded'
  BY <1>1, <1>3, <1>5, <1>6 DEF OwnInv, FreshUnrecorded, Unrecorded
<1>8. OwnedUnrecorded'
  BY <1>1, <1>3, <1>5, <1>6 DEF OwnInv, OwnedUnrecorded, Owner, Unrecorded
<1>9. ConfirmsCurrent'
  BY <1>1, <1>3, <1>4 DEF OwnInv, ConfirmsCurrent
<1>10. AllSettled'
  BY <1>1, <1>2, <1>3, SettledRecords DEF OwnInv, AllSettled
<1> QED
  BY <1>1, <1>7, <1>8, <1>9, <1>10 DEF OwnInv, DownIdle

LEMMA OwnRest ==
    ASSUME IInv, OwnInv,
           \/ \E p \in Previews : CreatePreview(p) \/ Expire(p)
           \/ Crash
           \/ Start
    PROVE  OwnInv'
<1>1. ASSUME NEW p \in Previews, CreatePreview(p) \/ Expire(p) PROVE OwnInv'
  BY <1>1 DEF CreatePreview, Expire, OwnInv, FreshUnrecorded, OwnedUnrecorded, ConfirmsCurrent,
              AllSettled, DownIdle, Owner, Unrecorded
<1>2. /\ IdleTask.record = NoRecord /\ IdleTask.snapshot = NoSnapshot
      /\ \A i \in Jobs : NoSnapshot.jobs[i] = NoRecord
  BY DEF IdleTask, NoSnapshot
<1>3. fresh \subseteq Jobs
  BY DEF IInv, TypeOK
<1>4. CASE Crash
  <2>1. /\ UNCHANGED <<disk, fresh>> /\ up' = FALSE
        /\ \A i \in Jobs : jobs'[i] = NoRecord
        /\ \A g \in Handlers : pc'[g] = "idle" /\ task'[g] = IdleTask
    BY <1>4 DEF Crash
  <2>2. \A i \in Jobs : Unrecorded(i) => Unrecorded(i)'
    BY <1>2, <2>1 DEF Unrecorded
  <2>3. FreshUnrecorded' /\ OwnedUnrecorded' /\ ConfirmsCurrent' /\ DownIdle'
    BY <1>3, <2>1, <2>2
       DEF OwnInv, FreshUnrecorded, OwnedUnrecorded, ConfirmsCurrent, DownIdle, Owner
  <2>4. AllSettled'
    BY <1>2, <2>1, SettledRecords DEF OwnInv, AllSettled
  <2> QED
    BY <2>3, <2>4 DEF OwnInv
<1>5. CASE Start
  <2>1. /\ UNCHANGED <<disk, fresh, pc, task>> /\ up' = TRUE
        /\ jobs' = disk.text.jobs
        /\ \A g \in Handlers : pc[g] = "idle"
    BY <1>5 DEF Start, OwnInv, DownIdle
  <2>2. \A i \in Jobs : Unrecorded(i) => Unrecorded(i)'
    BY <2>1 DEF Unrecorded
  <2>3. FreshUnrecorded' /\ OwnedUnrecorded' /\ ConfirmsCurrent' /\ DownIdle'
    BY <1>3, <2>1, <2>2
       DEF OwnInv, FreshUnrecorded, OwnedUnrecorded, ConfirmsCurrent, DownIdle, Owner
  <2>4. AllSettled'
    BY <2>1 DEF OwnInv, AllSettled
  <2> QED
    BY <2>3, <2>4 DEF OwnInv
<1> QED
  BY <1>1, <1>4, <1>5

LEMMA InitOwnInv == Init => OwnInv
<1> SUFFICES ASSUME Init PROVE OwnInv
  OBVIOUS
<1>1. /\ up
      /\ \A j \in Jobs : jobs[j] = NoRecord /\ disk.text.jobs[j] = NoRecord
      /\ \A h \in Handlers : /\ pc[h] = "idle" /\ task[h].record = NoRecord
                             /\ \A j \in Jobs : task[h].snapshot.jobs[j] = NoRecord
      /\ fresh = Jobs
  BY DEF Init, IdleTask, NoSnapshot, Absent
<1> QED
  BY <1>1, SettledRecords DEF OwnInv, FreshUnrecorded, OwnedUnrecorded, ConfirmsCurrent,
              AllSettled, DownIdle, Owner, Unrecorded

LEMMA NextOwnInv == IInv /\ OwnInv /\ [Next]_vars => OwnInv'
<1> SUFFICES ASSUME IInv, OwnInv, [Next]_vars PROVE OwnInv'
  OBVIOUS
<1>1. ASSUME NEW h \in Handlers, Handle(h) PROVE OwnInv'
  BY <1>1, OwnTransfer, OwnStoreJob, OwnStore DEF Handle
<1>2. CASE UNCHANGED vars
  BY <1>2 DEF vars, OwnInv, FreshUnrecorded, OwnedUnrecorded, ConfirmsCurrent,
              AllSettled, DownIdle, Owner, Unrecorded
<1> QED
  BY <1>1, <1>2, OwnBeginPrint, OwnBeginConfirm, OwnRest DEF Next

(* The step that RecordsOnlyConfirm allows.                                 *)
ConfirmsOnly ==
    up /\ up' =>
      \A j \in Jobs :
        jobs[j] # NoRecord /\ jobs'[j] # jobs[j] =>
          /\ jobs[j].state = "completed_unverified"
          /\ jobs'[j] = Confirmed(jobs[j])

LEMMA StepConfirmsOnly == IInv /\ OwnInv /\ [Next]_vars => [ConfirmsOnly]_vars
<1> SUFFICES ASSUME IInv, OwnInv, [Next]_vars, up, up' PROVE ConfirmsOnly
  BY DEF ConfirmsOnly
<1>1. ASSUME NEW h \in Handlers, StoreJob(h) PROVE ConfirmsOnly
  <2> DEFINE j == task[h].job
  <2>1. /\ j \in Jobs
        /\ jobs'[j] = task[h].record
        /\ \A i \in Jobs \ {j} : jobs'[i] = jobs[i]
        /\ pc[h] \in {"store_job", "store_confirmed"}
    BY <1>1 DEF IInv, TypeOK, TasksHaveJobs, StoreJob
  <2>2. CASE pc[h] = "store_job"
    BY <2>1, <2>2 DEF ConfirmsOnly, OwnInv, OwnedUnrecorded, Owner, Unrecorded
  <2>3. CASE pc[h] = "store_confirmed"
    <3>1. /\ jobs[j].state \in {"completed_unverified", "confirmed_complete"}
          /\ jobs'[j] = Confirmed(jobs[j])
          /\ Settled(jobs[j])
      BY <2>1, <2>3 DEF OwnInv, ConfirmsCurrent, AllSettled
    <3> QED
      BY <2>1, <3>1 DEF ConfirmsOnly, Settled
  <2> QED
    BY <2>1, <2>2, <2>3
<1>2. CASE UNCHANGED jobs
  BY <1>2 DEF ConfirmsOnly
<1>3. ASSUME NEW h \in Handlers, Handle(h), ~StoreJob(h) PROVE UNCHANGED jobs
  BY <1>3 DEF Handle, Transfer, TransferSucceeds, TransferFails, TransferRaises,
              StoreSegments, Snapshot, Open, Write
<1>4. ~Crash /\ ~Start
  BY DEF Crash, Start
<1>5. CASE Next /\ ~\E h \in Handlers : Handle(h)
  BY <1>2, <1>4, <1>5 DEF Next, CreatePreview, Expire, BeginPrint, BeginConfirm
<1> QED
  BY <1>1, <1>2, <1>3, <1>5 DEF vars

(* While the daemon is up a record changes only from completed_unverified   *)
(* to its confirmation, however many handlers store, confirm and persist at *)
(* once (print_preview and confirm_output).                                 *)
THEOREM QueueOnlyConfirms == Spec => RecordsOnlyConfirm
<1>1. Init => IInv /\ OwnInv
  BY InitIInv, InitOwnInv
<1>2. IInv /\ OwnInv /\ [Next]_vars => (IInv /\ OwnInv)'
  BY NextIInv, NextOwnInv
<1> QED
  BY <1>1, <1>2, StepConfirmsOnly, PTL DEF Spec, RecordsOnlyConfirm, ConfirmsOnly

-----------------------------------------------------------------------------
(* The queue implements the lifecycle.  What the store and the snapshots    *)
(* hold is never ahead of memory, so a crash only goes back to an earlier   *)
(* state of a job; and what a handler is about to report fits its output.   *)
Precedes(a, b) ==
    \/ a = NoRecord
    \/ /\ b # NoRecord
       /\ \/ a.state = b.state
          \/ a.state = "completed_unverified" /\ b.state = "confirmed_complete"

NothingAhead ==
    up => \A j \in Jobs : /\ Precedes(disk.text.jobs[j], jobs[j])
                          /\ \A h \in Handlers : Precedes(task[h].snapshot.jobs[j], jobs[j])

ReportFits ==
    \A h \in Handlers :
      pc[h] = "store_job" =>
        /\ task[h].record # NoRecord
        /\ task[h].record.state \in {"completed_unverified", "failed_partial_output",
                                     "failed_before_output"}
        /\ task[h].record.state = "failed_partial_output" => task[h].record.sent > 0

LifeInv == NothingAhead /\ ReportFits

LEMMA NewRecords ==
    /\ \A n \in 0..TotalBytes : Unverified(n) # NoRecord /\ Failure(n) # NoRecord
    /\ \A n \in 0..TotalBytes : Failure(n).state = "failed_partial_output" => n > 0
    /\ MockRecord # NoRecord
    /\ MockRecord.state \in {"completed_unverified", "failed_partial_output",
                              "failed_before_output"}
    /\ (MockRecord.state = "failed_partial_output" => MockRecord.sent > 0)
<1>1. \A n \in 0..TotalBytes : Failure(n).state = "failed_partial_output" => n > 0
  BY DEF Failure
<1>2. MockSent \in 0..TotalBytes /\ TotalBytes \in 0..TotalBytes
  BY QueueAssumption
<1>3. \A n \in 0..TotalBytes : Unverified(n) # NoRecord /\ Failure(n) # NoRecord
  BY UnverifiedFacts, FailureFacts, SentinelAssumption
<1>4. ASSUME mode = "mock_disconnect"
      PROVE  /\ MockRecord # NoRecord
             /\ MockRecord.state \in {"failed_partial_output", "failed_before_output"}
             /\ (MockRecord.state = "failed_partial_output" => MockRecord.sent > 0)
  <2>1. MockRecord = Failure(MockSent)
    BY <1>4 DEF MockRecord
  <2>2. Failure(MockSent) # NoRecord
    BY <1>2, <1>3
  <2>3. /\ Failure(MockSent).sent = MockSent
        /\ Failure(MockSent).state \in {"failed_partial_output", "failed_before_output"}
    BY <1>2, FailureFacts
  <2>4. Failure(MockSent).state = "failed_partial_output" => MockSent > 0
    BY <1>1, <1>2
  <2> QED
    BY <2>1, <2>2, <2>3, <2>4
<1>5. ASSUME mode # "mock_disconnect"
      PROVE  /\ MockRecord # NoRecord
             /\ MockRecord.state = "completed_unverified"
  <2>1. MockRecord = Unverified(TotalBytes)
    BY <1>5 DEF MockRecord
  <2> QED
    BY <1>2, <1>3, <2>1, UnverifiedFacts
<1>6. /\ MockRecord # NoRecord
      /\ MockRecord.state \in {"completed_unverified", "failed_partial_output",
                                "failed_before_output"}
      /\ (MockRecord.state = "failed_partial_output" => MockRecord.sent > 0)
  BY <1>4, <1>5
<1> QED
  BY <1>1, <1>3, <1>6

LEMMA LifeBeginPrint ==
    ASSUME IInv, OwnInv, LifeInv, NEW h \in Handlers, NEW p \in Previews, BeginPrint(h, p)
    PROVE  LifeInv'
<1>1. PICK j \in fresh :
        IF mode # "physical"
          THEN /\ pc' = [pc EXCEPT ![h] = "store_job"]
               /\ task' = [task EXCEPT ![h].job = j, ![h].record = MockRecord]
          ELSE /\ pc' = [pc EXCEPT ![h] = "transfer"]
               /\ task' = [task EXCEPT ![h].job = j]
  BY DEF BeginPrint
<1>2. /\ \A g \in Handlers : task'[g].snapshot = task[g].snapshot
      /\ \A g \in Handlers \ {h} : task'[g] = task[g] /\ pc'[g] = pc[g]
      /\ pc'[h] = "store_job" => task'[h].record = MockRecord
      /\ UNCHANGED <<up, jobs, disk>>
  BY <1>1 DEF BeginPrint, IInv, TypeOK, Tasks
<1>3. NothingAhead'
  BY <1>2 DEF LifeInv, NothingAhead
<1>4. ReportFits'
  BY <1>2, NewRecords DEF LifeInv, ReportFits
<1> QED
  BY <1>3, <1>4 DEF LifeInv

LEMMA LifeTransfer ==
    ASSUME IInv, OwnInv, LifeInv, NEW h \in Handlers,
           Transfer(h) \/ TransferSucceeds(h) \/ TransferFails(h) \/ TransferRaises(h)
    PROVE  LifeInv'
<1>1. /\ UNCHANGED <<up, jobs, disk>>
      /\ pc[h] = "transfer" /\ task[h].job \in Jobs
      /\ \A g \in Handlers \ {h} : task'[g] = task[g] /\ pc'[g] = pc[g]
  BY DEF IInv, TypeOK, TasksHaveJobs, Transfer, TransferSucceeds, TransferFails, TransferRaises
<1>2. printed[task[h].job] \in 0..TotalBytes /\ TotalBytes \in 0..TotalBytes
  BY <1>1, QueueAssumption DEF IInv, TypeOK
<1>3. /\ task'[h].snapshot.jobs \in {task[h].snapshot.jobs, NoSnapshot.jobs}
      /\ pc'[h] = "store_job" =>
           \E n \in 0..TotalBytes : task'[h].record \in {Unverified(n), Failure(n)}
  <2>1. CASE Transfer(h)
    BY <1>1, <2>1 DEF Transfer
  <2>2. CASE TransferSucceeds(h)
    BY <1>2, <2>2 DEF TransferSucceeds, IInv, TypeOK, Tasks
  <2>3. CASE TransferFails(h)
    <3>1. PICK n \in 0..printed[task[h].job] : task' = [task EXCEPT ![h].record = Failure(n)]
      BY <2>3 DEF TransferFails
    <3>2. n \in 0..TotalBytes
      BY <1>2, <3>1
    <3> QED
      BY <3>1, <3>2 DEF IInv, TypeOK, Tasks
  <2>4. CASE TransferRaises(h)
    BY <2>4 DEF TransferRaises, IInv, TypeOK, IdleTask
  <2> QED
    BY <2>1, <2>2, <2>3, <2>4
<1>4. NothingAhead'
  BY <1>1, <1>3 DEF LifeInv, NothingAhead, Precedes, NoSnapshot
<1>5. ReportFits'
  <2> SUFFICES ASSUME pc'[h] = "store_job"
               PROVE  /\ task'[h].record # NoRecord
                      /\ task'[h].record.state \in {"completed_unverified",
                            "failed_partial_output", "failed_before_output"}
                      /\ task'[h].record.state = "failed_partial_output" =>
                           task'[h].record.sent > 0
    BY <1>1 DEF LifeInv, ReportFits
  <2>1. PICK n \in 0..TotalBytes : task'[h].record \in {Unverified(n), Failure(n)}
    BY <1>3
  <2> QED
    BY <2>1, NewRecords, UnverifiedFacts, FailureFacts
<1> QED
  BY <1>4, <1>5 DEF LifeInv

LEMMA LifeStoreJob ==
    ASSUME IInv, OwnInv, LifeInv, NEW h \in Handlers, StoreJob(h)
    PROVE  LifeInv'
<1> DEFINE j == task[h].job
<1>1. /\ j \in Jobs /\ up
      /\ UNCHANGED <<up, disk, task>>
      /\ pc[h] \in {"store_job", "store_confirmed"}
      /\ pc'[h] \in {"store_segments", "snapshot"}
      /\ \A g \in Handlers \ {h} : pc'[g] = pc[g]
      /\ jobs'[j] = task[h].record
      /\ \A i \in Jobs \ {j} : jobs'[i] = jobs[i]
  BY DEF IInv, TypeOK, TasksHaveJobs, StoreJob
<1>2. \A r \in Records \cup {NoRecord} : Precedes(r, jobs[j]) => Precedes(r, jobs'[j])
  <2>1. CASE pc[h] = "store_job"
    BY <2>1 DEF OwnInv, OwnedUnrecorded, Owner, Unrecorded, Precedes
  <2>2. CASE pc[h] = "store_confirmed"
    <3>1. /\ jobs[j] # NoRecord /\ jobs[j] \in Records
          /\ jobs[j].state \in {"completed_unverified", "confirmed_complete"}
          /\ jobs'[j] = Confirmed(jobs[j])
      BY <1>1, <2>2 DEF OwnInv, ConfirmsCurrent, IInv, TypeOK
    <3>2. jobs'[j] # NoRecord /\ jobs'[j].state = "confirmed_complete"
      BY <3>1, ConfirmedFacts, SentinelAssumption
    <3> QED
      BY <3>1, <3>2 DEF Precedes
  <2> QED
    BY <1>1, <2>1, <2>2
<1>3. NothingAhead'
  BY <1>1, <1>2, RecordTypes DEF LifeInv, NothingAhead, IInv
<1>4. ReportFits'
  BY <1>1 DEF LifeInv, ReportFits
<1> QED
  BY <1>3, <1>4 DEF LifeInv

LEMMA LifeStore ==
    ASSUME IInv, OwnInv, LifeInv, NEW h \in Handlers,
           StoreSegments(h) \/ Snapshot(h) \/ Open(h) \/ Write(h)
    PROVE  LifeInv'
<1>1. /\ UNCHANGED <<up, jobs>> /\ up
      /\ \A g \in Handlers \ {h} : task'[g] = task[g] /\ pc'[g] = pc[g]
      /\ pc'[h] \in {"snapshot", "open", "write", "idle"}
  BY DEF IInv, TypeOK, StoreSegments, Snapshot, Open, Write
<1>2. /\ task'[h].snapshot.jobs \in {task[h].snapshot.jobs, jobs, NoSnapshot.jobs}
      /\ disk'.text.jobs \in {disk.text.jobs, task[h].snapshot.jobs, NoSnapshot.jobs}
  <2>1. CASE StoreSegments(h)
    BY <2>1 DEF StoreSegments
  <2>2. CASE Snapshot(h)
    BY <2>2 DEF Snapshot, IInv, TypeOK, Tasks
  <2>3. CASE Open(h)
    BY <2>3 DEF Open, Empty
  <2>4. CASE Write(h)
    <3>1. disk'.text = task[h].snapshot
      BY <2>4 DEF Write, Overwrite
    <3>2. task'[h] = IdleTask
      BY <2>4 DEF Write, IInv, TypeOK
    <3> QED
      BY <3>1, <3>2 DEF IdleTask
  <2> QED
    BY <2>1, <2>2, <2>3, <2>4
<1>3. NothingAhead'
  BY <1>1, <1>2 DEF LifeInv, NothingAhead, Precedes, NoSnapshot
<1>4. ReportFits'
  BY <1>1 DEF LifeInv, ReportFits
<1> QED
  BY <1>3, <1>4 DEF LifeInv

LEMMA LifeRest ==
    ASSUME IInv, OwnInv, LifeInv,
           \/ \E p \in Previews : CreatePreview(p) \/ Expire(p)
           \/ \E h \in Handlers, j \in Jobs : BeginConfirm(h, j)
           \/ Crash
           \/ Start
    PROVE  LifeInv'
<1>1. ASSUME NEW p \in Previews, CreatePreview(p) \/ Expire(p) PROVE LifeInv'
  BY <1>1 DEF CreatePreview, Expire, LifeInv, NothingAhead, ReportFits
<1>2. ASSUME NEW h \in Handlers, NEW j \in Jobs, BeginConfirm(h, j) PROVE LifeInv'
  <2>1. /\ UNCHANGED <<up, jobs, disk>>
        /\ \A g \in Handlers : task'[g].snapshot = task[g].snapshot
        /\ pc'[h] = "store_confirmed"
        /\ \A g \in Handlers \ {h} : task'[g] = task[g] /\ pc'[g] = pc[g]
    BY <1>2 DEF BeginConfirm, IInv, TypeOK, Tasks
  <2> QED
    BY <2>1 DEF LifeInv, NothingAhead, ReportFits
<1>3. CASE Crash
  BY <1>3 DEF Crash, LifeInv, NothingAhead, ReportFits
<1>4. CASE Start
  <2>1. /\ up' /\ jobs' = disk.text.jobs /\ UNCHANGED <<disk, pc, task>>
        /\ \A h \in Handlers : pc[h] = "idle" /\ task[h] = IdleTask
    BY <1>4 DEF Start, OwnInv, DownIdle, IInv, TasksHaveJobs
  <2> QED
    BY <2>1 DEF LifeInv, NothingAhead, ReportFits, Precedes, IdleTask, NoSnapshot
<1> QED
  BY <1>1, <1>2, <1>3, <1>4

LEMMA InitLifeInv == Init => LifeInv
BY DEF Init, LifeInv, NothingAhead, ReportFits, Precedes, Absent, IdleTask, NoSnapshot

LEMMA NextLifeInv == IInv /\ OwnInv /\ LifeInv /\ [Next]_vars => LifeInv'
<1> SUFFICES ASSUME IInv, OwnInv, LifeInv, [Next]_vars PROVE LifeInv'
  OBVIOUS
<1>1. ASSUME NEW h \in Handlers, Handle(h) PROVE LifeInv'
  BY <1>1, LifeTransfer, LifeStoreJob, LifeStore DEF Handle
<1>2. CASE UNCHANGED vars
  BY <1>2 DEF vars, LifeInv, NothingAhead, ReportFits
<1> QED
  BY <1>1, <1>2, LifeBeginPrint, LifeRest DEF Next

(* What the lifecycle sees of the daemon.                                   *)
Shown == [j \in Jobs |-> IF ShownJobs[j] = NoRecord THEN "none" ELSE ShownJobs[j].state]

LEMMA LifecycleInit == Init => Lifecycle!Init
BY DEF Init, Lifecycle!Init, ShownJobs

LEMMA LifecycleStep ==
    IInv /\ OwnInv /\ LifeInv /\ [Next]_vars => [Lifecycle!Next]_Lifecycle!lifecycleVars
<1> SUFFICES ASSUME IInv, OwnInv, LifeInv, [Next]_vars
             PROVE  Lifecycle!Next \/ UNCHANGED Lifecycle!lifecycleVars
  OBVIOUS
<1>1. ASSUME Shown' = Shown, UNCHANGED <<printed, checked>>
      PROVE  UNCHANGED Lifecycle!lifecycleVars
  BY <1>1 DEF Lifecycle!lifecycleVars, Shown
<1>2. ASSUME UNCHANGED <<up, jobs, disk>> PROVE Shown' = Shown
  BY <1>2 DEF Shown, ShownJobs
<1>3. ASSUME up, UNCHANGED <<up, jobs>> PROVE Shown' = Shown
  BY <1>3 DEF Shown, ShownJobs
<1>4. ASSUME NEW j \in Jobs, up, jobs[j] = NoRecord, UNCHANGED <<up, jobs, disk, checked>>,
             NEW n \in 0..TotalBytes, n > printed[j], printed' = [printed EXCEPT ![j] = n]
      PROVE  Lifecycle!Next
  <2>1. Shown' = Shown /\ Shown[j] = "none"
    BY <1>2, <1>4 DEF Shown, ShownJobs
  <2>2. n \in (printed[j] + 1)..TotalBytes
    BY <1>4, QueueAssumption DEF IInv, TypeOK
  <2>3. Lifecycle!PrintSome(j)
    BY <1>4, <2>1, <2>2 DEF Lifecycle!PrintSome, Shown
  <2> QED
    BY <2>3 DEF Lifecycle!Next
<1>5. ASSUME NEW h \in Handlers, NEW p \in Previews, BeginPrint(h, p)
      PROVE  Lifecycle!Next \/ UNCHANGED Lifecycle!lifecycleVars
  <2>1. PICK j \in fresh : IF mode # "physical" THEN printed' = [printed EXCEPT ![j] = MockBytes]
                                  ELSE UNCHANGED printed
    BY <1>5 DEF BeginPrint
  <2>2. /\ j \in Jobs /\ up /\ jobs[j] = NoRecord /\ printed[j] = 0
        /\ UNCHANGED <<up, jobs, disk, checked>>
    BY <1>5, <2>1 DEF BeginPrint, IInv, TypeOK, FreshUnprinted, OwnInv, FreshUnrecorded, Unrecorded
  <2>3. CASE UNCHANGED printed
    BY <1>1, <1>2, <2>2, <2>3
  <2>4. CASE printed' = [printed EXCEPT ![j] = MockBytes] /\ MockBytes = 0
    <3>1. printed' = printed
      BY <2>2, <2>4 DEF IInv, TypeOK
    <3> QED
      BY <1>1, <1>2, <2>2, <3>1
  <2>5. CASE printed' = [printed EXCEPT ![j] = MockBytes] /\ MockBytes # 0
    <3>1. MockBytes \in 0..TotalBytes /\ MockBytes > printed[j]
      BY <2>2, <2>5, MockFacts, QueueAssumption
    <3> QED
      BY <1>4, <2>2, <2>5, <3>1
  <2> QED
    BY <2>1, <2>3, <2>4, <2>5
<1>6. ASSUME NEW h \in Handlers, Transfer(h)
      PROVE  Lifecycle!Next
  <2> DEFINE j == task[h].job
  <2>1. PICK n \in (printed[j] + 1)..TotalBytes : printed' = [printed EXCEPT ![j] = n]
    BY <1>6 DEF Transfer
  <2>2. /\ j \in Jobs /\ up /\ jobs[j] = NoRecord
        /\ UNCHANGED <<up, jobs, disk, checked>>
    BY <1>6 DEF Transfer, IInv, TasksHaveJobs, OwnInv, OwnedUnrecorded, Owner, Unrecorded
  <2>3. n \in 0..TotalBytes /\ n > printed[j]
    BY <2>1, <2>2, QueueAssumption DEF IInv, TypeOK
  <2> QED
    BY <1>4, <2>1, <2>2, <2>3
<1>7. ASSUME NEW h \in Handlers, StoreJob(h)
      PROVE  Lifecycle!Next \/ UNCHANGED Lifecycle!lifecycleVars
  <2>0. PICK j \in Jobs : j = task[h].job
    BY <1>7 DEF StoreJob, IInv, TasksHaveJobs
  <2>1. /\ up /\ UNCHANGED <<up, printed, checked>>
        /\ pc[h] \in {"store_job", "store_confirmed"}
        /\ jobs' = [jobs EXCEPT ![j] = task[h].record]
        /\ jobs'[j] = task[h].record
    BY <1>7, <2>0 DEF StoreJob, IInv, TypeOK
  <2>2. Truthful(j, task[h].record) /\ task[h].record \in Records \cup {NoRecord}
    BY <2>0, <2>1, RecordTypes DEF IInv, WorkTruthful
  <2>3. ASSUME task[h].record # NoRecord
        PROVE  Shown' = [Shown EXCEPT ![j] = task[h].record.state]
    BY <2>1, <2>3 DEF Shown, ShownJobs, IInv, TypeOK
  <2>4. CASE pc[h] = "store_job"
    <3>1. /\ task[h].record # NoRecord
          /\ task[h].record.state \in {"completed_unverified", "failed_partial_output",
                                       "failed_before_output"}
          /\ task[h].record.state = "failed_partial_output" => task[h].record.sent > 0
      BY <2>4 DEF LifeInv, ReportFits
    <3>2. jobs[j] = NoRecord
      BY <2>0, <2>4 DEF OwnInv, OwnedUnrecorded, Owner, Unrecorded
    <3>3. Shown[j] = "none"
      BY <2>1, <3>2 DEF Shown, ShownJobs
    <3>4. /\ task[h].record.sent \in 0..TotalBytes /\ printed[j] \in 0..TotalBytes
          /\ task[h].record.sent <= printed[j]
          /\ task[h].record.state = "completed_unverified" => task[h].record.sent = TotalBytes
      BY <2>1, <2>2, <3>1 DEF Truthful, Records, IInv, TypeOK
    <3>5. task[h].record.state \in Lifecycle!Outcomes(printed[j])
      BY <3>1, <3>4, QueueAssumption DEF Lifecycle!Outcomes
    <3>6. Lifecycle!Report(j)
      BY <2>1, <2>3, <3>1, <3>3, <3>5 DEF Lifecycle!Report, Shown
    <3> QED
      BY <3>6 DEF Lifecycle!Next
  <2>5. CASE pc[h] = "store_confirmed"
    <3>1. /\ jobs[j] # NoRecord /\ jobs[j] \in Records
          /\ jobs[j].state \in {"completed_unverified", "confirmed_complete"}
          /\ task[h].record = Confirmed(jobs[j])
      BY <2>0, <2>1, <2>5 DEF OwnInv, ConfirmsCurrent, IInv, TypeOK
    <3>2. /\ task[h].record # NoRecord
          /\ task[h].record.state = "confirmed_complete"
      BY <3>1, ConfirmedFacts, SentinelAssumption
    <3>3. j \in checked
      BY <2>2, <3>2 DEF Truthful
    <3>4. Shown[j] = jobs[j].state
      BY <2>1, <3>1 DEF Shown, ShownJobs
    <3>5. Shown' = [Shown EXCEPT ![j] = "confirmed_complete"]
      BY <2>3, <3>2
    <3>6. CASE jobs[j].state = "completed_unverified"
      <4>1. Lifecycle!Confirm(j)
        BY <2>1, <3>3, <3>4, <3>5, <3>6 DEF Lifecycle!Confirm, Shown
      <4> QED
        BY <4>1 DEF Lifecycle!Next
    <3>7. CASE jobs[j].state = "confirmed_complete"
      <4>1. Shown' = Shown
        BY <2>1, <3>4, <3>5, <3>7 DEF Shown
      <4> QED
        BY <1>1, <2>1, <4>1
    <3> QED
      BY <3>1, <3>6, <3>7
  <2> QED
    BY <2>1, <2>4, <2>5
<1>8. ASSUME NEW h \in Handlers,
             \/ TransferSucceeds(h) \/ TransferFails(h) \/ TransferRaises(h)
             \/ StoreSegments(h) \/ Snapshot(h) \/ Open(h) \/ Write(h)
      PROVE  UNCHANGED Lifecycle!lifecycleVars
  <2>1. up /\ UNCHANGED <<up, jobs, printed, checked>>
    BY <1>8 DEF TransferSucceeds, TransferFails, TransferRaises, StoreSegments, Snapshot, Open, Write
  <2> QED
    BY <1>1, <1>3, <2>1
<1>9. ASSUME NEW h \in Handlers, NEW j \in Jobs, BeginConfirm(h, j)
      PROVE  Lifecycle!Next
  <2>1. /\ up /\ jobs[j] # NoRecord /\ UNCHANGED <<up, jobs, disk, printed>>
        /\ checked' = checked \cup {j} /\ "confirm_complete" \in jobs[j].actions
    BY <1>9 DEF BeginConfirm
  <2>2. jobs[j].state = "completed_unverified"
    BY <2>1 DEF IInv, RecordsTruthful, Truthful
  <2>3. Shown[j] = "completed_unverified" /\ Shown' = Shown
    BY <1>2, <2>1, <2>2 DEF Shown, ShownJobs
  <2>4. Lifecycle!Check(j)
    BY <2>1, <2>3 DEF Lifecycle!Check, Shown
  <2> QED
    BY <2>4 DEF Lifecycle!Next
<1>10. CASE Crash
  <2>1. /\ up /\ ~up' /\ UNCHANGED <<disk, printed, checked>>
    BY <1>10 DEF Crash
  <2>2. ASSUME NEW j \in Jobs
        PROVE  /\ Shown'[j] \in Lifecycle!States \cup {"none"}
               /\ Shown'[j] \in Lifecycle!Earlier(Shown[j])
    <3>1. Precedes(disk.text.jobs[j], jobs[j])
      BY <2>1 DEF LifeInv, NothingAhead
    <3>2. disk.text.jobs[j] \in Records \cup {NoRecord}
      BY DEF IInv, TypeOK, Snapshots
    <3>3. /\ Shown'[j] = IF disk.text.jobs[j] = NoRecord THEN "none" ELSE disk.text.jobs[j].state
          /\ Shown[j] = IF jobs[j] = NoRecord THEN "none" ELSE jobs[j].state
      BY <2>1 DEF Shown, ShownJobs
    <3>4. Shown'[j] \in Lifecycle!States \cup {"none"}
      BY <3>2, <3>3 DEF Records, States, Lifecycle!States
    <3>5. Shown'[j] \in Lifecycle!Earlier(Shown[j])
      BY <3>1, <3>3 DEF Precedes, Lifecycle!Earlier
    <3> QED
      BY <3>4, <3>5
  <2>3. Shown' \in {f \in [Jobs -> Lifecycle!States \cup {"none"}] :
                     \A j \in Jobs : f[j] \in Lifecycle!Earlier(Shown[j])}
    BY <2>2 DEF Shown
  <2>4. Lifecycle!Forget
    BY <2>1, <2>3 DEF Lifecycle!Forget, Shown
  <2> QED
    BY <2>4 DEF Lifecycle!Next
<1>11. CASE Start
  <2>1. ~up /\ up' /\ jobs' = disk.text.jobs /\ UNCHANGED <<disk, printed, checked>>
    BY <1>11 DEF Start
  <2>2. Shown' = Shown
    BY <2>1 DEF Shown, ShownJobs
  <2> QED
    BY <1>1, <2>1, <2>2
<1>12. ASSUME NEW p \in Previews, CreatePreview(p) \/ Expire(p)
       PROVE  UNCHANGED Lifecycle!lifecycleVars
  BY <1>1, <1>2, <1>12 DEF CreatePreview, Expire
<1>13. CASE UNCHANGED vars
  BY <1>1, <1>2, <1>13 DEF vars
<1>14. ASSUME NEW h \in Handlers, Handle(h)
       PROVE  Lifecycle!Next \/ UNCHANGED Lifecycle!lifecycleVars
  BY <1>6, <1>7, <1>8, <1>14 DEF Handle
<1> QED
  BY <1>5, <1>9, <1>10, <1>11, <1>12, <1>13, <1>14 DEF Next

(* The queue, with its threads, its store, crashes and restarts, implements *)
(* the job lifecycle a client may assume: a crash takes a job back to an    *)
(* earlier state at most, and no other step contradicts what was shown.     *)
THEOREM QueueImplementsLifecycle == Spec => ImplementsLifecycle
<1>1. Init => IInv /\ OwnInv /\ LifeInv /\ Lifecycle!Init
  BY InitIInv, InitOwnInv, InitLifeInv, LifecycleInit
<1>2. IInv /\ OwnInv /\ LifeInv /\ [Next]_vars => (IInv /\ OwnInv /\ LifeInv)'
  BY NextIInv, NextOwnInv, NextLifeInv
<1> QED
  BY <1>1, <1>2, LifecycleStep, PTL DEF Spec, ImplementsLifecycle, Lifecycle!Spec

-----------------------------------------------------------------------------
(* The store and the answers.  A job that is stored stays in memory, so a   *)
(* writer that nobody disturbs from its snapshot on writes all that was     *)
(* ever answered, and what is then on disk holds it until another write     *)
(* begins.                                                                  *)
(* What a later request may have made of a record: nothing, or its          *)
(* confirmation.                                                            *)
Stands(r, a) == r \in {a, Confirmed(a)}

Stored(h) == pc[h] \in {"store_segments", "snapshot", "open", "write"}
Writing(h) == pc[h] = "write"

HistoryTypes ==
    /\ alone \subseteq Handlers
    /\ store \in {"current", "behind", "lost"}
    /\ store = "behind" => up

(* A job stays in memory once it is stored, so whatever is answered is      *)
(* there.                                                                   *)
StoredStays == \A h \in Handlers : Stored(h) => Stands(jobs[task[h].job], task[h].record)

MemoryHolds ==
    up /\ store # "lost" =>
      \A j \in Jobs : answered[j] # NoRecord => Stands(jobs[j], answered[j])

(* Memory is still what an undisturbed writer took its snapshot of, and the *)
(* file is as it left it.                                                   *)
AloneCurrent ==
    \A h \in alone :
      /\ up
      /\ pc[h] \in {"open", "write"}
      /\ task[h].snapshot = [jobs |-> jobs, segments |-> segments]
      /\ Writing(h) => disk = Empty

(* Between writes a current store holds the answers, and the segments of    *)
(* all jobs but those that are on their way to it.                          *)
DiskHolds ==
    store = "current" /\ (\A h \in Handlers : ~Writing(h)) =>
      /\ \A j \in Jobs :
           answered[j] # NoRecord =>
             Readable(disk) /\ Stands(disk.text.jobs[j], answered[j])
      /\ \A j \in segments :
           \/ j \in disk.text.segments
           \/ \E h \in Handlers : pc[h] \in {"snapshot", "open"} /\ task[h].job = j

DurInv == HistoryTypes /\ StoredStays /\ MemoryHolds /\ AloneCurrent /\ DiskHolds
-----------------------------------------------------------------------------
LEMMA StandsFacts ==
    /\ \A r : Stands(r, r)
    /\ \A a : Stands(Confirmed(a), a)
    /\ \A r, a : Stands(r, a) => Stands(Confirmed(r), a)
<1>1. \A a : Confirmed(Confirmed(a)) = Confirmed(a)
  BY DEF Confirmed
<1> QED
  BY <1>1 DEF Stands

(* What a step of one handler does to the history.                          *)
LEMMA HistoryOfStep ==
    ASSUME History, HistoryTypes, up, up', NEW h \in Handlers,
           \A g \in Handlers \ {h} : pc'[g] = pc[g]
    PROVE  /\ HistoryTypes'
           /\ \A g \in alone' : /\ g \in Handlers
                                /\ g \in alone \/ (g = h /\ TakesSnapshot(h))
                                /\ g = h => ~EndsWrite(h)
                                /\ g # h => ~Disturbs(h)
           /\ store' # "lost" => store # "lost"
           /\ store' = "current" =>
                \/ store = "current" /\ ~EndsWrite(h)
                \/ h \in alone /\ EndsWrite(h)
<1>1. ~Dies
  BY DEF Dies
<1>2. \A g \in Handlers \ {h} : ~EndsWrite(g) /\ ~TakesSnapshot(g)
  BY DEF EndsWrite, TakesSnapshot
<1>3. alone' = {g \in Handlers : /\ g \in alone \/ TakesSnapshot(g)
                                 /\ ~EndsWrite(g)
                                 /\ \A k \in Handlers \ {g} : ~Disturbs(k)}
  BY <1>1 DEF History
<1>4. store' = IF store = "lost" THEN "lost"
               ELSE IF \E g \in alone : EndsWrite(g) THEN "current"
               ELSE IF \E g \in Handlers : EndsWrite(g) THEN "behind"
               ELSE store
  BY <1>1 DEF History
<1>5. alone \subseteq Handlers /\ store \in {"current", "behind", "lost"}
  BY DEF HistoryTypes
<1>6. HistoryTypes'
  BY <1>3, <1>4, <1>5 DEF HistoryTypes
<1>7. \A g \in alone' : /\ g \in Handlers
                        /\ g \in alone \/ (g = h /\ TakesSnapshot(h))
                        /\ g = h => ~EndsWrite(h)
                        /\ g # h => ~Disturbs(h)
  BY <1>2, <1>3
<1>8. store' # "lost" => store # "lost"
  BY <1>4
<1>9. store' = "current" =>
        \/ store = "current" /\ ~EndsWrite(h)
        \/ h \in alone /\ EndsWrite(h)
  BY <1>2, <1>4, <1>5
<1> QED
  BY <1>6, <1>7, <1>8, <1>9

(* Steps that neither store anything nor touch the file.                    *)
LEMMA DurQuiet ==
    ASSUME DurInv, History, UNCHANGED <<up, jobs, segments, disk, answered>>, up,
           NEW h \in Handlers,
           \A g \in Handlers \ {h} : pc'[g] = pc[g] /\ task'[g] = task[g],
           \/ pc'[h] = pc[h] /\ task'[h] = task[h]
           \/ /\ pc[h] \in {"idle", "transfer"}
              /\ pc'[h] \in {"idle", "transfer", "store_job", "store_confirmed"}
    PROVE  DurInv'
<1>1. /\ HistoryTypes'
      /\ \A g \in alone' : g \in Handlers /\ g \in alone
      /\ store' # "lost" => store # "lost"
      /\ store' = "current" => store = "current"
  <2>1. ~TakesSnapshot(h) /\ ~EndsWrite(h)
    BY DEF TakesSnapshot, EndsWrite
  <2> QED
    BY <2>1, HistoryOfStep DEF DurInv
<1>2. StoredStays'
  BY DEF DurInv, StoredStays, Stored
<1>3. MemoryHolds'
  BY <1>1 DEF DurInv, MemoryHolds
<1>4. AloneCurrent'
  <2> SUFFICES ASSUME NEW g \in alone'
               PROVE  /\ up' /\ pc'[g] \in {"open", "write"}
                      /\ task'[g].snapshot = [jobs |-> jobs', segments |-> segments']
                      /\ pc'[g] = "write" => disk' = Empty
    BY DEF AloneCurrent, Writing
  <2>1. g \in alone /\ g \in Handlers
    BY <1>1
  <2>2. /\ pc[g] \in {"open", "write"}
        /\ task[g].snapshot = [jobs |-> jobs, segments |-> segments]
        /\ pc[g] = "write" => disk = Empty
    BY <2>1 DEF DurInv, AloneCurrent, Writing
  <2>3. pc'[g] = pc[g] /\ task'[g] = task[g]
    BY <2>1, <2>2
  <2> QED
    BY <2>2, <2>3
<1>5. DiskHolds'
  <2> SUFFICES ASSUME store' = "current", \A g \in Handlers : ~Writing(g)'
               PROVE  /\ \A j \in Jobs :
                           answered[j] # NoRecord =>
                             Readable(disk) /\ Stands(disk.text.jobs[j], answered[j])
                      /\ \A j \in segments :
                           \/ j \in disk.text.segments
                           \/ \E g \in Handlers : pc'[g] \in {"snapshot", "open"} /\ task'[g].job = j
    BY DEF DiskHolds, Readable, AsLong, Known
  <2>1. store = "current" /\ \A g \in Handlers : ~Writing(g)
    BY <1>1 DEF Writing
  <2>2. \A g \in Handlers : pc[g] \in {"snapshot", "open"} => pc'[g] = pc[g] /\ task'[g] = task[g]
    OBVIOUS
  <2> QED
    BY <2>1, <2>2 DEF DurInv, DiskHolds
<1> QED
  BY <1>1, <1>2, <1>3, <1>4, <1>5 DEF DurInv

LEMMA DurStoreJob ==
    ASSUME IInv, OwnInv, DurInv, History, NEW h \in Handlers, StoreJob(h)
    PROVE  DurInv'
<1> DEFINE j == task[h].job
<1>1. /\ j \in Jobs /\ up
      /\ UNCHANGED <<up, disk, segments, answered, task>>
      /\ pc[h] \in {"store_job", "store_confirmed"}
      /\ pc'[h] = IF pc[h] = "store_job" THEN "store_segments" ELSE "snapshot"
      /\ \A g \in Handlers \ {h} : pc'[g] = pc[g]
      /\ jobs'[j] = task[h].record
      /\ \A i \in Jobs \ {j} : jobs'[i] = jobs[i]
  BY DEF IInv, TypeOK, TasksHaveJobs, StoreJob
<1>2. Disturbs(h) /\ ~TakesSnapshot(h) /\ ~EndsWrite(h)
  BY <1>1 DEF Disturbs, TakesSnapshot, EndsWrite
<1>3. /\ HistoryTypes'
      /\ alone' = {}
      /\ store' # "lost" => store # "lost"
      /\ store' = "current" => store = "current"
  <2>1. \A g \in alone' : g \in alone /\ g = h
    BY <1>1, <1>2, HistoryOfStep DEF DurInv
  <2>2. h \notin alone
    BY <1>1 DEF DurInv, AloneCurrent
  <2> QED
    BY <1>1, <1>2, <2>1, <2>2, HistoryOfStep DEF DurInv
<1>4. /\ \A g \in Handlers \ {h} : Stored(g) /\ task[g].job = j =>
           \A a : Stands(jobs[j], a) => Stands(jobs'[j], a)
      /\ pc[h] = "store_confirmed" => \A a : Stands(jobs[j], a) => Stands(jobs'[j], a)
      /\ pc[h] = "store_job" => jobs[j] = NoRecord
  <2>1. CASE pc[h] = "store_job"
    BY <2>1 DEF OwnInv, OwnedUnrecorded, Owner, Unrecorded, Stored
  <2>2. CASE pc[h] = "store_confirmed"
    <3>1. jobs'[j] = Confirmed(jobs[j])
      BY <1>1, <2>2 DEF OwnInv, ConfirmsCurrent
    <3> QED
      BY <2>2, <3>1, StandsFacts
  <2> QED
    BY <1>1, <2>1, <2>2
<1>5. StoredStays'
  <2> SUFFICES ASSUME NEW g \in Handlers, Stored(g)'
               PROVE  Stands(jobs'[task[g].job], task[g].record)
    BY <1>1 DEF StoredStays
  <2>1. CASE g = h
    BY <1>1, <2>1, StandsFacts
  <2>2. CASE g # h
    <3>1. Stored(g) /\ task[g].job \in Jobs
      BY <1>1, <2>2 DEF Stored, IInv, TasksHaveJobs
    <3>2. Stands(jobs[task[g].job], task[g].record)
      BY <3>1 DEF DurInv, StoredStays
    <3> QED
      BY <1>1, <1>4, <2>2, <3>1, <3>2
  <2> QED
    BY <2>1, <2>2
<1>6. MemoryHolds'
  <2> SUFFICES ASSUME store' # "lost", NEW i \in Jobs, answered[i] # NoRecord
               PROVE  Stands(jobs'[i], answered[i])
    BY <1>1 DEF MemoryHolds
  <2>1. Stands(jobs[i], answered[i])
    BY <1>1, <1>3 DEF DurInv, MemoryHolds
  <2>2. jobs[i] # NoRecord
    <3>1. answered[i] \in Records
      BY DEF IInv, TypeOK
    <3> QED
      BY <2>1, <3>1, ConfirmedFacts, SentinelAssumption DEF Stands
  <2> QED
    BY <1>1, <1>4, <2>1, <2>2
<1>7. AloneCurrent'
  BY <1>3 DEF AloneCurrent
<1>8. DiskHolds'
  <2> SUFFICES ASSUME store' = "current", \A g \in Handlers : ~Writing(g)'
               PROVE  /\ \A i \in Jobs :
                           answered[i] # NoRecord =>
                             Readable(disk) /\ Stands(disk.text.jobs[i], answered[i])
                      /\ \A i \in segments :
                           \/ i \in disk.text.segments
                           \/ \E g \in Handlers : pc'[g] \in {"snapshot", "open"} /\ task[g].job = i
    BY <1>1 DEF DiskHolds, Readable, AsLong, Known
  <2>1. store = "current" /\ \A g \in Handlers : ~Writing(g)
    BY <1>1, <1>3 DEF Writing
  <2>2. \A g \in Handlers : pc[g] \in {"snapshot", "open"} => pc'[g] = pc[g]
    BY <1>1
  <2> QED
    BY <2>1, <2>2 DEF DurInv, DiskHolds
<1> QED
  BY <1>3, <1>5, <1>6, <1>7, <1>8 DEF DurInv

LEMMA DurStoreSegments ==
    ASSUME IInv, DurInv, History, NEW h \in Handlers, StoreSegments(h)
    PROVE  DurInv'
<1> DEFINE j == task[h].job
<1>1. /\ up
      /\ UNCHANGED <<up, disk, jobs, answered, task>>
      /\ segments' = segments \cup {j}
      /\ pc[h] = "store_segments" /\ pc'[h] = "snapshot"
      /\ \A g \in Handlers \ {h} : pc'[g] = pc[g]
  BY DEF IInv, TypeOK, StoreSegments
<1>2. Disturbs(h) /\ ~TakesSnapshot(h) /\ ~EndsWrite(h)
  BY <1>1 DEF Disturbs, TakesSnapshot, EndsWrite
<1>3. /\ HistoryTypes'
      /\ alone' = {}
      /\ store' # "lost" => store # "lost"
      /\ store' = "current" => store = "current"
  <2>1. \A g \in alone' : g \in alone /\ g = h
    BY <1>1, <1>2, HistoryOfStep DEF DurInv
  <2>2. h \notin alone
    BY <1>1 DEF DurInv, AloneCurrent
  <2> QED
    BY <1>1, <1>2, <2>1, <2>2, HistoryOfStep DEF DurInv
<1>4. StoredStays'
  BY <1>1 DEF DurInv, StoredStays, Stored
<1>5. MemoryHolds'
  BY <1>1, <1>3 DEF DurInv, MemoryHolds
<1>6. AloneCurrent'
  BY <1>3 DEF AloneCurrent
<1>7. DiskHolds'
  <2> SUFFICES ASSUME store' = "current", \A g \in Handlers : ~Writing(g)'
               PROVE  /\ \A i \in Jobs :
                           answered[i] # NoRecord =>
                             Readable(disk) /\ Stands(disk.text.jobs[i], answered[i])
                      /\ \A i \in segments' :
                           \/ i \in disk.text.segments
                           \/ \E g \in Handlers : pc'[g] \in {"snapshot", "open"} /\ task[g].job = i
    BY <1>1 DEF DiskHolds, Readable, AsLong, Known
  <2>1. store = "current" /\ \A g \in Handlers : ~Writing(g)
    BY <1>1, <1>3 DEF Writing
  <2>2. \A g \in Handlers : pc[g] \in {"snapshot", "open"} => pc'[g] = pc[g]
    BY <1>1
  <2> QED
    BY <1>1, <2>1, <2>2 DEF DurInv, DiskHolds
<1> QED
  BY <1>3, <1>4, <1>5, <1>6, <1>7 DEF DurInv

LEMMA DurSnapshot ==
    ASSUME IInv, DurInv, History, NEW h \in Handlers, Snapshot(h)
    PROVE  DurInv'
<1>1. /\ up
      /\ UNCHANGED <<up, disk, jobs, segments, answered>>
      /\ pc[h] = "snapshot" /\ pc'[h] = "open"
      /\ task'[h].job = task[h].job /\ task'[h].record = task[h].record
      /\ task'[h].snapshot = [jobs |-> jobs, segments |-> segments]
      /\ \A g \in Handlers \ {h} : pc'[g] = pc[g] /\ task'[g] = task[g]
  BY DEF IInv, TypeOK, Tasks, Snapshot
<1>2. ~Disturbs(h) /\ ~EndsWrite(h)
  BY <1>1 DEF Disturbs, EndsWrite
<1>3. /\ HistoryTypes'
      /\ \A g \in alone' : g \in Handlers /\ (g \in alone \/ g = h)
      /\ store' # "lost" => store # "lost"
      /\ store' = "current" => store = "current"
  BY <1>1, <1>2, HistoryOfStep DEF DurInv
<1>4. StoredStays'
  BY <1>1 DEF DurInv, StoredStays, Stored
<1>5. MemoryHolds'
  BY <1>1, <1>3 DEF DurInv, MemoryHolds
<1>6. AloneCurrent'
  BY <1>1, <1>3 DEF DurInv, AloneCurrent, Writing
<1>7. DiskHolds'
  <2> SUFFICES ASSUME store' = "current", \A g \in Handlers : ~Writing(g)'
               PROVE  /\ \A i \in Jobs :
                           answered[i] # NoRecord =>
                             Readable(disk) /\ Stands(disk.text.jobs[i], answered[i])
                      /\ \A i \in segments :
                           \/ i \in disk.text.segments
                           \/ \E g \in Handlers : pc'[g] \in {"snapshot", "open"} /\ task'[g].job = i
    BY <1>1 DEF DiskHolds, Readable, AsLong, Known
  <2>1. store = "current" /\ \A g \in Handlers : ~Writing(g)
    BY <1>1, <1>3 DEF Writing
  <2>2. \A g \in Handlers : pc[g] \in {"snapshot", "open"} =>
          pc'[g] \in {"snapshot", "open"} /\ task'[g].job = task[g].job
    BY <1>1
  <2> QED
    BY <2>1, <2>2 DEF DurInv, DiskHolds
<1> QED
  BY <1>3, <1>4, <1>5, <1>6, <1>7 DEF DurInv

LEMMA DurOpen ==
    ASSUME IInv, DurInv, History, NEW h \in Handlers, Open(h)
    PROVE  DurInv'
<1>1. /\ up
      /\ UNCHANGED <<up, jobs, segments, task, answered>>
      /\ pc[h] = "open" /\ pc'[h] = "write"
      /\ disk' = Empty
      /\ \A g \in Handlers \ {h} : pc'[g] = pc[g]
  BY DEF IInv, TypeOK, Open
<1>2. Disturbs(h) /\ ~TakesSnapshot(h) /\ ~EndsWrite(h)
  BY <1>1 DEF Disturbs, TakesSnapshot, EndsWrite
<1>3. /\ HistoryTypes'
      /\ \A g \in alone' : g \in alone /\ g = h
      /\ store' # "lost" => store # "lost"
  BY <1>1, <1>2, HistoryOfStep DEF DurInv
<1>4. StoredStays'
  BY <1>1 DEF DurInv, StoredStays, Stored
<1>5. MemoryHolds'
  BY <1>1, <1>3 DEF DurInv, MemoryHolds
<1>6. AloneCurrent'
  BY <1>1, <1>3 DEF DurInv, AloneCurrent
<1>7. DiskHolds'
  BY <1>1 DEF DiskHolds, Writing
<1> QED
  BY <1>3, <1>4, <1>5, <1>6, <1>7 DEF DurInv

(* What an undisturbed writer leaves behind.                                *)
LEMMA WholeWrite ==
    ASSUME NEW s
    PROVE  Readable(Overwrite(Empty, s)) /\ Overwrite(Empty, s).text = s
<1>1. AsLong(s, Empty.longest)
  BY DEF AsLong, Known, Empty, NoSnapshot
<1>2. AsLong(s, s)
  BY DEF AsLong
<1> QED
  BY <1>1, <1>2 DEF Overwrite, Readable

LEMMA DurWrite ==
    ASSUME IInv, DurInv, History, NEW h \in Handlers, Write(h)
    PROVE  DurInv'
<1> DEFINE j == task[h].job
<1>1. /\ up /\ j \in Jobs
      /\ UNCHANGED <<up, jobs, segments>>
      /\ pc[h] = "write" /\ pc'[h] = "idle"
      /\ disk' = Overwrite(disk, task[h].snapshot)
      /\ answered'[j] = task[h].record
      /\ \A i \in Jobs \ {j} : answered'[i] = answered[i]
      /\ \A g \in Handlers \ {h} : pc'[g] = pc[g] /\ task'[g] = task[g]
  BY DEF IInv, TypeOK, TasksHaveJobs, Write
<1>2. Disturbs(h) /\ EndsWrite(h)
  BY <1>1 DEF Disturbs, EndsWrite
<1>3. /\ HistoryTypes'
      /\ alone' = {}
      /\ store' # "lost" => store # "lost"
      /\ store' = "current" => h \in alone
  BY <1>1, <1>2, HistoryOfStep DEF DurInv
<1>4. StoredStays'
  BY <1>1 DEF DurInv, StoredStays, Stored
<1>5. MemoryHolds'
  <2> SUFFICES ASSUME store' # "lost", NEW i \in Jobs, answered'[i] # NoRecord
               PROVE  Stands(jobs[i], answered'[i])
    BY <1>1 DEF MemoryHolds
  <2>1. CASE i = j
    <3>1. Stands(jobs[j], task[h].record)
      BY <1>1 DEF DurInv, StoredStays, Stored
    <3> QED
      BY <1>1, <2>1, <3>1
  <2>2. CASE i # j
    BY <1>1, <1>3, <2>2 DEF DurInv, MemoryHolds
  <2> QED
    BY <2>1, <2>2
<1>6. AloneCurrent'
  BY <1>3 DEF AloneCurrent
<1>7. DiskHolds'
  <2> SUFFICES ASSUME store' = "current"
               PROVE  /\ \A i \in Jobs :
                           answered'[i] # NoRecord =>
                             Readable(disk') /\ Stands(disk'.text.jobs[i], answered'[i])
                      /\ \A i \in segments : i \in disk'.text.segments
    BY <1>1 DEF DiskHolds, Readable, AsLong, Known
  <2>1. /\ disk = Empty
        /\ task[h].snapshot = [jobs |-> jobs, segments |-> segments]
    BY <1>1, <1>3 DEF DurInv, AloneCurrent, Writing
  <2>2. /\ Readable(disk')
        /\ disk'.text.jobs = jobs /\ disk'.text.segments = segments
    BY <1>1, <2>1, WholeWrite
  <2>3. \A i \in Jobs : answered'[i] # NoRecord => Stands(jobs[i], answered'[i])
    BY <1>1, <1>5 DEF MemoryHolds
  <2> QED
    BY <2>2, <2>3
<1> QED
  BY <1>3, <1>4, <1>5, <1>6, <1>7 DEF DurInv

(* A crash spares the file, unless it was being written or a write was to   *)
(* be mended; a start reads back what it holds.                             *)
LEMMA DurCrash ==
    ASSUME IInv, DurInv, History, Crash
    PROVE  DurInv'
<1>1. /\ up /\ ~up'
      /\ UNCHANGED <<disk, answered>>
      /\ segments' = {}
      /\ \A g \in Handlers : pc'[g] = "idle"
  BY DEF Crash
<1>2. /\ alone' = {}
      /\ store' = IF store = "lost" THEN "lost"
                  ELSE IF store = "behind" \/ \E h \in Handlers : pc[h] = "write"
                  THEN "lost" ELSE store
  BY <1>1 DEF History, Dies
<1>3. HistoryTypes' /\ StoredStays' /\ MemoryHolds' /\ AloneCurrent'
  BY <1>1, <1>2 DEF DurInv, HistoryTypes, StoredStays, Stored, MemoryHolds, AloneCurrent
<1>4. DiskHolds'
  <2> SUFFICES ASSUME store' = "current", NEW i \in Jobs, answered[i] # NoRecord
               PROVE  Readable(disk) /\ Stands(disk.text.jobs[i], answered[i])
    BY <1>1 DEF DiskHolds, Readable, AsLong, Known
  <2>1. store = "current" /\ \A g \in Handlers : ~Writing(g)
    BY <1>2 DEF Writing
  <2> QED
    BY <2>1 DEF DurInv, DiskHolds
<1> QED
  BY <1>3, <1>4 DEF DurInv

LEMMA DurStart ==
    ASSUME IInv, OwnInv, DurInv, History, Start
    PROVE  DurInv'
<1>1. /\ ~up /\ up'
      /\ UNCHANGED <<disk, answered, pc, task>>
      /\ jobs' = disk.text.jobs /\ segments' = disk.text.segments
      /\ \A g \in Handlers : pc[g] = "idle"
      /\ alone = {} /\ store \in {"current", "lost"}
  BY DEF Start, OwnInv, DownIdle, DurInv, HistoryTypes, AloneCurrent
<1>2. alone' = {} /\ store' = store
  BY <1>1 DEF History, Dies, TakesSnapshot, EndsWrite
<1>3. HistoryTypes' /\ StoredStays' /\ AloneCurrent'
  BY <1>1, <1>2 DEF HistoryTypes, StoredStays, Stored, AloneCurrent
<1>4. ASSUME store = "current", NEW i \in Jobs, answered[i] # NoRecord
      PROVE  Readable(disk) /\ Stands(disk.text.jobs[i], answered[i])
  BY <1>1, <1>4 DEF DurInv, DiskHolds, Writing
<1>5. MemoryHolds'
  BY <1>1, <1>2, <1>4 DEF MemoryHolds
<1>6. DiskHolds'
  BY <1>1, <1>2, <1>4 DEF DiskHolds, Readable, AsLong, Known
<1> QED
  BY <1>3, <1>5, <1>6 DEF DurInv

LEMMA InitDurInv == HInit => DurInv
<1> SUFFICES ASSUME HInit PROVE DurInv
  OBVIOUS
<1>1. /\ up /\ segments = {} /\ alone = {} /\ store = "current"
      /\ \A h \in Handlers : pc[h] = "idle"
      /\ \A j \in Jobs : answered[j] = NoRecord
  BY DEF HInit, Init
<1> QED
  BY <1>1 DEF DurInv, HistoryTypes, StoredStays, Stored, MemoryHolds, AloneCurrent, DiskHolds

LEMMA NextDurInv == IInv /\ OwnInv /\ DurInv /\ [HNext]_hvars => DurInv'
<1> SUFFICES ASSUME IInv, OwnInv, DurInv, [HNext]_hvars PROVE DurInv'
  OBVIOUS
<1>1. CASE UNCHANGED hvars
  BY <1>1 DEF hvars, vars, DurInv, HistoryTypes, StoredStays, Stored, MemoryHolds, AloneCurrent,
              DiskHolds, Writing, Readable, AsLong, Known
<1>2. ASSUME History, NEW h \in Handlers, NEW p \in Previews, BeginPrint(h, p) PROVE DurInv'
  <2>1. /\ UNCHANGED <<up, jobs, segments, disk, answered>> /\ up
        /\ pc[h] = "idle" /\ pc'[h] \in {"store_job", "transfer"}
        /\ \A g \in Handlers \ {h} : pc'[g] = pc[g] /\ task'[g] = task[g]
    BY <1>2 DEF BeginPrint, IInv, TypeOK
  <2> QED
    BY <1>2, <2>1, DurQuiet
<1>3. ASSUME History, NEW h \in Handlers, NEW j \in Jobs, BeginConfirm(h, j) PROVE DurInv'
  <2>1. /\ UNCHANGED <<up, jobs, segments, disk, answered>> /\ up
        /\ pc[h] = "idle" /\ pc'[h] = "store_confirmed"
        /\ \A g \in Handlers \ {h} : pc'[g] = pc[g] /\ task'[g] = task[g]
    BY <1>3 DEF BeginConfirm, IInv, TypeOK
  <2> QED
    BY <1>3, <2>1, DurQuiet
<1>4. ASSUME History, NEW h \in Handlers,
             Transfer(h) \/ TransferSucceeds(h) \/ TransferFails(h) \/ TransferRaises(h)
      PROVE  DurInv'
  <2>1. /\ UNCHANGED <<up, jobs, segments, disk, answered>> /\ up
        /\ pc[h] = "transfer" /\ pc'[h] \in {"transfer", "store_job", "idle"}
        /\ \A g \in Handlers \ {h} : pc'[g] = pc[g] /\ task'[g] = task[g]
    BY <1>4 DEF Transfer, TransferSucceeds, TransferFails, TransferRaises, IInv, TypeOK
  <2> QED
    BY <1>4, <2>1, DurQuiet
<1>5. ASSUME History, NEW p \in Previews, CreatePreview(p) \/ Expire(p) PROVE DurInv'
  <2>1. UNCHANGED <<up, jobs, segments, disk, answered, pc, task>>
    BY <1>5 DEF CreatePreview, Expire
  <2>2. \A h \in Handlers : ~TakesSnapshot(h) /\ ~EndsWrite(h) /\ ~Disturbs(h)
    BY <2>1 DEF TakesSnapshot, EndsWrite, Disturbs
  <2>3. alone' \subseteq alone /\ store' = store
    BY <1>5, <2>1, <2>2 DEF History, Dies, DurInv, HistoryTypes
  <2> QED
    BY <2>1, <2>3 DEF DurInv, HistoryTypes, StoredStays, Stored, MemoryHolds, AloneCurrent,
                      DiskHolds, Writing, Readable, AsLong, Known
<1>6. ASSUME History, NEW h \in Handlers, Handle(h) PROVE DurInv'
  BY <1>4, <1>6, DurStoreJob, DurStoreSegments, DurSnapshot, DurOpen, DurWrite DEF Handle
<1> QED
  BY <1>1, <1>2, <1>3, <1>5, <1>6, DurCrash, DurStart DEF HNext, Next

LEMMA DurInvDurable == DurInv => AnswersDurable
<1> SUFFICES ASSUME DurInv, AtRest, store = "current", NEW j \in Jobs, answered[j] # NoRecord
             PROVE  /\ Readable(disk)
                    /\ disk.text.jobs[j] \in {answered[j], Confirmed(answered[j])}
                    /\ j \in segments => j \in disk.text.segments
  BY DEF AnswersDurable
<1>1. \A h \in Handlers : pc[h] = "idle"
  BY DEF AtRest
<1> QED
  BY <1>1 DEF DurInv, DiskHolds, Writing, Stands

(* Whatever a client was told of a job is on disk when the daemon is at     *)
(* rest and the last writer had the store to itself, any number of threads, *)
(* crashes and restarts notwithstanding (queue.py: _persist_jobs and        *)
(* _load_jobs).                                                             *)
THEOREM QueueAnswersDurable == HSpec => []AnswersDurable
<1>1. HInit => IInv /\ OwnInv /\ DurInv
  BY InitIInv, InitOwnInv, InitDurInv DEF HInit
<1>2. IInv /\ OwnInv /\ DurInv /\ [HNext]_hvars => (IInv /\ OwnInv /\ DurInv)'
  <2>1. [HNext]_hvars => [Next]_vars
    BY DEF HNext, hvars
  <2> QED
    BY <2>1, NextIInv, NextOwnInv, NextDurInv
<1> QED
  BY <1>1, <1>2, DurInvDurable, PTL DEF HSpec
=============================================================================

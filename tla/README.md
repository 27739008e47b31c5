# Formal models of MiniX Print Studio

TLA+ modules, TLC runs and TLAPS proofs for the parts of MiniX Print Studio in
which order, failure and concurrency decide whether the right thing ends up on
paper, on disk and on the screen. Paths below are relative to the repository;
`App.tsx` is `src/apps/renderer/src/app/App.tsx`, `queue.py`, `transport.py`,
`planner.py` are in `src/daemon/src/minixd/printing/`.

## 1. The system

Four programs work together:

- the **renderer** (React): a label editor, a preview and print workflow, a
  project library and a panel for agents' previews;
- the **daemon** `minixd` (FastAPI, Python): renders documents, plans and prints
  them over Bluetooth LE, stores print jobs and projects;
- the **desktop** shell (Electron main process): starts the daemon, hands its
  address over to others, installs integrations, exports files;
- the **MCP shim**: tools with which an agent asks the daemon for previews.

They share the daemon's HTTP API, the desktop's handoff files, and the
renderer's `localStorage`. FastAPI serves each `def` endpoint on a thread of a
pool, and neither the print queue nor the project store takes a lock: two
requests may interleave anywhere. The renderer's handlers are coroutines that
are interrupted at each `await`.

### Inventory

| Component | State | Operations | Hard behaviour | What makes it correct |
|---|---|---|---|---|
| print planner (`planner.py`) | none; a loop | `create_print_plan` | last short band, tail rows, pacing bounds | bands tile the raster; pacing only between bands; the loop ends |
| BLE transport (`transport.py`, `aiyin.py`) | connection, counters | `print_plan` | a failure at every await, inside a band, while closing | bytes in order, counters never ahead, connection released, nothing repeated |
| print queue and job store (`queue.py`, `api/jobs.py`) | `_jobs`, `_segments`, `jobs.json` | print, print-stored, confirm, list | concurrent handlers, in-place rewrite, crash, restart | records never claim more than was printed or checked; answers survive |
| preview store (`render/preview_store.py`, `api/render.py`) | previews with expiry | create, get, verify | expiry between two uses | only an allowed, unexpired preview is printed |
| project store (`projects/store.py`, `api/projects.py`) | `_records`, one directory per project | create, update, delete, add asset | concurrent handlers, `rmtree` against writers, crash | what was answered is stored, in memory, in `project.json` and in the images; deleted projects stay away |
| document history (`App.tsx`) | document, past, future, selection, stored copy | edits, undo, redo, open, autosave, reload | stack bounds, effects that run late or throw | one bounded line of documents; little is lost by a reload |
| preview and print workflow (`App.tsx`, `job-history.ts`, `api-client.ts`) | preview and print status, job history | preview, print, confirm | late, lost and refused answers, edits while waiting | never ahead of the daemon; blocked previews are never ready |
| project workflow (`App.tsx`) | project list, active project, session | save, load, open, delete, upload, restore | late and lost answers | editor, active project, session and list speak of one project |
| agent preview approvals (desktop and renderer) | pending previews, review status | list, approve, deny, auto-review | crossing messages, lost answers, reloads | each print was approved; no request for approval gets lost |
| daemon supervisor (desktop) | child process | start, exit, quit | a daemon that outlives its application, or exits | nothing: it is started once and left alone (see Findings) |
| runtime handoff (desktop, MCP) | token file, `runtime.json`, opt-in record | write, select, read | three files, each in place; death between them; a reader meanwhile | the opt-in survives; a call fails only over a file that is being written or was left torn; a launch mends what it can |
| integration installer (desktop) | third-party configuration, backups | install, back up, remove | failed rewrite | the user's file can be restored |
| desktop exports, update channel | one-shot files; last check | export, check | - | - |
| MCP shim | none | preview, request approval | timeout, retry | nothing is printed that was not approved |
| BLE discovery and profile probe (`ble/`, `api/printers.py`) | connections, captured notifications | scan, read-only verify | late, unasked and foreign notifications; a failure at every await | only the right printer is verified; every connection is let go |
| hardware certification ladder (`hardware_test_cli.py`) | artifact files | one command per rung | any files, of several printers, recorded anew or cut short | a support gate rests on an unbroken chain of its printer's evidence |
| canonical rendering, raster packing | none | render, pack | clipping, rounding, bits and rows | the paper shows what was drawn |
| daemon application | wiring | `create_app` | order of loading | - |
| diagnostics, integration configs, design model and shared API, hardware artifact history, scripts, user interface | none or derived | read-only | - | - |

`PROJECT.json` lists every component with its status, and under "hazards" the
places in the code that tests hardly reach, with the properties that watch them.

### How the modules compose

```
PreviewRaster    canonical.py, packing.py, aiyin.py: document -> dots -> paper
   |  EXTENDS (plans the dots with)
PrintPlan        planner.py: transfer raster -> bands
   |  finishes plans that meet the assumption of
PrintTransport   transport.py: bands -> BLE writes
   |  implements
TransportContract   what queue.py may rely on
   |  is the Transfer* actions of
PrintQueue       queue.py: requests, threads, jobs.json, crashes
   |  <- PrintQueueHistory: with a history of the store's writers
   |  implements
PrintJobLifecycle   what a client may assume of a job
   |  is the daemon as seen by
StudioPrint      App.tsx: preview, print, confirm
AgentApproval    MCP shim, daemon, main process and page: an agent's preview -> a job

DocumentHistory  App.tsx: the editor   --implements-->  LinearHistory
ProjectStore     projects/store.py
   |  is the daemon as seen by
ProjectWorkflow  App.tsx: the project panel
PrinterDiscovery     ble/, api/printers.py: scan and read-only verification
CertificationLadder  hardware_test_cli.py (its Stage A is such a verification)
DesktopHandoff       main process, its daemon and the MCP shim's readers
```

## 2. The modules and the code

`map` in `PROJECT.json` gives the source lines of every definition. Operators
whose comment begins with "Mutant" are plausible mistakes in the definition that
follows them; no specification uses them.

**PrintPlan** models `create_print_plan`. `Accept`/`Reject` are the checks and
the tail rows, `CutBand` is one iteration of the loop, `FinishPlan` its end. Rows are
numbers; what the dots matter for - the black coverage that pacing looks at - is
any member of `Coverages`.

**PreviewRaster** extends it with the dots themselves: a picture is the set of its
black dots. `Draw` adds an element (`Painted` is what the renderer does with a
rectangle, an image that is fitted and perhaps inverted, a QR code), `Pack` is
`pack_rows_msb`, `Check` the safety report, `Plan` a step of PrintPlan whose coverages
are now measured, `SendBand` a `GS v 0` command and the printer that unpacks it. A byte
is the sum of its dots' weights (`ByteOf`), the bits of a raster a set of positions whose
size is the coverage that `bit_count` sums up.
`HeaderBase` stands for 256 so that header bytes carry on small pictures.

**PrintTransport** models `_print_plan` with one action between two awaits:
`Scan`, `Rescan`, `Connect`, `CheckServices`, `Subscribe`, `WriteChunk`,
`Cooldown`, `Unsubscribe`, `Disconnect`, each with the way in which it fails. The
command script is a sequence of lengths, cut into chunks as
`_write_command_chunks` does; `printer` is how far into the script the printer
got, which may be one chunk further than the code knows. A write that raises may
have been delivered or not. `TransportContract` is the abstraction: raster bytes
arrive, then one outcome is returned, and an error's count is at most what
arrived.

**PrintQueue** models each handler of `api/jobs.py` as a thread that goes through
`BeginPrint`, `Transfer*`, `StoreJob`, `StoreSegments`, `Snapshot`, `Open`, `Write` (or
`BeginConfirm` and the last three), with any other thread in between. `Open`
truncates `jobs.json`, `Write` puts a snapshot at its start: of two overlapping
writers the longer text may stick out behind the shorter, which is what `Overwrite`
and `Readable` record. `Crash` and `Start` are the daemon's death and `create_app`
with `_load_jobs`; `mode` is the printer setting the daemon was started with (the
printer, the mock, the mock that disconnects after a band), and a restart may change it.
The ghost variables `printed`, `checked` and `answered` hold what
reached the printer, what the operator checked and what clients were told.
`PrintJobLifecycle` is the abstraction. **PrintQueueHistory** adds two ghosts: `alone`,
the writers that nobody disturbed since their snapshot, and `store`, whether the last
write was such a one.

**DocumentHistory** models `EditorState` with every handler that changes it. A
document maps element ids to contents (geometry and text are contents); an image
import awaits decoding and then commits to whatever the document is by then, so
`Add` needs no earlier half. `Autosave` is the effect at `App.tsx:621`;
`AutosaveThrows` is `setItem` over its quota, after which React has removed the
tree. `LinearHistory` is the abstraction: a line of documents and a cursor.

**StudioPrint** models `runPreview`, `runPrint`, `confirmPrintOutput` as
coroutines. A call is a record that goes from sent to answered, refused or
disconnected, so answers are late, lost and out of order. The daemon is kept as
far as the renderer can see it (`Render`, `Plan`, `PrintPreview`, `Confirm`).

**Lists** holds `Keep`, the elements of a list at the positions that pass a test, in their
order: `filter` in TypeScript. The job history of `StudioPrint` and the pending lists of
`AgentApproval` are filtered with it. It is defined by counting, where the library's
`SelectSeq` recurses, so that `Lists_proofs` can say what it keeps.

**ProjectStore** models the handlers of `api/projects.py` as threads. A save is
`Create` or `BeginUpdate`+`StoreRecord`, then `MakeDir`, `Open`, `Write`; a delete is
`BeginDelete`, `Forget`, then `rmtree` as `List`, `Unlink` of project.json, `UnlinkImage` and
`RmdirAssets` of the assets directory, `Rmdir`; an upload is `BeginUpload`, `MakeAssetDir`,
`OpenAsset`, `WriteAsset`. Both `write_text` and `write_bytes` truncate in place and write
afterwards: `files` is `Empty` in between, and the image is in `assets` but not in `whole`.
A writer whose file was unlinked is `"lost"` (`"image_lost"`). The ghosts:
`disturbed` holds the projects on which requests overlapped or were cut short by a crash
since the last save or delete that had the project to itself; `cut` the files that a crash
caught between the two halves of a write and that nobody has written since; `deleted` the
projects that somebody asked to delete; `answered` and `uploaded` what clients were told.

**CertificationLadder** has one variable per artifact path (per printer, job or
export where the file name has one in it) and one action per command that writes or
prints. An artifact names others by SHA-256; here it holds them, and `editions`
makes each writing of a file differ from the one before, as its time stamps do. A
command checks and writes in one step - the operator runs one at a time - but may be
killed while it writes (`Torn`). The validators of hundreds of lines check fields that
the recorders write as constants; what is left of them are `ProtocolMatches`,
`TinyMatches`, `TrustMatches`, `LongMatches` and `ConfirmedOn`. A printer stands for
the device id with its profile.

**ProjectWorkflow** models the panel's handlers as coroutines, with one action where a
request is sent (`SaveProject`, `OpenProject`, ...), one in the daemon (`Serve*`) and one where
the answer is used (`ProjectSaved`, `ProjectOpened`, ...). A request carries the
`activeProjectId` its handler was created with (`closure`), which is what `ProjectDeleted`
compares with. A reload leaves requests behind that nobody waits for (`orphan`). What is
in the editor is a piece of work, named by the project it was stored as first.
`disturbed` is a ghost: since the page was loaded, requests overlapped or an answer was lost.

**PrinterDiscovery** models `scan` and `read_only_verify` as coroutines from await to
await: the two scan passes, `Connect`, `Subscribe`, `Ask` (the query is written),
`Written`, `Poll` or `Deadline`, `Unsubscribe`, `Disconnect`; each may raise. Printers reply,
send other notifications (`SendUnasked`) and lose the link. `Within` says which texts contain
which, as `_extract_expected_text` looks for substrings. `late` is a ghost: the verifications
for which a reply did not come in time.

**AgentApproval** joins four parties. The shim's tool call waits for its preview or gives
up (`CallTool`, `ToolFails`, `CreatePreview`); opening the approval URL queues the preview in
the main process (`OpenUrl`); `inbox` and `channel` are the IPC messages both ways;
`Review`, `AutoReview`, `Deny`, `Approve` are the page's handlers and effect, `Reviewed`,
`PrintAnswered`, `Printed`, `Fails` their continuations. `approvals` is a ghost.

**DesktopHandoff** models the main process step by step while it writes (`BeginToken`,
`EndToken`, ... `EndRefer`): a file that is being written is torn, and `Kill` leaves it so.
A tool call reads the files one after another (`ReadRuntime`, `ReadToken`, `ReadOptIn`) and
then asks the daemon, which may answer, refuse or not be there: the main process starts a
daemon and never looks at it again, so nothing is modelled of its life.
The ghosts count the files left torn and remember a selection.

## 3. The runs

| Run | Checks | Bounds |
|---|---|---|
| `paper` | what is printed is what was drawn; no band that is sent is too black, although others were measured; cooldowns between bands only; elements keep to their boxes | two of ten elements (clipped, overlapping, fitted, inverted, empty, too small), five heights up to a band and a rest, both paper modes, a right and a wrong width |
| `transport` | script order, counters, release with the body's own outcome, cooldowns, the contract | three bands (one of them shorter), chunks that end inside headers, inside rasters and at band ends, a second device in range, a failure at every await |
| `queue` | records stay truthful; after an undisturbed write the store holds every answer; the lifecycle; requests end | two handlers, two jobs, two raster bytes (so none, some, all differ), crashes and restarts into the three settings |
| `document_history` | a reload costs one step, one bounded line of documents, the stored copy catches up | two elements, three contents, a history of 3 in place of 50 |
| `studio_print` | what is shown never runs ahead of the daemon; blocked previews never become ready; the history agrees with the jobs; a busy status ends | two calls, two previews, two jobs, a history of 1 in place of 20 |
| `project_store` | answers stand where requests did not overlap; every file holds what was answered, but for the four reasons that `ContentsStand` names | two handlers, two projects, two documents, one image each, crashes; symmetric ids |
| `project_workflow` | the session is the active project or none; an undisturbed page shows its project; a busy status ends | two calls in flight, two projects, one of which may exist already |
| `discovery` | only the right printer is verified, and the right one is; connections are let go; requests end | two requests, two devices, two profiles of one service, three captured notifications |
| `agent_approval` | each print was approved; undecided requests are listed; the panel is truthful; the newest preview is reviewed | two previews (one of them blocked), two calls, two approvals of each, two messages under way |
| `desktop_handoff` | a selected opt-in survives; calls fail only over files being written or left torn; a completed launch mends a torn token | three launches, two selections, two files left torn, two calls |
| `ladder` | every support gate rests on an unbroken chain of its printer's evidence with confirmed jobs | two printers, exports and jobs, each kind of artifact written twice; symmetric ids |
| `studio_stale_preview` | *violated*: a ready preview shows the current document | as `studio_print` |

Type invariants are checked in the runs of `ProjectStore`, `PrinterDiscovery` and
`AgentApproval`; those of the other components are proved and not run again (for the
variables that `PreviewRaster` adds to PrintPlan's, `PaperInv` of section 4 says it).

Why the bounds are enough: the interesting cases need two of something (two
threads on one file, two calls in flight, two bands and a rest, a second job when
the history is full); each bound is the smallest at which all of them happen,
and every action of every module fires in a passing run. Ids are finite: when
`uuid4` has no fresh id left, no new job, preview or project begins. Deadlock is
not checked since each system may rest: a call has returned, no request is
pending, the ids are used up, or a daemon with an unreadable store stays down.

### Fairness

- `PrintPlan`, `PrintTransport`: weak fairness of `Next` - the loop runs; the event loop
  resumes the coroutine, and every bleak call returns or raises. No run needs it.
- `PreviewRaster`: none; it states no liveness.
- `PrintQueue`: weak fairness of each `Handle(h)` - the pool runs every thread - and
  of `Start`: somebody starts the application again. The desktop starts the daemon
  only when it is started itself (`index.ts`), so this is the user's doing.
- `DocumentHistory`: weak fairness of autosave - React runs a scheduled effect.
- `StudioPrint`, `ProjectWorkflow`: weak fairness of `Serve(c)` and `Return(c)` - a request
  is answered or its connection breaks, and the event loop continues the waiting
  coroutine. The user's actions are never fair.
- `PrinterDiscovery`: weak fairness of `Step(r)` - every bleak call returns or raises, and
  the deadline of a query comes. Printers owe nothing.
- `AgentApproval`: weak fairness of the messages, of the coroutines and of the daemon;
  strong fairness of `AutoReview`, because React runs the effect after every render in which
  something it depends on changed, so also when the panel was busy in between.
- `DesktopHandoff`: weak fairness of a call's steps.
- `ProjectStore` and `CertificationLadder` state no liveness and no fairness.

### Findings

`studio_stale_preview`: an edit invalidates the preview, but a plan answer that
comes later makes it ready (`App.tsx:1254`); print then prints the older document.

Further disagreements between code and docs, and surprises, seen while modelling and
not the subject of a run of their own:

Printing

- counters move after whole bands (`transport.py:290`): a disconnect inside the first band
  reports 0 bytes, so the job becomes `failed_before_output` with `retry_from_start` although
  rows are on paper. `CountersBracketOutput` says how far behind the count may be;
- an exception that is no `PrintTransportError` (from connecting, from disconnecting)
  leaves no job although output may exist (`queue.py:118,298`; Initial Spec.md:1365);
- a failed feed or stop command after the whole raster is treated as partial raster
  output, and `feed_paper` is not offered (`queue.py:366`; Initial Spec.md:2645);
- two handlers persist without a lock; the older snapshot can be written last
  (`queue.py:458`) and a job that a client was told of is gone after the next start.
  `AnswersDurable` says that one undisturbed write mends it;
- `jobs.json` and `project.json` are rewritten in place: a daemon that dies in between
  finds text it cannot parse and does not start again. An image that is uploaded again is
  truncated in place as well (`store.py:114`): a death in between leaves an upload that
  was answered empty, and no later start notices. `ContentsStand` says that such a death
  costs the very file it caught, and that nothing else does. A longer save that overlaps a
  shorter one may leave `project.json` unreadable too (`Torn`);
- two overlapping confirmations of a job both succeed, and the second one's text replaces
  the first one's (`queue.py:171`); the model has the outcome, not the text;
- inverting a fitted image inverts the white margins as well (`canonical.py`), and a QR code
  with more modules than its box has dots overflows the box: `DrawingStaysInBox` leaves
  such codes out.

The studio

- an imported image beyond `localStorage`'s quota makes the autosave effect throw,
  and React removes the tree (`document-storage.ts:30`; implementation-status.md:164);
- the inspector's button deletes a locked layer (`App.tsx:3763`;
  implementation-status.md:170);
- an unverified job can no longer be confirmed from the application once an edit or
  a reload has reset the print status (`App.tsx:702`; implementation-status.md:144);
- a save or an open that is answered after another project was opened makes its own
  project active, so that the next save overwrites that project with the document in the
  editor (`App.tsx:1392`; implementation-status.md:82 "update opened projects without creating
  duplicates"). `QuietPageAgrees` says that it takes overlapping requests or a lost answer;
- an update that overlaps a delete brings the project back (`store.py:80`), although
  the user was told that deleting "cannot be undone" (`App.tsx:1481`). `ProjectStore`
  contains this; `AnswersStand` says that it is confined to the project and lasts until
  the next request that has the project to itself.

Agents and the desktop

- the panel says "printed" of an approved preview whatever its job's outcome was
  (`App.tsx:2114`): `PanelTruthful` asks for a job only;
- a preview that expired stays in the list of pending approvals until it is denied;
- a daemon that exits is not started again (`index.ts:125`; Initial Spec.md:382 "Restart
  daemon if it crashes unexpectedly"), and nobody stops it when the application ends: one that
  outlived its application keeps the port with the older settings, while the handoff states the
  new ones. Nothing can be claimed of which daemon serves a call, so no property is about it;
- a `runtime.json` that was left torn is never repaired: each later launch fails to read it
  and leaves it as it is. `LaunchMends` says what a launch does mend;
- the token of the handoff is written and read but the daemon asks for none.

Printers and certification

- the firmware reply is searched for the expected text, so a longer version that begins
  with a known one ("V1.9.110" after V1.9.11) passes as it (`profile_probe.py:116`);
- a scan that found any printer by its service does not list those that are known by
  their names only (`bleak_adapter.py:102`);
- one confirmed long job serves as the tiny card's and as the long print's evidence,
  and jobs that were printed before Stage B or before the trust record are accepted
  (`hardware_test_cli.py:3829,3864`; Initial Spec.md:598 "Only after the tiny continuous
  card works"). The gate proves what `Earned` says, not that order;
- all printers share one protocol artifact path (`hardware_test_cli.py:1406`): recording
  Stage B of a second printer makes the first one's later artifacts stale. They are
  then refused, never misused: that is part of `GateIsEarned`;
- policy review and opt-in name no printer (`hardware_test_cli.py:1847`): the gate of one
  printer opens agent printing for all, so `OptInRestsOnGate` speaks of some gate.

## 4. The proofs

Every invariant and action property, and both refinements, that a passing run checks is
also the statement of a theorem; `theorems` in `PROJECT.json` pairs them. The theorems hold
for all values of the constants that satisfy the assumptions which the modules state,
each under a name that ends in `Assumption`: any raster, band height and header base, any
plan and chunk size, any number of handlers, jobs, previews, elements, contents, exports,
editions, projects, launches, catalogues, printers, records and calls. The assumptions say
what kind of thing a constant is, and these few facts of the code besides:

- `SafetyAssumption`: the planner's band height is a multiple of the report's (256 and 64
  in the profile), without which `SentBandsAreCool` would be false;
- `ElementAssumption`: an image has dots, a QR code has modules and they lie in its square;
- `PlanAssumption`: the transport is given a plan (`IsPlan`). The theorem
  `PlansAreTransportable` shows this of everything that the planner finishes, so the
  transport's theorems hold of the plans that are really sent;
- `TextAssumption`: what printers send unasked contains no model and no firmware that a
  profile expects; the discovery code itself could not tell such a text from a reply.

A theorem names its property through EXTENDS, so components that share names would need
a proof module each; where two of them share one below, their generic names (`Spec`, `Init`,
`vars`) differ (`PlanSpec`, `RSpec`, `WorkflowSpec`, `HandoffSpec`, `DiscoverySpec`).

**PrintPath_proofs** - the planner, the paper and the transport.

- Planner: being tiled is not inductive by itself. `LoopInv` adds that the bands so far are
  contiguous from row 0 and end at the loop's `start`, which is what a further band needs.
- Paper (`PaperIsThePicture`, `SentStaysCool`, `DrawingIsLocal`, `PaperPacing`): `RInv` joins
  the planner's invariant, `BandsAligned` (each band starts at a multiple of the band height
  and is cut from the raster at the bytes of its rows) and `PaperInv` (the raster is the
  picture's, the report allowed it, and the paper shows the rows of the bands that were
  sent). The rest is arithmetic: the position of a dot's byte, the bits of a sum of weights,
  a number read from its two bytes. For `SentStaysCool` the set of black bits of a band is
  the disjoint union of those of the measured bands inside it; that a run of measured bands
  is cool as a whole is proved by least-number induction over their count (`RunIsCool`),
  a rest that is shorter and blank rows join it by additivity of cardinalities (`CoolAdds`,
  `TailIsCool`).
- Transport: `IInv` joins the types, `PhaseInv` (what each phase implies for connection and
  subscription), `PositionInv` (the printer is at most one chunk ahead of the position in
  the script), the counters' agreement and the result's meaning. `TransportHonoursCooldowns`
  needs `PaceInv`, that the coroutine has slept once for each band behind it that cools.

**PrintQueue_proofs**. `RecordsTruthful` needs to know that a thread's local record is
truthful before it is stored (`WorkTruthful`), that threads have the job they work on
(`TasksHaveJobs`) and that fresh ids have printed nothing (`FreshUnprinted`). The lifecycle
needs `OwnInv`, that a printing thread owns its job id, and `LifeInv`, that what is on disk
is an earlier stage of what is known. `QueueAnswersDurable` is about PrintQueueHistory and
needs `DurInv`: memory holds every answer (`MemoryHolds`), an undisturbed writer's snapshot
is still what memory holds (`AloneCurrent`), and a store whose last write was undisturbed
holds the answers between writes (`DiskHolds`).

**Editor_proofs** - DocumentHistory and ProjectWorkflow.

- `HistoryIsALine`, the refinement of `LinearHistory`, rests on lemmas about taking the last
  `n` of a sequence and joining the stacks to a line.
- `QuietPageShowsItsProject` holds only of a page at rest; `Quiet` says what an undisturbed
  page is like while its one request is under way: the request was made by the page as it
  is now (`Current`), and what the page shows of a project is right unless that request has
  just deleted it. `CallsSensible` says which answers a kind of request may have.

**StudioPrint_proofs**. `StudioInv` follows a print from the page to the daemon and back.
`StudioNeverBoasts` needs `CallsFit`: what a call carries, and what it was answered, was on
the daemon's record at that moment, and the daemon's records only grow. `BlockedNeverReady`
is not inductive: a preview id that is still free could yet be given to a blocked document.
`ValidAreStored` and `ReadyIsStored` exclude it - a valid or ready preview is one that the
daemon has stored, and what is stored does not change.

**DaemonRequests_proofs** - ProjectStore and PrinterDiscovery.

- `StoreInv` says that the file, the record and the answer agree on a project that is at
  rest and undisturbed (`QuietInv`), and, as long as one request has a project to itself
  (`AloneInv`), at which of its steps which of the three have changed already
  (`ProgressInv`); only what somebody asked to delete is removed (`TaskInv`). The crash and
  the restart are steps like any other. `StoreContentsStand` claims something of every
  state, overlaps and half-written files included: a file departs from what was answered
  only by a step of its own writer, and every such departure leaves a mark - the writer's
  position, `cut` when a crash takes that position away, `disturbed` when two saves
  overlapped, `deleted`.
- `DiscoveryInv` is `LinkInv`, that a link belongs to a request which is engaged with that
  printer, and `SessionOK` for each request: it holds nothing but idle texts and the reply
  to the query it is at, so what it recognises, the printer itself has said.

**AgentApproval_proofs**. `EveryPrintIsApproved`: requests under way are counted with the
jobs, since each approval becomes one request and each request one job at most; which
previews the lists name plays no part, so messages may be lost or crossed at will.
`NothingPendingIsLost` and `PanelStaysTruthful` are about those lists: `MInv` says how the
list of main, the list of the page and the messages between them differ (`ListInv`), and
what each continuation of the page finds when it comes (`CallInv`).

**HardwareOptIn_proofs** - CertificationLadder and DesktopHandoff.

- The gate's commands compare artifacts with each other but never look at the print jobs
  again, so the invariant adds that every tiny card and long print on disk has its confirmed
  job behind it; `JobsStayConfirmed` says why that lasts.
- `FilesFit` says which files are whole at each point of the main process, `ChosenIsKept`
  where a selected record is while it is copied, `CallsFit` what a call that has read one
  file knows of the others while nobody writes, and `Mended` what a launch has
  put in order by each of its steps, whatever it found.

**Lists_proofs** says what `Keep` returns: one element for each kept position, from it, in
their order. The position of a rank is found by the least-number principle
(`LeastNumber`), which the other proofs use where they need induction on numbers.

Only model-checked: what needs fairness (`RequestsEnd` of the queue and of discovery,
`AutosaveCatchesUp`, `BusyEnds` of the studio and of the project panel, `NewestIsReviewed`),
since ENABLED and with it WF and SF are beyond the prover.

## 5. Not modelled

Within the modelled parts: texts (contents stand for them); the AiYin commands' bytes other
than the raster header; the operator's confirmation text; wording of errors and events; the
snapshot of `_jobs` that `_persist_jobs` takes is one step; each print request has a
printer of its own, as what a printer does with a second central is not the
repository's code; timestamps and the order of lists; the in-memory mode of the stores
without `data_dir`; failing disk writes other than by a crash.

Parts of the system that have no module, and why:

- text drawing, line wrapping, resampling and dithering in canonical rendering: Pillow's
  computation on grey values, without steps that could interleave;
- the MCP shim's read-only tools and the advisory text of its policy: they change no state,
  and printing passes through `AgentApproval` whatever the text advises;
- the integration installer: file operations that the user starts one at a time, on
  content that belongs to other programs (the function that reverts a change has no caller
  in the application, only a test);
- the life of the daemon process under the desktop: see Findings;
- desktop exports, support bundle and update channel: one-shot writers and one look at
  release metadata, whose results are shown and forgotten;
- hardware artifact history and the rest of diagnostics: derived, read-only views;
- design model, shared API, integration configs: types, validation and templates;
- the user interface's markup and styling, and the build and release scripts.

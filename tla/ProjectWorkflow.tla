--------------------------- MODULE ProjectWorkflow ---------------------------
(***************************************************************************)
(* The renderer's project panel (App.tsx): load, save, open and delete are  *)
(* coroutines over the daemon's project API, and a restore runs when the    *)
(* window has loaded.  They share one status field, so starting one enables *)
(* the buttons of the others again, and each sets the active project when   *)
(* its own answer arrives, whatever has happened since.  The daemon is what *)
(* one request sees of it; ProjectStore models it in full.                  *)
(***************************************************************************)
EXTENDS Integers, FiniteSets

CONSTANTS Projects,   \* the ids uuid4 may return
          Existing,   \* those that earlier sessions may have stored
          Calls,      \* bound: requests in flight
          Local,      \* the document that localStorage has without a project
          None,       \* no project, no answer
          Deleted     \* what the daemon has of a project after its deletion

ASSUME WorkflowAssumption ==
    /\ Existing \subseteq Projects
    /\ None \notin Projects \cup {Local, Deleted}
    /\ Deleted \notin Projects \cup {Local}
    /\ Local \notin Projects

VARIABLES
    editor,     \* the piece of work whose document is in the editor
    active,     \* activeProjectId
    session,    \* the project id that localStorage remembers
    list,       \* projectWorkflow.projects
    status,     \* projectWorkflow.status, with the id of opening and deleting
    calls,      \* the coroutines' requests
    store,      \* daemon: the work stored in each project
    disturbed   \* ghost: requests overlapped or an answer was lost since the load

ui == <<editor, active, session, list, status>>
workflowVars == <<editor, active, session, list, status, calls, store, disturbed>>

-----------------------------------------------------------------------------
(* A piece of work is what the user edits under one heading: the project it *)
(* was first stored as, or the local document.  Editing changes the         *)
(* document, not the work.                                                  *)
Works == Projects \cup {Local}

Live == {p \in Projects : store[p] \in Works}
Unused == {p \in Projects : store[p] = None}

(* idle, ready, saved, opened, deleted and error enable every button.       *)
AtRest == [kind |-> "rest", id |-> None]
Busy(kind, id) == [kind |-> kind, id |-> id]

Free == [kind |-> "free", id |-> None, work |-> None, closure |-> None,
         phase |-> "done", answer |-> None]

(* closure is the activeProjectId that the handler was created with.        *)
Request(kind, id) ==
    [kind |-> kind, id |-> id, work |-> editor, closure |-> active,
     phase |-> "sent", answer |-> None]

InFlight == {c \in Calls : calls[c] # Free}

Send(kind, id) ==
    \E c \in Calls \ InFlight :
      /\ calls' = [calls EXCEPT ![c] = Request(kind, id)]
      /\ disturbed' = (disturbed \/ InFlight # {})

Waiting(c, kind) == calls[c].kind = kind /\ calls[c].phase \in {"sent", "orphan"}
Answered(c, kinds) == calls[c].kind \in kinds /\ calls[c].phase = "answered"
Refused(c, kinds) == calls[c].kind \in kinds /\ calls[c].phase = "failed"

Hangup(c) == calls' = [calls EXCEPT ![c] = Free]

(* Nobody waits for the answer to a page that is gone.                      *)
Answer(c, a) ==
    calls' = [calls EXCEPT ![c] = IF @.phase = "orphan" THEN Free
                                  ELSE [@ EXCEPT !.phase = "answered", !.answer = a]]
Refuse(c) ==
    calls' = [calls EXCEPT ![c] = IF @.phase = "orphan" THEN Free
                                  ELSE [@ EXCEPT !.phase = "failed", !.answer = None]]

-----------------------------------------------------------------------------
(* A page that has loaded: the document comes from localStorage, and the    *)
(* effect asks for the remembered project.  The requests of the page before *)
(* it are on their way to the daemon still.                                 *)
Orphans ==
    [c \in Calls |-> IF calls[c].phase \in {"sent", "orphan"}
                       THEN [calls[c] EXCEPT !.phase = "orphan"] ELSE Free]

Restoring == [kind |-> "restore", id |-> session, work |-> editor, closure |-> None,
              phase |-> "sent", answer |-> None]

WorkflowInit ==
    /\ \E stored \in SUBSET Existing :
         store = [p \in Projects |-> IF p \in stored THEN p ELSE None]
    /\ editor = Local
    /\ active = None
    /\ session \in Existing \cup {None}
    /\ list = {}
    /\ status = IF session = None THEN AtRest ELSE Busy("opening", session)
    /\ IF session = None
         THEN calls = [c \in Calls |-> Free]
         ELSE \E r \in Calls :
                calls = [c \in Calls |-> IF c = r THEN Restoring ELSE Free]
    /\ disturbed = FALSE

(* Reloading mends what overlapping requests did, unless one is under way.  *)
ReloadPage ==
    /\ active' = None
    /\ list' = {}
    /\ disturbed' = \E c \in Calls : Orphans[c] # Free
    /\ IF session = None
         THEN status' = AtRest /\ calls' = Orphans
         ELSE /\ status' = Busy("opening", session)
              /\ \E c \in Calls :
                   /\ Orphans[c] = Free
                   /\ calls' = [Orphans EXCEPT ![c] = Restoring]
    /\ UNCHANGED <<editor, session, store>>

LoadProjects ==
    /\ status.kind # "loading"
    /\ status' = Busy("loading", None)
    /\ Send("list", None)
    /\ UNCHANGED <<editor, active, session, list, store>>

SaveProject ==
    /\ status.kind # "saving"
    /\ status' = Busy("saving", None)
    /\ IF active # None
         THEN Send("update", active)
         ELSE /\ Cardinality({c \in Calls : Waiting(c, "create")}) < Cardinality(Unused)
              /\ Send("create", None)
    /\ UNCHANGED <<editor, active, session, list, store>>

OpenProject(p) ==
    /\ p \in list
    /\ status # Busy("opening", p)
    /\ status' = Busy("opening", p)
    /\ Send("open", p)
    /\ UNCHANGED <<editor, active, session, list, store>>

(* The user has confirmed that deleting cannot be undone.                   *)
DeleteProject(p) ==
    /\ p \in list
    /\ status # Busy("deleting", p)
    /\ status' = Busy("deleting", p)
    /\ Send("delete", p)
    /\ UNCHANGED <<editor, active, session, list, store>>

(* importImageFile uploads to the project that is active when it starts;    *)
(* it sets the status only when it fails.                                   *)
ImportImage ==
    /\ active # None
    /\ Send("upload", active)
    /\ UNCHANGED <<ui, store>>

-----------------------------------------------------------------------------
(* The daemon: api/projects.py, one request at a time.                      *)
ServeList(c) ==
    /\ Waiting(c, "list")
    /\ Answer(c, Live)
    /\ UNCHANGED <<ui, store, disturbed>>

ServeCreate(c) ==
    /\ Waiting(c, "create")
    /\ \E p \in Unused :
         /\ store' = [store EXCEPT ![p] = calls[c].work]
         /\ Answer(c, p)
    /\ UNCHANGED <<ui, disturbed>>

ServeUpdate(c) ==
    /\ Waiting(c, "update")
    /\ IF calls[c].id \in Live
         THEN /\ store' = [store EXCEPT ![calls[c].id] = calls[c].work]
              /\ Answer(c, calls[c].id)
         ELSE Refuse(c) /\ UNCHANGED store
    /\ UNCHANGED <<ui, disturbed>>

ServeGet(c) ==
    /\ Waiting(c, "open") \/ Waiting(c, "restore")
    /\ IF calls[c].id \in Live THEN Answer(c, store[calls[c].id]) ELSE Refuse(c)
    /\ UNCHANGED <<ui, store, disturbed>>

ServeDelete(c) ==
    /\ Waiting(c, "delete")
    /\ IF calls[c].id \in Live
         THEN store' = [store EXCEPT ![calls[c].id] = Deleted] /\ Answer(c, None)
         ELSE Refuse(c) /\ UNCHANGED store
    /\ UNCHANGED <<ui, disturbed>>

ServeUpload(c) ==
    /\ Waiting(c, "upload")
    /\ IF calls[c].id \in Live THEN Answer(c, None) ELSE Refuse(c)
    /\ UNCHANGED <<ui, store, disturbed>>

(* The connection breaks before the daemon did its part, or after it, when  *)
(* the answer is lost.                                                      *)
Disconnect(c) ==
    /\ calls[c].phase \in {"sent", "orphan", "answered"}
    /\ Refuse(c)
    /\ disturbed' = (disturbed \/ calls[c].phase = "answered")
    /\ UNCHANGED <<ui, store>>

-----------------------------------------------------------------------------
(* The coroutines go on.                                                    *)
ProjectsListed(c) ==
    /\ Answered(c, {"list"})
    /\ list' = calls[c].answer
    /\ status' = AtRest
    /\ Hangup(c)
    /\ UNCHANGED <<editor, active, session, store, disturbed>>

ProjectSaved(c) ==
    /\ Answered(c, {"create", "update"})
    /\ active' = calls[c].answer
    /\ session' = calls[c].answer
    /\ list' = list \cup {calls[c].answer}
    /\ status' = AtRest
    /\ Hangup(c)
    /\ UNCHANGED <<editor, store, disturbed>>

(* Mutant: the restored document is shown, but its project is not active.   *)
OpenedInactive(c) ==
    /\ Answered(c, {"open", "restore"})
    /\ editor' = calls[c].answer
    /\ active' = IF calls[c].kind = "open" THEN calls[c].id ELSE active
    /\ session' = calls[c].id
    /\ list' = list \cup {calls[c].id}
    /\ status' = AtRest
    /\ Hangup(c)
    /\ UNCHANGED <<store, disturbed>>

(* applyOpenedProject, for openProject and for the restore effect.          *)
ProjectOpened(c) ==
    /\ Answered(c, {"open", "restore"})
    /\ editor' = calls[c].answer
    /\ active' = calls[c].id
    /\ session' = calls[c].id
    /\ list' = list \cup {calls[c].id}
    /\ status' = AtRest
    /\ Hangup(c)
    /\ UNCHANGED <<store, disturbed>>

(* Mutant: the session survives its project.                                *)
DeletedButRemembered(c) ==
    /\ Answered(c, {"delete"})
    /\ active' = IF calls[c].closure = calls[c].id THEN None ELSE active
    /\ list' = list \ {calls[c].id}
    /\ status' = AtRest
    /\ Hangup(c)
    /\ UNCHANGED <<editor, session, store, disturbed>>

(* Compares with the project that was active when Delete was clicked.       *)
ProjectDeleted(c) ==
    /\ Answered(c, {"delete"})
    /\ IF calls[c].closure = calls[c].id
         THEN active' = None /\ session' = None
         ELSE UNCHANGED <<active, session>>
    /\ list' = list \ {calls[c].id}
    /\ status' = AtRest
    /\ Hangup(c)
    /\ UNCHANGED <<editor, store, disturbed>>

(* The image becomes an element of whatever document is in the editor.      *)
ImageUploaded(c) ==
    /\ Answered(c, {"upload"})
    /\ Hangup(c)
    /\ UNCHANGED <<ui, store, disturbed>>

RestoreFails(c) ==
    /\ Refused(c, {"restore"})
    /\ session' = None
    /\ status' = AtRest
    /\ Hangup(c)
    /\ UNCHANGED <<editor, active, list, store, disturbed>>

(* Mutant: a refused update is not shown.                                   *)
RequestFailsUnseen(c) ==
    /\ Refused(c, {"list", "create", "update", "open", "delete", "upload"})
    /\ status' = IF calls[c].kind = "update" THEN status ELSE AtRest
    /\ Hangup(c)
    /\ UNCHANGED <<editor, active, session, list, store, disturbed>>

(* The catch clauses of the other handlers.                                 *)
RequestFails(c) ==
    /\ Refused(c, {"list", "create", "update", "open", "delete", "upload"})
    /\ status' = AtRest
    /\ Hangup(c)
    /\ UNCHANGED <<editor, active, session, list, store, disturbed>>

Serve(c) ==
    \/ ServeList(c) \/ ServeCreate(c) \/ ServeUpdate(c)
    \/ ServeGet(c) \/ ServeDelete(c) \/ ServeUpload(c)

Return(c) ==
    \/ ProjectsListed(c) \/ ProjectSaved(c) \/ ProjectOpened(c) \/ ProjectDeleted(c)
    \/ ImageUploaded(c) \/ RestoreFails(c) \/ RequestFails(c)

WorkflowNext ==
    \/ ReloadPage \/ LoadProjects \/ SaveProject \/ ImportImage
    \/ \E p \in Projects : OpenProject(p) \/ DeleteProject(p)
    \/ \E c \in Calls : Serve(c) \/ Disconnect(c) \/ Return(c)

(* The daemon answers every request, and the renderer's event loop runs the *)
(* continuation of every promise that has settled.  The user owes nothing.  *)
Fairness == \A c \in Calls : WF_workflowVars(Serve(c)) /\ WF_workflowVars(Return(c))

WorkflowSpec == WorkflowInit /\ [][WorkflowNext]_workflowVars /\ Fairness

-----------------------------------------------------------------------------
Requests ==
    [kind : {"list", "create", "update", "open", "restore", "delete", "upload"},
     id : Projects \cup {None}, work : Works, closure : Projects \cup {None},
     phase : {"sent", "orphan", "answered", "failed"},
     answer : Works \cup (SUBSET Projects) \cup {None}]

WorkflowTypeOK ==
    /\ editor \in Works
    /\ active \in Projects \cup {None}
    /\ session \in Projects \cup {None}
    /\ list \subseteq Projects
    /\ status \in [kind : {"rest", "loading", "saving", "opening", "deleting"},
                   id : Projects \cup {None}]
    /\ calls \in [Calls -> Requests \cup {Free}]
    /\ store \in [Projects -> Works \cup {None, Deleted}]
    /\ disturbed \in BOOLEAN

Pending(kind) == \E c \in Calls : calls[c].kind = kind /\ calls[c].phase # "orphan"

(* The remembered session never names a project other than the active one,  *)
(* except while the project it names is being restored: whatever order the  *)
(* answers to saves, opens and deletes come in, a reload asks for the       *)
(* project whose name the panel showed, or for none.                        *)
SessionIsActive == session \in {active, None} \/ Pending("restore")

(* When the page is at rest and neither overlapping requests nor a lost     *)
(* answer disturbed it since it was loaded, the active project is the one   *)
(* whose work is in the editor, the session remembers it, and the panel     *)
(* lists only projects that exist.                                          *)
QuietPageAgrees ==
    ~disturbed /\ InFlight = {} =>
      /\ active # None => store[active] = editor
      /\ session = active
      /\ list \subseteq Live

(* The panel's Loading, Saving, Opening and Deleting come to an end, also   *)
(* when answers for other requests arrive first, unless the user reloads    *)
(* the page, and so begins to restore a project, over and over.             *)
BusyEnds == []<>(status.kind = "rest") \/ []<><<ReloadPage>>_workflowVars
=============================================================================

---------------------------- MODULE ProjectStore ----------------------------
(***************************************************************************)
(* The daemon's project library (projects/store.py) as the handlers of      *)
(* api/projects.py run it: each request is served by a thread of the pool,  *)
(* no lock is taken, and a thread may be preempted between any two of the   *)
(* steps below.  The records in memory and the directories on disk are two  *)
(* copies of the library that the handlers change one after the other; the  *)
(* daemon may die in between, and reads the disk when it starts again.      *)
(***************************************************************************)
CONSTANTS Handlers,             \* threads that serve requests
          Projects,             \* the project ids uuid4 may return
          Documents,            \* a name with a document
          Missing, Empty, Torn  \* no file; one just truncated; invalid JSON

ASSUME StoreAssumption ==
    /\ Missing # Empty /\ Missing # Torn /\ Empty # Torn
    /\ Documents \cap {Missing, Empty, Torn} = {}

CONSTANT NoProject   \* a model value: an idle handler's project

ASSUME ProjectAssumption == NoProject \notin Projects

VARIABLES
    up,         \* the daemon serves requests
    records,    \* _records: what the daemon knows of each project
    dirs,       \* projects that have a directory
    files,      \* project.json of each project
    assetDirs,  \* projects whose directory has an assets directory
    assets,     \* those with the uploaded image in it
    whole,      \* those whose image has its bytes
    fresh,      \* ids uuid4 has not returned yet
    pc,         \* where each handler is
    task,       \* each handler's local variables
    answered,   \* what the last answer to a save or a delete said
    uploaded,   \* projects with an upload that was answered
    cut,        \* files a crash caught in the middle of a write
    deleted,    \* projects that somebody asked to delete
    disturbed   \* projects on which requests overlapped or were cut short

disk == <<dirs, files, assetDirs, assets, whole>>
claims == <<answered, uploaded, cut>>
vars == <<up, records, disk, fresh, pc, task, claims, deleted, disturbed>>

Entries == {"project.json", "assets"}

(* alone: no other request on the project since this one began.             *)
Task(p, d) == [project |-> p, document |-> d, entries |-> {}, alone |-> TRUE]

IdleTask == Task(NoProject, Missing)

Saving == {"store", "mkdir", "open", "write", "lost"}
Deleting == {"forget", "list", "unlink", "rmdir_assets"}
Uploading == {"asset_dir", "asset", "image", "image_lost"}

Busy(p) == \E h \in Handlers : task[h].project = p

(* A handler is about to write what it has truncated.                       *)
AtWork(p, step) == \E h \in Handlers : pc[h] = step /\ task[h].project = p

-----------------------------------------------------------------------------
Init ==
    /\ up = TRUE
    /\ records = [p \in Projects |-> Missing]
    /\ dirs = {}
    /\ files = [p \in Projects |-> Missing]
    /\ assetDirs = {}
    /\ assets = {}
    /\ whole = {}
    /\ fresh = Projects
    /\ pc = [h \in Handlers |-> "idle"]
    /\ task = [h \in Handlers |-> IdleTask]
    /\ answered = [p \in Projects |-> Missing]
    /\ uploaded = {}
    /\ cut = {}
    /\ deleted = {}
    /\ disturbed = {}

(* A thread takes up a request on project p.                                *)
Begin(h, p, d, step) ==
    /\ up
    /\ pc[h] = "idle"
    /\ pc' = [pc EXCEPT ![h] = step]
    /\ task' = [g \in Handlers |->
                  IF g = h THEN [Task(p, d) EXCEPT !.alone = ~Busy(p)]
                  ELSE IF task[g].project = p THEN [task[g] EXCEPT !.alone = FALSE]
                  ELSE task[g]]
    /\ disturbed' = IF Busy(p) THEN disturbed \cup {p} ELSE disturbed

(* It answers, or raises.  A save or a delete that had the project to       *)
(* itself has put it in order, whatever happened to it before.              *)
End(h, repaired) ==
    /\ pc' = [pc EXCEPT ![h] = "idle"]
    /\ task' = [task EXCEPT ![h] = IdleTask]
    /\ disturbed' = IF repaired /\ task[h].alone
                      THEN disturbed \ {task[h].project}
                      ELSE disturbed

Step(h, from, to) ==
    /\ pc[h] = from
    /\ pc' = [pc EXCEPT ![h] = to]
    /\ UNCHANGED <<task, disturbed>>

-----------------------------------------------------------------------------
(* create: the record is known before it is persisted.                      *)
Create(h, p, d) ==
    /\ p \in fresh
    /\ Begin(h, p, d, "mkdir")
    /\ records' = [records EXCEPT ![p] = d]
    /\ fresh' = fresh \ {p}
    /\ UNCHANGED <<up, disk, claims, deleted>>

(* update: the existing record is read, and replaced later on.              *)
BeginUpdate(h, p, d) ==
    /\ records[p] # Missing
    /\ Begin(h, p, d, "store")
    /\ UNCHANGED <<up, records, disk, fresh, claims, deleted>>

StoreRecord(h) ==
    /\ Step(h, "store", "mkdir")
    /\ records' = [records EXCEPT ![task[h].project] = task[h].document]
    /\ UNCHANGED <<up, disk, fresh, claims, deleted>>

(* _persist: mkdir, then write_text opens, truncates and writes.            *)
MakeDir(h) ==
    /\ Step(h, "mkdir", "open")
    /\ dirs' = dirs \cup {task[h].project}
    /\ UNCHANGED <<up, records, files, assetDirs, assets, whole, fresh, claims, deleted>>

Open(h) ==
    LET p == task[h].project IN
    \/ /\ p \in dirs
       /\ Step(h, "open", "write")
       /\ files' = [files EXCEPT ![p] = Empty]
       /\ cut' = cut \ {<<p, "write">>}
       /\ UNCHANGED <<up, records, dirs, assetDirs, assets, whole, fresh, answered, uploaded,
                      deleted>>
    \/ /\ p \notin dirs     \* FileNotFoundError
       /\ pc[h] = "open"
       /\ End(h, FALSE)
       /\ UNCHANGED <<up, records, disk, fresh, claims, deleted>>

(* The text goes to the start of the file.  If another handler has written  *)
(* since it was truncated, the end of a longer text sticks out behind it;   *)
(* if the file was unlinked, nobody will see the text.                      *)
Write(h) ==
    LET p == task[h].project
        d == task[h].document IN
    /\ \/ /\ pc[h] = "write"
          /\ \E text \in IF files[p] = Empty THEN {d} ELSE {d, Torn} :
               files' = [files EXCEPT ![p] = text]
       \/ /\ pc[h] = "lost"
          /\ UNCHANGED files
    /\ answered' = [answered EXCEPT ![p] = d]
    /\ End(h, TRUE)
    /\ UNCHANGED <<up, records, dirs, assetDirs, assets, whole, fresh, uploaded, cut,
                   deleted>>

Persist(h) == MakeDir(h) \/ Open(h) \/ Write(h)

-----------------------------------------------------------------------------
(* delete: the project is looked up, and forgotten later on.                *)
BeginDelete(h, p) ==
    /\ records[p] # Missing
    /\ Begin(h, p, Missing, "forget")
    /\ deleted' = deleted \cup {p}
    /\ UNCHANGED <<up, records, disk, fresh, claims>>

(* Mutant: the directory is left behind.                                    *)
ForgetOnly(h) ==
    LET p == task[h].project IN
    /\ pc[h] = "forget"
    /\ End(h, TRUE)
    /\ records' = [records EXCEPT ![p] = Missing]
    /\ answered' = [answered EXCEPT ![p] = Missing]
    /\ UNCHANGED <<up, disk, fresh, uploaded, cut, deleted>>

Forget(h) ==
    LET p == task[h].project IN
    \/ /\ Step(h, "forget", "list")
       /\ records[p] # Missing
       /\ records' = [records EXCEPT ![p] = Missing]
       /\ UNCHANGED <<up, disk, fresh, claims, deleted>>
    \/ /\ pc[h] = "forget"
       /\ records[p] = Missing     \* KeyError
       /\ End(h, FALSE)
       /\ UNCHANGED <<up, records, disk, fresh, claims, deleted>>

(* rmtree(ignore_errors=True): it lists the directory, removes what it has  *)
(* listed, the assets directory with the image before it, and then the      *)
(* directory.  A directory that is not empty stays, and nobody hears of it. *)
List(h) ==
    LET p == task[h].project IN
    /\ pc[h] = "list"
    /\ pc' = [pc EXCEPT ![h] = "unlink"]
    /\ task' = [task EXCEPT ![h].entries =
                  {e \in Entries : \/ e = "project.json" /\ files[p] # Missing
                                   \/ e = "assets" /\ p \in assetDirs}]
    /\ UNCHANGED <<up, records, disk, fresh, claims, deleted, disturbed>>

(* Whoever has the removed file open goes on writing where nobody looks.    *)
Unlink(h) ==
    LET p == task[h].project IN
    /\ pc[h] = "unlink"
    /\ "project.json" \in task[h].entries
    /\ task' = [task EXCEPT ![h].entries = @ \ {"project.json"}]
    /\ files' = [files EXCEPT ![p] = Missing]
    /\ cut' = cut \ {<<p, "write">>}
    /\ pc' = [g \in Handlers |->
                IF pc[g] = "write" /\ task[g].project = p THEN "lost" ELSE pc[g]]
    /\ UNCHANGED <<up, records, dirs, assetDirs, assets, whole, fresh, answered, uploaded,
                   deleted, disturbed>>

UnlinkImage(h) ==
    LET p == task[h].project IN
    /\ pc[h] = "unlink"
    /\ "assets" \in task[h].entries
    /\ task' = [task EXCEPT ![h].entries = @ \ {"assets"}]
    /\ assets' = assets \ {p}
    /\ whole' = whole \ {p}
    /\ cut' = cut \ {<<p, "image">>}
    /\ pc' = [g \in Handlers |->
                IF g = h THEN "rmdir_assets"
                ELSE IF pc[g] = "image" /\ task[g].project = p THEN "image_lost"
                ELSE pc[g]]
    /\ UNCHANGED <<up, records, dirs, files, assetDirs, fresh, answered, uploaded, deleted,
                   disturbed>>

RmdirAssets(h) ==
    LET p == task[h].project IN
    /\ Step(h, "rmdir_assets", "unlink")
    /\ assetDirs' = IF p \in assets THEN assetDirs ELSE assetDirs \ {p}
    /\ UNCHANGED <<up, records, dirs, files, assets, whole, fresh, claims, deleted>>

Rmdir(h) ==
    LET p == task[h].project IN
    /\ pc[h] = "unlink"
    /\ task[h].entries = {}
    /\ dirs' = IF files[p] = Missing /\ p \notin assetDirs THEN dirs \ {p} ELSE dirs
    /\ answered' = [answered EXCEPT ![p] = Missing]
    /\ End(h, TRUE)
    /\ UNCHANGED <<up, records, files, assetDirs, assets, whole, fresh, uploaded, cut,
                   deleted>>

Remove(h) ==
    Forget(h) \/ List(h) \/ Unlink(h) \/ UnlinkImage(h) \/ RmdirAssets(h) \/ Rmdir(h)

-----------------------------------------------------------------------------
(* add_asset: the image is named by its hash, and no record is kept of it.  *)
BeginUpload(h, p) ==
    /\ records[p] # Missing
    /\ Begin(h, p, Missing, "asset_dir")
    /\ UNCHANGED <<up, records, disk, fresh, claims, deleted>>

(* Mutant: the directory is emptied before the image is put into it.        *)
MakeAssetDirAfresh(h) ==
    LET p == task[h].project IN
    /\ Step(h, "asset_dir", "asset")
    /\ dirs' = dirs \cup {p}
    /\ files' = [files EXCEPT ![p] = Missing]
    /\ assetDirs' = assetDirs \cup {p}
    /\ UNCHANGED <<up, records, assets, whole, fresh, claims, deleted>>

MakeAssetDir(h) ==
    LET p == task[h].project IN
    /\ Step(h, "asset_dir", "asset")
    /\ dirs' = dirs \cup {p}
    /\ assetDirs' = assetDirs \cup {p}
    /\ UNCHANGED <<up, records, files, assets, whole, fresh, claims, deleted>>

(* write_bytes truncates the image, and then writes it: an image uploaded   *)
(* before is empty in between.  Two uploads of it write the same bytes.     *)
OpenAsset(h) ==
    LET p == task[h].project IN
    \/ /\ p \in assetDirs
       /\ Step(h, "asset", "image")
       /\ assets' = assets \cup {p}
       /\ whole' = whole \ {p}
       /\ cut' = cut \ {<<p, "image">>}
       /\ UNCHANGED <<up, records, dirs, files, assetDirs, fresh, answered, uploaded, deleted>>
    \/ /\ p \notin assetDirs     \* FileNotFoundError
       /\ pc[h] = "asset"
       /\ End(h, FALSE)
       /\ UNCHANGED <<up, records, disk, fresh, claims, deleted>>

WriteAsset(h) ==
    LET p == task[h].project IN
    /\ \/ /\ pc[h] = "image"
          /\ whole' = whole \cup {p}
       \/ /\ pc[h] = "image_lost"
          /\ UNCHANGED whole
    /\ uploaded' = uploaded \cup {p}
    /\ End(h, FALSE)
    /\ UNCHANGED <<up, records, dirs, files, assetDirs, assets, fresh, answered, cut, deleted>>

Upload(h) == MakeAssetDir(h) \/ OpenAsset(h) \/ WriteAsset(h)

-----------------------------------------------------------------------------
(* The daemon dies between any two steps.                                   *)
Crash ==
    /\ up
    /\ up' = FALSE
    /\ records' = [p \in Projects |-> Missing]
    /\ pc' = [h \in Handlers |-> "idle"]
    /\ task' = [h \in Handlers |-> IdleTask]
    /\ disturbed' = disturbed \cup {p \in Projects : Busy(p)}
    /\ cut' = cut \cup {w \in Projects \X {"write", "image"} : AtWork(w[1], w[2])}
    /\ UNCHANGED <<disk, fresh, answered, uploaded, deleted>>

(* Mutant: a file that cannot be read is taken for a project's.             *)
StartAnyway ==
    /\ ~up
    /\ up' = TRUE
    /\ records' = files
    /\ UNCHANGED <<disk, fresh, pc, task, claims, deleted, disturbed>>

(* It starts again: _load_existing raises at the first file it cannot read. *)
Start ==
    /\ ~up
    /\ \A p \in Projects : files[p] \in Documents \cup {Missing}
    /\ up' = TRUE
    /\ records' = files
    /\ UNCHANGED <<disk, fresh, pc, task, claims, deleted, disturbed>>

-----------------------------------------------------------------------------
Request(h) ==
    \E p \in Projects :
      \/ \E d \in Documents : Create(h, p, d) \/ BeginUpdate(h, p, d)
      \/ BeginDelete(h, p)
      \/ BeginUpload(h, p)

Handle(h) == StoreRecord(h) \/ Persist(h) \/ Remove(h) \/ Upload(h)

Next == (\E h \in Handlers : Request(h) \/ Handle(h)) \/ Crash \/ Start

Spec == Init /\ [][Next]_vars

-----------------------------------------------------------------------------
(* Every variable keeps its type, and a busy handler has a project.         *)
TypeOK ==
    /\ up \in BOOLEAN
    /\ records \in [Projects -> Documents \cup {Missing}]
    /\ dirs \subseteq Projects
    /\ files \in [Projects -> Documents \cup {Missing, Empty, Torn}]
    /\ assetDirs \subseteq dirs
    /\ whole \subseteq assets /\ assets \subseteq assetDirs
    /\ fresh \subseteq Projects
    /\ pc \in [Handlers -> {"idle"} \cup Saving \cup Deleting \cup Uploading]
    /\ task \in [Handlers -> [project : Projects \cup {NoProject},
                              document : Documents \cup {Missing},
                              entries : SUBSET Entries, alone : BOOLEAN]]
    /\ \A h \in Handlers : pc[h] = "idle" <=> task[h].project = NoProject
    /\ answered \in [Projects -> Documents \cup {Missing}]
    /\ uploaded \subseteq Projects
    /\ cut \subseteq Projects \X {"write", "image"}
    /\ deleted \subseteq Projects
    /\ disturbed \subseteq Projects

(* What a client was told of a project is what is on disk, and what the     *)
(* daemon knows when it runs: a saved document is stored, a deleted project *)
(* has left nothing behind and does not come back with a restart.  It is    *)
(* claimed of projects no request is working on, on which requests have not *)
(* overlapped or been cut short since the last save or delete that had the  *)
(* project to itself - requests on other projects may do what they want.    *)
AnswersStand ==
    \A p \in Projects \ disturbed : ~Busy(p) =>
      /\ files[p] = answered[p]
      /\ up => records[p] = answered[p]
      /\ answered[p] = Missing => p \notin dirs

(* What is in the files at any moment, whichever requests overlap: the      *)
(* last save that was answered, and the bytes of every image whose upload   *)
(* was.  A file has other content only                                      *)
(*   - while a request is at work on this very file,                        *)
(*   - after a crash in the middle of such a write (until the file is       *)
(*     written again),                                                      *)
(*   - if it is project.json and saves of the project overlapped (Torn), or *)
(*   - after somebody asked to delete the project; what is left of it can   *)
(*     then still be read.                                                  *)
(* Uploads never harm project.json, saves never harm images, no request     *)
(* harms another project, and _load_existing fails for no other reason.     *)
FileStands(p) ==
    \/ files[p] = answered[p]
    \/ AtWork(p, "write")
    \/ <<p, "write">> \in cut
    \/ files[p] = Torn /\ p \in disturbed
    \/ p \in deleted /\ files[p] \in Documents \cup {Missing}

ImageStands(p) ==
    p \in uploaded =>
      \/ p \in whole
      \/ AtWork(p, "image")
      \/ <<p, "image">> \in cut
      \/ p \in deleted

ContentsStand == \A p \in Projects : FileStands(p) /\ ImageStands(p)
=============================================================================

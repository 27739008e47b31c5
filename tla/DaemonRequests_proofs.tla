----------------------- MODULE DaemonRequests_proofs -----------------------
(***************************************************************************)
(* What the daemon's requests do beside the queue.  ProjectStore, for any   *)
(* threads and projects: who has a project to itself finds the record, the  *)
(* file and the answer in the state that its own step expects.              *)
(* PrinterDiscovery, for any catalogue, printers and requests: a session    *)
(* holds nothing but idle texts and the reply to the query it is at, so     *)
(* that what it recognises, the printer itself has said.                    *)
(***************************************************************************)
EXTENDS ProjectStore, PrinterDiscovery, Lists_proofs, SequenceTheorems, TLAPS

-----------------------------------------------------------------------------
(* The project library.                                                     *)
(* The files, the record and the answers agree on a project.                *)
Settled(p) ==
    /\ files[p] = answered[p]
    /\ up => records[p] = answered[p]
    /\ answered[p] = Missing => p \notin dirs

On(h, p) == task[h].project = p

(* Who is alone with a project is; a project that was shared is disturbed.  *)
AloneInv ==
    \A h \in Handlers : \A p \in Projects : On(h, p) =>
      /\ up
      /\ task[h].alone => \A g \in Handlers : On(g, p) => g = h
      /\ p \notin disturbed => task[h].alone

(* What a request has done so far to the project that it has to itself.     *)
Progress(h) ==
    LET p == task[h].project IN
    /\ pc[h] \in {"mkdir", "open", "write"} => records[p] = task[h].document
    /\ pc[h] \in {"open", "write"} => p \in dirs
    /\ pc[h] = "write" => files[p] = Empty
    /\ pc[h] # "lost"
    /\ pc[h] \in {"list", "unlink", "rmdir_assets"} => records[p] = Missing
    /\ pc[h] \in {"unlink", "rmdir_assets"} /\ files[p] # Missing =>
         "project.json" \in task[h].entries
    /\ pc[h] = "unlink" /\ p \in assetDirs => "assets" \in task[h].entries
    /\ pc[h] = "rmdir_assets" => p \notin assets
    /\ /\ pc[h] \in {"store", "forget", "asset_dir", "asset", "image", "image_lost"}
       /\ p \notin disturbed
       => Settled(p) /\ answered[p] # Missing

ProgressInv ==
    \A h \in Handlers : task[h].project \in Projects /\ task[h].alone => Progress(h)

QuietInv == \A p \in Projects \ disturbed : ~Busy(p) => Settled(p)

(* A save has a document, an open image exists, and only what somebody      *)
(* asked to delete is removed.                                              *)
TaskInv ==
    \A h \in Handlers :
      /\ pc[h] \in Saving => task[h].document \in Documents
      /\ pc[h] = "image" => task[h].project \in assets
      /\ pc[h] \in Deleting \cup {"lost", "image_lost"} => task[h].project \in deleted

(* The assumptions on the constants, as facts to compare values with.       *)
Sentinels ==
    /\ NoProject \notin Projects
    /\ Missing # Empty /\ Missing # Torn
    /\ \A x \in {Missing, Empty, Torn} : x \notin Documents

StoreInv ==
    /\ Sentinels /\ TypeOK /\ AloneInv /\ ProgressInv /\ QuietInv /\ TaskInv
    /\ ContentsStand

Tasks == [project : Projects \cup {NoProject}, document : Documents \cup {Missing},
          entries : SUBSET Entries, alone : BOOLEAN]
Steps == {"idle"} \cup Saving \cup Deleting \cup Uploading

(* What a step of h on project p leaves alone.                              *)
Elsewhere(h, p) ==
    /\ \A q \in Projects \ {p} :
         /\ files'[q] = files[q] /\ records'[q] = records[q] /\ answered'[q] = answered[q]
         /\ q \in dirs' <=> q \in dirs
         /\ q \in assetDirs' <=> q \in assetDirs
         /\ q \in assets' <=> q \in assets
         /\ q \in whole' <=> q \in whole
         /\ q \in uploaded' <=> q \in uploaded
         /\ <<q, "write">> \in cut' <=> <<q, "write">> \in cut
         /\ <<q, "image">> \in cut' <=> <<q, "image">> \in cut
         /\ q \in deleted' <=> q \in deleted
         /\ q \in disturbed' <=> q \in disturbed
    /\ \A g \in Handlers \ {h} :
         task'[g] = task[g] /\ (pc'[g] = pc[g] \/ task[g].project = p)
    /\ up' = up

-----------------------------------------------------------------------------
LEMMA SentinelsHold == Sentinels
BY StoreAssumption, ProjectAssumption DEF Sentinels

LEMMA StoreTypes ==
    ASSUME TypeOK
    PROVE  /\ up \in BOOLEAN /\ records \in [Projects -> Documents \cup {Missing}]
           /\ files \in [Projects -> Documents \cup {Missing, Empty, Torn}]
           /\ answered \in [Projects -> Documents \cup {Missing}]
           /\ pc \in [Handlers -> Steps] /\ task \in [Handlers -> Tasks]
           /\ \A h \in Handlers : pc[h] = "idle" <=> task[h].project = NoProject
           /\ dirs \subseteq Projects /\ assetDirs \subseteq dirs /\ assets \subseteq assetDirs
           /\ whole \subseteq assets /\ fresh \subseteq Projects /\ uploaded \subseteq Projects
           /\ cut \subseteq Projects \X {"write", "image"}
           /\ deleted \subseteq Projects /\ disturbed \subseteq Projects
BY DEF TypeOK, Tasks, Steps

(* A busy handler has a project.                                            *)
LEMMA BusyHandler ==
    ASSUME StoreInv, NEW h \in Handlers, pc[h] # "idle"
    PROVE  /\ task[h].project \in Projects /\ task[h].project # NoProject
           /\ task[h] \in Tasks /\ On(h, task[h].project) /\ up
<1>1. task[h].project # NoProject /\ task[h] \in Tasks
  BY StoreTypes DEF StoreInv
<1>2. task[h].project \in Projects
  BY <1>1 DEF Tasks
<1> QED
  BY <1>1, <1>2 DEF On, StoreInv, AloneInv

LEMMA IdleTaskIs ==
    /\ IdleTask = [project |-> NoProject, document |-> Missing, entries |-> {}, alone |-> TRUE]
    /\ IdleTask \in Tasks /\ IdleTask.project = NoProject
BY DEF IdleTask, Task, Tasks

(* A step within a request, which goes on.                                  *)
LEMMA GoesOn ==
    ASSUME StoreInv, NEW h \in Handlers, NEW p \in Projects, On(h, p), Elsewhere(h, p),
           task'[h].project = p, task'[h].alone = task[h].alone, disturbed' = disturbed,
           task[h].alone => Progress(h)'
    PROVE  AloneInv' /\ ProgressInv' /\ QuietInv'
<1>1. \A g \in Handlers : task'[g].project = task[g].project /\ task'[g].alone = task[g].alone
  BY DEF Elsewhere, On
<1>2. AloneInv'
  BY <1>1 DEF StoreInv, AloneInv, On, Elsewhere
<1>3. ProgressInv'
  <2> SUFFICES ASSUME NEW g \in Handlers, task'[g].project \in Projects, task'[g].alone
               PROVE  Progress(g)'
    BY DEF ProgressInv
  <2>1. CASE g = h
    BY <1>1, <2>1
  <2>2. CASE g # h
    <3> DEFINE q == task[g].project
    <3>1. q \in Projects /\ task[g].alone /\ task'[g] = task[g]
      BY <1>1, <2>2 DEF Elsewhere
    <3>2. q # p
      BY <2>2, <3>1 DEF StoreInv, AloneInv, On
    <3>3. pc'[g] = pc[g]
      BY <2>2, <3>2 DEF Elsewhere
    <3>4. Progress(g)
      BY <3>1 DEF StoreInv, ProgressInv
    <3>5. /\ files'[q] = files[q] /\ records'[q] = records[q] /\ answered'[q] = answered[q]
          /\ q \in dirs' <=> q \in dirs
          /\ q \in assetDirs' <=> q \in assetDirs
          /\ q \in assets' <=> q \in assets
          /\ q \in disturbed' <=> q \in disturbed
          /\ up' = up
      BY <3>1, <3>2 DEF Elsewhere
    <3> QED
      BY <3>1, <3>3, <3>4, <3>5 DEF Progress, Settled
  <2> QED
    BY <2>1, <2>2
<1>4. QuietInv'
  <2> SUFFICES ASSUME NEW q \in Projects, q \notin disturbed', ~Busy(q)'
               PROVE  Settled(q)'
    BY DEF QuietInv
  <2>1. q # p /\ ~Busy(q)
    BY <1>1 DEF Busy, On
  <2>2. Settled(q)
    BY <2>1 DEF StoreInv, QuietInv
  <2> QED
    BY <2>1, <2>2 DEF Settled, Elsewhere
<1> QED
  BY <1>2, <1>3, <1>4

(* The last step of a request.                                              *)
LEMMA Leaves ==
    ASSUME StoreInv, NEW h \in Handlers, NEW p \in Projects, On(h, p), Elsewhere(h, p),
           task' = [task EXCEPT ![h] = IdleTask],
           disturbed' \in {disturbed, disturbed \ {p}},
           task[h].alone \/ disturbed' = disturbed,
           task[h].alone /\ p \notin disturbed' => Settled(p)'
    PROVE  AloneInv' /\ ProgressInv' /\ QuietInv'
<1>1. \A g \in Handlers : task'[g] = IF g = h THEN IdleTask ELSE task[g]
  BY DEF StoreInv, TypeOK
<1>2. IdleTask.project \notin Projects
  BY IdleTaskIs DEF StoreInv, Sentinels
<1>3. \A g \in Handlers : task[h].alone /\ On(g, p) => g = h
  BY DEF StoreInv, AloneInv
<1>4. AloneInv'
  BY <1>1, <1>2, <1>3 DEF StoreInv, AloneInv, On, Elsewhere
<1>5. ProgressInv'
  <2> SUFFICES ASSUME NEW g \in Handlers, task'[g].project \in Projects, task'[g].alone
               PROVE  Progress(g)'
    BY DEF ProgressInv
  <2>1. g # h
    BY <1>1, <1>2
  <2> DEFINE q == task[g].project
  <2>2. q \in Projects /\ task[g].alone /\ task'[g] = task[g]
    BY <1>1, <2>1
  <2>3. q # p
    BY <2>1, <2>2 DEF StoreInv, AloneInv, On
  <2>4. pc'[g] = pc[g]
    BY <2>1, <2>3 DEF Elsewhere
  <2>5. Progress(g)
    BY <2>2 DEF StoreInv, ProgressInv
  <2>6. /\ files'[q] = files[q] /\ records'[q] = records[q] /\ answered'[q] = answered[q]
        /\ q \in dirs' <=> q \in dirs
        /\ q \in assetDirs' <=> q \in assetDirs
        /\ q \in assets' <=> q \in assets
        /\ q \in disturbed' <=> q \in disturbed
        /\ up' = up
    BY <2>2, <2>3 DEF Elsewhere
  <2> QED
    BY <2>2, <2>4, <2>5, <2>6 DEF Progress, Settled
<1>6. QuietInv'
  <2> SUFFICES ASSUME NEW q \in Projects, q \notin disturbed', ~Busy(q)'
               PROVE  Settled(q)'
    BY DEF QuietInv
  <2>1. CASE q = p
    <3>1. task[h].alone
      BY <2>1 DEF StoreInv, AloneInv
    <3> QED
      BY <2>1, <3>1
  <2>2. CASE q # p
    <3>1. ~Busy(q) /\ q \notin disturbed
      BY <1>1, <2>2 DEF Busy, On, Elsewhere
    <3>2. Settled(q)
      BY <3>1 DEF StoreInv, QuietInv
    <3> QED
      BY <2>2, <3>2 DEF Settled, Elsewhere
  <2> QED
    BY <2>1, <2>2
<1> QED
  BY <1>4, <1>5, <1>6

(* The contents of the other projects are as they were.                     *)
LEMMA OthersStand ==
    ASSUME StoreInv, NEW h \in Handlers, NEW p \in Projects, On(h, p), Elsewhere(h, p),
           FileStands(p)', ImageStands(p)'
    PROVE  ContentsStand'
<1> SUFFICES ASSUME NEW q \in Projects, q # p
             PROVE  FileStands(q)' /\ ImageStands(q)'
  BY DEF ContentsStand
<1>1. FileStands(q) /\ ImageStands(q)
  BY DEF StoreInv, ContentsStand
<1>2. /\ AtWork(q, "write") => AtWork(q, "write")'
      /\ AtWork(q, "image") => AtWork(q, "image")'
  BY DEF AtWork, Elsewhere, On
<1>3. FileStands(q)'
  BY <1>1, <1>2 DEF FileStands, Elsewhere
<1>4. ImageStands(q)'
  BY <1>1, <1>2 DEF ImageStands, Elsewhere
<1> QED
  BY <1>3, <1>4

(* A step that opens, writes and removes nothing.                           *)
LEMMA AllStand ==
    ASSUME StoreInv, UNCHANGED <<files, whole, answered, uploaded>>,
           cut \subseteq cut', deleted \subseteq deleted', disturbed \subseteq disturbed',
           \A g \in Handlers : pc[g] \in {"write", "image"} =>
             pc'[g] = pc[g] /\ task'[g].project = task[g].project
    PROVE  ContentsStand'
<1> SUFFICES ASSUME NEW q \in Projects
             PROVE  FileStands(q)' /\ ImageStands(q)'
  BY DEF ContentsStand
<1>1. FileStands(q) /\ ImageStands(q)
  BY DEF StoreInv, ContentsStand
<1>2. /\ AtWork(q, "write") => AtWork(q, "write")'
      /\ AtWork(q, "image") => AtWork(q, "image")'
  BY DEF AtWork
<1>3. FileStands(q)'
  BY <1>1, <1>2 DEF FileStands
<1>4. ImageStands(q)'
  BY <1>1, <1>2 DEF ImageStands
<1> QED
  BY <1>3, <1>4

(* The first step of a request: the project is looked up, or is new.        *)
LEMMA Begins ==
    ASSUME StoreInv, NEW h \in Handlers, NEW p \in Projects, NEW d, NEW step,
           Begin(h, p, d, step), step # "idle",
           \/ step = "mkdir" /\ records' = [records EXCEPT ![p] = d]
           \/ /\ step \in {"store", "forget", "asset_dir"}
              /\ records' = records /\ records[p] # Missing,
           UNCHANGED <<up, files, dirs, assetDirs, assets, answered>>
    PROVE  AloneInv' /\ ProgressInv' /\ QuietInv'
<1>1. /\ up /\ pc[h] = "idle" /\ pc' = [pc EXCEPT ![h] = step]
      /\ task' = [g \in Handlers |->
                    IF g = h THEN [Task(p, d) EXCEPT !.alone = ~Busy(p)]
                    ELSE IF task[g].project = p THEN [task[g] EXCEPT !.alone = FALSE]
                    ELSE task[g]]
      /\ disturbed' = IF Busy(p) THEN disturbed \cup {p} ELSE disturbed
  BY DEF Begin
<1>2. /\ task \in [Handlers -> Tasks] /\ pc \in [Handlers -> Steps]
      /\ records \in [Projects -> Documents \cup {Missing}]
      /\ p # NoProject /\ task[h].project = NoProject
  BY <1>1, StoreTypes DEF StoreInv, Sentinels
<1>3. \A t \in Tasks : [t EXCEPT !.alone = FALSE].project = t.project
                         /\ ~[t EXCEPT !.alone = FALSE].alone
  BY DEF Tasks
<1>4. /\ task'[h].project = p /\ task'[h].document = d
      /\ task'[h].alone <=> ~Busy(p)
  BY <1>1 DEF Task
<1>5. \A g \in Handlers \ {h} :
        /\ task'[g].project = task[g].project
        /\ task[g].project = p => ~task'[g].alone
        /\ task[g].project # p => task'[g] = task[g]
  BY <1>1, <1>2, <1>3
<1>6. \A g \in Handlers : pc'[g] = IF g = h THEN step ELSE pc[g]
  BY <1>1, <1>2
<1>7. /\ \A q \in Projects \ {p} : q \in disturbed' <=> q \in disturbed
      /\ p \in disturbed => p \in disturbed'
      /\ Busy(p) => p \in disturbed'
      /\ \A q \in Projects \ {p} : records'[q] = records[q]
  BY <1>1, <1>2
<1>8. AloneInv'
  <2> SUFFICES ASSUME NEW g \in Handlers, NEW q \in Projects, task'[g].project = q
               PROVE  /\ up'
                      /\ task'[g].alone => \A i \in Handlers : task'[i].project = q => i = g
                      /\ q \notin disturbed' => task'[g].alone
    BY DEF AloneInv, On
  <2>1. CASE q = p
    <3>1. task'[g].alone => g = h /\ ~Busy(p)
      BY <1>4, <1>5, <2>1
    <3>2. \A i \in Handlers : task'[i].project = p => i = h \/ Busy(p)
      BY <1>5 DEF Busy
    <3>3. q \notin disturbed' => task'[g].alone
      <4>1. g # h => Busy(p)
        BY <1>5, <2>1 DEF Busy
      <4> QED
        BY <1>4, <1>7, <2>1, <4>1
    <3> QED
      BY <1>1, <2>1, <3>1, <3>2, <3>3
  <2>2. CASE q # p
    <3>1. g # h /\ task'[g] = task[g]
      BY <1>4, <1>5, <2>2
    <3>2. /\ task[g].alone => \A i \in Handlers : task[i].project = q => i = g
          /\ q \notin disturbed => task[g].alone
      BY <3>1 DEF StoreInv, AloneInv, On
    <3>3. \A i \in Handlers : task'[i].project = q => task[i].project = q
      BY <1>4, <1>5, <2>2
    <3> QED
      BY <1>1, <1>7, <2>2, <3>1, <3>2, <3>3
  <2> QED
    BY <2>1, <2>2
<1>9. ProgressInv'
  <2> SUFFICES ASSUME NEW g \in Handlers, task'[g].project \in Projects, task'[g].alone
               PROVE  Progress(g)'
    BY DEF ProgressInv
  <2>1. CASE g = h
    <3>1. pc'[g] = step /\ task'[g].project = p /\ task'[g].document = d /\ ~Busy(p)
      BY <1>4, <1>6, <2>1
    <3>2. step = "mkdir" => records'[p] = d
      BY <1>2
    <3>3. ASSUME step # "mkdir", p \notin disturbed'
          PROVE  Settled(p)' /\ answered'[p] # Missing
      <4>1. Settled(p)
        BY <1>7, <3>1, <3>3 DEF StoreInv, QuietInv
      <4> QED
        BY <1>1, <3>3, <4>1 DEF Settled
    <3> QED
      BY <3>1, <3>2, <3>3 DEF Progress
  <2>2. CASE g # h
    <3> DEFINE q == task[g].project
    <3>1. q \in Projects /\ q # p /\ task'[g] = task[g] /\ pc'[g] = pc[g]
      BY <1>5, <1>6, <2>2
    <3>2. Progress(g)
      BY <3>1 DEF StoreInv, ProgressInv
    <3>3. records'[q] = records[q] /\ (q \in disturbed' <=> q \in disturbed)
      BY <1>7, <3>1
    <3> QED
      BY <3>1, <3>2, <3>3 DEF Progress, Settled
  <2> QED
    BY <2>1, <2>2
<1>10. QuietInv'
  <2> SUFFICES ASSUME NEW q \in Projects, q \notin disturbed', ~Busy(q)'
               PROVE  Settled(q)'
    BY DEF QuietInv
  <2>1. q # p
    BY <1>4 DEF Busy
  <2>2. ~Busy(q) /\ q \notin disturbed
    <3>1. \A g \in Handlers : task[g].project = q => task'[g].project = q
      BY <1>2, <1>5, <2>1 DEF StoreInv, Sentinels
    <3> QED
      BY <1>7, <2>1, <3>1 DEF Busy
  <2>3. Settled(q)
    BY <2>2 DEF StoreInv, QuietInv
  <2> QED
    BY <1>7, <2>1, <2>3 DEF Settled
<1> QED
  BY <1>8, <1>9, <1>10

(* The types, the tasks and the contents after such a step.                 *)
LEMMA BeginsWell ==
    ASSUME StoreInv, NEW h \in Handlers, NEW p \in Projects,
           NEW d \in Documents \cup {Missing}, NEW step \in Steps,
           Begin(h, p, d, step), step \notin {"idle", "lost", "image", "image_lost"},
           step \in Saving => d \in Documents,
           step \in Deleting => p \in deleted',
           deleted' \in {deleted, deleted \cup {p}},
           records' \in [Projects -> Documents \cup {Missing}], fresh' \subseteq fresh,
           UNCHANGED <<up, disk, claims>>
    PROVE  TypeOK' /\ TaskInv' /\ ContentsStand'
<1>1. /\ pc[h] = "idle" /\ pc' = [pc EXCEPT ![h] = step]
      /\ task' = [g \in Handlers |->
                    IF g = h THEN [Task(p, d) EXCEPT !.alone = ~Busy(p)]
                    ELSE IF task[g].project = p THEN [task[g] EXCEPT !.alone = FALSE]
                    ELSE task[g]]
      /\ disturbed' = IF Busy(p) THEN disturbed \cup {p} ELSE disturbed
  BY DEF Begin
<1>2. /\ task \in [Handlers -> Tasks] /\ pc \in [Handlers -> Steps] /\ p # NoProject
      /\ \A g \in Handlers : pc[g] = "idle" <=> task[g].project = NoProject
  BY StoreTypes DEF StoreInv, Sentinels
<1>3. \A t \in Tasks : /\ [t EXCEPT !.alone = FALSE] \in Tasks
                       /\ [t EXCEPT !.alone = FALSE].project = t.project
                       /\ [t EXCEPT !.alone = FALSE].document = t.document
  BY DEF Tasks
<1>4. /\ [Task(p, d) EXCEPT !.alone = ~Busy(p)] \in Tasks
      /\ [Task(p, d) EXCEPT !.alone = ~Busy(p)].project = p
      /\ [Task(p, d) EXCEPT !.alone = ~Busy(p)].document = d
  <2>1. Busy(p) \in BOOLEAN
    BY DEF Busy
  <2> QED
    BY <2>1 DEF Task, Tasks
<1>5. /\ \A g \in Handlers : task'[g] \in Tasks
      /\ task'[h].project = p /\ task'[h].document = d
      /\ \A g \in Handlers \ {h} :
           task'[g].project = task[g].project /\ task'[g].document = task[g].document
  BY <1>1, <1>2, <1>3, <1>4
<1>6. \A g \in Handlers : pc'[g] = IF g = h THEN step ELSE pc[g]
  BY <1>1, <1>2
<1>7. TypeOK'
  <2>1. task' \in [Handlers -> Tasks]
    BY <1>1, <1>5
  <2>2. pc' \in [Handlers -> Steps]
    BY <1>1, <1>2
  <2>3. \A g \in Handlers : pc'[g] = "idle" <=> task'[g].project = NoProject
    BY <1>2, <1>5, <1>6
  <2>4. disturbed' \subseteq Projects /\ deleted' \subseteq Projects
    BY <1>1, StoreTypes DEF StoreInv
  <2> QED
    BY <2>1, <2>2, <2>3, <2>4 DEF StoreInv, TypeOK, Tasks, Steps, disk, claims
<1>8. TaskInv'
  BY <1>5, <1>6 DEF StoreInv, TaskInv, disk
<1>9. ContentsStand'
  BY <1>1, <1>5, <1>6, AllStand DEF disk, claims
<1> QED
  BY <1>7, <1>8, <1>9

LEMMA RequestInv ==
    ASSUME StoreInv, NEW h \in Handlers, Request(h)
    PROVE  StoreInv'
<1>1. records \in [Projects -> Documents \cup {Missing}] /\ Sentinels /\ Sentinels'
  BY StoreTypes DEF StoreInv, Sentinels
<1>2. ASSUME NEW p \in Projects, NEW d \in Documents, Create(h, p, d) PROVE StoreInv'
  <2>1. /\ Begin(h, p, d, "mkdir") /\ records' = [records EXCEPT ![p] = d]
        /\ fresh' \subseteq fresh /\ UNCHANGED <<up, disk, claims, deleted>>
    BY <1>2 DEF Create
  <2>2. AloneInv' /\ ProgressInv' /\ QuietInv'
    BY <2>1, Begins DEF disk, claims
  <2>3. TypeOK' /\ TaskInv' /\ ContentsStand'
    BY <1>1, <2>1, BeginsWell DEF Steps, Saving, Deleting
  <2> QED
    BY <1>1, <2>2, <2>3 DEF StoreInv
<1>3. ASSUME NEW p \in Projects, NEW d \in Documents, BeginUpdate(h, p, d) PROVE StoreInv'
  <2>1. /\ Begin(h, p, d, "store") /\ records' = records /\ records[p] # Missing
        /\ fresh' = fresh /\ UNCHANGED <<up, disk, claims, deleted>>
    BY <1>3 DEF BeginUpdate
  <2>2. AloneInv' /\ ProgressInv' /\ QuietInv'
    BY <2>1, Begins DEF disk, claims
  <2>3. TypeOK' /\ TaskInv' /\ ContentsStand'
    BY <1>1, <2>1, BeginsWell DEF Steps, Saving, Deleting
  <2> QED
    BY <1>1, <2>2, <2>3 DEF StoreInv
<1>4. ASSUME NEW p \in Projects, BeginDelete(h, p) PROVE StoreInv'
  <2>1. /\ Begin(h, p, Missing, "forget") /\ records' = records /\ records[p] # Missing
        /\ deleted' = deleted \cup {p} /\ fresh' = fresh /\ UNCHANGED <<up, disk, claims>>
    BY <1>4 DEF BeginDelete
  <2>2. AloneInv' /\ ProgressInv' /\ QuietInv'
    BY <2>1, Begins DEF disk, claims
  <2>3. TypeOK' /\ TaskInv' /\ ContentsStand'
    BY <1>1, <2>1, BeginsWell DEF Steps, Saving, Deleting
  <2> QED
    BY <1>1, <2>2, <2>3 DEF StoreInv
<1>5. ASSUME NEW p \in Projects, BeginUpload(h, p) PROVE StoreInv'
  <2>1. /\ Begin(h, p, Missing, "asset_dir") /\ records' = records /\ records[p] # Missing
        /\ fresh' = fresh /\ UNCHANGED <<up, disk, claims, deleted>>
    BY <1>5 DEF BeginUpload
  <2>2. AloneInv' /\ ProgressInv' /\ QuietInv'
    BY <2>1, Begins DEF disk, claims
  <2>3. TypeOK' /\ TaskInv' /\ ContentsStand'
    BY <1>1, <2>1, BeginsWell DEF Steps, Saving, Deleting, Uploading
  <2> QED
    BY <1>1, <2>2, <2>3 DEF StoreInv
<1> QED
  BY <1>2, <1>3, <1>4, <1>5 DEF Request

-----------------------------------------------------------------------------
(* A step of a request that keeps its locals.                               *)
LEMMA StepKeepsTask ==
    ASSUME StoreInv, NEW h \in Handlers, NEW from, NEW to \in Steps \ {"idle"},
           Step(h, from, to), from # "idle",
           to \in Saving => from \in Saving,
           to \in Deleting \cup {"lost", "image_lost"} => from \in Deleting
    PROVE  /\ task' = task /\ disturbed' = disturbed /\ pc[h] = from
           /\ pc' \in [Handlers -> Steps]
           /\ \A g \in Handlers : pc'[g] = IF g = h THEN to ELSE pc[g]
           /\ \A g \in Handlers : pc'[g] = "idle" <=> task'[g].project = NoProject
           /\ UNCHANGED deleted /\ assets \subseteq assets'
              /\ (to = "image" => task[h].project \in assets') => TaskInv'
<1>1. /\ task' = task /\ disturbed' = disturbed /\ pc[h] = from
      /\ pc' = [pc EXCEPT ![h] = to]
      /\ pc \in [Handlers -> Steps]
      /\ \A g \in Handlers : pc[g] = "idle" <=> task[g].project = NoProject
  BY StoreTypes DEF Step, StoreInv
<1>2. /\ pc' \in [Handlers -> Steps]
      /\ \A g \in Handlers : pc'[g] = IF g = h THEN to ELSE pc[g]
  BY <1>1
<1>3. \A g \in Handlers : pc'[g] = "idle" <=> task'[g].project = NoProject
  BY <1>1, <1>2
<1>4. UNCHANGED deleted /\ assets \subseteq assets'
      /\ (to = "image" => task[h].project \in assets') => TaskInv'
  BY <1>1, <1>2 DEF StoreInv, TaskInv
<1> QED
  BY <1>1, <1>2, <1>3, <1>4

(* The end of a request.                                                    *)
LEMMA EndIdles ==
    ASSUME StoreInv, NEW h \in Handlers, NEW repaired \in BOOLEAN, End(h, repaired)
    PROVE  /\ task' = [task EXCEPT ![h] = IdleTask] /\ task' \in [Handlers -> Tasks]
           /\ pc' \in [Handlers -> Steps]
           /\ \A g \in Handlers \ {h} : task'[g] = task[g] /\ pc'[g] = pc[g]
           /\ \A g \in Handlers : pc'[g] = "idle" <=> task'[g].project = NoProject
           /\ disturbed' \in {disturbed, disturbed \ {task[h].project}}
           /\ task[h].alone \/ disturbed' = disturbed
           /\ ~repaired => disturbed' = disturbed
           /\ UNCHANGED deleted /\ assets \subseteq assets' => TaskInv'
<1>1. /\ pc' = [pc EXCEPT ![h] = "idle"] /\ task' = [task EXCEPT ![h] = IdleTask]
      /\ disturbed' = IF repaired /\ task[h].alone THEN disturbed \ {task[h].project}
                      ELSE disturbed
  BY DEF End
<1>2. /\ pc \in [Handlers -> Steps] /\ task \in [Handlers -> Tasks]
      /\ \A g \in Handlers : pc[g] = "idle" <=> task[g].project = NoProject
  BY StoreTypes DEF StoreInv
<1>3. /\ pc' \in [Handlers -> Steps]
      /\ \A g \in Handlers : pc'[g] = IF g = h THEN "idle" ELSE pc[g]
  BY <1>1, <1>2 DEF Steps
<1>4. /\ task' \in [Handlers -> Tasks]
      /\ \A g \in Handlers : task'[g] = IF g = h THEN IdleTask ELSE task[g]
  BY <1>1, <1>2, IdleTaskIs
<1>5. \A g \in Handlers : pc'[g] = "idle" <=> task'[g].project = NoProject
  BY <1>2, <1>3, <1>4, IdleTaskIs
<1>6. UNCHANGED deleted /\ assets \subseteq assets' => TaskInv'
  BY <1>3, <1>4 DEF StoreInv, TaskInv, Saving, Deleting
<1> QED
  BY <1>1, <1>3, <1>4, <1>5, <1>6

LEMMA StepNames ==
    /\ Saving = {"store", "mkdir", "open", "write", "lost"}
    /\ Deleting = {"forget", "list", "unlink", "rmdir_assets"}
    /\ Uploading = {"asset_dir", "asset", "image", "image_lost"}
BY DEF Saving, Deleting, Uploading

LEMMA StoreRecordInv ==
    ASSUME StoreInv, NEW h \in Handlers, StoreRecord(h)
    PROVE  StoreInv'
<1> DEFINE p == task[h].project
<1>1. /\ Step(h, "store", "mkdir") /\ pc[h] = "store"
      /\ records' = [records EXCEPT ![p] = task[h].document]
      /\ UNCHANGED <<up, dirs, files, assetDirs, assets, whole, fresh, answered, uploaded, cut, deleted>>
  BY DEF StoreRecord, Step, disk, claims
<1>2. p \in Projects /\ On(h, p) /\ up /\ task[h].document \in Documents
  BY <1>1, BusyHandler, StepNames DEF StoreInv, TaskInv
<1>3. /\ task' = task /\ disturbed' = disturbed /\ pc' \in [Handlers -> Steps]
      /\ \A g \in Handlers : pc'[g] = IF g = h THEN "mkdir" ELSE pc[g]
      /\ \A g \in Handlers : pc'[g] = "idle" <=> task'[g].project = NoProject
      /\ TaskInv'
  BY <1>1, StepKeepsTask, StepNames DEF Steps
<1>4. /\ records' \in [Projects -> Documents \cup {Missing}]
      /\ \A q \in Projects : records'[q] = IF q = p THEN task[h].document ELSE records[q]
  BY <1>1, <1>2, StoreTypes DEF StoreInv
<1>5. TypeOK'
  BY <1>1, <1>3, <1>4 DEF StoreInv, TypeOK, Steps
<1>6. Elsewhere(h, p)
  BY <1>1, <1>3, <1>4 DEF Elsewhere
<1>7. Progress(h)'
  BY <1>2, <1>3, <1>4 DEF Progress
<1>8. AloneInv' /\ ProgressInv' /\ QuietInv'
  BY <1>2, <1>3, <1>6, <1>7, GoesOn
<1>9. ContentsStand'
  BY <1>1, <1>3, AllStand
<1> QED
  BY <1>3, <1>5, <1>8, <1>9 DEF StoreInv, Sentinels

LEMMA MakeDirInv ==
    ASSUME StoreInv, NEW h \in Handlers, MakeDir(h)
    PROVE  StoreInv'
<1> DEFINE p == task[h].project
<1>1. /\ Step(h, "mkdir", "open") /\ pc[h] = "mkdir" /\ dirs' = dirs \cup {p}
      /\ UNCHANGED <<up, records, files, assetDirs, assets, whole, fresh, answered, uploaded, cut, deleted>>
  BY DEF MakeDir, Step, claims
<1>2. p \in Projects /\ On(h, p) /\ up
  BY <1>1, BusyHandler
<1>3. /\ task' = task /\ disturbed' = disturbed /\ pc' \in [Handlers -> Steps]
      /\ \A g \in Handlers : pc'[g] = IF g = h THEN "open" ELSE pc[g]
      /\ \A g \in Handlers : pc'[g] = "idle" <=> task'[g].project = NoProject
      /\ TaskInv'
  BY <1>1, StepKeepsTask, StepNames DEF Steps
<1>4. TypeOK'
  BY <1>1, <1>2, <1>3 DEF StoreInv, TypeOK, Steps
<1>5. Elsewhere(h, p)
  BY <1>1, <1>3 DEF Elsewhere
<1>6. task[h].alone => Progress(h)'
  BY <1>1, <1>2, <1>3 DEF Progress, StoreInv, ProgressInv
<1>7. AloneInv' /\ ProgressInv' /\ QuietInv'
  BY <1>2, <1>3, <1>5, <1>6, GoesOn
<1>8. ContentsStand'
  BY <1>1, <1>3, AllStand
<1> QED
  BY <1>3, <1>4, <1>7, <1>8 DEF StoreInv, Sentinels

LEMMA OpenInv ==
    ASSUME StoreInv, NEW h \in Handlers, Open(h)
    PROVE  StoreInv'
<1>1. pc[h] = "open"
  BY DEF Open, Step
<1>2. PICK p \in Projects : p = task[h].project
  BY <1>1, BusyHandler
<1>3. /\ On(h, p) /\ up
      /\ UNCHANGED <<up, records, dirs, assetDirs, assets, whole, fresh, answered, uploaded,
                     deleted>>
      /\ \/ /\ p \in dirs /\ Step(h, "open", "write")
            /\ files' = [files EXCEPT ![p] = Empty] /\ cut' = cut \ {<<p, "write">>}
         \/ p \notin dirs /\ End(h, FALSE) /\ files' = files /\ cut' = cut
  BY <1>1, <1>2, BusyHandler DEF Open, disk, claims
<1>4. CASE /\ p \in dirs /\ Step(h, "open", "write")
           /\ files' = [files EXCEPT ![p] = Empty] /\ cut' = cut \ {<<p, "write">>}
  <2>1. /\ task' = task /\ disturbed' = disturbed /\ pc' \in [Handlers -> Steps]
        /\ \A g \in Handlers : pc'[g] = IF g = h THEN "write" ELSE pc[g]
        /\ \A g \in Handlers : pc'[g] = "idle" <=> task'[g].project = NoProject
        /\ TaskInv'
    BY <1>1, <1>3, <1>4, StepKeepsTask, StepNames DEF Steps
  <2>2. /\ files' \in [Projects -> Documents \cup {Missing, Empty, Torn}]
        /\ \A q \in Projects : files'[q] = IF q = p THEN Empty ELSE files[q]
    BY <1>2, <1>3, <1>4, StoreTypes DEF StoreInv
  <2>3. TypeOK'
    BY <1>1, <1>3, <1>4, <2>1, <2>2 DEF StoreInv, TypeOK, Steps
  <2>4. Elsewhere(h, p)
    BY <1>1, <1>3, <1>4, <2>1, <2>2 DEF Elsewhere
  <2>5. task[h].alone => Progress(h)'
    BY <1>1, <1>2, <1>3, <1>4, <2>1, <2>2 DEF Progress, StoreInv, ProgressInv
  <2>6. AloneInv' /\ ProgressInv' /\ QuietInv'
    BY <1>2, <1>3, <2>1, <2>4, <2>5, GoesOn
  <2>7. ContentsStand'
    <3>1. AtWork(p, "write")'
      BY <1>2, <1>3, <2>1 DEF AtWork, On
    <3>2. ImageStands(p)'
      BY <1>1, <1>2, <1>3, <1>4, <2>1 DEF ImageStands, AtWork, StoreInv, ContentsStand
    <3>3. FileStands(p)'
      BY <3>1 DEF FileStands
    <3> QED
      BY <1>2, <1>3, <2>4, <3>2, <3>3, OthersStand
  <2> QED
    BY <2>1, <2>3, <2>6, <2>7 DEF StoreInv, Sentinels
<1>5. CASE p \notin dirs /\ End(h, FALSE) /\ files' = files /\ cut' = cut
  <2>1. /\ task' = [task EXCEPT ![h] = IdleTask] /\ task' \in [Handlers -> Tasks]
        /\ pc' \in [Handlers -> Steps]
        /\ \A g \in Handlers \ {h} : task'[g] = task[g] /\ pc'[g] = pc[g]
        /\ \A g \in Handlers : pc'[g] = "idle" <=> task'[g].project = NoProject
        /\ disturbed' = disturbed /\ TaskInv'
    BY <1>1, <1>3, <1>5, EndIdles
  <2>2. TypeOK'
    BY <1>1, <1>3, <1>5, <2>1 DEF StoreInv, TypeOK, Steps, Tasks
  <2>3. Elsewhere(h, p)
    BY <1>1, <1>3, <1>5, <2>1 DEF Elsewhere
  <2>4. ~task[h].alone
    BY <1>1, <1>2, <1>3, <1>5 DEF Progress, StoreInv, ProgressInv
  <2>5. AloneInv' /\ ProgressInv' /\ QuietInv'
    BY <1>2, <1>3, <2>1, <2>3, <2>4, Leaves
  <2>6. ContentsStand'
    BY <1>1, <1>3, <1>5, <2>1, AllStand
  <2> QED
    BY <2>1, <2>2, <2>5, <2>6 DEF StoreInv, Sentinels
<1> QED
  BY <1>1, <1>3, <1>4, <1>5

LEMMA WriteInv ==
    ASSUME StoreInv, NEW h \in Handlers, Write(h)
    PROVE  StoreInv'
<1>1. task[h].project \in Projects
  BY BusyHandler DEF Write
<1>2. PICK p \in Projects : p = task[h].project
  BY <1>1
<1> DEFINE d == task[h].document
<1>3. /\ \/ /\ pc[h] = "write"
            /\ \E text \in IF files[p] = Empty THEN {d} ELSE {d, Torn} :
                 files' = [files EXCEPT ![p] = text]
         \/ pc[h] = "lost" /\ files' = files
      /\ answered' = [answered EXCEPT ![p] = d] /\ End(h, TRUE)
      /\ UNCHANGED <<up, records, dirs, assetDirs, assets, whole, fresh, uploaded, cut, deleted>>
  BY <1>2 DEF Write
<1>4. p \in Projects /\ On(h, p) /\ up /\ d \in Documents
  BY <1>3, <1>2, BusyHandler, StepNames DEF StoreInv, TaskInv
<1>5. /\ task' = [task EXCEPT ![h] = IdleTask] /\ task' \in [Handlers -> Tasks]
      /\ pc' \in [Handlers -> Steps]
      /\ \A g \in Handlers \ {h} : task'[g] = task[g] /\ pc'[g] = pc[g]
      /\ \A g \in Handlers : pc'[g] = "idle" <=> task'[g].project = NoProject
      /\ disturbed' \in {disturbed, disturbed \ {p}}
      /\ task[h].alone \/ disturbed' = disturbed
      /\ TaskInv'
  BY <1>3, <1>2, EndIdles
<1>6. /\ answered' \in [Projects -> Documents \cup {Missing}]
      /\ \A q \in Projects : answered'[q] = IF q = p THEN d ELSE answered[q]
  BY <1>3, <1>4, StoreTypes DEF StoreInv
<1>7. /\ files' \in [Projects -> Documents \cup {Missing, Empty, Torn}]
      /\ \A q \in Projects : q # p => files'[q] = files[q]
      /\ pc[h] = "write" => files'[p] \in {d, Torn}
      /\ pc[h] = "write" /\ files[p] = Empty => files'[p] = d
      /\ pc[h] = "lost" => files' = files
  <2>1. files \in [Projects -> Documents \cup {Missing, Empty, Torn}]
    BY StoreTypes DEF StoreInv
  <2>2. CASE pc[h] = "write"
    <3>1. PICK text \in {d, Torn} :
            files' = [files EXCEPT ![p] = text] /\ (files[p] = Empty => text = d)
      BY <1>3, <2>2
    <3>2. text # Missing
      BY <1>4 DEF StoreInv, Sentinels
    <3> QED
      BY <1>4, <2>1, <2>2, <3>1, <3>2
  <2>3. CASE pc[h] = "lost"
    BY <1>3, <2>1, <2>3
  <2> QED
    BY <1>3, <2>2, <2>3
<1>8. TypeOK'
  BY <1>3, <1>5, <1>6, <1>7, StoreTypes DEF StoreInv, TypeOK, Steps, Tasks
<1>9. Elsewhere(h, p)
  BY <1>3, <1>5, <1>6, <1>7, <1>2 DEF Elsewhere
<1>10. task[h].alone => Settled(p)'
  <2> SUFFICES ASSUME task[h].alone PROVE Settled(p)'
    OBVIOUS
  <2>1. Progress(h)
    BY <1>4, <1>2 DEF StoreInv, ProgressInv
  <2>2. pc[h] = "write" /\ files[p] = Empty /\ p \in dirs /\ records[p] = d
    BY <1>3, <1>2, <2>1 DEF Progress
  <2>3. files'[p] = d /\ records'[p] = d /\ answered'[p] = d /\ d # Missing
    BY <1>3, <1>4, <1>6, <1>7, <2>2 DEF StoreInv, Sentinels
  <2> QED
    BY <2>3 DEF Settled
<1>11. AloneInv' /\ ProgressInv' /\ QuietInv'
  BY <1>4, <1>5, <1>9, <1>10, Leaves
<1>12. FileStands(p)'
  <2>1. CASE pc[h] = "write" /\ files[p] = Empty
    BY <1>6, <1>7, <2>1 DEF FileStands
  <2>2. CASE pc[h] = "write" /\ files[p] # Empty
    <3>1. ~task[h].alone
      BY <1>2, <1>4, <2>2 DEF Progress, StoreInv, ProgressInv
    <3>2. p \in disturbed /\ disturbed' = disturbed
      BY <1>4, <1>5, <3>1 DEF StoreInv, AloneInv
    <3> QED
      BY <1>6, <1>7, <2>2, <3>2 DEF FileStands
  <2>3. CASE pc[h] = "lost"
    <3>1. p \in deleted /\ files' = files /\ deleted' = deleted /\ cut' = cut
      BY <1>2, <1>3, <1>7, <2>3 DEF StoreInv, TaskInv
    <3>2. AtWork(p, "write") => AtWork(p, "write")'
      BY <1>5, <2>3 DEF AtWork
    <3>3. ~task[h].alone
      BY <1>2, <1>4, <2>3 DEF Progress, StoreInv, ProgressInv
    <3>4. disturbed' = disturbed /\ answered[p] \in Documents \cup {Missing}
      BY <1>5, <3>3, StoreTypes DEF StoreInv
    <3>5. FileStands(p)
      BY DEF StoreInv, ContentsStand
    <3> QED
      BY <3>1, <3>2, <3>4, <3>5 DEF FileStands
  <2> QED
    BY <1>3, <2>1, <2>2, <2>3
<1>13. ImageStands(p)'
  <2>1. AtWork(p, "image") => AtWork(p, "image")'
    BY <1>3, <1>5 DEF AtWork
  <2> QED
    BY <1>3, <2>1 DEF ImageStands, StoreInv, ContentsStand
<1>14. ContentsStand'
  BY <1>4, <1>9, <1>12, <1>13, OthersStand
<1> QED
  BY <1>5, <1>8, <1>11, <1>14 DEF StoreInv, Sentinels

LEMMA ForgetInv ==
    ASSUME StoreInv, NEW h \in Handlers, Forget(h)
    PROVE  StoreInv'
<1>1. pc[h] = "forget"
  BY DEF Forget, Step
<1>2. PICK p \in Projects : p = task[h].project
  BY <1>1, BusyHandler
<1>3. On(h, p) /\ up /\ UNCHANGED <<up, dirs, files, assetDirs, assets, whole, fresh, answered, uploaded, cut, deleted>>
  BY <1>1, <1>2, BusyHandler DEF Forget, disk, claims
<1>4. CASE /\ Step(h, "forget", "list")
           /\ records' = [records EXCEPT ![p] = Missing]
  <2>1. /\ task' = task /\ disturbed' = disturbed /\ pc' \in [Handlers -> Steps]
        /\ \A g \in Handlers : pc'[g] = IF g = h THEN "list" ELSE pc[g]
        /\ \A g \in Handlers : pc'[g] = "idle" <=> task'[g].project = NoProject
        /\ TaskInv'
    BY <1>3, <1>4, StepKeepsTask, StepNames DEF Steps
  <2>2. /\ records' \in [Projects -> Documents \cup {Missing}]
        /\ \A q \in Projects : records'[q] = IF q = p THEN Missing ELSE records[q]
    BY <1>4, StoreTypes DEF StoreInv
  <2>3. TypeOK'
    BY <1>3, <2>1, <2>2 DEF StoreInv, TypeOK, Steps
  <2>4. Elsewhere(h, p)
    BY <1>3, <2>1, <2>2 DEF Elsewhere
  <2>5. Progress(h)'
    BY <1>2, <2>1, <2>2 DEF Progress
  <2>6. AloneInv' /\ ProgressInv' /\ QuietInv'
    BY <1>2, <1>3, <2>1, <2>4, <2>5, GoesOn
  <2>7. ContentsStand'
    BY <1>1, <1>3, <2>1, AllStand
  <2> QED
    BY <2>1, <2>3, <2>6, <2>7 DEF StoreInv, Sentinels
<1>5. CASE records[p] = Missing /\ End(h, FALSE) /\ records' = records
  <2>1. /\ task' = [task EXCEPT ![h] = IdleTask] /\ task' \in [Handlers -> Tasks]
        /\ pc' \in [Handlers -> Steps]
        /\ \A g \in Handlers \ {h} : task'[g] = task[g] /\ pc'[g] = pc[g]
        /\ \A g \in Handlers : pc'[g] = "idle" <=> task'[g].project = NoProject
        /\ disturbed' = disturbed /\ TaskInv'
    BY <1>3, <1>5, EndIdles
  <2>2. TypeOK'
    BY <1>3, <1>5, <2>1 DEF StoreInv, TypeOK, Steps, Tasks
  <2>3. Elsewhere(h, p)
    BY <1>3, <1>5, <2>1 DEF Elsewhere
  <2>4. task[h].alone /\ p \notin disturbed' => Settled(p)'
    BY <1>1, <1>2, <1>3, <1>5, <2>1 DEF Progress, Settled, StoreInv, ProgressInv
  <2>5. AloneInv' /\ ProgressInv' /\ QuietInv'
    BY <1>3, <2>1, <2>3, <2>4, Leaves
  <2>6. ContentsStand'
    BY <1>1, <1>3, <2>1, AllStand
  <2> QED
    BY <2>1, <2>2, <2>5, <2>6 DEF StoreInv, Sentinels
<1> QED
  BY <1>2, <1>4, <1>5 DEF Forget

LEMMA ListInv ==
    ASSUME StoreInv, NEW h \in Handlers, List(h)
    PROVE  StoreInv'
<1>1. pc[h] = "list"
  BY DEF List
<1>2. PICK p \in Projects : p = task[h].project
  BY <1>1, BusyHandler
<1> DEFINE found ==
       {e \in Entries :
          \/ e = "project.json" /\ files[p] # Missing
          \/ e = "assets" /\ p \in assetDirs}
<1>3. /\ On(h, p) /\ up /\ pc' = [pc EXCEPT ![h] = "unlink"]
      /\ task' = [task EXCEPT ![h].entries = found]
      /\ UNCHANGED <<up, records, dirs, files, assetDirs, assets, whole, fresh, answered, uploaded,
                     cut, deleted, disturbed>>
  BY <1>1, <1>2, BusyHandler DEF List, disk, claims
<1>4. task \in [Handlers -> Tasks] /\ pc \in [Handlers -> Steps]
      /\ \A g \in Handlers : pc[g] = "idle" <=> task[g].project = NoProject
  BY StoreTypes DEF StoreInv
<1>5. \A t \in Tasks : /\ [t EXCEPT !.entries = found] \in Tasks
                       /\ [t EXCEPT !.entries = found].project = t.project
                       /\ [t EXCEPT !.entries = found].document = t.document
                       /\ [t EXCEPT !.entries = found].alone = t.alone
                       /\ [t EXCEPT !.entries = found].entries = found
  BY DEF Tasks
<1>6. /\ "project.json" \in found <=> files[p] # Missing
      /\ "assets" \in found <=> p \in assetDirs
  BY DEF Entries
<1> HIDE DEF found
<1>7. /\ task' \in [Handlers -> Tasks] /\ task'[h].project = p /\ task'[h].entries = found
      /\ task'[h].alone = task[h].alone /\ task'[h].document = task[h].document
      /\ \A g \in Handlers \ {h} : task'[g] = task[g]
      /\ pc' \in [Handlers -> Steps]
      /\ \A g \in Handlers : pc'[g] = IF g = h THEN "unlink" ELSE pc[g]
  <2>1. task' = [task EXCEPT ![h] = [task[h] EXCEPT !.entries = found]]
    BY <1>3
  <2> QED
    BY <1>2, <1>3, <1>4, <1>5, <2>1, StepNames DEF Steps
<1>8. \A g \in Handlers : pc'[g] = "idle" <=> task'[g].project = NoProject
  BY <1>1, <1>2, <1>4, <1>7
<1>9. TypeOK'
  BY <1>3, <1>7, <1>8 DEF StoreInv, TypeOK, Steps, Tasks
<1>10. Elsewhere(h, p)
  BY <1>3, <1>7 DEF Elsewhere
<1>11. task[h].alone => Progress(h)'
  <2> SUFFICES ASSUME task[h].alone PROVE Progress(h)'
    OBVIOUS
  <2>1. records[p] = Missing
    BY <1>1, <1>2 DEF Progress, StoreInv, ProgressInv
  <2> QED
    BY <1>3, <1>6, <1>7, <2>1 DEF Progress
<1>12. AloneInv' /\ ProgressInv' /\ QuietInv'
  BY <1>3, <1>7, <1>10, <1>11, GoesOn
<1>13. TaskInv'
  BY <1>1, <1>2, <1>3, <1>7, StepNames DEF StoreInv, TaskInv
<1>14. ContentsStand'
  BY <1>1, <1>2, <1>3, <1>7, AllStand
<1> QED
  BY <1>9, <1>12, <1>13, <1>14 DEF StoreInv, Sentinels

LEMMA UnlinkInv ==
    ASSUME StoreInv, NEW h \in Handlers, Unlink(h)
    PROVE  StoreInv'
<1>1. pc[h] = "unlink"
  BY DEF Unlink
<1>2. PICK p \in Projects : p = task[h].project
  BY <1>1, BusyHandler
<1> DEFINE left == task[h].entries \ {"project.json"}
           t == [task[h] EXCEPT !.entries = left]
<1>3. /\ task' = [task EXCEPT ![h].entries = @ \ {"project.json"}]
      /\ files' = [files EXCEPT ![p] = Missing]
      /\ cut' = cut \ {<<p, "write">>}
      /\ pc' = [g \in Handlers |->
                  IF pc[g] = "write" /\ task[g].project = p THEN "lost" ELSE pc[g]]
      /\ UNCHANGED <<up, records, dirs, assetDirs, assets, whole, fresh, answered, uploaded,
                     deleted, disturbed>>
  BY <1>2 DEF Unlink
<1>4. On(h, p) /\ up /\ p \in deleted
  BY <1>1, <1>2, BusyHandler, StepNames DEF StoreInv, TaskInv
<1>5. task \in [Handlers -> Tasks] /\ pc \in [Handlers -> Steps]
      /\ files \in [Projects -> Documents \cup {Missing, Empty, Torn}]
      /\ \A g \in Handlers : pc[g] = "idle" <=> task[g].project = NoProject
  BY StoreTypes DEF StoreInv
<1>6. /\ t \in Tasks /\ t.project = p /\ t.alone = task[h].alone
      /\ t.document = task[h].document /\ t.entries = left
  BY <1>2, <1>5 DEF Tasks
<1>7. task' = [task EXCEPT ![h] = t]
  BY <1>3, <1>5 DEF Tasks
<1> HIDE DEF t
<1>8. /\ task' \in [Handlers -> Tasks] /\ task'[h] = t
      /\ \A g \in Handlers \ {h} : task'[g] = task[g]
  BY <1>5, <1>6, <1>7
<1>9. /\ pc' \in [Handlers -> Steps] /\ pc'[h] = "unlink"
      /\ \A g \in Handlers : pc'[g] = pc[g] \/ (pc[g] = "write" /\ pc'[g] = "lost" /\ On(g, p))
  BY <1>1, <1>3, <1>5, StepNames DEF Steps, On
<1>10. \A g \in Handlers : pc'[g] = "idle" <=> task'[g].project = NoProject
  BY <1>2, <1>5, <1>6, <1>8, <1>9
<1>11. /\ files' \in [Projects -> Documents \cup {Missing, Empty, Torn}]
       /\ \A q \in Projects : files'[q] = IF q = p THEN Missing ELSE files[q]
  BY <1>3, <1>5
<1>12. TypeOK'
  BY <1>3, <1>8, <1>9, <1>10, <1>11 DEF StoreInv, TypeOK, Steps, Tasks
<1>13. Elsewhere(h, p)
  BY <1>3, <1>8, <1>9, <1>11 DEF Elsewhere, On
<1>14. task[h].alone => Progress(h)'
  <2> SUFFICES ASSUME task[h].alone PROVE Progress(h)'
    OBVIOUS
  <2>1. records[p] = Missing /\ (p \in assetDirs => "assets" \in task[h].entries)
    BY <1>1, <1>2 DEF Progress, StoreInv, ProgressInv
  <2>2. files'[p] = Missing /\ (p \in assetDirs' => "assets" \in t.entries)
    BY <1>3, <1>6, <1>11, <2>1
  <2> QED
    BY <1>3, <1>6, <1>8, <1>9, <2>1, <2>2, StepNames DEF Progress
<1>15. AloneInv' /\ ProgressInv' /\ QuietInv'
  BY <1>3, <1>4, <1>6, <1>8, <1>13, <1>14, GoesOn
<1>16. TaskInv'
  <2> SUFFICES ASSUME NEW g \in Handlers
               PROVE  /\ pc'[g] \in Saving => task'[g].document \in Documents
                      /\ pc'[g] = "image" => task'[g].project \in assets'
                      /\ pc'[g] \in Deleting \cup {"lost", "image_lost"} =>
                           task'[g].project \in deleted'
    BY DEF TaskInv
  <2>1. task'[g].document = task[g].document /\ task'[g].project = task[g].project
    BY <1>2, <1>6, <1>8
  <2>2. /\ pc[g] \in Saving => task[g].document \in Documents
        /\ pc[g] = "image" => task[g].project \in assets
        /\ pc[g] \in Deleting \cup {"lost", "image_lost"} => task[g].project \in deleted
    BY DEF StoreInv, TaskInv
  <2> QED
    BY <1>3, <1>4, <1>9, <2>1, <2>2, StepNames DEF On
<1>17. FileStands(p)' /\ ImageStands(p)'
  BY <1>3, <1>4, <1>11 DEF FileStands, ImageStands
<1>18. ContentsStand'
  BY <1>4, <1>13, <1>17, OthersStand
<1> QED
  BY <1>12, <1>15, <1>16, <1>18 DEF StoreInv, Sentinels

LEMMA UnlinkImageInv ==
    ASSUME StoreInv, NEW h \in Handlers, UnlinkImage(h)
    PROVE  StoreInv'
<1>1. pc[h] = "unlink"
  BY DEF UnlinkImage
<1>2. PICK p \in Projects : p = task[h].project
  BY <1>1, BusyHandler
<1> DEFINE left == task[h].entries \ {"assets"}
           t == [task[h] EXCEPT !.entries = left]
<1>3. /\ task' = [task EXCEPT ![h].entries = @ \ {"assets"}]
      /\ assets' = assets \ {p} /\ whole' = whole \ {p}
      /\ cut' = cut \ {<<p, "image">>}
      /\ pc' = [g \in Handlers |->
                  IF g = h THEN "rmdir_assets"
                  ELSE IF pc[g] = "image" /\ task[g].project = p THEN "image_lost"
                  ELSE pc[g]]
      /\ UNCHANGED <<up, records, dirs, files, assetDirs, fresh, answered, uploaded, deleted,
                     disturbed>>
  BY <1>2 DEF UnlinkImage
<1>4. On(h, p) /\ up /\ p \in deleted
  BY <1>1, <1>2, BusyHandler, StepNames DEF StoreInv, TaskInv
<1>5. task \in [Handlers -> Tasks] /\ pc \in [Handlers -> Steps]
      /\ \A g \in Handlers : pc[g] = "idle" <=> task[g].project = NoProject
  BY StoreTypes DEF StoreInv
<1>6. /\ t \in Tasks /\ t.project = p /\ t.alone = task[h].alone
      /\ t.document = task[h].document /\ t.entries = left
  BY <1>2, <1>5 DEF Tasks
<1>7. task' = [task EXCEPT ![h] = t]
  BY <1>3, <1>5 DEF Tasks
<1> HIDE DEF t
<1>8. /\ task' \in [Handlers -> Tasks] /\ task'[h] = t
      /\ \A g \in Handlers \ {h} : task'[g] = task[g]
  BY <1>5, <1>6, <1>7
<1>9. /\ pc' \in [Handlers -> Steps] /\ pc'[h] = "rmdir_assets"
      /\ \A g \in Handlers \ {h} :
           /\ pc'[g] = pc[g] \/ (pc[g] = "image" /\ pc'[g] = "image_lost" /\ On(g, p))
           /\ On(g, p) => pc'[g] # "image"
  BY <1>1, <1>3, <1>5, StepNames DEF Steps, On
<1>10. \A g \in Handlers : pc'[g] = "idle" <=> task'[g].project = NoProject
  <2>1. pc'[h] = "idle" <=> task'[h].project = NoProject
    BY <1>1, <1>2, <1>5, <1>6, <1>8, <1>9
  <2>2. \A g \in Handlers \ {h} : pc'[g] = "idle" <=> pc[g] = "idle"
    BY <1>9
  <2> QED
    BY <1>5, <1>8, <2>1, <2>2
<1>11. TypeOK'
  BY <1>3, <1>8, <1>9, <1>10, StoreTypes DEF StoreInv, TypeOK, Steps, Tasks
<1>12. Elsewhere(h, p)
  BY <1>3, <1>8, <1>9 DEF Elsewhere, On
<1>13. task[h].alone => Progress(h)'
  <2> SUFFICES ASSUME task[h].alone PROVE Progress(h)'
    OBVIOUS
  <2>1. records[p] = Missing /\ (files[p] # Missing => "project.json" \in task[h].entries)
    BY <1>1, <1>2 DEF Progress, StoreInv, ProgressInv
  <2>2. (files'[p] # Missing => "project.json" \in t.entries) /\ p \notin assets'
    BY <1>3, <1>6, <2>1
  <2> QED
    BY <1>3, <1>6, <1>8, <1>9, <2>1, <2>2, StepNames DEF Progress
<1>14. AloneInv' /\ ProgressInv' /\ QuietInv'
  BY <1>3, <1>4, <1>6, <1>8, <1>12, <1>13, GoesOn
<1>15. TaskInv'
  <2> SUFFICES ASSUME NEW g \in Handlers
               PROVE  /\ pc'[g] \in Saving => task'[g].document \in Documents
                      /\ pc'[g] = "image" => task'[g].project \in assets'
                      /\ pc'[g] \in Deleting \cup {"lost", "image_lost"} =>
                           task'[g].project \in deleted'
    BY DEF TaskInv
  <2>1. task'[g].document = task[g].document /\ task'[g].project = task[g].project
    BY <1>2, <1>6, <1>8
  <2>2. /\ pc[g] \in Saving => task[g].document \in Documents
        /\ pc[g] = "image" => task[g].project \in assets
        /\ pc[g] \in Deleting \cup {"lost", "image_lost"} => task[g].project \in deleted
    BY DEF StoreInv, TaskInv
  <2>3. CASE g = h
    BY <1>2, <1>3, <1>4, <1>9, <2>1, <2>3, StepNames
  <2>4. CASE g # h
    BY <1>3, <1>4, <1>9, <2>1, <2>2, <2>4, StepNames DEF On
  <2> QED
    BY <2>3, <2>4
<1>16. FileStands(p)' /\ ImageStands(p)'
  <2>1. AtWork(p, "write") => AtWork(p, "write")'
    BY <1>1, <1>8, <1>9 DEF AtWork
  <2>2. FileStands(p)
    BY DEF StoreInv, ContentsStand
  <2>3. <<p, "write">> \in cut => <<p, "write">> \in cut'
    BY <1>3
  <2> QED
    BY <1>3, <1>4, <2>1, <2>2, <2>3 DEF FileStands, ImageStands
<1>17. ContentsStand'
  BY <1>4, <1>12, <1>16, OthersStand
<1> QED
  BY <1>11, <1>14, <1>15, <1>17 DEF StoreInv, Sentinels

LEMMA RmdirAssetsInv ==
    ASSUME StoreInv, NEW h \in Handlers, RmdirAssets(h)
    PROVE  StoreInv'
<1>1. pc[h] = "rmdir_assets"
  BY DEF RmdirAssets, Step
<1>2. PICK p \in Projects : p = task[h].project
  BY <1>1, BusyHandler
<1>3. /\ On(h, p) /\ up /\ Step(h, "rmdir_assets", "unlink")
      /\ assetDirs' = IF p \in assets THEN assetDirs ELSE assetDirs \ {p}
      /\ UNCHANGED <<up, records, dirs, files, assets, whole, fresh, answered, uploaded, cut,
                     deleted>>
  BY <1>1, <1>2, BusyHandler DEF RmdirAssets, claims
<1>4. /\ task' = task /\ disturbed' = disturbed /\ pc' \in [Handlers -> Steps]
      /\ \A g \in Handlers : pc'[g] = IF g = h THEN "unlink" ELSE pc[g]
      /\ \A g \in Handlers : pc'[g] = "idle" <=> task'[g].project = NoProject
      /\ TaskInv'
  BY <1>3, StepKeepsTask, StepNames DEF Steps
<1>5. assetDirs' \subseteq dirs' /\ assets' \subseteq assetDirs'
  BY <1>3, StoreTypes DEF StoreInv
<1>6. TypeOK'
  BY <1>3, <1>4, <1>5 DEF StoreInv, TypeOK, Steps
<1>7. Elsewhere(h, p)
  BY <1>3, <1>4 DEF Elsewhere
<1>8. task[h].alone => Progress(h)'
  <2> SUFFICES ASSUME task[h].alone PROVE Progress(h)'
    OBVIOUS
  <2>1. /\ records[p] = Missing /\ p \notin assets
        /\ files[p] # Missing => "project.json" \in task[h].entries
    BY <1>1, <1>2 DEF Progress, StoreInv, ProgressInv
  <2>2. p \notin assetDirs'
    BY <1>3, <2>1
  <2> QED
    BY <1>2, <1>3, <1>4, <2>1, <2>2, StepNames DEF Progress
<1>9. AloneInv' /\ ProgressInv' /\ QuietInv'
  BY <1>2, <1>3, <1>4, <1>7, <1>8, GoesOn
<1>10. ContentsStand'
  BY <1>1, <1>3, <1>4, AllStand
<1> QED
  BY <1>4, <1>6, <1>9, <1>10 DEF StoreInv, Sentinels

LEMMA RmdirInv ==
    ASSUME StoreInv, NEW h \in Handlers, Rmdir(h)
    PROVE  StoreInv'
<1>1. pc[h] = "unlink" /\ task[h].entries = {}
  BY DEF Rmdir
<1>2. PICK p \in Projects : p = task[h].project
  BY <1>1, BusyHandler
<1>3. /\ On(h, p) /\ up /\ End(h, TRUE)
      /\ dirs' = IF files[p] = Missing /\ p \notin assetDirs THEN dirs \ {p} ELSE dirs
      /\ answered' = [answered EXCEPT ![p] = Missing]
      /\ UNCHANGED <<up, records, files, assetDirs, assets, whole, fresh, uploaded, cut, deleted>>
  BY <1>1, <1>2, BusyHandler DEF Rmdir
<1>4. /\ task' = [task EXCEPT ![h] = IdleTask] /\ task' \in [Handlers -> Tasks]
      /\ pc' \in [Handlers -> Steps]
      /\ \A g \in Handlers \ {h} : task'[g] = task[g] /\ pc'[g] = pc[g]
      /\ \A g \in Handlers : pc'[g] = "idle" <=> task'[g].project = NoProject
      /\ disturbed' \in {disturbed, disturbed \ {p}}
      /\ task[h].alone \/ disturbed' = disturbed
      /\ TaskInv'
  BY <1>2, <1>3, EndIdles
<1>5. /\ answered' \in [Projects -> Documents \cup {Missing}]
      /\ \A q \in Projects : answered'[q] = IF q = p THEN Missing ELSE answered[q]
  BY <1>3, StoreTypes DEF StoreInv
<1>6. TypeOK'
  BY <1>3, <1>4, <1>5, StoreTypes DEF StoreInv, TypeOK, Steps, Tasks
<1>7. Elsewhere(h, p)
  BY <1>3, <1>4, <1>5 DEF Elsewhere
<1>8. task[h].alone => Settled(p)'
  <2> SUFFICES ASSUME task[h].alone PROVE Settled(p)'
    OBVIOUS
  <2>1. records[p] = Missing /\ files[p] = Missing /\ p \notin assetDirs
    BY <1>1, <1>2 DEF Progress, StoreInv, ProgressInv
  <2> QED
    BY <1>3, <1>5, <2>1 DEF Settled
<1>9. AloneInv' /\ ProgressInv' /\ QuietInv'
  BY <1>3, <1>4, <1>7, <1>8, Leaves
<1>10. FileStands(p)'
  <2>1. p \in deleted /\ files' = files /\ deleted' = deleted /\ cut' = cut
    BY <1>1, <1>2, <1>3, StepNames DEF StoreInv, TaskInv
  <2>2. AtWork(p, "write") => AtWork(p, "write")'
    BY <1>1, <1>4 DEF AtWork
  <2>3. FileStands(p) /\ answered[p] \in Documents \cup {Missing}
    BY StoreTypes DEF StoreInv, ContentsStand
  <2>4. CASE task[h].alone
    BY <1>8, <2>4 DEF Settled, FileStands
  <2>5. CASE disturbed' = disturbed
    BY <2>1, <2>2, <2>3, <2>5 DEF FileStands
  <2> QED
    BY <1>4, <2>4, <2>5
<1>11. ImageStands(p)'
  <2>1. AtWork(p, "image") => AtWork(p, "image")'
    BY <1>1, <1>4 DEF AtWork
  <2> QED
    BY <1>3, <2>1 DEF ImageStands, StoreInv, ContentsStand
<1>12. ContentsStand'
  BY <1>3, <1>7, <1>10, <1>11, OthersStand
<1> QED
  BY <1>4, <1>6, <1>9, <1>12 DEF StoreInv, Sentinels

LEMMA MakeAssetDirInv ==
    ASSUME StoreInv, NEW h \in Handlers, MakeAssetDir(h)
    PROVE  StoreInv'
<1>1. pc[h] = "asset_dir"
  BY DEF MakeAssetDir, Step
<1>2. PICK p \in Projects : p = task[h].project
  BY <1>1, BusyHandler
<1>3. /\ On(h, p) /\ up /\ Step(h, "asset_dir", "asset")
      /\ dirs' = dirs \cup {p} /\ assetDirs' = assetDirs \cup {p}
      /\ UNCHANGED <<up, records, files, assets, whole, fresh, answered, uploaded, cut, deleted>>
  BY <1>1, <1>2, BusyHandler DEF MakeAssetDir, claims
<1>4. /\ task' = task /\ disturbed' = disturbed /\ pc' \in [Handlers -> Steps]
      /\ \A g \in Handlers : pc'[g] = IF g = h THEN "asset" ELSE pc[g]
      /\ \A g \in Handlers : pc'[g] = "idle" <=> task'[g].project = NoProject
      /\ TaskInv'
  BY <1>3, StepKeepsTask, StepNames DEF Steps
<1>5. TypeOK'
  BY <1>3, <1>4 DEF StoreInv, TypeOK, Steps
<1>6. Elsewhere(h, p)
  BY <1>3, <1>4 DEF Elsewhere
<1>7. task[h].alone => Progress(h)'
  <2> SUFFICES ASSUME task[h].alone PROVE Progress(h)'
    OBVIOUS
  <2>1. p \notin disturbed => Settled(p) /\ answered[p] # Missing
    BY <1>1, <1>2 DEF Progress, StoreInv, ProgressInv
  <2> QED
    BY <1>2, <1>3, <1>4, <2>1 DEF Progress, Settled
<1>8. AloneInv' /\ ProgressInv' /\ QuietInv'
  BY <1>2, <1>3, <1>4, <1>6, <1>7, GoesOn
<1>9. ContentsStand'
  BY <1>1, <1>3, <1>4, AllStand
<1> QED
  BY <1>4, <1>5, <1>8, <1>9 DEF StoreInv, Sentinels

LEMMA OpenAssetInv ==
    ASSUME StoreInv, NEW h \in Handlers, OpenAsset(h)
    PROVE  StoreInv'
<1>1. pc[h] = "asset"
  BY DEF OpenAsset, Step
<1>2. PICK p \in Projects : p = task[h].project
  BY <1>1, BusyHandler
<1>3. /\ On(h, p) /\ up
      /\ UNCHANGED <<up, records, dirs, files, assetDirs, fresh, answered, uploaded, deleted>>
  BY <1>1, <1>2, BusyHandler DEF OpenAsset, disk, claims
<1>4. CASE /\ p \in assetDirs /\ Step(h, "asset", "image")
           /\ assets' = assets \cup {p} /\ whole' = whole \ {p}
           /\ cut' = cut \ {<<p, "image">>}
  <2>1. /\ task' = task /\ disturbed' = disturbed /\ pc' \in [Handlers -> Steps]
        /\ \A g \in Handlers : pc'[g] = IF g = h THEN "image" ELSE pc[g]
        /\ \A g \in Handlers : pc'[g] = "idle" <=> task'[g].project = NoProject
        /\ TaskInv'
    BY <1>2, <1>3, <1>4, StepKeepsTask, StepNames DEF Steps
  <2>2. TypeOK'
    BY <1>3, <1>4, <2>1 DEF StoreInv, TypeOK, Steps
  <2>3. Elsewhere(h, p)
    BY <1>3, <1>4, <2>1 DEF Elsewhere
  <2>4. task[h].alone => Progress(h)'
    <3> SUFFICES ASSUME task[h].alone PROVE Progress(h)'
      OBVIOUS
    <3>1. p \notin disturbed => Settled(p) /\ answered[p] # Missing
      BY <1>1, <1>2, StepNames DEF Progress, StoreInv, ProgressInv
    <3> QED
      BY <1>2, <1>3, <2>1, <3>1 DEF Progress, Settled
  <2>5. AloneInv' /\ ProgressInv' /\ QuietInv'
    BY <1>2, <1>3, <2>1, <2>3, <2>4, GoesOn
  <2>6. FileStands(p)'
    <3>1. AtWork(p, "write") => AtWork(p, "write")'
      BY <1>1, <2>1 DEF AtWork
    <3>2. <<p, "write">> \in cut => <<p, "write">> \in cut'
      BY <1>4
    <3> QED
      BY <1>3, <2>1, <3>1, <3>2 DEF FileStands, StoreInv, ContentsStand
  <2>7. AtWork(p, "image")'
    BY <1>2, <2>1 DEF AtWork
  <2>8. ContentsStand'
    BY <1>3, <2>3, <2>6, <2>7, OthersStand DEF ImageStands
  <2> QED
    BY <2>1, <2>2, <2>5, <2>8 DEF StoreInv, Sentinels
<1>5. CASE End(h, FALSE) /\ UNCHANGED <<assets, whole, cut>>
  <2>1. /\ task' = [task EXCEPT ![h] = IdleTask] /\ task' \in [Handlers -> Tasks]
        /\ pc' \in [Handlers -> Steps]
        /\ \A g \in Handlers \ {h} : task'[g] = task[g] /\ pc'[g] = pc[g]
        /\ \A g \in Handlers : pc'[g] = "idle" <=> task'[g].project = NoProject
        /\ disturbed' = disturbed /\ TaskInv'
    BY <1>3, <1>5, EndIdles
  <2>2. TypeOK'
    BY <1>3, <1>5, <2>1 DEF StoreInv, TypeOK, Steps, Tasks
  <2>3. Elsewhere(h, p)
    BY <1>3, <1>5, <2>1 DEF Elsewhere
  <2>4. task[h].alone /\ p \notin disturbed' => Settled(p)'
    BY <1>1, <1>2, <1>3, <2>1, StepNames DEF Progress, Settled, StoreInv, ProgressInv
  <2>5. AloneInv' /\ ProgressInv' /\ QuietInv'
    BY <1>3, <2>1, <2>3, <2>4, Leaves
  <2>6. ContentsStand'
    BY <1>1, <1>3, <1>5, <2>1, AllStand
  <2> QED
    BY <2>1, <2>2, <2>5, <2>6 DEF StoreInv, Sentinels
<1> QED
  BY <1>2, <1>4, <1>5 DEF OpenAsset, disk, claims

LEMMA WriteAssetInv ==
    ASSUME StoreInv, NEW h \in Handlers, WriteAsset(h)
    PROVE  StoreInv'
<1>1. pc[h] \in {"image", "image_lost"}
  BY DEF WriteAsset
<1>2. PICK p \in Projects : p = task[h].project
  BY <1>1, BusyHandler
<1>3. /\ On(h, p) /\ up /\ End(h, FALSE)
      /\ \/ pc[h] = "image" /\ whole' = whole \cup {p}
         \/ pc[h] = "image_lost" /\ whole' = whole
      /\ uploaded' = uploaded \cup {p}
      /\ UNCHANGED <<up, records, dirs, files, assetDirs, assets, fresh, answered, cut, deleted>>
  BY <1>1, <1>2, BusyHandler DEF WriteAsset
<1>4. /\ task' = [task EXCEPT ![h] = IdleTask] /\ task' \in [Handlers -> Tasks]
      /\ pc' \in [Handlers -> Steps]
      /\ \A g \in Handlers \ {h} : task'[g] = task[g] /\ pc'[g] = pc[g]
      /\ \A g \in Handlers : pc'[g] = "idle" <=> task'[g].project = NoProject
      /\ disturbed' = disturbed /\ TaskInv'
  BY <1>3, EndIdles
<1>5. /\ pc[h] = "image" => p \in assets
      /\ pc[h] = "image_lost" => p \in deleted
  BY <1>2 DEF StoreInv, TaskInv
<1>6. whole' \subseteq assets'
  BY <1>3, <1>5, StoreTypes DEF StoreInv
<1>7. TypeOK'
  BY <1>3, <1>4, <1>6 DEF StoreInv, TypeOK, Steps, Tasks
<1>8. Elsewhere(h, p)
  BY <1>3, <1>4 DEF Elsewhere
<1>9. task[h].alone /\ p \notin disturbed' => Settled(p)'
  BY <1>1, <1>2, <1>3, <1>4, StepNames DEF Progress, Settled, StoreInv, ProgressInv
<1>10. AloneInv' /\ ProgressInv' /\ QuietInv'
  BY <1>3, <1>4, <1>8, <1>9, Leaves
<1>11. FileStands(p)'
  <2>1. AtWork(p, "write") => AtWork(p, "write")'
    BY <1>1, <1>4 DEF AtWork
  <2> QED
    BY <1>3, <1>4, <2>1 DEF FileStands, StoreInv, ContentsStand
<1>12. ImageStands(p)'
  BY <1>3, <1>5 DEF ImageStands
<1>13. ContentsStand'
  BY <1>3, <1>8, <1>11, <1>12, OthersStand
<1> QED
  BY <1>4, <1>7, <1>10, <1>13 DEF StoreInv, Sentinels

-----------------------------------------------------------------------------
LEMMA AllIdle ==
    ASSUME pc = [h \in Handlers |-> "idle"], task = [h \in Handlers |-> IdleTask], Sentinels
    PROVE  /\ pc \in [Handlers -> Steps] /\ task \in [Handlers -> Tasks]
           /\ \A h \in Handlers : pc[h] = "idle" <=> task[h].project = NoProject
           /\ AloneInv /\ ProgressInv /\ TaskInv
           /\ \A p \in Projects : ~Busy(p)
<1>1. \A h \in Handlers : pc[h] = "idle" /\ task[h].project = NoProject
  BY IdleTaskIs
<1>2. pc \in [Handlers -> Steps] /\ task \in [Handlers -> Tasks]
  BY IdleTaskIs DEF Steps
<1>3. AloneInv /\ ProgressInv /\ \A p \in Projects : ~Busy(p)
  BY <1>1 DEF AloneInv, ProgressInv, Busy, On, Sentinels
<1>4. TaskInv
  BY <1>1, StepNames DEF TaskInv
<1> QED
  BY <1>1, <1>2, <1>3, <1>4

LEMMA CrashInv ==
    ASSUME StoreInv, Crash
    PROVE  StoreInv'
<1>1. /\ up' = FALSE /\ records' = [p \in Projects |-> Missing]
      /\ pc' = [h \in Handlers |-> "idle"] /\ task' = [h \in Handlers |-> IdleTask]
      /\ disturbed' = disturbed \cup {p \in Projects : Busy(p)}
      /\ cut' = cut \cup {w \in Projects \X {"write", "image"} : AtWork(w[1], w[2])}
      /\ UNCHANGED <<dirs, files, assetDirs, assets, whole, fresh, answered, uploaded, deleted>>
  BY DEF Crash, disk, claims
<1>2. Sentinels'
  BY DEF StoreInv, Sentinels
<1>3. /\ pc' \in [Handlers -> Steps] /\ task' \in [Handlers -> Tasks]
      /\ \A h \in Handlers : pc'[h] = "idle" <=> task'[h].project = NoProject
      /\ AloneInv' /\ ProgressInv' /\ TaskInv'
  <2>1. \A h \in Handlers : pc'[h] = "idle" /\ task'[h] = IdleTask /\ task'[h].project = NoProject
    BY <1>1, IdleTaskIs
  <2>2. pc' \in [Handlers -> Steps] /\ task' \in [Handlers -> Tasks]
    BY <1>1, IdleTaskIs DEF Steps
  <2>3. AloneInv' /\ ProgressInv'
    BY <2>1, <1>2 DEF AloneInv, ProgressInv, On, Sentinels
  <2>4. TaskInv'
    BY <2>1, StepNames DEF TaskInv
  <2> QED
    BY <2>1, <2>2, <2>3, <2>4
<1>4. TypeOK'
  BY <1>1, <1>3 DEF StoreInv, TypeOK, Steps, Tasks
<1>5. QuietInv'
  <2> SUFFICES ASSUME NEW p \in Projects, p \notin disturbed' PROVE Settled(p)'
    BY DEF QuietInv
  <2>1. Settled(p)
    BY <1>1 DEF StoreInv, QuietInv
  <2> QED
    BY <1>1, <2>1 DEF Settled
<1>6. ContentsStand'
  <2> SUFFICES ASSUME NEW p \in Projects PROVE FileStands(p)' /\ ImageStands(p)'
    BY DEF ContentsStand
  <2>1. FileStands(p) /\ ImageStands(p)
    BY DEF StoreInv, ContentsStand
  <2>2. /\ AtWork(p, "write") => <<p, "write">> \in cut'
        /\ AtWork(p, "image") => <<p, "image">> \in cut'
        /\ cut \subseteq cut'
    BY <1>1
  <2>3. FileStands(p)'
    BY <1>1, <2>1, <2>2 DEF FileStands
  <2>4. ImageStands(p)'
    BY <1>1, <2>1, <2>2 DEF ImageStands
  <2> QED
    BY <2>3, <2>4
<1> QED
  BY <1>2, <1>3, <1>4, <1>5, <1>6 DEF StoreInv

LEMMA StartInv ==
    ASSUME StoreInv, Start
    PROVE  StoreInv'
<1>1. /\ ~up /\ up' = TRUE /\ records' = files
      /\ \A p \in Projects : files[p] \in Documents \cup {Missing}
      /\ UNCHANGED <<dirs, files, assetDirs, assets, whole, fresh, pc, task, answered, uploaded,
                     cut, deleted, disturbed>>
  BY DEF Start, disk, claims
<1>2. \A h \in Handlers : task[h].project \notin Projects
  BY <1>1 DEF StoreInv, AloneInv, On
<1>3. TypeOK'
  <2>1. records' \in [Projects -> Documents \cup {Missing}]
    BY <1>1, StoreTypes DEF StoreInv
  <2> QED
    BY <1>1, <2>1 DEF StoreInv, TypeOK
<1>4. AloneInv' /\ ProgressInv' /\ TaskInv'
  BY <1>1, <1>2 DEF StoreInv, AloneInv, ProgressInv, TaskInv, On
<1>5. QuietInv'
  <2> SUFFICES ASSUME NEW p \in Projects, p \notin disturbed' PROVE Settled(p)'
    BY DEF QuietInv
  <2>1. Settled(p)
    BY <1>1, <1>2 DEF StoreInv, QuietInv, Busy
  <2> QED
    BY <1>1, <2>1 DEF Settled
<1>6. ContentsStand'
  BY <1>1, AllStand
<1> QED
  BY <1>3, <1>4, <1>5, <1>6 DEF StoreInv, Sentinels

LEMMA InitStoreInv == Sentinels /\ Init => StoreInv
<1> SUFFICES ASSUME Sentinels, Init PROVE StoreInv
  OBVIOUS
<1>1. /\ pc \in [Handlers -> Steps] /\ task \in [Handlers -> Tasks]
      /\ \A h \in Handlers : pc[h] = "idle" <=> task[h].project = NoProject
      /\ AloneInv /\ ProgressInv /\ TaskInv
  BY AllIdle DEF Init
<1>2. TypeOK
  BY <1>1 DEF Init, TypeOK, Steps, Tasks
<1>3. QuietInv /\ ContentsStand
  BY DEF Init, QuietInv, Settled, ContentsStand, FileStands, ImageStands
<1> QED
  BY <1>1, <1>2, <1>3 DEF StoreInv

LEMMA NextStoreInv == StoreInv /\ [Next]_vars => StoreInv'
<1> SUFFICES ASSUME StoreInv, [Next]_vars PROVE StoreInv'
  OBVIOUS
<1>1. CASE UNCHANGED vars
  <2>1. UNCHANGED <<up, records, dirs, files, assetDirs, assets, whole, fresh, pc, task, answered,
                    uploaded, cut, deleted, disturbed>>
    BY <1>1 DEF vars, disk, claims
  <2>2. \A h : Progress(h)' <=> Progress(h)
    BY <2>1 DEF Progress, Settled
  <2> QED
    BY <2>1, <2>2 DEF StoreInv, Sentinels, TypeOK, AloneInv, ProgressInv, QuietInv,
       Settled, Busy, On, TaskInv, ContentsStand, FileStands, ImageStands, AtWork
<1>2. ASSUME NEW h \in Handlers, Request(h) \/ Handle(h) PROVE StoreInv'
  BY <1>2, RequestInv, StoreRecordInv, MakeDirInv, OpenInv, WriteInv, ForgetInv, ListInv,
     UnlinkInv, UnlinkImageInv, RmdirAssetsInv, RmdirInv, MakeAssetDirInv, OpenAssetInv,
     WriteAssetInv
     DEF Handle, Persist, Remove, Upload
<1> QED
  BY <1>1, <1>2, CrashInv, StartInv DEF Next

(* The records, the directories and the requests under way fit together.   *)
THEOREM StoreInvariant == Spec => []StoreInv
<1>1. Sentinels
  BY SentinelsHold
<1> QED
  BY <1>1, InitStoreInv, NextStoreInv, PTL DEF Spec

(* The store's variables keep their types, each directory belongs to a      *)
(* project, and an image lies in a directory (projects/store.py).           *)
THEOREM StoreTypeCorrect == Spec => []TypeOK
<1>1. StoreInv => TypeOK
  BY DEF StoreInv
<1> QED
  BY <1>1, StoreInvariant, PTL

(* What a save or a delete was answered is what the library holds, wherever *)
(* requests did not overlap or were cut short, through deaths and restarts. *)
THEOREM StoreAnswersStand == Spec => []AnswersStand
<1>1. StoreInv => AnswersStand
  BY DEF StoreInv, QuietInv, Settled, AnswersStand
<1> QED
  BY <1>1, StoreInvariant, PTL

(* The files hold the last answered save and the bytes of every answered    *)
(* upload at any moment, but for a file that is being written, that a crash *)
(* left half written, that overlapping saves tore, or that was deleted.     *)
THEOREM StoreContentsStand == Spec => []ContentsStand
<1>1. StoreInv => ContentsStand
  BY DEF StoreInv
<1> QED
  BY <1>1, StoreInvariant, PTL

-----------------------------------------------------------------------------
(* Verifying a printer.  What holds of a request depends on its own record, *)
(* on who owns its device's link and the replies that are under way on it,  *)
(* and on whether its replies came in time.                                 *)
Sessions ==
    [kind : {"none", "scan", "verify"}, device : Devices \cup {None},
     phase : {"idle", "filtered", "unfiltered", "connect", "subscribe", "ask",
              "write", "wait", "unsubscribe", "disconnect", "done"},
     started : Nat, raw : Seq(Texts), query : {"model", "firmware"}, mark : Nat,
     model : Texts \cup {None}, firmware : Texts \cup {None}, failed : BOOLEAN,
     result : {"none", "listed", "unavailable", "error", "not_found", "close_failed",
               "verified", "mismatch"}]

Opening == {"idle", "filtered", "unfiltered", "connect"}
Closing == {"unsubscribe", "disconnect"}
Engaged == {"subscribe", "ask", "write", "wait"} \cup Closing

(* A text that says nothing of a device, or that is part of its reply.      *)
Idler(text) == text \in Unasked \cup {None}
Fits(text, reply) == Idler(text) \/ <<text, reply>> \in Within

Fresh(m) ==
    m.phase \in Opening =>
      /\ m.raw = <<>> /\ m.query = "model" /\ m.mark = 0
      /\ m.model = None /\ m.firmware = None

Placed(m) ==
    /\ m.phase \in Engaged \cup {"connect"} => m.device \in Devices
    /\ m.phase \in {"ask", "write", "wait"} => ProbeProfile(m.device) \in Profiles
    /\ m.phase = "subscribe" => m.query = "model"
    /\ m.failed => m.phase \in Closing \cup {"done"}
    /\ m.result # "none" <=> m.phase = "done"
    /\ m.mark <= Len(m.raw)

(* While the model is asked for, its reply is all that may be on its way,   *)
(* and it is no longer once it was captured.                                *)
ModelAsked(r, m, owner, box) ==
    m.phase \in Engaged /\ m.query = "model" =>
      /\ m.model = None /\ m.firmware = None
      /\ \A i \in DOMAIN m.raw :
           \/ m.raw[i] \in Unasked
           \/ /\ m.raw[i] = ModelReply[m.device]
              /\ owner = r => box = <<>>
              /\ m.phase \notin {"subscribe", "ask"}
      /\ owner = r => box \in {<<>>, <<ModelReply[m.device]>>}
      /\ owner = r /\ m.phase \in {"subscribe", "ask"} => box = <<>>

(* Once a reply to the model query was seen, only the firmware's is left.   *)
FirmwareAsked(r, m, owner, box) ==
    m.phase \in Engaged /\ m.query = "firmware" =>
      /\ Fits(m.model, ModelReply[m.device])
      /\ m.phase \notin Closing => m.firmware = None
      /\ ~Idler(m.model) =>
           /\ Fits(m.firmware, FirmwareReply[m.device])
           /\ m.phase \in {"write", "wait"} =>
                \A i \in DOMAIN m.raw : i > m.mark =>
                  m.raw[i] \in Unasked \cup {FirmwareReply[m.device]}
           /\ owner = r /\ m.phase = "ask" => box = <<>>
           /\ owner = r /\ m.phase \in {"write", "wait"} =>
                box \in {<<>>, <<FirmwareReply[m.device]>>}

(* A genuine printer that answered in time has said what is expected.       *)
Punctual(r, m, missed) ==
    m.phase \in Engaged /\ Genuine(m.device) /\ r \notin missed =>
      /\ m.query = "firmware" => m.model = ModelOf[ProbeProfile(m.device)]
      /\ m.phase \in Closing /\ ~m.failed =>
           /\ m.query = "firmware"
           /\ m.firmware \in Range(FirmwareOf[ProbeProfile(m.device)])

Earned(d) ==
    \E p \in Profiles :
      /\ ServiceOf[p] \in Gatt[d]
      /\ <<ModelOf[p], ModelReply[d]>> \in Within
      /\ \E f \in Range(FirmwareOf[p]) : <<f, FirmwareReply[d]>> \in Within

Judged(r, m, missed) ==
    /\ m.result = "verified" => Earned(m.device)
    /\ m.result = "mismatch" /\ Genuine(m.device) => r \in missed

SessionOK(r, m, owner, box, missed) ==
    /\ m \in Sessions /\ Fresh(m) /\ Placed(m)
    /\ ModelAsked(r, m, owner, box) /\ FirmwareAsked(r, m, owner, box)
    /\ Punctual(r, m, missed) /\ Judged(r, m, missed)

LinkInv ==
    /\ \A d \in Devices : \A r \in Requests : link[d] = r =>
         /\ reqs[r].device = d
         /\ reqs[r].phase \in Engaged \cup {"done"}
         /\ reqs[r].phase = "done" => reqs[r].result = "close_failed"
    /\ \A d \in Devices : link[d] = None => outbox[d] = <<>>

DiscoveryInv ==
    /\ DiscoveryTypeOK /\ LinkInv
    /\ \A r \in Requests :
         SessionOK(r, reqs[r], link[reqs[r].device], outbox[reqs[r].device], late)

-----------------------------------------------------------------------------
LEMMA TextsAre ==
    /\ \A p \in Profiles : /\ ModelOf[p] \in Texts
                           /\ FirmwareOf[p] \in Seq(Texts)
                           /\ Range(FirmwareOf[p]) \subseteq Texts
    /\ \A d \in Devices : ModelReply[d] \in Texts /\ FirmwareReply[d] \in Texts
    /\ Unasked \subseteq Texts
    /\ None \notin Texts /\ None \notin Requests /\ None \notin Devices /\ None \notin Profiles
<1>1. \A p \in Profiles : Range(FirmwareOf[p]) \subseteq Texts
  BY DEF Texts
<1>2. \A p \in Profiles : FirmwareOf[p] \in Seq(Texts)
  <2> TAKE p \in Profiles
  <2>1. FirmwareOf[p] \in Seq(Range(FirmwareOf[p])) /\ Range(FirmwareOf[p]) \subseteq Texts
    BY <1>1, CatalogueAssumption
  <2> HIDE DEF Texts
  <2>2. \A i \in 1..Len(FirmwareOf[p]) : FirmwareOf[p][i] \in Texts
    BY <2>1
  <2> QED
    BY <2>1, <2>2
<1>3. /\ \A p \in Profiles : ModelOf[p] \in Texts
      /\ \A d \in Devices : ModelReply[d] \in Texts /\ FirmwareReply[d] \in Texts
      /\ Unasked \subseteq Texts
  BY DEF Texts
<1> QED
  BY <1>1, <1>2, <1>3, CatalogueAssumption

(* First picks an element of the list.                                      *)
LEMMA FirstIsThere ==
    ASSUME NEW list, NEW positions, positions \subseteq Nat, positions # {}
    PROVE  \E i \in positions : First(list, positions) = list[i]
BY LeastNumber DEF First

LEMMA ProbeProfileIs ==
    ASSUME NEW d
    PROVE  IF OfferedBy(Gatt[d]) = {} THEN ProbeProfile(d) = None
           ELSE /\ ProbeProfile(d) \in Profiles
                /\ ServiceOf[ProbeProfile(d)] \in Gatt[d]
<1> DEFINE places == {i \in DOMAIN Catalogue : Catalogue[i] \in OfferedBy(Gatt[d])}
<1>1. CASE OfferedBy(Gatt[d]) = {}
  BY <1>1 DEF ProbeProfile
<1>2. CASE OfferedBy(Gatt[d]) # {}
  <2>1. DOMAIN Catalogue \subseteq Nat
    BY CatalogueAssumption
  <2>2. places # {}
    BY <1>2 DEF OfferedBy, Profiles, Range
  <2>3. places \subseteq Nat
    BY <2>1
  <2>4. PICK i \in places : First(Catalogue, places) = Catalogue[i]
    <3> HIDE DEF places
    <3> QED
      BY <2>2, <2>3, FirstIsThere
  <2>5. ProbeProfile(d) = Catalogue[i]
    BY <1>2, <2>4 DEF ProbeProfile
  <2> QED
    BY <1>2, <2>4, <2>5 DEF OfferedBy
<1> QED
  BY <1>1, <1>2

LEMMA ChecksProfiles == \A d : ProfilesToCheck(d) \subseteq Profiles
BY DEF ProfilesToCheck, CandidateProfiles, OfferedBy

(* What is expected is looked for first; with time up anything will do.     *)
LEMMA Extracted ==
    ASSUME NEW window \in Seq(Texts), NEW expected \in Seq(Texts), NEW fallback \in BOOLEAN,
           NEW text, text = ExtractText(window, expected, fallback)
    PROVE  /\ text \in Texts \cup {None}
           /\ \/ text = None
              \/ /\ text \in Range(expected)
                 /\ \E j \in DOMAIN window : <<text, window[j]>> \in Within
              \/ fallback /\ \E j \in DOMAIN window : text = window[j]
           /\ (\E t \in Range(expected) : \E j \in DOMAIN window : <<t, window[j]>> \in Within)
                => text \in Range(expected)
<1> DEFINE found == {i \in DOMAIN expected :
                       \E j \in DOMAIN window : <<expected[i], window[j]>> \in Within}
           texts == {j \in DOMAIN window : window[j] # Blank}
<1> HIDE DEF Texts
<1>1. found \subseteq Nat /\ texts \subseteq Nat
  <2>1. DOMAIN expected = 1..Len(expected) /\ DOMAIN window = 1..Len(window)
    OBVIOUS
  <2> QED
    BY <2>1
<1>2. text = IF found # {} THEN First(expected, found)
             ELSE IF fallback /\ texts # {} THEN First(window, texts) ELSE None
  BY DEF ExtractText
<1>3. CASE found # {}
  <2>1. PICK i \in found : First(expected, found) = expected[i]
    <3> HIDE DEF found
    <3> QED
      BY <1>1, <1>3, FirstIsThere
  <2>2. text = expected[i] /\ i \in DOMAIN expected
    BY <1>2, <1>3, <2>1
  <2>3. text \in Texts
    BY <2>2
  <2>4. text \in Range(expected)
    BY <2>2 DEF Range
  <2> QED
    BY <2>1, <2>2, <2>3, <2>4
<1>4. CASE found = {}
  <2>1. ~ \E t \in Range(expected) : \E j \in DOMAIN window : <<t, window[j]>> \in Within
    BY <1>4 DEF Range
  <2>2. CASE fallback /\ texts # {}
    <3>1. PICK j \in texts : First(window, texts) = window[j]
      <4> HIDE DEF texts
      <4> QED
        BY <1>1, <2>2, FirstIsThere
    <3>2. text = window[j] /\ j \in DOMAIN window
      <4> HIDE DEF found
      <4> QED
        BY <1>2, <1>4, <2>2, <3>1
    <3>3. text \in Texts
      BY <3>2
    <3> QED
      BY <2>1, <2>2, <3>2, <3>3
  <2>3. CASE ~(fallback /\ texts # {})
    <3> HIDE DEF found, texts
    <3> QED
      BY <1>2, <1>4, <2>1, <2>3
  <2> QED
    BY <2>2, <2>3
<1> QED
  BY <1>3, <1>4

(* Nothing that a profile expects is idle or inside an unasked text.        *)
LEMMA ExpectedSaysMuch ==
    ASSUME NEW p \in Profiles
    PROVE  /\ ~Idler(ModelOf[p])
           /\ \A f \in Range(FirmwareOf[p]) : ~Idler(f)
           /\ \A t \in Unasked : <<ModelOf[p], t>> \notin Within
           /\ \A t \in Unasked : \A f \in Range(FirmwareOf[p]) : <<f, t>> \notin Within
<1>1. /\ \A t \in Unasked : <<ModelOf[p], t>> \notin Within
      /\ \A t \in Unasked : \A f \in Range(FirmwareOf[p]) : <<f, t>> \notin Within
  BY TextAssumption
<1>2. /\ \A t \in Texts : <<t, t>> \in Within
      /\ ModelOf[p] \in Texts /\ Range(FirmwareOf[p]) \subseteq Texts /\ None \notin Texts
  BY TextAssumption, TextsAre
<1> HIDE DEF Texts
<1> QED
  BY <1>1, <1>2 DEF Idler

(* The window is what was captured after the mark.                          *)
LEMMA WindowIs ==
    ASSUME NEW raw \in Seq(Texts), NEW mark \in Nat, mark <= Len(raw),
           NEW w, w = SubSeq(raw, mark + 1, Len(raw))
    PROVE  /\ w \in Seq(Texts)
           /\ \A j \in DOMAIN w : /\ mark + j \in DOMAIN raw /\ mark + j > mark
                                  /\ w[j] = raw[mark + j]
<1> HIDE DEF Texts
<1>1. Len(raw) \in Nat /\ DOMAIN raw = 1..Len(raw) /\ \A i \in DOMAIN raw : raw[i] \in Texts
  OBVIOUS
<1>2. /\ mark + 1 \in Int /\ Len(raw) \in Int
      /\ \A i \in (mark + 1)..Len(raw) : raw[i] \in Texts
  BY <1>1
<1>3. /\ w \in Seq(Texts)
      /\ Len(w) = IF mark + 1 <= Len(raw) THEN Len(raw) - (mark + 1) + 1 ELSE 0
      /\ \A i \in 1..(Len(raw) - (mark + 1) + 1) : w[i] = raw[(mark + 1) + i - 1]
  BY <1>2, SubSeqProperties
<1>4. Len(w) = Len(raw) - mark /\ DOMAIN w = 1..Len(w)
  <2> DEFINE l == Len(raw)
             k == Len(w)
  <2>1. DOMAIN w = 1..Len(w)
    BY <1>3
  <2>2. l \in Nat /\ k = IF mark + 1 <= l THEN l - (mark + 1) + 1 ELSE 0
    BY <1>1, <1>3
  <2>3. mark <= l
    OBVIOUS
  <2> HIDE DEF l, k
  <2>4. k = l - mark
    BY <2>2, <2>3
  <2> QED
    BY <2>1, <2>4 DEF l, k
<1>5. ASSUME NEW j \in 1..(Len(raw) - mark)
      PROVE  mark + j \in 1..Len(raw) /\ mark + j > mark /\ w[j] = raw[mark + j]
  <2>1. j \in 1..(Len(raw) - (mark + 1) + 1) /\ (mark + 1) + j - 1 = mark + j
    BY <1>1
  <2>2. w[j] = raw[mark + j]
    BY <1>3, <2>1
  <2> QED
    BY <1>1, <2>2
<1> QED
  BY <1>1, <1>3, <1>4, <1>5

-----------------------------------------------------------------------------
(* A session stands as long as its link and what is under way on it do.     *)
LEMMA SessionStands ==
    ASSUME NEW r, NEW m, NEW owner, NEW box, NEW missed, SessionOK(r, m, owner, box, missed),
           NEW owner2, NEW box2, NEW missed2, missed \subseteq missed2,
           m.phase \in Engaged /\ owner2 = r => owner = r /\ box2 = box
    PROVE  SessionOK(r, m, owner2, box2, missed2)
<1>1. ModelAsked(r, m, owner2, box2)
  BY DEF SessionOK, ModelAsked
<1>2. FirmwareAsked(r, m, owner2, box2)
  BY DEF SessionOK, FirmwareAsked
<1>3. Punctual(r, m, missed2) /\ Judged(r, m, missed2)
  BY DEF SessionOK, Punctual, Judged
<1> QED
  BY <1>1, <1>2, <1>3 DEF SessionOK

LEMMA DiscoveryTypes ==
    ASSUME DiscoveryTypeOK
    PROVE  /\ reqs \in [Requests -> Sessions] /\ link \in [Devices -> Requests \cup {None}]
           /\ outbox \in [Devices -> Seq(Texts)] /\ late \subseteq Requests
BY DEF DiscoveryTypeOK, Sessions

LEMMA LinkOf ==
    ASSUME DiscoveryInv, NEW d \in Devices
    PROVE  /\ \A q \in Requests : link[d] = q =>
                reqs[q].device = d /\ reqs[q].phase \in Engaged \cup {"done"}
                  /\ (reqs[q].phase = "done" => reqs[q].result = "close_failed")
           /\ link[d] = None => outbox[d] = <<>>
BY DEF DiscoveryInv, LinkInv

LEMMA SessionOf ==
    ASSUME DiscoveryInv, NEW r \in Requests
    PROVE  /\ SessionOK(r, reqs[r], link[reqs[r].device], outbox[reqs[r].device], late)
           /\ reqs[r] \in Sessions /\ Fresh(reqs[r]) /\ Placed(reqs[r])
BY DEF DiscoveryInv, SessionOK

(* A step of one request: what it must show of its session and of the link. *)
LEMMA RequestSteps ==
    ASSUME DiscoveryInv, NEW r \in Requests, NEW n, reqs' = [reqs EXCEPT ![r] = n],
           late \subseteq late', late' \subseteq Requests,
           link' \in [Devices -> Requests \cup {None}], outbox' \in [Devices -> Seq(Texts)],
           \A d \in Devices : link'[d] # r =>
             \/ link'[d] = link[d] /\ outbox'[d] = outbox[d]
             \/ link'[d] = None /\ outbox'[d] = <<>>,
           \A d \in Devices : link'[d] = r =>
             n.device = d /\ n.phase \in Engaged \cup {"done"}
               /\ (n.phase = "done" => n.result = "close_failed"),
           SessionOK(r, n, link'[n.device], outbox'[n.device], late')
    PROVE  DiscoveryInv'
<1>1. n \in Sessions /\ reqs \in [Requests -> Sessions] /\ None \notin Requests
  BY DiscoveryTypes, TextsAre DEF DiscoveryInv, SessionOK
<1>2. /\ reqs'[r] = n /\ reqs' \in [Requests -> Sessions]
      /\ \A q \in Requests : q # r => reqs'[q] = reqs[q]
  BY <1>1
<1>3. DiscoveryTypeOK'
  BY <1>2 DEF DiscoveryTypeOK, Sessions
<1>4. LinkInv'
  <2>0. \A d \in Devices :
          /\ \A q \in Requests : link[d] = q =>
                reqs[q].device = d /\ reqs[q].phase \in Engaged \cup {"done"}
                  /\ (reqs[q].phase = "done" => reqs[q].result = "close_failed")
          /\ link[d] = None => outbox[d] = <<>>
    BY LinkOf
  <2>1. \A d \in Devices : \A q \in Requests : link'[d] = q =>
          /\ reqs'[q].device = d
          /\ reqs'[q].phase \in Engaged \cup {"done"}
          /\ reqs'[q].phase = "done" => reqs'[q].result = "close_failed"
    BY <1>1, <1>2, <2>0
  <2>2. \A d \in Devices : link'[d] = None => outbox'[d] = <<>>
    BY <1>1, <2>0
  <2> QED
    BY <2>1, <2>2 DEF LinkInv
<1>5. ASSUME NEW q \in Requests
      PROVE  SessionOK(q, reqs'[q], link'[reqs'[q].device], outbox'[reqs'[q].device], late')
  <2>1. CASE q = r
    BY <1>2, <2>1
  <2>2. CASE q # r
    <3>1. SessionOK(q, reqs[q], link[reqs[q].device], outbox[reqs[q].device], late)
      BY SessionOf
    <3>2. reqs'[q] = reqs[q]
      BY <1>2, <2>2
    <3>3. reqs[q].phase \in Engaged /\ link'[reqs[q].device] = q =>
            link[reqs[q].device] = q /\ outbox'[reqs[q].device] = outbox[reqs[q].device]
      <4>1. reqs[q].phase \in Engaged => reqs[q].device \in Devices
        BY <3>1 DEF SessionOK, Placed
      <4> QED
        BY <1>1, <2>2, <4>1
    <3>4. SessionOK(q, reqs[q], link'[reqs[q].device], outbox'[reqs[q].device], late')
      BY <3>1, <3>2, <3>3, SessionStands
    <3> QED
      BY <3>2, <3>4
  <2> QED
    BY <2>1, <2>2
<1>6. (\A q \in Requests :
         SessionOK(q, reqs[q], link[reqs[q].device], outbox[reqs[q].device], late))'
  BY <1>5
<1> QED
  BY <1>3, <1>4, <1>6 DEF DiscoveryInv

(* A step of one request that does not touch the link.                      *)
LEMMA LocalSteps ==
    ASSUME DiscoveryInv, NEW r \in Requests, NEW n, reqs' = [reqs EXCEPT ![r] = n],
           late \subseteq late', late' \subseteq Requests, UNCHANGED <<link, outbox>>,
           reqs[r].phase # "done",
           reqs[r].phase \in Engaged => n.device = reqs[r].device /\ n.phase \in Engaged,
           SessionOK(r, n, link[n.device], outbox[n.device], late')
    PROVE  DiscoveryInv'
<1>1. link \in [Devices -> Requests \cup {None}] /\ outbox \in [Devices -> Seq(Texts)]
  BY DiscoveryTypes DEF DiscoveryInv
<1>2. \A d \in Devices : link[d] = r => n.device = d /\ n.phase \in Engaged
  BY LinkOf
<1>3. "done" \notin Engaged
  BY DEF Engaged, Closing
<1>4. SessionOK(r, n, link'[n.device], outbox'[n.device], late')
  OBVIOUS
<1>5. \A d \in Devices : link'[d] # r =>
        \/ link'[d] = link[d] /\ outbox'[d] = outbox[d]
        \/ link'[d] = None /\ outbox'[d] = <<>>
  OBVIOUS
<1>6. \A d \in Devices : link'[d] = r =>
        n.device = d /\ n.phase \in Engaged \cup {"done"}
          /\ (n.phase = "done" => n.result = "close_failed")
  BY <1>2, <1>3
<1>7. link' \in [Devices -> Requests \cup {None}] /\ outbox' \in [Devices -> Seq(Texts)]
  BY <1>1
<1> QED
  BY <1>4, <1>5, <1>6, <1>7, RequestSteps

-----------------------------------------------------------------------------
(* How a session changes.                                                   *)
Results == {"listed", "unavailable", "error", "not_found", "close_failed",
            "verified", "mismatch"}
Moving(m, phase) == [m EXCEPT !.phase = phase]
Failing(m, phase) == [m EXCEPT !.phase = phase, !.failed = TRUE, !.raw = <<>>, !.mark = 0]
AnswerTo(m, result) == [Idle EXCEPT !.kind = m.kind, !.device = m.device,
                                    !.phase = "done", !.result = result]

LEMMA Moved ==
    \A m \in Sessions : \A phase \in Opening \cup Engaged :
      LET n == Moving(m, phase) IN
        /\ n \in Sessions /\ n.phase = phase
        /\ n.device = m.device /\ n.started = m.started /\ n.raw = m.raw /\ n.query = m.query
        /\ n.mark = m.mark /\ n.model = m.model /\ n.firmware = m.firmware
        /\ n.failed = m.failed /\ n.result = m.result
BY DEF Moving, Sessions, Opening, Engaged, Closing

LEMMA Raised ==
    \A m \in Sessions : \A phase \in Closing :
      LET n == Failing(m, phase) IN
        /\ n \in Sessions /\ n.phase = phase
        /\ n.device = m.device /\ n.started = m.started /\ n.raw = <<>> /\ n.query = m.query
        /\ n.mark = 0 /\ n.model = m.model /\ n.firmware = m.firmware
        /\ n.failed = TRUE /\ n.result = m.result
<1> HIDE DEF Texts
<1>1. <<>> \in Seq(Texts)
  OBVIOUS
<1>2. ASSUME NEW m \in Sessions, NEW phase \in Closing
      PROVE  Failing(m, phase) \in Sessions
  BY <1>1 DEF Failing, Sessions, Closing
<1>3. ASSUME NEW m \in Sessions, NEW phase \in Closing
      PROVE  /\ Failing(m, phase).phase = phase
             /\ Failing(m, phase).device = m.device /\ Failing(m, phase).started = m.started
             /\ Failing(m, phase).raw = <<>> /\ Failing(m, phase).query = m.query
             /\ Failing(m, phase).mark = 0 /\ Failing(m, phase).model = m.model
             /\ Failing(m, phase).firmware = m.firmware
             /\ Failing(m, phase).failed = TRUE /\ Failing(m, phase).result = m.result
  BY DEF Failing, Sessions
<1> QED
  BY <1>2, <1>3

LEMMA Answered ==
    \A m \in Sessions : \A result \in Results :
      LET n == AnswerTo(m, result) IN
        /\ n \in Sessions /\ n.phase = "done" /\ n.device = m.device
        /\ n.raw = <<>> /\ n.mark = 0 /\ n.failed = FALSE /\ n.result = result
<1> HIDE DEF Texts
<1>1. <<>> \in Seq(Texts)
  OBVIOUS
<1>2. /\ Idle \in Sessions
      /\ Idle.raw = <<>> /\ Idle.mark = 0 /\ Idle.failed = FALSE
  BY <1>1 DEF Sessions, Idle
<1>4. \A k \in Sessions : \A x \in Results : [k EXCEPT !.result = x] \in Sessions
  BY DEF Sessions, Results
<1>3. ASSUME NEW m \in Sessions, NEW result \in Results
      PROVE  /\ AnswerTo(m, result) \in Sessions /\ AnswerTo(m, result).phase = "done"
             /\ AnswerTo(m, result).device = m.device
             /\ AnswerTo(m, result).raw = Idle.raw /\ AnswerTo(m, result).mark = Idle.mark
             /\ AnswerTo(m, result).failed = Idle.failed
             /\ AnswerTo(m, result).result = result
  <2>1. m.kind \in {"none", "scan", "verify"} /\ m.device \in Devices \cup {None}
    BY DEF Sessions
  <2>2. AnswerTo(m, result) \in Sessions
    <3>1. PICK n \in Sessions : n = [Idle EXCEPT !.kind = m.kind, !.device = m.device]
      BY <1>2, <2>1 DEF Sessions
    <3>2. PICK k \in Sessions : k = [n EXCEPT !.phase = "done"]
      BY DEF Sessions
    <3>3. [k EXCEPT !.result = result] \in Sessions
      BY <1>4
    <3>4. AnswerTo(m, result) = [k EXCEPT !.result = result]
      BY <3>1, <3>2 DEF AnswerTo
    <3> QED
      BY <3>3, <3>4
  <2>3. AnswerTo(m, result).phase = "done"
    BY DEF AnswerTo, Idle
  <2>7. AnswerTo(m, result).result = result
    BY <1>2 DEF AnswerTo, Sessions
  <2>4. AnswerTo(m, result).device = m.device
    BY <1>2 DEF AnswerTo, Sessions
  <2>5. AnswerTo(m, result).raw = Idle.raw /\ AnswerTo(m, result).mark = Idle.mark
    BY <1>2 DEF AnswerTo, Sessions
  <2>6. AnswerTo(m, result).failed = Idle.failed
    BY <1>2 DEF AnswerTo, Sessions
  <2> QED
    BY <2>2, <2>3, <2>4, <2>5, <2>6, <2>7
<1> QED
  BY <1>2, <1>3

(* An answer ends what there was to keep, but must be deserved.             *)
LEMMA AnswerStands ==
    ASSUME NEW r, NEW m \in Sessions, NEW result \in Results,
           NEW owner, NEW box, NEW missed,
           result = "verified" => Earned(m.device),
           result = "mismatch" /\ Genuine(m.device) => r \in missed
    PROVE  SessionOK(r, AnswerTo(m, result), owner, box, missed)
<1> DEFINE n == AnswerTo(m, result)
<1>1. /\ n \in Sessions /\ n.phase = "done" /\ n.device = m.device
      /\ n.raw = <<>> /\ n.mark = 0 /\ n.failed = FALSE /\ n.result = result
  BY Answered
<1> HIDE DEF n
<1>2. n.phase \notin Engaged \cup Opening /\ n.phase \notin {"connect", "subscribe", "ask", "write", "wait"}
  BY <1>1 DEF Engaged, Opening, Closing
<1>3. n.mark <= Len(n.raw)
  <2>1. Len(<<>>) = 0
    OBVIOUS
  <2> QED
    BY <1>1, <2>1
<1>4. Placed(n)
  BY <1>1, <1>2, <1>3 DEF Placed, Results, Engaged
<1>5. Judged(r, n, missed)
  BY <1>1 DEF Judged
<1>6. SessionOK(r, n, owner, box, missed)
  BY <1>1, <1>2, <1>4, <1>5 DEF SessionOK, Fresh, ModelAsked, FirmwareAsked, Punctual
<1> QED
  BY <1>6 DEF n

-----------------------------------------------------------------------------
(* Until the connection nothing is kept but who asked for which device.     *)
LEMMA OpensOn ==
    ASSUME DiscoveryInv, NEW r \in Requests, reqs[r].phase \in Opening,
           NEW n \in Sessions, reqs' = [reqs EXCEPT ![r] = n],
           UNCHANGED <<link, outbox, late>>,
           n.phase \in Opening, n.phase = "connect" => n.device \in Devices,
           n.raw = reqs[r].raw, n.query = reqs[r].query, n.mark = reqs[r].mark,
           n.model = reqs[r].model, n.firmware = reqs[r].firmware,
           n.failed = reqs[r].failed, n.result = reqs[r].result
    PROVE  DiscoveryInv'
<1>1. Fresh(reqs[r]) /\ Placed(reqs[r])
  BY SessionOf
<1>2. Fresh(n)
  BY <1>1 DEF Fresh
<1>3. n.phase \notin Engaged /\ reqs[r].phase \notin Engaged /\ n.phase # "done" /\ reqs[r].phase # "done"
  BY DEF Opening, Engaged, Closing
<1>4. Placed(n) /\ n.result = "none"
  <2>1. n.phase \notin {"ask", "write", "wait", "subscribe"} \cup Closing \cup {"done"}
    BY <1>3 DEF Engaged
  <2>2. reqs[r].phase \notin Closing \cup {"done"} /\ ~reqs[r].failed
    BY <1>1, <1>3 DEF Engaged, Placed
  <2>3. n.mark <= Len(n.raw) /\ reqs[r].result = "none"
    BY <1>1, <1>3 DEF Placed
  <2> QED
    BY <1>3, <2>1, <2>2, <2>3 DEF Placed, Engaged
<1>5. \A owner, box : SessionOK(r, n, owner, box, late)
  BY <1>2, <1>3, <1>4 DEF SessionOK, ModelAsked, FirmwareAsked, Punctual, Judged
<1>6. late \subseteq late' /\ late' \subseteq Requests
  BY DiscoveryTypes DEF DiscoveryInv
<1>7. SessionOK(r, n, link[n.device], outbox[n.device], late')
  BY <1>5
<1> QED
  BY <1>3, <1>6, <1>7, LocalSteps

LEMMA OpeningAnswer ==
    ASSUME DiscoveryInv, NEW r \in Requests, reqs[r].phase \in Opening,
           NEW result \in Results \ {"verified", "mismatch"}, Respond(r, result),
           UNCHANGED <<link, outbox, late>>
    PROVE  DiscoveryInv'
<1> DEFINE n == AnswerTo(reqs[r], result)
<1>1. reqs[r] \in Sessions
  BY SessionOf
<1>2. reqs' = [reqs EXCEPT ![r] = n]
  BY DEF Respond, AnswerTo, Device
<1>3. \A owner, box : SessionOK(r, n, owner, box, late)
  BY <1>1, AnswerStands
<1> HIDE DEF n
<1>4. late \subseteq late' /\ late' \subseteq Requests
  BY DiscoveryTypes DEF DiscoveryInv
<1>5. SessionOK(r, n, link[n.device], outbox[n.device], late')
  BY <1>3
<1>6. reqs[r].phase \notin Engaged /\ reqs[r].phase # "done"
  BY DEF Opening, Engaged, Closing
<1> QED
  BY <1>2, <1>4, <1>5, <1>6, LocalSteps

LEMMA OpeningMove ==
    ASSUME DiscoveryInv, NEW r \in Requests, reqs[r].phase \in Opening,
           NEW phase \in Opening, Goto(r, phase), phase = "connect" => Device(r) \in Devices,
           UNCHANGED <<link, outbox, late>>
    PROVE  DiscoveryInv'
<1> DEFINE n == Moving(reqs[r], phase)
<1>1. reqs' = [reqs EXCEPT ![r] = n]
  BY DEF Goto, Moving
<1>2. /\ n \in Sessions /\ n.phase = phase
      /\ n.device = reqs[r].device /\ n.raw = reqs[r].raw /\ n.query = reqs[r].query
      /\ n.mark = reqs[r].mark /\ n.model = reqs[r].model /\ n.firmware = reqs[r].firmware
      /\ n.failed = reqs[r].failed /\ n.result = reqs[r].result
  BY SessionOf, Moved
<1> HIDE DEF n
<1> QED
  BY <1>1, <1>2, OpensOn DEF Device

LEMMA ScanPrintersStep ==
    ASSUME DiscoveryInv, NEW r \in Requests, ScanPrinters(r)
    PROVE  DiscoveryInv'
<1>1. PICK n : n = [reqs[r] EXCEPT !.kind = "scan", !.phase = "filtered"]
  OBVIOUS
<1>2. reqs' = [reqs EXCEPT ![r] = n] /\ UNCHANGED <<link, outbox, late>> /\ reqs[r].phase = "idle"
  BY <1>1 DEF ScanPrinters, At
<1>3. reqs[r] \in Sessions
  BY SessionOf
<1>4. n \in Sessions
  BY <1>1, <1>3 DEF Sessions
<1>5. /\ n.phase = "filtered" /\ n.raw = reqs[r].raw /\ n.query = reqs[r].query
      /\ n.mark = reqs[r].mark /\ n.model = reqs[r].model /\ n.firmware = reqs[r].firmware
      /\ n.failed = reqs[r].failed /\ n.result = reqs[r].result
  BY <1>1, <1>3 DEF Sessions
<1>6. reqs[r].phase \in Opening /\ n.phase \in Opening /\ n.phase # "connect"
  BY <1>2, <1>5 DEF Opening
<1> QED
  BY <1>2, <1>4, <1>5, <1>6, OpensOn

LEMMA ReadOnlyVerifyStep ==
    ASSUME DiscoveryInv, NEW r \in Requests, NEW d \in Devices, ReadOnlyVerify(r, d)
    PROVE  DiscoveryInv'
<1>1. PICK n : n = [reqs[r] EXCEPT !.kind = "verify", !.device = d, !.phase = "filtered"]
  OBVIOUS
<1>2. reqs' = [reqs EXCEPT ![r] = n] /\ UNCHANGED <<link, outbox, late>> /\ reqs[r].phase = "idle"
  BY <1>1 DEF ReadOnlyVerify, At
<1>3. reqs[r] \in Sessions
  BY SessionOf
<1>4. n \in Sessions
  BY <1>1, <1>3 DEF Sessions
<1>5. /\ n.phase = "filtered" /\ n.raw = reqs[r].raw /\ n.query = reqs[r].query
      /\ n.mark = reqs[r].mark /\ n.model = reqs[r].model /\ n.firmware = reqs[r].firmware
      /\ n.failed = reqs[r].failed /\ n.result = reqs[r].result
  BY <1>1, <1>3 DEF Sessions
<1>6. reqs[r].phase \in Opening /\ n.phase \in Opening /\ n.phase # "connect"
  BY <1>2, <1>5 DEF Opening
<1> QED
  BY <1>2, <1>4, <1>5, <1>6, OpensOn

LEMMA ScannedStep ==
    ASSUME DiscoveryInv, NEW r \in Requests, reqs[r].phase \in Opening,
           NEW seen \in SUBSET Devices, Scanned(r, seen), UNCHANGED <<link, outbox, late>>
    PROVE  DiscoveryInv'
<1>1. CASE reqs[r].kind = "scan"
  BY <1>1, OpeningAnswer DEF Scanned, Results
<1>2. CASE reqs[r].kind # "scan" /\ Device(r) \in seen
  <2>1. Goto(r, "connect") /\ Device(r) \in Devices /\ "connect" \in Opening
    BY <1>2 DEF Scanned, Opening
  <2> QED
    BY <2>1, OpeningMove
<1>3. CASE reqs[r].kind # "scan" /\ Device(r) \notin seen
  BY <1>3, OpeningAnswer DEF Scanned, Results
<1> QED
  BY <1>1, <1>2, <1>3

LEMMA ScanFilteredStep ==
    ASSUME DiscoveryInv, NEW r \in Requests, ScanFiltered(r)
    PROVE  DiscoveryInv'
<1>1. reqs[r].phase \in Opening /\ UNCHANGED <<link, outbox, late>> /\ "unfiltered" \in Opening
  BY DEF ScanFiltered, At, Opening
<1>2. \/ \E seen \in SUBSET Devices : Goto(r, "unfiltered") \/ Scanned(r, seen)
      \/ Respond(r, "unavailable") \/ Respond(r, "error")
  BY DEF ScanFiltered
<1>3. CASE Goto(r, "unfiltered")
  BY <1>1, <1>3, OpeningMove
<1>4. CASE \E seen \in SUBSET Devices : Scanned(r, seen)
  BY <1>1, <1>4, ScannedStep
<1>5. CASE Respond(r, "unavailable") \/ Respond(r, "error")
  BY <1>1, <1>5, OpeningAnswer DEF Results
<1> QED
  BY <1>2, <1>3, <1>4, <1>5

LEMMA ScanUnfilteredStep ==
    ASSUME DiscoveryInv, NEW r \in Requests, ScanUnfiltered(r)
    PROVE  DiscoveryInv'
<1>1. reqs[r].phase \in Opening /\ UNCHANGED <<link, outbox, late>>
  BY DEF ScanUnfiltered, At, Opening
<1>2. CASE \E seen \in SUBSET Devices : Scanned(r, seen)
  BY <1>1, <1>2, ScannedStep
<1>3. CASE Respond(r, "unavailable") \/ Respond(r, "error")
  BY <1>1, <1>3, OpeningAnswer DEF Results
<1> QED
  BY <1>2, <1>3 DEF ScanUnfiltered

LEMMA ConnectStep ==
    ASSUME DiscoveryInv, NEW r \in Requests, Connect(r)
    PROVE  DiscoveryInv'
<1>1. reqs[r].phase = "connect" /\ reqs[r].phase \in Opening /\ UNCHANGED <<outbox, late>>
  BY DEF Connect, At, Opening
<1>2. CASE Respond(r, "error") /\ UNCHANGED link
  BY <1>1, <1>2, OpeningAnswer DEF Results
<1>3. CASE /\ link[Device(r)] = None /\ Goto(r, "subscribe")
           /\ link' = [link EXCEPT ![Device(r)] = r]
  <2> DEFINE d == reqs[r].device
             n == Moving(reqs[r], "subscribe")
  <2>1. reqs' = [reqs EXCEPT ![r] = n]
    BY <1>3 DEF Goto, Moving
  <2>2. Fresh(reqs[r]) /\ Placed(reqs[r]) /\ reqs[r] \in Sessions
    BY SessionOf
  <2>3. /\ n \in Sessions /\ n.phase = "subscribe"
        /\ n.device = d /\ n.raw = reqs[r].raw /\ n.query = reqs[r].query
        /\ n.mark = reqs[r].mark /\ n.model = reqs[r].model /\ n.firmware = reqs[r].firmware
        /\ n.failed = reqs[r].failed /\ n.result = reqs[r].result
    <3>1. "subscribe" \in Opening \cup Engaged
      BY DEF Engaged
    <3> QED
      BY <2>2, <3>1, Moved
  <2> HIDE DEF n
  <2>4. n.raw = <<>> /\ n.query = "model" /\ n.mark = 0 /\ n.model = None /\ n.firmware = None
    BY <1>1, <2>2, <2>3 DEF Fresh
  <2>5. d \in Devices /\ ~n.failed /\ n.result = "none" /\ n.mark <= Len(n.raw)
    BY <1>1, <2>2, <2>3 DEF Placed, Closing
  <2>6. outbox[d] = <<>> /\ link[d] = None /\ link'[d] = r
        /\ \A c \in Devices : c # d => link'[c] = link[c]
    <3>1. link[d] = None /\ link' = [link EXCEPT ![d] = r]
      BY <1>3 DEF Device
    <3>2. link \in [Devices -> Requests \cup {None}]
      BY DiscoveryTypes DEF DiscoveryInv
    <3> QED
      BY <2>5, <3>1, <3>2, LinkOf
  <2>7. SessionOK(r, n, link'[n.device], outbox'[n.device], late')
    <3>1. Fresh(n) /\ Placed(n)
      BY <2>3, <2>4, <2>5 DEF Fresh, Placed, Opening, Closing, Engaged
    <3>2. \A owner : ModelAsked(r, n, owner, <<>>)
      BY <2>4 DEF ModelAsked
    <3>3. \A owner : FirmwareAsked(r, n, owner, <<>>)
      BY <2>4 DEF FirmwareAsked
    <3>4. Punctual(r, n, late') /\ Judged(r, n, late')
      BY <2>3, <2>4, <2>5 DEF Punctual, Judged, Closing
    <3>5. outbox'[n.device] = <<>>
      BY <1>1, <2>3, <2>6
    <3> QED
      BY <2>3, <3>1, <3>2, <3>3, <3>4, <3>5 DEF SessionOK
  <2>8. /\ late \subseteq late' /\ late' \subseteq Requests
        /\ link' \in [Devices -> Requests \cup {None}] /\ outbox' \in [Devices -> Seq(Texts)]
    <3>1. link \in [Devices -> Requests \cup {None}] /\ outbox \in [Devices -> Seq(Texts)]
          /\ late \subseteq Requests
      BY DiscoveryTypes DEF DiscoveryInv
    <3>2. link' = [link EXCEPT ![d] = r]
      BY <1>3 DEF Device
    <3> QED
      BY <1>1, <3>1, <3>2
  <2>9. /\ \A c \in Devices : link'[c] # r => link'[c] = link[c] /\ outbox'[c] = outbox[c]
        /\ \A c \in Devices : link'[c] = r => c = d
    <3>1. \A c \in Devices : link[c] = r => c = d
      BY LinkOf
    <3> QED
      BY <1>1, <2>6, <3>1
  <2>10. \A c \in Devices : link'[c] = r =>
           n.device = c /\ n.phase \in Engaged \cup {"done"}
             /\ (n.phase = "done" => n.result = "close_failed")
    BY <2>3, <2>9 DEF Engaged
  <2>11. \A c \in Devices : link'[c] # r =>
           \/ link'[c] = link[c] /\ outbox'[c] = outbox[c]
           \/ link'[c] = None /\ outbox'[c] = <<>>
    BY <2>9
  <2> QED
    BY <2>1, <2>7, <2>8, <2>10, <2>11, RequestSteps
<1> QED
  BY <1>2, <1>3 DEF Connect

-----------------------------------------------------------------------------
(* A request that stays connected.                                          *)
LEMMA StaysOpen ==
    ASSUME DiscoveryInv, NEW r \in Requests, reqs[r].phase \in Engaged,
           NEW n, reqs' = [reqs EXCEPT ![r] = n], UNCHANGED <<link, outbox, late>>,
           n.device = reqs[r].device, n.phase \in Engaged,
           SessionOK(r, n, link[reqs[r].device], outbox[reqs[r].device], late)
    PROVE  DiscoveryInv'
<1>1. late \subseteq late' /\ late' \subseteq Requests
  BY DiscoveryTypes DEF DiscoveryInv
<1>2. reqs[r].phase # "done"
  BY DEF Engaged, Closing
<1>3. SessionOK(r, n, link[n.device], outbox[n.device], late')
  OBVIOUS
<1> QED
  BY <1>1, <1>2, <1>3, LocalSteps

(* An open session has no answer, and its request a device.                 *)
LEMMA OpenSession ==
    ASSUME DiscoveryInv, NEW r \in Requests, reqs[r].phase \in Engaged
    PROVE  /\ reqs[r].phase \notin Opening \cup {"done"} /\ reqs[r].result = "none"
           /\ reqs[r].device \in Devices /\ reqs[r].mark <= Len(reqs[r].raw)
<1>1. Placed(reqs[r])
  BY SessionOf
<1> QED
  BY <1>1 DEF Placed, Engaged, Closing, Opening

LEMMA RaiseStep ==
    ASSUME DiscoveryInv, NEW r \in Requests, reqs[r].phase \in Engaged,
           NEW phase \in Closing, Raise(r, phase), UNCHANGED <<link, outbox, late>>
    PROVE  DiscoveryInv'
<1> DEFINE m == reqs[r]
           n == Failing(reqs[r], phase)
           owner == link[reqs[r].device]
           box == outbox[reqs[r].device]
<1>1. reqs' = [reqs EXCEPT ![r] = n]
  BY DEF Raise, Failing
<1>2. /\ n \in Sessions /\ n.phase = phase
      /\ n.device = m.device /\ n.raw = <<>> /\ n.query = m.query
      /\ n.mark = 0 /\ n.model = m.model /\ n.firmware = m.firmware
      /\ n.failed = TRUE /\ n.result = m.result
  BY SessionOf, Raised
<1>3. /\ m.phase \in Engaged /\ m.result = "none" /\ m.device \in Devices
      /\ SessionOK(r, m, owner, box, late)
  BY OpenSession, SessionOf
<1> HIDE DEF m, n, owner, box
<1>4. n.phase \in Closing /\ n.phase \in Engaged /\ n.phase \notin Opening \cup {"done"}
      /\ n.phase \notin {"connect", "subscribe", "ask", "write", "wait"}
  BY <1>2 DEF Engaged, Closing, Opening
<1>5. Fresh(n) /\ Placed(n)
  <2>1. Len(<<>>) = 0
    OBVIOUS
  <2> QED
    BY <1>2, <1>3, <1>4, <2>1 DEF Fresh, Placed
<1>6. ModelAsked(r, n, owner, box)
  BY <1>2, <1>3, <1>4 DEF SessionOK, ModelAsked
<1>7. FirmwareAsked(r, n, owner, box)
  BY <1>2, <1>3, <1>4 DEF SessionOK, FirmwareAsked
<1>8. Punctual(r, n, late) /\ Judged(r, n, late)
  BY <1>2, <1>3, <1>4 DEF SessionOK, Punctual, Judged
<1>9. SessionOK(r, n, owner, box, late)
  BY <1>2, <1>5, <1>6, <1>7, <1>8 DEF SessionOK
<1> QED
  BY <1>1, <1>2, <1>3, <1>4, <1>9, StaysOpen DEF m, owner, box

(* A session whose phase moves keeps what depends on nothing else.          *)
LEMMA MoveStep ==
    ASSUME DiscoveryInv, NEW r \in Requests, reqs[r].phase \in Engaged,
           NEW phase \in Engaged, Goto(r, phase), UNCHANGED <<link, outbox, late>>,
           phase \in {"ask", "write", "wait"} => ProbeProfile(reqs[r].device) \in Profiles,
           <<reqs[r].phase, phase>> \in {<<"subscribe", "ask">>, <<"subscribe", "unsubscribe">>,
                                         <<"write", "wait">>, <<"unsubscribe", "disconnect">>},
           reqs[r].phase = "subscribe" /\ phase = "unsubscribe" => ~Genuine(reqs[r].device)
    PROVE  DiscoveryInv'
<1> DEFINE m == reqs[r]
           n == Moving(reqs[r], phase)
           owner == link[reqs[r].device]
           box == outbox[reqs[r].device]
<1>1. reqs' = [reqs EXCEPT ![r] = n]
  BY DEF Goto, Moving
<1>2. /\ n \in Sessions /\ n.phase = phase
      /\ n.device = m.device /\ n.raw = m.raw /\ n.query = m.query
      /\ n.mark = m.mark /\ n.model = m.model /\ n.firmware = m.firmware
      /\ n.failed = m.failed /\ n.result = m.result
  BY SessionOf, Moved
<1>3. /\ m.phase \in Engaged /\ m.result = "none" /\ m.device \in Devices /\ m.mark <= Len(m.raw)
      /\ SessionOK(r, m, owner, box, late) /\ Placed(m)
  BY OpenSession, SessionOf
<1>4. /\ \/ m.phase = "subscribe" /\ n.phase \in {"ask", "unsubscribe"}
         \/ m.phase = "write" /\ n.phase = "wait"
         \/ m.phase = "unsubscribe" /\ n.phase = "disconnect"
      /\ m.phase = "subscribe" /\ n.phase = "unsubscribe" => ~Genuine(m.device)
      /\ n.phase \in {"ask", "write", "wait"} => ProbeProfile(m.device) \in Profiles
  BY <1>2
<1> HIDE DEF m, n, owner, box
<1>5. Fresh(n) /\ Placed(n)
  <2>1. m.failed => n.phase \in Closing
    BY <1>3, <1>4 DEF Placed, Closing
  <2> QED
    BY <1>2, <1>3, <1>4, <2>1 DEF Fresh, Placed, Opening
<1>6. ModelAsked(r, n, owner, box)
  BY <1>2, <1>3, <1>4 DEF SessionOK, ModelAsked
<1>7. FirmwareAsked(r, n, owner, box)
  BY <1>2, <1>3, <1>4 DEF SessionOK, FirmwareAsked, Placed, Closing
<1>8. Punctual(r, n, late) /\ Judged(r, n, late)
  BY <1>2, <1>3, <1>4 DEF SessionOK, Punctual, Judged, Closing
<1>9. SessionOK(r, n, owner, box, late)
  BY <1>2, <1>5, <1>6, <1>7, <1>8 DEF SessionOK
<1> QED
  BY <1>1, <1>2, <1>3, <1>9, StaysOpen DEF m, owner, box

(* Counting the subscriptions changes nothing that an answer rests on.      *)
LEMMA CountStep ==
    ASSUME DiscoveryInv, NEW r \in Requests, reqs[r].phase \in Engaged,
           NEW k \in Nat, reqs' = [reqs EXCEPT ![r].started = k],
           UNCHANGED <<link, outbox, late>>
    PROVE  DiscoveryInv'
<1> DEFINE m == reqs[r]
           owner == link[reqs[r].device]
           box == outbox[reqs[r].device]
<1>1. PICK n : n = [reqs[r] EXCEPT !.started = k]
  OBVIOUS
<1>2. reqs' = [reqs EXCEPT ![r] = n]
  BY <1>1
<1>3. m \in Sessions /\ m.phase \in Engaged /\ SessionOK(r, m, owner, box, late)
  BY SessionOf
<1>4. n \in Sessions
  BY <1>1, <1>3 DEF Sessions
<1>5. /\ n.phase = m.phase /\ n.device = m.device /\ n.raw = m.raw /\ n.query = m.query
      /\ n.mark = m.mark /\ n.model = m.model /\ n.firmware = m.firmware
      /\ n.failed = m.failed /\ n.result = m.result
  BY <1>1, <1>3 DEF Sessions
<1> HIDE DEF m, owner, box
<1>6. Fresh(n) /\ Placed(n)
  BY <1>3, <1>5 DEF SessionOK, Fresh, Placed
<1>7. ModelAsked(r, n, owner, box)
  BY <1>3, <1>5 DEF SessionOK, ModelAsked
<1>8. FirmwareAsked(r, n, owner, box)
  BY <1>3, <1>5 DEF SessionOK, FirmwareAsked
<1>9. Punctual(r, n, late) /\ Judged(r, n, late)
  BY <1>3, <1>5 DEF SessionOK, Punctual, Judged
<1>10. SessionOK(r, n, owner, box, late)
  BY <1>4, <1>6, <1>7, <1>8, <1>9 DEF SessionOK
<1> QED
  BY <1>2, <1>3, <1>5, <1>10, StaysOpen DEF m, owner, box

LEMMA SubscribeStep ==
    ASSUME DiscoveryInv, NEW r \in Requests, Subscribe(r)
    PROVE  DiscoveryInv'
<1>1. reqs[r].phase \in Engaged /\ UNCHANGED <<link, outbox, late>> /\ "unsubscribe" \in Closing
  BY DEF Subscribe, At, Engaged, Closing
<1>2. reqs[r].started + 1 \in Nat
  BY SessionOf DEF Sessions
<1>3. CASE reqs' = [reqs EXCEPT ![r].started = @ + 1]
  BY <1>1, <1>2, <1>3, CountStep
<1>4. CASE Raise(r, "unsubscribe")
  BY <1>1, <1>4, RaiseStep
<1> QED
  BY <1>3, <1>4 DEF Subscribe

LEMMA BeginProbeStep ==
    ASSUME DiscoveryInv, NEW r \in Requests, BeginProbe(r)
    PROVE  DiscoveryInv'
<1>1. /\ reqs[r].phase = "subscribe" /\ reqs[r].phase \in Engaged
      /\ UNCHANGED <<link, outbox, late>> /\ {"ask", "unsubscribe"} \subseteq Engaged
  BY DEF BeginProbe, At, Engaged, Closing
<1>2. Genuine(reqs[r].device) =>
        ProbeProfile(reqs[r].device) # None /\ Writable[reqs[r].device]
  BY ProbeProfileIs, TextsAre DEF Genuine
<1>3. ProbeProfile(reqs[r].device) # None => ProbeProfile(reqs[r].device) \in Profiles
  BY ProbeProfileIs
<1>4. CASE ProbeProfile(reqs[r].device) # None /\ Writable[reqs[r].device]
  <2>1. Goto(r, "ask")
    BY <1>4 DEF BeginProbe, Device
  <2> QED
    BY <1>1, <1>3, <1>4, <2>1, MoveStep
<1>5. CASE ~(ProbeProfile(reqs[r].device) # None /\ Writable[reqs[r].device])
  <2>1. Goto(r, "unsubscribe")
    BY <1>5 DEF BeginProbe, Device
  <2> QED
    BY <1>1, <1>2, <1>5, <2>1, MoveStep
<1> QED
  BY <1>4, <1>5

LEMMA WrittenStep ==
    ASSUME DiscoveryInv, NEW r \in Requests, Written(r)
    PROVE  DiscoveryInv'
<1>1. /\ reqs[r].phase = "write" /\ reqs[r].phase \in Engaged /\ UNCHANGED <<link, outbox, late>>
      /\ "wait" \in Engaged /\ "unsubscribe" \in Closing
  BY DEF Written, At, Engaged, Closing
<1>2. ProbeProfile(reqs[r].device) \in Profiles
  BY <1>1, SessionOf DEF Placed
<1>3. CASE Goto(r, "wait")
  BY <1>1, <1>2, <1>3, MoveStep
<1>4. CASE Raise(r, "unsubscribe")
  BY <1>1, <1>4, RaiseStep
<1> QED
  BY <1>3, <1>4 DEF Written

LEMMA UnsubscribeStep ==
    ASSUME DiscoveryInv, NEW r \in Requests, Unsubscribe(r)
    PROVE  DiscoveryInv'
<1>1. /\ reqs[r].phase = "unsubscribe" /\ reqs[r].phase \in Engaged
      /\ UNCHANGED <<link, outbox, late>>
      /\ "disconnect" \in Engaged /\ "disconnect" \in Closing
  BY DEF Unsubscribe, At, Engaged, Closing
<1>2. reqs[r].started \in Nat
  BY SessionOf DEF Sessions
<1>3. CASE Goto(r, "disconnect")
  BY <1>1, <1>3, MoveStep
<1>4. CASE reqs[r].started # 0 /\ reqs' = [reqs EXCEPT ![r].started = @ - 1]
  <2>1. reqs[r].started - 1 \in Nat
    BY <1>2, <1>4
  <2> QED
    BY <1>1, <1>4, <2>1, CountStep
<1>5. CASE Raise(r, "disconnect")
  BY <1>1, <1>5, RaiseStep
<1> QED
  BY <1>3, <1>4, <1>5 DEF Unsubscribe

-----------------------------------------------------------------------------
(* What a query brought: nothing, what is expected, or a text that came.    *)
LEMMA Heard ==
    ASSUME DiscoveryInv, NEW r \in Requests, reqs[r].phase = "wait",
           NEW fallback \in BOOLEAN,
           NEW text, text = ExtractText(Window(r), Expected(reqs[r].query, Device(r)), fallback)
    PROVE  LET d == reqs[r].device IN
           /\ text \in Texts \cup {None}
           /\ reqs[r].query = "model" =>
                /\ Fits(text, ModelReply[d])
                /\ ~Idler(text) /\ link[d] = r => outbox[d] = <<>>
           /\ reqs[r].query = "firmware" /\ ~Idler(reqs[r].model) => Fits(text, FirmwareReply[d])
           /\ text # None /\ ~fallback => text \in Range(Expected(reqs[r].query, d))
           /\ Genuine(d) /\ Reply(reqs[r].query, d) \in Range(Window(r)) =>
                text \in Range(Expected(reqs[r].query, d))
<1> DEFINE m == reqs[r]
           d == reqs[r].device
           w == Window(r)
           e == Expected(reqs[r].query, reqs[r].device)
           pp == ProbeProfile(reqs[r].device)
<1>1. /\ m \in Sessions /\ m.mark <= Len(m.raw) /\ d \in Devices /\ pp \in Profiles
      /\ ModelAsked(r, m, link[d], outbox[d]) /\ FirmwareAsked(r, m, link[d], outbox[d])
  BY SessionOf DEF SessionOK, Placed, Engaged
<1>2. /\ w \in Seq(Texts)
      /\ \A j \in DOMAIN w : /\ m.mark + j \in DOMAIN m.raw /\ m.mark + j > m.mark
                             /\ w[j] = m.raw[m.mark + j]
  <2>1. m.raw \in Seq(Texts) /\ m.mark \in Nat
    BY <1>1 DEF Sessions
  <2>2. w = SubSeq(m.raw, m.mark + 1, Len(m.raw))
    BY DEF Window
  <2> QED
    BY <1>1, <2>1, <2>2, WindowIs
<1>3. /\ e \in Seq(Texts) /\ m.query \in {"model", "firmware"}
      /\ m.query = "model" => Range(e) = {ModelOf[pp]}
      /\ m.query = "firmware" => Range(e) = Range(FirmwareOf[pp])
  <2>1. m.query \in {"model", "firmware"}
    BY <1>1 DEF Sessions
  <2>2. CASE m.query = "model"
    <3>1. e = <<ModelOf[pp]>> /\ ModelOf[pp] \in Texts
      BY <1>1, <2>2, TextsAre DEF Expected
    <3>2. <<ModelOf[pp]>> \in Seq(Texts) /\ Range(<<ModelOf[pp]>>) = {ModelOf[pp]}
      BY <3>1 DEF Range
    <3> QED
      BY <2>2, <3>1, <3>2
  <2>3. CASE m.query = "firmware"
    <3>1. e = FirmwareOf[pp]
      BY <2>3 DEF Expected
    <3> QED
      BY <1>1, <2>3, <3>1, TextsAre
  <2> QED
    BY <2>1, <2>2, <2>3
<1>4. /\ text \in Texts \cup {None}
      /\ \/ text = None
         \/ /\ text \in Range(e)
            /\ \E j \in DOMAIN w : <<text, w[j]>> \in Within
         \/ fallback /\ \E j \in DOMAIN w : text = w[j]
      /\ (\E t \in Range(e) : \E j \in DOMAIN w : <<t, w[j]>> \in Within) => text \in Range(e)
  <2>1. text = ExtractText(w, e, fallback)
    BY DEF Device
  <2> HIDE DEF w, e
  <2> QED
    BY <1>2, <1>3, <2>1, Extracted
<1>5. \A t \in Range(e) : ~Idler(t) /\ \A u \in Unasked : <<t, u>> \notin Within
  BY <1>1, <1>3, ExpectedSaysMuch
<1>6. ModelReply[d] \in Texts /\ FirmwareReply[d] \in Texts /\ \A t \in Texts : <<t, t>> \in Within
  BY <1>1, TextsAre, TextAssumption
<1>7. "wait" \in Engaged /\ "wait" \notin Closing
  BY DEF Engaged, Closing
<1>8. ASSUME m.query = "model"
      PROVE  Fits(text, ModelReply[d]) /\ (~Idler(text) /\ link[d] = r => outbox[d] = <<>>)
  <2>1. \A j \in DOMAIN w :
          \/ w[j] \in Unasked
          \/ w[j] = ModelReply[d] /\ (link[d] = r => outbox[d] = <<>>)
    BY <1>1, <1>2, <1>7, <1>8 DEF ModelAsked
  <2> HIDE DEF m, d, w, e, pp
  <2>2. CASE text = None
    BY <2>2 DEF Fits, Idler
  <2>3. CASE text \in Range(e) /\ \E j \in DOMAIN w : <<text, w[j]>> \in Within
    BY <1>5, <2>1, <2>3 DEF Fits
  <2>4. CASE \E j \in DOMAIN w : text = w[j]
    BY <1>6, <2>1, <2>4 DEF Fits, Idler
  <2> QED
    BY <1>4, <2>2, <2>3, <2>4
<1>9. ASSUME m.query = "firmware", ~Idler(m.model)
      PROVE  Fits(text, FirmwareReply[d])
  <2>1. \A j \in DOMAIN w : w[j] \in Unasked \/ w[j] = FirmwareReply[d]
    BY <1>1, <1>2, <1>7, <1>9 DEF FirmwareAsked
  <2> HIDE DEF m, d, w, e, pp
  <2>2. CASE text = None
    BY <2>2 DEF Fits, Idler
  <2>3. CASE text \in Range(e) /\ \E j \in DOMAIN w : <<text, w[j]>> \in Within
    BY <1>5, <2>1, <2>3 DEF Fits
  <2>4. CASE \E j \in DOMAIN w : text = w[j]
    BY <1>6, <2>1, <2>4 DEF Fits, Idler
  <2> QED
    BY <1>4, <2>2, <2>3, <2>4
<1>10. ASSUME Genuine(d), Reply(m.query, d) \in Range(w)
       PROVE  text \in Range(e)
  <2>1. \E t \in Range(e) : <<t, Reply(m.query, d)>> \in Within
    BY <1>3, <1>10 DEF Genuine, Reply
  <2>2. \E j \in DOMAIN w : w[j] = Reply(m.query, d)
    BY <1>10 DEF Range
  <2> HIDE DEF m, d, w, e, pp
  <2> QED
    BY <1>4, <2>1, <2>2
<1> QED
  BY <1>4, <1>8, <1>9, <1>10 DEF Range

LEMMA AcceptStep ==
    ASSUME DiscoveryInv, NEW r \in Requests, reqs[r].phase = "wait",
           NEW text \in Texts \cup {None}, Accept(r, text),
           UNCHANGED <<link, outbox>>, late \subseteq late', late' \subseteq Requests,
           reqs[r].query = "model" =>
             /\ Fits(text, ModelReply[reqs[r].device])
             /\ ~Idler(text) /\ link[reqs[r].device] = r => outbox[reqs[r].device] = <<>>,
           reqs[r].query = "firmware" /\ ~Idler(reqs[r].model) =>
             Fits(text, FirmwareReply[reqs[r].device]),
           Genuine(reqs[r].device) /\ r \notin late' =>
             text \in Range(Expected(reqs[r].query, reqs[r].device))
    PROVE  DiscoveryInv'
<1> DEFINE m == reqs[r]
           d == reqs[r].device
           pp == ProbeProfile(reqs[r].device)
           owner == link[reqs[r].device]
           box == outbox[reqs[r].device]
<1>1. /\ m \in Sessions /\ m.result = "none" /\ d \in Devices /\ pp \in Profiles
      /\ m.mark <= Len(m.raw) /\ ~m.failed
      /\ ModelAsked(r, m, owner, box) /\ FirmwareAsked(r, m, owner, box) /\ Punctual(r, m, late)
  <2>1. SessionOK(r, m, owner, box, late)
    BY SessionOf
  <2> QED
    BY <2>1 DEF SessionOK, Placed, Engaged, Closing
<1>2. m.phase \in Engaged /\ m.phase # "done" /\ m.phase \notin Closing
  BY DEF Engaged, Closing
<1>3. CASE m.query = "model"
  <2>1. PICK n : n = [reqs[r] EXCEPT !.model = text, !.query = "firmware", !.phase = "ask"]
    OBVIOUS
  <2>2. reqs' = [reqs EXCEPT ![r] = n]
    BY <1>3, <2>1 DEF Accept
  <2>3. n \in Sessions
    BY <1>1, <2>1 DEF Sessions
  <2>4. /\ n.phase = "ask" /\ n.query = "firmware" /\ n.model = text /\ n.device = d
        /\ n.raw = m.raw /\ n.mark = m.mark /\ n.firmware = m.firmware
        /\ n.failed = m.failed /\ n.result = m.result
    BY <1>1, <2>1 DEF Sessions
  <2>5. Genuine(d) /\ r \notin late' => text = ModelOf[pp]
    BY <1>3 DEF Expected, Range
  <2>6. Fits(text, ModelReply[d]) /\ (~Idler(text) /\ owner = r => box = <<>>)
    BY <1>3
  <2>7. n.phase \in Engaged /\ n.phase \notin Closing /\ n.phase \notin Opening
    BY <2>4 DEF Engaged, Closing, Opening
  <2>8. m.firmware = None
    BY <1>1, <1>2, <1>3 DEF ModelAsked
  <2>9. d = n.device /\ pp = ProbeProfile(n.device)
    BY <2>4
  <2> HIDE DEF m, d, pp, owner, box
  <2>10. Fresh(n) /\ Placed(n)
    BY <1>1, <2>4, <2>7, <2>9 DEF Fresh, Placed
  <2>11. ModelAsked(r, n, owner, box)
    BY <2>4 DEF ModelAsked
  <2>12. FirmwareAsked(r, n, owner, box)
    BY <2>4, <2>6, <2>8, <2>9 DEF FirmwareAsked, Fits, Idler
  <2>13. Punctual(r, n, late') /\ Judged(r, n, late')
    BY <1>1, <2>4, <2>5, <2>7, <2>9 DEF Punctual, Judged
  <2>14. SessionOK(r, n, owner, box, late')
    BY <2>3, <2>10, <2>11, <2>12, <2>13 DEF SessionOK
  <2> QED
    BY <1>2, <2>2, <2>4, <2>7, <2>14, LocalSteps DEF m, d, owner, box
<1>4. CASE m.query = "firmware"
  <2>1. PICK n : n = [reqs[r] EXCEPT !.firmware = text, !.phase = "unsubscribe",
                                    !.raw = <<>>, !.mark = 0]
    OBVIOUS
  <2>2. reqs' = [reqs EXCEPT ![r] = n]
    BY <1>4, <2>1 DEF Accept
  <2>3. n \in Sessions
    <3> HIDE DEF Texts
    <3>1. <<>> \in Seq(Texts)
      OBVIOUS
    <3> QED
      BY <1>1, <2>1, <3>1 DEF Sessions
  <2>4. /\ n.phase = "unsubscribe" /\ n.query = m.query /\ n.model = m.model /\ n.device = d
        /\ n.raw = <<>> /\ n.mark = 0 /\ n.firmware = text
        /\ n.failed = m.failed /\ n.result = m.result
    BY <1>1, <2>1 DEF Sessions
  <2>5. Genuine(d) /\ r \notin late' => text \in Range(FirmwareOf[pp])
    BY <1>4 DEF Expected
  <2>6. ~Idler(m.model) => Fits(text, FirmwareReply[d])
    BY <1>4
  <2>7. n.phase \in Engaged /\ n.phase \in Closing /\ n.phase \notin Opening /\ Len(n.raw) = 0
    BY <2>4 DEF Engaged, Closing, Opening
  <2>8. Fits(m.model, ModelReply[d])
    BY <1>1, <1>2, <1>4 DEF FirmwareAsked
  <2>9. d = n.device /\ pp = ProbeProfile(n.device)
    BY <2>4
  <2> HIDE DEF m, d, pp, owner, box
  <2>10. Fresh(n) /\ Placed(n)
    BY <1>1, <2>4, <2>7, <2>9 DEF Fresh, Placed
  <2>11. ModelAsked(r, n, owner, box)
    BY <1>4, <2>4 DEF ModelAsked
  <2>12. FirmwareAsked(r, n, owner, box)
    BY <2>4, <2>6, <2>7, <2>8, <2>9 DEF FirmwareAsked
  <2>13. Punctual(r, n, late') /\ Judged(r, n, late')
    <3>1. Genuine(d) /\ r \notin late' => m.model = ModelOf[pp]
      BY <1>1, <1>2, <1>4 DEF Punctual, m, d, pp
    <3> QED
      BY <1>1, <1>4, <2>4, <2>5, <2>7, <2>9, <3>1 DEF Punctual, Judged
  <2>14. SessionOK(r, n, owner, box, late')
    BY <2>3, <2>10, <2>11, <2>12, <2>13 DEF SessionOK
  <2> QED
    BY <1>2, <2>2, <2>4, <2>7, <2>14, LocalSteps DEF m, d, owner, box
<1> QED
  BY <1>1, <1>3, <1>4 DEF Sessions

LEMMA PollStep ==
    ASSUME DiscoveryInv, NEW r \in Requests, Poll(r)
    PROVE  DiscoveryInv'
<1>1. PICK text : /\ text = ExtractText(Window(r), Expected(reqs[r].query, Device(r)), FALSE)
                  /\ text # None /\ Accept(r, text)
  BY DEF Poll
<1>2. /\ reqs[r].phase = "wait" /\ UNCHANGED <<link, outbox, late>>
      /\ late \subseteq late' /\ late' \subseteq Requests
  BY DiscoveryTypes DEF Poll, At, DiscoveryInv
<1> QED
  BY <1>1, <1>2, Heard, AcceptStep

LEMMA DeadlineStep ==
    ASSUME DiscoveryInv, NEW r \in Requests, Deadline(r)
    PROVE  DiscoveryInv'
<1>1. PICK text : /\ text = ExtractText(Window(r), Expected(reqs[r].query, Device(r)), TRUE)
                  /\ Accept(r, text)
  BY DEF Deadline
<1>2. /\ reqs[r].phase = "wait" /\ UNCHANGED <<link, outbox>>
      /\ late \subseteq late' /\ late' \subseteq Requests
      /\ r \notin late' => Reply(reqs[r].query, Device(r)) \in Range(Window(r))
  BY DiscoveryTypes DEF Deadline, At, DiscoveryInv
<1>3. /\ text \in Texts \cup {None}
      /\ reqs[r].query = "model" =>
           /\ Fits(text, ModelReply[reqs[r].device])
           /\ ~Idler(text) /\ link[reqs[r].device] = r => outbox[reqs[r].device] = <<>>
      /\ reqs[r].query = "firmware" /\ ~Idler(reqs[r].model) =>
           Fits(text, FirmwareReply[reqs[r].device])
      /\ Genuine(reqs[r].device) /\ r \notin late' =>
           text \in Range(Expected(reqs[r].query, reqs[r].device))
  BY <1>1, <1>2, Heard DEF Device
<1> QED
  BY <1>1, <1>2, <1>3, AcceptStep

LEMMA AskStep ==
    ASSUME DiscoveryInv, NEW r \in Requests, Ask(r)
    PROVE  DiscoveryInv'
<1> DEFINE m == reqs[r]
           d == reqs[r].device
           owner == link[reqs[r].device]
           box == outbox[reqs[r].device]
<1>1. PICK n : n = [reqs[r] EXCEPT !.phase = "write", !.mark = Len(reqs[r].raw)]
  OBVIOUS
<1>2. /\ reqs' = [reqs EXCEPT ![r] = n] /\ m.phase = "ask" /\ UNCHANGED <<link, late>>
      /\ Deliver(r)
  BY <1>1 DEF Ask, At
<1>3. /\ m \in Sessions /\ m.result = "none" /\ d \in Devices
      /\ ProbeProfile(d) \in Profiles /\ ~m.failed /\ Len(m.raw) \in Nat
      /\ ModelAsked(r, m, owner, box) /\ FirmwareAsked(r, m, owner, box) /\ Punctual(r, m, late)
  <2>1. SessionOK(r, m, owner, box, late)
    BY SessionOf
  <2>2. m \in Sessions /\ Placed(m)
    BY <2>1 DEF SessionOK
  <2>3. m.raw \in Seq(Texts)
    BY <2>2 DEF Sessions
  <2>4. Len(m.raw) \in Nat
    BY <2>3
  <2> QED
    BY <1>2, <2>1, <2>2, <2>4 DEF SessionOK, Placed, Engaged, Closing
<1>4. n \in Sessions
  BY <1>1, <1>3 DEF Sessions
<1>5. /\ n.phase = "write" /\ n.mark = Len(m.raw) /\ n.device = d
      /\ n.raw = m.raw /\ n.query = m.query /\ n.model = m.model /\ n.firmware = m.firmware
      /\ n.failed = m.failed /\ n.result = m.result
  BY <1>1, <1>3 DEF Sessions
<1>6. /\ n.phase \in Engaged /\ n.phase \notin Closing /\ n.phase \notin Opening
      /\ m.phase \in Engaged /\ m.phase \notin Closing
  BY <1>2, <1>5 DEF Engaged, Closing, Opening
<1>7. outbox \in [Devices -> Seq(Texts)] /\ link \in [Devices -> Requests \cup {None}]
      /\ late \subseteq Requests
  BY DiscoveryTypes DEF DiscoveryInv
<1>8. /\ outbox' \in [Devices -> Seq(Texts)]
      /\ \A c \in Devices : link[c] # r => outbox'[c] = outbox[c]
      /\ outbox'[d] = box \/ outbox'[d] = Append(box, Reply(m.query, d))
  <2>1. Reply(m.query, d) \in Texts
    BY <1>3, TextsAre DEF Reply
  <2>2. CASE UNCHANGED outbox
    BY <1>7, <2>2
  <2>3. CASE Connected(r) /\ outbox' = [outbox EXCEPT ![d] = Append(@, Reply(m.query, d))]
    <3>1. link[d] = r
      BY <2>3 DEF Connected, Device
    <3>2. box \in Seq(Texts)
      BY <1>3, <1>7
    <3>3. PICK b \in Seq(Texts) : b = Append(box, Reply(m.query, d))
      <4>1. \A s \in Seq(Texts) : \A x \in Texts : Append(s, x) \in Seq(Texts)
        OBVIOUS
      <4> QED
        BY <2>1, <3>2, <4>1
    <3>4. outbox' = [outbox EXCEPT ![d] = b]
      BY <2>3, <3>3
    <3> QED
      BY <1>3, <1>7, <3>1, <3>3, <3>4
  <2> QED
    BY <1>2, <2>2, <2>3 DEF Deliver, Device
<1> DEFINE box2 == outbox'[reqs[r].device]
<1>9. /\ m.query = "model" /\ owner = r => box = <<>>
      /\ m.query = "firmware" /\ owner = r /\ ~Idler(m.model) => box = <<>>
  BY <1>2, <1>3, <1>6 DEF ModelAsked, FirmwareAsked
<1>10. \A x : Append(<<>>, x) = <<x>>
  OBVIOUS
<1>11. /\ m.query = "model" /\ owner = r => box2 \in {<<>>, <<ModelReply[d]>>}
       /\ m.query = "firmware" /\ owner = r /\ ~Idler(m.model) =>
            box2 \in {<<>>, <<FirmwareReply[d]>>}
  BY <1>8, <1>9, <1>10 DEF Reply
<1>12. ASSUME NEW b, b = box2 PROVE SessionOK(r, n, owner, b, late)
  <2>1. /\ m.query = "model" /\ owner = r => b \in {<<>>, <<ModelReply[d]>>}
        /\ m.query = "firmware" /\ owner = r /\ ~Idler(m.model) => b \in {<<>>, <<FirmwareReply[d]>>}
    BY <1>11, <1>12
  <2> HIDE DEF m, d, owner, box, box2
  <2>2. Fresh(n) /\ Placed(n)
    BY <1>3, <1>5, <1>6 DEF Fresh, Placed
  <2>3. ModelAsked(r, n, owner, b)
    BY <1>2, <1>3, <1>5, <1>6, <2>1 DEF ModelAsked, m, d
  <2>4. FirmwareAsked(r, n, owner, b)
    <3>1. \A i \in DOMAIN n.raw : ~(i > n.mark)
      <4>1. m.raw \in Seq(Texts)
        BY <1>3 DEF Sessions
      <4>2. DOMAIN m.raw = 1..Len(m.raw)
        BY <4>1
      <4> QED
        BY <1>3, <1>5, <4>2
    <3> QED
      BY <1>2, <1>3, <1>5, <1>6, <2>1, <3>1 DEF FirmwareAsked, m, d
  <2>5. Punctual(r, n, late) /\ Judged(r, n, late)
    BY <1>3, <1>5, <1>6 DEF Punctual, Judged, m, d
  <2> QED
    BY <1>4, <2>2, <2>3, <2>4, <2>5 DEF SessionOK
<1>13. SessionOK(r, n, link'[n.device], outbox'[n.device], late')
  <2>1. SessionOK(r, n, owner, box2, late)
    BY <1>12
  <2>2. n.device = d /\ link' = link /\ late' = late
    BY <1>2, <1>5
  <2> QED
    BY <2>1, <2>2
<1>14. \A c \in Devices : link'[c] # r =>
         \/ link'[c] = link[c] /\ outbox'[c] = outbox[c]
         \/ link'[c] = None /\ outbox'[c] = <<>>
  BY <1>2, <1>8
<1>15. \A c \in Devices : link'[c] = r =>
         n.device = c /\ n.phase \in Engaged \cup {"done"}
           /\ (n.phase = "done" => n.result = "close_failed")
  BY <1>2, <1>5, <1>6, LinkOf
<1>16. /\ late \subseteq late' /\ late' \subseteq Requests
       /\ link' \in [Devices -> Requests \cup {None}]
  BY <1>2, <1>7
<1>17. reqs' = [reqs EXCEPT ![r] = n] /\ outbox' \in [Devices -> Seq(Texts)]
  BY <1>2, <1>8
<1> HIDE DEF m, d, owner, box, box2
<1> QED
  BY <1>13, <1>14, <1>15, <1>16, <1>17, RequestSteps

LEMMA VerdictIs ==
    ASSUME DiscoveryInv, NEW r \in Requests, reqs[r].phase = "disconnect", ~reqs[r].failed
    PROVE  /\ Verdict(r) \in {"verified", "mismatch"}
           /\ Verdict(r) = "verified" => Earned(reqs[r].device)
           /\ Verdict(r) = "mismatch" /\ Genuine(reqs[r].device) => r \in late
<1> DEFINE m == reqs[r]
           d == reqs[r].device
           pp == ProbeProfile(reqs[r].device)
<1>1. /\ m \in Sessions
      /\ ModelAsked(r, m, link[d], outbox[d]) /\ FirmwareAsked(r, m, link[d], outbox[d])
      /\ Punctual(r, m, late)
  BY SessionOf DEF SessionOK
<1>2. m.phase \in Engaged /\ m.phase \in Closing
  BY DEF Engaged, Closing
<1>3. Verdict(r) \in {"verified", "mismatch"}
  BY DEF Verdict
<1>4. ASSUME Verdict(r) = "verified" PROVE Earned(d)
  <2>1. PICK p \in ProfilesToCheck(d) : MatchesProfile(d, p, m.model, m.firmware)
    BY <1>4 DEF Verdict, Device
  <2>2. /\ p \in Profiles /\ m.model = ModelOf[p] /\ m.firmware \in Range(FirmwareOf[p])
        /\ ServiceOf[p] \in Gatt[d]
    BY <2>1, ChecksProfiles DEF MatchesProfile
  <2>3. ~Idler(m.model) /\ ~Idler(m.firmware)
    BY <2>2, ExpectedSaysMuch
  <2>4. m.query = "firmware"
    BY <1>1, <1>2, <2>3 DEF ModelAsked, Idler, Sessions
  <2>5. Fits(m.model, ModelReply[d]) /\ Fits(m.firmware, FirmwareReply[d])
    BY <1>1, <1>2, <2>3, <2>4 DEF FirmwareAsked
  <2> QED
    BY <2>2, <2>3, <2>5 DEF Earned, Fits
<1>5. ASSUME Verdict(r) = "mismatch", Genuine(d), r \notin late PROVE FALSE
  <2>1. m.model = ModelOf[pp] /\ m.firmware \in Range(FirmwareOf[pp])
    BY <1>1, <1>2, <1>5 DEF Punctual
  <2>2. pp \in ProfilesToCheck(d) /\ ServiceOf[pp] \in Gatt[d]
    BY <1>5, ProbeProfileIs DEF Genuine
  <2>3. MatchesProfile(d, pp, m.model, m.firmware)
    BY <2>1, <2>2 DEF MatchesProfile
  <2> QED
    BY <1>5, <2>2, <2>3 DEF Verdict, Device
<1> QED
  BY <1>3, <1>4, <1>5

LEMMA DisconnectStep ==
    ASSUME DiscoveryInv, NEW r \in Requests, Disconnect(r)
    PROVE  DiscoveryInv'
<1> DEFINE d == reqs[r].device
<1>1. reqs[r].phase = "disconnect" /\ late' = late /\ reqs[r].phase \in Engaged
  BY DEF Disconnect, At, Engaged, Closing
<1>2. d \in Devices /\ reqs[r] \in Sessions
  BY <1>1, OpenSession, SessionOf
<1>3. /\ outbox \in [Devices -> Seq(Texts)] /\ link \in [Devices -> Requests \cup {None}]
      /\ late \subseteq Requests
  BY DiscoveryTypes DEF DiscoveryInv
<1>4. PICK result \in Results :
        /\ Respond(r, result)
        /\ result = "verified" => Earned(d)
        /\ result = "mismatch" /\ Genuine(d) => r \in late
        /\ \/ link[d] = r /\ Drop(d)
           \/ link[d] # r /\ UNCHANGED <<link, outbox>>
           \/ result = "close_failed" /\ UNCHANGED <<link, outbox>>
  <2>1. CASE Respond(r, "close_failed") /\ (UNCHANGED <<link, outbox>> \/ (Connected(r) /\ Drop(d)))
    BY <2>1 DEF Connected, Device, Results
  <2>2. CASE /\ Respond(r, IF reqs[r].failed THEN "error" ELSE Verdict(r))
             /\ IF Connected(r) THEN Drop(d) ELSE UNCHANGED <<link, outbox>>
    <3>1. CASE reqs[r].failed
      BY <2>2, <3>1 DEF Connected, Device, Results
    <3>2. CASE ~reqs[r].failed
      <4>1. /\ Verdict(r) \in Results
            /\ Verdict(r) = "verified" => Earned(d)
            /\ Verdict(r) = "mismatch" /\ Genuine(d) => r \in late
        BY <1>1, <3>2, VerdictIs DEF Results
      <4>2. Respond(r, Verdict(r))
        BY <2>2, <3>2
      <4>3. \/ link[d] = r /\ Drop(d)
            \/ link[d] # r /\ UNCHANGED <<link, outbox>>
        BY <2>2 DEF Connected, Device
      <4> QED
        BY <4>1, <4>2, <4>3
    <3> QED
      BY <3>1, <3>2
  <2> QED
    BY <2>1, <2>2 DEF Disconnect, Device
<1> DEFINE n == AnswerTo(reqs[r], result)
<1>5. reqs' = [reqs EXCEPT ![r] = n]
  BY <1>4 DEF Respond, AnswerTo, Device
<1>6. SessionOK(r, n, link'[n.device], outbox'[n.device], late')
  <2>1. \A owner, box : SessionOK(r, n, owner, box, late)
    BY <1>2, <1>4, AnswerStands
  <2> HIDE DEF n
  <2> QED
    BY <1>1, <2>1
<1>7. n.device = d /\ n.phase = "done" /\ n.result = result
  BY <1>2, <1>4, Answered
<1> HIDE DEF n
<1>8. \A c \in Devices : link[c] = r => c = d
  BY LinkOf
<1>9. /\ link' \in [Devices -> Requests \cup {None}] /\ outbox' \in [Devices -> Seq(Texts)]
      /\ \A c \in Devices : c # d => link'[c] = link[c] /\ outbox'[c] = outbox[c]
      /\ \/ link'[d] = None /\ outbox'[d] = <<>>
         \/ link'[d] = link[d] /\ outbox'[d] = outbox[d]
              /\ (link[d] # r \/ result = "close_failed")
  <2>1. CASE Drop(d)
    <3> HIDE DEF Texts
    <3>1. <<>> \in Seq(Texts)
      OBVIOUS
    <3> QED
      BY <1>2, <1>3, <2>1, <3>1 DEF Drop
  <2>2. CASE UNCHANGED <<link, outbox>> /\ (link[d] # r \/ result = "close_failed")
    BY <1>3, <2>2
  <2>3. \/ link[d] = r /\ Drop(d)
        \/ UNCHANGED <<link, outbox>> /\ (link[d] # r \/ result = "close_failed")
    BY <1>4
  <2> QED
    BY <2>1, <2>2, <2>3
<1>10. \A c \in Devices : link'[c] # r =>
         \/ link'[c] = link[c] /\ outbox'[c] = outbox[c]
         \/ link'[c] = None /\ outbox'[c] = <<>>
  BY <1>9
<1>11. \A c \in Devices : link'[c] = r =>
         n.device = c /\ n.phase \in Engaged \cup {"done"}
           /\ (n.phase = "done" => n.result = "close_failed")
  <2>1. None # r
    BY TextsAre
  <2> QED
    BY <1>7, <1>8, <1>9, <2>1
<1>12. late \subseteq late' /\ late' \subseteq Requests
  BY <1>1, <1>3
<1> QED
  BY <1>5, <1>6, <1>9, <1>10, <1>11, <1>12, RequestSteps

-----------------------------------------------------------------------------
(* The printer's steps leave every request where it is.                     *)
LEMMA DeviceSteps ==
    ASSUME DiscoveryInv, reqs' \in [Requests -> Sessions], late' = late,
           link' \in [Devices -> Requests \cup {None}], outbox' \in [Devices -> Seq(Texts)],
           \A q \in Requests : /\ reqs'[q].device = reqs[q].device
                               /\ reqs'[q].phase = reqs[q].phase
                               /\ reqs'[q].result = reqs[q].result,
           \A c \in Devices : link'[c] = link[c] \/ link'[c] = None,
           \A c \in Devices : link'[c] = None => outbox'[c] = <<>>,
           \A q \in Requests : SessionOK(q, reqs'[q], link'[reqs[q].device],
                                         outbox'[reqs[q].device], late)
    PROVE  DiscoveryInv'
<1>1. DiscoveryTypeOK'
  <2>1. late' \subseteq Requests
    BY DiscoveryTypes DEF DiscoveryInv
  <2> QED
    BY <2>1 DEF DiscoveryTypeOK, Sessions
<1>2. LinkInv'
  <2>1. None \notin Requests
    BY TextsAre
  <2>2. \A c \in Devices : \A q \in Requests : link'[c] = q => link[c] = q
    BY <2>1
  <2>3. \A c \in Devices : \A q \in Requests : link'[c] = q =>
          /\ reqs'[q].device = c
          /\ reqs'[q].phase \in Engaged \cup {"done"}
          /\ reqs'[q].phase = "done" => reqs'[q].result = "close_failed"
    BY <2>2, LinkOf
  <2> QED
    BY <2>3 DEF LinkInv
<1>3. \A q \in Requests : SessionOK(q, reqs'[q], link'[reqs'[q].device],
                                    outbox'[reqs'[q].device], late')
  OBVIOUS
<1>4. (\A q \in Requests :
         SessionOK(q, reqs[q], link[reqs[q].device], outbox[reqs[q].device], late))'
  BY <1>3
<1> QED
  BY <1>1, <1>2, <1>4 DEF DiscoveryInv

LEMMA OneReply ==
    ASSUME NEW x
    PROVE  Head(<<x>>) = x /\ Tail(<<x>>) = <<>>
OBVIOUS

(* What goes out is unasked, or the reply that is due.                      *)
Sends(box, text, box2) ==
    \/ text \in Unasked /\ box2 = box
    \/ box # <<>> /\ text = Head(box) /\ box2 = Tail(box)
Holding(m, text) == [m EXCEPT !.raw = Append(m.raw, text)]

(* A reply that goes out and is not captured.                               *)
LEMMA Drained ==
    ASSUME NEW q, NEW m, NEW box, box # <<>>, NEW missed, SessionOK(q, m, q, box, missed)
    PROVE  SessionOK(q, m, q, Tail(box), missed)
<1>1. ModelAsked(q, m, q, Tail(box))
  BY OneReply DEF SessionOK, ModelAsked
<1>2. FirmwareAsked(q, m, q, Tail(box))
  BY OneReply DEF SessionOK, FirmwareAsked
<1> QED
  BY <1>1, <1>2 DEF SessionOK

LEMMA Captured ==
    ASSUME NEW q, NEW m, NEW box, NEW missed, SessionOK(q, m, q, box, missed),
           m.phase \in {"subscribe", "ask", "write", "wait"},
           NEW text \in Texts, NEW box2, Sends(box, text, box2),
           NEW n, n = Holding(m, text)
    PROVE  /\ SessionOK(q, n, q, box2, missed)
           /\ n.device = m.device /\ n.phase = m.phase /\ n.result = m.result
<1>1. m \in Sessions /\ m.raw \in Seq(Texts) /\ m.mark \in Nat /\ m.mark <= Len(m.raw)
  BY DEF SessionOK, Sessions, Placed
<1>2. PICK s : s = Append(m.raw, text)
  OBVIOUS
<1>3. /\ s \in Seq(Texts) /\ Len(s) = Len(m.raw) + 1 /\ Len(m.raw) \in Nat
      /\ DOMAIN s = 1..(Len(m.raw) + 1) /\ DOMAIN m.raw = 1..Len(m.raw)
      /\ s[Len(m.raw) + 1] = text
      /\ \A i \in DOMAIN m.raw : s[i] = m.raw[i]
  <2>1. m.raw \in Seq(Texts) /\ text \in Texts
    BY <1>1
  <2> HIDE DEF Texts
  <2> QED
    BY <1>2, <2>1
<1>4. n = [m EXCEPT !.raw = s]
  BY <1>2 DEF Holding
<1>5. n \in Sessions
  BY <1>1, <1>3, <1>4 DEF Sessions
<1>6. /\ n.phase = m.phase /\ n.device = m.device /\ n.raw = s /\ n.query = m.query
      /\ n.mark = m.mark /\ n.model = m.model /\ n.firmware = m.firmware
      /\ n.failed = m.failed /\ n.result = m.result
  BY <1>1, <1>4 DEF Sessions
<1>7. m.phase \in Engaged /\ m.phase \notin Closing /\ m.phase \notin Opening
  BY DEF Engaged, Closing, Opening
<1>8. Fresh(n) /\ Placed(n)
  <2>1. n.mark <= Len(n.raw)
    BY <1>1, <1>3, <1>6
  <2> QED
    BY <1>6, <1>7, <2>1 DEF SessionOK, Placed, Fresh
<1>9. \A i \in DOMAIN s : s[i] = text \/ (i \in DOMAIN m.raw /\ s[i] = m.raw[i])
  BY <1>3
<1>10. ModelAsked(q, n, q, box2)
  <2> SUFFICES ASSUME m.query = "model" PROVE ModelAsked(q, n, q, box2)
    BY <1>6 DEF ModelAsked
  <2>1. /\ m.model = None /\ m.firmware = None
        /\ \A i \in DOMAIN m.raw :
             \/ m.raw[i] \in Unasked
             \/ /\ m.raw[i] = ModelReply[m.device] /\ box = <<>>
                /\ m.phase \notin {"subscribe", "ask"}
        /\ box \in {<<>>, <<ModelReply[m.device]>>}
        /\ m.phase \in {"subscribe", "ask"} => box = <<>>
    BY <1>7 DEF SessionOK, ModelAsked
  <2>2. CASE text \in Unasked /\ box2 = box
    BY <1>6, <1>9, <2>1, <2>2 DEF ModelAsked
  <2>3. CASE box # <<>> /\ text = Head(box) /\ box2 = Tail(box)
    <3>1. text = ModelReply[m.device] /\ box2 = <<>> /\ m.phase \notin {"subscribe", "ask"}
      BY <2>1, <2>3, OneReply
    <3> QED
      BY <1>6, <1>9, <2>1, <3>1 DEF ModelAsked
  <2> QED
    BY <2>2, <2>3 DEF Sends
<1>11. FirmwareAsked(q, n, q, box2)
  <2> SUFFICES ASSUME m.query = "firmware" PROVE FirmwareAsked(q, n, q, box2)
    BY <1>6 DEF FirmwareAsked
  <2>1. FirmwareAsked(q, m, q, box)
    BY DEF SessionOK
  <2>2. CASE Idler(m.model)
    BY <1>6, <1>7, <2>1, <2>2 DEF FirmwareAsked
  <2>3. CASE ~Idler(m.model)
    <3>1. /\ Fits(m.model, ModelReply[m.device]) /\ m.firmware = None
          /\ Fits(m.firmware, FirmwareReply[m.device])
          /\ m.phase \in {"write", "wait"} =>
               \A i \in DOMAIN m.raw : i > m.mark =>
                 m.raw[i] \in Unasked \cup {FirmwareReply[m.device]}
          /\ m.phase = "ask" => box = <<>>
          /\ m.phase \in {"write", "wait"} => box \in {<<>>, <<FirmwareReply[m.device]>>}
          /\ m.phase # "subscribe"
      BY <1>7, <2>1, <2>3 DEF FirmwareAsked, SessionOK, Placed
    <3>2. /\ m.phase \in {"write", "wait"} => text \in Unasked \cup {FirmwareReply[m.device]}
          /\ m.phase = "ask" => box2 = <<>>
          /\ m.phase \in {"write", "wait"} => box2 \in {<<>>, <<FirmwareReply[m.device]>>}
      BY <3>1, OneReply DEF Sends
    <3>3. m.phase \in {"write", "wait"} =>
            \A i \in DOMAIN s : i > m.mark => s[i] \in Unasked \cup {FirmwareReply[m.device]}
      BY <1>9, <3>1, <3>2
    <3> QED
      BY <1>6, <1>7, <3>1, <3>2, <3>3 DEF FirmwareAsked
  <2> QED
    BY <2>2, <2>3
<1>12. Punctual(q, n, missed) /\ Judged(q, n, missed)
  BY <1>6, <1>7 DEF SessionOK, Punctual, Judged
<1> QED
  BY <1>5, <1>6, <1>8, <1>10, <1>11, <1>12 DEF SessionOK

(* A notification reaches the request that captures it, if any does.        *)
LEMMA CaptureStep ==
    ASSUME DiscoveryInv, NEW d \in Devices, NEW text \in Texts, Capture(d, text),
           UNCHANGED <<link, late>>,
           \/ text \in Unasked /\ outbox' = outbox
           \/ /\ outbox[d] # <<>> /\ text = Head(outbox[d])
              /\ outbox' = [outbox EXCEPT ![d] = Tail(outbox[d])]
    PROVE  DiscoveryInv'
<1>1. /\ reqs \in [Requests -> Sessions] /\ outbox \in [Devices -> Seq(Texts)]
      /\ link \in [Devices -> Requests \cup {None}] /\ late \subseteq Requests
  BY DiscoveryTypes DEF DiscoveryInv
<1>2. PICK s \in Seq(Texts) :
        Sends(outbox[d], text, s) /\ outbox' = [outbox EXCEPT ![d] = s]
  <2>1. outbox[d] \in Seq(Texts)
    BY <1>1
  <2>2. CASE text \in Unasked /\ outbox' = outbox
    <3>1. outbox' = [outbox EXCEPT ![d] = outbox[d]]
      BY <1>1, <2>2
    <3> QED
      BY <2>1, <2>2, <3>1 DEF Sends
  <2>3. CASE /\ outbox[d] # <<>> /\ text = Head(outbox[d])
             /\ outbox' = [outbox EXCEPT ![d] = Tail(outbox[d])]
    <3>1. \A b \in Seq(Texts) : b # <<>> => Tail(b) \in Seq(Texts)
      OBVIOUS
    <3> QED
      BY <2>1, <2>3, <3>1 DEF Sends
  <2> QED
    BY <2>2, <2>3
<1>3. /\ outbox' \in [Devices -> Seq(Texts)] /\ outbox'[d] = s
      /\ \A c \in Devices : c # d => outbox'[c] = outbox[c]
  BY <1>1, <1>2
<1>4. ASSUME NEW q \in Requests
      PROVE  /\ SessionOK(q, reqs'[q], link[reqs[q].device], outbox'[reqs[q].device], late)
             /\ reqs'[q].device = reqs[q].device /\ reqs'[q].phase = reqs[q].phase
             /\ reqs'[q].result = reqs[q].result
  <2>1. SessionOK(q, reqs[q], link[reqs[q].device], outbox[reqs[q].device], late)
    BY SessionOf
  <2>2. reqs'[q] = IF q \in Capturing(d) /\ Len(reqs[q].raw) < MaxRaw
                     THEN [reqs[q] EXCEPT !.raw = Append(reqs[q].raw, text)] ELSE reqs[q]
    BY DEF Capture
  <2>3. link[d] = q => reqs[q].device = d
    BY LinkOf
  <2>4. CASE q \in Capturing(d) /\ Len(reqs[q].raw) < MaxRaw
    <3>1. PICK n : n = Holding(reqs[q], text)
      OBVIOUS
    <3>2. reqs'[q] = n /\ link[d] = q /\ reqs[q].device = d
          /\ reqs[q].phase \in {"subscribe", "ask", "write", "wait"}
      BY <2>2, <2>3, <2>4, <3>1 DEF Capturing, Holding
    <3>3. SessionOK(q, reqs[q], q, outbox[d], late)
      BY <2>1, <3>2
    <3>4. /\ SessionOK(q, n, q, s, late)
          /\ n.device = reqs[q].device /\ n.phase = reqs[q].phase /\ n.result = reqs[q].result
      BY <1>2, <3>1, <3>2, <3>3, Captured
    <3> QED
      BY <1>3, <3>2, <3>4
  <2>5. CASE ~(q \in Capturing(d) /\ Len(reqs[q].raw) < MaxRaw)
    <3>1. reqs'[q] = reqs[q]
      BY <2>2, <2>5
    <3>2. CASE link[d] = q
      <4>1. SessionOK(q, reqs[q], q, outbox[d], late) /\ reqs[q].device = d
        BY <2>1, <2>3, <3>2
      <4>2. outbox[d] # <<>> => SessionOK(q, reqs[q], q, Tail(outbox[d]), late)
        BY <4>1, Drained
      <4>3. SessionOK(q, reqs[q], q, s, late)
        BY <1>2, <4>1, <4>2 DEF Sends
      <4> QED
        BY <1>3, <3>1, <3>2, <4>1, <4>3
    <3>3. CASE link[d] # q
      <4>1. reqs[q].phase \in Engaged => reqs[q].device \in Devices
        BY <2>1 DEF SessionOK, Placed
      <4>2. reqs[q].phase \in Engaged /\ link[reqs[q].device] = q =>
              outbox'[reqs[q].device] = outbox[reqs[q].device]
        BY <1>3, <3>3, <4>1
      <4>3. SessionOK(q, reqs[q], link[reqs[q].device], outbox'[reqs[q].device], late)
        BY <2>1, <4>2, SessionStands
      <4> QED
        BY <3>1, <4>3
    <3> QED
      BY <3>2, <3>3
  <2> QED
    BY <2>4, <2>5
<1>5. reqs' \in [Requests -> Sessions]
  <2>1. \A q \in Requests : reqs'[q] \in Sessions
    BY <1>4 DEF SessionOK
  <2>2. reqs' = [q \in Requests |-> reqs'[q]]
    BY DEF Capture
  <2> QED
    BY <2>1, <2>2
<1>6. \A c \in Devices : link[c] = None => outbox'[c] = <<>>
  <2>1. \A c \in Devices : link[c] = None => outbox[c] = <<>>
    BY LinkOf
  <2>2. link[d] = None => s = <<>>
    BY <1>2, <2>1 DEF Sends
  <2> QED
    BY <1>3, <2>1, <2>2
<1>7. /\ link' \in [Devices -> Requests \cup {None}] /\ late' = late
      /\ \A c \in Devices : link'[c] = link[c] \/ link'[c] = None
      /\ \A c \in Devices : link'[c] = None => outbox'[c] = <<>>
  BY <1>1, <1>6
<1>8. \A q \in Requests : SessionOK(q, reqs'[q], link'[reqs[q].device],
                                    outbox'[reqs[q].device], late)
  BY <1>4
<1> QED
  BY <1>3, <1>4, <1>5, <1>7, <1>8, DeviceSteps

LEMMA LoseLinkStep ==
    ASSUME DiscoveryInv, NEW d \in Devices, LoseLink(d)
    PROVE  DiscoveryInv'
<1>1. /\ reqs \in [Requests -> Sessions] /\ outbox \in [Devices -> Seq(Texts)]
      /\ link \in [Devices -> Requests \cup {None}] /\ late \subseteq Requests
  BY DiscoveryTypes DEF DiscoveryInv
<1>2. UNCHANGED <<reqs, late>> /\ None \notin Requests
  BY TextsAre DEF LoseLink
<1>3. /\ link' \in [Devices -> Requests \cup {None}] /\ outbox' \in [Devices -> Seq(Texts)]
      /\ link'[d] = None /\ outbox'[d] = <<>>
      /\ \A c \in Devices : c # d => link'[c] = link[c] /\ outbox'[c] = outbox[c]
  <2>1. link' = [link EXCEPT ![d] = None] /\ outbox' = [outbox EXCEPT ![d] = <<>>]
    BY DEF LoseLink, Drop
  <2>2. <<>> \in Seq(Texts)
    <3> HIDE DEF Texts
    <3> QED
      OBVIOUS
  <2> QED
    BY <1>1, <2>1, <2>2
<1>4. ASSUME NEW q \in Requests
      PROVE  SessionOK(q, reqs[q], link'[reqs[q].device], outbox'[reqs[q].device], late)
  <2>1. SessionOK(q, reqs[q], link[reqs[q].device], outbox[reqs[q].device], late)
    BY SessionOf
  <2>2. reqs[q].phase \in Engaged => reqs[q].device \in Devices
    BY <2>1 DEF SessionOK, Placed
  <2>3. reqs[q].phase \in Engaged /\ link'[reqs[q].device] = q =>
          link[reqs[q].device] = q /\ outbox'[reqs[q].device] = outbox[reqs[q].device]
    BY <1>2, <1>3, <2>2
  <2> QED
    BY <2>1, <2>3, SessionStands
<1>5. /\ \A c \in Devices : link'[c] = link[c] \/ link'[c] = None
      /\ \A c \in Devices : link'[c] = None => outbox'[c] = <<>>
  BY <1>3, LinkOf
<1>6. reqs' \in [Requests -> Sessions] /\ late' = late
      /\ \A q \in Requests : SessionOK(q, reqs'[q], link'[reqs[q].device],
                                       outbox'[reqs[q].device], late)
  BY <1>1, <1>2, <1>4
<1> QED
  BY <1>2, <1>3, <1>5, <1>6, DeviceSteps

LEMMA SendReplyStep ==
    ASSUME DiscoveryInv, NEW d \in Devices, SendReply(d)
    PROVE  DiscoveryInv'
<1>1. outbox[d] \in Seq(Texts) /\ outbox[d] # <<>>
  BY DiscoveryTypes DEF DiscoveryInv, SendReply
<1>2. Head(outbox[d]) \in Texts
  <2>1. \A b \in Seq(Texts) : b # <<>> => Head(b) \in Texts
    OBVIOUS
  <2> QED
    BY <1>1, <2>1
<1>3. /\ Capture(d, Head(outbox[d])) /\ UNCHANGED <<link, late>>
      /\ outbox' = [outbox EXCEPT ![d] = Tail(outbox[d])]
  BY DEF SendReply
<1>4. PICK text \in Texts : text = Head(outbox[d])
  BY <1>2
<1>5. Capture(d, text)
  BY <1>3, <1>4
<1> QED
  BY <1>1, <1>3, <1>4, <1>5, CaptureStep

LEMMA SendUnaskedStep ==
    ASSUME DiscoveryInv, NEW d \in Devices, SendUnasked(d)
    PROVE  DiscoveryInv'
<1>1. PICK text \in Unasked : Capture(d, text)
  BY DEF SendUnasked
<1>2. text \in Texts /\ UNCHANGED <<link, late>> /\ outbox' = outbox
  BY TextsAre DEF SendUnasked
<1> QED
  BY <1>1, <1>2, CaptureStep

LEMMA InitDiscoveryInv ==
    ASSUME DiscoveryInit
    PROVE  DiscoveryInv
<1>1. None \notin Requests
  BY TextsAre
<1>2. <<>> \in Seq(Texts) /\ Len(<<>>) = 0
  <2> HIDE DEF Texts
  <2> QED
    OBVIOUS
<1>3. Idle \in Sessions
  BY <1>2 DEF Idle, Sessions
<1>4. /\ Idle.phase = "idle" /\ Idle.raw = <<>> /\ Idle.query = "model" /\ Idle.mark = 0
      /\ Idle.model = None /\ Idle.firmware = None /\ Idle.failed = FALSE
      /\ Idle.result = "none"
  BY DEF Idle
<1>5. \A r, owner, box, missed : SessionOK(r, Idle, owner, box, missed)
  <2>1. Idle.phase \notin Engaged /\ Idle.mark <= Len(Idle.raw)
    BY <1>2, <1>4 DEF Engaged, Closing
  <2>2. Fresh(Idle) /\ Placed(Idle)
    BY <1>4, <2>1 DEF Fresh, Placed
  <2> QED
    BY <1>3, <1>4, <2>1, <2>2
       DEF SessionOK, ModelAsked, FirmwareAsked, Punctual, Judged
<1>6. /\ reqs = [r \in Requests |-> Idle] /\ link = [d \in Devices |-> None]
      /\ outbox = [d \in Devices |-> <<>>] /\ late = {}
  BY DEF DiscoveryInit
<1>7. DiscoveryTypeOK
  <2>1. /\ reqs \in [Requests -> Sessions] /\ link \in [Devices -> Requests \cup {None}]
        /\ outbox \in [Devices -> Seq(Texts)] /\ late \subseteq Requests
    BY <1>2, <1>3, <1>6
  <2> QED
    BY <2>1 DEF DiscoveryTypeOK, Sessions
<1>8. LinkInv
  BY <1>1, <1>6 DEF LinkInv
<1>9. \A r \in Requests :
        SessionOK(r, reqs[r], link[reqs[r].device], outbox[reqs[r].device], late)
  BY <1>5, <1>6
<1> QED
  BY <1>7, <1>8, <1>9 DEF DiscoveryInv

LEMMA NextDiscoveryInv ==
    ASSUME DiscoveryInv, [DiscoveryNext]_discoveryVars
    PROVE  DiscoveryInv'
<1>1. CASE UNCHANGED discoveryVars
  <2>1. reqs' = reqs /\ link' = link /\ outbox' = outbox /\ late' = late
    BY <1>1 DEF discoveryVars
  <2>2. DiscoveryTypeOK' /\ LinkInv'
    BY <2>1 DEF DiscoveryInv, DiscoveryTypeOK, LinkInv
  <2>3. \A r \in Requests :
          SessionOK(r, reqs'[r], link'[reqs'[r].device], outbox'[reqs'[r].device], late')
    BY <2>1, SessionOf
  <2>4. (\A r \in Requests :
          SessionOK(r, reqs[r], link[reqs[r].device], outbox[reqs[r].device], late))'
    BY <2>3
  <2> QED
    BY <2>2, <2>4 DEF DiscoveryInv
<1>2. ASSUME NEW r \in Requests, Resume(r) PROVE DiscoveryInv'
  BY <1>2, ScanFilteredStep, ScanUnfilteredStep, ConnectStep, SubscribeStep, BeginProbeStep,
     AskStep, WrittenStep, PollStep, DeadlineStep, UnsubscribeStep, DisconnectStep DEF Resume
<1>3. ASSUME NEW r \in Requests, ScanPrinters(r) \/ \E d \in Devices : ReadOnlyVerify(r, d)
      PROVE  DiscoveryInv'
  BY <1>3, ScanPrintersStep, ReadOnlyVerifyStep
<1>4. ASSUME NEW d \in Devices, SendReply(d) \/ SendUnasked(d) \/ LoseLink(d)
      PROVE  DiscoveryInv'
  BY <1>4, SendReplyStep, SendUnaskedStep, LoseLinkStep
<1> QED
  BY <1>1, <1>2, <1>3, <1>4 DEF DiscoveryNext

(* Whatever is heard and whenever, each request, the printer's link and the *)
(* replies under way fit together.                                          *)
THEOREM DiscoveryInvariant == DiscoverySpec => []DiscoveryInv
BY InitDiscoveryInv, NextDiscoveryInv, PTL DEF DiscoverySpec

(* The requests' and the links' variables keep their types (ble/discovery.py *)
(* and api/printers.py).                                                    *)
THEOREM DiscoveryTypeCorrect == DiscoverySpec => []DiscoveryTypeOK
<1>1. DiscoveryInv => DiscoveryTypeOK
  BY DEF DiscoveryInv
<1> QED
  BY <1>1, DiscoveryInvariant, PTL

(* A printer that was verified has itself replied with the model and with a *)
(* firmware of a profile whose service it offers, whatever else it sends and *)
(* whatever the other requests do (Stage A).                                *)
THEOREM DiscoveryVerifies == DiscoverySpec => []VerifiedIsEarned
<1>1. DiscoveryInv => VerifiedIsEarned
  BY SessionOf DEF DiscoveryInv, SessionOK, Judged, Earned, VerifiedIsEarned, Device
<1> QED
  BY <1>1, DiscoveryInvariant, PTL

(* A genuine printer is turned down only when a reply of its came too late. *)
THEOREM DiscoveryAdmits == DiscoverySpec => []GenuinePasses
<1>1. DiscoveryInv => GenuinePasses
  BY DEF DiscoveryInv, SessionOK, Judged, GenuinePasses, Device
<1> QED
  BY <1>1, DiscoveryInvariant, PTL

(* A request that was answered holds no connection, unless closing failed.  *)
THEOREM DiscoveryReleases == DiscoverySpec => []LetsGo
<1>1. DiscoveryInv => LetsGo
  BY DEF DiscoveryInv, LinkInv, LetsGo, At
<1> QED
  BY <1>1, DiscoveryInvariant, PTL

=============================================================================

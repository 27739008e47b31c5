-------------------------- MODULE PrintQueueHistory --------------------------
(***************************************************************************)
(* The print queue with a history of how its store was written: _persist_   *)
(* jobs takes no lock and rewrites jobs.json in place, so what the store    *)
(* promises depends on whether the last writer had it to itself.            *)
(***************************************************************************)
EXTENDS PrintQueue

VARIABLES alone, \* ghost: writers that nobody disturbed since their snapshot
          store  \* ghost: "current" after a write that was alone, "behind" after
                 \* another, "lost" once a crash hit a write or a store behind

hvars == <<vars, alone, store>>

(* A step of h that another writer notices.                                 *)
Disturbs(h) ==
    /\ up'
    /\ pc[h] \in {"store_job", "store_confirmed", "store_segments", "open", "write"}
    /\ pc'[h] # pc[h]

TakesSnapshot(h) == pc[h] = "snapshot" /\ pc'[h] = "open"
EndsWrite(h) == up' /\ pc[h] = "write" /\ pc'[h] = "idle"
Dies == up /\ ~up'

HInit == Init /\ alone = {} /\ store = "current"

History ==
    /\ alone' = IF Dies THEN {}
                ELSE {h \in Handlers :
                        /\ h \in alone \/ TakesSnapshot(h)
                        /\ ~EndsWrite(h)
                        /\ \A g \in Handlers \ {h} : ~Disturbs(g)}
    /\ store' = IF store = "lost" THEN "lost"
                ELSE IF Dies
                  THEN IF store = "behind" \/ \E h \in Handlers : pc[h] = "write"
                         THEN "lost" ELSE store
                ELSE IF \E h \in alone : EndsWrite(h) THEN "current"
                ELSE IF \E h \in Handlers : EndsWrite(h) THEN "behind"
                ELSE store

HNext == Next /\ History

HSpec == HInit /\ [][HNext]_hvars /\ Fairness

-----------------------------------------------------------------------------
AtRest == up /\ \A h \in Handlers : pc[h] = "idle"

(* What a client was last told of a job is in the job store, or that its    *)
(* confirmation came since, with the segments the daemon has of it,         *)
(* whenever the daemon is at rest and the last request to write the store   *)
(* had it to itself (implementation-status.md: jobs "survive daemon app     *)
(* restarts"): one undisturbed write mends what overlapping writers of      *)
(* _persist_jobs lost.                                                      *)
AnswersDurable ==
    AtRest /\ store = "current" =>
      \A j \in Jobs :
        answered[j] # NoRecord =>
          /\ Readable(disk)
          /\ disk.text.jobs[j] \in {answered[j], Confirmed(answered[j])}
          /\ j \in segments => j \in disk.text.segments

=============================================================================

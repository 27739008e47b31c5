-------------------------- MODULE PrintJobLifecycle --------------------------
(***************************************************************************)
(* What a client of the daemon may assume of a print job, whatever the      *)
(* threads, the job store and the transport do: a job appears once, with a  *)
(* state that agrees with what reached the printer; it becomes verified     *)
(* only from completed_unverified, after the operator's check; and a        *)
(* restart may only forget steps, never invent or contradict one.           *)
(***************************************************************************)
EXTENDS Integers

CONSTANTS Jobs, TotalBytes

VARIABLES state,    \* "none" or the state the queue shows for each job
          output,   \* raster bytes of each job that reached the printer
          checked   \* jobs whose output the operator has confirmed

lifecycleVars == <<state, output, checked>>

States == {"completed_unverified", "failed_partial_output", "failed_before_output",
           "confirmed_complete"}

Init ==
    /\ state = [j \in Jobs |-> "none"]
    /\ output = [j \in Jobs |-> 0]
    /\ checked = {}

PrintSome(j) ==
    /\ state[j] = "none"
    /\ \E n \in (output[j] + 1)..TotalBytes : output' = [output EXCEPT ![j] = n]
    /\ UNCHANGED <<state, checked>>

(* The states a new job may show.  A transport failure may go unnoticed     *)
(* while output is incomplete, but completion is never claimed too early.   *)
Outcomes(n) ==
    {"failed_before_output"}
      \cup (IF n > 0 THEN {"failed_partial_output"} ELSE {})
      \cup (IF n = TotalBytes THEN {"completed_unverified"} ELSE {})

Report(j) ==
    /\ state[j] = "none"
    /\ \E s \in Outcomes(output[j]) : state' = [state EXCEPT ![j] = s]
    /\ UNCHANGED <<output, checked>>

Check(j) ==
    /\ state[j] \in {"completed_unverified", "confirmed_complete"}
    /\ checked' = checked \cup {j}
    /\ UNCHANGED <<state, output>>

Confirm(j) ==
    /\ state[j] = "completed_unverified"
    /\ j \in checked
    /\ state' = [state EXCEPT ![j] = "confirmed_complete"]
    /\ UNCHANGED <<output, checked>>

(* What a job may have been before: a restart goes back to one of these.    *)
Earlier(s) ==
    {"none", s} \cup (IF s = "confirmed_complete" THEN {"completed_unverified"} ELSE {})

Forget ==
    /\ state' \in {f \in [Jobs -> States \cup {"none"}] : \A j \in Jobs : f[j] \in Earlier(state[j])}
    /\ UNCHANGED <<output, checked>>

Next ==
    \/ \E j \in Jobs : PrintSome(j) \/ Report(j) \/ Check(j) \/ Confirm(j)
    \/ Forget

Spec == Init /\ [][Next]_lifecycleVars
=============================================================================

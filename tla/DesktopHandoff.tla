---------------------------- MODULE DesktopHandoff ----------------------------
(***************************************************************************)
(* What the desktop and the agents' MCP shim share: three files that main   *)
(* writes in place (runtimeHandoff.ts) and that every tool call reads       *)
(* (runtime.py, server.py).  Main may be killed in the middle of a write.   *)
(* Base URL and port are the same in every launch and the daemon asks for   *)
(* no token, so a file is only missing, torn or whole.  Main starts a       *)
(* daemon once per launch and never looks after it (daemonSupervisor.ts,    *)
(* index.ts): a call meets the one that has the port, or none.              *)
(***************************************************************************)
EXTENDS Integers

CONSTANTS Calls,       \* tool calls under way
          MaxLaunches, \* bound: how often the application is started
          MaxPicks,    \* bound: opt-in records that the user selects
          MaxDamage    \* bound: files left torn

ASSUME HandoffAssumption ==
    MaxLaunches \in Nat /\ MaxPicks \in Nat /\ MaxDamage \in Nat

VARIABLES
    main,     \* where the main process is
    launch,   \* the application's launches so far
    token,    \* runtime/token
    runtime,  \* runtime/runtime.json: whole "plain", or "opted" with an opt-in file
    optin,    \* runtime/agent-direct-user-opt-in.json
    record,   \* the opt-in record that the hardware CLI writes in place
    calls,    \* the tool calls
    picks,    \* ghost: records selected so far
    chosen,   \* ghost: a selection was completed
    damage    \* ghost: files that a death, or a torn record, left torn

files == <<token, runtime, optin>>
ghosts == <<picks, chosen, damage>>
handoffVars == <<main, launch, token, runtime, optin, record, calls, picks, chosen, damage>>

-----------------------------------------------------------------------------
Broken == {"missing", "torn"}

(* Main between one write and the next; in between it is writing.           *)
Settled == {"down", "up", "inspected"}
Writing == {"token", "plain", "opted", "copy", "refer"}

NoCall == [phase |-> "idle", round |-> 0, refers |-> FALSE, disturbed |-> FALSE,
           result |-> "none"]

Active(c) == calls[c].phase \notin {"idle", "done"}

(* The tool calls under way may notice a write.                             *)
Disturb == calls' = [c \in Calls |-> [calls[c] EXCEPT !.disturbed = @ \/ Active(c)]]

HandoffInit ==
    /\ main = "down" /\ launch = 0
    /\ token = "missing" /\ runtime = "missing" /\ optin = "missing"
    /\ record \in {"torn", "whole"}
    /\ calls = [c \in Calls |-> NoCall]
    /\ picks = 0 /\ damage = 0 /\ chosen = FALSE

-----------------------------------------------------------------------------
(* startSidecar: the daemon is started, then the handoff is written, with   *)
(* the opt-in that the file of an earlier launch refers to.                 *)
Launch ==
    /\ main = "down" /\ launch < MaxLaunches
    /\ launch' = launch + 1
    /\ main' = "start"
    /\ UNCHANGED <<files, record, calls, ghosts>>

(* A runtime.json that cannot be read is logged, and stays as it is.        *)
HandoffFails ==
    /\ main = "start" /\ runtime = "torn"
    /\ main' = "up"
    /\ UNCHANGED <<launch, files, record, calls, ghosts>>

(* Mutant: a token that is there is kept.                                   *)
BeginTokenOnce ==
    /\ main = "start" /\ runtime # "torn"
    /\ IF token = "missing" THEN token' = "torn" /\ main' = "token"
       ELSE main' = "next" /\ UNCHANGED token
    /\ Disturb
    /\ UNCHANGED <<launch, runtime, optin, record, ghosts>>

BeginToken ==
    /\ main = "start" /\ runtime # "torn"
    /\ token' = "torn" /\ main' = "token"
    /\ Disturb
    /\ UNCHANGED <<launch, runtime, optin, record, ghosts>>

EndToken ==
    /\ main = "token"
    /\ token' = "whole" /\ main' = "next"
    /\ Disturb
    /\ UNCHANGED <<launch, runtime, optin, record, ghosts>>

(* Main has made the new content when it begins to write it.                *)
BeginRuntime ==
    /\ main = "next"
    /\ main' = IF runtime = "opted" /\ optin # "missing" THEN "opted" ELSE "plain"
    /\ runtime' = "torn"
    /\ Disturb
    /\ UNCHANGED <<launch, token, optin, record, ghosts>>

(* Mutant: the new handoff forgets the opt-in of the earlier one.           *)
EndRuntimeAfresh ==
    /\ main \in {"plain", "opted"}
    /\ runtime' = "plain" /\ main' = "up"
    /\ Disturb
    /\ UNCHANGED <<launch, token, optin, record, ghosts>>

EndRuntime ==
    /\ main \in {"plain", "opted"}
    /\ runtime' = main /\ main' = "up"
    /\ Disturb
    /\ UNCHANGED <<launch, token, optin, record, ghosts>>

-----------------------------------------------------------------------------
(* agent-direct-user-opt-ins:inspect.  The chosen record was in order when  *)
(* it was inspected; it is copied after that, as it is by then.             *)
Select ==
    /\ main = "up" /\ picks < MaxPicks
    /\ record = "whole"
    /\ main' = "inspected"
    /\ picks' = picks + 1
    /\ UNCHANGED <<launch, files, record, calls, chosen, damage>>

SelectFails ==
    /\ main = "inspected" /\ runtime \in Broken
    /\ main' = "up"
    /\ UNCHANGED <<launch, files, record, calls, ghosts>>

BeginCopy ==
    /\ main = "inspected" /\ runtime \notin Broken
    /\ optin' = "torn" /\ main' = "copy"
    /\ Disturb
    /\ UNCHANGED <<launch, token, runtime, record, ghosts>>

EndCopy ==
    /\ main = "copy"
    /\ optin' = record /\ main' = "copied"
    /\ IF record = "torn" THEN damage < MaxDamage /\ damage' = damage + 1
       ELSE UNCHANGED damage
    /\ Disturb
    /\ UNCHANGED <<launch, token, runtime, record, picks, chosen>>

(* Mutant: runtime.json refers to a file that is not copied.                *)
BeginReferUncopied ==
    /\ main \in {"inspected", "copied"} /\ runtime \notin Broken
    /\ runtime' = "torn" /\ main' = "refer"
    /\ Disturb
    /\ UNCHANGED <<launch, token, optin, record, ghosts>>

BeginRefer ==
    /\ main = "copied"
    /\ runtime' = "torn" /\ main' = "refer"
    /\ Disturb
    /\ UNCHANGED <<launch, token, optin, record, ghosts>>

EndRefer ==
    /\ main = "refer"
    /\ runtime' = "opted" /\ main' = "up"
    /\ chosen' = TRUE
    /\ Disturb
    /\ UNCHANGED <<launch, token, optin, record, picks, damage>>

(* The application is quit or killed.  Nobody stops its daemon.             *)
Kill ==
    /\ main # "down"
    /\ main' = "down"
    /\ IF main \in Writing THEN damage < MaxDamage /\ damage' = damage + 1
       ELSE UNCHANGED damage
    /\ UNCHANGED <<launch, files, record, calls, picks, chosen>>

(* The hardware CLI records an opt-in anew (CertificationLadder).           *)
RecordAnew ==
    /\ record' = IF record = "torn" THEN "whole" ELSE "torn"
    /\ UNCHANGED <<main, launch, files, calls, ghosts>>

-----------------------------------------------------------------------------
(* A tool call resolves the runtime; print_note does so twice, for the      *)
(* opt-in and for the client.  The shim that names runtime.json is written  *)
(* after the first handoff.                                                 *)
CallTool(c) ==
    /\ ~Active(c)
    /\ runtime # "missing"
    /\ \E round \in {1, 2} :
         calls' = [calls EXCEPT ![c] = [NoCall EXCEPT !.phase = "runtime", !.round = round,
                                                      !.disturbed = main \notin Settled]]
    /\ UNCHANGED <<main, launch, files, record, ghosts>>

End(c, result) ==
    calls' = [calls EXCEPT ![c].phase = "done", ![c].result = result]
Goto(c, phase) == calls' = [calls EXCEPT ![c].phase = phase]

Resolved(c) ==
    IF calls[c].round = 1
      THEN calls' = [calls EXCEPT ![c].round = 2, ![c].phase = "runtime"]
      ELSE Goto(c, "ask")

ReadRuntime(c) ==
    /\ calls[c].phase = "runtime"
    /\ IF runtime \in Broken THEN End(c, "raised")
       ELSE calls' = [calls EXCEPT ![c].phase = "token", ![c].refers = (runtime = "opted")]
    /\ UNCHANGED <<main, launch, files, record, ghosts>>

ReadToken(c) ==
    /\ calls[c].phase = "token"
    /\ IF token \in Broken THEN End(c, "raised")
       ELSE IF calls[c].refers THEN Goto(c, "opt-in")
       ELSE Resolved(c)
    /\ UNCHANGED <<main, launch, files, record, ghosts>>

ReadOptIn(c) ==
    /\ calls[c].phase = "opt-in"
    /\ IF optin \in Broken THEN End(c, "raised") ELSE Resolved(c)
    /\ UNCHANGED <<main, launch, files, record, ghosts>>

(* The request: the daemon's answer, its refusal, or app_not_running for a  *)
(* port that nobody has or an answer that takes more than 5 seconds.        *)
Ask(c) ==
    /\ calls[c].phase = "ask"
    /\ \E result \in {"answered", "refused", "app_not_running"} : End(c, result)
    /\ UNCHANGED <<main, launch, files, record, ghosts>>

Step(c) == ReadRuntime(c) \/ ReadToken(c) \/ ReadOptIn(c) \/ Ask(c)

Main ==
    \/ Launch \/ HandoffFails \/ BeginToken \/ EndToken \/ BeginRuntime \/ EndRuntime
    \/ Select \/ SelectFails \/ BeginCopy \/ EndCopy \/ BeginRefer \/ EndRefer \/ Kill

HandoffNext ==
    \/ Main \/ RecordAnew
    \/ \E c \in Calls : CallTool(c) \/ Step(c)

(* The shim's process goes on; nothing else is owed.                        *)
Fairness == \A c \in Calls : WF_handoffVars(Step(c))

HandoffSpec == HandoffInit /\ [][HandoffNext]_handoffVars /\ Fairness

-----------------------------------------------------------------------------
HandoffTypeOK ==
    /\ main \in Settled \cup Writing \cup {"start", "next", "copied"}
    /\ launch \in 0..MaxLaunches
    /\ token \in {"missing", "torn", "whole"}
    /\ runtime \in {"missing", "torn", "plain", "opted"}
    /\ optin \in {"missing", "torn", "whole"}
    /\ record \in {"torn", "whole"}
    /\ calls \in [Calls ->
         [phase : {"idle", "runtime", "token", "opt-in", "ask", "done"}, round : 0..2,
          refers : BOOLEAN, disturbed : BOOLEAN,
          result : {"none", "raised", "answered", "refused", "app_not_running"}]]
    /\ picks \in 0..MaxPicks /\ damage \in 0..MaxDamage
    /\ chosen \in BOOLEAN

(* The opt-in that the user selected outlives launches and deaths of the    *)
(* application: whenever main is not writing, runtime.json refers to it and *)
(* it is whole, unless a write was cut short or the record was itself being *)
(* written when it was copied.                                              *)
OptInSurvives ==
    chosen /\ damage = 0 /\ main \in Settled =>
      runtime = "opted" /\ optin = "whole"

(* A tool call raises over the files only if main was writing during it, or *)
(* a file had been left torn: a death of the application between two writes *)
(* leaves three files that fit together.                                    *)
QuietCallsAnswered ==
    \A c \in Calls :
      calls[c].result = "raised" => calls[c].disturbed \/ damage > 0

(* A completed launch mends what deaths of the application left behind: a   *)
(* token that was torn is whole again, and an opt-in that runtime.json      *)
(* refers to is there.  It does not mend a torn runtime.json, which fails   *)
(* this and every later launch's handoff, or a torn copy of the opt-in.     *)
LaunchMends ==
    main \in {"up", "inspected"} =>
      \/ runtime = "torn"
      \/ /\ runtime # "missing" /\ token = "whole"
         /\ runtime = "opted" => optin # "missing"

=============================================================================

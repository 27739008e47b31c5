----------------------------- MODULE AgentApproval -----------------------------
(***************************************************************************)
(* From an agent's tool call to a print: the MCP shim asks the daemon for a *)
(* preview and answers with an approval URL (tools.py, daemon_client.py);   *)
(* opening the URL puts the preview into the queue of the desktop's main    *)
(* process (agentPreviewApprovals.ts, index.ts); the page mirrors the queue *)
(* and reviews, approves and denies (App.tsx).  Page and main exchange      *)
(* messages, and a review or a print is a coroutine over the daemon.        *)
(***************************************************************************)
EXTENDS Integers, FiniteSets, Sequences, SequencesExt, Lists

CONSTANTS Previews,     \* the ids uuid4 may return
          Blocked,      \* previews whose safety report does not allow printing
          Calls,        \* bound: requests of the page in flight
          MaxApprovals, \* bound: how often one preview is approved
          MaxMessages,  \* bound: messages under way when the user adds one
          None

ASSUME ApprovalAssumption ==
    /\ IsFiniteSet(Calls)
    /\ Blocked \subseteq Previews
    /\ None \notin Previews
    /\ MaxApprovals \in Nat
    /\ MaxMessages \in Nat

VARIABLES
    tool,      \* MCP: whether a tool call waits for its preview
    abandoned, \* requests for a preview that MCP no longer waits for
    stage,     \* how far each preview has come, see Stages
    queue,     \* main: the pending approvals, newest first
    inbox,     \* messages from the page to main
    channel,   \* messages from main to the page
    pending,   \* page: pendingAgentPreviewApprovals
    flow,      \* page: agentPreviewApprovalWorkflow
    lastAuto,  \* page: lastAutoReviewedAgentPreviewRef
    calls,     \* page: the coroutines' requests
    jobs,      \* daemon: how many jobs printed each preview
    approvals  \* ghost: how often Approve was clicked for each preview

agent == <<tool, abandoned>>
page == <<pending, flow, lastAuto, calls>>
vars == <<tool, abandoned, stage, queue, inbox, channel, pending, flow, lastAuto,
          calls, jobs, approvals>>

-----------------------------------------------------------------------------
(* Created by the daemon; told to the agent by a tool's answer; its URL     *)
(* opened; decided: denied, or its job's answer received by the page.       *)
Stages == {"none", "created", "told", "opened", "decided"}
Told == {p \in Previews : stage[p] \in {"told", "opened", "decided"}}
Advance(p, s) == stage' = [stage EXCEPT ![p] = s]

Show(status, p) == [status |-> status, preview |-> p]
Busy == {"reviewing", "printing"}

Free == [kind |-> "free", preview |-> None, phase |-> "done"]
Without(list, p) == Keep(list, {i \in DOMAIN list : list[i] # p})
Listed(list) == [kind |-> "listed", list |-> list, call |-> None]
Removed(c) == [kind |-> "removed", list |-> <<>>, call |-> c]
AskList == [kind |-> "list", preview |-> None, call |-> None]
AskRemove(p, c) == [kind |-> "remove", preview |-> p, call |-> c]

Init ==
    /\ tool = "idle"
    /\ abandoned = 0
    /\ stage = [p \in Previews |-> "none"]
    /\ queue = <<>> /\ channel = <<>> /\ inbox = <<AskList>>
    /\ pending = <<>>
    /\ flow = Show("idle", None)
    /\ lastAuto = None
    /\ calls = [c \in Calls |-> Free]
    /\ jobs = [p \in Previews |-> 0]
    /\ approvals = [p \in Previews |-> 0]

-----------------------------------------------------------------------------
(* The MCP shim: one tool call at a time.                                   *)
Fresh == {p \in Previews : stage[p] = "none"}

CallTool ==
    /\ tool = "idle"
    /\ abandoned < Cardinality(Fresh)
    /\ tool' = "waiting"
    /\ UNCHANGED <<abandoned, stage, queue, inbox, channel, page, jobs, approvals>>

(* After 5 seconds the answer is app_not_running, whatever the daemon goes  *)
(* on to do; a daemon out of reach never gets the request.                  *)
ToolFails ==
    /\ tool = "waiting"
    /\ tool' = "idle"
    /\ abandoned' \in {abandoned, abandoned + 1}
    /\ UNCHANGED <<stage, queue, inbox, channel, page, jobs, approvals>>

(* Mutant: a request that nobody waits for is taken for an abandoned one.   *)
CreateUncounted ==
    /\ \E p \in Fresh :
         /\ Advance(p, IF tool = "waiting" THEN "told" ELSE "created")
         /\ abandoned' = IF tool = "waiting" THEN abandoned ELSE abandoned - 1
    /\ tool' = "idle"
    /\ UNCHANGED <<queue, inbox, channel, page, jobs, approvals>>

(* POST /v1/render/document-preview.  The tool answers approval_required    *)
(* with the preview's URL, unless the answer comes too late or the opt-in   *)
(* that the tool was given does not validate.                               *)
CreatePreview ==
    /\ \E p \in Fresh :
         \/ /\ tool = "waiting" /\ tool' = "idle" /\ UNCHANGED abandoned
            /\ Advance(p, "told") \/ Advance(p, "created")
         \/ /\ abandoned > 0 /\ abandoned' = abandoned - 1 /\ UNCHANGED tool
            /\ Advance(p, "created")
    /\ UNCHANGED <<queue, inbox, channel, page, jobs, approvals>>

-----------------------------------------------------------------------------
(* The desktop's main process.  A URL that is opened again is the newest.   *)
OpenUrl(p) ==
    /\ p \in Told
    /\ Len(inbox) + Len(channel) < MaxMessages
    /\ queue' = <<p>> \o Without(queue, p)
    /\ channel' = Append(channel, Listed(queue'))
    /\ stage' = [stage EXCEPT ![p] = IF @ = "told" THEN "opened" ELSE @]
    /\ UNCHANGED <<agent, inbox, page, jobs, approvals>>

HandleList ==
    /\ inbox # <<>> /\ Head(inbox).kind = "list"
    /\ channel' = Append(channel, Listed(queue))
    /\ inbox' = Tail(inbox)
    /\ UNCHANGED <<agent, stage, queue, page, jobs, approvals>>

(* Mutant: the page is not told of the queue without the preview.           *)
HandleRemoveQuietly ==
    /\ inbox # <<>> /\ Head(inbox).kind = "remove"
    /\ queue' = Without(queue, Head(inbox).preview)
    /\ channel' = IF Head(inbox).call = None THEN channel
                  ELSE Append(channel, Removed(Head(inbox).call))
    /\ inbox' = Tail(inbox)
    /\ UNCHANGED <<agent, stage, page, jobs, approvals>>

(* The handler publishes the queue, then its promise is answered.           *)
HandleRemove ==
    /\ inbox # <<>> /\ Head(inbox).kind = "remove"
    /\ queue' = Without(queue, Head(inbox).preview)
    /\ channel' = Append(channel, Listed(queue'))
                    \o IF Head(inbox).call = None THEN <<>>
                       ELSE <<Removed(Head(inbox).call)>>
    /\ inbox' = Tail(inbox)
    /\ UNCHANGED <<agent, stage, page, jobs, approvals>>

-----------------------------------------------------------------------------
(* The page.                                                                *)
ReceiveList ==
    /\ channel # <<>> /\ Head(channel).kind = "listed"
    /\ pending' = Head(channel).list
    /\ channel' = Tail(channel)
    /\ UNCHANGED <<agent, stage, queue, inbox, flow, lastAuto, calls, jobs, approvals>>

(* reviewAgentPreviewInput.                                                 *)
Review(p) ==
    /\ flow' = Show("reviewing", p)
    /\ \E c \in Calls :
         /\ calls[c] = Free
         /\ calls' = [calls EXCEPT ![c] = [kind |-> "review", preview |-> p, phase |-> "sent"]]

(* The Review button, for an id that the user copied from the agent.        *)
ReviewInput(p) ==
    /\ p \in Told
    /\ flow.status \notin Busy
    /\ Review(p)
    /\ UNCHANGED <<agent, stage, queue, inbox, channel, pending, lastAuto, jobs, approvals>>

(* The buttons of the list are never disabled.                              *)
Select(p) ==
    /\ p \in Range(pending)
    /\ lastAuto' = p
    /\ Review(p)
    /\ UNCHANGED <<agent, stage, queue, inbox, channel, pending, jobs, approvals>>

(* Mutant: only a panel that nobody used yet shows what arrives.            *)
AutoReviewFirst ==
    /\ pending # <<>>
    /\ lastAuto # Head(pending)
    /\ flow.status = "idle"
    /\ lastAuto' = Head(pending)
    /\ Review(Head(pending))
    /\ UNCHANGED <<agent, stage, queue, inbox, channel, pending, jobs, approvals>>

(* The effect that shows the newest preview by itself, once.                *)
AutoReview ==
    /\ pending # <<>>
    /\ lastAuto # Head(pending)
    /\ flow.status \notin Busy
    /\ lastAuto' = Head(pending)
    /\ Review(Head(pending))
    /\ UNCHANGED <<agent, stage, queue, inbox, channel, pending, jobs, approvals>>

(* Deny and Approve are there for the preview shown as ready.  Denying does *)
(* not wait for main.                                                       *)
Deny ==
    /\ flow.status = "ready"
    /\ Len(inbox) + Len(channel) < MaxMessages
    /\ flow' = Show("denied", flow.preview)
    /\ pending' = Without(pending, flow.preview)
    /\ inbox' = Append(inbox, AskRemove(flow.preview, None))
    /\ Advance(flow.preview, "decided")
    /\ UNCHANGED <<agent, queue, channel, lastAuto, calls, jobs, approvals>>

Approve ==
    /\ flow.status = "ready"
    /\ flow.preview \notin Blocked
    /\ approvals[flow.preview] < MaxApprovals
    /\ approvals' = [approvals EXCEPT ![flow.preview] = @ + 1]
    /\ flow' = Show("printing", flow.preview)
    /\ \E c \in Calls :
         /\ calls[c] = Free
         /\ calls' = [calls EXCEPT ![c] =
                         [kind |-> "print", preview |-> flow.preview, phase |-> "sent"]]
    /\ UNCHANGED <<agent, stage, queue, inbox, channel, pending, lastAuto, jobs>>

-----------------------------------------------------------------------------
(* The daemon's side of a print.  A blocked preview is refused, and one that *)
(* has expired by now (Fails).  The job may fail: PrintQueue models that.   *)
Hangup(c) == calls' = [calls EXCEPT ![c] = Free]

ServePrint(c) ==
    /\ calls[c].kind = "print" /\ calls[c].phase \in {"sent", "orphan"}
    /\ calls[c].preview \notin Blocked
    /\ jobs' = [jobs EXCEPT ![calls[c].preview] = @ + 1]
    /\ IF calls[c].phase = "orphan" THEN Hangup(c)
       ELSE calls' = [calls EXCEPT ![c].phase = "answered"]
    /\ UNCHANGED <<agent, stage, queue, inbox, channel, pending, flow, lastAuto, approvals>>

-----------------------------------------------------------------------------
(* The coroutines go on, each setting the one workflow state.  Reading a    *)
(* preview changes nothing, so its answer and what follows are one step.    *)
Reviewed(c) ==
    /\ calls[c].kind = "review"
    /\ flow' = Show("ready", calls[c].preview)
    /\ Hangup(c)
    /\ UNCHANGED <<agent, stage, queue, inbox, channel, pending, lastAuto, jobs, approvals>>

(* The job is put into the history, the preview taken off the list, and     *)
(* main is asked to do the same.                                            *)
PrintAnswered(c) ==
    /\ calls[c].phase = "answered"
    /\ Advance(calls[c].preview, "decided")
    /\ pending' = Without(pending, calls[c].preview)
    /\ inbox' = Append(inbox, AskRemove(calls[c].preview, c))
    /\ calls' = [calls EXCEPT ![c].phase = "discarding"]
    /\ UNCHANGED <<agent, queue, channel, flow, lastAuto, jobs, approvals>>

(* Mutant: the outcome is shown of the preview that the panel has by now.   *)
PrintedCurrent ==
    /\ channel # <<>> /\ Head(channel).kind = "removed"
    /\ flow' = Show("printed", flow.preview)
    /\ Hangup(Head(channel).call)
    /\ channel' = Tail(channel)
    /\ UNCHANGED <<agent, stage, queue, inbox, pending, lastAuto, jobs, approvals>>

Printed ==
    /\ channel # <<>> /\ Head(channel).kind = "removed"
    /\ LET c == Head(channel).call
       IN  flow' = Show("printed", calls[c].preview) /\ Hangup(c)
    /\ channel' = Tail(channel)
    /\ UNCHANGED <<agent, stage, queue, inbox, pending, lastAuto, jobs, approvals>>

(* Mutants: a print whose answer was lost is asked for again; a failed      *)
(* review is not shown while previews are pending.                          *)
FailsAndRetries(c) ==
    /\ calls[c].phase \in {"sent", "answered"}
    /\ IF calls[c].phase = "answered"
         THEN calls' = [calls EXCEPT ![c].phase = "sent"] /\ UNCHANGED flow
         ELSE flow' = Show("error", None) /\ Hangup(c)
    /\ UNCHANGED <<agent, stage, queue, inbox, channel, pending, lastAuto, jobs, approvals>>

(* The daemon refused, or the connection broke before it did its part, or   *)
(* after it.  The preview stays in the list: it may be approved again.      *)
Fails(c) ==
    /\ calls[c].phase \in {"sent", "answered"}
    /\ flow' = Show("error", None)
    /\ Hangup(c)
    /\ UNCHANGED <<agent, stage, queue, inbox, channel, pending, lastAuto, jobs, approvals>>

(* A print that was sent by a page now gone does not reach the daemon.      *)
OrphanFails(c) ==
    /\ calls[c].phase = "orphan"
    /\ Hangup(c)
    /\ UNCHANGED <<agent, stage, queue, inbox, channel, pending, flow, lastAuto, jobs,
                   approvals>>

(* The page loads anew, or its window is closed and made again: it listens  *)
(* and asks for the list.  What it asked of main and of the daemon goes on. *)
Reload ==
    /\ Len(inbox) + Len(channel) < MaxMessages
    /\ pending' = <<>>
    /\ flow' = Show("idle", None)
    /\ lastAuto' = None
    /\ calls' = [c \in Calls |->
                   IF calls[c].kind = "print" /\ calls[c].phase \in {"sent", "orphan"}
                     THEN [calls[c] EXCEPT !.phase = "orphan"] ELSE Free]
    /\ channel' = <<>>
    /\ inbox' = Append([i \in DOMAIN inbox |-> [inbox[i] EXCEPT !.call = None]], AskList)
    /\ UNCHANGED <<agent, stage, queue, jobs, approvals>>

Main == HandleList \/ HandleRemove
Receive == ReceiveList \/ Printed
Return(c) == Reviewed(c) \/ PrintAnswered(c) \/ Fails(c)

Next ==
    \/ CallTool \/ ToolFails \/ CreatePreview
    \/ Main \/ Receive \/ AutoReview \/ Deny \/ Approve \/ Reload
    \/ \E p \in Previews : OpenUrl(p) \/ ReviewInput(p) \/ Select(p)
    \/ \E c \in Calls : ServePrint(c) \/ OrphanFails(c) \/ Return(c)

(* Messages arrive, the daemon answers, promises that have settled are gone *)
(* on with; React runs the effect after each render that it depends on, so  *)
(* also when the panel is busy in between.                                  *)
Fairness ==
    /\ WF_vars(Main)
    /\ WF_vars(Receive)
    /\ SF_vars(AutoReview)
    /\ \A c \in Calls : WF_vars(Return(c)) /\ WF_vars(ServePrint(c) \/ OrphanFails(c))

Spec == Init /\ [][Next]_vars /\ Fairness

-----------------------------------------------------------------------------
TypeOK ==
    /\ tool \in {"idle", "waiting"}
    /\ abandoned \in Nat
    /\ stage \in [Previews -> Stages]
    /\ queue \in Seq(Previews) /\ pending \in Seq(Previews)
    /\ inbox \in Seq([kind : {"list", "remove"}, preview : Previews \cup {None},
                      call : Calls \cup {None}])
    /\ channel \in Seq([kind : {"listed", "removed"}, list : Seq(Previews),
                        call : Calls \cup {None}])
    /\ flow \in [status : {"idle", "reviewing", "ready", "printing", "printed", "denied",
                           "error"}, preview : Previews \cup {None}]
    /\ lastAuto \in Previews \cup {None}
    /\ calls \in [Calls -> [kind : {"review", "print"}, preview : Previews,
                            phase : {"sent", "orphan", "answered", "discarding"}] \cup {Free}]
    /\ jobs \in [Previews -> Nat]
    /\ approvals \in [Previews -> Nat]

Printing(p) == {c \in Calls : calls[c].kind = "print" /\ calls[c].preview = p}

(* Prints of p that the daemon may still get to.                            *)
Underway(p) == {c \in Printing(p) : calls[c].phase \in {"sent", "orphan"}}

(* The daemon prints a preview at most once for each time the user approved *)
(* it, lost answers, repeated approvals, reloads and tool calls that timed  *)
(* out included; and never a blocked one.                                   *)
PrintsAreApproved ==
    \A p \in Previews :
      /\ jobs[p] + Cardinality(Underway(p)) <= approvals[p]
      /\ jobs[p] > 0 => p \notin Blocked

(* When no message is under way the page lists what main has pending, and   *)
(* every preview whose URL was opened is in it until the user denied it or  *)
(* was told of its print: no crossing of lists, removals and reloads loses  *)
(* a request for approval or keeps one that was dealt with.                 *)
UndecidedIsListed ==
    inbox = <<>> /\ channel = <<>> =>
      /\ pending = queue
      /\ \A p \in Previews : stage[p] = "opened" => p \in Range(pending)

(* The panel does not claim more than happened, whatever order the answers  *)
(* of overlapping reviews and prints come in: while it says that a preview  *)
(* is printing its request is unsettled, and one that it says is printed    *)
(* had its job.                                                             *)
PanelTruthful ==
    /\ flow.status = "printing" => Printing(flow.preview) # {}
    /\ flow.status = "printed" => flow.preview \in {p \in Previews : jobs[p] > 0}

(* The newest pending preview is shown by itself, however busy the panel    *)
(* is, unless a newer one comes or it is dealt with before.                 *)
NewestIsReviewed ==
    \A p \in Previews :
      (pending # <<>> /\ Head(pending) = p) ~>
        (lastAuto = p \/ pending = <<>> \/ Head(pending) # p)
=============================================================================

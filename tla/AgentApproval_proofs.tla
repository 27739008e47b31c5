------------------------- MODULE AgentApproval_proofs -------------------------
(***************************************************************************)
(* What an agent depends on in the desktop, for any number of previews,     *)
(* requests, messages and approvals.  First, every print was approved: the  *)
(* count that PrintsAreApproved bounds moves from approvals to requests     *)
(* under way to jobs, and each step of the page, of main and of the daemon  *)
(* moves one unit at most.  Then, the lists of main and of the page agree   *)
(* whenever no message is under way, and the panel is truthful.             *)
(***************************************************************************)
EXTENDS AgentApproval, Lists_proofs, FiniteSetTheorems, TLAPS

(* Which preview a request is for is left open: a list that main sent, or   *)
(* an id that the user typed, may name any.                                 *)
IsRequest(v) ==
    /\ v = [kind |-> v.kind, preview |-> v.preview, phase |-> v.phase]
    /\ v.kind \in {"review", "print"}

CountsOK == jobs \in [Previews -> Nat] /\ approvals \in [Previews -> Nat]

CallsOK ==
    /\ calls = [c \in Calls |-> calls[c]]
    /\ \A c \in Calls : calls[c] = Free \/ IsRequest(calls[c])
    /\ \A c \in Calls : calls[c].kind = "print" => calls[c].preview \notin Blocked

IInv == CountsOK /\ CallsOK /\ PrintsAreApproved

(* A request that is dropped, or goes on to a phase in which the daemon is  *)
(* done with it.                                                            *)
Settles(c, v) ==
    /\ calls' = [calls EXCEPT ![c] = v]
    /\ c \in Calls =>
         \/ v = Free
         \/ /\ IsRequest(v) /\ v.phase \notin {"sent", "orphan"}
            /\ v.kind = calls[c].kind /\ v.preview = calls[c].preview

-----------------------------------------------------------------------------
LEMMA FreeIsNoRequest == Free.kind = "free" /\ Free.phase = "done"
BY DEF Free

LEMMA OneMore ==
    ASSUME NEW count \in [Previews -> Nat], NEW p
    PROVE  [count EXCEPT ![p] = @ + 1] \in [Previews -> Nat]
<1>1. \A q \in Previews : count[q] \in Nat /\ count[q] + 1 \in Nat
  OBVIOUS
<1>2. CASE p \in Previews
  BY <1>1, <1>2
<1>3. CASE p \notin Previews
  BY <1>3
<1> QED
  BY <1>2, <1>3

(* The requests under way are finitely many.                                *)
LEMMA UnderwayFinite ==
    \A p : IsFiniteSet(Underway(p)) /\ Cardinality(Underway(p)) \in Nat
<1>1. \A p : Underway(p) \subseteq Calls
  BY DEF Underway, Printing
<1> QED
  BY <1>1, ApprovalAssumption, FS_Subset, FS_CardinalityType

(* The invariant stands when nothing is approved or printed and no request  *)
(* is added to those under way.                                             *)
LEMMA NothingNew ==
    ASSUME IInv, CallsOK', UNCHANGED <<jobs, approvals>>,
           \A p \in Previews : Underway(p)' \subseteq Underway(p)
    PROVE  IInv'
<1>1. CountsOK'
  BY DEF IInv, CountsOK
<1>2. ASSUME NEW p \in Previews
      PROVE  /\ jobs[p] + Cardinality(Underway(p))' <= approvals[p]
             /\ jobs[p] > 0 => p \notin Blocked
  <2>1. Cardinality(Underway(p)') \in Nat
        /\ Cardinality(Underway(p)') <= Cardinality(Underway(p))
    BY UnderwayFinite, FS_Subset, FS_CardinalityType
  <2>2. jobs[p] \in Nat /\ approvals[p] \in Nat /\ Cardinality(Underway(p)) \in Nat
    BY UnderwayFinite DEF IInv, CountsOK
  <2> QED
    BY <2>1, <2>2 DEF IInv, PrintsAreApproved
<1>3. PrintsAreApproved'
  BY <1>2 DEF PrintsAreApproved
<1> QED
  BY <1>1, <1>3 DEF IInv

LEMMA OneCallLess ==
    ASSUME IInv, NEW c, NEW v, Settles(c, v)
    PROVE  CallsOK' /\ \A p \in Previews : Underway(p)' \subseteq Underway(p) \ {c}
<1> USE DEF IInv, CallsOK, Settles
<1>1. calls' = [d \in Calls |-> calls'[d]]
  OBVIOUS
<1>2. \A d \in Calls : calls'[d] = IF d = c THEN v ELSE calls[d]
  OBVIOUS
<1>3. \A d \in Calls : calls'[d] = Free \/ IsRequest(calls'[d])
  BY <1>2
<1>4. \A d \in Calls : calls'[d].kind = "print" => calls'[d].preview \notin Blocked
  BY <1>2, FreeIsNoRequest
<1>5. CallsOK'
  BY <1>1, <1>3, <1>4 DEF IsRequest
<1>6. ASSUME NEW p \in Previews PROVE Underway(p)' \subseteq Underway(p) \ {c}
  BY <1>2, FreeIsNoRequest DEF Underway, Printing
<1> QED
  BY <1>5, <1>6

(* The steps that end a call, or that follow the daemon's answer.           *)
LEMMA SettledIInv ==
    ASSUME IInv, NEW c, NEW v, Settles(c, v), UNCHANGED <<jobs, approvals>>
    PROVE  IInv'
BY OneCallLess, NothingNew

(* Steps of the agent, of main and of the list touch none of it.            *)
LEMMA UntouchedIInv ==
    ASSUME IInv, UNCHANGED <<jobs, approvals, calls>>
    PROVE  IInv'
<1>1. CallsOK' /\ \A q \in Previews : Underway(q)' \subseteq Underway(q)
  BY DEF IInv, CallsOK, Underway, Printing, IsRequest
<1> QED
  BY <1>1, NothingNew

-----------------------------------------------------------------------------
LEMMA InitIInv == Init => IInv
<1> SUFFICES ASSUME Init PROVE IInv
  OBVIOUS
<1>1. CountsOK
  BY DEF Init, CountsOK
<1>2. CallsOK
  BY FreeIsNoRequest DEF Init, CallsOK
<1>3. \A p \in Previews : Cardinality(Underway(p)) = 0
  <2>1. \A p \in Previews : Underway(p) = {}
    BY FreeIsNoRequest DEF Init, Underway, Printing
  <2> QED
    BY <2>1, FS_EmptySet
<1>4. PrintsAreApproved
  BY <1>3 DEF Init, PrintsAreApproved
<1> QED
  BY <1>1, <1>2, <1>4 DEF IInv

(* A free call takes a request.                                             *)
LEMMA SentCalls ==
    ASSUME IInv, NEW c \in Calls, NEW kind \in {"review", "print"}, NEW p,
           kind = "print" => p \notin Blocked,
           calls[c] = Free,
           calls' = [calls EXCEPT ![c] = [kind |-> kind, preview |-> p, phase |-> "sent"]]
    PROVE  /\ CallsOK'
           /\ \A d \in Calls : calls'[d] =
                IF d = c THEN [kind |-> kind, preview |-> p, phase |-> "sent"] ELSE calls[d]
<1> DEFINE v == [kind |-> kind, preview |-> p, phase |-> "sent"]
<1>1. \A d \in Calls : calls'[d] = IF d = c THEN v ELSE calls[d]
  BY DEF IInv, CallsOK
<1>2. calls' = [d \in Calls |-> calls'[d]]
  BY DEF IInv, CallsOK
<1>3. IsRequest(v) /\ v.kind = kind /\ v.preview = p
  BY DEF IsRequest
<1> HIDE DEF v
<1>4. \A d \in Calls : calls'[d] = Free \/ IsRequest(calls'[d])
  BY <1>1, <1>3 DEF IInv, CallsOK
<1>5. \A d \in Calls : calls'[d].kind = "print" => calls'[d].preview \notin Blocked
  BY <1>1, <1>3 DEF IInv, CallsOK
<1>6. CallsOK'
  BY <1>2, <1>4, <1>5 DEF CallsOK, IsRequest
<1> QED
  BY <1>1, <1>6 DEF v

LEMMA ReviewIInv ==
    ASSUME IInv, NEW p, Review(p), UNCHANGED <<jobs, approvals>>
    PROVE  IInv'
<1>1. PICK c \in Calls :
        /\ calls[c] = Free
        /\ calls' = [calls EXCEPT ![c] = [kind |-> "review", preview |-> p, phase |-> "sent"]]
  BY DEF Review
<1>2. /\ CallsOK'
      /\ \A d \in Calls : calls'[d] =
           IF d = c THEN [kind |-> "review", preview |-> p, phase |-> "sent"] ELSE calls[d]
  BY <1>1, SentCalls
<1>3. \A q \in Previews : Underway(q)' \subseteq Underway(q)
  BY <1>2 DEF Underway, Printing
<1> QED
  BY <1>2, <1>3, NothingNew

(* An approval is counted with the request that it sends.                   *)
LEMMA ApproveIInv ==
    ASSUME IInv, Approve
    PROVE  IInv'
<1> DEFINE p == flow.preview
           v == [kind |-> "print", preview |-> p, phase |-> "sent"]
<1>1. PICK c \in Calls : calls[c] = Free /\ calls' = [calls EXCEPT ![c] = v]
  BY DEF Approve
<1>2. p \notin Blocked /\ jobs' = jobs /\ approvals' = [approvals EXCEPT ![p] = @ + 1]
  BY DEF Approve
<1>3. CallsOK' /\ \A d \in Calls : calls'[d] = IF d = c THEN v ELSE calls[d]
  BY <1>1, <1>2, SentCalls
<1>4. CountsOK'
  <2>1. approvals \in [Previews -> Nat] /\ jobs' \in [Previews -> Nat]
    BY <1>2 DEF IInv, CountsOK
  <2> QED
    BY <1>2, <2>1, OneMore DEF CountsOK
<1>5. PrintsAreApproved'
  <2> SUFFICES ASSUME NEW q \in Previews
               PROVE  /\ jobs'[q] + Cardinality(Underway(q)') <= approvals'[q]
                      /\ jobs'[q] > 0 => q \notin Blocked
    BY DEF PrintsAreApproved
  <2>1. jobs[q] \in Nat /\ approvals[q] \in Nat /\ Cardinality(Underway(q)) \in Nat
    BY UnderwayFinite DEF IInv, CountsOK
  <2>2. CASE q = p
    <3>1. Underway(q)' = Underway(q) \cup {c}
      BY <1>3, <2>2 DEF Underway, Printing
    <3>2. c \notin Underway(q)
      BY <1>1, FreeIsNoRequest DEF Underway, Printing
    <3>3. Cardinality(Underway(q)') = Cardinality(Underway(q)) + 1
      BY <3>1, <3>2, UnderwayFinite, FS_AddElement
    <3> QED
      BY <1>2, <2>1, <2>2, <3>3 DEF IInv, PrintsAreApproved, CountsOK
  <2>3. CASE q # p
    <3>1. Underway(q)' = Underway(q)
      BY <1>1, <1>3, <2>3, FreeIsNoRequest DEF Underway, Printing
    <3>2. approvals'[q] = approvals[q]
      BY <1>2, <2>3 DEF IInv, CountsOK
    <3> QED
      BY <1>2, <3>1, <3>2 DEF IInv, PrintsAreApproved
  <2> QED
    BY <2>2, <2>3
<1> QED
  BY <1>3, <1>4, <1>5 DEF IInv

(* The request that becomes a job is no longer under way.                   *)
LEMMA ServePrintIInv ==
    ASSUME IInv, NEW c \in Calls, ServePrint(c)
    PROVE  IInv'
<1> DEFINE p == calls[c].preview
<1>1. /\ IsRequest(calls[c]) /\ calls[c].kind = "print"
      /\ calls[c].phase \in {"sent", "orphan"} /\ p \notin Blocked
  BY FreeIsNoRequest DEF IInv, CallsOK, ServePrint
<1>2. PICK v : Settles(c, v)
  <2>1. CASE calls' = [calls EXCEPT ![c] = Free]
    BY <2>1 DEF Settles
  <2>2. CASE calls' = [calls EXCEPT ![c] = [calls[c] EXCEPT !.phase = "answered"]]
    <3> DEFINE w == [calls[c] EXCEPT !.phase = "answered"]
    <3>1. IsRequest(w) /\ w.phase = "answered"
          /\ w.kind = calls[c].kind /\ w.preview = calls[c].preview
      BY <1>1 DEF IsRequest
    <3> QED
      BY <2>2, <3>1 DEF Settles
  <2> QED
    BY <2>1, <2>2 DEF ServePrint, Hangup
<1>3. CallsOK' /\ \A q \in Previews : Underway(q)' \subseteq Underway(q) \ {c}
  BY <1>2, OneCallLess
<1>4. jobs' = [jobs EXCEPT ![p] = @ + 1] /\ approvals' = approvals
  BY DEF ServePrint
<1>5. CountsOK'
  <2>1. jobs \in [Previews -> Nat] /\ approvals' \in [Previews -> Nat]
    BY <1>4 DEF IInv, CountsOK
  <2> QED
    BY <1>4, <2>1, OneMore DEF CountsOK
<1>6. PrintsAreApproved'
  <2> SUFFICES ASSUME NEW q \in Previews
               PROVE  /\ jobs'[q] + Cardinality(Underway(q)') <= approvals'[q]
                      /\ jobs'[q] > 0 => q \notin Blocked
    BY DEF PrintsAreApproved
  <2>1. jobs[q] \in Nat /\ approvals[q] \in Nat /\ Cardinality(Underway(q)) \in Nat
    BY UnderwayFinite DEF IInv, CountsOK
  <2>2. /\ Cardinality(Underway(q) \ {c}) \in Nat /\ Cardinality(Underway(q)') \in Nat
        /\ Cardinality(Underway(q)') <= Cardinality(Underway(q) \ {c})
        /\ Cardinality(Underway(q) \ {c}) <= Cardinality(Underway(q))
    <3>1. IsFiniteSet(Underway(q) \ {c})
      BY UnderwayFinite, FS_Subset
    <3> QED
      BY <1>3, <3>1, UnderwayFinite, FS_Subset, FS_CardinalityType
  <2>3. CASE q = p
    <3>1. c \in Underway(q)
      BY <1>1, <2>3 DEF Underway, Printing
    <3>2. Cardinality(Underway(q) \ {c}) = Cardinality(Underway(q)) - 1
      BY <3>1, UnderwayFinite, FS_RemoveElement
    <3> QED
      BY <1>1, <1>4, <2>1, <2>2, <2>3, <3>2 DEF IInv, PrintsAreApproved, CountsOK
  <2>4. CASE q # p
    <3>1. jobs'[q] = jobs[q]
      BY <1>4, <2>4 DEF IInv, CountsOK
    <3> QED
      BY <1>4, <2>1, <2>2, <3>1 DEF IInv, PrintsAreApproved
  <2> QED
    BY <2>3, <2>4
<1> QED
  BY <1>3, <1>5, <1>6 DEF IInv

(* A page that is loaded anew leaves its prints to the daemon.              *)
LEMMA ReloadIInv ==
    ASSUME IInv, Reload
    PROVE  IInv'
<1> DEFINE Left(c) == [calls[c] EXCEPT !.phase = "orphan"]
<1>1. calls' = [c \in Calls |->
        IF calls[c].kind = "print" /\ calls[c].phase \in {"sent", "orphan"}
          THEN Left(c) ELSE Free]
  BY DEF Reload
<1>2. \A c \in Calls : calls[c].kind = "print" =>
        IsRequest(Left(c)) /\ Left(c).preview = calls[c].preview
  BY FreeIsNoRequest DEF IInv, CallsOK, IsRequest
<1> HIDE DEF Left
<1>3. \A c \in Calls : calls'[c].kind = "print" =>
        /\ calls[c].kind = "print" /\ calls[c].phase \in {"sent", "orphan"}
        /\ calls'[c].preview = calls[c].preview
  BY <1>1, <1>2, FreeIsNoRequest
<1>4. CallsOK'
  <2>1. calls' = [c \in Calls |-> calls'[c]]
    BY <1>1
  <2>2. \A c \in Calls : calls'[c] = Free \/ IsRequest(calls'[c])
    BY <1>1, <1>2
  <2> QED
    BY <1>3, <2>1, <2>2 DEF IInv, CallsOK, IsRequest
<1>5. \A q \in Previews : Underway(q)' \subseteq Underway(q)
  BY <1>3 DEF Underway, Printing
<1>6. UNCHANGED <<jobs, approvals>>
  BY DEF Reload
<1> QED
  BY <1>4, <1>5, <1>6, NothingNew

LEMMA NextIInv == IInv /\ [Next]_vars => IInv'
<1> SUFFICES ASSUME IInv, [Next]_vars PROVE IInv'
  OBVIOUS
<1>1. CASE CallTool \/ ToolFails \/ CreatePreview \/ Main \/ ReceiveList \/ Deny
             \/ (\E p \in Previews : OpenUrl(p)) \/ UNCHANGED vars
  <2>1. UNCHANGED <<jobs, approvals, calls>>
    BY <1>1 DEF CallTool, ToolFails, CreatePreview, Main, HandleList, HandleRemove,
       ReceiveList, Deny, OpenUrl, page, vars
  <2> QED
    BY <2>1, UntouchedIInv
<1>2. CASE AutoReview \/ \E p \in Previews : ReviewInput(p) \/ Select(p)
  <2>1. PICK p : Review(p) /\ UNCHANGED <<jobs, approvals>>
    BY <1>2 DEF AutoReview, ReviewInput, Select
  <2> QED
    BY <2>1, ReviewIInv
<1>3. CASE Approve
  BY <1>3, ApproveIInv
<1>4. CASE Reload
  BY <1>4, ReloadIInv
<1>5. CASE Printed \/ \E c \in Calls : Reviewed(c) \/ Fails(c) \/ OrphanFails(c)
  <2>1. PICK c : calls' = [calls EXCEPT ![c] = Free] /\ UNCHANGED <<jobs, approvals>>
    BY <1>5 DEF Printed, Reviewed, Fails, OrphanFails, Hangup
  <2>2. Settles(c, Free)
    BY <2>1 DEF Settles
  <2> QED
    BY <2>1, <2>2, SettledIInv
<1>6. ASSUME NEW c \in Calls, PrintAnswered(c) PROVE IInv'
  <2> DEFINE v == [calls[c] EXCEPT !.phase = "discarding"]
  <2>1. IsRequest(calls[c])
    BY <1>6, FreeIsNoRequest DEF PrintAnswered, IInv, CallsOK
  <2>2. IsRequest(v) /\ v.phase = "discarding"
        /\ v.kind = calls[c].kind /\ v.preview = calls[c].preview
    BY <2>1 DEF IsRequest
  <2>3. calls' = [calls EXCEPT ![c] = v] /\ UNCHANGED <<jobs, approvals>>
    BY <1>6 DEF PrintAnswered
  <2>4. Settles(c, v)
    BY <2>2, <2>3 DEF Settles
  <2> QED
    BY <2>3, <2>4, SettledIInv
<1>7. ASSUME NEW c \in Calls, ServePrint(c) PROVE IInv'
  BY <1>7, ServePrintIInv
<1> QED
  BY <1>1, <1>2, <1>3, <1>4, <1>5, <1>6, <1>7 DEF Next, Receive, Return

-----------------------------------------------------------------------------
(* The invariant behind the theorem: what requests there are, and how many. *)
THEOREM ApprovalInvariant == Spec => []IInv
BY InitIInv, NextIInv, PTL DEF Spec

(* The daemon prints a preview at most once for each approval, and never a  *)
(* blocked one, whatever is lost, late, repeated or reloaded (App.tsx,      *)
(* agentPreviewApprovals.ts, api/jobs.py).                                  *)
THEOREM EveryPrintIsApproved == Spec => []PrintsAreApproved
<1>1. IInv => PrintsAreApproved
  BY DEF IInv
<1> QED
  BY <1>1, ApprovalInvariant, PTL

-----------------------------------------------------------------------------
(* The lists and the panel: MInv.  The page's list is main's, or a newer    *)
(* one is under way or will be asked for; what the page asked to remove was *)
(* decided; and every print that waits for main waits for one message.      *)

(* Denying and approving are offered for a known preview.                   *)
ReadyKnown == flow.status = "ready" => flow.preview \in Previews

(* The page asks to take off the list what was decided.                     *)
AsksAreDecided ==
    \A i \in DOMAIN inbox : inbox[i].kind = "remove" =>
      inbox[i].preview \in Previews /\ stage[inbox[i].preview] = "decided"

OpenedIsQueued == \A p \in Previews : stage[p] = "opened" => p \in Range(queue)

NoList(from) == \A k \in DOMAIN channel : k >= from => channel[k].kind # "listed"

(* The last list under way is the queue; with none under way, and none to   *)
(* come, the page has it.                                                   *)
LastListIsQueue ==
    \A k \in DOMAIN channel :
      channel[k].kind = "listed" /\ NoList(k + 1) => channel[k].list = queue

QuietListAgrees == inbox = <<>> /\ NoList(1) => pending = queue

Discarding(c) == c \in Calls /\ calls[c].kind = "print" /\ calls[c].phase = "discarding"

(* A print that waits for main waits for one message.                       *)
Awaited(msg) == msg.kind \in {"remove", "removed"} /\ msg.call # None
AwaitedOnce ==
    /\ \A i \in DOMAIN inbox : Awaited(inbox[i]) =>
         /\ Discarding(inbox[i].call)
         /\ \A j \in DOMAIN inbox : inbox[j].call = inbox[i].call => j = i
         /\ \A k \in DOMAIN channel : channel[k].call # inbox[i].call
    /\ \A k \in DOMAIN channel : channel[k].kind = "removed" =>
         /\ channel[k].call # None /\ Discarding(channel[k].call)
         /\ \A l \in DOMAIN channel : channel[l].call = channel[k].call => l = k
ListsAwaitNothing ==
    /\ \A i \in DOMAIN inbox : inbox[i].kind = "list" => inbox[i].call = None
    /\ \A k \in DOMAIN channel : channel[k].kind = "listed" => channel[k].call = None

AnswersHaveJobs ==
    \A c \in Calls : calls[c].phase \in {"answered", "discarding"} =>
      calls[c].kind = "print" /\ jobs[calls[c].preview] > 0

PanelHolds ==
    /\ flow.status = "printing" =>
         \E c \in Calls : calls[c].kind = "print" /\ calls[c].phase # "orphan"
                                                  /\ calls[c].preview = flow.preview
    /\ flow.status = "printed" => flow.preview \in Previews /\ jobs[flow.preview] > 0

ListInv == AsksAreDecided /\ OpenedIsQueued /\ LastListIsQueue /\ QuietListAgrees
CallInv ==
    ReadyKnown /\ AwaitedOnce /\ ListsAwaitNothing /\ AnswersHaveJobs /\ PanelHolds
MInv == TypeOK /\ ListInv /\ CallInv

-----------------------------------------------------------------------------
(* The messages, the panel's states and the requests that TypeOK names.     *)
Asks == [kind : {"list", "remove"}, preview : Previews \cup {None}, call : Calls \cup {None}]
Tells == [kind : {"listed", "removed"}, list : Seq(Previews), call : Calls \cup {None}]
Flows == [status : {"idle", "reviewing", "ready", "printing", "printed", "denied", "error"},
          preview : Previews \cup {None}]
Asked == [kind : {"review", "print"}, preview : Previews,
          phase : {"sent", "orphan", "answered", "discarding"}]

(* Without one preview a list keeps all the others.                         *)
LEMMA WithoutElements ==
    ASSUME NEW list \in Seq(Previews), NEW p
    PROVE  /\ Without(list, p) \in Seq(Previews)
           /\ \A q \in Range(list) : q # p => q \in Range(Without(list, p))
<1> DEFINE kept == {i \in DOMAIN list : list[i] # p}
<1>1. kept \in SUBSET (DOMAIN list)
  OBVIOUS
<1>2. /\ Keep(list, kept) \in Seq(Previews)
      /\ \A i \in kept : \E k \in DOMAIN Keep(list, kept) : Keep(list, kept)[k] = list[i]
  BY <1>1, KeepElements
<1>3. ASSUME NEW q \in Range(list), q # p PROVE q \in Range(Keep(list, kept))
  <2>1. PICK i \in DOMAIN list : list[i] = q
    BY DEF Range
  <2>2. i \in kept
    BY <1>3, <2>1
  <2> QED
    BY <1>2, <2>1, <2>2 DEF Range
<1> QED
  BY <1>2, <1>3 DEF Without

(* What the senders of messages build is a message.                         *)
LEMMA MessageTypes ==
    /\ \A p \in Previews \cup {None} : \A c \in Calls \cup {None} : AskRemove(p, c) \in Asks
    /\ AskList \in Asks
    /\ \A l \in Seq(Previews) : Listed(l) \in Tells
    /\ \A c \in Calls \cup {None} : Removed(c) \in Tells
    /\ \A p \in Previews \cup {None} :
         \A s \in {"idle", "reviewing", "ready", "printing", "printed", "denied", "error"} :
           Show(s, p) \in Flows
BY DEF AskRemove, AskList, Listed, Removed, Show, Asks, Tells, Flows

(* One call changes, to a request or to a free slot.                        *)
LEMMA SetCall ==
    ASSUME TypeOK, NEW c \in Calls, NEW v \in Asked \cup {Free},
           calls' = [calls EXCEPT ![c] = v]
    PROVE  /\ calls' \in [Calls -> Asked \cup {Free}]
           /\ \A d \in Calls : calls'[d] = IF d = c THEN v ELSE calls[d]
BY DEF TypeOK, Asked

(* A review takes a free slot and no other.                                 *)
LEMMA ReviewTypes ==
    ASSUME TypeOK, NEW p \in Previews, Review(p)
    PROVE  /\ calls' \in [Calls -> Asked \cup {Free}]
           /\ flow' = [status |-> "reviewing", preview |-> p]
           /\ \A c \in Calls : calls[c] # Free => calls'[c] = calls[c]
           /\ \A c \in Calls : calls[c] = Free =>
                calls'[c] = Free \/ (calls'[c].kind = "review" /\ calls'[c].phase = "sent")
<1>1. PICK c \in Calls :
        /\ calls[c] = Free
        /\ calls' = [calls EXCEPT ![c] = [kind |-> "review", preview |-> p, phase |-> "sent"]]
  BY DEF Review
<1>2. [kind |-> "review", preview |-> p, phase |-> "sent"] \in Asked
  BY DEF Asked
<1>3. /\ calls' \in [Calls -> Asked \cup {Free}]
      /\ \A d \in Calls : calls'[d] =
           IF d = c THEN [kind |-> "review", preview |-> p, phase |-> "sent"] ELSE calls[d]
  BY <1>1, <1>2, SetCall
<1>4. flow' = [status |-> "reviewing", preview |-> p]
  BY DEF Review, Show
<1> QED
  BY <1>1, <1>3, <1>4

(* The types, one by one.                                                   *)
LEMMA Flat ==
    ASSUME TypeOK
    PROVE  /\ tool \in {"idle", "waiting"} /\ abandoned \in Nat
           /\ stage \in [Previews -> Stages]
           /\ queue \in Seq(Previews) /\ pending \in Seq(Previews)
           /\ inbox \in Seq(Asks) /\ channel \in Seq(Tells) /\ flow \in Flows
           /\ lastAuto \in Previews \cup {None}
           /\ calls \in [Calls -> Asked \cup {Free}]
           /\ jobs \in [Previews -> Nat] /\ approvals \in [Previews -> Nat]
BY DEF TypeOK, Asks, Tells, Flows, Asked

(* Where the messages are after one is sent, and after one is received.     *)
LEMMA Appended ==
    ASSUME NEW S, NEW s \in Seq(S), NEW m \in S
    PROVE  /\ Append(s, m) \in Seq(S) /\ Len(s) \in Nat /\ DOMAIN s = 1..Len(s)
           /\ DOMAIN Append(s, m) = 1..(Len(s) + 1)
           /\ Append(s, m)[Len(s) + 1] = m
           /\ \A k \in DOMAIN s : Append(s, m)[k] = s[k]
OBVIOUS

LEMMA Tailed ==
    ASSUME NEW S, NEW s \in Seq(S), s # <<>>
    PROVE  /\ Tail(s) \in Seq(S) /\ Len(s) \in Nat /\ DOMAIN s = 1..Len(s) /\ Len(s) >= 1
           /\ Head(s) = s[1]
           /\ DOMAIN Tail(s) = 1..(Len(s) - 1)
           /\ \A k \in DOMAIN Tail(s) : k + 1 \in DOMAIN s /\ Tail(s)[k] = s[k + 1]
OBVIOUS

(* A list that main sends is the last one under way.                        *)
LEMMA NewListIsLast ==
    ASSUME channel' \in Seq(Tells), NEW n \in DOMAIN channel',
           channel'[n] = Listed(queue'),
           \A k \in DOMAIN channel' : k > n => channel'[k].kind # "listed"
    PROVE  LastListIsQueue' /\ QuietListAgrees'
<1>1. Listed(queue').kind = "listed" /\ Listed(queue').list = queue'
  BY DEF Listed
<1>2. DOMAIN channel' = 1..Len(channel') /\ Len(channel') \in Nat
  OBVIOUS
<1>3. \A k \in DOMAIN channel' : k < n => ~NoList(k + 1)'
  <2> SUFFICES ASSUME NEW k \in DOMAIN channel', k < n PROVE ~NoList(k + 1)'
    OBVIOUS
  <2>1. n >= k + 1
    BY <1>2
  <2> QED
    BY <1>1, <2>1 DEF NoList
<1>4. LastListIsQueue'
  <2> SUFFICES ASSUME NEW k \in DOMAIN channel', channel'[k].kind = "listed", NoList(k + 1)'
               PROVE  channel'[k].list = queue'
    BY DEF LastListIsQueue
  <2>1. k = n
    BY <1>2, <1>3
  <2> QED
    BY <1>1, <2>1
<1>5. ~NoList(1)'
  <2>1. n >= 1
    BY <1>2
  <2> QED
    BY <1>1, <2>1 DEF NoList
<1> QED
  BY <1>4, <1>5 DEF QuietListAgrees

(* A step that changes none of the lists, or none of the calls' messages.   *)
LEMMA ListFrame ==
    ASSUME ListInv, UNCHANGED <<inbox, channel, pending, queue, stage>>
    PROVE  ListInv'
BY DEF ListInv, AsksAreDecided, OpenedIsQueued, LastListIsQueue, QuietListAgrees, NoList

LEMMA CallFrame ==
    ASSUME CallInv, UNCHANGED <<inbox, channel, flow, calls, jobs>>
    PROVE  CallInv'
BY DEF CallInv, ReadyKnown, AwaitedOnce, Awaited, Discarding, ListsAwaitNothing,
   AnswersHaveJobs, PanelHolds

-----------------------------------------------------------------------------
(* The actions, one by one.                                                 *)
LEMMA CreateMInv ==
    ASSUME MInv, CreatePreview
    PROVE  MInv'
<1>0. TypeOK /\ ListInv /\ CallInv
  BY DEF MInv
<1>1. PICK p \in Previews, s \in {"told", "created"} :
        stage[p] = "none" /\ stage' = [stage EXCEPT ![p] = s]
  BY DEF CreatePreview, Fresh, Advance
<1>2. UNCHANGED <<queue, inbox, channel, pending, flow, lastAuto, calls, jobs, approvals>>
  BY DEF CreatePreview, page
<1>3. \A q \in Previews : stage'[q] = IF q = p THEN s ELSE stage[q]
  BY <1>0, <1>1 DEF TypeOK
<1>4. TypeOK'
  <2>1. stage' \in [Previews -> Stages]
    BY <1>0, <1>1 DEF TypeOK, Stages
  <2>2. tool' \in {"idle", "waiting"} /\ abandoned' \in Nat
    BY <1>0 DEF CreatePreview, TypeOK
  <2> QED
    BY <1>0, <1>2, <2>1, <2>2 DEF TypeOK
<1>5. ListInv'
  BY <1>0, <1>1, <1>2, <1>3
     DEF ListInv, AsksAreDecided, OpenedIsQueued, LastListIsQueue, QuietListAgrees, NoList
<1>6. CallInv'
  BY <1>0, <1>2, CallFrame
<1> QED
  BY <1>4, <1>5, <1>6 DEF MInv

(* The URL puts a preview at the head of the queue and sends the new list.  *)
LEMMA OpenUrlMInv ==
    ASSUME MInv, NEW p \in Previews, OpenUrl(p)
    PROVE  MInv'
<1>0. TypeOK /\ ListInv /\ CallInv
  BY DEF MInv
<1>1. /\ queue' = <<p>> \o Without(queue, p)
      /\ channel' = Append(channel, Listed(queue'))
      /\ stage' = [stage EXCEPT ![p] = IF @ = "told" THEN "opened" ELSE @]
      /\ UNCHANGED <<tool, abandoned, inbox, pending, flow, lastAuto, calls, jobs, approvals>>
  BY DEF OpenUrl, agent, page
<1>2. stage \in [Previews -> Stages] /\ queue \in Seq(Previews) /\ channel \in Seq(Tells)
  BY <1>0, Flat
<1>3. queue' \in Seq(Previews) /\ \A q \in Range(queue) : q \in Range(queue')
  <2>1. /\ Without(queue, p) \in Seq(Previews)
        /\ \A q \in Range(queue) : q # p => q \in Range(Without(queue, p))
    BY <1>2, WithoutElements
  <2>2. \A w \in Seq(Previews) :
          /\ <<p>> \o w \in Seq(Previews)
          /\ p \in Range(<<p>> \o w)
          /\ \A q \in Range(w) : q \in Range(<<p>> \o w)
    <3> TAKE w \in Seq(Previews)
    <3>1. (<<p>> \o w)[1] = p /\ 1 \in DOMAIN (<<p>> \o w) /\ <<p>> \o w \in Seq(Previews)
      OBVIOUS
    <3>2. \A i \in DOMAIN w : i + 1 \in DOMAIN (<<p>> \o w) /\ (<<p>> \o w)[i + 1] = w[i]
      OBVIOUS
    <3> QED
      BY <3>1, <3>2 DEF Range
  <2> QED
    BY <1>1, <2>1, <2>2
<1>4. p \in Range(queue')
  <2>1. \A w \in Seq(Previews) : (<<p>> \o w)[1] = p /\ 1 \in DOMAIN (<<p>> \o w)
    OBVIOUS
  <2> QED
    BY <1>1, <1>2, <2>1, WithoutElements DEF Range
<1>5. /\ channel' \in Seq(Tells) /\ DOMAIN channel' = 1..(Len(channel) + 1)
      /\ Len(channel) \in Nat /\ DOMAIN channel = 1..Len(channel)
      /\ channel'[Len(channel) + 1] = Listed(queue')
      /\ \A k \in DOMAIN channel : channel'[k] = channel[k]
  <2>1. Listed(queue') \in Tells
    BY <1>3, MessageTypes
  <2> QED
    BY <1>1, <1>2, <2>1, Appended
<1>6. \A q \in Previews : stage'[q] = IF q = p /\ stage[q] = "told" THEN "opened" ELSE stage[q]
  BY <1>1, <1>2
<1>7. TypeOK'
  <2>1. stage' \in [Previews -> Stages]
    BY <1>1, <1>2, <1>6 DEF Stages
  <2> QED
    BY <1>0, <1>1, <1>3, <1>5, <2>1 DEF TypeOK, Tells
<1>8. ListInv'
  <2>1. AsksAreDecided' /\ OpenedIsQueued'
    BY <1>0, <1>1, <1>3, <1>4, <1>6 DEF ListInv, AsksAreDecided, OpenedIsQueued
  <2>2. LastListIsQueue' /\ QuietListAgrees'
    BY <1>5, NewListIsLast
  <2> QED
    BY <2>1, <2>2 DEF ListInv
<1>9. CallInv'
  <2>1. AwaitedOnce' /\ ListsAwaitNothing'
    BY <1>0, <1>1, <1>5 DEF CallInv, AwaitedOnce, ListsAwaitNothing, Awaited, Discarding, Listed
  <2> QED
    BY <1>0, <1>1, <2>1 DEF CallInv, ReadyKnown, AnswersHaveJobs, PanelHolds
<1> QED
  BY <1>7, <1>8, <1>9 DEF MInv

(* Main answers a request for the list with the queue as it is then.        *)
LEMMA HandleListMInv ==
    ASSUME MInv, HandleList
    PROVE  MInv'
<1>0. TypeOK /\ ListInv /\ CallInv
  BY DEF MInv
<1>1. /\ inbox # <<>> /\ inbox' = Tail(inbox) /\ channel' = Append(channel, Listed(queue))
      /\ UNCHANGED <<tool, abandoned, stage, queue, pending, flow, lastAuto, calls, jobs,
                     approvals>>
  BY DEF HandleList, agent, page
<1>2. inbox \in Seq(Asks) /\ queue \in Seq(Previews) /\ channel \in Seq(Tells)
  BY <1>0, Flat
<1>3. /\ channel' \in Seq(Tells) /\ DOMAIN channel' = 1..(Len(channel) + 1)
      /\ Len(channel) \in Nat /\ DOMAIN channel = 1..Len(channel)
      /\ channel'[Len(channel) + 1] = Listed(queue)
      /\ \A k \in DOMAIN channel : channel'[k] = channel[k]
  <2>1. Listed(queue) \in Tells
    BY <1>2, MessageTypes
  <2> QED
    BY <1>1, <1>2, <2>1, Appended
<1>4. /\ inbox' \in Seq(Asks) /\ Len(inbox) \in Nat /\ DOMAIN inbox' = 1..(Len(inbox) - 1)
      /\ \A k \in DOMAIN inbox' : k + 1 \in DOMAIN inbox /\ inbox'[k] = inbox[k + 1]
  BY <1>1, <1>2, Tailed
<1>5. TypeOK'
  BY <1>0, <1>1, <1>3, <1>4 DEF TypeOK, Tells, Asks
<1>6. ListInv'
  <2>1. AsksAreDecided' /\ OpenedIsQueued'
    BY <1>0, <1>1, <1>4 DEF ListInv, AsksAreDecided, OpenedIsQueued
  <2>2. LastListIsQueue' /\ QuietListAgrees'
    BY <1>1, <1>3, NewListIsLast
  <2> QED
    BY <2>1, <2>2 DEF ListInv
<1>7. CallInv'
  <2>1. ListsAwaitNothing' /\ AwaitedOnce'
    BY <1>0, <1>1, <1>3, <1>4
       DEF CallInv, AwaitedOnce, ListsAwaitNothing, Awaited, Discarding, Listed
  <2> QED
    BY <1>0, <1>1, <2>1 DEF CallInv, ReadyKnown, AnswersHaveJobs, PanelHolds
<1> QED
  BY <1>5, <1>6, <1>7 DEF MInv

(* Main drops what was decided, and answers the one print that waits.       *)
LEMMA HandleRemoveMInv ==
    ASSUME MInv, HandleRemove
    PROVE  MInv'
<1>0. TypeOK /\ ListInv /\ CallInv
  BY DEF MInv
<1> DEFINE p == Head(inbox).preview
           c == Head(inbox).call
           told == Append(channel, Listed(queue'))
           n == Len(channel) + 1
<1>1. /\ inbox # <<>> /\ inbox' = Tail(inbox) /\ Head(inbox).kind = "remove"
      /\ queue' = Without(queue, p)
      /\ channel' = told \o IF c = None THEN <<>> ELSE <<Removed(c)>>
      /\ UNCHANGED <<tool, abandoned, stage, pending, flow, lastAuto, calls, jobs, approvals>>
  BY DEF HandleRemove, agent, page
<1>2. inbox \in Seq(Asks) /\ queue \in Seq(Previews) /\ channel \in Seq(Tells)
  BY <1>0, Flat
<1>3. queue' \in Seq(Previews) /\ \A q \in Range(queue) : q # p => q \in Range(queue')
  BY <1>1, <1>2, WithoutElements
<1>4. /\ told \in Seq(Tells) /\ DOMAIN told = 1..n /\ n \in Nat
      /\ Len(channel) \in Nat /\ DOMAIN channel = 1..Len(channel)
      /\ told[n] = Listed(queue')
      /\ \A k \in DOMAIN channel : told[k] = channel[k]
  <2>1. Listed(queue') \in Tells
    BY <1>3, MessageTypes
  <2> QED
    BY <1>2, <2>1, Appended
<1>5. /\ inbox' \in Seq(Asks) /\ Len(inbox) \in Nat /\ DOMAIN inbox' = 1..(Len(inbox) - 1)
      /\ 1 \in DOMAIN inbox /\ Head(inbox) = inbox[1] /\ DOMAIN inbox = 1..Len(inbox)
      /\ \A k \in DOMAIN inbox' : k + 1 \in DOMAIN inbox /\ inbox'[k] = inbox[k + 1]
  BY <1>1, <1>2, Tailed
<1>6. /\ p \in Previews /\ stage[p] = "decided" /\ c \in Calls \cup {None}
      /\ c # None =>
           /\ Discarding(c)
           /\ \A j \in DOMAIN inbox : inbox[j].call = c => j = 1
           /\ \A k \in DOMAIN channel : channel[k].call # c
  <2>1. inbox[1] \in Asks /\ inbox[1].kind = "remove"
    BY <1>1, <1>2, <1>5
  <2>2. p = inbox[1].preview /\ c = inbox[1].call
    BY <1>5
  <2>3. p \in Previews /\ stage[p] = "decided"
    BY <1>0, <1>5, <2>1, <2>2 DEF ListInv, AsksAreDecided
  <2>4. c \in Calls \cup {None}
    BY <2>1, <2>2 DEF Asks
  <2>5. ASSUME c # None
        PROVE  /\ Discarding(c)
               /\ \A j \in DOMAIN inbox : inbox[j].call = c => j = 1
               /\ \A k \in DOMAIN channel : channel[k].call # c
    <3>1. Awaited(inbox[1])
      BY <2>1, <2>2, <2>5 DEF Awaited
    <3> QED
      BY <1>0, <1>5, <2>2, <3>1 DEF CallInv, AwaitedOnce
  <2> QED
    BY <2>3, <2>4, <2>5
<1> HIDE DEF told, p, c, n
<1>7. /\ channel' \in Seq(Tells) /\ n \in DOMAIN channel' /\ channel'[n] = Listed(queue')
      /\ \A k \in DOMAIN channel' :
           \/ k \in DOMAIN channel /\ k < n /\ channel'[k] = channel[k]
           \/ k = n
           \/ c # None /\ k = n + 1 /\ channel'[k] = Removed(c)
  <2>1. CASE c = None
    <3>1. channel' = told
      BY <1>1, <1>4, <2>1
    <3> QED
      BY <1>4, <3>1 DEF n
  <2>2. CASE c # None
    <3>1. channel' = Append(told, Removed(c)) /\ Removed(c) \in Tells
      BY <1>1, <1>4, <1>6, <2>2, MessageTypes
    <3> QED
      BY <1>4, <2>2, <3>1, Appended DEF n
  <2> QED
    BY <2>1, <2>2
<1>8. TypeOK'
  BY <1>0, <1>1, <1>3, <1>5, <1>7 DEF TypeOK, Tells, Asks
<1>9. ListInv'
  <2>1. AsksAreDecided' /\ OpenedIsQueued'
    BY <1>0, <1>1, <1>3, <1>5, <1>6 DEF ListInv, AsksAreDecided, OpenedIsQueued
  <2>2. \A k \in DOMAIN channel' : k > n => channel'[k].kind # "listed"
    BY <1>4, <1>7 DEF Removed
  <2>3. LastListIsQueue' /\ QuietListAgrees'
    BY <1>7, <2>2, NewListIsLast
  <2> QED
    BY <2>1, <2>3 DEF ListInv
<1>10. CallInv'
  <2>1. Listed(queue').call = None /\ Listed(queue').kind = "listed"
        /\ Removed(c).call = c /\ Removed(c).kind = "removed"
    BY DEF Listed, Removed
  <2>2. ListsAwaitNothing'
    BY <1>0, <1>1, <1>5, <1>7, <2>1 DEF CallInv, ListsAwaitNothing
  <2>3. AwaitedOnce'
    <3>1. \A d : Discarding(d)' <=> Discarding(d)
      BY <1>1 DEF Discarding
    <3>2. ASSUME NEW i \in DOMAIN inbox', Awaited(inbox'[i])
          PROVE  /\ Discarding(inbox'[i].call)
                 /\ \A j \in DOMAIN inbox' : inbox'[j].call = inbox'[i].call => j = i
                 /\ \A k \in DOMAIN channel' : channel'[k].call # inbox'[i].call
      <4>1. i + 1 \in DOMAIN inbox /\ inbox'[i] = inbox[i + 1] /\ inbox'[i].call # None
        BY <1>5, <3>2 DEF Awaited
      <4>2. /\ Discarding(inbox'[i].call)
            /\ \A j \in DOMAIN inbox : inbox[j].call = inbox'[i].call => j = i + 1
            /\ \A k \in DOMAIN channel : channel[k].call # inbox'[i].call
        BY <1>0, <3>2, <4>1 DEF CallInv, AwaitedOnce
      <4>3. inbox'[i].call # c
        BY <1>5, <1>6, <4>1
      <4>4. \A j \in DOMAIN inbox' : inbox'[j].call = inbox'[i].call => j = i
        BY <1>5, <4>2
      <4> QED
        BY <1>7, <2>1, <4>1, <4>2, <4>3, <4>4
    <3>3. ASSUME NEW k \in DOMAIN channel', channel'[k].kind = "removed"
          PROVE  /\ channel'[k].call # None /\ Discarding(channel'[k].call)
                 /\ \A l \in DOMAIN channel' : channel'[l].call = channel'[k].call => l = k
      <4>1. CASE k \in DOMAIN channel /\ k < n /\ channel'[k] = channel[k]
        <5>1. /\ channel[k].call # None /\ Discarding(channel[k].call)
              /\ \A l \in DOMAIN channel : channel[l].call = channel[k].call => l = k
          BY <1>0, <3>3, <4>1 DEF CallInv, AwaitedOnce
        <5> QED
          BY <1>6, <1>7, <2>1, <4>1, <5>1
      <4>2. CASE c # None /\ k = n + 1 /\ channel'[k] = Removed(c)
        BY <1>6, <1>7, <2>1, <4>2
      <4> QED
        BY <1>7, <2>1, <3>3, <4>1, <4>2
    <3> QED
      BY <3>1, <3>2, <3>3 DEF AwaitedOnce
  <2> QED
    BY <1>0, <1>1, <2>2, <2>3 DEF CallInv, ReadyKnown, AnswersHaveJobs, PanelHolds
<1> QED
  BY <1>8, <1>9, <1>10 DEF MInv

(* The page takes the list over; one that is older is followed by another.  *)
LEMMA ReceiveListMInv ==
    ASSUME MInv, ReceiveList
    PROVE  MInv'
<1>0. TypeOK /\ ListInv /\ CallInv
  BY DEF MInv
<1>1. /\ channel # <<>> /\ channel' = Tail(channel) /\ Head(channel).kind = "listed"
      /\ pending' = Head(channel).list
      /\ UNCHANGED <<tool, abandoned, stage, queue, inbox, flow, lastAuto, calls, jobs,
                     approvals>>
  BY DEF ReceiveList, agent
<1>2. /\ channel' \in Seq(Tells) /\ Len(channel) \in Nat
      /\ DOMAIN channel' = 1..(Len(channel) - 1) /\ DOMAIN channel = 1..Len(channel)
      /\ 1 \in DOMAIN channel /\ Head(channel) = channel[1] /\ channel[1] \in Tells
      /\ \A k \in DOMAIN channel' : k + 1 \in DOMAIN channel /\ channel'[k] = channel[k + 1]
  BY <1>0, <1>1, Flat, Tailed
<1>3. TypeOK'
  BY <1>0, <1>1, <1>2 DEF TypeOK, Tells
<1>4. ListInv'
  <2>1. \A k \in Nat \ {0} : NoList(k)' => NoList(k + 1)
    <3> SUFFICES ASSUME NEW k \in Nat \ {0}, NoList(k)',
                        NEW i \in DOMAIN channel, i >= k + 1
                 PROVE  channel[i].kind # "listed"
      BY DEF NoList
    <3>1. i - 1 \in DOMAIN channel' /\ i - 1 >= k /\ channel'[i - 1] = channel[i]
      BY <1>2
    <3> QED
      BY <3>1 DEF NoList
  <2>2. LastListIsQueue'
    BY <1>0, <1>1, <1>2, <2>1 DEF ListInv, LastListIsQueue
  <2>3. QuietListAgrees'
    BY <1>0, <1>1, <1>2, <2>1 DEF ListInv, LastListIsQueue, QuietListAgrees
  <2> QED
    BY <1>0, <1>1, <2>2, <2>3 DEF ListInv, AsksAreDecided, OpenedIsQueued
<1>5. CallInv'
  <2>1. AwaitedOnce' /\ ListsAwaitNothing'
    BY <1>0, <1>1, <1>2 DEF CallInv, AwaitedOnce, ListsAwaitNothing, Awaited, Discarding
  <2> QED
    BY <1>0, <1>1, <2>1 DEF CallInv, ReadyKnown, AnswersHaveJobs, PanelHolds
<1> QED
  BY <1>3, <1>4, <1>5 DEF MInv

(* No message comes or goes, and no call stops waiting.                     *)
LEMMA MessagesFrame ==
    ASSUME CallInv, UNCHANGED <<inbox, channel>>,
           \A d \in Calls : Discarding(d) => Discarding(d)'
    PROVE  AwaitedOnce' /\ ListsAwaitNothing'
BY DEF CallInv, AwaitedOnce, Awaited, ListsAwaitNothing, Discarding

LEMMA ReviewMInv ==
    ASSUME MInv, NEW p \in Previews, Review(p), lastAuto' \in {lastAuto, p},
           UNCHANGED <<tool, abandoned, stage, queue, inbox, channel, pending, jobs, approvals>>
    PROVE  MInv'
<1>0. TypeOK /\ ListInv /\ CallInv
  BY DEF MInv
<1>1. /\ calls' \in [Calls -> Asked \cup {Free}]
      /\ flow' = [status |-> "reviewing", preview |-> p]
      /\ \A c \in Calls : calls[c] # Free => calls'[c] = calls[c]
      /\ \A c \in Calls : calls[c] = Free =>
           calls'[c] = Free \/ (calls'[c].kind = "review" /\ calls'[c].phase = "sent")
  BY <1>0, ReviewTypes
<1>2. TypeOK'
  <2>1. flow' \in Flows
    BY <1>1 DEF Flows
  <2> QED
    BY <1>0, <1>1, <2>1 DEF TypeOK, Flows, Asked
<1>3. ListInv'
  BY <1>0, ListFrame
<1>4. CallInv'
  <2>1. \A d \in Calls : Discarding(d) => Discarding(d)'
    BY <1>1, FreeIsNoRequest DEF Discarding
  <2>2. AwaitedOnce' /\ ListsAwaitNothing'
    BY <1>0, <2>1, MessagesFrame
  <2>3. AnswersHaveJobs'
    BY <1>0, <1>1, FreeIsNoRequest DEF CallInv, AnswersHaveJobs
  <2>4. ReadyKnown' /\ PanelHolds'
    BY <1>1 DEF ReadyKnown, PanelHolds
  <2> QED
    BY <2>2, <2>3, <2>4 DEF CallInv
<1> QED
  BY <1>2, <1>3, <1>4 DEF MInv

(* A removal that the page asks for is of a preview that is decided.        *)
LEMMA AskedToRemove ==
    ASSUME TypeOK, ListInv, NEW p \in Previews, NEW c \in Calls \cup {None},
           inbox' = Append(inbox, AskRemove(p, c)), stage' = [stage EXCEPT ![p] = "decided"],
           pending' = Without(pending, p), UNCHANGED <<queue, channel>>
    PROVE  /\ inbox' \in Seq(Asks) /\ stage' \in [Previews -> Stages]
           /\ pending' \in Seq(Previews) /\ ListInv'
<1>1. inbox \in Seq(Asks) /\ stage \in [Previews -> Stages] /\ pending \in Seq(Previews)
  BY Flat
<1>2. /\ inbox' \in Seq(Asks) /\ DOMAIN inbox = 1..Len(inbox) /\ Len(inbox) \in Nat
      /\ DOMAIN inbox' = 1..(Len(inbox) + 1)
      /\ inbox'[Len(inbox) + 1] = AskRemove(p, c)
      /\ \A i \in DOMAIN inbox : inbox'[i] = inbox[i]
  <2>1. AskRemove(p, c) \in Asks
    BY MessageTypes
  <2> QED
    BY <1>1, <2>1, Appended
<1>3. /\ stage' \in [Previews -> Stages]
      /\ \A q \in Previews : stage'[q] = IF q = p THEN "decided" ELSE stage[q]
  BY <1>1 DEF Stages
<1>4. pending' \in Seq(Previews)
  BY <1>1, WithoutElements
<1>5. AsksAreDecided'
  BY <1>2, <1>3 DEF ListInv, AsksAreDecided, AskRemove
<1>6. OpenedIsQueued'
  BY <1>3 DEF ListInv, OpenedIsQueued
<1>7. LastListIsQueue'
  BY DEF ListInv, LastListIsQueue, NoList
<1>8. QuietListAgrees'
  BY <1>2 DEF QuietListAgrees
<1> QED
  BY <1>2, <1>3, <1>4, <1>5, <1>6, <1>7, <1>8 DEF ListInv

LEMMA DenyMInv ==
    ASSUME MInv, Deny
    PROVE  MInv'
<1>0. TypeOK /\ ListInv /\ CallInv
  BY DEF MInv
<1> DEFINE p == flow.preview
<1>1. /\ flow.status = "ready" /\ flow' = Show("denied", p)
      /\ pending' = Without(pending, p) /\ inbox' = Append(inbox, AskRemove(p, None))
      /\ stage' = [stage EXCEPT ![p] = "decided"]
      /\ UNCHANGED <<tool, abandoned, queue, channel, lastAuto, calls, jobs, approvals>>
  BY DEF Deny, agent, Advance
<1>2. p \in Previews
  BY <1>0, <1>1 DEF CallInv, ReadyKnown
<1>3. /\ inbox' \in Seq(Asks) /\ stage' \in [Previews -> Stages]
      /\ pending' \in Seq(Previews) /\ ListInv'
  BY <1>0, <1>1, <1>2, AskedToRemove
<1>4. TypeOK'
  <2>1. flow' \in Flows
    BY <1>1, <1>2, MessageTypes
  <2> QED
    BY <1>0, <1>1, <1>3, <2>1 DEF TypeOK, Asks, Flows
<1>5. CallInv'
  <2>1. flow'.status = "denied"
    BY <1>1 DEF Show
  <2>2. /\ DOMAIN inbox = 1..Len(inbox) /\ Len(inbox) \in Nat
        /\ DOMAIN inbox' = 1..(Len(inbox) + 1)
        /\ inbox'[Len(inbox) + 1] = AskRemove(p, None)
        /\ \A i \in DOMAIN inbox : inbox'[i] = inbox[i]
    <3>1. inbox \in Seq(Asks) /\ AskRemove(p, None) \in Asks
      BY <1>0, <1>2, MessageTypes, Flat
    <3> QED
      BY <1>1, <3>1, Appended
  <2>3. AskRemove(p, None).call = None /\ AskRemove(p, None).kind = "remove"
    BY DEF AskRemove
  <2>4. AwaitedOnce' /\ ListsAwaitNothing'
    BY <1>0, <1>1, <2>2, <2>3
       DEF CallInv, AwaitedOnce, ListsAwaitNothing, Awaited, Discarding
  <2> QED
    BY <1>0, <1>1, <2>1, <2>4 DEF CallInv, ReadyKnown, AnswersHaveJobs, PanelHolds
<1> QED
  BY <1>3, <1>4, <1>5 DEF MInv

LEMMA ApproveMInv ==
    ASSUME MInv, Approve
    PROVE  MInv'
<1>0. TypeOK /\ ListInv /\ CallInv
  BY DEF MInv
<1> DEFINE p == flow.preview
           v == [kind |-> "print", preview |-> p, phase |-> "sent"]
<1>1. /\ flow.status = "ready" /\ flow' = Show("printing", p)
      /\ approvals' = [approvals EXCEPT ![p] = @ + 1]
      /\ UNCHANGED <<tool, abandoned, stage, queue, inbox, channel, pending, lastAuto, jobs>>
  BY DEF Approve, agent
<1>2. p \in Previews
  BY <1>0, <1>1 DEF CallInv, ReadyKnown
<1>3. PICK c \in Calls : calls[c] = Free /\ calls' = [calls EXCEPT ![c] = v]
  BY DEF Approve
<1>4. v \in Asked /\ v.kind = "print" /\ v.preview = p /\ v.phase = "sent"
  BY <1>2 DEF Asked
<1> HIDE DEF v
<1>5. /\ calls' \in [Calls -> Asked \cup {Free}]
      /\ \A d \in Calls : calls'[d] = IF d = c THEN v ELSE calls[d]
  BY <1>0, <1>3, <1>4, SetCall
<1>6. TypeOK'
  <2>1. flow' \in Flows
    BY <1>1, <1>2, MessageTypes
  <2>2. approvals' \in [Previews -> Nat]
    BY <1>0, <1>1, Flat, OneMore
  <2> QED
    BY <1>0, <1>1, <1>5, <2>1, <2>2 DEF TypeOK, Asked, Flows
<1>7. ListInv'
  BY <1>0, <1>1, ListFrame
<1>8. CallInv'
  <2>1. \A d \in Calls : Discarding(d) => Discarding(d)'
    BY <1>3, <1>5, FreeIsNoRequest DEF Discarding
  <2>2. AwaitedOnce' /\ ListsAwaitNothing'
    BY <1>0, <1>1, <2>1, MessagesFrame
  <2>3. AnswersHaveJobs'
    BY <1>0, <1>1, <1>4, <1>5 DEF CallInv, AnswersHaveJobs
  <2>4. ReadyKnown' /\ PanelHolds'
    BY <1>1, <1>4, <1>5 DEF ReadyKnown, PanelHolds, Show
  <2> QED
    BY <2>2, <2>3, <2>4 DEF CallInv
<1> QED
  BY <1>6, <1>7, <1>8 DEF MInv

(* A call that no message is for ends.                                      *)
LEMMA HangupMInv ==
    ASSUME MInv, NEW c \in Calls, calls[c].phase # "discarding",
           calls' = [calls EXCEPT ![c] = Free],
           \/ flow' \in {Show("error", None), Show("ready", calls[c].preview)}
              /\ calls[c] # Free /\ jobs' = jobs
           \/ UNCHANGED <<flow, jobs>> /\ calls[c].phase = "orphan"
           \/ /\ UNCHANGED flow /\ calls[c].phase = "orphan"
              /\ jobs' = [jobs EXCEPT ![calls[c].preview] = @ + 1],
           UNCHANGED <<tool, abandoned, stage, queue, inbox, channel, pending, lastAuto,
                       approvals>>
    PROVE  MInv'
<1>0. TypeOK /\ ListInv /\ CallInv
  BY DEF MInv
<1>1. Free \in Asked \cup {Free} /\ calls[c] \in Asked \cup {Free}
  BY <1>0, Flat
<1>2. /\ calls' \in [Calls -> Asked \cup {Free}]
      /\ \A d \in Calls : calls'[d] = IF d = c THEN Free ELSE calls[d]
  BY <1>0, <1>1, SetCall
<1>3. /\ jobs' \in [Previews -> Nat] /\ jobs \in [Previews -> Nat]
      /\ \A p \in Previews : jobs'[p] >= jobs[p]
  <2>1. jobs \in [Previews -> Nat]
    BY <1>0, Flat
  <2>2. CASE jobs' = jobs
    BY <2>1, <2>2
  <2>3. CASE jobs' = [jobs EXCEPT ![calls[c].preview] = @ + 1]
    <3>1. jobs' \in [Previews -> Nat]
      BY <2>1, <2>3, OneMore
    <3> QED
      BY <2>1, <2>3, <3>1
  <2> QED
    BY <2>2, <2>3
<1>4. flow' \in Flows /\ (flow'.status = "ready" => flow'.preview \in Previews)
  <2>1. flow \in Flows
    BY <1>0, Flat
  <2>2. CASE UNCHANGED flow
    BY <1>0, <2>1, <2>2 DEF CallInv, ReadyKnown
  <2>3. CASE flow' = Show("error", None)
    <3>1. flow'.status = "error" /\ flow' \in Flows
      BY <2>3, MessageTypes DEF Show
    <3> QED
      BY <3>1
  <2>4. CASE flow' = Show("ready", calls[c].preview) /\ calls[c] # Free
    <3>1. calls[c].preview \in Previews
      BY <1>1, <2>4 DEF Asked
    <3>2. flow' \in Flows /\ flow'.preview = calls[c].preview
      BY <2>4, <3>1, MessageTypes DEF Show
    <3> QED
      BY <3>1, <3>2
  <2> QED
    BY <2>2, <2>3, <2>4
<1>5. TypeOK'
  BY <1>0, <1>2, <1>3, <1>4 DEF TypeOK, Asked, Flows
<1>6. ListInv'
  BY <1>0, ListFrame
<1>7. CallInv'
  <2>1. \A d \in Calls : Discarding(d) => Discarding(d)'
    BY <1>2 DEF Discarding
  <2>2. AwaitedOnce' /\ ListsAwaitNothing'
    BY <1>0, <2>1, MessagesFrame
  <2>3. AnswersHaveJobs'
    <3> SUFFICES ASSUME NEW d \in Calls, calls'[d].phase \in {"answered", "discarding"}
                 PROVE  calls'[d].kind = "print" /\ jobs'[calls'[d].preview] > 0
      BY DEF AnswersHaveJobs
    <3>1. d # c /\ calls'[d] = calls[d]
      BY <1>2, FreeIsNoRequest
    <3>2. calls[d].kind = "print" /\ jobs[calls[d].preview] > 0
      BY <1>0, <3>1 DEF CallInv, AnswersHaveJobs
    <3>3. calls[d].preview \in Previews
      <4>1. calls[d] \in Asked \cup {Free}
        BY <1>0, Flat
      <4> QED
        BY <3>2, <4>1, FreeIsNoRequest DEF Asked
    <3> QED
      BY <1>3, <3>1, <3>2, <3>3
  <2>4. PanelHolds'
    <3>1. CASE flow' \in {Show("error", None), Show("ready", calls[c].preview)}
      BY <3>1 DEF PanelHolds, Show
    <3>2. CASE UNCHANGED flow /\ calls[c].phase = "orphan"
      <4>1. flow.status = "printing" =>
              \E d \in Calls : d # c /\ calls[d].kind = "print" /\ calls[d].phase # "orphan"
                                     /\ calls[d].preview = flow.preview
        BY <1>0, <3>2 DEF CallInv, PanelHolds
      <4>2. flow.status = "printed" => flow.preview \in Previews /\ jobs[flow.preview] > 0
        BY <1>0 DEF CallInv, PanelHolds
      <4> QED
        BY <1>2, <1>3, <3>2, <4>1, <4>2 DEF PanelHolds
    <3> QED
      BY <3>1, <3>2
  <2> QED
    BY <1>4, <2>2, <2>3, <2>4 DEF CallInv, ReadyKnown
<1> QED
  BY <1>5, <1>6, <1>7 DEF MInv

(* The daemon's answer to a print that the page still waits for.            *)
LEMMA ServePrintMInv ==
    ASSUME MInv, NEW c \in Calls, ServePrint(c)
    PROVE  MInv'
<1>0. TypeOK /\ ListInv /\ CallInv
  BY DEF MInv
<1> DEFINE p == calls[c].preview
           v == [calls[c] EXCEPT !.phase = "answered"]
<1>1. /\ calls[c].kind = "print" /\ calls[c].phase \in {"sent", "orphan"}
      /\ jobs' = [jobs EXCEPT ![p] = @ + 1]
      /\ UNCHANGED <<tool, abandoned, stage, queue, inbox, channel, pending, flow, lastAuto,
                     approvals>>
      /\ IF calls[c].phase = "orphan" THEN calls' = [calls EXCEPT ![c] = Free]
         ELSE calls' = [calls EXCEPT ![c] = v]
  BY DEF ServePrint, agent, Hangup
<1>2. CASE calls[c].phase = "orphan"
  BY <1>1, <1>2, HangupMInv
<1>3. CASE calls[c].phase = "sent"
  <2>1. calls[c] \in Asked
    <3>1. calls[c] \in Asked \cup {Free}
      BY <1>0, Flat
    <3> QED
      BY <1>1, <3>1, FreeIsNoRequest
  <2>2. v \in Asked /\ v.kind = "print" /\ v.preview = p /\ v.phase = "answered" /\ p \in Previews
    BY <1>1, <2>1 DEF Asked
  <2> HIDE DEF v
  <2>3. /\ calls' \in [Calls -> Asked \cup {Free}]
        /\ \A d \in Calls : calls'[d] = IF d = c THEN v ELSE calls[d]
    BY <1>0, <1>1, <1>3, <2>2, SetCall
  <2>4. /\ jobs' \in [Previews -> Nat] /\ jobs \in [Previews -> Nat]
        /\ \A q \in Previews : jobs'[q] >= jobs[q]
        /\ jobs'[p] > 0
    <3>1. jobs \in [Previews -> Nat]
      BY <1>0, Flat
    <3>2. jobs' \in [Previews -> Nat]
      BY <1>1, <3>1, OneMore
    <3> QED
      BY <1>1, <2>2, <3>1, <3>2
  <2>5. TypeOK'
    BY <1>0, <1>1, <2>3, <2>4 DEF TypeOK, Asked
  <2>6. ListInv'
    BY <1>0, <1>1, ListFrame
  <2>7. CallInv'
    <3>1. \A d \in Calls : Discarding(d) => Discarding(d)'
      BY <1>3, <2>3 DEF Discarding
    <3>2. AwaitedOnce' /\ ListsAwaitNothing'
      BY <1>0, <1>1, <3>1, MessagesFrame
    <3>3. AnswersHaveJobs'
      <4> SUFFICES ASSUME NEW d \in Calls, calls'[d].phase \in {"answered", "discarding"}
                   PROVE  calls'[d].kind = "print" /\ jobs'[calls'[d].preview] > 0
        BY DEF AnswersHaveJobs
      <4>1. CASE d = c
        BY <2>2, <2>3, <2>4, <4>1
      <4>2. CASE d # c
        <5>1. calls'[d] = calls[d] /\ calls[d] \in Asked \cup {Free}
          BY <1>0, <2>3, <4>2, Flat
        <5>2. calls[d].kind = "print" /\ jobs[calls[d].preview] > 0
          BY <1>0, <5>1 DEF CallInv, AnswersHaveJobs
        <5>3. calls[d].preview \in Previews
          BY <5>1, <5>2, FreeIsNoRequest DEF Asked
        <5> QED
          BY <2>4, <5>1, <5>2, <5>3
      <4> QED
        BY <4>1, <4>2
    <3>4. PanelHolds'
      <4>1. ASSUME flow.status = "printing"
            PROVE  \E d \in Calls : /\ calls'[d].kind = "print" /\ calls'[d].phase # "orphan"
                                    /\ calls'[d].preview = flow.preview
        <5>1. PICK d \in Calls : /\ calls[d].kind = "print" /\ calls[d].phase # "orphan"
                                 /\ calls[d].preview = flow.preview
          BY <1>0, <4>1 DEF CallInv, PanelHolds
        <5> QED
          BY <2>2, <2>3, <5>1
      <4>2. flow.status = "printed" => flow.preview \in Previews /\ jobs'[flow.preview] > 0
        BY <1>0, <2>4 DEF CallInv, PanelHolds
      <4> QED
        BY <1>1, <4>1, <4>2 DEF PanelHolds
    <3> QED
      BY <1>0, <1>1, <3>2, <3>3, <3>4 DEF CallInv, ReadyKnown
  <2> QED
    BY <2>5, <2>6, <2>7 DEF MInv
<1> QED
  BY <1>1, <1>2, <1>3

(* The answer reaches the page, which asks main to drop the preview.        *)
LEMMA PrintAnsweredMInv ==
    ASSUME MInv, NEW c \in Calls, PrintAnswered(c)
    PROVE  MInv'
<1>0. TypeOK /\ ListInv /\ CallInv
  BY DEF MInv
<1> DEFINE p == calls[c].preview
           v == [calls[c] EXCEPT !.phase = "discarding"]
<1>1. /\ calls[c].phase = "answered" /\ calls' = [calls EXCEPT ![c] = v]
      /\ stage' = [stage EXCEPT ![p] = "decided"] /\ pending' = Without(pending, p)
      /\ inbox' = Append(inbox, AskRemove(p, c))
      /\ UNCHANGED <<tool, abandoned, queue, channel, flow, lastAuto, jobs, approvals>>
  BY DEF PrintAnswered, agent, Advance
<1>2. calls[c] \in Asked /\ p \in Previews /\ calls[c].kind = "print"
  <2>1. calls[c] \in Asked \cup {Free}
    BY <1>0, Flat
  <2>2. calls[c].kind = "print"
    BY <1>0, <1>1 DEF CallInv, AnswersHaveJobs
  <2> QED
    BY <2>1, <2>2, FreeIsNoRequest DEF Asked
<1>3. v \in Asked /\ v.kind = "print" /\ v.preview = p /\ v.phase = "discarding"
  BY <1>2 DEF Asked
<1> HIDE DEF v
<1>4. /\ calls' \in [Calls -> Asked \cup {Free}]
      /\ \A d \in Calls : calls'[d] = IF d = c THEN v ELSE calls[d]
  BY <1>0, <1>1, <1>3, SetCall
<1>5. /\ inbox' \in Seq(Asks) /\ stage' \in [Previews -> Stages]
      /\ pending' \in Seq(Previews) /\ ListInv'
  BY <1>0, <1>1, <1>2, AskedToRemove
<1>6. TypeOK'
  BY <1>0, <1>1, <1>4, <1>5 DEF TypeOK, Asked, Asks
<1>7. /\ DOMAIN inbox = 1..Len(inbox) /\ Len(inbox) \in Nat
      /\ DOMAIN inbox' = 1..(Len(inbox) + 1)
      /\ inbox'[Len(inbox) + 1] = AskRemove(p, c)
      /\ \A i \in DOMAIN inbox : inbox'[i] = inbox[i]
  <2>1. inbox \in Seq(Asks) /\ AskRemove(p, c) \in Asks
    BY <1>0, <1>2, MessageTypes, Flat
  <2> QED
    BY <1>1, <2>1, Appended
<1>8. CallInv'
  <2>1. AskRemove(p, c).call = c /\ AskRemove(p, c).kind = "remove"
    BY DEF AskRemove
  <2>2. ListsAwaitNothing'
    BY <1>0, <1>1, <1>7, <2>1 DEF CallInv, ListsAwaitNothing
  <2> DEFINE Waits(d) ==
               d \in Calls /\ calls'[d].kind = "print" /\ calls'[d].phase = "discarding"
  <2>3. Waits(c) /\ ~Discarding(c) /\ \A d \in Calls : Discarding(d) => Waits(d)
    BY <1>1, <1>3, <1>4 DEF Discarding
  <2>4. AwaitedOnce'
    <3>1. ASSUME NEW i \in DOMAIN inbox', Awaited(inbox'[i])
          PROVE  /\ Waits(inbox'[i].call)
                 /\ \A j \in DOMAIN inbox' : inbox'[j].call = inbox'[i].call => j = i
                 /\ \A k \in DOMAIN channel' : channel'[k].call # inbox'[i].call
      <4>1. \A j \in DOMAIN inbox : inbox[j].call # None => inbox[j].call # c
        <5> SUFFICES ASSUME NEW j \in DOMAIN inbox, inbox[j].call # None
                     PROVE  inbox[j].call # c
          OBVIOUS
        <5>1. inbox[j] \in Asks
          BY <1>0, Flat
        <5>2. Awaited(inbox[j])
          BY <1>0, <5>1 DEF Asks, Awaited, CallInv, ListsAwaitNothing
        <5> QED
          BY <1>0, <2>3, <5>2 DEF CallInv, AwaitedOnce
      <4>2. \A k \in DOMAIN channel : channel[k].call # None => channel[k].call # c
        <5> SUFFICES ASSUME NEW k \in DOMAIN channel, channel[k].call # None
                     PROVE  channel[k].call # c
          OBVIOUS
        <5>1. channel[k] \in Tells
          BY <1>0, Flat
        <5>2. channel[k].kind = "removed"
          BY <1>0, <5>1 DEF Tells, CallInv, ListsAwaitNothing
        <5> QED
          BY <1>0, <2>3, <5>2 DEF CallInv, AwaitedOnce
      <4>3. CASE i = Len(inbox) + 1
        <5>1. inbox'[i].call = c /\ c # None
          BY <1>7, <2>1, <3>1, <4>3 DEF Awaited
        <5> QED
          BY <1>1, <1>7, <2>3, <4>1, <4>2, <4>3, <5>1
      <4>4. CASE i \in DOMAIN inbox
        <5>1. inbox'[i] = inbox[i] /\ inbox[i].call # None
          BY <1>7, <3>1, <4>4 DEF Awaited
        <5>2. /\ Discarding(inbox[i].call)
              /\ \A j \in DOMAIN inbox : inbox[j].call = inbox[i].call => j = i
              /\ \A k \in DOMAIN channel : channel[k].call # inbox[i].call
          BY <1>0, <3>1, <4>4, <5>1 DEF CallInv, AwaitedOnce
        <5>3. inbox[i].call # c /\ inbox[i].call \in Calls
          BY <4>1, <4>4, <5>1, <5>2 DEF Discarding
        <5> QED
          BY <1>1, <1>7, <2>1, <2>3, <5>1, <5>2, <5>3
      <4> QED
        BY <1>7, <4>3, <4>4
    <3>2. ASSUME NEW k \in DOMAIN channel', channel'[k].kind = "removed"
          PROVE  /\ channel'[k].call # None /\ Waits(channel'[k].call)
                 /\ \A l \in DOMAIN channel' : channel'[l].call = channel'[k].call => l = k
      <4>1. /\ channel[k].call # None /\ Discarding(channel[k].call)
            /\ \A l \in DOMAIN channel : channel[l].call = channel[k].call => l = k
        BY <1>0, <1>1, <3>2 DEF CallInv, AwaitedOnce
      <4>2. channel[k].call \in Calls
        BY <4>1 DEF Discarding
      <4> QED
        BY <1>1, <2>3, <4>1, <4>2
    <3> QED
      BY <3>1, <3>2 DEF AwaitedOnce, Awaited, Discarding
  <2>5. AnswersHaveJobs'
    BY <1>0, <1>1, <1>3, <1>4 DEF CallInv, AnswersHaveJobs
  <2>6. PanelHolds'
    BY <1>0, <1>1, <1>2, <1>3, <1>4 DEF CallInv, PanelHolds
  <2> QED
    BY <1>0, <1>1, <2>2, <2>4, <2>5, <2>6 DEF CallInv, ReadyKnown
<1> QED
  BY <1>5, <1>6, <1>8 DEF MInv

(* Main dropped the preview: the print that waited for it is over.          *)
LEMMA PrintedMInv ==
    ASSUME MInv, Printed
    PROVE  MInv'
<1>0. TypeOK /\ ListInv /\ CallInv
  BY DEF MInv
<1> DEFINE c == Head(channel).call
           p == calls[c].preview
<1>1. /\ channel # <<>> /\ Head(channel).kind = "removed" /\ channel' = Tail(channel)
      /\ flow' = Show("printed", p) /\ calls' = [calls EXCEPT ![c] = Free]
      /\ UNCHANGED <<tool, abandoned, stage, queue, inbox, pending, lastAuto, jobs, approvals>>
  BY DEF Printed, agent, Hangup
<1>2. /\ channel' \in Seq(Tells) /\ Len(channel) \in Nat
      /\ DOMAIN channel' = 1..(Len(channel) - 1) /\ DOMAIN channel = 1..Len(channel)
      /\ 1 \in DOMAIN channel /\ Head(channel) = channel[1] /\ channel[1] \in Tells
      /\ \A k \in DOMAIN channel' : k + 1 \in DOMAIN channel /\ channel'[k] = channel[k + 1]
  BY <1>0, <1>1, Flat, Tailed
<1>3. /\ c # None /\ Discarding(c)
      /\ \A l \in DOMAIN channel : channel[l].call = c => l = 1
  BY <1>0, <1>1, <1>2 DEF CallInv, AwaitedOnce
<1>4. c \in Calls /\ calls[c].kind = "print" /\ p \in Previews /\ jobs[p] > 0
  <2>1. c \in Calls /\ calls[c].kind = "print" /\ calls[c].phase = "discarding"
    BY <1>3 DEF Discarding
  <2>2. calls[c] \in Asked \cup {Free}
    BY <1>0, <2>1, Flat
  <2>3. p \in Previews
    BY <2>1, <2>2, FreeIsNoRequest DEF Asked
  <2> QED
    BY <1>0, <2>1, <2>3 DEF CallInv, AnswersHaveJobs
<1> HIDE DEF c, p
<1>5. /\ calls' \in [Calls -> Asked \cup {Free}]
      /\ \A d \in Calls : calls'[d] = IF d = c THEN Free ELSE calls[d]
  BY <1>0, <1>1, <1>4, SetCall
<1>6. TypeOK'
  <2>1. flow' \in Flows
    BY <1>1, <1>4, MessageTypes
  <2> QED
    BY <1>0, <1>1, <1>2, <1>5, <2>1 DEF TypeOK, Asked, Flows, Tells
<1>7. ListInv'
  <2>1. \A k \in Nat \ {0} : NoList(k)' => NoList(k + 1)
    <3> SUFFICES ASSUME NEW k \in Nat \ {0}, NoList(k)',
                        NEW i \in DOMAIN channel, i >= k + 1
                 PROVE  channel[i].kind # "listed"
      BY DEF NoList
    <3>1. i - 1 \in DOMAIN channel' /\ i - 1 >= k /\ channel'[i - 1] = channel[i]
      BY <1>2
    <3> QED
      BY <3>1 DEF NoList
  <2>2. NoList(1)' => NoList(1)
    <3> SUFFICES ASSUME NoList(1)', NEW i \in DOMAIN channel
                 PROVE  channel[i].kind # "listed"
      BY DEF NoList
    <3>1. CASE i = 1
      BY <1>1, <1>2, <3>1
    <3>2. CASE i # 1
      BY <1>2, <2>1, <3>2 DEF NoList
    <3> QED
      BY <3>1, <3>2
  <2>3. LastListIsQueue'
    BY <1>0, <1>1, <1>2, <2>1 DEF ListInv, LastListIsQueue
  <2>4. QuietListAgrees'
    BY <1>0, <1>1, <2>2 DEF ListInv, QuietListAgrees
  <2> QED
    BY <1>0, <1>1, <2>3, <2>4 DEF ListInv, AsksAreDecided, OpenedIsQueued
<1>8. CallInv'
  <2>1. \A d : d # c /\ Discarding(d) => Discarding(d)'
    BY <1>5 DEF Discarding
  <2>2. Awaited(channel[1]) /\ channel[1].call = c
    BY <1>1, <1>2, <1>3 DEF Awaited, c
  <2>3. \A i \in DOMAIN inbox : Awaited(inbox[i]) => inbox[i].call # c
    BY <1>0, <1>2, <2>2 DEF CallInv, AwaitedOnce
  <2>4. \A k \in DOMAIN channel' : channel'[k].call # c
    BY <1>2, <1>3
  <2>5. ASSUME NEW i \in DOMAIN inbox', Awaited(inbox'[i])
        PROVE  /\ inbox'[i].call # c /\ Discarding(inbox'[i].call)
               /\ \A j \in DOMAIN inbox' : inbox'[j].call = inbox'[i].call => j = i
               /\ \A k \in DOMAIN channel' : channel'[k].call # inbox'[i].call
    BY <1>0, <1>1, <1>2, <2>3, <2>5 DEF CallInv, AwaitedOnce
  <2>6. ASSUME NEW k \in DOMAIN channel', channel'[k].kind = "removed"
        PROVE  /\ channel'[k].call # c /\ Discarding(channel'[k].call)
               /\ channel'[k].call # None
               /\ \A l \in DOMAIN channel' : channel'[l].call = channel'[k].call => l = k
    <3>1. /\ Discarding(channel[k + 1].call) /\ channel[k + 1].call # None
          /\ \A l \in DOMAIN channel : channel[l].call = channel[k + 1].call => l = k + 1
      BY <1>0, <1>2, <2>6 DEF CallInv, AwaitedOnce
    <3> QED
      BY <1>2, <2>4, <2>6, <3>1
  <2>7. AwaitedOnce'
    <3>1. \A d : d # c /\ Discarding(d) =>
            d \in Calls /\ calls'[d].kind = "print" /\ calls'[d].phase = "discarding"
      BY <1>5 DEF Discarding
    <3> HIDE DEF Discarding
    <3>2. ASSUME NEW i \in DOMAIN inbox', Awaited(inbox'[i])
          PROVE  /\ inbox'[i].call \in Calls /\ calls'[inbox'[i].call].kind = "print"
                 /\ calls'[inbox'[i].call].phase = "discarding"
      BY <2>5, <3>1, <3>2
    <3>3. ASSUME NEW k \in DOMAIN channel', channel'[k].kind = "removed"
          PROVE  /\ channel'[k].call \in Calls /\ calls'[channel'[k].call].kind = "print"
                 /\ calls'[channel'[k].call].phase = "discarding"
      BY <2>6, <3>1, <3>3
    <3> QED
      BY <2>5, <2>6, <3>2, <3>3 DEF AwaitedOnce, Awaited, Discarding
  <2>8. ListsAwaitNothing'
    BY <1>0, <1>1, <1>2 DEF CallInv, ListsAwaitNothing
  <2>9. AnswersHaveJobs'
    BY <1>0, <1>1, <1>5, FreeIsNoRequest DEF CallInv, AnswersHaveJobs
  <2>10. ReadyKnown' /\ PanelHolds'
    BY <1>1, <1>4 DEF ReadyKnown, PanelHolds, Show
  <2> QED
    BY <2>7, <2>8, <2>9, <2>10 DEF CallInv
<1> QED
  BY <1>6, <1>7, <1>8 DEF MInv

(* A reload forgets the list, asks for it again, and orphans the calls.     *)
LEMMA ReloadMInv ==
    ASSUME MInv, Reload
    PROVE  MInv'
<1>0. TypeOK /\ ListInv /\ CallInv
  BY DEF MInv
<1> DEFINE Left(c) == [calls[c] EXCEPT !.phase = "orphan"]
           asks == [i \in DOMAIN inbox |-> [inbox[i] EXCEPT !.call = None]]
<1>1. /\ pending' = <<>> /\ flow' = Show("idle", None) /\ lastAuto' = None
      /\ calls' = [c \in Calls |->
           IF calls[c].kind = "print" /\ calls[c].phase \in {"sent", "orphan"}
             THEN Left(c) ELSE Free]
      /\ channel' = <<>> /\ inbox' = Append(asks, AskList)
      /\ UNCHANGED <<tool, abandoned, stage, queue, jobs, approvals>>
  BY DEF Reload, agent
<1>2. calls \in [Calls -> Asked \cup {Free}] /\ inbox \in Seq(Asks)
  BY <1>0, Flat
<1>3. \A c \in Calls : calls[c].kind = "print" =>
        Left(c) \in Asked /\ Left(c).phase = "orphan"
  <2> SUFFICES ASSUME NEW c \in Calls, calls[c].kind = "print"
               PROVE  Left(c) \in Asked /\ Left(c).phase = "orphan"
    OBVIOUS
  <2>1. calls[c] \in Asked
    BY <1>2, FreeIsNoRequest
  <2> QED
    BY <2>1 DEF Asked
<1> HIDE DEF Left
<1>4. /\ calls' \in [Calls -> Asked \cup {Free}]
      /\ \A c \in Calls : calls'[c].phase \in {"orphan", "done"}
  BY <1>1, <1>3, FreeIsNoRequest
<1>5. /\ asks \in Seq(Asks) /\ DOMAIN asks = DOMAIN inbox
      /\ \A i \in DOMAIN inbox : asks[i].kind = inbox[i].kind /\ asks[i].call = None
                                   /\ asks[i].preview = inbox[i].preview
  <2>1. \A m \in Asks :
          /\ [m EXCEPT !.call = None] \in Asks
          /\ [m EXCEPT !.call = None].kind = m.kind
          /\ [m EXCEPT !.call = None].call = None
          /\ [m EXCEPT !.call = None].preview = m.preview
    BY DEF Asks
  <2>2. DOMAIN inbox = 1..Len(inbox) /\ Len(inbox) \in Nat
        /\ \A i \in 1..Len(inbox) : inbox[i] \in Asks
    BY <1>2
  <2>3. \A i \in 1..Len(inbox) : asks[i] = [inbox[i] EXCEPT !.call = None]
    BY <2>2
  <2>4. /\ \A i \in 1..Len(inbox) :
             /\ asks[i] \in Asks /\ asks[i].kind = inbox[i].kind /\ asks[i].call = None
             /\ asks[i].preview = inbox[i].preview
    BY <2>1, <2>2, <2>3
  <2>5. asks = [i \in 1..Len(inbox) |-> asks[i]]
    BY <2>2
  <2> HIDE DEF asks
  <2>6. asks \in Seq(Asks) /\ DOMAIN asks = 1..Len(inbox)
    BY <2>2, <2>4, <2>5
  <2> QED
    BY <2>2, <2>4, <2>6
<1> HIDE DEF asks
<1>6. /\ inbox' \in Seq(Asks) /\ Len(asks) \in Nat /\ DOMAIN asks = 1..Len(asks)
      /\ DOMAIN inbox' = 1..(Len(asks) + 1) /\ inbox'[Len(asks) + 1] = AskList
      /\ \A i \in DOMAIN asks : inbox'[i] = asks[i]
  BY <1>1, <1>5, MessageTypes, Appended
<1>7. AskList.kind = "list" /\ AskList.call = None
  BY DEF AskList
<1>8. TypeOK'
  <2>1. flow' \in Flows
    BY <1>1, MessageTypes
  <2>2. channel' \in Seq(Tells) /\ pending' \in Seq(Previews)
    BY <1>1
  <2> QED
    BY <1>0, <1>1, <1>4, <1>6, <2>1, <2>2 DEF TypeOK, Asked, Flows, Tells, Asks
<1>9. ListInv'
  <2>1. AsksAreDecided'
    BY <1>0, <1>1, <1>5, <1>6, <1>7 DEF ListInv, AsksAreDecided
  <2>2. LastListIsQueue' /\ OpenedIsQueued'
    BY <1>0, <1>1 DEF ListInv, LastListIsQueue, OpenedIsQueued
  <2>3. QuietListAgrees'
    BY <1>6 DEF QuietListAgrees
  <2> QED
    BY <2>1, <2>2, <2>3 DEF ListInv
<1>10. CallInv'
  <2>1. \A i \in DOMAIN inbox' : inbox'[i].call = None
    BY <1>5, <1>6, <1>7
  <2>2. AwaitedOnce' /\ ListsAwaitNothing'
    BY <1>1, <2>1 DEF AwaitedOnce, Awaited, ListsAwaitNothing
  <2>3. AnswersHaveJobs'
    BY <1>4 DEF AnswersHaveJobs
  <2>4. ReadyKnown' /\ PanelHolds'
    BY <1>1 DEF ReadyKnown, PanelHolds, Show
  <2> QED
    BY <2>2, <2>3, <2>4 DEF CallInv
<1> QED
  BY <1>8, <1>9, <1>10 DEF MInv

LEMMA InitMInv == Init => MInv
<1> SUFFICES ASSUME Init PROVE MInv
  OBVIOUS
<1>1. inbox \in Seq(Asks) /\ DOMAIN inbox = {1} /\ inbox[1] = AskList
  BY MessageTypes DEF Init
<1>2. AskList.kind = "list" /\ AskList.call = None
  BY DEF AskList
<1>3. TypeOK
  <2>1. flow \in Flows
    BY MessageTypes DEF Init
  <2> QED
    BY <1>1, <2>1 DEF Init, TypeOK, Asks, Flows, Stages
<1>4. ListInv
  BY <1>1, <1>2
     DEF Init, ListInv, AsksAreDecided, OpenedIsQueued, LastListIsQueue, QuietListAgrees
<1>5. CallInv
  BY <1>1, <1>2, FreeIsNoRequest
     DEF Init, CallInv, ReadyKnown, AwaitedOnce, Awaited, ListsAwaitNothing,
         AnswersHaveJobs, PanelHolds, Show
<1> QED
  BY <1>3, <1>4, <1>5 DEF MInv

LEMMA NextMInv == MInv /\ [Next]_vars => MInv'
<1> SUFFICES ASSUME MInv, [Next]_vars PROVE MInv'
  OBVIOUS
<1>0. TypeOK /\ ListInv /\ CallInv
  BY DEF MInv
<1>1. CASE CallTool \/ ToolFails \/ UNCHANGED vars
  <2>1. /\ tool' \in {"idle", "waiting"} /\ abandoned' \in Nat
        /\ UNCHANGED <<stage, queue, inbox, channel, pending, flow, lastAuto, calls, jobs,
                       approvals>>
    BY <1>0, <1>1 DEF CallTool, ToolFails, TypeOK, page, vars
  <2>2. TypeOK'
    BY <1>0, <2>1 DEF TypeOK
  <2> QED
    BY <1>0, <2>1, <2>2, ListFrame, CallFrame DEF MInv
<1>2. CASE AutoReview
  <2>1. Head(pending) \in Previews
    BY <1>0, <1>2, Flat DEF AutoReview
  <2> QED
    BY <1>2, <2>1, ReviewMInv DEF AutoReview, agent
<1>3. ASSUME NEW p \in Previews, ReviewInput(p) \/ Select(p) PROVE MInv'
  BY <1>3, ReviewMInv DEF ReviewInput, Select, agent
<1>4. ASSUME NEW c \in Calls, Reviewed(c) PROVE MInv'
  <2>1. calls[c].kind = "review" /\ calls[c] # Free /\ calls[c].phase # "discarding"
    BY <1>0, <1>4, FreeIsNoRequest DEF Reviewed, CallInv, AnswersHaveJobs
  <2> QED
    BY <1>4, <2>1, HangupMInv DEF Reviewed, Hangup, agent
<1>5. ASSUME NEW c \in Calls, Fails(c) \/ OrphanFails(c) PROVE MInv'
  <2>1. CASE Fails(c)
    BY <2>1, HangupMInv, FreeIsNoRequest DEF Fails, Hangup, agent
  <2>2. CASE OrphanFails(c)
    BY <2>2, HangupMInv DEF OrphanFails, Hangup, agent
  <2> QED
    BY <1>5, <2>1, <2>2
<1> QED
  BY <1>1, <1>2, <1>3, <1>4, <1>5, CreateMInv, OpenUrlMInv, HandleListMInv,
     HandleRemoveMInv, ReceiveListMInv, DenyMInv, ApproveMInv, ServePrintMInv,
     PrintAnsweredMInv, PrintedMInv, ReloadMInv
     DEF Next, Main, Receive, Return

(* What main, the page, the daemon and the messages between them agree on.  *)
THEOREM PanelAndListInvariant == Spec => []MInv
BY InitMInv, NextMInv, PTL DEF Spec

(* The queue, the messages, the panel and the calls keep their types.       *)
THEOREM ApprovalTypeCorrect == Spec => []TypeOK
<1>1. MInv => TypeOK
  BY DEF MInv
<1> QED
  BY <1>1, PanelAndListInvariant, PTL

(* When no message is under way the page lists what main lists, and every   *)
(* opened preview that nobody decided is on it, after any loads, reloads,   *)
(* removals and lists that cross on their way.                              *)
THEOREM NothingPendingIsLost == Spec => []UndecidedIsListed
<1>1. MInv => UndecidedIsListed
  <2> SUFFICES ASSUME MInv, inbox = <<>>, channel = <<>>
               PROVE  /\ pending = queue
                      /\ \A p \in Previews : stage[p] = "opened" => p \in Range(pending)
    BY DEF UndecidedIsListed
  <2>1. NoList(1)
    BY DEF NoList
  <2> QED
    BY <2>1 DEF MInv, ListInv, QuietListAgrees, OpenedIsQueued
<1> QED
  BY <1>1, PanelAndListInvariant, PTL

(* A panel that says printing has a print under way, and one that says      *)
(* printed names a preview that a job of the daemon printed.                *)
THEOREM PanelStaysTruthful == Spec => []PanelTruthful
<1>1. MInv => PanelTruthful
  BY DEF MInv, CallInv, PanelHolds, PanelTruthful, Printing
<1> QED
  BY <1>1, PanelAndListInvariant, PTL

=============================================================================

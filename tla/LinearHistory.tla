---------------------------- MODULE LinearHistory ----------------------------
(***************************************************************************)
(* What undo and redo promise the user: the documents he has passed through *)
(* form one line, of which the editor keeps the last Limit + 1; undo and    *)
(* redo only walk along it, a new edit cuts off what was undone, and        *)
(* opening another document starts a new line.                              *)
(***************************************************************************)
EXTENDS Integers, Sequences

CONSTANTS Documents, Limit

VARIABLES timeline,   \* the documents, oldest first
          cursor      \* where on the line the editor is

historyVars == <<timeline, cursor>>

(* The last n members of s: s.slice(-n).                                    *)
LastN(s, n) == IF Len(s) <= n THEN s ELSE SubSeq(s, Len(s) - n + 1, Len(s))

StartWith(d) == timeline = <<d>> /\ cursor = 1

Init == \E d \in Documents : StartWith(d)

Edit ==
    /\ \E d \in Documents :
         timeline' = LastN(Append(SubSeq(timeline, 1, cursor), d), Limit + 1)
    /\ cursor' = Len(timeline')

Undo ==
    /\ cursor > 1
    /\ cursor' = cursor - 1
    /\ UNCHANGED timeline

Redo ==
    /\ cursor < Len(timeline)
    /\ cursor' = cursor + 1
    /\ UNCHANGED timeline

Open == \E d \in Documents : timeline' = <<d>> /\ cursor' = 1

Next == Edit \/ Undo \/ Redo \/ Open

Spec == Init /\ [][Next]_historyVars
=============================================================================

------------------------------ MODULE Editor_proofs ------------------------------
(***************************************************************************)
(* What the renderer knows of the user's work.  DocumentHistory, for any    *)
(* elements, contents and limit: undo and redo walk along one line of       *)
(* documents.  ProjectWorkflow, for any number of projects and requests in  *)
(* flight: an answer is of the kind its request asks for; while nothing     *)
(* disturbs the page, one request at most is under way, and it still speaks *)
(* of the editor, the active project and the store as they are.             *)
(***************************************************************************)
EXTENDS DocumentHistory, ProjectWorkflow, SequenceTheorems, TLAPS

-----------------------------------------------------------------------------
(* The document and its history.                                            *)
IInv == TypeOK /\ HistoryBounded /\ ReloadLosesOneStep

-----------------------------------------------------------------------------
(* Facts about documents.                                                   *)

(* What an edit makes of a document is a document.                          *)
LEMMA EditsMakeDocuments ==
    ASSUME NEW d \in Documents, NEW e \in Elements, NEW c \in Contents
    PROVE  Put(d, e, c) \in Documents
<1>1. PICK S \in SUBSET Elements : d \in [S -> Contents]
  BY DEF Documents
<1>2. Put(d, e, c) \in [S \cup {e} -> Contents]
  BY <1>1 DEF Put
<1> QED
  BY <1>1, <1>2 DEF Documents

(* And so is a document with an element less.                               *)
LEMMA DeletingMakesDocuments ==
    ASSUME NEW d \in Documents, NEW e
    PROVE  Without(d, e) \in Documents
<1>1. PICK S \in SUBSET Elements : d \in [S -> Contents]
  BY DEF Documents
<1>2. Without(d, e) \in [S \ {e} -> Contents]
  BY <1>1 DEF Without
<1> QED
  BY <1>1, <1>2 DEF Documents

LEMMA ElementsOfDocuments ==
    ASSUME NEW d \in Documents PROVE DOMAIN d \subseteq Elements
BY DEF Documents

LEMMA DefaultIsADocument == DefaultDocument \in Documents
<1>1. DefaultDocument \in [{} -> Contents]
  BY DEF DefaultDocument
<1> QED
  BY <1>1 DEF Documents

-----------------------------------------------------------------------------
(* Facts about sequences.                                                   *)

(* slice(-n) keeps at most n members, the last one among them.              *)
LEMMA LastNProperties ==
    ASSUME NEW T, NEW s \in Seq(T), NEW n \in Nat \ {0}
    PROVE  /\ LastN(s, n) \in Seq(T)
           /\ Len(LastN(s, n)) <= n
           /\ Len(LastN(s, n)) <= Len(s)
           /\ Len(s) <= n => LastN(s, n) = s
           /\ s # <<>> => /\ LastN(s, n) # <<>>
                          /\ LastN(s, n)[Len(LastN(s, n))] = s[Len(s)]
<1>1. CASE Len(s) <= n
  BY <1>1 DEF LastN
<1>2. CASE ~(Len(s) <= n)
  <2> DEFINE t == SubSeq(s, Len(s) - n + 1, Len(s))
  <2>1. LastN(s, n) = t
    BY <1>2 DEF LastN
  <2>2. /\ t \in Seq(T) /\ Len(t) = n
        /\ \A i \in 1..n : t[i] = s[Len(s) - n + i]
    BY <1>2, SMT
  <2>3. t[n] = s[Len(s)]
    BY <1>2, <2>2
  <2> HIDE DEF t
  <2>4. Len(t) <= n /\ n <= Len(s) /\ t # <<>>
    BY <1>2, <2>2, SMT
  <2> QED
    BY <1>2, <2>1, <2>2, <2>3, <2>4
<1> QED
  BY <1>1, <1>2

(* Trimming before or after a document is appended comes to the same.       *)
LEMMA LastNOfAppend ==
    ASSUME NEW T, NEW s \in Seq(T), NEW n \in Nat \ {0}, NEW e \in T
    PROVE  LastN(Append(s, e), n + 1) = Append(LastN(s, n), e)
<1>1. CASE Len(s) <= n
  BY <1>1 DEF LastN
<1>2. CASE ~(Len(s) <= n)
  <2> DEFINE k == Len(s)
             a == SubSeq(Append(s, e), k + 1 - n, k + 1)
             b == Append(SubSeq(s, k - n + 1, k), e)
  <2>1. LastN(Append(s, e), n + 1) = a
    BY <1>2, SMT DEF LastN
  <2>2. Append(LastN(s, n), e) = b
    BY <1>2 DEF LastN
  <2>3. a \in Seq(T) /\ Len(a) = n + 1
    BY <1>2, SMT
  <2>4. b \in Seq(T) /\ Len(b) = n + 1
    BY <1>2, SMT
  <2>5. ASSUME NEW i \in 1..(n + 1) PROVE a[i] = b[i]
    BY <1>2, SMT
  <2> HIDE DEF a, b
  <2>6. a = b
    BY <2>3, <2>4, <2>5, SeqEqual
  <2> QED
    BY <2>1, <2>2, <2>6
<1> QED
  BY <1>1, <1>2

(* slice(0, -1) drops the last member.                                      *)
LEMMA AllButLast ==
    ASSUME NEW T, NEW p \in Seq(T), p # <<>>
    PROVE  /\ Len(p) \in Nat \ {0}
           /\ SubSeq(p, 1, Len(p) - 1) \in Seq(T)
           /\ Len(SubSeq(p, 1, Len(p) - 1)) = Len(p) - 1
           /\ p[Len(p)] \in T
<1>1. Len(p) \in Nat \ {0}
  BY EmptySeq
<1>2. \A i \in 1..(Len(p) - 1) : p[i] \in T
  BY <1>1, ElementOfSeq
<1>3. p[Len(p)] \in T
  BY <1>1, ElementOfSeq
<1> DEFINE n == Len(p) - 1
<1>4. n \in Int /\ n \in Nat
  BY <1>1
<1>5. \A i \in 1..n : p[i] \in T
  BY <1>2
<1> HIDE DEF n
<1>6. /\ SubSeq(p, 1, n) \in Seq(T)
      /\ Len(SubSeq(p, 1, n)) = IF 1 <= n THEN n - 1 + 1 ELSE 0
  BY <1>4, <1>5, SubSeqProperties
<1>7. Len(SubSeq(p, 1, n)) = n
  BY <1>4, <1>6
<1> QED
  BY <1>1, <1>3, <1>6, <1>7 DEF n

(* The line of documents that the two stacks and the document make.         *)
Line(p, d, f) == p \o <<d>> \o f

(* Up to its cursor the line is past and the document.                      *)
LEMMA LineUpToCursor ==
    ASSUME NEW T, NEW p \in Seq(T), NEW d \in T, NEW f \in Seq(T)
    PROVE  /\ Line(p, d, f) \in Seq(T)
           /\ Len(Line(p, d, f)) = Len(p) + 1 + Len(f)
           /\ SubSeq(Line(p, d, f), 1, Len(p) + 1) = Append(p, d)
<1>1. /\ Line(p, d, f) \in Seq(T)
      /\ Len(Line(p, d, f)) = Len(p) + 1 + Len(f)
  BY DEF Line
<1> DEFINE a == SubSeq(Line(p, d, f), 1, Len(p) + 1)
           b == Append(p, d)
<1>2. a \in Seq(T) /\ Len(a) = Len(p) + 1
  BY <1>1, SMT
<1>3. b \in Seq(T) /\ Len(b) = Len(p) + 1
  BY SMT
<1>4. ASSUME NEW i \in 1..(Len(p) + 1) PROVE a[i] = b[i]
  BY <1>1, SMT DEF Line
<1> HIDE DEF a, b
<1>5. a = b
  BY <1>2, <1>3, <1>4, SeqEqual
<1> QED
  BY <1>1, <1>5 DEF a, b

(* Undo moves the cursor along the line and leaves the line as it is.       *)
LEMMA UndoKeepsLine ==
    ASSUME NEW T, NEW p \in Seq(T), p # <<>>, NEW d \in T, NEW f \in Seq(T)
    PROVE  Line(SubSeq(p, 1, Len(p) - 1), p[Len(p)], <<d>> \o f) = Line(p, d, f)
<1>1. p = SubSeq(p, 1, Len(p) - 1) \o <<p[Len(p)]>>
  <2>1. Len(p) \in Nat \ {0}
    BY EmptySeq
  <2> DEFINE b == SubSeq(p, 1, Len(p) - 1) \o <<p[Len(p)]>>
  <2>2. b \in Seq(T) /\ Len(b) = Len(p)
    <3>1. /\ SubSeq(p, 1, Len(p) - 1) \in Seq(T)
          /\ Len(SubSeq(p, 1, Len(p) - 1)) = Len(p) - 1
          /\ p[Len(p)] \in T
      BY AllButLast
    <3> QED
      BY <2>1, <3>1, ConcatProperties
  <2>3. ASSUME NEW i \in 1..Len(p) PROVE p[i] = b[i]
    BY <2>1, SMT
  <2> HIDE DEF b
  <2>4. p = b
    BY <2>2, <2>3, SeqEqual
  <2> QED
    BY <2>4 DEF b
<1> DEFINE q == SubSeq(p, 1, Len(p) - 1)
           l == p[Len(p)]
<1>2. q \in Seq(T) /\ l \in T
  BY EmptySeq, SMT
<1> HIDE DEF q, l
<1>3. <<d>> \in Seq(T) /\ <<l>> \in Seq(T)
  BY <1>2
<1>4. (q \o <<l>>) \o (<<d>> \o f) = ((q \o <<l>>) \o <<d>>) \o f
  BY <1>2, <1>3, ConcatAssociative, ConcatProperties
<1> QED
  BY <1>1, <1>4 DEF Line, q, l

(* And redo undoes an undo.                                                 *)
LEMMA RedoKeepsLine ==
    ASSUME NEW T, NEW p \in Seq(T), NEW d \in T, NEW f \in Seq(T), f # <<>>
    PROVE  Line(Append(p, d), f[1], Tail(f)) = Line(p, d, f)
<1>1. /\ Len(f) \in Nat \ {0}
      /\ Tail(f) \in Seq(T)
      /\ f[1] \in T
  BY EmptySeq, HeadTailProperties, SMT
<1>2. f = <<f[1]>> \o Tail(f)
  <2> DEFINE b == <<f[1]>> \o Tail(f)
  <2>1. b \in Seq(T) /\ Len(b) = Len(f)
    BY <1>1, SMT
  <2>2. ASSUME NEW i \in 1..Len(f) PROVE f[i] = b[i]
    BY <1>1, SMT
  <2> HIDE DEF b
  <2>3. f = b
    BY <2>1, <2>2, SeqEqual
  <2> QED
    BY <2>3 DEF b
<1> DEFINE h == f[1]
           t == Tail(f)
<1>3. h \in T /\ t \in Seq(T) /\ f = <<h>> \o t
  BY <1>1, <1>2
<1> HIDE DEF h, t
<1>4. Append(p, d) = p \o <<d>>
  BY AppendIsConcat
<1>5. /\ p \o <<d>> \in Seq(T)
      /\ <<h>> \in Seq(T)
  BY <1>3
<1>6. ((p \o <<d>>) \o <<h>>) \o t = (p \o <<d>>) \o (<<h>> \o t)
  BY <1>3, <1>5, ConcatAssociative
<1> QED
  BY <1>3, <1>4, <1>6 DEF Line, h, t

-----------------------------------------------------------------------------
(* Every edit keeps the invariant: what was on the screen, and in           *)
(* localStorage, becomes the last document of past.                         *)
LEMMA CommitKeepsInv ==
    ASSUME TypeOK, Settled, NEW d \in Documents,
           NEW e \in Elements \cup {NoElement}, Commit(d, e)
    PROVE  IInv'
<1> DEFINE trail == Append(past, document)
<1>1. trail \in Seq(Documents) /\ trail # <<>> /\ trail[Len(trail)] = document
  BY DEF TypeOK
<1>2. Limit \in Nat \ {0}
  BY HistoryAssumption
<1> HIDE DEF trail
<1>3. /\ past' \in Seq(Documents)
      /\ Len(past') <= Limit
      /\ past' # <<>>
      /\ past'[Len(past')] = document
  BY <1>1, <1>2, LastNProperties DEF Commit, trail
<1>4. TypeOK'
  BY <1>3 DEF TypeOK, Commit
<1>5. HistoryBounded'
  <2>1. Len(past') \in Nat
    BY <1>3, LenProperties
  <2>2. Len(future') = 0
    BY DEF Commit
  <2> QED
    BY <1>2, <1>3, <2>1, <2>2 DEF HistoryBounded
<1>6. ReloadLosesOneStep'
  BY <1>3 DEF ReloadLosesOneStep, Commit, Settled
<1> QED
  BY <1>4, <1>5, <1>6 DEF IInv

(* A step that starts a new line of documents keeps it too.                 *)
LEMMA StartKeepsInv ==
    ASSUME TypeOK, NEW d \in Documents, StartWith(d),
           stored' = stored, mounted' \in BOOLEAN
    PROVE  IInv'
<1>1. past' = <<>> /\ future' = <<>> /\ document' \in Documents
  BY DEF StartWith
<1>2. TypeOK'
  BY <1>1, EmptySeq DEF TypeOK, StartWith
<1>3. HistoryBounded'
  BY <1>1, HistoryAssumption DEF HistoryBounded
<1>4. ReloadLosesOneStep'
  BY <1>1 DEF ReloadLosesOneStep
<1> QED
  BY <1>2, <1>3, <1>4 DEF IInv

LEMMA InitInv == Init => IInv
<1> SUFFICES ASSUME Init PROVE IInv
  OBVIOUS
<1>1. stored \in Documents \cup {Absent}
  BY DEF Init
<1>2. document \in Documents
  BY <1>1, DefaultIsADocument DEF Init, Restored
<1>3. TypeOK
  BY <1>1, <1>2, EmptySeq DEF TypeOK, Init
<1>4. HistoryBounded
  BY HistoryAssumption DEF Init, HistoryBounded
<1>5. ReloadLosesOneStep
  BY DEF Init, ReloadLosesOneStep
<1> QED
  BY <1>3, <1>4, <1>5 DEF IInv

(* What an editing action commits is a document.                            *)
Edit == \E d \in Documents, e \in Elements \cup {NoElement} : Settled /\ Commit(d, e)

LEMMA EditsCommit ==
    ASSUME TypeOK
    PROVE  /\ \A e \in Elements : Add(e) => Edit
           /\ \A e \in Elements : Update(e) => Edit
           /\ InsertMarkers => Edit
           /\ Delete => Edit
<1>1. document \in Documents
  BY DEF TypeOK
<1>2. \A e \in Elements, c \in Contents : Put(document, e, c) \in Documents
  BY <1>1, EditsMakeDocuments
<1>3. NewContents \subseteq Contents /\ Marker \in Elements
  BY HistoryAssumption
<1>4. ASSUME NEW e \in Elements, Add(e) PROVE Edit
  BY <1>2, <1>3, <1>4 DEF Add, Edit
<1>5. ASSUME NEW e \in Elements, Update(e) PROVE Edit
  BY <1>2, <1>5 DEF Update, Edit
<1>6. ASSUME InsertMarkers PROVE Edit
  BY <1>2, <1>3, <1>6 DEF InsertMarkers, Edit
<1>7. ASSUME Delete PROVE Edit
  <2>1. Without(document, selected) \in Documents
    BY <1>1, DeletingMakesDocuments
  <2> QED
    BY <1>7, <2>1 DEF Delete, Edit
<1> QED
  BY <1>4, <1>5, <1>6, <1>7

LEMMA UndoKeepsInv ==
    ASSUME IInv, Undo
    PROVE  IInv'
<1>1. /\ past \in Seq(Documents) /\ future \in Seq(Documents)
      /\ document \in Documents /\ past # <<>>
  BY DEF IInv, TypeOK, Undo
<1>2. Len(past) \in Nat \ {0} /\ past[Len(past)] \in Documents
  BY <1>1, EmptySeq, ElementOfSeq
<1>3. past' \in Seq(Documents) /\ Len(past') = Len(past) - 1
  BY <1>1, AllButLast DEF Undo
<1>4. /\ future' \in Seq(Documents) /\ Len(future') = Len(future) + 1
      /\ future' # <<>> /\ future'[1] = document
  BY <1>1, SMT DEF Undo
<1>5. TypeOK'
  BY <1>2, <1>3, <1>4 DEF TypeOK, IInv, Undo
<1>6. HistoryBounded'
  BY <1>1, <1>2, <1>3, <1>4, LenProperties DEF HistoryBounded, IInv
<1>7. ReloadLosesOneStep'
  BY <1>4 DEF ReloadLosesOneStep, Undo, Settled
<1> QED
  BY <1>5, <1>6, <1>7 DEF IInv

(* Redo never finds past full, because the document it returns to counts    *)
(* against the limit already.                                               *)
LEMMA RedoAppends ==
    ASSUME IInv, Redo
    PROVE  /\ past' = Append(past, document)
           /\ future # <<>>
           /\ Len(future) \in Nat \ {0}
           /\ Len(past) + Len(future) <= Limit
<1>1. /\ past \in Seq(Documents) /\ future \in Seq(Documents)
      /\ document \in Documents /\ future # <<>>
  BY DEF IInv, TypeOK, Redo
<1>2. Len(future) \in Nat \ {0} /\ Len(past) \in Nat /\ Limit \in Nat \ {0}
  BY <1>1, EmptySeq, LenProperties, HistoryAssumption
<1>3. Len(past) + Len(future) <= Limit
  BY DEF IInv, HistoryBounded
<1>4. Len(Append(past, document)) <= Limit
  BY <1>1, <1>2, <1>3
<1>5. Append(past, document) \in Seq(Documents)
  BY <1>1
<1> QED
  BY <1>1, <1>2, <1>3, <1>4, <1>5, LastNProperties DEF Redo

LEMMA RedoKeepsInv ==
    ASSUME IInv, Redo
    PROVE  IInv'
<1>1. /\ past \in Seq(Documents) /\ future \in Seq(Documents)
      /\ document \in Documents
  BY DEF IInv, TypeOK
<1>2. /\ past' = Append(past, document) /\ future # <<>>
      /\ Len(future) \in Nat \ {0} /\ Len(past) + Len(future) <= Limit
  BY RedoAppends
<1>3. /\ past' \in Seq(Documents) /\ Len(past') = Len(past) + 1
      /\ past' # <<>> /\ past'[Len(past')] = document
  BY <1>1, <1>2
<1>4. /\ future' = Tail(future) /\ future' \in Seq(Documents)
      /\ Len(future') = Len(future) - 1
  BY <1>1, <1>2, SMT DEF Redo
<1>5. document' \in Documents
  BY <1>1, <1>2, ElementOfSeq DEF Redo
<1>6. TypeOK'
  BY <1>3, <1>4, <1>5 DEF TypeOK, IInv, Redo
<1>7. HistoryBounded'
  BY <1>1, <1>2, <1>3, <1>4, LenProperties DEF HistoryBounded
<1>8. ReloadLosesOneStep'
  BY <1>3 DEF ReloadLosesOneStep, Redo, Settled
<1> QED
  BY <1>6, <1>7, <1>8 DEF IInv

LEMMA RestoredIsADocument ==
    ASSUME TypeOK PROVE Restored \in Documents
BY DefaultIsADocument DEF TypeOK, Restored

LEMMA NextInv == IInv /\ [Next]_vars => IInv'
<1> SUFFICES ASSUME IInv, [Next]_vars PROVE IInv'
  OBVIOUS
<1> USE DEF IInv
<1>1. ASSUME Edit PROVE IInv'
  BY <1>1, CommitKeepsInv DEF Edit
<1>2. ASSUME NEW e \in Elements, Add(e) PROVE IInv'
  BY <1>1, <1>2, EditsCommit
<1>3. ASSUME NEW e \in Elements, Update(e) PROVE IInv'
  BY <1>1, <1>3, EditsCommit
<1>4. ASSUME NEW e \in Elements \cup {NoElement}, Select(e) PROVE IInv'
  BY <1>4, ElementsOfDocuments
     DEF TypeOK, HistoryBounded, ReloadLosesOneStep, Select
<1>5. CASE InsertMarkers
  BY <1>1, <1>5, EditsCommit
<1>6. CASE Delete
  BY <1>1, <1>6, EditsCommit
<1>7. CASE Undo
  BY <1>7, UndoKeepsInv
<1>8. CASE Redo
  BY <1>8, RedoKeepsInv
<1>9. ASSUME NEW d \in Documents, Open(d) PROVE IInv'
  BY <1>9, StartKeepsInv DEF Open, TypeOK
<1>10. CASE Autosave
  BY <1>10 DEF TypeOK, HistoryBounded, ReloadLosesOneStep, Autosave
<1>11. CASE AutosaveThrows
  BY <1>11 DEF TypeOK, HistoryBounded, ReloadLosesOneStep, AutosaveThrows
<1>12. CASE Reload
  BY <1>12, RestoredIsADocument, StartKeepsInv DEF Reload
<1>13. CASE UNCHANGED vars
  BY <1>13 DEF TypeOK, HistoryBounded, ReloadLosesOneStep, vars
<1> QED
  BY <1>2, <1>3, <1>4, <1>5, <1>6, <1>7, <1>8, <1>9, <1>10, <1>11, <1>12, <1>13
     DEF Next

(* The editor's state keeps its types, for any set of elements and any      *)
(* limit.                                                                   *)
THEOREM HistoryTypeCorrect == Spec => []TypeOK
<1>1. IInv => TypeOK
  BY DEF IInv
<1> QED
  BY InitInv, NextInv, <1>1, PTL DEF Spec

(* Undo and redo together never hold more than Limit documents: the         *)
(* slice(-50) in redoDocumentChange never drops one.                        *)
THEOREM HistoryStaysBounded == Spec => []HistoryBounded
<1>1. IInv => HistoryBounded
  BY DEF IInv
<1> QED
  BY InitInv, NextInv, <1>1, PTL DEF Spec

(* A reload between a render and its effect takes back one step at most.    *)
THEOREM ReloadIsCheap == Spec => []ReloadLosesOneStep
<1>1. IInv => ReloadLosesOneStep
  BY DEF IInv
<1> QED
  BY InitInv, NextInv, <1>1, PTL DEF Spec

-----------------------------------------------------------------------------
(* The refinement: each action of the editor is an action on the line.      *)

timelineBar == past \o <<document>> \o future

LEMMA LineIsTimeline == timelineBar = Line(past, document, future)
BY DEF timelineBar, Line

(* An edit cuts off what was undone, and trims the line's old end.          *)
LEMMA EditsExtendLine == ASSUME TypeOK, Edit PROVE History!Edit
<1>1. PICK d \in Documents, e \in Elements \cup {NoElement} : Commit(d, e)
  BY DEF Edit
<1>2. /\ past \in Seq(Documents) /\ future \in Seq(Documents)
      /\ document \in Documents /\ Limit \in Nat \ {0}
  BY HistoryAssumption DEF TypeOK
<1> DEFINE trail == Append(past, document)
<1>3. trail \in Seq(Documents)
  BY <1>2
<1>4. SubSeq(timelineBar, 1, Len(past) + 1) = trail
  BY <1>2, LineUpToCursor, LineIsTimeline
<1> HIDE DEF trail
<1>5. LastN(Append(trail, d), Limit + 1) = Append(LastN(trail, Limit), d)
  BY <1>2, <1>3, LastNOfAppend
<1>6. past' = LastN(trail, Limit) /\ past' \in Seq(Documents)
  BY <1>1, <1>2, <1>3, LastNProperties DEF Commit, trail
<1>7. timelineBar' = Append(past', d)
  <2>1. timelineBar' = past' \o <<d>> \o <<>>
    BY <1>1 DEF Commit, timelineBar
  <2>2. past' \o <<d>> = Append(past', d) /\ Append(past', d) \in Seq(Documents)
    BY <1>6, AppendIsConcat
  <2> QED
    BY <2>1, <2>2, ConcatEmptySeq
<1>8. Len(past') + 1 = Len(timelineBar')
  BY <1>6, <1>7
<1>9. timelineBar' = LastN(Append(SubSeq(timelineBar, 1, Len(past) + 1), d), Limit + 1)
  BY <1>4, <1>5, <1>6, <1>7
<1> QED
  BY <1>8, <1>9 DEF History!Edit, History!LastN, timelineBar, LastN

LEMMA UndoWalksBack == ASSUME TypeOK, Undo PROVE History!Undo
<1>1. /\ past \in Seq(Documents) /\ future \in Seq(Documents)
      /\ document \in Documents /\ past # <<>>
  BY DEF TypeOK, Undo
<1>2. Len(past) \in Nat \ {0}
  BY <1>1, EmptySeq
<1>3. timelineBar' = timelineBar
  <2>1. timelineBar' = Line(past', document', future')
    BY DEF timelineBar, Line
  <2>2. Line(past', document', future')
          = Line(SubSeq(past, 1, Len(past) - 1), past[Len(past)], <<document>> \o future)
    BY DEF Undo
  <2> QED
    BY <1>1, <2>1, <2>2, UndoKeepsLine, LineIsTimeline
<1>4. Len(past') = Len(past) - 1
  BY <1>1, AllButLast DEF Undo
<1> QED
  BY <1>2, <1>3, <1>4 DEF History!Undo, timelineBar

LEMMA RedoWalksOn == ASSUME IInv, Redo PROVE History!Redo
<1>1. /\ past \in Seq(Documents) /\ future \in Seq(Documents)
      /\ document \in Documents
  BY DEF IInv, TypeOK
<1>2. past' = Append(past, document) /\ future # <<>> /\ Len(future) \in Nat \ {0}
  BY RedoAppends
<1>3. timelineBar' = timelineBar
  BY <1>1, <1>2, RedoKeepsLine DEF Redo, Line, timelineBar
<1>4. Len(past') = Len(past) + 1 /\ Len(past) \in Nat
  BY <1>1, <1>2
<1>5. Len(past) + 1 < Len(timelineBar)
  BY <1>1, <1>2, <1>4, LineUpToCursor, LineIsTimeline
<1> QED
  BY <1>3, <1>4, <1>5 DEF History!Redo, timelineBar

LEMMA StartsOpen ==
    ASSUME NEW d \in Documents, StartWith(d)
    PROVE  History!Open
<1>1. past' = <<>> /\ future' = <<>> /\ document' = d
  BY DEF StartWith
<1>2. <<>> \o <<d>> \o <<>> = <<d>>
  <2>1. <<d>> \in Seq(Documents)
    OBVIOUS
  <2> QED
    BY <2>1, ConcatEmptySeq
<1>3. Len(past') + 1 = 1
  BY <1>1
<1> QED
  BY <1>1, <1>2, <1>3 DEF History!Open

(* A step that leaves the document and the stacks alone is a stutter.       *)
LEMMA ElsewhereStutters ==
    ASSUME UNCHANGED <<document, past, future>>
    PROVE  UNCHANGED History!historyVars
BY DEF History!historyVars

LEMMA StepsOnTheLine == IInv /\ [Next]_vars => [History!Next]_(History!historyVars)
<1> SUFFICES ASSUME IInv, [Next]_vars PROVE [History!Next]_(History!historyVars)
  OBVIOUS
<1>1. TypeOK
  BY DEF IInv
<1>2. ASSUME Edit PROVE History!Next
  BY <1>1, <1>2, EditsExtendLine DEF History!Next
<1>3. CASE \/ \E e \in Elements : Add(e) \/ Update(e)
           \/ InsertMarkers \/ Delete
  BY <1>1, <1>2, <1>3, EditsCommit
<1>4. ASSUME NEW e \in Elements \cup {NoElement}, Select(e)
      PROVE  UNCHANGED History!historyVars
  BY <1>4, ElsewhereStutters DEF Select
<1>5. CASE Undo
  BY <1>1, <1>5, UndoWalksBack DEF History!Next
<1>6. CASE Redo
  BY <1>6, RedoWalksOn DEF History!Next
<1>7. ASSUME NEW d \in Documents, Open(d) PROVE History!Next
  BY <1>7, StartsOpen DEF Open, History!Next
<1>8. CASE Autosave \/ AutosaveThrows
  BY <1>8, ElsewhereStutters DEF Autosave, AutosaveThrows
<1>9. CASE Reload
  BY <1>1, <1>9, RestoredIsADocument, StartsOpen DEF Reload, History!Next
<1>10. CASE UNCHANGED vars
  BY <1>10, ElsewhereStutters DEF vars
<1> QED
  BY <1>3, <1>4, <1>5, <1>6, <1>7, <1>8, <1>9, <1>10 DEF Next

LEMMA StartsOnTheLine == Init => History!Init
<1> SUFFICES ASSUME Init PROVE History!Init
  OBVIOUS
<1>1. past = <<>> /\ future = <<>> /\ document \in Documents
  BY DefaultIsADocument DEF Init, Restored
<1>2. <<>> \o <<document>> \o <<>> = <<document>>
  <2>1. <<document>> \in Seq(Documents)
    BY <1>1
  <2> QED
    BY <2>1, ConcatEmptySeq
<1>3. Len(past) + 1 = 1
  BY <1>1
<1> QED
  BY <1>1, <1>2, <1>3 DEF History!Init, History!StartWith

(* The two stacks and the document implement one line of documents: edits   *)
(* extend it, undo and redo walk along it, opening or reloading starts a    *)
(* new one, and nothing else in the editor touches it.                      *)
THEOREM HistoryIsALine == Spec => ImplementsHistory
<1>1. Spec => []IInv
  BY InitInv, NextInv, PTL DEF Spec
<1> QED
  BY <1>1, StartsOnTheLine, StepsOnTheLine, PTL
     DEF Spec, ImplementsHistory, History!Spec

-----------------------------------------------------------------------------
(* The projects.                                                            *)
CallRecords == Requests \cup {Free}

(* What a request names, and what its answer is.                            *)
Sensible(c) ==
    /\ calls[c].kind \in {"update", "open", "restore", "delete", "upload"} =>
         calls[c].id \in Projects
    /\ calls[c].phase = "answered" =>
         /\ calls[c].kind = "list" => calls[c].answer \subseteq Projects
         /\ calls[c].kind \in {"create", "update"} => calls[c].answer \in Projects
         /\ calls[c].kind \in {"open", "restore"} => calls[c].answer \in Works

CallsSensible == \A c \in Calls : Sensible(c)

InUse(c) == calls[c] # Free

Alone == \A c, d \in Calls : InUse(c) /\ InUse(d) => c = d

AnswerFits(c) ==
    /\ calls[c].kind = "list" => \A p \in calls[c].answer : store[p] \in Works
    /\ calls[c].kind \in {"create", "update"} => store[calls[c].answer] = editor
    /\ calls[c].kind \in {"open", "restore"} => store[calls[c].id] = calls[c].answer

Current(c) ==
    InUse(c) =>
      /\ calls[c].phase # "orphan" /\ calls[c].work = editor /\ calls[c].closure = active
      /\ calls[c].kind = "update" => calls[c].id = active
      /\ calls[c].kind = "restore" => session = calls[c].id /\ active = None
      /\ calls[c].kind # "restore" => session = active
      /\ calls[c].phase = "answered" => AnswerFits(c)

(* A project that a request has deleted whose answer is still to come.      *)
Removed(p) ==
    \E c \in Calls : calls[c].kind = "delete" /\ calls[c].phase = "answered" /\ calls[c].id = p

PageFits ==
    /\ (\A c \in Calls : ~InUse(c)) => session = active
    /\ active # None => store[active] = editor \/ Removed(active)
    /\ \A p \in list : store[p] \in Works \/ Removed(p)

Quiet == ~disturbed => Alone /\ (\A c \in Calls : Current(c)) /\ PageFits

WorkflowInv == WorkflowTypeOK /\ CallsSensible /\ SessionIsActive /\ Quiet

-----------------------------------------------------------------------------
Kinds == {"list", "create", "update", "open", "restore", "delete", "upload"}
Answers == Works \cup (SUBSET Projects) \cup {None}

LEMMA FreeIsNoRequest ==
    /\ Free \notin Requests /\ Free.kind = "free" /\ Free.phase = "done" /\ Free.id = None
    /\ CallRecords = Requests \cup {Free}
BY DEF Free, Requests, CallRecords

(* The parts of the types that no request carries.                          *)
PageTypes ==
    /\ editor \in Works
    /\ active \in Projects \cup {None}
    /\ session \in Projects \cup {None}
    /\ list \subseteq Projects
    /\ status \in [kind : {"rest", "loading", "saving", "opening", "deleting"},
                   id : Projects \cup {None}]
    /\ store \in [Projects -> Works \cup {None, Deleted}]

LEMMA TypeParts ==
    /\ WorkflowTypeOK <=> PageTypes /\ calls \in [Calls -> CallRecords] /\ disturbed \in BOOLEAN
    /\ PageTypes' /\ calls' \in [Calls -> CallRecords] /\ disturbed' \in BOOLEAN => WorkflowTypeOK'
BY DEF WorkflowTypeOK, PageTypes, CallRecords

(* A request that is sent takes a free place; if others are under way the   *)
(* page is disturbed.                                                       *)
LEMMA SendStep ==
    ASSUME WorkflowTypeOK, NEW kind \in Kinds, NEW id \in Projects \cup {None}, Send(kind, id)
    PROVE  \E c \in Calls :
             /\ calls[c] = Free /\ calls'[c] = Request(kind, id)
             /\ \A d \in Calls \ {c} : calls'[d] = calls[d]
             /\ calls' \in [Calls -> CallRecords]
             /\ disturbed' \in BOOLEAN
             /\ ~disturbed' => ~disturbed /\ \A d \in Calls : calls[d] = Free
<1>1. calls \in [Calls -> CallRecords] /\ editor \in Works /\ active \in Projects \cup {None}
  BY TypeParts DEF PageTypes
<1>2. Request(kind, id) \in CallRecords
  BY <1>1 DEF Request, CallRecords, Requests, Kinds
<1>3. PICK c \in Calls \ InFlight : /\ calls' = [calls EXCEPT ![c] = Request(kind, id)]
                                    /\ disturbed' = (disturbed \/ InFlight # {})
  BY DEF Send
<1>4. calls[c] = Free
  BY <1>3 DEF InFlight
<1>5. disturbed' \in BOOLEAN
  BY <1>3
<1>6. ~disturbed' => ~disturbed /\ InFlight = {}
  BY <1>3
<1>7. InFlight = {} => \A d \in Calls : calls[d] = Free
  BY DEF InFlight
<1> QED
  BY <1>1, <1>2, <1>3, <1>4, <1>5, <1>6, <1>7

(* A request that settles: freed if its page is gone, else it keeps what it *)
(* asked.                                                                   *)
LEMMA SettleStep ==
    ASSUME WorkflowTypeOK, NEW c \in Calls, calls[c].phase \in {"sent", "orphan", "answered"},
           NEW a \in Answers, Answer(c, a) \/ Refuse(c)
    PROVE  /\ calls' \in [Calls -> CallRecords]
           /\ \A d \in Calls \ {c} : calls'[d] = calls[d]
           /\ calls[c].phase = "orphan" => calls'[c] = Free
           /\ calls[c].phase # "orphan" =>
                /\ calls'[c] # Free
                /\ calls'[c].kind = calls[c].kind /\ calls'[c].id = calls[c].id
                /\ calls'[c].work = calls[c].work /\ calls'[c].closure = calls[c].closure
                /\ calls'[c].phase \in {"answered", "failed"}
                /\ Refuse(c) => calls'[c].phase = "failed"
                /\ calls'[c].phase = "answered" => calls'[c].answer = a
<1>1. calls \in [Calls -> CallRecords] /\ calls[c] \in Requests
  BY TypeParts, FreeIsNoRequest DEF CallRecords
<1>2. /\ Answer(c, a) => calls' = [calls EXCEPT ![c] =
           IF calls[c].phase = "orphan" THEN Free
           ELSE [kind |-> calls[c].kind, id |-> calls[c].id, work |-> calls[c].work,
                 closure |-> calls[c].closure, phase |-> "answered", answer |-> a]]
      /\ Refuse(c) => calls' = [calls EXCEPT ![c] =
           IF calls[c].phase = "orphan" THEN Free
           ELSE [kind |-> calls[c].kind, id |-> calls[c].id, work |-> calls[c].work,
                 closure |-> calls[c].closure, phase |-> "failed", answer |-> None]]
  BY <1>1 DEF Answer, Refuse, Requests
<1>3. ASSUME NEW x \in {a, None}, NEW ph \in {"answered", "failed"}
      PROVE  [kind |-> calls[c].kind, id |-> calls[c].id, work |-> calls[c].work,
              closure |-> calls[c].closure, phase |-> ph, answer |-> x] \in Requests
  BY <1>1, <1>3 DEF Requests, Answers
<1>4. \A d \in Calls \ {c} : calls'[d] = calls[d]
  BY <1>1, <1>2
<1>5. CASE calls[c].phase = "orphan"
  BY <1>1, <1>2, <1>4, <1>5, FreeIsNoRequest
<1>6. CASE calls[c].phase # "orphan"
  BY <1>1, <1>2, <1>3, <1>4, <1>6, FreeIsNoRequest
<1> QED
  BY <1>5, <1>6

LEMMA HangupStep ==
    ASSUME WorkflowTypeOK, NEW c \in Calls, Hangup(c)
    PROVE  /\ calls' \in [Calls -> CallRecords] /\ calls'[c] = Free
           /\ \A d \in Calls \ {c} : calls'[d] = calls[d]
BY TypeParts DEF Hangup, CallRecords

-----------------------------------------------------------------------------
(* A new request speaks of the page as it is.                               *)
LEMMA SendKeeps ==
    ASSUME WorkflowInv, NEW kind \in Kinds, NEW id \in Projects \cup {None}, Send(kind, id),
           kind # "restore",
           kind \in {"update", "open", "delete", "upload"} => id \in Projects,
           kind = "update" => id = active,
           UNCHANGED <<editor, active, session, list, store>>,
           status' \in [kind : {"rest", "loading", "saving", "opening", "deleting"},
                        id : Projects \cup {None}]
    PROVE  WorkflowInv'
<1>0. WorkflowTypeOK /\ CallsSensible /\ SessionIsActive /\ Quiet
  BY DEF WorkflowInv
<1>1. PICK c \in Calls :
             /\ calls[c] = Free /\ calls'[c] = Request(kind, id)
             /\ \A d \in Calls \ {c} : calls'[d] = calls[d]
             /\ calls' \in [Calls -> CallRecords]
             /\ disturbed' \in BOOLEAN
             /\ ~disturbed' => ~disturbed /\ \A d \in Calls : calls[d] = Free
  BY <1>0, SendStep
<1>2. /\ calls'[c].kind = kind /\ calls'[c].id = id /\ calls'[c].work = editor
      /\ calls'[c].closure = active /\ calls'[c].phase = "sent"
  BY <1>1 DEF Request
<1>3. WorkflowTypeOK'
  BY <1>0, <1>1, TypeParts DEF PageTypes
<1>4. CallsSensible'
  BY <1>0, <1>1, <1>2 DEF CallsSensible, Sensible
<1>5. SessionIsActive'
  <2>1. Pending("restore") => Pending("restore")'
    BY <1>1, FreeIsNoRequest DEF Pending
  <2> QED
    BY <1>0, <2>1 DEF SessionIsActive
<1>6. Quiet'
  <2> SUFFICES ASSUME ~disturbed' PROVE Alone' /\ (\A d \in Calls : Current(d)') /\ PageFits'
    BY DEF Quiet
  <2>1. /\ \A d \in Calls : calls[d] = Free
        /\ PageFits /\ session = active
    BY <1>0, <1>1 DEF Quiet, PageFits, InUse
  <2>2. \A p : ~Removed(p)
    BY <2>1, FreeIsNoRequest DEF Removed
  <2>3. \A d \in Calls : InUse(d)' => d = c
    BY <1>1, <2>1 DEF InUse
  <2>4. Alone'
    BY <2>3 DEF Alone
  <2>5. \A d \in Calls : Current(d)'
    <3>1. Current(c)'
      BY <1>2, <2>1 DEF Current
    <3> QED
      BY <2>3, <3>1 DEF Current
  <2>6. PageFits'
    BY <2>1, <2>2 DEF PageFits
  <2> QED
    BY <2>4, <2>5, <2>6
<1> QED
  BY <1>3, <1>4, <1>5, <1>6 DEF WorkflowInv

(* A request that settles without a loss.  What its answer must say of the  *)
(* store is left to the daemon's operations.                                *)
LEMMA SettleKeeps ==
    ASSUME WorkflowInv, NEW c \in Calls, calls[c].phase \in {"sent", "orphan"},
           NEW a \in Answers, Answer(c, a) \/ Refuse(c),
           UNCHANGED <<editor, active, session, list, status, disturbed>>,
           store' \in [Projects -> Works \cup {None, Deleted}],
           calls'[c].phase = "answered" =>
             /\ calls[c].kind = "list" => a \subseteq Projects
             /\ calls[c].kind \in {"create", "update"} => a \in Projects
             /\ calls[c].kind \in {"open", "restore"} => a \in Works,
           ~disturbed /\ calls'[c].phase = "answered" => AnswerFits(c)',
           ~disturbed =>
             /\ active # None => store'[active] = editor \/ Removed(active)'
             /\ \A p \in list : store'[p] \in Works \/ Removed(p)'
    PROVE  WorkflowInv'
<1>0. WorkflowTypeOK /\ CallsSensible /\ SessionIsActive /\ Quiet
  BY DEF WorkflowInv
<1>1. /\ calls' \in [Calls -> CallRecords]
      /\ \A d \in Calls \ {c} : calls'[d] = calls[d]
      /\ calls[c].phase = "orphan" => calls'[c] = Free
      /\ calls[c].phase # "orphan" =>
           /\ calls'[c] # Free
           /\ calls'[c].kind = calls[c].kind /\ calls'[c].id = calls[c].id
           /\ calls'[c].work = calls[c].work /\ calls'[c].closure = calls[c].closure
           /\ calls'[c].phase \in {"answered", "failed"}
           /\ calls'[c].phase = "answered" => calls'[c].answer = a
  BY <1>0, SettleStep
<1>2. WorkflowTypeOK'
  BY <1>0, <1>1, TypeParts DEF PageTypes
<1>3. CallsSensible'
  <2>1. Sensible(c)'
    BY <1>0, <1>1, FreeIsNoRequest DEF CallsSensible, Sensible
  <2> QED
    BY <1>0, <1>1, <2>1 DEF CallsSensible, Sensible
<1>4. SessionIsActive'
  <2>1. Pending("restore") => Pending("restore")'
    BY <1>1 DEF Pending
  <2> QED
    BY <1>0, <2>1 DEF SessionIsActive
<1>5. Quiet'
  <2> SUFFICES ASSUME ~disturbed PROVE Alone' /\ (\A d \in Calls : Current(d)') /\ PageFits'
    BY DEF Quiet
  <2>1. calls[c] # Free
    BY FreeIsNoRequest
  <2>2. Alone /\ Current(c) /\ PageFits
    BY <1>0 DEF Quiet
  <2>3. \A d \in Calls \ {c} : calls[d] = Free /\ calls'[d] = Free
    BY <1>1, <2>1, <2>2 DEF Alone, InUse
  <2>4. calls[c].phase # "orphan" /\ calls'[c] # Free
    BY <1>1, <2>1, <2>2 DEF Current, InUse
  <2>5. Current(c)'
    BY <1>1, <2>1, <2>2, <2>4 DEF Current, InUse
  <2>6. Alone' /\ (\A d \in Calls : Current(d)')
    BY <2>3, <2>5 DEF Alone, InUse, Current
  <2>7. PageFits'
    BY <2>4 DEF PageFits, InUse
  <2> QED
    BY <2>6, <2>7
<1> QED
  BY <1>2, <1>3, <1>4, <1>5 DEF WorkflowInv

(* A connection that breaks: the request fails, and if it had been answered *)
(* the page is disturbed.                                                   *)
LEMMA DisconnectKeeps ==
    ASSUME WorkflowInv, NEW c \in Calls, Disconnect(c)
    PROVE  WorkflowInv'
<1>0. /\ WorkflowTypeOK /\ CallsSensible /\ SessionIsActive /\ Quiet
      /\ UNCHANGED <<editor, active, session, list, status, store>>
  BY DEF WorkflowInv, Disconnect, ui
<1>1. /\ calls' \in [Calls -> CallRecords]
      /\ \A d \in Calls \ {c} : calls'[d] = calls[d]
      /\ calls[c].phase = "orphan" => calls'[c] = Free
      /\ calls[c].phase # "orphan" =>
           /\ calls'[c] # Free /\ calls'[c].phase = "failed"
           /\ calls'[c].kind = calls[c].kind /\ calls'[c].id = calls[c].id
           /\ calls'[c].work = calls[c].work /\ calls'[c].closure = calls[c].closure
  BY <1>0, SettleStep DEF Disconnect, Answers
<1>2. disturbed' \in BOOLEAN /\ (~disturbed' => ~disturbed /\ calls[c].phase # "answered")
  BY DEF Disconnect
<1>3. WorkflowTypeOK'
  BY <1>0, <1>1, <1>2, TypeParts DEF PageTypes
<1>4. CallsSensible'
  BY <1>0, <1>1, FreeIsNoRequest DEF CallsSensible, Sensible
<1>5. SessionIsActive'
  <2>1. Pending("restore") => Pending("restore")'
    BY <1>1 DEF Pending
  <2> QED
    BY <1>0, <2>1 DEF SessionIsActive
<1>6. Quiet'
  <2> SUFFICES ASSUME ~disturbed' PROVE Alone' /\ (\A d \in Calls : Current(d)') /\ PageFits'
    BY DEF Quiet
  <2>1. calls[c] # Free /\ calls[c].phase # "answered" /\ ~disturbed
    BY <1>2, FreeIsNoRequest DEF Disconnect
  <2>2. Alone /\ Current(c) /\ PageFits
    BY <1>0, <2>1 DEF Quiet
  <2>3. \A d \in Calls \ {c} : calls[d] = Free /\ calls'[d] = Free
    BY <1>1, <2>1, <2>2 DEF Alone, InUse
  <2>4. calls[c].phase # "orphan" /\ calls'[c] # Free
    BY <1>1, <2>1, <2>2 DEF Current, InUse
  <2>5. Current(c)'
    BY <1>0, <1>1, <2>1, <2>2, <2>4 DEF Current, InUse
  <2>6. Alone' /\ (\A d \in Calls : Current(d)')
    BY <2>3, <2>5 DEF Alone, InUse, Current
  <2>7. \A p : ~Removed(p)
    BY <2>1, <2>3, FreeIsNoRequest DEF Removed
  <2>8. PageFits'
    BY <1>0, <2>2, <2>4, <2>7 DEF PageFits, InUse
  <2> QED
    BY <2>6, <2>8
<1> QED
  BY <1>3, <1>4, <1>5, <1>6 DEF WorkflowInv

-----------------------------------------------------------------------------
(* While the page is quiet and a request is on its way, no answer to a      *)
(* deletion is outstanding: the page shows the store.                       *)
LEMMA OnItsWay ==
    ASSUME WorkflowInv, NEW c \in Calls, calls[c].phase \in {"sent", "orphan"}, ~disturbed
    PROVE  /\ \A d \in Calls \ {c} : calls[d] = Free
           /\ calls[c].phase = "sent" /\ Current(c) /\ InUse(c)
           /\ active # None => store[active] = editor
           /\ \A p \in list : store[p] \in Works
<1>1. Alone /\ Current(c) /\ PageFits /\ InUse(c)
  BY FreeIsNoRequest DEF WorkflowInv, Quiet, InUse
<1>2. \A d \in Calls \ {c} : calls[d] = Free
  BY <1>1 DEF Alone, InUse
<1>3. \A p : ~Removed(p)
  BY <1>2, FreeIsNoRequest DEF Removed
<1> QED
  BY <1>1, <1>2, <1>3 DEF PageFits, Current

LEMMA WorksAreStored == None \notin Works /\ Deleted \notin Works
BY WorkflowAssumption DEF Works

(* The daemon's operations leave the page alone, and what they answer is    *)
(* what the store then holds.                                               *)
LEMMA ServeKeeps ==
    ASSUME WorkflowInv, NEW c \in Calls, Serve(c)
    PROVE  WorkflowInv'
<1>0. /\ WorkflowTypeOK /\ PageTypes /\ CallsSensible /\ SessionIsActive /\ Quiet
      /\ calls \in [Calls -> CallRecords]
  BY TypeParts DEF WorkflowInv
<1>1. CASE ServeList(c)
  <2>1. /\ calls[c].phase \in {"sent", "orphan"} /\ calls[c].kind = "list"
        /\ Answer(c, Live) /\ UNCHANGED <<editor, active, session, list, status, store, disturbed>>
    BY <1>1 DEF ServeList, Waiting, ui
  <2>2. Live \in Answers /\ Live \subseteq Projects
    BY DEF Live, Answers
  <2>3. calls'[c].phase = "answered" => calls'[c].kind = "list" /\ calls'[c].answer = Live
    BY <1>0, <2>1, <2>2, SettleStep, FreeIsNoRequest
  <2>4. calls'[c].phase = "answered" => AnswerFits(c)'
    BY <2>1, <2>3 DEF AnswerFits, Live
  <2> QED
    BY <1>0, <2>1, <2>2, <2>4, SettleKeeps, OnItsWay DEF PageTypes
<1>2. CASE ServeCreate(c)
  <2>1. PICK p \in Unused :
          /\ calls[c].phase \in {"sent", "orphan"} /\ calls[c].kind = "create"
          /\ Answer(c, p) /\ store' = [store EXCEPT ![p] = calls[c].work]
          /\ UNCHANGED <<editor, active, session, list, status, disturbed>>
    BY <1>2 DEF ServeCreate, Waiting, ui
  <2>2. p \in Projects /\ store[p] = None /\ p \in Answers
    BY DEF Unused, Answers, Works
  <2>3. calls[c] \in Requests /\ calls[c].work \in Works
    BY <1>0, <2>1, FreeIsNoRequest DEF CallRecords, Requests
  <2>4. calls'[c].phase = "answered" => calls'[c].kind = "create" /\ calls'[c].answer = p
    BY <1>0, <2>1, <2>2, SettleStep, FreeIsNoRequest
  <2>5. store' \in [Projects -> Works \cup {None, Deleted}] /\ store'[p] = calls[c].work
    BY <1>0, <2>1, <2>2, <2>3 DEF PageTypes
  <2>6. ASSUME ~disturbed
        PROVE  /\ calls'[c].phase = "answered" => AnswerFits(c)'
               /\ active # None => store'[active] = editor
               /\ \A q \in list : store'[q] \in Works
    <3>1. /\ calls[c].work = editor
          /\ active # None => store[active] = editor
          /\ \A q \in list : store[q] \in Works
      BY <2>1, <2>6, OnItsWay DEF Current
    <3>2. calls'[c].phase = "answered" => AnswerFits(c)'
      BY <2>1, <2>4, <2>5, <3>1 DEF AnswerFits
    <3>3. active # None => active # p /\ active \in Projects
      BY <1>0, <2>2, <3>1, WorksAreStored DEF PageTypes
    <3> QED
      BY <1>0, <2>1, <2>2, <2>3, <3>1, <3>2, <3>3 DEF PageTypes
  <2> QED
    BY <2>1, <2>2, <2>5, <2>6, SettleKeeps
<1>3. CASE ServeUpdate(c)
  <2>1. /\ calls[c].phase \in {"sent", "orphan"} /\ calls[c].kind = "update"
        /\ UNCHANGED <<editor, active, session, list, status, disturbed>>
    BY <1>3 DEF ServeUpdate, Waiting, ui
  <2>2. calls[c].id \in Projects /\ calls[c].id \in Answers
    BY <1>0, <2>1 DEF CallsSensible, Sensible, Answers, Works
  <2>3. calls[c] \in Requests /\ calls[c].work \in Works
    BY <1>0, <2>1, FreeIsNoRequest DEF CallRecords, Requests
  <2>4. CASE calls[c].id \in Live
    <3>1. Answer(c, calls[c].id) /\ store' = [store EXCEPT ![calls[c].id] = calls[c].work]
      BY <1>3, <2>4 DEF ServeUpdate
    <3>2. /\ calls'[c].phase = "answered" =>
               calls'[c].kind = "update" /\ calls'[c].answer = calls[c].id
      BY <1>0, <2>1, <2>2, <3>1, SettleStep, FreeIsNoRequest
    <3>3. /\ store' \in [Projects -> Works \cup {None, Deleted}]
          /\ store'[calls[c].id] = calls[c].work
      BY <1>0, <2>2, <2>3, <3>1 DEF PageTypes
    <3>4. ASSUME ~disturbed
          PROVE  /\ calls'[c].phase = "answered" => AnswerFits(c)'
                 /\ active # None => store'[active] = editor
                 /\ \A q \in list : store'[q] \in Works
      <4>1. /\ calls[c].work = editor /\ calls[c].id = active
            /\ \A q \in list : store[q] \in Works
        BY <2>1, <3>4, OnItsWay DEF Current
      <4>2. calls'[c].phase = "answered" => AnswerFits(c)'
        BY <2>1, <3>2, <3>3, <4>1 DEF AnswerFits
      <4> QED
        BY <1>0, <2>2, <2>3, <3>1, <3>3, <4>1, <4>2 DEF PageTypes
    <3> QED
      BY <2>1, <2>2, <3>1, <3>3, <3>4, SettleKeeps
  <2>5. CASE calls[c].id \notin Live
    <3>1. Refuse(c) /\ UNCHANGED store
      BY <1>3, <2>5 DEF ServeUpdate
    <3>2. calls'[c].phase # "answered" /\ None \in Answers
      BY <1>0, <2>1, <3>1, SettleStep, FreeIsNoRequest DEF Answers
    <3> QED
      BY <1>0, <2>1, <3>1, <3>2, SettleKeeps, OnItsWay DEF PageTypes
  <2> QED
    BY <2>4, <2>5
<1>4. CASE ServeGet(c)
  <2>1. /\ calls[c].phase \in {"sent", "orphan"} /\ calls[c].kind \in {"open", "restore"}
        /\ UNCHANGED <<editor, active, session, list, status, store, disturbed>>
    BY <1>4 DEF ServeGet, Waiting, ui
  <2>2. calls[c].id \in Projects
    BY <1>0, <2>1 DEF CallsSensible, Sensible
  <2>3. CASE calls[c].id \in Live
    <3>1. Answer(c, store[calls[c].id]) /\ store[calls[c].id] \in Works
      BY <1>4, <2>3 DEF ServeGet, Live
    <3>2. store[calls[c].id] \in Answers
      BY <3>1 DEF Answers
    <3>3. calls'[c].phase = "answered" =>
            /\ calls'[c].kind \in {"open", "restore"} /\ calls'[c].id = calls[c].id
            /\ calls'[c].answer = store[calls[c].id]
      BY <1>0, <2>1, <3>1, <3>2, SettleStep, FreeIsNoRequest
    <3>4. calls'[c].phase = "answered" => AnswerFits(c)'
      BY <2>1, <3>3 DEF AnswerFits
    <3> QED
      BY <1>0, <2>1, <3>1, <3>2, <3>4, SettleKeeps, OnItsWay DEF PageTypes
  <2>4. CASE calls[c].id \notin Live
    <3>1. Refuse(c)
      BY <1>4, <2>4 DEF ServeGet
    <3>2. calls'[c].phase # "answered" /\ None \in Answers
      BY <1>0, <2>1, <3>1, SettleStep, FreeIsNoRequest DEF Answers
    <3> QED
      BY <1>0, <2>1, <3>1, <3>2, SettleKeeps, OnItsWay DEF PageTypes
  <2> QED
    BY <2>3, <2>4
<1>5. CASE ServeDelete(c)
  <2>1. /\ calls[c].phase \in {"sent", "orphan"} /\ calls[c].kind = "delete"
        /\ UNCHANGED <<editor, active, session, list, status, disturbed>>
        /\ None \in Answers
    BY <1>5 DEF ServeDelete, Waiting, ui, Answers
  <2>2. calls[c].id \in Projects
    BY <1>0, <2>1 DEF CallsSensible, Sensible
  <2>3. CASE calls[c].id \in Live
    <3>1. Answer(c, None) /\ store' = [store EXCEPT ![calls[c].id] = Deleted]
      BY <1>5, <2>3 DEF ServeDelete
    <3>2. store' \in [Projects -> Works \cup {None, Deleted}]
      BY <1>0, <3>1 DEF PageTypes
    <3>3. calls'[c].phase = "answered" => AnswerFits(c)'
      BY <1>0, <2>1, <3>1, SettleStep, FreeIsNoRequest DEF AnswerFits
    <3>4. ASSUME ~disturbed
          PROVE  /\ active # None => store'[active] = editor \/ Removed(active)'
                 /\ \A q \in list : store'[q] \in Works \/ Removed(q)'
      <4>1. /\ calls[c].phase = "sent"
            /\ active # None => store[active] = editor
            /\ \A q \in list : store[q] \in Works
        BY <2>1, <3>4, OnItsWay
      <4>2. /\ calls'[c].phase \in {"answered", "failed"}
            /\ calls'[c].kind = "delete" /\ calls'[c].id = calls[c].id
        BY <1>0, <2>1, <3>1, <4>1, SettleStep
      <4>3. calls'[c].phase = "answered"
        BY <1>0, <3>1, <4>1 DEF Answer, CallRecords, Requests, Free
      <4>4. PICK i \in Projects : i = calls[c].id
        BY <2>2
      <4>5. Removed(i)'
        BY <4>2, <4>3, <4>4 DEF Removed
      <4>6. \A q \in Projects : Removed(q)' \/ store'[q] = store[q]
        BY <1>0, <3>1, <4>4, <4>5 DEF PageTypes
      <4>7. active # None => store'[active] = editor \/ Removed(active)'
        BY <1>0, <2>1, <4>1, <4>6 DEF PageTypes
      <4>8. \A q \in list : store'[q] \in Works \/ Removed(q)'
        BY <1>0, <4>1, <4>6 DEF PageTypes
      <4> QED
        BY <4>7, <4>8
    <3> QED
      BY <2>1, <3>1, <3>2, <3>3, <3>4, SettleKeeps
  <2>4. CASE calls[c].id \notin Live
    <3>1. Refuse(c) /\ UNCHANGED store
      BY <1>5, <2>4 DEF ServeDelete
    <3>2. calls'[c].phase # "answered"
      BY <1>0, <2>1, <3>1, SettleStep, FreeIsNoRequest
    <3> QED
      BY <1>0, <2>1, <3>1, <3>2, SettleKeeps, OnItsWay DEF PageTypes
  <2> QED
    BY <2>3, <2>4
<1>6. CASE ServeUpload(c)
  <2>1. /\ calls[c].phase \in {"sent", "orphan"} /\ calls[c].kind = "upload"
        /\ (Answer(c, None) \/ Refuse(c)) /\ None \in Answers
        /\ UNCHANGED <<editor, active, session, list, status, store, disturbed>>
    BY <1>6 DEF ServeUpload, Waiting, ui, Answers
  <2>2. calls'[c].phase = "answered" => AnswerFits(c)'
    BY <1>0, <2>1, SettleStep, FreeIsNoRequest DEF AnswerFits, Answers
  <2> QED
    BY <1>0, <2>1, <2>2, SettleKeeps, OnItsWay DEF PageTypes, Answers
<1> QED
  BY <1>1, <1>2, <1>3, <1>4, <1>5, <1>6 DEF Serve

-----------------------------------------------------------------------------
(* A coroutine that ends.  On a quiet page it was the only one.             *)
LEMMA HangupKeeps ==
    ASSUME WorkflowInv, NEW c \in Calls, calls[c].phase \in {"answered", "failed"}, Hangup(c),
           PageTypes', disturbed' = disturbed, SessionIsActive',
           ~disturbed =>
             /\ session' = active'
             /\ active' # None => store'[active'] = editor'
             /\ \A p \in list' : store'[p] \in Works
    PROVE  WorkflowInv'
<1>0. WorkflowTypeOK /\ CallsSensible /\ Quiet
  BY DEF WorkflowInv
<1>1. /\ calls' \in [Calls -> CallRecords] /\ calls'[c] = Free
      /\ \A d \in Calls \ {c} : calls'[d] = calls[d]
  BY <1>0, HangupStep
<1>2. WorkflowTypeOK' /\ CallsSensible'
  BY <1>0, <1>1, TypeParts, FreeIsNoRequest DEF CallsSensible, Sensible
<1>3. Quiet'
  <2> SUFFICES ASSUME ~disturbed PROVE Alone' /\ (\A d \in Calls : Current(d)') /\ PageFits'
    BY DEF Quiet
  <2>1. \A d \in Calls : calls'[d] = Free
    BY <1>0, <1>1, FreeIsNoRequest DEF Quiet, Alone, InUse
  <2> QED
    BY <2>1 DEF Alone, Current, InUse, PageFits
<1> QED
  BY <1>2, <1>3 DEF WorkflowInv

(* What is known of a quiet page whose request has settled.                 *)
LEMMA SettledInFlight ==
    ASSUME WorkflowInv, NEW c \in Calls, calls[c].phase \in {"answered", "failed"}, ~disturbed
    PROVE  /\ \A d \in Calls \ {c} : calls[d] = Free
           /\ Current(c) /\ InUse(c) /\ PageFits
           /\ \A p : Removed(p) => calls[c].kind = "delete" /\ calls[c].phase = "answered"
                                   /\ p = calls[c].id
<1>1. Alone /\ Current(c) /\ PageFits /\ InUse(c)
  BY FreeIsNoRequest DEF WorkflowInv, Quiet, InUse
<1>2. \A d \in Calls \ {c} : calls[d] = Free
  BY <1>1 DEF Alone, InUse
<1> QED
  BY <1>1, <1>2, FreeIsNoRequest DEF Removed

LEMMA ReturnKeeps ==
    ASSUME WorkflowInv, NEW c \in Calls, Return(c)
    PROVE  WorkflowInv'
<1>0. /\ WorkflowTypeOK /\ PageTypes /\ CallsSensible /\ SessionIsActive /\ Sensible(c)
      /\ calls \in [Calls -> CallRecords]
  BY TypeParts DEF WorkflowInv, CallsSensible
<1>1. ASSUME Hangup(c), calls[c].kind # "restore", session' = session, active' = active
      PROVE  SessionIsActive'
  <2>1. Pending("restore") => Pending("restore")'
    BY <1>0, <1>1, HangupStep DEF Pending
  <2> QED
    BY <1>0, <1>1, <2>1 DEF SessionIsActive
<1>2. CASE ProjectsListed(c)
  <2>1. /\ calls[c].phase = "answered" /\ calls[c].kind = "list" /\ Hangup(c)
        /\ list' = calls[c].answer /\ status' = AtRest
        /\ UNCHANGED <<editor, active, session, store, disturbed>>
    BY <1>2 DEF ProjectsListed, Answered
  <2>2. PageTypes'
    BY <1>0, <2>1 DEF PageTypes, Sensible, AtRest
  <2>3. ASSUME ~disturbed
        PROVE  /\ session' = active' /\ (active' # None => store'[active'] = editor')
               /\ \A p \in list' : store'[p] \in Works
    BY <2>1, <2>3, SettledInFlight DEF Current, AnswerFits, PageFits
  <2> QED
    BY <1>1, <2>1, <2>2, <2>3, HangupKeeps
<1>3. CASE ProjectSaved(c)
  <2>1. /\ calls[c].phase = "answered" /\ calls[c].kind \in {"create", "update"} /\ Hangup(c)
        /\ active' = calls[c].answer /\ session' = calls[c].answer
        /\ list' = list \cup {calls[c].answer} /\ status' = AtRest
        /\ UNCHANGED <<editor, store, disturbed>>
    BY <1>3 DEF ProjectSaved, Answered
  <2>2. PageTypes' /\ SessionIsActive'
    BY <1>0, <2>1 DEF PageTypes, Sensible, AtRest, SessionIsActive
  <2>3. ASSUME ~disturbed
        PROVE  /\ session' = active' /\ (active' # None => store'[active'] = editor')
               /\ \A p \in list' : store'[p] \in Works
    <3>1. store[calls[c].answer] = editor /\ editor \in Works /\ \A p : ~Removed(p)
      BY <1>0, <2>1, <2>3, SettledInFlight DEF Current, AnswerFits, PageTypes
    <3> QED
      BY <2>1, <2>3, <3>1, SettledInFlight DEF PageFits
  <2> QED
    BY <2>1, <2>2, <2>3, HangupKeeps
<1>4. CASE ProjectOpened(c)
  <2>1. /\ calls[c].phase = "answered" /\ calls[c].kind \in {"open", "restore"} /\ Hangup(c)
        /\ editor' = calls[c].answer /\ active' = calls[c].id /\ session' = calls[c].id
        /\ list' = list \cup {calls[c].id} /\ status' = AtRest
        /\ UNCHANGED <<store, disturbed>>
    BY <1>4 DEF ProjectOpened, Answered
  <2>2. PageTypes' /\ SessionIsActive'
    BY <1>0, <2>1 DEF PageTypes, Sensible, AtRest, SessionIsActive
  <2>3. ASSUME ~disturbed
        PROVE  /\ session' = active' /\ (active' # None => store'[active'] = editor')
               /\ \A p \in list' : store'[p] \in Works
    <3>1. /\ store[calls[c].id] = calls[c].answer /\ calls[c].answer \in Works
          /\ \A p : ~Removed(p)
      BY <1>0, <2>1, <2>3, SettledInFlight DEF Current, AnswerFits, Sensible
    <3> QED
      BY <2>1, <2>3, <3>1, SettledInFlight DEF PageFits
  <2> QED
    BY <2>1, <2>2, <2>3, HangupKeeps
<1>5. CASE ProjectDeleted(c)
  <2>1. /\ calls[c].phase = "answered" /\ calls[c].kind = "delete" /\ Hangup(c)
        /\ \/ calls[c].closure = calls[c].id /\ active' = None /\ session' = None
           \/ calls[c].closure # calls[c].id /\ UNCHANGED <<active, session>>
        /\ list' = list \ {calls[c].id} /\ status' = AtRest
        /\ UNCHANGED <<editor, store, disturbed>>
    BY <1>5 DEF ProjectDeleted, Answered
  <2>2. PageTypes'
    BY <1>0, <2>1 DEF PageTypes, AtRest
  <2>3. SessionIsActive'
    BY <1>1, <2>1 DEF SessionIsActive
  <2>4. ASSUME ~disturbed
        PROVE  /\ session' = active' /\ (active' # None => store'[active'] = editor')
               /\ \A p \in list' : store'[p] \in Works
    BY <2>1, <2>4, SettledInFlight DEF Current, PageFits
  <2> QED
    BY <2>1, <2>2, <2>3, <2>4, HangupKeeps
<1>6. CASE ImageUploaded(c)
  <2>1. /\ calls[c].phase = "answered" /\ calls[c].kind = "upload" /\ Hangup(c)
        /\ UNCHANGED <<editor, active, session, list, status, store, disturbed>>
    BY <1>6 DEF ImageUploaded, Answered, ui
  <2>2. PageTypes'
    BY <1>0, <2>1 DEF PageTypes
  <2>3. ASSUME ~disturbed
        PROVE  /\ session' = active' /\ (active' # None => store'[active'] = editor')
               /\ \A p \in list' : store'[p] \in Works
    BY <2>1, <2>3, SettledInFlight DEF Current, PageFits
  <2> QED
    BY <1>1, <2>1, <2>2, <2>3, HangupKeeps
<1>7. CASE RestoreFails(c)
  <2>1. /\ calls[c].phase = "failed" /\ calls[c].kind = "restore" /\ Hangup(c)
        /\ session' = None /\ status' = AtRest
        /\ UNCHANGED <<editor, active, list, store, disturbed>>
    BY <1>7 DEF RestoreFails, Refused
  <2>2. PageTypes' /\ SessionIsActive'
    BY <1>0, <2>1 DEF PageTypes, AtRest, SessionIsActive
  <2>3. ASSUME ~disturbed
        PROVE  /\ session' = active' /\ (active' # None => store'[active'] = editor')
               /\ \A p \in list' : store'[p] \in Works
    BY <2>1, <2>3, SettledInFlight DEF Current, PageFits
  <2> QED
    BY <2>1, <2>2, <2>3, HangupKeeps
<1>8. CASE RequestFails(c)
  <2>1. /\ calls[c].phase = "failed" /\ calls[c].kind # "restore" /\ Hangup(c)
        /\ status' = AtRest
        /\ UNCHANGED <<editor, active, session, list, store, disturbed>>
    BY <1>8 DEF RequestFails, Refused
  <2>2. PageTypes'
    BY <1>0, <2>1 DEF PageTypes, AtRest
  <2>3. ASSUME ~disturbed
        PROVE  /\ session' = active' /\ (active' # None => store'[active'] = editor')
               /\ \A p \in list' : store'[p] \in Works
    BY <2>1, <2>3, SettledInFlight DEF Current, PageFits
  <2> QED
    BY <1>1, <2>1, <2>2, <2>3, HangupKeeps
<1> QED
  BY <1>2, <1>3, <1>4, <1>5, <1>6, <1>7, <1>8 DEF Return

-----------------------------------------------------------------------------
(* The page that loads, at first and again: the only request that is its    *)
(* own is the restore.                                                      *)
LEMMA RestoringIsRequest ==
    ASSUME session \in Projects, editor \in Works
    PROVE  /\ Restoring \in Requests /\ Restoring # Free
           /\ Restoring.kind = "restore" /\ Restoring.phase = "sent"
           /\ Restoring.id = session /\ Restoring.work = editor /\ Restoring.closure = None
BY DEF Restoring, Requests, Free

LEMMA InitWorkflowInv == WorkflowInit => WorkflowInv
<1> SUFFICES ASSUME WorkflowInit PROVE WorkflowInv
  OBVIOUS
<1>1. /\ editor = Local /\ active = None /\ session \in Projects \cup {None}
      /\ list = {} /\ disturbed = FALSE /\ editor \in Works
      /\ status \in [kind : {"rest", "opening"}, id : Projects \cup {None}]
  BY WorkflowAssumption DEF WorkflowInit, Works, AtRest, Busy
<1>2. store \in [Projects -> Works \cup {None, Deleted}]
  BY DEF WorkflowInit, Works
<1>3. PageTypes
  BY <1>1, <1>2 DEF PageTypes
<1>4. CASE session = None
  <2>1. calls = [c \in Calls |-> Free]
    BY <1>4 DEF WorkflowInit
  <2>2. calls \in [Calls -> CallRecords]
    BY <2>1 DEF CallRecords
  <2>3. CallsSensible /\ SessionIsActive
    BY <1>4, <2>1, FreeIsNoRequest DEF CallsSensible, Sensible, SessionIsActive
  <2>4. Quiet
    BY <1>1, <1>4, <2>1 DEF Quiet, Alone, InUse, Current, PageFits
  <2> QED
    BY <1>1, <1>3, <2>2, <2>3, <2>4, TypeParts DEF WorkflowInv
<1>5. CASE session # None
  <2>1. PICK r \in Calls : calls = [c \in Calls |-> IF c = r THEN Restoring ELSE Free]
    BY <1>5 DEF WorkflowInit
  <2>2. /\ Restoring \in Requests /\ Restoring # Free
        /\ Restoring.kind = "restore" /\ Restoring.phase = "sent"
        /\ Restoring.id = session /\ Restoring.work = editor /\ Restoring.closure = None
    BY <1>1, <1>5, RestoringIsRequest
  <2>3. calls \in [Calls -> CallRecords]
    BY <2>1, <2>2 DEF CallRecords
  <2>4. CallsSensible /\ SessionIsActive
    BY <1>1, <1>5, <2>1, <2>2, FreeIsNoRequest DEF CallsSensible, Sensible, SessionIsActive, Pending
  <2>5. Quiet
    BY <1>1, <2>1, <2>2 DEF Quiet, Alone, InUse, Current, PageFits
  <2> QED
    BY <1>1, <1>3, <2>3, <2>4, <2>5, TypeParts DEF WorkflowInv
<1> QED
  BY <1>4, <1>5

LEMMA ReloadKeeps == ASSUME WorkflowInv, ReloadPage PROVE WorkflowInv'
<1>0. /\ WorkflowTypeOK /\ PageTypes /\ CallsSensible /\ SessionIsActive
      /\ calls \in [Calls -> CallRecords]
  BY TypeParts DEF WorkflowInv
<1>1. ASSUME NEW c \in Calls
      PROVE  /\ Orphans[c] \in CallRecords
             /\ Orphans[c] # Free =>
                  /\ Orphans[c].phase = "orphan"
                  /\ Orphans[c].kind = calls[c].kind /\ Orphans[c].id = calls[c].id
  BY <1>0, FreeIsNoRequest DEF Orphans, CallRecords, Requests
<1>2. /\ active' = None /\ list' = {} /\ UNCHANGED <<editor, session, store>>
      /\ disturbed' \in BOOLEAN
      /\ ~disturbed' => \A c \in Calls : Orphans[c] = Free
      /\ DOMAIN Orphans = Calls
  BY DEF ReloadPage, Orphans
<1>3. /\ session = None => status' = AtRest /\ calls' = Orphans
      /\ session # None =>
           /\ status' = Busy("opening", session)
           /\ \E c \in Calls : Orphans[c] = Free /\ calls' = [Orphans EXCEPT ![c] = Restoring]
  BY DEF ReloadPage
<1>4. PageTypes'
  BY <1>0, <1>2, <1>3 DEF PageTypes, AtRest, Busy
<1>5. CASE session = None
  <2>1. calls' \in [Calls -> CallRecords] /\ \A c \in Calls : calls'[c] = Orphans[c]
    BY <1>1, <1>3, <1>5 DEF Orphans
  <2>2. CallsSensible' /\ SessionIsActive'
    BY <1>0, <1>1, <1>2, <1>5, <2>1, FreeIsNoRequest
       DEF CallsSensible, Sensible, SessionIsActive
  <2>3. Quiet'
    BY <1>2, <1>5, <2>1 DEF Quiet, Alone, InUse, Current, PageFits
  <2> QED
    BY <1>2, <1>4, <2>1, <2>2, <2>3, TypeParts DEF WorkflowInv
<1>6. CASE session # None
  <2>1. PICK r \in Calls : Orphans[r] = Free /\ calls' = [Orphans EXCEPT ![r] = Restoring]
    BY <1>3, <1>6
  <2>2. /\ Restoring \in Requests /\ Restoring # Free
        /\ Restoring.kind = "restore" /\ Restoring.phase = "sent"
        /\ Restoring.id = session /\ Restoring.work = editor /\ Restoring.closure = None
    BY <1>0, <1>6, RestoringIsRequest DEF PageTypes
  <2>3. calls'[r] = Restoring /\ \A c \in Calls \ {r} : calls'[c] = Orphans[c]
    BY <1>2, <2>1
  <2>4. calls' \in [Calls -> CallRecords]
    BY <1>1, <1>2, <2>1, <2>2, <2>3 DEF CallRecords, Orphans
  <2>5. CallsSensible'
    <3>1. Sensible(r)'
      BY <1>0, <1>6, <2>2, <2>3 DEF Sensible, PageTypes
    <3>2. ASSUME NEW c \in Calls \ {r} PROVE Sensible(c)'
      BY <1>0, <1>1, <2>3, <3>2, FreeIsNoRequest DEF CallsSensible, Sensible
    <3> QED
      BY <3>1, <3>2 DEF CallsSensible
  <2>6. SessionIsActive'
    BY <2>2, <2>3 DEF SessionIsActive, Pending
  <2>7. Quiet'
    BY <1>2, <2>2, <2>3 DEF Quiet, Alone, InUse, Current, PageFits
  <2> QED
    BY <1>2, <1>4, <2>4, <2>5, <2>6, <2>7, TypeParts DEF WorkflowInv
<1> QED
  BY <1>5, <1>6

LEMMA NextWorkflowInv == WorkflowInv /\ [WorkflowNext]_workflowVars => WorkflowInv'
<1> SUFFICES ASSUME WorkflowInv, [WorkflowNext]_workflowVars PROVE WorkflowInv'
  OBVIOUS
<1> USE DEF Busy
<1>0. PageTypes /\ None \in Projects \cup {None}
  BY TypeParts DEF WorkflowInv
<1>1. CASE ReloadPage
  BY <1>1, ReloadKeeps
<1>2. CASE LoadProjects
  BY <1>0, <1>2, SendKeeps DEF LoadProjects, Kinds
<1>3. CASE SaveProject
  BY <1>0, <1>3, SendKeeps DEF SaveProject, Kinds, PageTypes
<1>4. CASE ImportImage
  BY <1>0, <1>4, SendKeeps DEF ImportImage, Kinds, PageTypes, ui
<1>5. ASSUME NEW p \in Projects, OpenProject(p) PROVE WorkflowInv'
  BY <1>0, <1>5, SendKeeps DEF OpenProject, Kinds
<1>6. ASSUME NEW p \in Projects, DeleteProject(p) PROVE WorkflowInv'
  BY <1>0, <1>6, SendKeeps DEF DeleteProject, Kinds
<1>7. CASE UNCHANGED workflowVars
  <2>1. /\ WorkflowTypeOK' /\ CallsSensible' /\ SessionIsActive' /\ Alone = Alone' /\ PageFits = PageFits'
        /\ \A c \in Calls : Current(c) = Current(c)'
    BY <1>7 DEF WorkflowInv, workflowVars, WorkflowTypeOK, CallsSensible, Sensible, SessionIsActive, Pending, Alone,
       Current, PageFits, InUse, AnswerFits, Removed, Free
  <2> QED
    BY <1>7, <2>1 DEF WorkflowInv, Quiet, workflowVars
<1> QED
  BY <1>1, <1>2, <1>3, <1>4, <1>5, <1>6, <1>7, ServeKeeps, DisconnectKeeps, ReturnKeeps DEF WorkflowNext

-----------------------------------------------------------------------------
THEOREM WorkflowInvariant == WorkflowSpec => []WorkflowInv
BY InitWorkflowInv, NextWorkflowInv, PTL DEF WorkflowSpec

(* The page, its requests and the store keep their types.                   *)
THEOREM WorkflowTypeCorrect == WorkflowSpec => []WorkflowTypeOK
BY WorkflowInvariant, PTL DEF WorkflowInv

(* The remembered session is the active project, none, or being restored.   *)
THEOREM SessionStaysActive == WorkflowSpec => []SessionIsActive
BY WorkflowInvariant, PTL DEF WorkflowInv

(* A page that nothing disturbed shows the project it says it shows.        *)
THEOREM QuietPageShowsItsProject == WorkflowSpec => []QuietPageAgrees
<1>1. WorkflowInv => QuietPageAgrees
  <2> SUFFICES ASSUME WorkflowInv, ~disturbed, InFlight = {}
               PROVE  /\ active # None => store[active] = editor
                      /\ session = active /\ list \subseteq Live
    BY DEF QuietPageAgrees
  <2>1. PageFits /\ \A c \in Calls : calls[c] = Free
    BY DEF WorkflowInv, Quiet, InFlight
  <2>2. \A p : ~Removed(p)
    BY <2>1, FreeIsNoRequest DEF Removed
  <2> QED
    BY <2>1, <2>2, TypeParts DEF WorkflowInv, PageFits, InUse, Live, PageTypes
<1> QED
  BY <1>1, WorkflowInvariant, PTL

=============================================================================

--------------------------- MODULE DocumentHistory ---------------------------
(***************************************************************************)
(* The renderer's editor state (App.tsx): the current document, the undo    *)
(* and redo stacks, the selected element, and the copy of the document that *)
(* an effect keeps in localStorage.  A document maps the ids of its         *)
(* elements to their contents.                                              *)
(***************************************************************************)
EXTENDS Integers, Sequences

CONSTANTS Elements,        \* element ids
          Marker,          \* the id that the long-print markers always use
          Contents,        \* what an element may look like
          NewContents,     \* what a new element may look like
          LargeContents,   \* images too large for localStorage's quota
          Limit,           \* documents kept for undo (50 in the code)
          NoElement, Absent

ASSUME HistoryAssumption ==
    /\ Marker \in Elements
    /\ NewContents \subseteq Contents
    /\ LargeContents \subseteq Contents
    /\ Limit \in Nat \ {0}
    /\ NoElement \notin Elements

Documents == UNION {[S -> Contents] : S \in SUBSET Elements}

ASSUME AbsentAssumption == Absent \notin Documents

VARIABLES document, past, future, selected,   \* EditorState
          stored,     \* localStorage's current document
          mounted     \* the React tree is up

vars == <<document, past, future, selected, stored, mounted>>

-----------------------------------------------------------------------------
DefaultDocument == [e \in {} |-> Absent]

(* loadStoredDocument, or a new document.                                   *)
Restored == IF stored = Absent THEN DefaultDocument ELSE stored

Fits(d) == \A e \in DOMAIN d : d[e] \notin LargeContents

LastN(s, n) == IF Len(s) <= n THEN s ELSE SubSeq(s, Len(s) - n + 1, Len(s))

(* Mutant: the document is stored some time later.                          *)
SettledLater == mounted

(* React runs the effects of one render before it begins the next: the      *)
(* document of the last render has been stored.                             *)
Settled == mounted /\ stored = document

Init ==
    /\ stored \in {Absent} \cup {d \in Documents : Fits(d)}
    /\ document = Restored
    /\ past = <<>>
    /\ future = <<>>
    /\ selected = NoElement
    /\ mounted = TRUE

(* commitDocument: every edit, image import included, goes through it.  A   *)
(* commit that selects nothing leaves the selection as it is.               *)
Commit(d, e) ==
    /\ document' = d
    /\ past' = LastN(Append(past, document), Limit)
    /\ future' = <<>>
    /\ selected' = IF e = NoElement THEN selected ELSE e
    /\ UNCHANGED <<stored, mounted>>

Put(d, e, c) == [x \in DOMAIN d \cup {e} |-> IF x = e THEN c ELSE d[x]]

Without(d, e) == [x \in DOMAIN d \ {e} |-> d[x]]

(* The add tools and importImageFile: a fresh id, which becomes selected.   *)
Add(e) ==
    /\ Settled
    /\ e \notin DOMAIN document
    /\ \E c \in NewContents : Commit(Put(document, e, c), e)

(* insertLongPrintTestMarkers replaces the markers of an earlier call.      *)
InsertMarkers ==
    /\ Settled
    /\ \E c \in NewContents : Commit(Put(document, Marker, c), Marker)

(* Moves, transforms, nudges, the inspector's fields and the inline editor: *)
(* the element becomes selected, also when nothing changes.                 *)
Update(e) ==
    /\ Settled
    /\ e \in DOMAIN document
    /\ \E c \in Contents : Commit(Put(document, e, c), e)

(* The inspector's button and the Delete key.  (The key asks whether the    *)
(* element is locked, the button does not.)                                 *)
Delete ==
    /\ Settled
    /\ selected \in DOMAIN document
    /\ Commit(Without(document, selected), NoElement)

Select(e) ==
    /\ Settled
    /\ e \in DOMAIN document \cup {NoElement}
    /\ selected' = e
    /\ UNCHANGED <<document, past, future, stored, mounted>>

(* Mutant: the document left behind is put at the wrong end.                *)
UndoAppends ==
    /\ Settled
    /\ past # <<>>
    /\ document' = past[Len(past)]
    /\ past' = SubSeq(past, 1, Len(past) - 1)
    /\ future' = Append(future, document)
    /\ selected' = NoElement
    /\ UNCHANGED <<stored, mounted>>

Undo ==
    /\ Settled
    /\ past # <<>>
    /\ document' = past[Len(past)]
    /\ past' = SubSeq(past, 1, Len(past) - 1)
    /\ future' = <<document>> \o future
    /\ selected' = NoElement
    /\ UNCHANGED <<stored, mounted>>

(* redoDocumentChange trims past like a commit does.                        *)
Redo ==
    /\ Settled
    /\ future # <<>>
    /\ document' = future[1]
    /\ past' = LastN(Append(past, document), Limit)
    /\ future' = Tail(future)
    /\ selected' = NoElement
    /\ UNCHANGED <<stored, mounted>>

StartWith(d) ==
    /\ document' = d
    /\ past' = <<>>
    /\ future' = <<>>
    /\ selected' = NoElement

(* applyOpenedProject, with the document of some daemon project.            *)
Open(d) ==
    /\ Settled
    /\ StartWith(d)
    /\ UNCHANGED <<stored, mounted>>

(* Mutant: a document without elements is not worth storing.                *)
AutosaveUnlessEmpty ==
    /\ mounted
    /\ stored # document
    /\ DOMAIN document # {}
    /\ Fits(document)
    /\ stored' = document
    /\ UNCHANGED <<document, past, future, selected, mounted>>

(* The effect on [document]: saveStoredDocument.                            *)
Autosave ==
    /\ mounted
    /\ stored # document
    /\ Fits(document)
    /\ stored' = document
    /\ UNCHANGED <<document, past, future, selected, mounted>>

(* setItem throws when the quota is exceeded; an exception in an effect,    *)
(* with no error boundary above, takes the whole React tree down.           *)
AutosaveThrows ==
    /\ mounted
    /\ stored # document
    /\ ~Fits(document)
    /\ mounted' = FALSE
    /\ UNCHANGED <<document, past, future, selected, stored>>

(* The window is reloaded, or the application closed and opened again.      *)
Reload ==
    /\ StartWith(Restored)
    /\ mounted' = TRUE
    /\ UNCHANGED stored

Next ==
    \/ \E e \in Elements : Add(e) \/ Update(e)
    \/ \E e \in Elements \cup {NoElement} : Select(e)
    \/ InsertMarkers \/ Delete \/ Undo \/ Redo
    \/ \E d \in Documents : Open(d)
    \/ Autosave \/ AutosaveThrows \/ Reload

(* React runs an effect it has scheduled.                                   *)
Spec == Init /\ [][Next]_vars /\ WF_vars(Autosave \/ AutosaveThrows)

-----------------------------------------------------------------------------
TypeOK ==
    /\ document \in Documents
    /\ past \in Seq(Documents)
    /\ future \in Seq(Documents)
    /\ selected \in Elements \cup {NoElement}
    /\ stored \in Documents \cup {Absent}
    /\ mounted \in BOOLEAN

(* Undo and redo together never reach further than Limit documents, however *)
(* edits, undos and redos alternate: redo's own slice(-50) never drops      *)
(* anything.                                                                *)
HistoryBounded == Len(past) + Len(future) <= Limit

History == INSTANCE LinearHistory
             WITH timeline <- past \o <<document>> \o future,
                  cursor   <- Len(past) + 1

(* The two stacks and the document always are one line of documents, and    *)
(* every handler of the editor moves along it or extends it as the user     *)
(* expects (commitDocument, undoDocumentChange, redoDocumentChange).        *)
ImplementsHistory == History!Spec

(* What localStorage holds is the document on the screen or its neighbour   *)
(* in the history: a reload between a render and its effect takes back one  *)
(* step and no more (a document just opened has no history yet).            *)
ReloadLosesOneStep ==
    stored \notin {document, Absent} =>
      \/ past # <<>> /\ stored = past[Len(past)]
      \/ future # <<>> /\ stored = future[1]
      \/ past = <<>> /\ future = <<>>

(* localStorage keeps catching up with the document on the screen.          *)
AutosaveCatchesUp == []<>(stored = document \/ ~mounted)
=============================================================================

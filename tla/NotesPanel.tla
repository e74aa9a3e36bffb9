------------------------------ MODULE NotesPanel ------------------------------
(***************************************************************************)
(* The Notes tab of the agent page: a list, the body of the selected note, *)
(* an editor, and the agent that writes notes of its own meanwhile.        *)
(*                                                                         *)
(* A content is what it is the body of: the n-th body of a note, something *)
(* typed, or nothing.                                                      *)
(*                                                                         *)
(* Source: components/notes/notes-panel.tsx, components/confirm-delete.tsx;*)
(* internal/state_agentstate.go for the daemon.                            *)
(***************************************************************************)
EXTENDS Naturals

CONSTANTS
  NoteKeys,      (* keys of notes                                          *)
  MaxBodies,     (* bound: bodies written of one note                      *)
  MaxNoteOps     (* bound: what the agent and the operator write           *)

(* The form refuses an empty key; here it stands for no note.              *)
ASSUME NoteAssumption == "" \notin NoteKeys /\ MaxBodies \in Nat /\ MaxNoteOps \in Nat

VARIABLES
  noteBody,      (* key -> content the daemon keeps, Nothing if no note    *)
  notePinned,    (* notes with in_context                                  *)
  noteList,      (* the cached list: keys                                  *)
  notePins,      (* the pins in that list                                  *)
  noteDetail,    (* key -> cached body, Loading if never fetched           *)
  noteSelected,  (* selectedKey, "" for none                               *)
  noteEditor,    (* [open, mode, key, content]                             *)
  noteSaving,    (* the save under way: <<>> or <<[key, content]>>         *)
  noteConfirm,   (* the dialog that asks before a deletion is open         *)
  noteWritten,   (* how many bodies there were                             *)
  noteOps

noteVars == <<noteBody, notePinned, noteList, notePins, noteDetail, noteSelected, noteEditor,
              noteSaving, noteConfirm, noteWritten, noteOps>>

Body(k, n) == [of |-> k, n |-> n]
Nothing == Body("", 0)
Loading == Body("", 1)
Typed == Body("", 2)

ClosedEditor == [open |-> FALSE, mode |-> "create", key |-> "", content |-> Nothing]

NoteInit ==
  /\ noteBody = [k \in NoteKeys |-> Nothing]
  /\ notePinned = {} /\ noteList = {} /\ notePins = {}
  /\ noteDetail = [k \in NoteKeys |-> Loading]
  /\ noteSelected = ""
  /\ noteEditor = ClosedEditor
  /\ noteSaving = <<>>
  /\ noteConfirm = FALSE
  /\ noteWritten = 0
  /\ noteOps = 0

Stored == {k \in NoteKeys : noteBody[k] # Nothing}

(* The detail pane is there when the selected key is in the list.          *)
Detailed == noteSelected \in noteList

CountNoteOp == noteOps < MaxNoteOps /\ noteOps' = noteOps + 1

-----------------------------------------------------------------------------
(* Queries.  The invalidation after a write matches no query, the interval *)
(* refreshes what is on screen.                                            *)

FetchNotes ==
  /\ <<noteList, notePins>> # <<Stored, notePinned>>
  /\ noteList' = Stored /\ notePins' = notePinned
  /\ noteConfirm' = (noteConfirm /\ noteSelected \in Stored)
  /\ UNCHANGED <<noteBody, notePinned, noteDetail, noteSelected, noteEditor, noteSaving,
                 noteWritten, noteOps>>

(* An error keeps the data there was.                                      *)
FetchNote ==
  /\ Detailed
  /\ noteBody[noteSelected] \notin {Nothing, noteDetail[noteSelected]}
  /\ noteDetail' = [noteDetail EXCEPT ![noteSelected] = noteBody[noteSelected]]
  /\ UNCHANGED <<noteBody, notePinned, noteList, notePins, noteSelected, noteEditor,
                 noteSaving, noteConfirm, noteWritten, noteOps>>

-----------------------------------------------------------------------------
(* The operator.                                                           *)

(* Mutant: while the body of a note loads, the one before stays.           *)
SelectKeepingBody(k) ==
  /\ ~noteEditor.open /\ ~noteConfirm
  /\ k \in noteList
  /\ noteSelected' = k
  /\ noteDetail' = IF noteDetail[k] = Loading /\ Detailed
                     THEN [noteDetail EXCEPT ![k] = noteDetail[noteSelected]] ELSE noteDetail
  /\ UNCHANGED <<noteBody, notePinned, noteList, notePins, noteEditor, noteSaving,
                 noteConfirm, noteWritten, noteOps>>

SelectNote(k) ==
  /\ ~noteEditor.open /\ ~noteConfirm
  /\ k \in noteList
  /\ noteSelected' = k
  /\ UNCHANGED <<noteBody, notePinned, noteList, notePins, noteDetail, noteEditor, noteSaving,
                 noteConfirm, noteWritten, noteOps>>

SetEditor(editor) ==
  /\ noteEditor' = editor
  /\ UNCHANGED <<noteBody, notePinned, noteList, notePins, noteDetail, noteSelected,
                 noteConfirm, noteWritten>>

OpenCreate ==
  /\ ~noteEditor.open /\ ~noteConfirm
  /\ SetEditor([ClosedEditor EXCEPT !.open = TRUE])
  /\ UNCHANGED <<noteSaving, noteOps>>

(* The editor starts from the body on screen, which is empty while it      *)
(* loads.                                                                  *)
OpenEdit ==
  /\ ~noteEditor.open /\ ~noteConfirm
  /\ Detailed
  /\ SetEditor([open |-> TRUE, mode |-> "edit", key |-> noteSelected,
                content |-> IF noteDetail[noteSelected] = Loading THEN Nothing
                                                                  ELSE noteDetail[noteSelected]])
  /\ UNCHANGED <<noteSaving, noteOps>>

(* The key field is disabled in an edit.                                   *)
TypeNote ==
  /\ noteEditor.open
  /\ CountNoteOp
  /\ \/ SetEditor([noteEditor EXCEPT !.content = Typed])
     \/ noteEditor.mode = "create" /\ \E k \in NoteKeys : SetEditor([noteEditor EXCEPT !.key = k])
  /\ UNCHANGED noteSaving

CloseEditor ==
  /\ noteEditor.open
  /\ SetEditor([noteEditor EXCEPT !.open = FALSE])
  /\ UNCHANGED <<noteSaving, noteOps>>

(* submitEdit: the editor stays open until the answer.                     *)
SubmitEdit ==
  /\ noteEditor.open /\ noteSaving = <<>>
  /\ noteEditor.key # ""
  /\ noteSaving' = <<[key |-> noteEditor.key, content |-> noteEditor.content]>>
  /\ UNCHANGED <<noteBody, notePinned, noteList, notePins, noteDetail, noteSelected, noteEditor,
                 noteConfirm, noteWritten, noteOps>>

(* What is kept: a body that was loaded stays what it was.                 *)
StoreNote(k, content) ==
  /\ noteBody' = [noteBody EXCEPT ![k] =
                    IF content.of = k THEN content ELSE Body(k, noteWritten + 1)]
  /\ noteWritten' = noteWritten + 1

(* The answer closes whatever editor is open and selects the note, whatever*)
(* is selected.                                                            *)
NoteSaved ==
  /\ noteSaving # <<>>
  /\ noteSaving' = <<>>
  /\ \/ /\ noteWritten < MaxBodies
        /\ StoreNote(noteSaving[1].key, noteSaving[1].content)
        /\ noteEditor' = [noteEditor EXCEPT !.open = FALSE]
        /\ noteSelected' = noteSaving[1].key
     \/ UNCHANGED <<noteBody, noteWritten, noteEditor, noteSelected>>
  /\ noteConfirm' = (noteConfirm /\ noteSelected' \in noteList)
  /\ UNCHANGED <<notePinned, noteList, notePins, noteDetail, noteOps>>

(* The button says what the cached list makes of the note.                 *)
TogglePin ==
  /\ ~noteEditor.open /\ ~noteConfirm
  /\ Detailed
  /\ CountNoteOp
  /\ noteSelected \in Stored
  /\ notePinned' = IF noteSelected \in notePins THEN notePinned \ {noteSelected}
                                                ELSE notePinned \cup {noteSelected}
  /\ UNCHANGED <<noteBody, noteList, notePins, noteDetail, noteSelected, noteEditor, noteSaving,
                 noteConfirm, noteWritten>>

(* ConfirmDelete.  The dialog is part of the detail pane and goes with it; *)
(* when a late answer selects another note, it goes on asking about that.  *)
AskDeleteNote ==
  /\ ~noteEditor.open /\ ~noteConfirm
  /\ Detailed
  /\ noteConfirm' = TRUE
  /\ UNCHANGED <<noteBody, notePinned, noteList, notePins, noteDetail, noteSelected, noteEditor,
                 noteSaving, noteWritten, noteOps>>

AnswerDelete ==
  /\ noteConfirm
  /\ noteConfirm' = FALSE
  /\ \/ UNCHANGED <<noteBody, notePinned, noteSelected>>
     \/ /\ noteBody' = [noteBody EXCEPT ![noteSelected] = Nothing]
        /\ notePinned' = notePinned \ {noteSelected}
        /\ noteSelected' = ""
  /\ UNCHANGED <<noteList, notePins, noteDetail, noteEditor, noteSaving, noteWritten, noteOps>>

(* External: the agent's note_save and note_delete tools.                  *)
AgentWrites(k) ==
  /\ CountNoteOp
  /\ \/ noteWritten < MaxBodies /\ StoreNote(k, Typed) /\ UNCHANGED notePinned
     \/ /\ k \in Stored
        /\ noteBody' = [noteBody EXCEPT ![k] = Nothing]
        /\ notePinned' = notePinned \ {k}
        /\ UNCHANGED noteWritten
  /\ UNCHANGED <<noteList, notePins, noteDetail, noteSelected, noteEditor, noteSaving,
                 noteConfirm>>

NoteNext ==
  \/ FetchNotes \/ FetchNote
  \/ OpenCreate \/ OpenEdit \/ TypeNote \/ CloseEditor \/ SubmitEdit \/ NoteSaved
  \/ TogglePin \/ AskDeleteNote \/ AnswerDelete
  \/ \E k \in NoteKeys : SelectNote(k) \/ AgentWrites(k)

-----------------------------------------------------------------------------
(* Properties.                                                             *)

NoteTypeOK ==
  /\ notePinned \subseteq Stored
  /\ noteList \subseteq NoteKeys /\ notePins \subseteq noteList
  /\ noteSelected \in NoteKeys \cup {""}
  /\ noteEditor.key \in NoteKeys \cup {""}
  /\ noteEditor.mode \in {"create", "edit"}
  /\ noteSaving # <<>> => noteSaving[1].key \in NoteKeys
  /\ noteConfirm \in BOOLEAN
  /\ noteWritten \in 0..MaxBodies /\ noteOps \in 0..MaxNoteOps

(* No note ever gets the body of another: what is shown under a key, what  *)
(* the editor starts from and what is saved are a body of that very note,  *)
(* or what the operator typed; selecting, editing, a late save and the     *)
(* agent's own writes may come in any order.                               *)
NoForeignBody ==
  LET Own(k, content) == content.of \in {k, ""} IN
  /\ \A k \in NoteKeys : Own(k, noteDetail[k]) /\ noteBody[k].of \in {k, ""}
  /\ noteEditor.open /\ noteEditor.mode = "edit" => Own(noteEditor.key, noteEditor.content)
  /\ noteSaving # <<>> => Own(noteSaving[1].key, noteSaving[1].content)
=============================================================================

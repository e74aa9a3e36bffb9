------------------------------ MODULE PromptInput ------------------------------
(***************************************************************************)
(* The composer under a conversation: a text, the files dropped or pasted  *)
(* into it, and submissions that first turn every file into data.          *)
(*                                                                         *)
(* The form keeps the files, the chat page the text: its textarea is       *)
(* controlled, so that neither form.reset() nor the end of a submission    *)
(* clears it, but sendPrompt does, which runs when the files are read.     *)
(* The page draws no files and sends none.                                 *)
(*                                                                         *)
(* Texts, files and submissions are numbered as they appear; 0 is the      *)
(* blank text.  The n-th file has the n-th blob URL.                       *)
(*                                                                         *)
(* Source: components/ai-elements/prompt-input.tsx, and                    *)
(* app/agents/[agent]/chat/[session]/view.tsx for what the page adds.      *)
(***************************************************************************)
EXTENDS Naturals, Sequences, SequencesExt, FiniteSetsExt

CONSTANT MaxPromptOps  (* bound: what the user does                        *)

ASSUME PromptAssumption == MaxPromptOps \in Nat

VARIABLES
  piMounted,
  piText,       (* the textarea: the page's input                          *)
  piFiles,      (* items                                                   *)
  piUrls,       (* blob URLs not revoked                                   *)
  piBusy,       (* the page's status is streaming                          *)
  piSending,    (* submissions under way: [n, text, busy, phase]           *)
  piNumbers,    (* numbers used                                            *)
  piOps,
  (* history *)
  piSent        (* the texts sent to the agent; 0: one of the transcript   *)

promptVars == <<piMounted, piText, piFiles, piUrls, piBusy, piSending, piNumbers, piOps, piSent>>

PromptInit ==
  /\ piMounted = TRUE
  /\ piText = 0 /\ piBusy = FALSE
  /\ piFiles = {} /\ piUrls = {}
  /\ piSending = {} /\ piSent = <<>>
  /\ piNumbers = 0 /\ piOps = 0

CountPromptOp == piOps < MaxPromptOps /\ piOps' = piOps + 1

-----------------------------------------------------------------------------
(* Attachments.                                                            *)

(* The page bounds neither number, type nor size.                         *)
AddLocal(new) == piFiles' = piFiles \cup new /\ piUrls' = piUrls \cup new

(* Files are dropped on the form or pasted.                                *)
Attach(count) ==
  /\ piMounted /\ CountPromptOp
  /\ AddLocal((piNumbers + 1)..(piNumbers + count))
  /\ piNumbers' = piNumbers + count
  /\ UNCHANGED <<piMounted, piText, piBusy, piSending, piSent>>

(* Mutant: the URL of a removed file is forgotten.                         *)
RemoveFileOnly(f) == piFiles' = piFiles \ {f} /\ UNCHANGED piUrls

RemoveFile(f) == piFiles' = piFiles \ {f} /\ piUrls' = piUrls \ {f}

(* In an empty textarea it removes the file attached last.                 *)
Backspace ==
  /\ piMounted /\ piText = 0 /\ piFiles # {}
  /\ RemoveFile(Max(piFiles))
  /\ UNCHANGED <<piMounted, piText, piBusy, piSending, piNumbers, piOps, piSent>>

(* Mutant: the URLs of the cleared files are forgotten.                    *)
ClearFilesOnly == piFiles' = {} /\ UNCHANGED piUrls

ClearFiles == piFiles' = {} /\ piUrls' = piUrls \ piFiles

-----------------------------------------------------------------------------
(* The text.                                                               *)

(* Typed, or taken from a message of the transcript (Edit, and ArrowUp).   *)
(* What the user types and then deletes is as if it was not typed.         *)
TypePrompt ==
  /\ piMounted /\ CountPromptOp
  /\ piText' = piNumbers + 1 /\ piNumbers' = piNumbers + 1
  /\ UNCHANGED <<piMounted, piFiles, piUrls, piBusy, piSending, piSent>>

(* sendPrompt: a new turn, and an empty textarea.                          *)
SendPrompt(text) ==
  /\ piSent' = Append(piSent, text)
  /\ piText' = 0
  /\ piBusy' = TRUE

-----------------------------------------------------------------------------
(* Submissions.                                                            *)

(* Enter.  The button that is disabled without a text is not there during  *)
(* a reply.  Without files nothing can come between the key and            *)
(* sendPrompt, which does nothing during a reply; with files, it will run  *)
(* as the page is now.                                                     *)
SubmitPrompt ==
  LET Submission(phase) == [n |-> piNumbers + 1, text |-> piText, busy |-> piBusy, phase |-> phase]
  IN
  /\ piMounted /\ CountPromptOp
  /\ piText # 0 \/ piBusy
  /\ piNumbers' = piNumbers + 1
  /\ \/ /\ piFiles = {} /\ ~piBusy
        /\ SendPrompt(piText)
        /\ piSending' = piSending \cup {Submission("replying")}
     \/ /\ piFiles = {} /\ piBusy
        /\ UNCHANGED <<piText, piBusy, piSending, piSent>>
     \/ /\ piFiles # {}
        /\ piSending' = piSending \cup {Submission("reading")}
        /\ UNCHANGED <<piText, piBusy, piSent>>
  /\ UNCHANGED <<piMounted, piFiles, piUrls>>

(* Once the composer is gone nothing of it is left to clear.               *)
ClearIfMounted == IF piMounted THEN ClearFiles ELSE UNCHANGED <<piFiles, piUrls>>

(* Mutant: the textarea is emptied before sendPrompt has looked.           *)
FilesReadEmptying(s) ==
  /\ s \in piSending /\ s.phase = "reading"
  /\ piText' = 0
  /\ IF s.busy \/ s.text = 0
       THEN /\ piSending' = piSending \ {s}
            /\ ClearIfMounted
            /\ UNCHANGED <<piBusy, piSent>>
       ELSE /\ piSending' = (piSending \ {s}) \cup {[s EXCEPT !.phase = "replying"]}
            /\ piSent' = Append(piSent, s.text) /\ piBusy' = TRUE
            /\ UNCHANGED <<piFiles, piUrls>>
  /\ UNCHANGED <<piMounted, piNumbers, piOps>>

(* The files of a submission are data now, or could not be read.  What was *)
(* submitted during a reply is dropped, with whatever is attached by now;  *)
(* the rest is sent, and takes what was typed meanwhile off the textarea.  *)
FilesRead(s) ==
  /\ s \in piSending /\ s.phase = "reading"
  /\ IF s.busy \/ s.text = 0
       THEN /\ piSending' = piSending \ {s}
            /\ ClearIfMounted
            /\ UNCHANGED <<piText, piBusy, piSent>>
       ELSE /\ piSending' = (piSending \ {s}) \cup {[s EXCEPT !.phase = "replying"]}
            /\ SendPrompt(s.text)
            /\ UNCHANGED <<piFiles, piUrls>>
  /\ UNCHANGED <<piMounted, piNumbers, piOps>>

(* Mutant: the end of a reply also clears the textarea.                    *)
ReplyEndsResetting(s) ==
  /\ s \in piSending /\ s.phase # "reading"
  /\ piSending' = piSending \ {s}
  /\ piBusy' = FALSE
  /\ IF s.phase = "replying" THEN ClearIfMounted /\ piText' = 0
                             ELSE UNCHANGED <<piText, piFiles, piUrls>>
  /\ UNCHANGED <<piMounted, piNumbers, piOps, piSent>>

(* The reply is complete, has failed or was stopped: the page is ready,    *)
(* and a submission clears what is attached by now.                        *)
ReplyEnds(s) ==
  /\ s \in piSending /\ s.phase # "reading"
  /\ piSending' = piSending \ {s}
  /\ piBusy' = FALSE
  /\ IF s.phase = "replying" THEN ClearIfMounted ELSE UNCHANGED <<piFiles, piUrls>>
  /\ UNCHANGED <<piMounted, piText, piNumbers, piOps, piSent>>

(* Retry and the suggestions send a prompt of the transcript past the      *)
(* composer, but empty its textarea; a regenerated reply leaves it.        *)
SendOfTranscript ==
  /\ piMounted /\ ~piBusy /\ CountPromptOp
  /\ \/ SendPrompt(0)
     \/ piBusy' = TRUE /\ UNCHANGED <<piText, piSent>>
  /\ piNumbers' = piNumbers + 1
  /\ piSending' = piSending \cup {[n |-> piNumbers + 1, text |-> 0, busy |-> FALSE, phase |-> "page"]}
  /\ UNCHANGED <<piMounted, piFiles, piUrls>>

(* The user goes elsewhere: the text is gone, what is attached is revoked, *)
(* and submissions go on.                                                  *)
LeavePrompt ==
  /\ piMounted /\ piMounted' = FALSE
  /\ piText' = 0
  /\ ClearFiles
  /\ UNCHANGED <<piBusy, piSending, piNumbers, piOps, piSent>>

-----------------------------------------------------------------------------
PromptNext ==
  \/ \E count \in {1, 2} : Attach(count)
  \/ Backspace \/ TypePrompt \/ SubmitPrompt \/ SendOfTranscript \/ LeavePrompt
  \/ \E s \in piSending : FilesRead(s) \/ ReplyEnds(s)

-----------------------------------------------------------------------------
(* Properties.                                                             *)

(* The sets the variables stay in.                                         *)
PromptTypeOK ==
  /\ piMounted \in BOOLEAN /\ piBusy \in BOOLEAN
  /\ piText \in 0..piNumbers
  /\ piFiles \cup piUrls \subseteq 1..piNumbers
  /\ piSending \subseteq [n : 1..piNumbers, text : 0..piNumbers, busy : BOOLEAN,
                          phase : {"reading", "replying", "page"}]
  /\ piSent \in Seq(0..piNumbers)
  /\ piOps \in 0..MaxPromptOps

(* No blob is kept alive by a URL nobody holds, and no attached file has   *)
(* lost its own, whatever is attached, removed, submitted and left while   *)
(* submissions are read or answered.                                       *)
PromptHolds == piUrls = piFiles

(* A draft is taken off the textarea only when a prompt is sent: that text *)
(* itself, one of the transcript, or one that was submitted with files     *)
(* before the draft was typed.  Neither the end of a reply nor a           *)
(* submission that is dropped clears it.  (The third case is a draft that  *)
(* is lost; the comment at prompt-input.tsx:856 means to avoid it.)        *)
DraftGoesWithAPrompt ==
  [][piText # 0 /\ piText' = 0 /\ piMounted'
       => /\ Len(piSent') = Len(piSent) + 1
          /\ \/ Last(piSent') \in {piText, 0}
             \/ \E s \in piSending : s.phase = "reading" /\ s.text = Last(piSent')]_promptVars
=============================================================================

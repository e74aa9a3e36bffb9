------------------------------ MODULE RunDialogs ------------------------------
(***************************************************************************)
(* The dialogs that start something: an agent from an image, an async job, *)
(* the pull of an image.  A dialog keeps its form while it is closed,      *)
(* unless closing resets it, and a request goes on after the dialog is     *)
(* closed; its answer closes the dialog again.                             *)
(*                                                                         *)
(* Source: components/agents/run-from-image-dialog.tsx,                    *)
(* components/jobs/run-job-dialog.tsx, components/pull-from-url-button.tsx.*)
(***************************************************************************)
EXTENDS Naturals, Sequences, FiniteSets, SequencesExt

CONSTANTS
  EnvKeys,       (* keys of environment variables                          *)
  Bins,          (* BINs of agents                                         *)
  MaxDialogOps   (* bound: what the operator and others change             *)

(* A field that was left empty.                                            *)
NoText == ""

ASSUME DialogAssumption ==
  IsFiniteSet(EnvKeys) /\ NoText \notin EnvKeys /\ MaxDialogOps \in Nat

VARIABLES
  dlgKind,       (* "image", "job" or "pull"                               *)
  dlgWorld,      (* the daemon's part: the image's defaults, key -> value; *)
                 (* or the agents' BINs, agent -> set                      *)
  dlgSeen,       (* that, as it was last fetched                           *)
  dlgOpen,
  dlgForm,
  dlgCall,       (* the request under way: <<>> or <<[request, form]>>     *)
  dlgAt,         (* the page: "here", that of what was "started", or one   *)
                 (* of another name, "elsewhere"                           *)
  dlgLeft,       (* how the dialog was last closed                         *)
  dlgOps

dlgVars == <<dlgKind, dlgWorld, dlgSeen, dlgOpen, dlgForm, dlgCall, dlgAt, dlgLeft,
             dlgOps>>

Kinds == {"image", "job", "pull"}
EnvValues == {NoText, "default", "mine"}
JobAgents == {"a", "b"}

EnvRow(key, value, origin, default) ==
  [key |-> key, value |-> value, origin |-> origin, default |-> default]

(* Rows for what the image declares.                                       *)
InitialRows(envs) ==
  LET keys == SetToSeq({k \in EnvKeys : envs[k] # "none"}) IN
  [i \in DOMAIN keys |-> EnvRow(keys[i], envs[keys[i]], "declared", envs[keys[i]])]

BlankForm(kind, seen) ==
  CASE kind = "image" -> [name |-> "fresh", rows |-> InitialRows(seen), mounts |-> <<>>]
    [] kind = "job"   -> [agent |-> NoText, bin |-> NoText, labels |-> <<>>]
    [] kind = "pull"  -> [ref |-> NoText]

DialogInit ==
  /\ dlgKind \in Kinds
  /\ dlgWorld \in CASE dlgKind = "image" -> [EnvKeys -> {"none", "default"}]
                    [] dlgKind = "job"   -> {[a \in JobAgents |-> IF a = "a" THEN Bins ELSE {}]}
                    [] dlgKind = "pull"  -> {<<>>}
  /\ dlgSeen = dlgWorld
  /\ dlgOpen = FALSE
  /\ dlgForm = BlankForm(dlgKind, dlgSeen)
  /\ dlgCall = <<>>
  /\ dlgAt = "here"
  /\ dlgLeft = "never"
  /\ dlgOps = 0

CountDialogOp == dlgOps < MaxDialogOps /\ dlgOps' = dlgOps + 1

-----------------------------------------------------------------------------
(* Opening and closing.                                                    *)

OpenDialog ==
  /\ dlgAt = "here" /\ ~dlgOpen
  /\ dlgOpen' = TRUE
  /\ UNCHANGED <<dlgKind, dlgWorld, dlgSeen, dlgForm, dlgCall, dlgAt, dlgLeft, dlgOps>>

(* Mutant: no dialog is reset by dismissing it.                            *)
DismissDialogKeeping ==
  /\ dlgAt = "here" /\ dlgOpen
  /\ dlgOpen' = FALSE
  /\ dlgLeft' = "dismissed"
  /\ UNCHANGED <<dlgKind, dlgWorld, dlgSeen, dlgForm, dlgCall, dlgAt, dlgOps>>

(* Escape, or a click beside the dialog (onOpenChange).                    *)
DismissDialog ==
  /\ dlgAt = "here" /\ dlgOpen
  /\ dlgOpen' = FALSE
  /\ dlgLeft' = "dismissed"
  /\ dlgForm' = IF dlgKind = "job" THEN BlankForm(dlgKind, dlgSeen) ELSE dlgForm
  /\ UNCHANGED <<dlgKind, dlgWorld, dlgSeen, dlgCall, dlgAt, dlgOps>>

(* The Cancel button resets nothing; that of the image's dialog alone is   *)
(* disabled while a request is under way.                                  *)
CancelDialog ==
  /\ dlgAt = "here" /\ dlgOpen
  /\ dlgKind = "image" => dlgCall = <<>>
  /\ dlgOpen' = FALSE
  /\ dlgLeft' = "cancelled"
  /\ UNCHANGED <<dlgKind, dlgWorld, dlgSeen, dlgForm, dlgCall, dlgAt, dlgOps>>

-----------------------------------------------------------------------------
(* The forms.                                                              *)

(* A fresh answer for the image replaces the rows, edits included.         *)
FetchWorld ==
  /\ dlgAt = "here" /\ dlgSeen # dlgWorld
  /\ dlgSeen' = dlgWorld
  /\ dlgForm' = IF dlgKind = "image" THEN [dlgForm EXCEPT !.rows = InitialRows(dlgWorld)]
                                     ELSE dlgForm
  /\ UNCHANGED <<dlgKind, dlgWorld, dlgOpen, dlgCall, dlgAt, dlgLeft, dlgOps>>

(* Rows: a value of any, the key of a custom one, add and remove a custom. *)
EditedRows(rows) ==
  {[rows EXCEPT ![i].value = v] : i \in DOMAIN rows, v \in EnvValues}
  \cup {[rows EXCEPT ![i].key = k] :
          i \in {j \in DOMAIN rows : rows[j].origin = "custom"}, k \in EnvKeys}
  \cup {RemoveAt(rows, i) : i \in {j \in DOMAIN rows : rows[j].origin = "custom"}}
  \cup {Append(rows, EnvRow(NoText, NoText, "custom", NoText))}

EditedMounts(mounts) ==
  {Append(mounts, [host |-> NoText, target |-> NoText])}
  \cup {[mounts EXCEPT ![i].host = "h"] : i \in DOMAIN mounts}
  \cup {[mounts EXCEPT ![i].target = "t"] : i \in DOMAIN mounts}
  \cup {RemoveAt(mounts, i) : i \in DOMAIN mounts}

EditedImageForm ==
  {[dlgForm EXCEPT !.name = n] : n \in {NoText, "chosen"}}
  \cup {[dlgForm EXCEPT !.rows = rows] : rows \in EditedRows(dlgForm.rows)}
  \cup {[dlgForm EXCEPT !.mounts = ms] : ms \in EditedMounts(dlgForm.mounts)}

(* A select of what the agent declares, or free text when that is nothing. *)
(* Another agent leaves the BIN that was picked.                           *)
EditedJobForm ==
  {[dlgForm EXCEPT !.agent = a] : a \in JobAgents}
  \cup {[dlgForm EXCEPT !.bin = b] :
          b \in IF dlgForm.agent \in JobAgents /\ dlgSeen[dlgForm.agent] # {}
                  THEN dlgSeen[dlgForm.agent] ELSE Bins \cup {"typed"}}
  \cup {[dlgForm EXCEPT !.labels = Append(@, NoText)]}
  \cup {[dlgForm EXCEPT !.labels[i] = "labelled"] : i \in DOMAIN dlgForm.labels}

(* Fields also accept input while a request is under way.                  *)
EditForm ==
  /\ dlgAt = "here" /\ dlgOpen
  /\ CountDialogOp
  /\ dlgForm' \in CASE dlgKind = "image" -> EditedImageForm
                    [] dlgKind = "job"   -> EditedJobForm
                    [] dlgKind = "pull"  -> {[ref |-> "ref"]}
  /\ UNCHANGED <<dlgKind, dlgWorld, dlgSeen, dlgOpen, dlgCall, dlgAt, dlgLeft>>

-----------------------------------------------------------------------------
(* Requests.                                                               *)

(* Mutant: rows without a value are left out as well.                      *)
AddOverrideWithValue(envs, r) ==
  IF r.key # NoText /\ r.value # NoText /\ (r.origin = "custom" \/ r.value # r.default)
    THEN Append(envs, r) ELSE envs

(* Rows without a key, and declared ones at the image's default, are left  *)
(* out.                                                                    *)
AddOverride(envs, r) ==
  IF r.key # NoText /\ (r.origin = "custom" \/ r.value # r.default)
    THEN Append(envs, r) ELSE envs

EnvOverrides(rows) == FoldLeft(AddOverride, <<>>, rows)

ImageRequest(form) ==
  [name |-> form.name, envs |-> EnvOverrides(form.rows),
   mounts |-> SelectSeq(form.mounts, LAMBDA m : m.host # NoText /\ m.target # NoText)]

JobRequest(form) ==
  [agent |-> form.agent, bin |-> form.bin,
   labels |-> SelectSeq(form.labels, LAMBDA l : l # NoText)]

SubmitDialog ==
  /\ dlgAt = "here" /\ dlgOpen /\ dlgCall = <<>>
  /\ CASE dlgKind = "image" -> dlgForm.name # NoText
       [] dlgKind = "job"   -> dlgForm.agent # NoText /\ dlgForm.bin # NoText
       [] dlgKind = "pull"  -> dlgForm.ref # NoText
  /\ dlgCall' = <<[form |-> dlgForm,
                   request |-> CASE dlgKind = "image" -> ImageRequest(dlgForm)
                                 [] dlgKind = "job"   -> JobRequest(dlgForm)
                                 [] dlgKind = "pull"  -> dlgForm]>>
  /\ UNCHANGED <<dlgKind, dlgWorld, dlgSeen, dlgOpen, dlgForm, dlgAt, dlgLeft, dlgOps>>

(* Mutant: a success only closes the dialog.                               *)
SettleKeeping == UNCHANGED dlgForm

(* What a success makes of the form.                                       *)
Settle ==
  dlgForm' = IF dlgKind = "image" THEN dlgForm ELSE BlankForm(dlgKind, dlgSeen)

(* The page a success leads to: that of the job, or of the agent that the  *)
(* name field says by now.                                                 *)
PageAfter(call) ==
  CASE dlgKind = "pull"  -> "here"
    [] dlgKind = "job"   -> "started"
    [] dlgKind = "image" -> IF dlgForm.name = call.request.name THEN "started" ELSE "elsewhere"

(* The answer: the dialog is closed, open again or not, and a page follows *)
(* that shows what was started, unless the name was edited meanwhile.      *)
RequestDone ==
  /\ dlgCall # <<>>
  /\ dlgCall' = <<>>
  /\ \/ /\ dlgOpen' = FALSE
        /\ dlgLeft' = "done"
        /\ Settle
        /\ dlgAt' = PageAfter(dlgCall[1])
     \/ UNCHANGED <<dlgOpen, dlgLeft, dlgForm, dlgAt>>
  /\ UNCHANGED <<dlgKind, dlgWorld, dlgSeen, dlgOps>>

(* Back from there; the dialog is mounted anew.                            *)
ComeBack ==
  /\ dlgAt # "here" /\ CountDialogOp
  /\ dlgAt' = "here"
  /\ dlgOpen' = FALSE
  /\ dlgForm' = BlankForm(dlgKind, dlgSeen)
  /\ UNCHANGED <<dlgKind, dlgWorld, dlgSeen, dlgCall, dlgLeft>>

(* The tag is moved to another image.                                      *)
WorldMoves ==
  /\ dlgKind = "image" /\ CountDialogOp
  /\ \E k \in EnvKeys : dlgWorld' = [dlgWorld EXCEPT ![k] = IF @ = "default" THEN "mine" ELSE "default"]
  /\ UNCHANGED <<dlgKind, dlgSeen, dlgOpen, dlgForm, dlgCall, dlgAt, dlgLeft>>

DialogNext ==
  \/ OpenDialog \/ DismissDialog \/ CancelDialog
  \/ EditForm \/ FetchWorld \/ WorldMoves
  \/ SubmitDialog \/ RequestDone \/ ComeBack

-----------------------------------------------------------------------------
(* Properties.                                                             *)

DialogTypeOK ==
  /\ dlgKind \in Kinds
  /\ dlgOpen \in BOOLEAN
  /\ dlgAt \in {"here", "started", "elsewhere"}
  /\ dlgLeft \in {"never", "dismissed", "cancelled", "done"}
  /\ dlgKind = "image" =>
       \A i \in DOMAIN dlgForm.rows :
         /\ dlgForm.rows[i].value \in EnvValues
         /\ dlgForm.rows[i].origin = "declared" => dlgForm.rows[i].key \in EnvKeys

(* What a list of rows makes of an environment: later rows win.            *)
EnvWith(envs, rows) ==
  [k \in EnvKeys |->
     LET i == SelectLastInSeq(rows, LAMBDA r : r.key = k) IN
     IF i = 0 THEN envs[k] ELSE rows[i].value]

(* The environment of a new agent: the image's, then the overrides.        *)
AgentEnv(envs, overrides) == EnvWith(envs, overrides)

(* What the rows of the form say.                                          *)
FormEnv(rows) == EnvWith([k \in EnvKeys |-> "none"], rows)

(* An agent gets the environment its dialog showed: rows left at the       *)
(* default, cleared, changed, added, or naming a declared key again.  (If  *)
(* the tag still means the image whose defaults were shown.)               *)
AgentGetsWhatWasShown ==
  dlgKind = "image" /\ dlgCall # <<>>
  /\ (\A i \in DOMAIN dlgCall[1].form.rows : LET r == dlgCall[1].form.rows[i] IN
        r.origin = "declared" => dlgWorld[r.key] = r.default)
  /\ (\A k \in EnvKeys : dlgWorld[k] # "none" =>
        \E i \in DOMAIN dlgCall[1].form.rows : dlgCall[1].form.rows[i].key = k)
  => AgentEnv(dlgWorld, dlgCall[1].request.envs) = FormEnv(dlgCall[1].form.rows)

(* What a success has answered is not in the form again, however often the *)
(* dialog was closed, opened and filled meanwhile: a closed dialog holds   *)
(* something only if the operator left it so, by the Cancel button or, of  *)
(* an image and of a pull, by dismissing it.  Cancel also works while a    *)
(* job or a pull is on its way, so until its answer, and after a failure,  *)
(* the form that was submitted may be met again.                           *)
OnlyLeavingKeepsForm ==
  ~dlgOpen /\ dlgAt = "here" /\ dlgForm # BlankForm(dlgKind, dlgSeen)
    => \/ dlgLeft = "cancelled"
       \/ dlgKind # "job" /\ dlgLeft = "dismissed"
=============================================================================

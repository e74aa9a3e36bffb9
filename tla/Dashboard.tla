-------------------------------- MODULE Dashboard --------------------------------
(***************************************************************************)
(* The web UI in one behaviour: the operator is on one route of it, and    *)
(* the component drawn there runs against the daemon.  Components of two   *)
(* routes share nothing but the query cache, whose entries each of them    *)
(* has of its own; what somebody else changes on the daemon meanwhile,     *)
(* another tab of the browser included, is in the components.              *)
(*                                                                         *)
(* Source: components/providers/query-provider.tsx, and the sources of     *)
(* the modules extended.                                                   *)
(***************************************************************************)
EXTENDS GrantPanels, NotesPanel, AgentPage, ProviderPages, RunDialogs, NewAgent, ImagePages,
        PromptInput, JobPage, Overview, CodeBlock

CONSTANT Routes   (* the routes a run looks at                             *)

ASSUME WebAssumption ==
  Routes \subseteq {"grants", "notes", "agent", "providers", "dialogs", "new agent", "images",
                   "prompt", "job", "home", "code"}

VARIABLE route

webVars == <<route, grantVars, noteVars, agentVars, provVars, dlgVars, newVars, imgVars,
             promptVars, jobPageVars, homeVars, codeVars>>

(* Off its route a component stays in one of its initial states.           *)
WebInit ==
  /\ route \in Routes
  /\ GrantInit /\ (route # "grants" => grantDraft = {})
  /\ NoteInit
  /\ AgentPageInit /\ (route # "agent" => agentStatus = "ready" /\ agentSessions = {})
  /\ ProvInit /\ (route # "providers" => \A n \in ProviderNames : provFile[n].key = "${VAR}")
  /\ DialogInit /\ (route # "dialogs" => dlgKind = "pull")
  /\ NewInit
  /\ ImgInit /\ (route # "images" => imgExecutor = "system")
  /\ PromptInit
  /\ JobPageInit
  /\ HomeInit
  /\ CodeInit

-----------------------------------------------------------------------------
OnGrantRoute(A) ==
  /\ route = "grants" /\ A
  /\ UNCHANGED <<route, noteVars, agentVars, provVars, dlgVars, newVars,
                 imgVars, promptVars, jobPageVars, homeVars, codeVars>>

OnNoteRoute(A) ==
  /\ route = "notes" /\ A
  /\ UNCHANGED <<route, grantVars, agentVars, provVars, dlgVars, newVars,
                 imgVars, promptVars, jobPageVars, homeVars, codeVars>>

OnAgentRoute(A) ==
  /\ route = "agent" /\ A
  /\ UNCHANGED <<route, grantVars, noteVars, provVars, dlgVars, newVars,
                 imgVars, promptVars, jobPageVars, homeVars, codeVars>>

OnProviderRoute(A) ==
  /\ route = "providers" /\ A
  /\ UNCHANGED <<route, grantVars, noteVars, agentVars, dlgVars, newVars,
                 imgVars, promptVars, jobPageVars, homeVars, codeVars>>

OnDialogRoute(A) ==
  /\ route = "dialogs" /\ A
  /\ UNCHANGED <<route, grantVars, noteVars, agentVars, provVars, newVars,
                 imgVars, promptVars, jobPageVars, homeVars, codeVars>>

OnNewRoute(A) ==
  /\ route = "new agent" /\ A
  /\ UNCHANGED <<route, grantVars, noteVars, agentVars, provVars, dlgVars,
                 imgVars, promptVars, jobPageVars, homeVars, codeVars>>

OnImageRoute(A) ==
  /\ route = "images" /\ A
  /\ UNCHANGED <<route, grantVars, noteVars, agentVars, provVars, dlgVars,
                 newVars, promptVars, jobPageVars, homeVars, codeVars>>

OnPromptRoute(A) ==
  /\ route = "prompt" /\ A
  /\ UNCHANGED <<route, grantVars, noteVars, agentVars, provVars, dlgVars,
                 newVars, imgVars, jobPageVars, homeVars, codeVars>>

OnJobRoute(A) ==
  /\ route = "job" /\ A
  /\ UNCHANGED <<route, grantVars, noteVars, agentVars, provVars, dlgVars,
                 newVars, imgVars, promptVars, homeVars, codeVars>>

OnHomeRoute(A) ==
  /\ route = "home" /\ A
  /\ UNCHANGED <<route, grantVars, noteVars, agentVars, provVars, dlgVars,
                 newVars, imgVars, promptVars, jobPageVars, codeVars>>

OnCodeRoute(A) ==
  /\ route = "code" /\ A
  /\ UNCHANGED <<route, grantVars, noteVars, agentVars, provVars, dlgVars,
                 newVars, imgVars, promptVars, jobPageVars, homeVars>>

WebNext ==
  \/ OnGrantRoute(GrantNext)
  \/ OnNoteRoute(NoteNext)
  \/ OnAgentRoute(AgentPageNext)
  \/ OnProviderRoute(ProvNext)
  \/ OnDialogRoute(DialogNext)
  \/ OnNewRoute(NewNext)
  \/ OnImageRoute(ImgNext)
  \/ OnPromptRoute(PromptNext)
  \/ OnJobRoute(JobPageNext)
  \/ OnHomeRoute(HomeNext)
  \/ OnCodeRoute(CodeNext)

(* The query client repeats every query that is drawn each few seconds     *)
(* (refetchInterval), whatever else happens.                               *)
Refetch ==
  \/ OnGrantRoute(RefetchGrants(grantTab))
  \/ OnAgentRoute(FetchAgents \/ FetchSessions)
  \/ OnJobRoute(FetchJob)

(* Besides, the daemon's goroutines and tickers run.  Users need not do    *)
(* anything, nor a mutation be answered before the next.                   *)
WebFairness ==
  /\ WF_webVars(Refetch)
  /\ WF_webVars(OnCodeRoute(CodeSettles))
  /\ WF_webVars(OnJobRoute(WatchTick /\ UNCHANGED jobPageOnly))
  /\ WF_webVars(OnJobRoute(Flusher /\ UNCHANGED <<watchVars, jobPageOnly>>))
  /\ WF_webVars(OnJobRoute(Closer /\ UNCHANGED <<watchVars, jobPageOnly>>))

WebSpec == WebInit /\ [][WebNext]_webVars /\ WebFairness

-----------------------------------------------------------------------------
(* The sets the variables of the component on screen stay in.              *)
WebTypeOK ==
  CASE route = "grants"    -> GrantTypeOK
    [] route = "notes"     -> NoteTypeOK
    [] route = "agent"     -> AgentPageTypeOK
    [] route = "providers" -> ProvTypeOK
    [] route = "dialogs"   -> DialogTypeOK
    [] route = "new agent" -> NewTypeOK
    [] route = "images"    -> ImgTypeOK
    [] route = "prompt"    -> PromptTypeOK
    [] route = "job"       -> JobPageTypeOK
    [] route = "home"      -> HomeTypeOK
    [] route = "code"      -> CodeTypeOK

(* What the operator looks at follows the daemon by the refetch interval   *)
(* alone: the panel of grants gets to show what it is answered, the page   *)
(* of an agent its sessions, and that of one that is gone is left.         *)
PagesCatchUp ==
  []<>(PanelIsCurrent /\ RemovedIsLeft /\ (route = "agent" => SessionsAreListed))

(* Nobody waits for ever: whoever looks at a job learns of its end, and a  *)
(* block of code that waits for its tokens is answered.                    *)
ObserversLearnTheEnd == []<>(EndIsKnown /\ CodeAnswered)

(* Nothing is shown under the name of another: the body of a note, the     *)
(* tokens of a text.                                                       *)
NothingForeign == NoForeignBody /\ OwnCode

(* What was submitted is what starts, with the environment that was on     *)
(* screen; and a closed dialog holds no form the operator did not leave    *)
(* there, none that a success has answered above all.                      *)
DialogsKeepFaith ==
  /\ route = "dialogs" => AgentGetsWhatWasShown /\ OnlyLeavingKeepsForm
  /\ route = "new agent" => StartsWhatWasSubmitted

(* The same things are counted alike wherever they are drawn: the tags on  *)
(* the cards, the jobs and variables of an agent, the jobs of a short list *)
(* and those it leaves out; and no card shows a status as an unknown one.  *)
CountsAddUp ==
  /\ route = "images" => CardsAddUp
  /\ route = "agent" => AgentPageAddsUp /\ (VisualFor(pageStatus) = "muted" =>
                                              pageStatus \in {"loading", "stopped"})
  /\ route = "home" => /\ ShortListsAreTheNewest /\ HomeAddsUp
                       /\ AgentsPage = "cards" =>
                            (VisualFor(AgentCard.status) = "muted" => AgentCard.status = "stopped")

(* A change of one provider touches no other, and what models are resolved *)
(* with is what the file says.                                             *)
ProvidersStandAlone == OthersKeepTheirReference /\ []RegistryFollowsFile
=============================================================================

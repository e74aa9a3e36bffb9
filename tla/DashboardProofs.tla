---------------------------- MODULE DashboardProofs ----------------------------
(***************************************************************************)
(* Proofs about the web UI in one behaviour: it behaves like each of its   *)
(* components, so what is proved of a component alone holds of it, with    *)
(* the operator on whatever route.                                         *)
(***************************************************************************)
EXTENDS Dashboard, PagesProofs, JobPageProofs

NoteSpec == NoteInit /\ [][NoteNext]_noteVars
CodeSpec == CodeInit /\ [][CodeNext]_codeVars

(* A step of the web UI is a step of the component that is on screen, and  *)
(* none of the others.                                                     *)
LEMMA WebSteps ==
  [WebNext]_webVars =>
    /\ [GrantNext]_grantVars /\ [NewNext]_newVars /\ [JobPageNext]_jobPageVars
    /\ [NoteNext]_noteVars /\ [CodeNext]_codeVars
    /\ [ProvNext]_provVars /\ [ImgNext]_imgVars /\ [PromptNext]_promptVars /\ [DialogNext]_dlgVars
    /\ [AgentPageNext]_agentVars /\ [HomeNext]_homeVars /\ UNCHANGED route
<1>1. [WebNext]_webVars => [GrantNext]_grantVars
  BY DEF WebNext, webVars, OnGrantRoute, OnNoteRoute, OnAgentRoute, OnProviderRoute, OnDialogRoute,
         OnNewRoute, OnImageRoute, OnPromptRoute, OnJobRoute, OnHomeRoute, OnCodeRoute
<1>2. [WebNext]_webVars => [NewNext]_newVars
  BY DEF WebNext, webVars, OnGrantRoute, OnNoteRoute, OnAgentRoute, OnProviderRoute, OnDialogRoute,
         OnNewRoute, OnImageRoute, OnPromptRoute, OnJobRoute, OnHomeRoute, OnCodeRoute
<1>3. [WebNext]_webVars => [JobPageNext]_jobPageVars
  BY DEF WebNext, webVars, OnGrantRoute, OnNoteRoute, OnAgentRoute, OnProviderRoute, OnDialogRoute,
         OnNewRoute, OnImageRoute, OnPromptRoute, OnJobRoute, OnHomeRoute, OnCodeRoute
<1>4. [WebNext]_webVars => [NoteNext]_noteVars
  BY DEF WebNext, webVars, OnGrantRoute, OnNoteRoute, OnAgentRoute, OnProviderRoute, OnDialogRoute,
         OnNewRoute, OnImageRoute, OnPromptRoute, OnJobRoute, OnHomeRoute, OnCodeRoute
<1>5. [WebNext]_webVars => [CodeNext]_codeVars
  BY DEF WebNext, webVars, OnGrantRoute, OnNoteRoute, OnAgentRoute, OnProviderRoute, OnDialogRoute,
         OnNewRoute, OnImageRoute, OnPromptRoute, OnJobRoute, OnHomeRoute, OnCodeRoute
<1>6. [WebNext]_webVars => [ProvNext]_provVars
  BY DEF WebNext, webVars, OnGrantRoute, OnNoteRoute, OnAgentRoute, OnProviderRoute, OnDialogRoute,
         OnNewRoute, OnImageRoute, OnPromptRoute, OnJobRoute, OnHomeRoute, OnCodeRoute
<1>7. [WebNext]_webVars => [ImgNext]_imgVars
  BY DEF WebNext, webVars, OnGrantRoute, OnNoteRoute, OnAgentRoute, OnProviderRoute, OnDialogRoute,
         OnNewRoute, OnImageRoute, OnPromptRoute, OnJobRoute, OnHomeRoute, OnCodeRoute
<1>8. [WebNext]_webVars => [PromptNext]_promptVars
  BY DEF WebNext, webVars, OnGrantRoute, OnNoteRoute, OnAgentRoute, OnProviderRoute, OnDialogRoute,
         OnNewRoute, OnImageRoute, OnPromptRoute, OnJobRoute, OnHomeRoute, OnCodeRoute
<1>9. [WebNext]_webVars => [DialogNext]_dlgVars
  BY DEF WebNext, webVars, OnGrantRoute, OnNoteRoute, OnAgentRoute, OnProviderRoute, OnDialogRoute,
         OnNewRoute, OnImageRoute, OnPromptRoute, OnJobRoute, OnHomeRoute, OnCodeRoute
<1>10. [WebNext]_webVars => [AgentPageNext]_agentVars
  BY DEF WebNext, webVars, OnGrantRoute, OnNoteRoute, OnAgentRoute, OnProviderRoute, OnDialogRoute,
         OnNewRoute, OnImageRoute, OnPromptRoute, OnJobRoute, OnHomeRoute, OnCodeRoute
<1>11. [WebNext]_webVars => [HomeNext]_homeVars
  BY DEF WebNext, webVars, OnGrantRoute, OnNoteRoute, OnAgentRoute, OnProviderRoute, OnDialogRoute,
         OnNewRoute, OnImageRoute, OnPromptRoute, OnJobRoute, OnHomeRoute, OnCodeRoute
<1>12. [WebNext]_webVars => UNCHANGED route
  BY DEF WebNext, webVars, OnGrantRoute, OnNoteRoute, OnAgentRoute, OnProviderRoute, OnDialogRoute,
         OnNewRoute, OnImageRoute, OnPromptRoute, OnJobRoute, OnHomeRoute, OnCodeRoute
<1>. QED
  BY <1>1, <1>2, <1>3, <1>4, <1>5, <1>6, <1>7, <1>8, <1>9, <1>10, <1>11, <1>12

(* The web UI behaves like each of its components, whatever route the      *)
(* operator is on (the routes under app/ share no state but the cache of   *)
(* query-provider.tsx).                                                    *)
THEOREM WebRunsItsComponents ==
  WebSpec => /\ GrantSpec /\ NewSpec /\ JobPageSpec /\ NoteSpec /\ CodeSpec
             /\ ProvSpec /\ ImgSpec /\ PromptSpec /\ DialogSpec
             /\ AgentPageSpec /\ HomeSpec
<1>1. WebInit => /\ GrantInit /\ NewInit /\ JobPageInit /\ NoteInit /\ CodeInit
                 /\ ProvInit /\ ImgInit /\ PromptInit /\ DialogInit
                 /\ AgentPageInit /\ HomeInit
  BY DEF WebInit
<1>. QED
  BY <1>1, WebSteps, PTL
  DEF WebSpec, GrantSpec, NewSpec, JobPageSpec, NoteSpec, CodeSpec,
      ProvSpec, ImgSpec, PromptSpec, DialogSpec, AgentPageSpec, HomeSpec

LEMMA RouteStays == WebSpec => [](route \in Routes)
<1>1. WebInit => route \in Routes
  BY DEF WebInit
<1>2. route \in Routes /\ [WebNext]_webVars => (route \in Routes)'
  BY WebSteps
<1>. QED
  BY <1>1, <1>2, PTL DEF WebSpec

(* Whatever route the operator is on, what is drawn there stays in its     *)
(* sets (the sources of the components).                                   *)
THEOREM WebTypeHolds == WebSpec => []WebTypeOK
<1>1. ASSUME route \in Routes, GrantTypeOK, NoteTypeOK, AgentPageTypeOK, ProvTypeOK, DialogTypeOK,
             NewTypeOK, ImgTypeOK, PromptTypeOK, JobPageTypeOK, HomeTypeOK, CodeTypeOK
      PROVE  WebTypeOK
  <2>1. route \in Routes =>
          route \in {"grants", "notes", "agent", "providers", "dialogs", "new agent", "images",
                    "prompt", "job", "home", "code"}
    BY WebAssumption DEF WebAssumption
  <2>2. CASE route \in {"grants", "notes", "agent", "providers"}
    BY <1>1, <2>2 DEF WebTypeOK
  <2>3. CASE route \in {"dialogs", "new agent", "images", "prompt"}
    BY <1>1, <2>3 DEF WebTypeOK
  <2>4. CASE route \in {"job", "home", "code"}
    BY <1>1, <2>4 DEF WebTypeOK
  <2>. QED
    BY <1>1, <2>1, <2>2, <2>3, <2>4
<1>. QED
  BY <1>1, RouteStays, WebRunsItsComponents, GrantTypeHolds, NoteTypeHolds, AgentPageTypeHolds,
     ProvTypeHolds, DialogTypeHolds, NewTypeHolds, ImgTypeHolds, PromptTypeHolds, JobPageTypeHolds,
     HomeTypeHolds, CodeTypeHolds, PTL
  DEF NoteSpec, CodeSpec

(* Whatever the operator looks at: no body of a note and no tokens appear  *)
(* under the name of another (notes-panel.tsx, code-block.tsx).            *)
THEOREM NothingForeignHolds == WebSpec => []NothingForeign
BY WebRunsItsComponents, NoForeignBodyHolds, OwnCodeHolds, PTL
   DEF NothingForeign, NoteSpec, CodeSpec

(* Whatever the operator looks at: a change of one provider touches no     *)
(* other, and what models are resolved with is what the file says          *)
(* (providers_mutations.go, providers.go).                                 *)
THEOREM ProvidersStandAloneHolds == WebSpec => ProvidersStandAlone
BY WebRunsItsComponents, OthersKeep, RegistryFollows, PTL DEF ProvidersStandAlone

(* Whatever was edited, closed, opened again or fetched meanwhile: what     *)
(* was on screen when it was submitted is what starts, and a form is found *)
(* filled again only where the operator left it without an answer          *)
(* (run-from-image-dialog.tsx, run-job-dialog.tsx,                         *)
(* pull-from-url-button.tsx, agents/new/page.tsx).                         *)
THEOREM DialogsKeepFaithHolds == WebSpec => []DialogsKeepFaith
<1>1. AgentGetsWhatWasShown /\ OnlyLeavingKeepsForm /\ StartsWhatWasSubmitted => DialogsKeepFaith
  BY DEF DialogsKeepFaith
<1>. QED
  BY <1>1, WebRunsItsComponents, AgentGetsWhatWasShownHolds, OnlyLeavingKeepsFormHolds,
     StartsWhatWasSubmittedHolds, PTL

(* A status that is drawn as an unknown one is not one of an agent that     *)
(* runs: the page of an agent says "loading" meanwhile, and a stopped      *)
(* agent is muted by intent (status-badge.tsx: visualFor).                 *)
LEMMA MutedIsKnown ==
  /\ AgentPageTypeOK => (VisualFor(pageStatus) = "muted" => pageStatus \in {"loading", "stopped"})
  /\ HomeTypeOK => (AgentsPage = "cards" =>
                       (VisualFor(AgentCard.status) = "muted" => AgentCard.status = "stopped"))
<1>1. VisualFor("starting") # "muted" /\ VisualFor("ready") # "muted"
  BY KnownTones DEF AgentStatuses
<1>2. AgentPageTypeOK => (VisualFor(pageStatus) = "muted" => pageStatus \in {"loading", "stopped"})
  <2>1. AgentPageTypeOK => pageStatus \in AgentStatuses \cup {"loading"}
    BY DEF AgentPageTypeOK
  <2>. QED
    BY <2>1, KnownTones
<1>3. ASSUME HomeTypeOK, AgentsPage = "cards", VisualFor(AgentCard.status) = "muted"
      PROVE  AgentCard.status = "stopped"
  <2>1. AgentCard.status = homeSeenAgent
    BY DEF AgentCard
  <2>2. homeSeenAgent \in {"none", "starting", "ready", "stopped"}
    BY <1>3 DEF HomeTypeOK
  <2>3. homeSeenAgent # "none"
    BY <1>3 DEF AgentsPage
  <2>. QED
    BY <1>1, <1>3, <2>1, <2>2, <2>3
<1>. QED
  BY <1>2, <1>3

(* Whatever is listed, asked for again or changed meanwhile, what is drawn *)
(* in two places agrees: every tag is on one card, every job of an agent   *)
(* counts once, a short list leaves out the oldest and says how many, and  *)
(* no status is drawn as an unknown one (image-tags.ts, view.tsx of an     *)
(* agent, session-jobs-strip.tsx, page.tsx, status-badge.tsx).             *)
THEOREM CountsAddUpHolds == WebSpec => []CountsAddUp
<1>1. ASSUME CardsAddUp, AgentPageAddsUp, AgentPageTypeOK, ShortListsAreTheNewest, HomeAddsUp, HomeTypeOK
      PROVE  CountsAddUp
  <2>1. /\ VisualFor(pageStatus) = "muted" => pageStatus \in {"loading", "stopped"}
        /\ AgentsPage = "cards" =>
             (VisualFor(AgentCard.status) = "muted" => AgentCard.status = "stopped")
    BY <1>1, MutedIsKnown
  <2>. QED
    BY <1>1, <2>1 DEF CountsAddUp
<1>. QED
  BY <1>1, WebRunsItsComponents, CardsAddUpHolds, AgentPageAddsUpHolds, AgentPageTypeHolds,
     ShortListsHold, HomeAddsUpHolds, HomeTypeHolds, PTL

(* What the components promise by themselves, the web UI promises.         *)
THEOREM WebKeepsWhatItsComponentsPromise ==
  WebSpec => /\ [](OnlyToggledChanges /\ ReviewIsWhole /\ StartsWhatWasSubmitted)
             /\ [](OutputIntact /\ ObserversSeeTheEnd)
             /\ [](PromptHolds /\ NoGhosts)
             /\ OutputGrows /\ DraftGoesWithAPrompt
BY WebRunsItsComponents, OnlyToggledChangesHolds, ReviewIsWholeHolds, StartsWhatWasSubmittedHolds,
   OutputIntactHolds, ObserversSeeTheEndHolds, OutputGrowsHolds,
   PromptHoldsAlways, DraftGoesWithAPromptHolds, NoGhostsHolds, PTL
=============================================================================

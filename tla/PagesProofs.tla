---------------------------- MODULE PagesProofs ----------------------------
(***************************************************************************)
(* Proofs about the pages of the web UI around a chat: the panels of       *)
(* grants, the page that creates an agent, the notes, the blocks of code,  *)
(* the composer of a message, the provider pages, the image pages, the     *)
(* dialogs that start something and the page of an agent; for any grants,  *)
(* names, tools, keys, notes, blocks, files, providers, tags, jobs and     *)
(* sessions, any number of edits and of changes elsewhere, and any number  *)
(* of calls under way.                                                     *)
(***************************************************************************)
EXTENDS GrantPanels, NewAgent, NotesPanel, CodeBlock, PromptInput, ProviderPages, ImagePages,
        RunDialogs, AgentPage, SequenceLemmas

-----------------------------------------------------------------------------
(* Counters and lists.                                                     *)

(* A counter below its bound.                                              *)
LEMMA OneMore == \A m \in Nat : 0 \in 0..m /\ \A n \in 0..m : n < m => n + 1 \in 0..m
OBVIOUS

LEMMA ListOfFunction ==
  ASSUME NEW S, NEW n \in Nat, NEW f \in [1..n -> S]
  PROVE  f \in Seq(S)
BY SeqDef

(* A list of some is a list of more.                                       *)
LEMMA WiderSeq == ASSUME NEW S, NEW T, S \subseteq T, NEW s \in Seq(S) PROVE s \in Seq(T)
<1>1. Len(s) \in Nat /\ s \in [1..Len(s) -> S]
  BY LenProperties
<1>2. s \in [1..Len(s) -> T]
  BY <1>1
<1>. QED
  BY <1>1, <1>2, SeqDef

-----------------------------------------------------------------------------
(* The panels of grants.                                                   *)

LEMMA GrantTypeInit == GrantInit => GrantTypeOK
BY GrantAssumption DEF GrantAssumption, GrantInit, GrantTypeOK, Panels

LEMMA GrantTypeStep == GrantTypeOK /\ [GrantNext]_grantVars => GrantTypeOK'
<1> SUFFICES ASSUME GrantTypeOK, [GrantNext]_grantVars PROVE GrantTypeOK'
  OBVIOUS
<1>. USE GrantAssumption DEF GrantTypeOK, GrantAssumption
<1>1. ASSUME NEW n \in Grants, ToggleGrant(n) PROVE GrantTypeOK'
  BY <1>1 DEF ToggleGrant, Flip
<1>2. CASE ResetGrants
  BY <1>2 DEF ResetGrants, DraftGrants, GrantsShown
<1>3. CASE SaveGrants
  BY <1>3 DEF SaveGrants
<1>4. ASSUME NEW p \in Panels, RefetchGrants(p) PROVE GrantTypeOK'
  BY <1>4 DEF RefetchGrants, DraftGrants, GrantsAnswered
<1>5. ASSUME NEW p \in Panels, OpenGrantTab(p) PROVE GrantTypeOK'
  BY <1>5 DEF OpenGrantTab, DraftGrants, GrantsShown
<1>6. ASSUME NEW p \in Panels, NEW S \in SUBSET Grants, NEW issued, KeepGrants(p, S, issued)
      PROVE  /\ grantKept' \in [Panels -> SUBSET Grants] /\ grantClaims' \subseteq Grants
             /\ grantStale' \subseteq Panels
  <2>1. grantKept' \in [Panels -> SUBSET Grants]
    BY <1>6 DEF KeepGrants
  <2>2. "capabilities" \in Panels
    BY DEF Panels
  <2>3. grantKept'["capabilities"] \subseteq Grants
    BY <2>1, <2>2
  <2>. QED
    BY <1>6, <2>1, <2>3 DEF KeepGrants
<1>7. ASSUME NEW s \in grantSaving, GrantSaveDone(s) \/ GrantSaveBreaks(s) PROVE GrantTypeOK'
  <2>1. s.panel \in Panels /\ s.set \in SUBSET Grants /\ grantKept["links"] \subseteq Grants
    BY DEF Panels
  <2>2. /\ grantSaving' = grantSaving \ {s}
        /\ UNCHANGED <<grantKnown, grantSeen, grantTab, grantDraft, grantOps, grantToggled>>
    BY <1>7 DEF GrantSaveDone, GrantSaveBreaks
  <2>3. \/ UNCHANGED <<grantKept, grantClaims, grantStale>>
        \/ \E p \in Panels, S \in SUBSET Grants, issued \in BOOLEAN : KeepGrants(p, S, issued)
    <3>1. CASE GrantSaveDone(s)
      BY <3>1, <2>1 DEF GrantSaveDone
    <3>2. CASE GrantSaveBreaks(s)
      <4>1. CASE \E issued \in BOOLEAN : KeepGrants(s.panel, s.set, issued)
        BY <4>1, <2>1
      <4>2. CASE \E T \in RowsReached(s.set) : KeepGrants("links", T, FALSE)
        <5>1. RowsReached(s.set) \subseteq SUBSET Grants /\ "links" \in Panels
          BY <2>1 DEF RowsReached, Panels
        <5>. QED
          BY <4>2, <5>1
      <4>. QED
        BY <3>2, <4>1, <4>2 DEF GrantSaveBreaks
    <3>. QED
      BY <1>7, <3>1, <3>2
  <2>4. /\ grantKept' \in [Panels -> SUBSET Grants] /\ grantClaims' \subseteq Grants
        /\ grantStale' \subseteq Panels
    BY <2>3, <1>6
  <2>. QED
    BY <2>2, <2>4
<1>8. ASSUME NEW p \in Panels, GrantsElsewhere(p) PROVE GrantTypeOK'
  <2>1. \/ \E S \in SUBSET Grants, issued \in BOOLEAN : KeepGrants(p, S, issued)
        \/ UNCHANGED <<grantKept, grantClaims>> /\ grantStale' = grantStale \cup {p}
    <3>1. ASSUME NEW n \in GrantPicks(p) PROVE Flip(grantKept[p], n) \in SUBSET Grants
      BY DEF Flip, GrantPicks
    <3>. QED
      BY <1>8, <3>1 DEF GrantsElsewhere
  <2>2. /\ grantKept' \in [Panels -> SUBSET Grants] /\ grantClaims' \subseteq Grants
        /\ grantStale' \subseteq Panels
    BY <2>1, <1>6
  <2>. QED
    BY <1>8, <2>2 DEF GrantsElsewhere
<1>9. ASSUME NEW n \in Grants, GrantAgentGone(n) PROVE GrantTypeOK'
  BY <1>9 DEF GrantAgentGone, Panels
<1>10. CASE UNCHANGED grantVars
  BY <1>10 DEF grantVars
<1>. QED
  BY <1>1, <1>2, <1>3, <1>4, <1>5, <1>7, <1>8, <1>9, <1>10
  DEF GrantNext, LinksPanel, CapabilitiesPanel, EditGrants, Panels

(* The sets the variables of the panels stay in.                           *)
THEOREM GrantTypeHolds == GrantSpec => []GrantTypeOK
BY GrantTypeInit, GrantTypeStep, PTL DEF GrantSpec

-----------------------------------------------------------------------------
(* Why the marks can be trusted: the draft differs from the answer it was  *)
(* taken from by the toggles alone.  Every step that gives the panel       *)
(* another answer, or another panel, takes a new draft.                    *)
GrantDiff(S, T) == (S \ T) \cup (T \ S)

DraftIsToggled == grantToggled = GrantDiff(grantDraft, grantSeen[grantTab])

LEMMA DraftStep ==
  GrantTypeOK /\ DraftIsToggled /\ [GrantNext]_grantVars => DraftIsToggled'
<1> SUFFICES ASSUME GrantTypeOK, DraftIsToggled, [GrantNext]_grantVars PROVE DraftIsToggled'
  OBVIOUS
<1>. USE DEF DraftIsToggled, GrantDiff
<1>1. ASSUME NEW n \in Grants, ToggleGrant(n) PROVE DraftIsToggled'
  BY <1>1 DEF ToggleGrant, Flip
<1>2. CASE ResetGrants
  BY <1>2 DEF ResetGrants, DraftGrants, GrantsShown
<1>3. CASE SaveGrants
  BY <1>3 DEF SaveGrants
<1>4. ASSUME NEW p \in Panels, RefetchGrants(p) PROVE DraftIsToggled'
  BY <1>4 DEF RefetchGrants, DraftGrants, GrantTypeOK
<1>5. ASSUME NEW p \in Panels, OpenGrantTab(p) PROVE DraftIsToggled'
  BY <1>5 DEF OpenGrantTab, DraftGrants, GrantsShown
<1>6. ASSUME NEW s \in grantSaving, GrantSaveDone(s) \/ GrantSaveBreaks(s) PROVE DraftIsToggled'
  BY <1>6 DEF GrantSaveDone, GrantSaveBreaks
<1>7. ASSUME NEW p \in Panels, GrantsElsewhere(p) PROVE DraftIsToggled'
  BY <1>7 DEF GrantsElsewhere
<1>8. ASSUME NEW n \in Grants, GrantAgentGone(n) PROVE DraftIsToggled'
  BY <1>8 DEF GrantAgentGone
<1>9. CASE UNCHANGED grantVars
  BY <1>9 DEF grantVars
<1>. QED
  BY <1>1, <1>2, <1>3, <1>4, <1>5, <1>6, <1>7, <1>8, <1>9
  DEF GrantNext, LinksPanel, CapabilitiesPanel, EditGrants, Panels

(* A card is marked as pending exactly when its grant is in one of the     *)
(* draft and the answer.                                                   *)
LEMMA MarkedRows ==
  ASSUME NEW n \in Grants
  PROVE  GrantRow(n) \in {"pending add", "pending remove"}
           <=> n \in GrantDiff(grantDraft, GrantsShown(IF grantTab = "links" THEN "links"
                                                       ELSE "capabilities"))
BY DEF GrantRow, LinkRow, CapabilityRow, GrantCard, GrantDiff

(* Save undoes nothing that was granted or revoked elsewhere and already   *)
(* shown: what the panel marks is what the operator toggled.               *)
THEOREM OnlyToggledChangesHolds == GrantSpec => []OnlyToggledChanges
<1>1. GrantInit => DraftIsToggled
  BY DEF GrantInit, DraftIsToggled, GrantDiff, Panels
<1>2. GrantTypeOK /\ DraftIsToggled => OnlyToggledChanges
  <2> SUFFICES ASSUME GrantTypeOK, DraftIsToggled PROVE OnlyToggledChanges
    OBVIOUS
  <2>1. grantTab = (IF grantTab = "links" THEN "links" ELSE "capabilities")
    BY DEF GrantTypeOK, Panels
  <2>2. \A n \in Grants :
          GrantRow(n) \in {"pending add", "pending remove"} <=> n \in grantToggled
    BY <2>1, MarkedRows DEF DraftIsToggled, GrantsShown
  <2>3. grantToggled \subseteq Grants
    BY DEF GrantTypeOK
  <2>. QED
    BY <2>2, <2>3 DEF OnlyToggledChanges
<1>. QED
  BY <1>1, <1>2, DraftStep, GrantTypeInit, GrantTypeStep, PTL DEF GrantSpec

-----------------------------------------------------------------------------
(* The page that creates an agent.                                         *)
(* A wizard's answers have these fields, whatever is in them.              *)
StateFields == {"model", "name", "soul", "bins", "envs"}
HasFields(s) == DOMAIN s = StateFields /\ s = [f \in StateFields |-> s[f]]

(* A step is left forwards only when it is answered, and its answers are   *)
(* not touched from the steps after it.                                    *)
StepsAnswered ==
  /\ newStep \in 0..LastStep
  /\ HasFields(newState)
  /\ newStep > 0 => BasicsValid
  /\ newStep > 1 => SoulValid
  /\ newStep > 3 => EnvsValid

LEMMA BlankHasFields == HasFields(BlankState)
BY DEF HasFields, BlankState, StateFields

LEMMA StepsInit == NewInit => StepsAnswered
BY BlankHasFields DEF NewInit, StepsAnswered, LastStep

(* An answer of a field leaves the others.                                 *)
LEMMA OneField ==
  ASSUME NEW s, HasFields(s), NEW f \in StateFields, NEW v
  PROVE  /\ HasFields([s EXCEPT ![f] = v])
         /\ \A g \in StateFields \ {f} : [s EXCEPT ![f] = v][g] = s[g]
BY DEF HasFields

LEMMA StepsStep == StepsAnswered /\ [NewNext]_newVars => StepsAnswered'
<1> SUFFICES ASSUME StepsAnswered, [NewNext]_newVars PROVE StepsAnswered'
  OBVIOUS
<1>. USE DEF StepsAnswered, LastStep
<1>1. CASE BasicsStep
  <2>1. newStep = 0 /\ newStep' = 0
    BY <1>1 DEF BasicsStep, AtStep, UNCHANGEDButState
  <2>2. PICK n : newState' \in {[newState EXCEPT !.name = n], [newState EXCEPT !.model = "m"]}
    BY <1>1 DEF BasicsStep
  <2>3. HasFields(newState')
    BY <2>2, OneField DEF StateFields
  <2>. QED
    BY <2>1, <2>3
<1>2. CASE SoulStep
  <2>1. newStep = 1 /\ newStep' = 1
    BY <1>2 DEF SoulStep, AtStep, UNCHANGEDButState
  <2>2. PICK v : newState' = [newState EXCEPT !.soul = v]
    BY <1>2 DEF SoulStep
  <2>3. /\ HasFields(newState')
        /\ newState'.model = newState.model /\ newState'.name = newState.name
    BY <2>2, OneField DEF StateFields
  <2>4. BasicsValid => BasicsValid'
    BY <2>3 DEF BasicsValid
  <2>. QED
    BY <2>1, <2>3, <2>4
<1>3. CASE BinsStep
  <2>1. newStep = 2 /\ newStep' = 2
    BY <1>3 DEF BinsStep, AtStep, UNCHANGEDButState
  <2>2. PICK v : newState' = [newState EXCEPT !.bins = v]
    BY <1>3 DEF BinsStep, ToggleBin, RenameBin
  <2>3. /\ HasFields(newState')
        /\ newState'.model = newState.model /\ newState'.name = newState.name
        /\ newState'.soul = newState.soul
    BY <2>2, OneField DEF StateFields
  <2>4. (BasicsValid => BasicsValid') /\ (SoulValid => SoulValid')
    BY <2>3 DEF BasicsValid, SoulValid
  <2>. QED
    BY <2>1, <2>3, <2>4
<1>4. CASE EnvsStep
  <2>1. newStep = 3 /\ newStep' = 3
    BY <1>4 DEF EnvsStep, AtStep, UNCHANGEDButState
  <2>2. PICK v : newState' = [newState EXCEPT !.envs = v]
    BY <1>4 DEF EnvsStep, AddEnv, UpdateEnv, RemoveEnv
  <2>3. /\ HasFields(newState')
        /\ newState'.model = newState.model /\ newState'.name = newState.name
        /\ newState'.soul = newState.soul
    BY <2>2, OneField DEF StateFields
  <2>4. (BasicsValid => BasicsValid') /\ (SoulValid => SoulValid')
    BY <2>3 DEF BasicsValid, SoulValid
  <2>. QED
    BY <2>1, <2>3, <2>4
<1>5. CASE NextStep
  <2>1. newStep < 4 /\ newStep' = newStep + 1 /\ newState' = newState /\ StepValid(newStep)
    BY <1>5 DEF NextStep
  <2>2. newStep = 0 => BasicsValid
    BY <2>1 DEF StepValid
  <2>3. newStep = 1 => SoulValid
    BY <2>1 DEF StepValid
  <2>4. newStep = 3 => EnvsValid
    BY <2>1 DEF StepValid
  <2>5. BasicsValid' = BasicsValid /\ SoulValid' = SoulValid /\ EnvsValid' = EnvsValid
    BY <2>1 DEF BasicsValid, SoulValid, EnvsValid
  <2>. QED
    BY <2>1, <2>2, <2>3, <2>4, <2>5
<1>6. CASE BackStep
  <2>1. newStep > 0 /\ newStep' = newStep - 1 /\ newState' = newState
    BY <1>6 DEF BackStep
  <2>2. BasicsValid' = BasicsValid /\ SoulValid' = SoulValid /\ EnvsValid' = EnvsValid
    BY <2>1 DEF BasicsValid, SoulValid, EnvsValid
  <2>. QED
    BY <2>1, <2>2
<1>7. CASE FreshPage
  BY <1>7, BlankHasFields DEF FreshPage
<1>8. CASE UNCHANGED <<newStep, newState>>
  BY <1>8 DEF BasicsValid, SoulValid, EnvsValid
<1>9. ASSUME NewNext,
             ~(BasicsStep \/ SoulStep \/ BinsStep \/ EnvsStep \/ NextStep \/ BackStep)
      PROVE  FreshPage \/ UNCHANGED <<newStep, newState>>
  BY <1>9 DEF NewNext, EditorTab, LeaveNew, ReturnNew, OpenNewTab, SubmitWizard, SubmitEditor,
              Submit, BuildDone, CreateDone, SubmitFails, RegistryMoves
<1>10. UNCHANGED newVars => UNCHANGED <<newStep, newState>>
  BY DEF newVars
<1>. QED
  BY <1>1, <1>2, <1>3, <1>4, <1>5, <1>6, <1>7, <1>8, <1>9, <1>10

(* Whoever gets to the review has answered every step, in whatever order   *)
(* the steps were visited, and no row of the environment is missing from   *)
(* the file.                                                               *)
THEOREM ReviewIsWholeHolds == NewSpec => []ReviewIsWhole
<1>1. StepsAnswered => ReviewIsWhole
  <2> SUFFICES ASSUME StepsAnswered, newStep = LastStep
               PROVE  /\ BasicsValid /\ SoulValid
                      /\ \A i \in DOMAIN newState.envs :
                           newState.envs[i].key # "" => Declared(newState.envs[i])
    BY DEF ReviewIsWhole
  <2>1. BasicsValid /\ SoulValid /\ EnvsValid
    BY DEF StepsAnswered, LastStep
  <2>. QED
    BY <2>1 DEF EnvsValid, Declared
<1>. QED
  BY <1>1, StepsInit, StepsStep, PTL DEF NewSpec

-----------------------------------------------------------------------------
(* Why the right agent starts although BuildAgent and CreateAgent share a  *)
(* name only: a submission between the two either finds its own file under *)
(* its tag or knows that the tag has moved.                                *)
Named(file) == file.name \in AgentNames \cup {""}

KnownCalls(files) == [file : files, ref : AgentNames \cup {""}, here : BOOLEAN, moved : BOOLEAN]
IsCall(c) == \E f : Named(f) /\ c \in KnownCalls({f})

FindsItsFile(c, tags) == c.ref # "" /\ ~c.moved => tags[c.ref] = c.file

CallsKnow ==
  /\ DOMAIN newTags = AgentNames
  /\ HasFields(newState) /\ Named(newState)
  /\ newText # Blank => Named(newText)
  /\ \A c \in newCalls : IsCall(c) /\ FindsItsFile(c, newTags)

LEMMA EditedCall ==
  ASSUME NEW c, IsCall(c)
  PROVE  LET d == [c EXCEPT !.moved = TRUE]
             e == [c EXCEPT !.here = FALSE]
             g == [c EXCEPT !.ref = c.file.name]
         IN  /\ IsCall(d) /\ d.file = c.file /\ d.ref = c.ref /\ d.moved
             /\ IsCall(e) /\ e.file = c.file /\ e.ref = c.ref /\ e.moved = c.moved
             /\ IsCall(g) /\ g.file = c.file /\ g.ref = c.file.name /\ g.moved = c.moved
<1>1. PICK f : Named(f) /\ c \in KnownCalls({f})
  BY DEF IsCall
<1>2. /\ c.file = f
      /\ f.name \in AgentNames \cup {""}
  BY <1>1 DEF KnownCalls, Named
<1>3. /\ [c EXCEPT !.moved = TRUE] \in KnownCalls({f})
      /\ [c EXCEPT !.here = FALSE] \in KnownCalls({f})
      /\ [c EXCEPT !.ref = c.file.name] \in KnownCalls({f})
  BY <1>1, <1>2 DEF KnownCalls
<1>. QED
  BY <1>1, <1>2, <1>3 DEF IsCall, KnownCalls

(* A tag gets another file: the calls that wait for it learn of it.        *)
LEMMA RetagKeeps ==
  ASSUME NEW n \in AgentNames, NEW file, NEW calls, Retag(n, file, calls),
         DOMAIN newTags = AgentNames,
         \A c \in calls : IsCall(c) /\ (FindsItsFile(c, newTags) \/ c.ref = n)
  PROVE  /\ DOMAIN newTags' = AgentNames
         /\ \A c \in newCalls' : IsCall(c) /\ FindsItsFile(c, newTags')
<1>1. newTags' = [newTags EXCEPT ![n] = file]
  BY DEF Retag
<1>2. DOMAIN newTags' = AgentNames /\ newTags'[n] = file
  BY <1>1
<1>3. ASSUME NEW d \in newCalls' PROVE IsCall(d) /\ FindsItsFile(d, newTags')
  <2>1. PICK c \in calls :
          d = IF c.ref = n /\ c.file # file THEN [c EXCEPT !.moved = TRUE] ELSE c
    BY <1>3 DEF Retag
  <2>2. CASE c.ref = n /\ c.file # file
    BY <2>1, <2>2, EditedCall DEF FindsItsFile
  <2>3. CASE c.ref = n /\ c.file = file
    BY <2>1, <2>3, <1>2 DEF FindsItsFile
  <2>4. CASE c.ref # n
    <3>1. d = c /\ FindsItsFile(c, newTags)
      BY <2>1, <2>4
    <3>2. c.ref # "" => c.ref \in AgentNames
      BY DEF IsCall, KnownCalls
    <3>3. c.ref # "" => newTags'[c.ref] = newTags[c.ref]
      BY <1>1, <2>4, <3>2
    <3>. QED
      BY <3>1, <3>3 DEF FindsItsFile
  <2>. QED
    BY <2>2, <2>3, <2>4
<1>. QED
  BY <1>2, <1>3

LEMMA CallsStep == CallsKnow /\ [NewNext]_newVars => CallsKnow'
<1> SUFFICES ASSUME CallsKnow, [NewNext]_newVars PROVE CallsKnow'
  OBVIOUS
<1>. USE DEF CallsKnow
<1>1. ASSUME UNCHANGED <<newCalls, newTags>> PROVE
        \A c \in newCalls' : IsCall(c) /\ FindsItsFile(c, newTags')
  BY <1>1
<1>2. ASSUME UNCHANGEDButState, NEW f \in StateFields, NEW v,
             newState' = [newState EXCEPT ![f] = v], f = "name" => v \in AgentNames \cup {""}
      PROVE  CallsKnow'
  <2>1. HasFields(newState') /\ Named(newState')
    BY <1>2, OneField DEF Named, StateFields, HasFields
  <2>. QED
    BY <1>1, <1>2, <2>1 DEF UNCHANGEDButState
<1>3. CASE BasicsStep
  <2>1. CASE \E n \in AgentNames \cup {""} : newState' = [newState EXCEPT !.name = n]
    BY <1>2, <1>3, <2>1 DEF BasicsStep, StateFields
  <2>2. CASE newState' = [newState EXCEPT !.model = "m"]
    BY <1>2, <1>3, <2>2 DEF BasicsStep, StateFields
  <2>. QED
    BY <1>3, <2>1, <2>2 DEF BasicsStep
<1>4. CASE SoulStep
  BY <1>2, <1>4 DEF SoulStep, StateFields
<1>5. CASE BinsStep
  <2>1. PICK v : newState' = [newState EXCEPT !.bins = v]
    BY <1>5 DEF BinsStep, ToggleBin, RenameBin
  <2>. QED
    BY <1>2, <1>5, <2>1 DEF BinsStep, StateFields
<1>6. CASE EnvsStep
  <2>1. PICK v : newState' = [newState EXCEPT !.envs = v]
    BY <1>6 DEF EnvsStep, AddEnv, UpdateEnv, RemoveEnv
  <2>. QED
    BY <1>2, <1>6, <2>1 DEF EnvsStep, StateFields
<1>7. CASE NextStep \/ BackStep \/ ReturnNew
           \/ \E t \in {"wizard", "editor", "catalog"} : OpenNewTab(t)
  BY <1>1, <1>7 DEF NextStep, BackStep, ReturnNew, OpenNewTab
<1>8. CASE EditorTab
  <2>1. \A n \in AgentNames : Named(Template(n))
    BY DEF Named, Template, AgentFile, BlankState
  <2>. QED
    BY <1>1, <1>8, <2>1 DEF EditorTab
<1>9. ASSUME FreshPage PROVE HasFields(newState') /\ Named(newState') /\ newText' = Blank
  BY <1>9, BlankHasFields DEF FreshPage, Named, BlankState
<1>10. ASSUME NEW calls \in SUBSET newCalls,
              newCalls' = {[c EXCEPT !.here = FALSE] : c \in calls}, newTags' = newTags
       PROVE  \A c \in newCalls' : IsCall(c) /\ FindsItsFile(c, newTags')
  <2> SUFFICES ASSUME NEW d \in newCalls' PROVE IsCall(d) /\ FindsItsFile(d, newTags')
    OBVIOUS
  <2>1. PICK c \in calls : d = [c EXCEPT !.here = FALSE]
    BY <1>10
  <2>2. IsCall(c) /\ FindsItsFile(c, newTags)
    OBVIOUS
  <2>3. IsCall(d) /\ d.file = c.file /\ d.ref = c.ref /\ d.moved = c.moved
    BY <2>1, <2>2, EditedCall
  <2>. QED
    BY <1>10, <2>2, <2>3 DEF FindsItsFile
<1>11. CASE LeaveNew
  BY <1>9, <1>10, <1>11 DEF LeaveNew
<1>12. ASSUME NEW file, Named(file), Submit(file) PROVE CallsKnow'
  <2>1. IsCall([file |-> file, ref |-> "", here |-> TRUE, moved |-> FALSE])
    BY <1>12 DEF IsCall, KnownCalls
  <2>2. FindsItsFile([file |-> file, ref |-> "", here |-> TRUE, moved |-> FALSE], newTags)
    BY DEF FindsItsFile
  <2>3. \A c \in newCalls' : IsCall(c) /\ FindsItsFile(c, newTags')
    BY <1>12, <2>1, <2>2 DEF Submit
  <2>. QED
    BY <1>12, <2>3 DEF Submit
<1>13. CASE SubmitWizard
  <2>1. Named(AgentFile(newState))
    BY DEF Named, AgentFile
  <2>. QED
    BY <1>12, <1>13, <2>1 DEF SubmitWizard
<1>14. CASE SubmitEditor
  BY <1>12, <1>14 DEF SubmitEditor
<1>15. ASSUME NEW c \in newCalls, BuildDone(c) PROVE CallsKnow'
  <2>1. c.file.name \in AgentNames
    BY <1>15 DEF BuildDone, IsCall, KnownCalls, Named
  <2> DEFINE calls == (newCalls \ {c}) \cup {[c EXCEPT !.ref = c.file.name]}
  <2>2. \A d \in calls : IsCall(d) /\ (FindsItsFile(d, newTags) \/ d.ref = c.file.name)
    BY EditedCall
  <2>3. Retag(c.file.name, c.file, calls)
    BY <1>15 DEF BuildDone
  <2>. HIDE DEF calls
  <2>. QED
    BY <1>15, <2>1, <2>2, <2>3, RetagKeeps DEF BuildDone
<1>16. ASSUME NEW c \in newCalls, CreateDone(c) PROVE CallsKnow'
  BY <1>9, <1>10, <1>16 DEF CreateDone
<1>17. ASSUME NEW c \in newCalls, SubmitFails(c) PROVE CallsKnow'
  BY <1>17 DEF SubmitFails
<1>18. CASE RegistryMoves
  <2>1. UNCHANGED <<newState, newText>>
    BY <1>18 DEF RegistryMoves
  <2>2. ASSUME NEW n \in AgentNames, NEW file, Retag(n, file, newCalls) PROVE CallsKnow'
    BY <2>1, <2>2, RetagKeeps
  <2>3. CASE UNCHANGED <<newTags, newCalls>>
    BY <1>1, <2>1, <2>3
  <2>. QED
    BY <1>18, <2>2, <2>3 DEF RegistryMoves
<1>19. CASE UNCHANGED newVars
  BY <1>1, <1>19 DEF newVars
<1>. QED
  BY <1>3, <1>4, <1>5, <1>6, <1>7, <1>8, <1>11, <1>13, <1>14, <1>15, <1>16, <1>17, <1>18, <1>19
  DEF NewNext

LEMMA AgentsStep ==
  CallsKnow /\ StartsWhatWasSubmitted /\ [NewNext]_newVars => StartsWhatWasSubmitted'
<1> SUFFICES ASSUME CallsKnow, StartsWhatWasSubmitted, [NewNext]_newVars
             PROVE  StartsWhatWasSubmitted'
  OBVIOUS
<1>1. ASSUME NEW c \in newCalls, CreateDone(c) PROVE StartsWhatWasSubmitted'
  <2>1. ~c.moved => newTags[c.ref] = c.file
    BY <1>1 DEF CreateDone, CallsKnow, FindsItsFile
  <2>2. newAgents' = newAgents \cup {[asked |-> c.file, got |-> newTags[c.ref],
                                      moved |-> c.moved, name |-> "generated"]}
    BY <1>1 DEF CreateDone
  <2>. QED
    BY <2>1, <2>2 DEF StartsWhatWasSubmitted
<1>2. CASE UNCHANGED newAgents
  BY <1>2 DEF StartsWhatWasSubmitted
<1>3. NewNext => UNCHANGED newAgents \/ \E c \in newCalls : CreateDone(c)
  BY DEF NewNext, BasicsStep, SoulStep, BinsStep, EnvsStep, UNCHANGEDButState, NextStep, BackStep,
         EditorTab, LeaveNew, ReturnNew, OpenNewTab, SubmitWizard, SubmitEditor, Submit,
         BuildDone, SubmitFails, RegistryMoves
<1>. QED
  BY <1>1, <1>2, <1>3 DEF newVars

(* The agent that starts is the one that was submitted, whatever is typed, *)
(* opened or submitted between its build and its start; unless its tag was *)
(* given to another build in between.                                      *)
THEOREM StartsWhatWasSubmittedHolds == NewSpec => []StartsWhatWasSubmitted
<1>1. NewInit => CallsKnow
  <2>1. Named(BlankState)
    BY DEF Named, BlankState
  <2>. QED
    BY <2>1, BlankHasFields DEF NewInit, CallsKnow
<1>2. NewInit => StartsWhatWasSubmitted
  BY DEF NewInit, StartsWhatWasSubmitted
<1>. QED
  BY <1>1, <1>2, CallsStep, AgentsStep, PTL DEF NewSpec

(* A page that is not open has nothing in its form.                        *)
LEMMA NewTypeStart == NewInit => NewTypeOK
<1> SUFFICES ASSUME NewInit PROVE NewTypeOK
  OBVIOUS
<1>1. 0 \in 0..LastStep /\ 0 \in 0..MaxNewOps
  <2>1. MaxNewOps \in Nat
    BY NewAgentAssumption, Zenon DEF NewAgentAssumption
  <2>. QED
    BY ONLY <2>1 DEF LastStep
<1>. QED
  BY <1>1 DEF NewInit, NewTypeOK

LEMMA NewTypeStep == NewTypeOK /\ [NewNext]_newVars => NewTypeOK'
<1> SUFFICES ASSUME NewTypeOK, [NewNext]_newVars PROVE NewTypeOK'
  OBVIOUS
<1>. USE DEF NewTypeOK
<1>1. MaxNewOps \in Nat /\ LastStep \in Nat /\ 0 \in 0..LastStep
  <2>1. MaxNewOps \in Nat
    BY NewAgentAssumption, Zenon DEF NewAgentAssumption
  <2>. QED
    BY ONLY <2>1 DEF LastStep
<1>2. CountNewOp => newOps' \in 0..MaxNewOps
  BY <1>1, OneMore DEF CountNewOp
<1>3. FreshPage => /\ newTab' = "wizard" /\ newStep' \in 0..LastStep /\ newError' \in BOOLEAN
                   /\ newState' = BlankState
  BY <1>1 DEF FreshPage
<1>4. CASE UNCHANGED newVars
  BY <1>4 DEF newVars
<1>5. CASE BasicsStep \/ SoulStep \/ BinsStep \/ EnvsStep
  <2>1. newAt = "new" /\ CountNewOp /\ UNCHANGEDButState
    BY <1>5 DEF BasicsStep, SoulStep, BinsStep, EnvsStep, AtStep
  <2>. QED
    BY <1>2, <2>1 DEF UNCHANGEDButState
<1>6. CASE NextStep
  <2>1. newStep' \in 0..LastStep
    BY <1>1, <1>6, OneMore DEF NextStep
  <2>. QED
    BY <1>6, <2>1 DEF NextStep
<1>7. CASE BackStep
  <2>1. newStep' \in 0..LastStep
    BY <1>1, <1>7 DEF BackStep
  <2>. QED
    BY <1>7, <2>1 DEF BackStep
<1>8. CASE EditorTab
  BY <1>2, <1>8 DEF EditorTab
<1>9. CASE LeaveNew
  BY <1>3, <1>9 DEF LeaveNew
<1>10. CASE ReturnNew
  BY <1>10 DEF ReturnNew
<1>11. ASSUME NEW t \in {"wizard", "editor", "catalog"}, OpenNewTab(t) PROVE NewTypeOK'
  BY <1>11 DEF OpenNewTab
<1>12. CASE SubmitWizard \/ SubmitEditor
  BY <1>12 DEF SubmitWizard, SubmitEditor, Submit
<1>13. ASSUME NEW c \in newCalls, BuildDone(c) PROVE NewTypeOK'
  BY <1>13 DEF BuildDone
<1>14. ASSUME NEW c \in newCalls, CreateDone(c) PROVE NewTypeOK'
  BY <1>3, <1>14 DEF CreateDone
<1>15. ASSUME NEW c \in newCalls, SubmitFails(c) PROVE NewTypeOK'
  <2>1. newError' \in BOOLEAN
    <3>1. newError' = (newError \/ c.here)
      BY <1>15 DEF SubmitFails
    <3>2. (newError \/ c.here) \in BOOLEAN
      BY Zenon
    <3>. QED
      BY <3>1, <3>2, Zenon
  <2>. QED
    BY <1>15, <2>1 DEF SubmitFails
<1>16. CASE RegistryMoves
  <2>1. newTools' \subseteq BinRefs
    BY <1>16 DEF RegistryMoves
  <2>. QED
    BY <1>2, <1>16, <2>1 DEF RegistryMoves
<1>. QED
  BY <1>4, <1>5, <1>6, <1>7, <1>8, <1>9, <1>10, <1>11, <1>12, <1>13, <1>14, <1>15, <1>16 DEF NewNext

(* Whatever is typed, left or answered late, a page that is not open has    *)
(* nothing in its form (agents/new/page.tsx).                              *)
THEOREM NewTypeHolds == NewSpec => []NewTypeOK
BY NewTypeStart, NewTypeStep, PTL DEF NewSpec

-----------------------------------------------------------------------------
(* The notes.                                                              *)

OwnBody(k, content) == content.of \in {k, ""}

KeptOwn ==
  /\ DOMAIN noteBody = NoteKeys
  /\ \A k \in NoteKeys : OwnBody(k, noteBody[k])

DetailsOwn ==
  /\ DOMAIN noteDetail = NoteKeys
  /\ \A k \in NoteKeys : OwnBody(k, noteDetail[k])

(* What was typed into a new note belongs to whatever key it gets.         *)
EditorOwn ==
  /\ DOMAIN noteEditor = {"open", "mode", "key", "content"}
  /\ \/ noteEditor.mode = "create" /\ noteEditor.content.of = ""
     \/ noteEditor.mode = "edit" /\ OwnBody(noteEditor.key, noteEditor.content)

SavingOwn == noteSaving # <<>> => OwnBody(noteSaving[1].key, noteSaving[1].content)

ListKnown == noteList \subseteq NoteKeys

BodiesOwned == KeptOwn /\ DetailsOwn /\ EditorOwn /\ SavingOwn /\ ListKnown

LEMMA Contents == Nothing.of = "" /\ Loading.of = "" /\ Typed.of = "" /\ \A k, n : Body(k, n).of = k
BY DEF Nothing, Loading, Typed, Body

LEMMA BodiesOwnedInit == NoteInit => BodiesOwned
<1> SUFFICES ASSUME NoteInit PROVE BodiesOwned
  OBVIOUS
<1>1. KeptOwn /\ DetailsOwn
  BY Contents DEF NoteInit, KeptOwn, DetailsOwn, OwnBody
<1>2. EditorOwn /\ SavingOwn /\ ListKnown
  BY Contents DEF NoteInit, EditorOwn, SavingOwn, ListKnown, ClosedEditor
<1>. QED
  BY <1>1, <1>2 DEF BodiesOwned

(* What is stored of a note is its own.                                    *)
LEMMA StoredIsOwn ==
  ASSUME NEW k, NEW content, StoreNote(k, content), KeptOwn
  PROVE  KeptOwn'
<1>1. DOMAIN noteBody' = NoteKeys
  BY DEF StoreNote, KeptOwn
<1>2. ASSUME NEW l \in NoteKeys PROVE OwnBody(l, noteBody'[l])
  <2>1. CASE l # k
    BY <2>1 DEF StoreNote, KeptOwn
  <2>2. CASE l = k
    <3>1. noteBody'[l] = IF content.of = k THEN content ELSE Body(k, noteWritten + 1)
      BY <2>2 DEF StoreNote, KeptOwn
    <3>. QED
      BY <2>2, <3>1, Contents DEF OwnBody
  <2>. QED
    BY <2>1, <2>2
<1>. QED
  BY <1>1, <1>2 DEF KeptOwn

LEMMA BodiesOwnedStep == BodiesOwned /\ [NoteNext]_noteVars => BodiesOwned'
<1> SUFFICES ASSUME BodiesOwned, [NoteNext]_noteVars PROVE BodiesOwned'
  OBVIOUS
<1>. USE DEF BodiesOwned
<1>1. KeptOwn'
  <2>1. CASE UNCHANGED noteBody
    BY <2>1 DEF KeptOwn
  <2>2. ASSUME NEW k, NEW content, StoreNote(k, content) PROVE KeptOwn'
    BY <2>2, StoredIsOwn
  <2>3. ASSUME NEW k, noteBody' = [noteBody EXCEPT ![k] = Nothing] PROVE KeptOwn'
    BY <2>3, Contents DEF KeptOwn, OwnBody
  <2>4. \/ UNCHANGED noteBody
        \/ \E k, content : StoreNote(k, content)
        \/ \E k : noteBody' = [noteBody EXCEPT ![k] = Nothing]
    BY DEF NoteNext, noteVars, FetchNotes, FetchNote, OpenCreate, OpenEdit, TypeNote, CloseEditor,
           SetEditor, SubmitEdit, NoteSaved, TogglePin, AskDeleteNote, AnswerDelete, SelectNote,
           AgentWrites
  <2>. QED
    BY <2>1, <2>2, <2>3, <2>4
<1>2. DetailsOwn'
  <2>1. CASE UNCHANGED noteDetail
    BY <2>1 DEF DetailsOwn
  <2>2. CASE FetchNote
    <3>1. noteSelected \in NoteKeys /\ OwnBody(noteSelected, noteBody[noteSelected])
      BY <2>2 DEF FetchNote, Detailed, ListKnown, KeptOwn
    <3>2. noteDetail' = [noteDetail EXCEPT ![noteSelected] = noteBody[noteSelected]]
      BY <2>2 DEF FetchNote
    <3>. QED
      BY <3>1, <3>2 DEF DetailsOwn
  <2>3. UNCHANGED noteDetail \/ FetchNote
    BY DEF NoteNext, noteVars, FetchNotes, OpenCreate, OpenEdit, TypeNote, CloseEditor,
           SetEditor, SubmitEdit, NoteSaved, TogglePin, AskDeleteNote, AnswerDelete, SelectNote,
           AgentWrites
  <2>. QED
    BY <2>1, <2>2, <2>3
<1>3. EditorOwn'
  <2>1. CASE UNCHANGED noteEditor
    BY <2>1 DEF EditorOwn
  <2>2. CASE OpenCreate
    BY <2>2, Contents DEF OpenCreate, SetEditor, ClosedEditor, EditorOwn
  <2>3. CASE OpenEdit
    <3>1. noteSelected \in NoteKeys /\ OwnBody(noteSelected, noteDetail[noteSelected])
      BY <2>3 DEF OpenEdit, Detailed, ListKnown, DetailsOwn
    <3>2. /\ noteEditor'.mode = "edit" /\ noteEditor'.key = noteSelected
          /\ DOMAIN noteEditor' = {"open", "mode", "key", "content"}
          /\ noteEditor'.content = IF noteDetail[noteSelected] = Loading THEN Nothing
                                                                         ELSE noteDetail[noteSelected]
      BY <2>3 DEF OpenEdit, SetEditor
    <3>. QED
      BY <3>1, <3>2, Contents DEF EditorOwn, OwnBody
  <2>4. CASE TypeNote \/ CloseEditor \/ NoteSaved
    <3>1. \/ UNCHANGED noteEditor
          \/ noteEditor' = [noteEditor EXCEPT !.content = Typed]
          \/ noteEditor' = [noteEditor EXCEPT !.open = FALSE]
          \/ noteEditor.mode = "create" /\ \E k : noteEditor' = [noteEditor EXCEPT !.key = k]
      BY <2>4 DEF TypeNote, SetEditor, CloseEditor, NoteSaved
    <3>2. /\ noteEditor'.mode = noteEditor.mode
          /\ noteEditor'.content = noteEditor.content \/ noteEditor'.content = Typed
          /\ noteEditor'.key = noteEditor.key \/ noteEditor.mode = "create"
          /\ DOMAIN noteEditor' = DOMAIN noteEditor
      BY <3>1 DEF EditorOwn
    <3>. QED
      BY <3>2, Contents DEF EditorOwn, OwnBody
  <2>5. UNCHANGED noteEditor \/ OpenCreate \/ OpenEdit \/ TypeNote \/ CloseEditor \/ NoteSaved
    BY DEF NoteNext, noteVars, FetchNotes, FetchNote, SubmitEdit, TogglePin, AskDeleteNote,
           AnswerDelete, SelectNote, AgentWrites
  <2>. QED
    BY <2>1, <2>2, <2>3, <2>4, <2>5
<1>4. SavingOwn'
  <2>1. CASE UNCHANGED noteSaving \/ noteSaving' = <<>>
    BY <2>1 DEF SavingOwn
  <2>2. CASE SubmitEdit
    <3>1. noteSaving'[1].key = noteEditor.key /\ noteSaving'[1].content = noteEditor.content
      BY <2>2 DEF SubmitEdit
    <3>. QED
      BY <3>1 DEF SavingOwn, EditorOwn, OwnBody
  <2>3. UNCHANGED noteSaving \/ noteSaving' = <<>> \/ SubmitEdit
    BY DEF NoteNext, noteVars, FetchNotes, FetchNote, OpenCreate, OpenEdit, TypeNote, CloseEditor,
           NoteSaved, TogglePin, AskDeleteNote, AnswerDelete, SelectNote, AgentWrites
  <2>. QED
    BY <2>1, <2>2, <2>3
<1>5. ListKnown'
  <2>1. UNCHANGED noteList \/ noteList' = Stored
    BY DEF NoteNext, noteVars, FetchNotes, FetchNote, OpenCreate, OpenEdit, TypeNote, CloseEditor,
           SetEditor, SubmitEdit, NoteSaved, TogglePin, AskDeleteNote, AnswerDelete, SelectNote,
           AgentWrites
  <2>. QED
    BY <2>1 DEF ListKnown, Stored
<1>. QED
  BY <1>1, <1>2, <1>3, <1>4, <1>5

(* No note ever gets the body of another, whatever is selected, edited,    *)
(* saved late or written by the agent meanwhile (notes-panel.tsx).         *)
THEOREM NoForeignBodyHolds == NoteInit /\ [][NoteNext]_noteVars => []NoForeignBody
<1>1. BodiesOwned => NoForeignBody
  BY DEF BodiesOwned, KeptOwn, DetailsOwn, EditorOwn, SavingOwn, OwnBody, NoForeignBody
<1>. QED
  BY <1>1, BodiesOwnedInit, BodiesOwnedStep, PTL

(* What is stored of a note is something.                                  *)
LEMMA StoringFills ==
  ASSUME KeptOwn, NEW k \in NoteKeys, NEW content, StoreNote(k, content)
  PROVE  Stored' = Stored \cup {k} /\ noteWritten' = noteWritten + 1
<1>. DEFINE new == IF content.of = k THEN content ELSE Body(k, noteWritten + 1)
<1>1. new # Nothing
  <2>1. new.of = k /\ k # "" /\ Nothing.of = ""
    BY Contents, NoteAssumption
  <2>. QED
    BY <2>1
<1>2. noteBody' = [noteBody EXCEPT ![k] = new] /\ noteWritten' = noteWritten + 1
  BY DEF StoreNote
<1>. HIDE DEF new
<1>3. \A l \in NoteKeys : noteBody'[l] = IF l = k THEN new ELSE noteBody[l]
  BY <1>2 DEF KeptOwn
<1>. QED
  BY <1>1, <1>2, <1>3 DEF Stored

LEMMA NoteTypeStart == NoteInit => NoteTypeOK
<1> SUFFICES ASSUME NoteInit PROVE NoteTypeOK
  OBVIOUS
<1>1. 0 \in 0..MaxBodies /\ 0 \in 0..MaxNoteOps
  BY NoteAssumption, OneMore, Zenon DEF NoteAssumption
<1>. QED
  BY <1>1 DEF NoteInit, NoteTypeOK, ClosedEditor, Stored

(* Pins are of notes there are, and the editor and the save under way are  *)
(* about keys: whatever is deleted or saved late.                          *)
LEMMA NoteTypeStep == NoteTypeOK /\ BodiesOwned /\ [NoteNext]_noteVars => NoteTypeOK'
<1> SUFFICES ASSUME NoteTypeOK, BodiesOwned, [NoteNext]_noteVars PROVE NoteTypeOK'
  OBVIOUS
<1>. USE NoteAssumption DEF NoteTypeOK
<1>1. KeptOwn /\ EditorOwn
  BY DEF BodiesOwned
<1>16. CountNoteOp => noteOps' \in 0..MaxNoteOps
  BY OneMore DEF CountNoteOp
<1>2. CASE UNCHANGED noteVars
  BY <1>2 DEF noteVars, Stored
<1>3. CASE FetchNotes
  BY <1>3 DEF FetchNotes, Stored
<1>4. CASE FetchNote
  BY <1>4 DEF FetchNote, Stored
<1>5. CASE OpenCreate
  BY <1>5 DEF OpenCreate, SetEditor, ClosedEditor, Stored
<1>6. CASE OpenEdit
  BY <1>6 DEF OpenEdit, SetEditor, Detailed, Stored
<1>7. CASE TypeNote
  <2>1. noteOps' \in 0..MaxNoteOps /\ UNCHANGED noteSaving
    BY <1>7, <1>16 DEF TypeNote
  <2>2. noteEditor'.key \in NoteKeys \cup {""} /\ noteEditor'.mode \in {"create", "edit"}
    BY <1>1, <1>7 DEF TypeNote, SetEditor, EditorOwn
  <2>3. UNCHANGED <<noteBody, notePinned, noteList, notePins, noteSelected, noteConfirm, noteWritten>>
    BY <1>7 DEF TypeNote, SetEditor
  <2>. QED
    BY <2>1, <2>2, <2>3 DEF Stored
<1>8. CASE CloseEditor
  <2>1. noteEditor'.key = noteEditor.key /\ noteEditor'.mode = noteEditor.mode
    BY <1>1, <1>8 DEF CloseEditor, SetEditor, EditorOwn
  <2>. QED
    BY <1>8, <2>1 DEF CloseEditor, SetEditor, Stored
<1>9. CASE SubmitEdit
  <2>1. noteSaving'[1].key \in NoteKeys
    BY <1>9 DEF SubmitEdit
  <2>. QED
    BY <1>9, <2>1 DEF SubmitEdit, Stored
<1>10. CASE NoteSaved
  <2>1. noteSaving' = <<>> /\ noteSaving[1].key \in NoteKeys /\ noteConfirm' \in BOOLEAN
        /\ UNCHANGED <<notePinned, noteList, notePins, noteOps>>
    BY <1>10 DEF NoteSaved
  <2>2. CASE UNCHANGED <<noteBody, noteWritten, noteEditor, noteSelected>>
    BY <2>1, <2>2 DEF Stored
  <2>3. CASE /\ noteWritten < MaxBodies
             /\ StoreNote(noteSaving[1].key, noteSaving[1].content)
             /\ noteEditor' = [noteEditor EXCEPT !.open = FALSE]
             /\ noteSelected' = noteSaving[1].key
    <3>1. Stored \subseteq Stored' /\ noteWritten' = noteWritten + 1
      BY <1>1, <2>1, <2>3, StoringFills
    <3>2. noteEditor'.key = noteEditor.key /\ noteEditor'.mode = noteEditor.mode
      BY <1>1, <2>3 DEF EditorOwn
    <3>3. noteWritten' \in 0..MaxBodies
      BY <2>3, <3>1, OneMore
    <3>. QED
      BY <2>1, <2>3, <3>1, <3>2, <3>3
  <2>. QED
    BY <1>10, <2>2, <2>3 DEF NoteSaved
<1>11. CASE TogglePin
  <2>1. noteOps' \in 0..MaxNoteOps
    BY <1>11, <1>16 DEF TogglePin
  <2>2. /\ noteSelected \in Stored /\ notePinned' \subseteq notePinned \cup {noteSelected}
        /\ UNCHANGED <<noteBody, noteList, notePins, noteDetail, noteSelected, noteEditor, noteSaving,
                       noteConfirm, noteWritten>>
    BY <1>11 DEF TogglePin
  <2>3. Stored' = Stored
    BY <2>2 DEF Stored
  <2>. QED
    BY <2>1, <2>2, <2>3
<1>12. CASE AskDeleteNote
  BY <1>12 DEF AskDeleteNote, Stored
<1>13. CASE AnswerDelete
  <2>1. notePinned' \subseteq Stored'
    <3>1. CASE UNCHANGED <<noteBody, notePinned, noteSelected>>
      BY <3>1 DEF Stored
    <3>2. CASE noteBody' = [noteBody EXCEPT ![noteSelected] = Nothing] /\ notePinned' = notePinned \ {noteSelected}
      BY <1>1, <3>2 DEF Stored, KeptOwn
    <3>. QED
      BY <1>13, <3>1, <3>2 DEF AnswerDelete
  <2>. QED
    BY <1>13, <2>1 DEF AnswerDelete
<1>14. ASSUME NEW k \in NoteKeys, SelectNote(k) PROVE NoteTypeOK'
  BY <1>14 DEF SelectNote, Stored
<1>15. ASSUME NEW k \in NoteKeys, AgentWrites(k) PROVE NoteTypeOK'
  <2>1. noteOps' \in 0..MaxNoteOps
    BY <1>15, <1>16 DEF AgentWrites
  <2>2. notePinned' \subseteq Stored' /\ noteWritten' \in 0..MaxBodies
    <3>1. CASE noteWritten < MaxBodies /\ StoreNote(k, Typed) /\ UNCHANGED notePinned
      <4>1. Stored' = Stored \cup {k} /\ noteWritten' = noteWritten + 1
        BY <1>1, <3>1, StoringFills
      <4>. QED
        BY <3>1, <4>1, OneMore
    <3>2. CASE noteBody' = [noteBody EXCEPT ![k] = Nothing] /\ notePinned' = notePinned \ {k} /\ UNCHANGED noteWritten
      BY <1>1, <3>2 DEF Stored, KeptOwn
    <3>. QED
      BY <1>15, <3>1, <3>2 DEF AgentWrites
  <2>. QED
    BY <1>15, <2>1, <2>2 DEF AgentWrites
<1>. QED
  BY <1>2, <1>3, <1>4, <1>5, <1>6, <1>7, <1>8, <1>9, <1>10, <1>11, <1>12, <1>13, <1>14, <1>15 DEF NoteNext

(* Only notes there are stay pinned, and what is selected, edited or being *)
(* saved is of a key there can be, however late a save or a deletion is    *)
(* answered (notes-panel.tsx; state_agentstate.go).                        *)
THEOREM NoteTypeHolds == NoteInit /\ [][NoteNext]_noteVars => []NoteTypeOK
BY BodiesOwnedInit, BodiesOwnedStep, NoteTypeStart, NoteTypeStep, PTL

-----------------------------------------------------------------------------
(* The blocks of code.                                                     *)

MadeFor(c, tokens) == tokens = NoCode \/ tokens.key = c.key

CacheOwn ==
  /\ DOMAIN codeCache = CodeKeys
  /\ \A k \in CodeKeys : codeCache[k] = NoCode \/ codeCache[k].key = k

MountsKnown ==
  /\ DOMAIN codeOf = CodeBlocks /\ DOMAIN codeSync = CodeBlocks /\ DOMAIN codeAsync = CodeBlocks

(* A block that is mounted has no tokens but its own key's.                *)
TokensOwn ==
  \A b \in CodeBlocks : codeOf[b] # NoCode =>
    MadeFor(codeOf[b], codeSync[b]) /\ MadeFor(codeOf[b], codeAsync[b])

CodeInv == CacheOwn /\ MountsKnown /\ TokensOwn

LEMMA CodeInvInit == CodeInit => CodeInv
BY DEF CodeInit, CodeInv, CacheOwn, MountsKnown, TokensOwn, MadeFor

LEMMA CodeInvStep == CodeInv /\ [CodeNext]_codeVars => CodeInv'
<1> SUFFICES ASSUME CodeInv, [CodeNext]_codeVars PROVE CodeInv'
  OBVIOUS
<1>. USE DEF CodeInv
<1>1. ASSUME NEW b \in CodeBlocks, NEW c \in CodeTexts, MountCode(b, c) PROVE CodeInv'
  <2>1. /\ codeOf' = [codeOf EXCEPT ![b] = c] /\ codeSync' = [codeSync EXCEPT ![b] = codeCache[c.key]]
        /\ codeAsync' = [codeAsync EXCEPT ![b] = NoCode] /\ codeCache' = codeCache
    BY <1>1 DEF MountCode, Cached, GetTokensCacheKey
  <2>2. c.key \in CodeKeys
    BY DEF CodeTexts
  <2>3. MadeFor(c, codeCache[c.key])
    BY <2>2 DEF CacheOwn, MadeFor
  <2>4. CacheOwn' /\ MountsKnown'
    BY <2>1 DEF CacheOwn, MountsKnown
  <2>5. ASSUME NEW d \in CodeBlocks, codeOf'[d] # NoCode
        PROVE  MadeFor(codeOf'[d], codeSync'[d]) /\ MadeFor(codeOf'[d], codeAsync'[d])
    <3>1. CASE d = b
      <4>1. codeOf'[d] = c /\ codeSync'[d] = codeCache[c.key] /\ codeAsync'[d] = NoCode
        BY <2>1, <3>1 DEF MountsKnown
      <4>. QED
        BY <2>3, <4>1 DEF MadeFor
    <3>2. CASE d # b
      BY <2>1, <2>5, <3>2 DEF MountsKnown, TokensOwn
    <3>. QED
      BY <3>1, <3>2
  <2>. QED
    BY <2>4, <2>5 DEF TokensOwn
<1>2. ASSUME NEW b \in CodeBlocks, UnmountCode(b) PROVE CodeInv'
  BY <1>2 DEF UnmountCode, CacheOwn, MountsKnown, TokensOwn
<1>3. ASSUME NEW c \in codeThen, Tokenized(c), codeLoader = "loaded" PROVE CodeInv'
  <2>1. /\ codeCache' = [codeCache EXCEPT ![c.key] = c]
        /\ codeAsync' = [b \in CodeBlocks |-> IF b \in Waiting(c) THEN c ELSE codeAsync[b]]
        /\ codeOf' = codeOf /\ codeSync' = codeSync
    BY <1>3 DEF Tokenized, GetTokensCacheKey
  <2>2. CacheOwn' /\ MountsKnown'
    BY <2>1 DEF CacheOwn, MountsKnown
  <2>3. ASSUME NEW d \in CodeBlocks, codeOf'[d] # NoCode
        PROVE  MadeFor(codeOf'[d], codeSync'[d]) /\ MadeFor(codeOf'[d], codeAsync'[d])
    <3>1. d \in Waiting(c) => codeOf[d].key = c.key
      BY DEF Waiting, GetTokensCacheKey
    <3>2. codeAsync'[d] = IF d \in Waiting(c) THEN c ELSE codeAsync[d]
      BY <2>1
    <3>. QED
      BY <2>1, <2>3, <3>1, <3>2 DEF TokensOwn, MadeFor
  <2>. QED
    BY <2>2, <2>3 DEF TokensOwn
<1>4. CASE UNCHANGED <<codeOf, codeSync, codeAsync, codeCache>>
  BY <1>4 DEF CacheOwn, MountsKnown, TokensOwn
<1>5. \/ \E b \in CodeBlocks : UnmountCode(b) \/ \E c \in CodeTexts : MountCode(b, c)
      \/ \E c \in codeThen : Tokenized(c) /\ codeLoader = "loaded"
      \/ UNCHANGED <<codeOf, codeSync, codeAsync, codeCache>>
  BY DEF CodeNext, codeVars, CodeEffect, HighlighterSettles, Tokenized
<1>. QED
  BY <1>1, <1>2, <1>3, <1>4, <1>5

(* A block never shows the tokens of a text with another key, whoever      *)
(* loads, answers or leaves first (code-block.tsx).                        *)
THEOREM OwnCodeHolds == CodeInit /\ [][CodeNext]_codeVars => []OwnCode
<1>1. CodeInv => OwnCode
  BY DEF CodeInv, TokensOwn, MadeFor, OwnCode, CodeBlockContent, GetTokensCacheKey
<1>. QED
  BY <1>1, CodeInvInit, CodeInvStep, PTL

CacheTyped == \A k \in CodeKeys : codeCache[k] \in CodeTexts \cup {NoCode}

(* Only texts are cached and drawn, and only blocks on the page wait.      *)
LEMMA CodeTypeStart == CodeInit => CodeTypeOK /\ CacheTyped
BY CodeAssumption DEF CodeInit, CodeTypeOK, CacheTyped

LEMMA CodeTypeStep ==
  CodeTypeOK /\ CacheTyped /\ CodeInv /\ [CodeNext]_codeVars => CodeTypeOK' /\ CacheTyped'
<1> SUFFICES ASSUME CodeTypeOK, CacheTyped, CodeInv, [CodeNext]_codeVars PROVE CodeTypeOK' /\ CacheTyped'
  OBVIOUS
<1>. USE CodeAssumption DEF CodeTypeOK, CacheTyped
<1>1. DOMAIN codeCache = CodeKeys /\ MountsKnown /\ \A c \in CodeTexts : c.key \in CodeKeys /\ c # NoCode
  BY DEF CodeInv, CacheOwn, CodeTexts, NoCode
<1>2. ASSUME NEW c \in CodeTexts, HighlightCode(c)
      PROVE  codeThen' \subseteq CodeTexts /\ codeLoader' \in {"none", "loading", "loaded", "failed"}
  BY <1>2 DEF HighlightCode
<1>3. ASSUME NEW b \in CodeBlocks, NEW c \in CodeTexts, MountCode(b, c) PROVE CodeTypeOK' /\ CacheTyped'
  <2>1. /\ codeOf' = [codeOf EXCEPT ![b] = c] /\ codeSync' = [codeSync EXCEPT ![b] = codeCache[c.key]]
        /\ codeAsync' = [codeAsync EXCEPT ![b] = NoCode] /\ codeOps' = codeOps + 1 /\ codeOps < MaxCodeOps
        /\ UNCHANGED <<codeAsked, codeSubs, codeCache>> /\ codeOf[b] = NoCode
    BY <1>3 DEF MountCode, Cached, GetTokensCacheKey
  <2>2. \A d \in CodeBlocks : {codeOf'[d], codeSync'[d], codeAsync'[d]} \subseteq CodeTexts \cup {NoCode}
    BY <1>1, <2>1 DEF MountsKnown
  <2>3. codeAsked' \subseteq {d \in CodeBlocks : codeOf'[d] # NoCode}
    BY <1>1, <2>1 DEF MountsKnown
  <2>4. codeThen' \subseteq CodeTexts /\ codeLoader' \in {"none", "loading", "loaded", "failed"}
    BY <1>2, <1>3 DEF MountCode
  <2>. QED
    BY <2>1, <2>2, <2>3, <2>4
<1>4. ASSUME NEW b \in CodeBlocks, CodeEffect(b) PROVE CodeTypeOK' /\ CacheTyped'
  <2>1. codeOf[b] \in CodeTexts
    BY <1>4 DEF CodeEffect
  <2>2. codeThen' \subseteq CodeTexts /\ codeLoader' \in {"none", "loading", "loaded", "failed"}
    BY <1>2, <1>4, <2>1 DEF CodeEffect
  <2>. QED
    BY <1>4, <2>2 DEF CodeEffect
<1>5. ASSUME NEW b \in CodeBlocks, UnmountCode(b) PROVE CodeTypeOK' /\ CacheTyped'
  BY <1>1, <1>5 DEF UnmountCode, MountsKnown
<1>6. CASE HighlighterSettles
  BY <1>6 DEF HighlighterSettles
<1>7. ASSUME NEW c \in codeThen, Tokenized(c) PROVE CodeTypeOK' /\ CacheTyped'
  <2>1. /\ codeThen' = codeThen \ {c} /\ codeSubs' = codeSubs \ Waiting(c)
        /\ UNCHANGED <<codeOf, codeSync, codeAsked, codeLoader, codeOps>> /\ c \in CodeTexts
    BY <1>7 DEF Tokenized
  <2>2. CASE UNCHANGED <<codeCache, codeAsync>>
    BY <2>1, <2>2
  <2>3. CASE /\ codeCache' = [codeCache EXCEPT ![c.key] = c]
             /\ codeAsync' = [b \in CodeBlocks |-> IF b \in Waiting(c) THEN c ELSE codeAsync[b]]
    <3>1. CacheTyped'
      BY <1>1, <2>1, <2>3
    <3>2. \A d \in CodeBlocks : {codeOf'[d], codeSync'[d], codeAsync'[d]} \subseteq CodeTexts \cup {NoCode}
      BY <2>1, <2>3
    <3>. QED
      BY <2>1, <3>1, <3>2
  <2>. QED
    BY <1>7, <2>2, <2>3 DEF Tokenized, GetTokensCacheKey
<1>8. CASE UNCHANGED codeVars
  BY <1>8 DEF codeVars
<1>. QED
  BY <1>3, <1>4, <1>5, <1>6, <1>7, <1>8 DEF CodeNext

(* Whoever leaves or answers first, a block draws a text's tokens or none,  *)
(* and only a block on the page waits for some (code-block.tsx).           *)
THEOREM CodeTypeHolds == CodeInit /\ [][CodeNext]_codeVars => []CodeTypeOK
BY CodeInvInit, CodeInvStep, CodeTypeStart, CodeTypeStep, PTL

-----------------------------------------------------------------------------
(* The composer.                                                           *)

PromptSpec == PromptInit /\ [][PromptNext]_promptVars

PromptInv == piNumbers \in Nat /\ PromptTypeOK /\ PromptHolds

LEMMA PromptStart == PromptInit => PromptInv
<1> SUFFICES ASSUME PromptInit PROVE PromptInv
  OBVIOUS
<1>1. piSent \in Seq(0..piNumbers)
  BY EmptySeq DEF PromptInit
<1>. QED
  <2>1. piMounted = TRUE /\ piText = 0 /\ piBusy = FALSE /\ piNumbers = 0 /\ piOps = 0 /\ piFiles = {}
        /\ piUrls = {} /\ piSending = {}
    BY DEF PromptInit
  <2>2. piOps \in 0..MaxPromptOps
    BY <2>1, PromptAssumption DEF PromptAssumption
  <2>3. piNumbers \in Nat /\ piText \in 0..piNumbers /\ piFiles \cup piUrls \subseteq 1..piNumbers
    BY <2>1
  <2>. QED
    BY <1>1, <2>1, <2>2, <2>3 DEF PromptInv, PromptTypeOK, PromptHolds

(* What was sent stays a list of texts, with one text more or none.        *)
SentGrows == piSent' = piSent \/ \E text \in 0..piNumbers : piSent' = Append(piSent, text)

(* A step that only uses numbers of its own, and keeps URLs with files.    *)
LEMMA PromptStep == PromptInv /\ [PromptNext]_promptVars => PromptInv'
<1> SUFFICES ASSUME PromptInv, PromptNext PROVE PromptInv'
  BY DEF PromptInv, PromptTypeOK, PromptHolds, promptVars
<1>. DEFINE Phases == {"reading", "replying", "page"}
            Subs(n) == [n : 1..n, text : 0..n, busy : BOOLEAN, phase : Phases]
            Kept == /\ piMounted' \in BOOLEAN /\ piBusy' \in BOOLEAN /\ piOps' \in 0..MaxPromptOps
                    /\ piNumbers' \in Nat /\ piNumbers <= piNumbers'
                    /\ piText' \in 0..piNumbers'
            Held == piUrls' = piFiles' /\ piFiles' \subseteq 1..piNumbers'
            Sends == piSending' \subseteq Subs(piNumbers')
            Goal == Kept /\ Held /\ Sends /\ SentGrows
<1>0. /\ piMounted \in BOOLEAN /\ piBusy \in BOOLEAN /\ piOps \in 0..MaxPromptOps /\ piNumbers \in Nat
      /\ piText \in 0..piNumbers /\ piUrls = piFiles /\ piFiles \subseteq 1..piNumbers
      /\ piSending \subseteq Subs(piNumbers) /\ piSent \in Seq(0..piNumbers) /\ MaxPromptOps \in Nat
  BY PromptAssumption DEF PromptInv, PromptTypeOK, PromptHolds, PromptAssumption
<1>1. ASSUME NEW n \in Nat, NEW m \in Nat, n <= m
      PROVE  1..n \subseteq 1..m /\ 0..n \subseteq 0..m /\ Subs(n) \subseteq Subs(m)
  <2>1. 1..n \subseteq 1..m /\ 0..n \subseteq 0..m
    BY <1>1
  <2>. QED
    BY <2>1
<1>2. \A n, m \in Nat : n <= m => n + 1 \in 1..m + 1
  OBVIOUS
<1>3. CountPromptOp => piOps' \in 0..MaxPromptOps
  BY ONLY <1>0, OneMore DEF CountPromptOp
<1>4. ASSUME NEW count \in {1, 2}, Attach(count) PROVE Goal
  <2>1. /\ piNumbers' = piNumbers + count /\ piText' = piText /\ piSending' = piSending /\ piSent' = piSent
        /\ piMounted' = piMounted /\ piBusy' = piBusy /\ CountPromptOp
        /\ piFiles' = piFiles \cup ((piNumbers + 1)..(piNumbers + count))
        /\ piUrls' = piUrls \cup ((piNumbers + 1)..(piNumbers + count))
    BY <1>4 DEF Attach, AddLocal
  <2>2. piNumbers' \in Nat /\ piNumbers <= piNumbers' /\ (piNumbers + 1)..(piNumbers + count) \subseteq 1..piNumbers'
    BY <2>1, <1>0
  <2>. QED
    BY <2>1, <2>2, <1>0, <1>1, <1>3 DEF SentGrows
<1>5. ASSUME Backspace PROVE Goal
  <2>1. /\ UNCHANGED <<piMounted, piText, piBusy, piSending, piNumbers, piOps, piSent>>
        /\ piFiles' = piFiles \ {Max(piFiles)} /\ piUrls' = piUrls \ {Max(piFiles)}
    BY <1>5 DEF Backspace, RemoveFile
  <2>2. Kept
    <3>1. piNumbers' \in Nat /\ piNumbers <= piNumbers' /\ piText' \in 0..piNumbers'
      BY <2>1, <1>0
    <3>2. piMounted' \in BOOLEAN /\ piBusy' \in BOOLEAN
      BY <2>1, <1>0
    <3>3. piOps' \in 0..MaxPromptOps
      BY <2>1, <1>0
    <3>. QED
      BY <3>1, <3>2, <3>3
  <2>3. Held
    BY <2>1, <1>0
  <2>4. Sends
    BY <2>1, <1>0
  <2>5. SentGrows
    BY <2>1 DEF SentGrows
  <2>. QED
    BY <2>2, <2>3, <2>4, <2>5
<1>6. ASSUME TypePrompt PROVE Goal
  <2>1. /\ piNumbers' = piNumbers + 1 /\ piText' = piNumbers + 1 /\ CountPromptOp
        /\ UNCHANGED <<piMounted, piFiles, piUrls, piBusy, piSending, piSent>>
    BY <1>6 DEF TypePrompt
  <2>2. piNumbers' \in Nat /\ piNumbers <= piNumbers' /\ piText' \in 0..piNumbers'
    BY <2>1, <1>0
  <2>. QED
    BY <2>1, <2>2, <1>0, <1>1, <1>3 DEF SentGrows
<1>7. ASSUME SubmitPrompt PROVE Goal
  <2>. DEFINE sub(phase) == [n |-> piNumbers + 1, text |-> piText, busy |-> piBusy, phase |-> phase]
  <2>1. /\ piNumbers' = piNumbers + 1 /\ CountPromptOp /\ UNCHANGED <<piMounted, piFiles, piUrls>>
        /\ piSending' = piSending \/ \E phase \in Phases : piSending' = piSending \cup {sub(phase)}
        /\ \/ piSent' = piSent /\ piText' = piText /\ piBusy' = piBusy
           \/ piSent' = Append(piSent, piText) /\ piText' = 0 /\ piBusy' = TRUE
    BY <1>7 DEF SubmitPrompt, SendPrompt
  <2>2. piNumbers' \in Nat /\ piNumbers <= piNumbers' /\ 0 \in 0..piNumbers' /\ piNumbers + 1 \in 1..piNumbers'
        /\ 0..piNumbers \subseteq 0..piNumbers'
    BY <2>1, <1>0
  <2>3. \A phase \in Phases : sub(phase) \in Subs(piNumbers')
    BY <2>2, <1>0
  <2>4. Sends
    BY <2>1, <2>2, <2>3, <1>0, <1>1
  <2>. HIDE DEF sub
  <2>. QED
    BY <2>1, <2>2, <2>4, <1>0, <1>1, <1>3 DEF SentGrows
<1>8. ASSUME NEW t \in piSending, FilesRead(t) PROVE Goal
  <2>. DEFINE after == [t EXCEPT !.phase = "replying"]
  <2>1. t \in Subs(piNumbers) /\ t.text \in 0..piNumbers /\ after \in Subs(piNumbers)
    BY <1>0
  <2>2. /\ UNCHANGED <<piMounted, piNumbers, piOps>>
        /\ piSending' = piSending \ {t} \/ piSending' = (piSending \ {t}) \cup {after}
        /\ \/ piSent' = piSent /\ piText' = piText /\ piBusy' = piBusy
           \/ piSent' = Append(piSent, t.text) /\ piText' = 0 /\ piBusy' = TRUE
        /\ \/ piFiles' = piFiles /\ piUrls' = piUrls
           \/ piFiles' = {} /\ piUrls' = piUrls \ piFiles
    BY <1>8 DEF FilesRead, SendPrompt, ClearIfMounted, ClearFiles
  <2>. HIDE DEF after
  <2>3. Kept
    <3>1. piNumbers' \in Nat /\ piNumbers <= piNumbers' /\ piText' \in 0..piNumbers'
      BY <2>2, <1>0
    <3>2. piMounted' \in BOOLEAN /\ piBusy' \in BOOLEAN
      BY <2>2, <1>0
    <3>3. piOps' \in 0..MaxPromptOps
      BY <2>2, <1>0
    <3>. QED
      BY <3>1, <3>2, <3>3
  <2>4. Held
    BY <2>2, <1>0
  <2>5. Sends
    BY <2>1, <2>2, <1>0
  <2>6. SentGrows
    BY <2>1, <2>2 DEF SentGrows
  <2>. QED
    BY <2>3, <2>4, <2>5, <2>6
<1>9. ASSUME NEW t \in piSending, ReplyEnds(t) PROVE Goal
  <2>1. /\ UNCHANGED <<piMounted, piText, piNumbers, piOps, piSent>> /\ piBusy' = FALSE
        /\ piSending' = piSending \ {t}
        /\ \/ piFiles' = piFiles /\ piUrls' = piUrls
           \/ piFiles' = {} /\ piUrls' = piUrls \ piFiles
    BY <1>9 DEF ReplyEnds, ClearIfMounted, ClearFiles
  <2>2. Kept
    <3>1. piNumbers' \in Nat /\ piNumbers <= piNumbers' /\ piText' \in 0..piNumbers'
      BY <2>1, <1>0
    <3>2. piMounted' \in BOOLEAN /\ piBusy' \in BOOLEAN
      BY <2>1, <1>0
    <3>3. piOps' \in 0..MaxPromptOps
      BY <2>1, <1>0
    <3>. QED
      BY <3>1, <3>2, <3>3
  <2>3. Held
    BY <2>1, <1>0
  <2>4. Sends
    BY <2>1, <1>0
  <2>5. SentGrows
    BY <2>1 DEF SentGrows
  <2>. QED
    BY <2>2, <2>3, <2>4, <2>5
<1>10. ASSUME SendOfTranscript PROVE Goal
  <2>. DEFINE sub == [n |-> piNumbers + 1, text |-> 0, busy |-> FALSE, phase |-> "page"]
  <2>1. /\ piNumbers' = piNumbers + 1 /\ CountPromptOp /\ UNCHANGED <<piMounted, piFiles, piUrls>>
        /\ piSending' = piSending \cup {sub} /\ piBusy' = TRUE
        /\ (piSent' = piSent /\ piText' = piText) \/ (piSent' = Append(piSent, 0) /\ piText' = 0)
    BY <1>10 DEF SendOfTranscript, SendPrompt
  <2>2. piNumbers' \in Nat /\ piNumbers <= piNumbers' /\ 0 \in 0..piNumbers /\ 0 \in 0..piNumbers'
        /\ piNumbers + 1 \in 1..piNumbers' /\ 0..piNumbers \subseteq 0..piNumbers'
    BY <2>1, <1>0
  <2>3. sub \in Subs(piNumbers')
    BY <2>2
  <2>. HIDE DEF sub
  <2>4. Sends
    BY <2>1, <2>2, <2>3, <1>0, <1>1
  <2>. QED
    BY <2>1, <2>2, <2>4, <1>0, <1>1, <1>3 DEF SentGrows
<1>11. ASSUME LeavePrompt PROVE Goal
  <2>1. /\ UNCHANGED <<piBusy, piSending, piNumbers, piOps, piSent>> /\ piMounted' = FALSE /\ piText' = 0
        /\ piFiles' = {} /\ piUrls' = piUrls \ piFiles
    BY <1>11 DEF LeavePrompt, ClearFiles
  <2>2. Kept
    <3>1. piNumbers' \in Nat /\ piNumbers <= piNumbers' /\ piText' \in 0..piNumbers'
      BY <2>1, <1>0
    <3>2. piMounted' \in BOOLEAN /\ piBusy' \in BOOLEAN
      BY <2>1, <1>0
    <3>3. piOps' \in 0..MaxPromptOps
      BY <2>1, <1>0
    <3>. QED
      BY <3>1, <3>2, <3>3
  <2>3. Held
    BY <2>1, <1>0
  <2>4. Sends
    BY <2>1, <1>0
  <2>5. SentGrows
    BY <2>1 DEF SentGrows
  <2>. QED
    BY <2>2, <2>3, <2>4, <2>5
<1>. HIDE DEF Goal
<1>12. Goal
  BY <1>4, <1>5, <1>6, <1>7, <1>8, <1>9, <1>10, <1>11 DEF PromptNext
<1>. USE DEF Goal
<1>13. piSent' \in Seq(0..piNumbers')
  <2>1. 0..piNumbers \subseteq 0..piNumbers'
    BY <1>12, <1>0
  <2>2. \A text \in 0..piNumbers : Append(piSent, text) \in Seq(0..piNumbers)
    BY <1>0, AppendProperties
  <2>3. piSent' \in Seq(0..piNumbers)
    BY <1>12, <1>0, <2>2 DEF SentGrows
  <2>. QED
    BY <2>1, <2>3, WiderSeq
<1>. QED
  BY <1>12, <1>13 DEF PromptInv, PromptTypeOK, PromptHolds, Phases

LEMMA PromptInvHolds == PromptSpec => []PromptInv
BY PromptStart, PromptStep, PTL DEF PromptSpec

(* Whatever is attached, removed, submitted and left while submissions are *)
(* read or answered, the blob URLs that are kept are those of the attached *)
(* files (prompt-input.tsx: addLocal, removeLocal, clear, the unmount      *)
(* effect).                                                                *)
THEOREM PromptHoldsAlways == PromptSpec => []PromptHolds
<1>1. PromptInv => PromptHolds
  BY DEF PromptInv
<1>. QED
  BY <1>1, PromptInvHolds, PTL

(* What is typed on the page of a chat is taken off the textarea by a      *)
(* prompt that is sent: its own, one of the transcript, or one submitted   *)
(* with files before; not by a submission that is dropped nor by the end   *)
(* of a reply (view.tsx: sendPrompt; prompt-input.tsx: handleSubmit).      *)
THEOREM DraftGoesWithAPromptHolds == PromptSpec => DraftGoesWithAPrompt
<1>. DEFINE Sent(text) == Len(piSent') = Len(piSent) + 1 /\ Last(piSent') = text
            Read == \E s \in piSending : s.phase = "reading" /\ s.text = Last(piSent')
            A == piText # 0 /\ piText' = 0 /\ piMounted'
                   => /\ Len(piSent') = Len(piSent) + 1
                      /\ \/ Last(piSent') \in {piText, 0}
                         \/ \E s \in piSending : s.phase = "reading" /\ s.text = Last(piSent')
<1>1. PromptInv /\ [PromptNext]_promptVars => [A]_promptVars
  <2> SUFFICES ASSUME PromptInv, PromptNext, piText # 0, piText' = 0, piMounted'
               PROVE  Len(piSent') = Len(piSent) + 1 /\ (Last(piSent') \in {piText, 0} \/ Read)
    OBVIOUS
  <2>1. piNumbers \in Nat /\ piText \in 0..piNumbers /\ piSent \in Seq(0..piNumbers)
        /\ \A s \in piSending : s.text \in 0..piNumbers
    BY DEF PromptInv, PromptTypeOK
  <2>2. ASSUME NEW text \in 0..piNumbers, SendPrompt(text) PROVE Sent(text)
    <3>1. piSent' = Append(piSent, text)
      BY <2>2 DEF SendPrompt
    <3>. QED
      BY <3>1, <2>1, AppendProperties DEF Last
  <2>3. CASE SubmitPrompt
    <3>1. SendPrompt(piText)
      BY <2>3 DEF SubmitPrompt
    <3>. QED
      BY <3>1, <2>1, <2>2
  <2>4. ASSUME NEW t \in piSending, FilesRead(t)
        PROVE  Len(piSent') = Len(piSent) + 1 /\ (Last(piSent') \in {piText, 0} \/ Read)
    <3>1. SendPrompt(t.text) /\ t.phase = "reading"
      BY <2>4 DEF FilesRead
    <3>. QED
      BY <3>1, <2>1, <2>2
  <2>5. CASE SendOfTranscript
    <3>1. SendPrompt(0) /\ 0 \in 0..piNumbers
      BY <2>5, <2>1 DEF SendOfTranscript
    <3>. QED
      BY <3>1, <2>2
  <2>6. piText' # piText
    OBVIOUS
  <2>7. ~TypePrompt
    <3>1. TypePrompt => piText' = piNumbers + 1
      BY DEF TypePrompt
    <3>. QED
      BY <3>1, <2>1
  <2>8. ~LeavePrompt
    BY DEF LeavePrompt
  <2>9. \A t \in piSending : ~ReplyEnds(t)
    BY <2>6 DEF ReplyEnds
  <2>10. ~Backspace /\ \A count \in {1, 2} : ~Attach(count)
    BY <2>6 DEF Backspace, Attach
  <2>. QED
    BY <2>3, <2>4, <2>5, <2>7, <2>8, <2>9, <2>10 DEF PromptNext
<1>2. PromptSpec => [][A]_promptVars
  BY <1>1, PromptInvHolds, PTL DEF PromptSpec
<1>. QED
  BY <1>2 DEF DraftGoesWithAPrompt

(* The texts, the attached files and the submissions of the composer, and  *)
(* what the page has sent, stay what they are declared to be               *)
(* (prompt-input.tsx; view.tsx of a chat).                                 *)
THEOREM PromptTypeHolds == PromptSpec => []PromptTypeOK
<1>1. PromptInv => PromptTypeOK
  BY DEF PromptInv
<1>. QED
  BY <1>1, PromptInvHolds, PTL

-----------------------------------------------------------------------------
(* The provider pages and the registry.                                    *)

(* Calls under way are told apart by when they were made.                  *)
CallFields == {"do", "name", "entry", "back", "keyTyped", "here", "id"}
CallIds(calls) == {c.id : c \in calls}
CallsApart(calls, n) ==
  /\ \A c \in calls : DOMAIN c = CallFields /\ c = [f \in CallFields |-> c[f]] /\ c.id \in 0..n /\ c.id # n
  /\ \A c, d \in calls : c.id = d.id => c = d

LEMMA OneCallFewer ==
  ASSUME NEW calls, NEW n, CallsApart(calls, n), NEW sub \in SUBSET calls
  PROVE  CallsApart(sub, n)
BY DEF CallsApart

(* A call whose page is left is the same call.                             *)
LEMMA PageLeft ==
  ASSUME NEW calls, NEW n, CallsApart(calls, n)
  PROVE  LET left == {[c EXCEPT !.here = FALSE] : c \in calls} IN
         CallsApart(left, n) /\ CallIds(left) = CallIds(calls)
<1>. DEFINE gone(c) == [c EXCEPT !.here = FALSE]
            left == {gone(c) : c \in calls}
<1>1. ASSUME NEW c \in calls
      PROVE  /\ DOMAIN gone(c) = CallFields /\ gone(c) = [f \in CallFields |-> gone(c)[f]]
             /\ gone(c).id = c.id
  <2>1. DOMAIN c = CallFields /\ c = [f \in CallFields |-> c[f]]
    BY DEF CallsApart
  <2>2. gone(c) = [f \in DOMAIN c |-> IF f = "here" THEN FALSE ELSE c[f]]
    BY <2>1
  <2>3. DOMAIN gone(c) = CallFields /\ gone(c) = [f \in CallFields |-> gone(c)[f]]
    BY <2>1, <2>2
  <2>4. gone(c).id = c.id
    BY <2>1, <2>2 DEF CallFields
  <2>. QED
    BY <2>3, <2>4
<1>. HIDE DEF gone
<1>2. \A c \in calls : gone(c).id = c.id /\ c.id \in 0..n /\ c.id # n
  BY <1>1 DEF CallsApart
<1>3. \A c, d \in calls : gone(c).id = gone(d).id => gone(c) = gone(d)
  BY <1>2 DEF CallsApart
<1>4. CallsApart(left, n)
  BY <1>1, <1>2, <1>3 DEF CallsApart
<1>5. CallIds(left) = CallIds(calls)
  BY <1>2 DEF CallIds
<1>. QED
  BY <1>4, <1>5 DEF gone

(* What a page does with the calls it is told of: they keep their numbers. *)
LEMMA PagesKeepCalls ==
  ASSUME NEW calls, NEW n, CallsApart(calls, n), NEW page, NEW name,
         GoTo(page, name, calls) \/ Stay(calls)
  PROVE  CallsApart(provCalls', n) /\ CallIds(provCalls') = CallIds(calls)
<1>1. CASE GoTo(page, name, calls)
  BY <1>1, PageLeft DEF GoTo
<1>2. CASE Stay(calls)
  BY <1>2 DEF Stay
<1>. QED
  BY <1>1, <1>2

ProvInv == provOps \in Nat /\ CallsApart(provCalls, provOps) /\ RegistryFollowsFile

(* A call more, with a number nobody has.                                  *)
LEMMA OneCallMore ==
  ASSUME provOps \in Nat, CallsApart(provCalls, provOps), CountProvOp,
         NEW do, NEW name, NEW entry, Calls(do, name, entry)
  PROVE  /\ provOps' \in Nat /\ CallsApart(provCalls', provOps') /\ provCalls \subseteq provCalls'
<1>. DEFINE new == [do |-> do, name |-> name, entry |-> entry, back |-> provAt.page # "list",
                    keyTyped |-> provKeyTyped, here |-> TRUE, id |-> provOps]
<1>1. provOps' = provOps + 1
  BY DEF CountProvOp
<1>2. provOps' \in Nat /\ provOps \in 0..provOps' /\ provOps # provOps'
      /\ \A i \in 0..provOps : i \in 0..provOps' /\ i # provOps'
  BY ONLY <1>1, provOps \in Nat
<1>3. provCalls' = provCalls \cup {new}
  BY DEF Calls
<1>4. DOMAIN new = CallFields /\ new = [f \in CallFields |-> new[f]] /\ new.id = provOps
  BY DEF CallFields
<1>. HIDE DEF new
<1>5. \A c \in provCalls' : c \in provCalls \/ c = new
  BY <1>3
<1>6. \A c \in provCalls : /\ DOMAIN c = CallFields /\ c = [f \in CallFields |-> c[f]]
                           /\ c.id \in 0..provOps /\ c.id # provOps
  BY DEF CallsApart
<1>7. \A c \in provCalls' : DOMAIN c = CallFields /\ c = [f \in CallFields |-> c[f]]
  BY <1>4, <1>5, <1>6
<1>8. \A c \in provCalls' : c.id \in 0..provOps' /\ c.id # provOps'
  BY <1>2, <1>4, <1>5, <1>6
<1>9. ASSUME NEW c \in provCalls', NEW d \in provCalls', c.id = d.id PROVE c = d
  <2>1. CASE c \in provCalls /\ d \in provCalls
    BY <1>9, <2>1 DEF CallsApart
  <2>2. CASE c = new \/ d = new
    BY <1>4, <1>5, <1>6, <1>9, <2>2
  <2>. QED
    BY <1>5, <2>1, <2>2
<1>. QED
  BY <1>2, <1>3, <1>7, <1>8, <1>9 DEF CallsApart

LEMMA ProvStart == ProvInit => ProvInv
<1> SUFFICES ASSUME ProvInit PROVE ProvInv
  OBVIOUS
<1>1. provOps \in Nat /\ provCalls = {}
  BY DEF ProvInit
<1>2. provState = ExpandAll(provFile)
  BY DEF ProvInit
<1>. QED
  BY <1>1, <1>2 DEF ProvInv, CallsApart, RegistryFollowsFile

(* What a step does to the calls, the file and the registry.               *)
ProvMoves ==
  /\ provOps' \in Nat /\ CallsApart(provCalls', provOps') /\ RegistryFollowsFile'
  /\ \/ CallIds(provCalls) \subseteq CallIds(provCalls')
     \/ provFile' = provFile
     \/ \E c \in provCalls : /\ CallIds(provCalls') = CallIds(provCalls \ {c})
                             /\ provFile' = [provFile EXCEPT ![c.name] = c.entry]

LEMMA ProvStep == ProvInv /\ [ProvNext]_provVars => ProvMoves
<1> SUFFICES ASSUME ProvInv, [ProvNext]_provVars PROVE ProvMoves
  OBVIOUS
<1>0. provOps \in Nat /\ CallsApart(provCalls, provOps) /\ RegistryFollowsFile
  BY DEF ProvInv
(* What leaves the file and the registry alone.                            *)
<1>01. ASSUME UNCHANGED <<provFile, provParses, provState, provRead>>,
              provOps' \in Nat, CallsApart(provCalls', provOps')
       PROVE  ProvMoves
  BY <1>0, <1>01 DEF ProvMoves, RegistryFollowsFile
(* What only leads to another page.                                        *)
<1>02. ASSUME NEW page, NEW n, GoTo(page, n, provCalls),
              UNCHANGED <<provFile, provParses, provState, provRead, provOps>>
       PROVE  ProvMoves
  BY <1>0, <1>01, <1>02, PagesKeepCalls
(* An edit of a form.                                                      *)
<1>03. ASSUME UNCHANGED <<provFile, provParses, provState, provRead, provCalls>>, CountProvOp
       PROVE  ProvMoves
  <2>1. provOps' = provOps + 1
    BY <1>03 DEF CountProvOp
  <2>2. provOps' \in Nat /\ \A i \in 0..provOps : i \in 0..provOps' /\ i # provOps'
    BY ONLY <1>0, <2>1
  <2>3. CallsApart(provCalls', provOps')
    BY <1>0, <1>03, <2>2 DEF CallsApart
  <2>. QED
    BY <1>01, <1>03, <2>2, <2>3
<1>1. CASE FetchProviders
  <2>1. /\ provRead' = (provRead \/ provParses)
        /\ provState' = IF ~provRead /\ provParses THEN ExpandAll(provFile) ELSE provState
        /\ UNCHANGED <<provFile, provParses, provOps>>
    BY <1>1 DEF FetchProviders
  <2>2. GoTo("not found", "", provCalls) \/ Stay(provCalls)
    BY <1>1 DEF FetchProviders
  <2>3. CallsApart(provCalls', provOps)
    BY <1>0, <2>2, PagesKeepCalls
  <2>4. RegistryFollowsFile'
    <3>1. CASE ~provRead /\ provParses
      BY <2>1, <3>1 DEF RegistryFollowsFile, ExpandAll
    <3>2. CASE ~(~provRead /\ provParses)
      BY <1>0, <2>1, <3>2 DEF RegistryFollowsFile, ExpandAll
    <3>. QED
      BY <3>1, <3>2
  <2>. QED
    BY <1>0, <2>1, <2>3, <2>4 DEF ProvMoves
<1>2. CASE NewProvider
  BY <1>02, <1>2 DEF NewProvider
<1>3. CASE BackToProviders
  BY <1>02, <1>3 DEF BackToProviders
<1>4. ASSUME NEW n \in ProviderNames, NEW page \in {"detail", "edit"}, OpenProvider(page, n)
      PROVE  ProvMoves
  BY <1>02, <1>4 DEF OpenProvider
<1>5. ASSUME NEW n \in ProviderNames, ApplyCatalog(n) PROVE ProvMoves
  BY <1>03, <1>5 DEF ApplyCatalog
<1>6. ASSUME NEW field \in {"name", "key", "base", "models"}, UpdateForm(field) PROVE ProvMoves
  <2>1. UNCHANGED <<provFile, provParses, provState, provRead, provCalls>> /\ CountProvOp
    BY <1>6 DEF UpdateForm
  <2>. QED
    BY <1>03, <2>1
<1>7. CASE HandleSave
  <2>1. /\ CountProvOp
        /\ UNCHANGED <<provFile, provParses, provState, provRead>>
        /\ \E do, name, entry : Calls(do, name, entry)
    BY <1>7 DEF HandleSave
  <2>. QED
    BY <1>0, <1>01, <2>1, OneCallMore
<1>8. ASSUME NEW n \in ProviderNames, RemoveProvider(n) PROVE ProvMoves
  <2>1. /\ CountProvOp
        /\ UNCHANGED <<provFile, provParses, provState, provRead>>
        /\ Calls("remove", n, NoEntry)
    BY <1>8 DEF RemoveProvider
  <2>. QED
    BY <1>0, <1>01, <2>1, OneCallMore
<1>9. ASSUME NEW c \in provCalls, ProviderSaved(c) PROVE ProvMoves
  <2>1. /\ provFile' = [provFile EXCEPT ![c.name] = c.entry]
        /\ provState' = ExpandAll(provFile') /\ provOps' = provOps
    BY <1>9 DEF ProviderSaved, MutateFile
  <2>2. GoTo("list", "", provCalls \ {c}) \/ Stay(provCalls \ {c})
    BY <1>9 DEF ProviderSaved
  <2>3. CallsApart(provCalls \ {c}, provOps)
    BY <1>0, OneCallFewer
  <2>4. CallsApart(provCalls', provOps) /\ CallIds(provCalls') = CallIds(provCalls \ {c})
    BY <2>2, <2>3, PagesKeepCalls
  <2>5. RegistryFollowsFile'
    BY <2>1 DEF RegistryFollowsFile, ExpandAll
  <2>. QED
    BY <1>0, <2>1, <2>4, <2>5 DEF ProvMoves
<1>10. ASSUME NEW c \in provCalls, ProviderRefused(c) PROVE ProvMoves
  <2>1. /\ provCalls' = provCalls \ {c}
        /\ UNCHANGED <<provFile, provParses, provState, provRead, provOps>>
    BY <1>10 DEF ProviderRefused
  <2>. QED
    BY <1>0, <1>01, <2>1, OneCallFewer
<1>11. CASE EditFile
  <2>1. CountProvOp /\ provRead' = FALSE /\ UNCHANGED provCalls
    BY <1>11 DEF EditFile
  <2>2. provOps' = provOps + 1
    BY <2>1 DEF CountProvOp
  <2>3. provOps' \in Nat /\ \A i \in 0..provOps : i \in 0..provOps' /\ i # provOps'
    BY ONLY <1>0, <2>2
  <2>4. CallsApart(provCalls', provOps')
    BY <1>0, <2>1, <2>3 DEF CallsApart
  <2>. QED
    BY <2>1, <2>3, <2>4 DEF ProvMoves, RegistryFollowsFile
<1>12. CASE UNCHANGED provVars
  BY <1>0, <1>01, <1>12 DEF provVars
<1>. QED
  BY <1>1, <1>2, <1>3, <1>4, <1>5, <1>6, <1>7, <1>8, <1>9, <1>10, <1>11, <1>12 DEF ProvNext

ProvSpec == ProvInit /\ [][ProvNext]_provVars

LEMMA ProvInvHolds == ProvSpec => []ProvInv
<1>1. ProvMoves => ProvInv'
  BY DEF ProvMoves, ProvInv
<1>. QED
  BY <1>1, ProvStart, ProvStep, PTL DEF ProvSpec

(* What models are resolved with is the file, expanded, however calls and  *)
(* edits by hand follow each other (providers.go: refresh; mutate).        *)
THEOREM RegistryFollows == ProvSpec => []RegistryFollowsFile
<1>1. ProvInv => RegistryFollowsFile
  BY DEF ProvInv
<1>. QED
  BY <1>1, ProvInvHolds, PTL

(* An answered call has changed its own entry of the file, at most, for    *)
(* any names and any number of calls under way (providers_mutations.go).   *)
THEOREM OthersKeep == ProvSpec => OthersKeepTheirReference
<1>. DEFINE A == \A c \in Answered(provCalls'), n \in ProviderNames :
                   n # c.name => provFile'[n] = provFile[n]
<1>1. ProvInv /\ ProvMoves => A
  <2> SUFFICES ASSUME ProvInv, ProvMoves,
                      NEW c \in Answered(provCalls'), NEW n \in ProviderNames, n # c.name
               PROVE  provFile'[n] = provFile[n]
    OBVIOUS
  <2>1. c \in provCalls /\ c.id \notin CallIds(provCalls') /\ c.id \in CallIds(provCalls)
    BY DEF Answered, CallIds
  <2>2. ASSUME NEW d \in provCalls, CallIds(provCalls') = CallIds(provCalls \ {d}) PROVE c = d
    BY <2>1, <2>2 DEF CallIds
  <2>3. ASSUME NEW e PROVE [provFile EXCEPT ![c.name] = e][n] = provFile[n]
    OBVIOUS
  <2>. QED
    BY <2>1, <2>2, <2>3 DEF ProvMoves
<1>2. ProvSpec => [][A]_provVars
  BY <1>1, ProvStep, ProvInvHolds, PTL DEF ProvSpec
<1>. QED
  BY <1>2 DEF OthersKeepTheirReference

(* The sets the registry and its pages stay in: a model that is written is *)
(* not blank, and a key that was read is not a reference.                  *)
EntryKeys     == {"none", "", "${VAR}", "secret", "typed"}
WrittenEntry  == [key : EntryKeys, base : {"", "base"}, models : Seq({"m"})]
ExpandedEntry == [key : EntryKeys \ {"${VAR}"}, base : {"", "base"}, models : Seq({"m"})]
FormEntry     == [name : ProviderNames \cup {""}, key : EntryKeys, base : {"", "base"},
                  models : Seq({"", "m"})]
ProvPlace     == [page : {"list", "detail", "new", "edit", "not found"},
                  name : ProviderNames \cup {""}]

CarriesEntries(calls) == \A c \in calls : c.name \in ProviderNames /\ c.entry \in WrittenEntry

ProvFilesTyped == /\ provFile \in [ProviderNames -> WrittenEntry]
                  /\ provState \in [ProviderNames -> ExpandedEntry]
                  /\ provList \in [ProviderNames -> ExpandedEntry]
ProvPageTyped  == provForm \in FormEntry /\ provAt \in ProvPlace

ProvTyped == /\ ProvFilesTyped /\ ProvPageTyped /\ CarriesEntries(provCalls)
             /\ provOps \in 0..MaxProviderOps

LEMMA EntriesOfKeys ==
  /\ <<>> \in Seq({"m"}) /\ <<>> \in Seq({"", "m"}) /\ <<"m">> \in Seq({"m"})
  /\ NoEntry \in WrittenEntry /\ Entry("${VAR}", "base", <<"m">>) \in WrittenEntry
  /\ \A key \in {"${VAR}", "typed"} : Entry(key, "", <<>>) \in WrittenEntry
  /\ BlankProvider \in FormEntry
<1>1. <<>> \in Seq({"m"}) /\ <<>> \in Seq({"", "m"}) /\ <<"m">> \in Seq({"m"})
  BY EmptySeq
<1>. QED
  BY <1>1 DEF NoEntry, Entry, WrittenEntry, EntryKeys, BlankProvider, FormEntry

(* A written entry is expanded when it is read.                            *)
LEMMA FilesExpand ==
  ASSUME NEW file \in [ProviderNames -> WrittenEntry]
  PROVE  ExpandAll(file) \in [ProviderNames -> ExpandedEntry]
<1>1. ASSUME NEW e \in WrittenEntry PROVE Expand(e) \in ExpandedEntry
  BY DEF Expand, WrittenEntry, ExpandedEntry, EntryKeys
<1>. QED
  BY <1>1 DEF ExpandAll

(* What is sent of the rows of a form has no blank one.                    *)
LEMMA RowsFilled ==
  ASSUME NEW models \in Seq({"", "m"})
  PROVE  Filled(models) \in Seq({"m"})
<1>. DEFINE row == [i \in DOMAIN models |-> IF models[i] = "" THEN <<>> ELSE <<models[i]>>]
            n   == Len(models)
<1>1. n \in Nat /\ DOMAIN models = 1..n
  BY LenProperties
<1>2. ASSUME NEW i \in 1..n
      PROVE  (IF models[i] = "" THEN <<>> ELSE <<models[i]>>) \in Seq({"m"})
  <2>1. models[i] \in {"", "m"}
    BY ElementOfSeq, <1>1
  <2>. QED
    BY <2>1, EntriesOfKeys
<1>. HIDE DEF n
<1>3. row \in [1..n -> Seq({"m"})]
  BY <1>1, <1>2
<1>4. row \in Seq(Seq({"m"}))
  <2>. HIDE DEF row
  <2>. QED
    BY ONLY <1>1, <1>3, ListOfFunction
<1>5. FlattenSeq(row) \in Seq({"m"})
  BY ONLY <1>4, Flattening
<1>. QED
  BY <1>5 DEF Filled

(* Calls are carried along by the pages; what a page makes of the form is  *)
(* an entry of its list, or nothing.                                       *)
LEMMA PagesTyped ==
  ASSUME ProvFilesTyped, ProvPageTyped,
         NEW calls, NEW k, CallsApart(calls, k), CarriesEntries(calls),
         \/ Stay(calls)
         \/ \E page \in {"list", "new", "not found"} : GoTo(page, "", calls)
         \/ \E page \in {"detail", "edit"}, n \in ProviderNames : GoTo(page, n, calls)
  PROVE  ProvPageTyped' /\ CarriesEntries(provCalls')
<1>. DEFINE left == {[c EXCEPT !.here = FALSE] : c \in calls}
<1>1. CarriesEntries(left)
  <2> SUFFICES ASSUME NEW c \in calls
               PROVE  /\ [c EXCEPT !.here = FALSE].name \in ProviderNames
                      /\ [c EXCEPT !.here = FALSE].entry \in WrittenEntry
    BY DEF CarriesEntries
  <2>1. {"name", "entry", "here"} \subseteq DOMAIN c
    BY DEF CallsApart, CallFields
  <2>2. [c EXCEPT !.here = FALSE].name = c.name /\ [c EXCEPT !.here = FALSE].entry = c.entry
    BY <2>1
  <2>. QED
    BY <2>2 DEF CarriesEntries
<1>2. CASE Stay(calls)
  BY <1>2 DEF Stay, ProvPageTyped
<1>3. ASSUME NEW page \in {"list", "new", "not found", "detail", "edit"},
             NEW n \in ProviderNames \cup {""}, page = "edit" => n \in ProviderNames,
             GoTo(page, n, calls)
      PROVE  ProvPageTyped' /\ CarriesEntries(provCalls')
  <2>1. provCalls' = left /\ provAt' = [page |-> page, name |-> n]
    BY <1>3 DEF GoTo
  <2>2. provAt' \in ProvPlace
    BY <2>1 DEF ProvPlace
  <2>3. provForm' \in FormEntry
    <3>1. CASE page # "edit"
      BY <1>3, <3>1, EntriesOfKeys DEF GoTo
    <3>2. CASE page = "edit"
      <4>1. provForm' = [name |-> n, key |-> provList[n].key, base |-> provList[n].base,
                         models |-> provList[n].models]
        BY <1>3, <3>2 DEF GoTo
      <4>2. n \in ProviderNames /\ provList[n] \in ExpandedEntry
        BY <1>3, <3>2 DEF ProvFilesTyped
      <4>3. provList[n].models \in Seq({"m"}) /\ provList[n].key \in EntryKeys
            /\ provList[n].base \in {"", "base"}
        BY <4>2 DEF ExpandedEntry
      <4>4. provList[n].models \in Seq({"", "m"})
        <5>1. {"m"} \subseteq {"", "m"}
          OBVIOUS
        <5>. QED
          BY <4>3, <5>1, SeqMonotonic
      <4>. QED
        BY <4>1, <4>2, <4>3, <4>4 DEF FormEntry
    <3>. QED
      BY <3>1, <3>2
  <2>. QED
    BY <1>1, <2>1, <2>2, <2>3 DEF ProvPageTyped
<1>. QED
  BY <1>2, <1>3

(* What an edit makes of the rows of models.                               *)
LEMMA ModelRowsEdited ==
  ASSUME NEW models \in Seq({"", "m"})
  PROVE  /\ Append(models, "") \in Seq({"", "m"})
         /\ \A i \in DOMAIN models : /\ [models EXCEPT ![i] = "m"] \in Seq({"", "m"})
                                     /\ RemoveAt(models, i) \in Seq({"", "m"})
<1>1. DOMAIN models = 1..Len(models)
  BY LenProperties
<1>2. Append(models, "") \in Seq({"", "m"})
  BY AppendProperties
<1>3. ASSUME NEW i \in 1..Len(models)
      PROVE  [models EXCEPT ![i] = "m"] \in Seq({"", "m"}) /\ RemoveAt(models, i) \in Seq({"", "m"})
  BY ExceptSeq, Removing
<1>. QED
  BY <1>1, <1>2, <1>3

LEMMA FormEdited ==
  ASSUME provForm \in FormEntry, NEW field \in {"name", "key", "base", "models"}, UpdateForm(field)
  PROVE  provForm' \in FormEntry
<1>1. /\ provForm = [name |-> provForm.name, key |-> provForm.key, base |-> provForm.base,
                     models |-> provForm.models]
      /\ provForm.name \in ProviderNames \cup {""} /\ provForm.key \in EntryKeys
      /\ provForm.base \in {"", "base"} /\ provForm.models \in Seq({"", "m"})
  BY DEF FormEntry
<1>2. \/ \E n \in ProviderNames : provForm' = [provForm EXCEPT !.name = n]
      \/ \E k \in {"${VAR}", "typed"} : provForm' = [provForm EXCEPT !.key = k]
      \/ provForm' = [provForm EXCEPT !.base = "base"]
      \/ provForm' = [provForm EXCEPT !.models = Append(provForm.models, "")]
      \/ \E i \in DOMAIN provForm.models : provForm' = [provForm EXCEPT !.models[i] = "m"]
      \/ \E i \in DOMAIN provForm.models :
           provForm' = [provForm EXCEPT !.models = RemoveAt(provForm.models, i)]
  BY DEF UpdateForm
<1>3. CASE \E n \in ProviderNames : provForm' = [provForm EXCEPT !.name = n]
  BY <1>1, <1>3 DEF FormEntry
<1>4. CASE \/ \E k \in {"${VAR}", "typed"} : provForm' = [provForm EXCEPT !.key = k]
           \/ provForm' = [provForm EXCEPT !.base = "base"]
  BY <1>1, <1>4 DEF FormEntry, EntryKeys
<1>5. ASSUME NEW t \in Seq({"", "m"}), provForm' = [provForm EXCEPT !.models = t]
      PROVE  provForm' \in FormEntry
  BY <1>1, <1>5 DEF FormEntry
<1>6. CASE \E i \in DOMAIN provForm.models : provForm' = [provForm EXCEPT !.models[i] = "m"]
  <2>1. PICK i \in DOMAIN provForm.models : provForm' = [provForm EXCEPT !.models[i] = "m"]
    BY <1>6
  <2>2. [provForm.models EXCEPT ![i] = "m"] \in Seq({"", "m"})
    BY <1>1, ModelRowsEdited
  <2>3. provForm' = [provForm EXCEPT !.models = [provForm.models EXCEPT ![i] = "m"]]
    BY <1>1, <2>1
  <2>. QED
    BY <1>5, <2>2, <2>3
<1>7. CASE provForm' = [provForm EXCEPT !.models = Append(provForm.models, "")]
  BY <1>1, <1>5, <1>7, ModelRowsEdited
<1>8. CASE \E i \in DOMAIN provForm.models :
             provForm' = [provForm EXCEPT !.models = RemoveAt(provForm.models, i)]
  BY <1>1, <1>5, <1>8, ModelRowsEdited
<1>. QED
  BY <1>2, <1>3, <1>4, <1>6, <1>7, <1>8

LEMMA ProvTypedStart == ProvInit => ProvTyped
<1> SUFFICES ASSUME ProvInit PROVE ProvTyped
  OBVIOUS
<1>1. provFile \in [ProviderNames -> WrittenEntry]
  <2>1. PICK n \in ProviderNames, key \in {"${VAR}", "typed"} :
          provFile = [[m \in ProviderNames |-> Entry("${VAR}", "", <<>>)]
                        EXCEPT ![n] = Entry(key, "", <<>>)]
    BY DEF ProvInit
  <2>2. Entry("${VAR}", "", <<>>) \in WrittenEntry /\ Entry(key, "", <<>>) \in WrittenEntry
    BY EntriesOfKeys
  <2>. QED
    BY <2>1, <2>2
<1>2. ExpandAll(provFile) \in [ProviderNames -> ExpandedEntry]
  BY <1>1, FilesExpand
<1>3. ProvFilesTyped
  BY <1>1, <1>2 DEF ProvInit, ProvFilesTyped
<1>4. ProvPageTyped
  BY EntriesOfKeys DEF ProvInit, ProvPageTyped, ProvPlace
<1>5. CarriesEntries(provCalls) /\ provOps \in 0..MaxProviderOps
  <2>1. provCalls = {} /\ provOps = 0
    BY DEF ProvInit
  <2>2. 0 \in 0..MaxProviderOps
    BY ProviderAssumption, OneMore DEF ProviderAssumption
  <2>. QED
    BY <2>1, <2>2 DEF CarriesEntries
<1>. QED
  BY <1>3, <1>4, <1>5 DEF ProvTyped

LEMMA ProvTypedStep == ProvInv /\ ProvTyped /\ [ProvNext]_provVars => ProvTyped'
<1> SUFFICES ASSUME ProvInv, ProvTyped, [ProvNext]_provVars PROVE ProvTyped'
  OBVIOUS
<1>0. /\ ProvFilesTyped /\ ProvPageTyped /\ CarriesEntries(provCalls)
      /\ provOps \in 0..MaxProviderOps /\ CallsApart(provCalls, provOps)
  BY DEF ProvTyped, ProvInv
<1>01. ASSUME CountProvOp PROVE provOps' \in 0..MaxProviderOps
  BY <1>0, <1>01, OneMore, ProviderAssumption DEF CountProvOp, ProviderAssumption
(* What only leads to another page.                                        *)
<1>02. ASSUME NEW page, NEW n, GoTo(page, n, provCalls),
              \/ page \in {"list", "new"} /\ n = ""
              \/ page \in {"detail", "edit"} /\ n \in ProviderNames,
              UNCHANGED <<provFile, provState, provList, provOps>>
       PROVE  ProvTyped'
  <2>1. ProvPageTyped' /\ CarriesEntries(provCalls')
    <3>1. CASE page \in {"detail", "edit"} /\ n \in ProviderNames
      BY <1>0, <1>02, <3>1, PagesTyped
    <3>2. CASE page \in {"list", "new"} /\ n = ""
      BY <1>0, <1>02, <3>2, PagesTyped
    <3>. QED
      BY <1>02, <3>1, <3>2
  <2>. QED
    BY <1>0, <1>02, <2>1 DEF ProvTyped, ProvFilesTyped
(* An edit of a form, or nothing.                                          *)
<1>03. ASSUME UNCHANGED <<provFile, provState, provList, provAt, provCalls>>,
              provForm' \in FormEntry, provOps' \in 0..MaxProviderOps
       PROVE  ProvTyped'
  BY <1>0, <1>03 DEF ProvTyped, ProvFilesTyped, ProvPageTyped, CarriesEntries
(* A call of a form.                                                       *)
<1>04. ASSUME NEW do, NEW n \in ProviderNames, NEW e \in WrittenEntry, Calls(do, n, e), CountProvOp,
              UNCHANGED <<provFile, provState, provList, provAt, provForm>>
       PROVE  ProvTyped'
  <2>1. CarriesEntries(provCalls')
    BY <1>0, <1>04 DEF Calls, CarriesEntries
  <2>. QED
    BY <1>0, <1>01, <1>04, <2>1 DEF ProvTyped, ProvFilesTyped, ProvPageTyped
<1>1. CASE FetchProviders
  <2>1. /\ provState' \in [ProviderNames -> ExpandedEntry]
        /\ provList' = provState' /\ UNCHANGED <<provFile, provOps>>
    BY <1>0, <1>1, FilesExpand DEF FetchProviders, ProvFilesTyped
  <2>2. GoTo("not found", "", provCalls) \/ Stay(provCalls)
    BY <1>1 DEF FetchProviders
  <2>3. ProvPageTyped' /\ CarriesEntries(provCalls')
    BY <1>0, <2>2, PagesTyped
  <2>. QED
    BY <1>0, <2>1, <2>3 DEF ProvTyped, ProvFilesTyped
<1>2. CASE NewProvider
  BY <1>02, <1>2 DEF NewProvider
<1>3. CASE BackToProviders
  BY <1>02, <1>3 DEF BackToProviders
<1>4. ASSUME NEW n \in ProviderNames, NEW page \in {"detail", "edit"}, OpenProvider(page, n)
      PROVE  ProvTyped'
  BY <1>02, <1>4 DEF OpenProvider
<1>5. ASSUME NEW n \in ProviderNames, ApplyCatalog(n) PROVE ProvTyped'
  <2>1. provForm' \in FormEntry
    BY <1>0, <1>5 DEF ApplyCatalog, ProvPageTyped, FormEntry
  <2>. QED
    BY <1>01, <1>03, <1>5, <2>1 DEF ApplyCatalog
<1>6. ASSUME NEW field \in {"name", "key", "base", "models"}, UpdateForm(field) PROVE ProvTyped'
  <2>1. UNCHANGED <<provFile, provState, provList, provAt, provCalls>> /\ CountProvOp
    BY <1>6 DEF UpdateForm
  <2>2. provForm' \in FormEntry
    BY <1>0, <1>6, FormEdited DEF ProvPageTyped
  <2>. QED
    BY <1>01, <1>03, <2>1, <2>2
<1>7. CASE HandleSave
  <2>. DEFINE e == Entry(provForm.key, provForm.base, Filled(provForm.models))
  <2>1. provForm.name \in ProviderNames
    BY <1>0, <1>7 DEF HandleSave, ProvPageTyped, FormEntry
  <2>2. Filled(provForm.models) \in Seq({"m"})
    BY <1>0, RowsFilled DEF ProvPageTyped, FormEntry
  <2>3. e \in WrittenEntry
    BY <1>0, <2>2 DEF Entry, WrittenEntry, ProvPageTyped, FormEntry
  <2>4. \E do : Calls(do, provForm.name, e)
    BY <1>7 DEF HandleSave
  <2>. HIDE DEF e
  <2>. QED
    BY <1>04, <1>7, <2>1, <2>3, <2>4 DEF HandleSave
<1>8. ASSUME NEW n \in ProviderNames, RemoveProvider(n) PROVE ProvTyped'
  BY <1>04, <1>8, EntriesOfKeys DEF RemoveProvider
<1>9. ASSUME NEW c \in provCalls, ProviderSaved(c) PROVE ProvTyped'
  <2>1. c.name \in ProviderNames /\ c.entry \in WrittenEntry
    BY <1>0 DEF CarriesEntries
  <2>2. provFile' \in [ProviderNames -> WrittenEntry]
    BY <1>0, <1>9, <2>1 DEF ProviderSaved, MutateFile, ProvFilesTyped
  <2>3. provState' \in [ProviderNames -> ExpandedEntry]
    <3>1. provState' = ExpandAll(provFile')
      BY <1>9 DEF ProviderSaved, MutateFile
    <3>. QED
      BY <2>2, <3>1, FilesExpand
  <2>4. GoTo("list", "", provCalls \ {c}) \/ Stay(provCalls \ {c})
    BY <1>9 DEF ProviderSaved
  <2>5. CallsApart(provCalls \ {c}, provOps) /\ CarriesEntries(provCalls \ {c})
    BY <1>0, OneCallFewer DEF CarriesEntries
  <2>6. ProvPageTyped' /\ CarriesEntries(provCalls')
    BY <1>0, <2>4, <2>5, PagesTyped
  <2>. QED
    BY <1>0, <1>9, <2>2, <2>3, <2>6 DEF ProvTyped, ProvFilesTyped, ProviderSaved
<1>10. ASSUME NEW c \in provCalls, ProviderRefused(c) PROVE ProvTyped'
  BY <1>0, <1>10 DEF ProviderRefused, ProvTyped, ProvFilesTyped, ProvPageTyped, CarriesEntries
<1>11. CASE EditFile
  <2>1. CountProvOp /\ UNCHANGED <<provState, provList, provAt, provForm, provCalls>>
    BY <1>11 DEF EditFile
  <2>2. \/ UNCHANGED provFile
        \/ \E n \in ProviderNames : \E e \in {NoEntry, Entry("${VAR}", "base", <<"m">>)} :
             provFile' = [provFile EXCEPT ![n] = e]
    BY <1>11 DEF EditFile
  <2>3. provFile' \in [ProviderNames -> WrittenEntry]
    BY <1>0, <2>2, EntriesOfKeys DEF ProvFilesTyped
  <2>. QED
    BY <1>0, <1>01, <2>1, <2>3 DEF ProvTyped, ProvFilesTyped, ProvPageTyped, CarriesEntries
<1>12. CASE UNCHANGED provVars
  BY <1>0, <1>03, <1>12 DEF provVars, ProvPageTyped
<1>. QED
  BY <1>1, <1>2, <1>3, <1>4, <1>5, <1>6, <1>7, <1>8, <1>9, <1>10, <1>11, <1>12 DEF ProvNext

(* Whatever is typed, saved, refused, removed or edited by hand, nothing   *)
(* blank is written into the file and no reference to the environment is   *)
(* among the keys that are used (provider-form.tsx: buildPayload;          *)
(* providers.go: refresh).                                                 *)
THEOREM ProvTypeHolds == ProvSpec => []ProvTypeOK
<1>1. ProvInv /\ ProvTyped /\ [ProvNext]_provVars => (ProvInv /\ ProvTyped)'
  BY ProvStep, ProvTypedStep DEF ProvMoves, ProvInv
<1>2. ProvTyped => ProvTypeOK
  <2> SUFFICES ASSUME ProvTyped PROVE ProvTypeOK
    OBVIOUS
  <2>1. ASSUME NEW n \in ProviderNames
        PROVE  /\ provFile[n].key \in EntryKeys /\ provState[n].key # "${VAR}"
               /\ provFile[n].models \in Seq({"m"})
    BY DEF ProvTyped, ProvFilesTyped, WrittenEntry, ExpandedEntry
  <2>2. ASSUME NEW n \in ProviderNames, NEW i \in DOMAIN provFile[n].models
        PROVE  provFile[n].models[i] # ""
    <3>1. i \in 1..Len(provFile[n].models)
      BY <2>1, <2>2, LenProperties
    <3>2. provFile[n].models[i] \in {"m"}
      BY <2>1, <3>1, ElementOfSeq
    <3>. QED
      BY <3>2
  <2>3. /\ provAt.page \in {"list", "detail", "new", "edit", "not found"}
        /\ provForm.name \in ProviderNames \cup {""} /\ provOps \in 0..MaxProviderOps
    BY DEF ProvTyped, ProvPageTyped, ProvPlace, FormEntry
  <2>. QED
    BY <2>1, <2>2, <2>3 DEF ProvTypeOK, EntryKeys
<1>. QED
  BY <1>1, <1>2, ProvStart, ProvTypedStart, PTL DEF ProvSpec

-----------------------------------------------------------------------------
(* The pages of images, the registry and the table.                        *)

LEMMA DigestNumbers == MaxTag \in Nat /\ MaxDigest \in Nat /\ 1 \in 0..MaxDigest /\ MaxImageOps \in Nat
BY ImageAssumption DEF ImageAssumption

(* Among tags there is a first and a last one.                             *)
LEMMA TagsInOrder ==
  ASSUME NEW refs \in SUBSET ImageRefs, refs # {}
  PROVE  PickPrimaryRef(refs) \in refs /\ LastOf(refs) \in refs
<1>. DEFINE T == {r.tag : r \in refs}
            back == {MaxTag - t : t \in T}
<1>1. \A r \in refs : r.tag \in 0..MaxTag
  BY DEF ImageRefs
<1>2. T \in SUBSET Nat /\ T # {} /\ \A t \in T : t \in 0..MaxTag
  BY <1>1, DigestNumbers
<1>3. back \in SUBSET Nat /\ back # {}
  BY <1>2, DigestNumbers
<1>4. PICK t \in T : \A k \in T : t <= k
  BY <1>2, LeastNumber
<1>5. PICK u \in back : \A k \in back : u <= k
  BY <1>3, LeastNumber
<1>6. PICK w \in T : u = MaxTag - w
  BY <1>5
<1>7. \A k \in T : w >= k
  <2> SUFFICES ASSUME NEW k \in T PROVE w >= k
    OBVIOUS
  <2>1. u <= MaxTag - k
    BY <1>5
  <2>2. k \in 0..MaxTag /\ w \in 0..MaxTag
    BY <1>2, <1>6
  <2>. QED
    BY ONLY <2>1, <2>2, <1>6, DigestNumbers
<1>8. \E r \in refs : \A s \in refs : r.tag <= s.tag
  BY <1>4
<1>9. \E r \in refs : \A s \in refs : r.tag >= s.tag
  BY <1>6, <1>7
<1>. QED
  BY <1>8, <1>9 DEF PickPrimaryRef, LastOf

LEMMA VersionsOfTags ==
  ASSUME NEW list \in Listings, NEW n
  PROVE  /\ \A v \in Versions(list, n) : v.refs \subseteq ImageRefs /\ v.refs # {} /\ v.primary \in v.refs
                                          /\ v.digest \in 0..MaxDigest
         /\ \A r \in ListedImages(list) : r.name = n => \E v \in Versions(list, n) : v.digest = list[r]
<1>. DEFINE named == {r \in ListedImages(list) : r.name = n}
            Refs(d) == {r \in named : list[r] = d}
            V(r) == [digest |-> list[r], refs |-> Refs(list[r]), primary |-> PickPrimaryRef(Refs(list[r]))]
<1>1. Versions(list, n) = {V(r) : r \in named}
  BY DEF Versions
<1>2. \A r \in named : Refs(list[r]) \subseteq ImageRefs /\ Refs(list[r]) # {}
  BY DEF ListedImages
<1>3. \A r \in named : PickPrimaryRef(Refs(list[r])) \in Refs(list[r])
  BY <1>2, TagsInOrder
<1>4. \A r \in named : list[r] \in 0..MaxDigest
  BY DEF ListedImages, Listings
<1>. HIDE DEF Refs, named
<1>5. \A r \in named : /\ V(r).refs = Refs(list[r]) /\ V(r).digest = list[r]
                      /\ V(r).primary = PickPrimaryRef(Refs(list[r]))
  OBVIOUS
<1>. HIDE DEF V
<1>6. \A r \in ListedImages(list) : r.name = n => r \in named
  BY DEF named
<1>. QED
  BY <1>1, <1>2, <1>3, <1>4, <1>5, <1>6

LEMMA CardsOfTags ==
  ASSUME NEW list \in Listings
  PROVE  \A g \in GroupImagesByName(list) : g.name \in ImageNames /\ g.primary \in ImageRefs
<1>. DEFINE Newest(vs) == CHOOSE v \in vs : \A w \in vs : v.digest >= w.digest
            Tip(n) == {r \in ListedImages(list) : r.name = n /\ r.tag = Latest}
            Prime(n) == IF Tip(n) # {} THEN CHOOSE r \in Tip(n) : TRUE ELSE Newest(Versions(list, n)).primary
            Card(n) == [name |-> n, digests |-> Versions(list, n), primary |-> Prime(n)]
<1>1. GroupImagesByName(list) = {Card(r.name) : r \in ListedImages(list)}
  BY DEF GroupImagesByName
<1>2. ASSUME NEW r \in ListedImages(list)
      PROVE  r.name \in ImageNames /\ Prime(r.name) \in ImageRefs
  <2>1. r \in ImageRefs /\ r.name \in ImageNames
    BY DEF ListedImages, ImageRefs
  <2>2. CASE Tip(r.name) # {}
    <3>1. Prime(r.name) \in Tip(r.name)
      BY <2>2
    <3>. QED
      BY <2>1, <3>1 DEF ListedImages
  <2>3. CASE Tip(r.name) = {}
    <3>. DEFINE vs == Versions(list, r.name)
                D == {v.digest : v \in vs}
    <3>1. /\ vs # {}
          /\ \A v \in vs : v.primary \in ImageRefs /\ v.digest \in 0..MaxDigest
      BY VersionsOfTags
    <3>. HIDE DEF vs
    <3>. DEFINE back == {MaxDigest - v.digest : v \in vs}
    <3>2. back \in SUBSET Nat /\ back # {}
      BY <3>1, DigestNumbers
    <3>3. PICK u \in back : \A k \in back : u <= k
      BY <3>2, LeastNumber
    <3>4. PICK v \in vs : u = MaxDigest - v.digest
      BY <3>3
    <3>5. \A w \in vs : v.digest >= w.digest
      <4> SUFFICES ASSUME NEW w \in vs PROVE v.digest >= w.digest
        OBVIOUS
      <4>1. u <= MaxDigest - w.digest
        BY <3>3
      <4>. QED
        BY <4>1, <3>1, <3>4, DigestNumbers
    <3>6. Newest(vs) \in vs
      BY <3>5
    <3>. QED
      BY <2>1, <2>3, <3>1, <3>6 DEF vs
  <2>. QED
    BY <2>1, <2>2, <2>3
<1>. HIDE DEF Prime
<1>. QED
  BY <1>1, <1>2

(* The digest on screen is one of the listing, with tags of its own.       *)
LEMMA SelectedTags ==
  ASSUME NEW list \in Listings, NEW r \in ListedImages(list)
  PROVE  /\ Selected(list, r).refs \subseteq ImageRefs /\ Selected(list, r).refs # {}
         /\ ProxyRef(list, r) \in ImageRefs
<1>1. Selected(list, r) \in Versions(list, r.name)
  <2>1. \E v \in Versions(list, r.name) : v.digest = list[r]
    BY VersionsOfTags
  <2>. QED
    BY <2>1 DEF Selected
<1>. QED
  BY <1>1, VersionsOfTags DEF ProxyRef

Removals == [ref : ImageRefs, page : ImageRefs \cup {NoRef},
             at : {"sent", "inspected", "removed"}, digest : 0..MaxDigest]

(* While no tag is moved under a removal: what a removal was told of its   *)
(* tag still holds, unless another one has taken the tag.                  *)
ToldTrue ==
  ~imgRaced => \A c \in imgRemovals :
    c.at = "inspected" => c.digest = imgRegistry[c.ref] \/ imgRegistry[c.ref] = Absent

ImgInv == ImgTypeOK /\ ToldTrue /\ NoGhosts

LEMMA ImgStart == ImgInit => ImgInv
<1> SUFFICES ASSUME ImgInit PROVE ImgInv
  OBVIOUS
<1>1. imgRegistry \in Listings /\ imgTable = imgRegistry /\ imgSeen = imgRegistry
  <2>1. PICK full : imgRegistry = [r \in ImageRefs |-> IF r.name = full \/ r.tag = Latest THEN 1 ELSE Absent]
    BY DEF ImgInit
  <2>2. 1 \in 0..MaxDigest /\ Absent \in 0..MaxDigest
    BY DigestNumbers DEF Absent
  <2>3. imgRegistry \in Listings
    BY <2>1, <2>2 DEF Listings
  <2>. QED
    BY <2>3 DEF ImgInit
<1>2. imgPage = NoRef /\ imgAsking = "" /\ imgRemovals = {} /\ imgLast = NoRef /\ imgPulls = {} /\ imgRaced = FALSE
  BY DEF ImgInit
<1>3. imgOps \in 0..MaxImageOps
  <2>1. imgOps = 0
    BY DEF ImgInit
  <2>. QED
    BY <2>1, DigestNumbers
<1>4. ImgTypeOK
  BY <1>1, <1>2, <1>3 DEF ImgTypeOK
<1>. QED
  BY <1>1, <1>2, <1>4 DEF ImgInv, ToldTrue, NoGhosts

LEMMA RemovalFields ==
  ASSUME NEW c \in Removals, NEW at \in {"sent", "inspected", "removed"}, NEW d \in 0..MaxDigest
  PROVE  LET e == [c EXCEPT !.at = at, !.digest = d] IN
         e \in Removals /\ e.at = at /\ e.digest = d /\ e.ref = c.ref
BY DEF Removals

(* What only moves the operator or asks for more.                          *)
LEMMA PagesOnly ==
  ASSUME ImgInv, UNCHANGEDDaemon,
         imgSeen' \in Listings, imgPage' \in ImageRefs \cup {NoRef}, imgAsking' \in ImageNames \cup {""},
         imgPulls' \subseteq ImageRefs, imgLast' \in ImageRefs \cup {NoRef}, imgOps' \in 0..MaxImageOps,
         imgRemovals \subseteq imgRemovals',
         \A c \in imgRemovals' : c \in imgRemovals \/ (c \in Removals /\ c.at = "sent")
  PROVE  ImgInv'
<1>1. UNCHANGED <<imgExecutor, imgRegistry, imgTable, imgRaced>>
  BY DEF UNCHANGEDDaemon
<1>2. imgRemovals' \subseteq Removals
  BY DEF ImgInv, ImgTypeOK, Removals
<1>3. ImgTypeOK'
  BY <1>1, <1>2 DEF ImgInv, ImgTypeOK, Removals, Listings
<1>4. ToldTrue'
  <2>1. "sent" # "inspected"
    OBVIOUS
  <2>. QED
    BY <1>1, <2>1 DEF ImgInv, ToldTrue
<1>5. NoGhosts'
  BY <1>1 DEF ImgInv, NoGhosts, ListedImages
<1>. QED
  BY <1>3, <1>4, <1>5 DEF ImgInv

LEMMA RemovalsSent ==
  ASSUME ImgInv, NEW refs \in SUBSET ImageRefs, NEW last \in ImageRefs, SendRemovals(refs, last)
  PROVE  ImgInv'
<1>. DEFINE sent(r) == [ref |-> r, page |-> imgPage, at |-> "sent", digest |-> Absent]
<1>1. Absent \in 0..MaxDigest
  BY DigestNumbers DEF Absent
<1>2. \A r \in refs : sent(r) \in Removals /\ sent(r).at = "sent"
  BY <1>1 DEF ImgInv, ImgTypeOK, Removals
<1>3. imgRemovals' = imgRemovals \cup {sent(r) : r \in refs}
  BY DEF SendRemovals
<1>. HIDE DEF sent
<1>4. imgOps' \in 0..MaxImageOps
  <2>1. imgOps < MaxImageOps /\ imgOps' = imgOps + 1 /\ imgOps \in 0..MaxImageOps
    BY DEF SendRemovals, ImgInv, ImgTypeOK
  <2>. QED
    BY ONLY <2>1, DigestNumbers
<1>5. imgLast' = last /\ imgAsking' = "" /\ UNCHANGED <<imgSeen, imgPage, imgPulls>> /\ UNCHANGEDDaemon
  BY DEF SendRemovals
<1>6. imgSeen \in Listings /\ imgPage \in ImageRefs \cup {NoRef} /\ imgPulls \subseteq ImageRefs
  BY DEF ImgInv, ImgTypeOK
<1>. QED
  BY <1>2, <1>3, <1>4, <1>5, <1>6, PagesOnly

LEMMA ImgStep == ImgInv /\ [ImgNext]_imgVars => ImgInv'
<1> SUFFICES ASSUME ImgInv, [ImgNext]_imgVars PROVE ImgInv'
  OBVIOUS
<1>0. /\ imgRegistry \in Listings /\ imgTable \in Listings /\ imgSeen \in Listings
      /\ imgPage \in ImageRefs \cup {NoRef} /\ imgAsking \in ImageNames \cup {""}
      /\ imgPulls \subseteq ImageRefs /\ imgLast \in ImageRefs \cup {NoRef}
      /\ imgRemovals \subseteq Removals /\ imgOps \in 0..MaxImageOps /\ imgRaced \in BOOLEAN
  BY DEF ImgInv, ImgTypeOK, Removals
<1>01. imgOps < MaxImageOps /\ imgOps' = imgOps + 1 => imgOps' \in 0..MaxImageOps
  <2>1. imgOps \in 0..MaxImageOps
    BY <1>0
  <2>. QED
    BY ONLY <2>1, DigestNumbers
<1>02. \A list \in Listings, r \in ImageRefs : list[r] \in 0..MaxDigest
  BY DEF Listings
<1>1. ASSUME NEW r \in ImageRefs, OpenImage(r) PROVE ImgInv'
  <2>1. /\ imgPage' = r /\ imgAsking' = "" /\ (imgLast' = NoRef \/ imgLast' = imgLast)
        /\ UNCHANGED <<imgSeen, imgRemovals, imgPulls, imgOps>> /\ UNCHANGEDDaemon
    BY <1>1 DEF OpenImage
  <2>. QED
    BY <1>0, <2>1, PagesOnly
<1>2. CASE BackToListing
  <2>1. /\ imgPage' = NoRef /\ imgAsking' = "" /\ imgLast' = NoRef
        /\ UNCHANGED <<imgSeen, imgRemovals, imgPulls, imgOps>> /\ UNCHANGEDDaemon
    BY <1>2 DEF BackToListing
  <2>. QED
    BY <1>0, <2>1, PagesOnly
<1>3. CASE RefetchImages
  <2>1. /\ imgSeen' = imgTable /\ (imgAsking' = "" \/ imgAsking' = imgAsking)
        /\ UNCHANGED <<imgPage, imgRemovals, imgLast, imgPulls, imgOps>> /\ UNCHANGEDDaemon
    BY <1>3 DEF RefetchImages
  <2>. QED
    BY <1>0, <2>1, PagesOnly
<1>4. CASE AskDeleteImage
  <2>1. /\ UNCHANGED <<imgSeen, imgPage, imgRemovals, imgLast, imgPulls, imgOps>> /\ UNCHANGEDDaemon
        /\ \/ \E g \in GroupImagesByName(imgSeen) : imgAsking' = g.name
           \/ OnDetail /\ imgAsking' = imgPage.name
    BY <1>4 DEF AskDeleteImage
  <2>2. imgAsking' \in ImageNames
    <3>1. CASE OnDetail /\ imgAsking' = imgPage.name
      BY <3>1 DEF OnDetail, ListedImages, ImageRefs
    <3>. QED
      BY <1>0, <2>1, <3>1, CardsOfTags
  <2>. QED
    BY <1>0, <2>1, <2>2, PagesOnly
<1>5. CASE CancelDelete
  <2>1. /\ imgAsking' = ""
        /\ UNCHANGED <<imgSeen, imgPage, imgRemovals, imgLast, imgPulls, imgOps>> /\ UNCHANGEDDaemon
    BY <1>5 DEF CancelDelete
  <2>. QED
    BY <1>0, <2>1, PagesOnly
<1>6. CASE DeleteImage
  <2>1. PICK oldest \in Versions(imgSeen, imgAsking) :
          SendRemovals({r \in ListedImages(imgSeen) : r.name = imgAsking}, LastOf(oldest.refs))
    BY <1>6 DEF DeleteImage
  <2>2. LastOf(oldest.refs) \in ImageRefs
    BY <1>0, VersionsOfTags, TagsInOrder
  <2>3. {r \in ListedImages(imgSeen) : r.name = imgAsking} \in SUBSET ImageRefs
    BY DEF ListedImages
  <2>. QED
    BY <2>1, <2>2, <2>3, RemovalsSent
<1>7. CASE DeleteDigest
  <2>1. SendRemovals(Selected(imgSeen, imgPage).refs, LastOf(Selected(imgSeen, imgPage).refs))
        /\ imgPage \in ListedImages(imgSeen)
    BY <1>7 DEF DeleteDigest, OnDetail
  <2>2. Selected(imgSeen, imgPage).refs \subseteq ImageRefs /\ Selected(imgSeen, imgPage).refs # {}
    BY <1>0, <2>1, SelectedTags
  <2>3. LastOf(Selected(imgSeen, imgPage).refs) \in ImageRefs
    BY <2>2, TagsInOrder
  <2>. QED
    BY <2>1, <2>2, <2>3, RemovalsSent
<1>8. CASE RePull
  <2>1. /\ imgOps' \in 0..MaxImageOps
        /\ \/ \E g \in GroupImagesByName(imgSeen) : imgPulls' = {g.primary}
           \/ OnDetail /\ imgPulls' = {ProxyRef(imgSeen, imgPage)}
        /\ UNCHANGED <<imgSeen, imgPage, imgAsking, imgRemovals, imgLast>> /\ UNCHANGEDDaemon
    BY <1>01, <1>8 DEF RePull
  <2>2. imgPulls' \subseteq ImageRefs
    <3>1. CASE OnDetail /\ imgPulls' = {ProxyRef(imgSeen, imgPage)}
      <4>1. imgPage \in ListedImages(imgSeen)
        BY <3>1 DEF OnDetail
      <4>. QED
        BY <1>0, <3>1, <4>1, SelectedTags
    <3>2. ASSUME NEW g \in GroupImagesByName(imgSeen), imgPulls' = {g.primary}
          PROVE  imgPulls' \subseteq ImageRefs
      <4>1. g.primary \in ImageRefs
        BY <1>0, CardsOfTags
      <4>. QED
        BY <3>2, <4>1
    <3>. QED
      BY <2>1, <3>1, <3>2
  <2>. QED
    BY <1>0, <2>1, <2>2, PagesOnly
(* A removal goes on.                                                      *)
<1>9. ASSUME NEW c \in imgRemovals, InspectForRemoval(c) PROVE ImgInv'
  <2>. DEFINE e == [c EXCEPT !.at = "inspected", !.digest = imgRegistry[c.ref]]
  <2>1. /\ c.at = "sent" /\ imgRemovals' = (imgRemovals \ {c}) \cup {e}
        /\ UNCHANGED <<imgSeen, imgPage, imgAsking, imgLast, imgPulls, imgOps,
                       imgExecutor, imgRegistry, imgTable, imgRaced>>
    BY <1>9 DEF InspectForRemoval, Advance, UNCHANGEDDaemon
  <2>2. c \in Removals /\ c.ref \in ImageRefs
    BY <1>0 DEF Removals
  <2>3. imgRegistry[c.ref] \in 0..MaxDigest
    BY <1>0, <1>02, <2>2
  <2>4. e \in Removals /\ e.at = "inspected" /\ e.digest = imgRegistry[c.ref] /\ e.ref = c.ref
    BY <2>2, <2>3, RemovalFields
  <2>. HIDE DEF e
  <2>5. ImgTypeOK'
    BY <1>0, <2>1, <2>4 DEF ImgTypeOK, Removals
  <2>6. ToldTrue'
    BY <2>1, <2>4 DEF ImgInv, ToldTrue
  <2>7. NoGhosts'
    <3>1. \A d \in imgRemovals : d.at = "removed" => d \in imgRemovals'
      BY <2>1
    <3>. QED
      BY <2>1, <3>1 DEF ImgInv, NoGhosts, ListedImages
  <2>. QED
    BY <2>5, <2>6, <2>7 DEF ImgInv
<1>10. ASSUME NEW c \in imgRemovals, RemoveFromRegistry(c) PROVE ImgInv'
  <2>. DEFINE e == [c EXCEPT !.at = "removed", !.digest = c.digest]
              gone == Aliases(c.ref)
  <2>1. /\ c.at = "inspected" /\ UNCHANGED <<imgExecutor, imgTable, imgSeen, imgPulls, imgOps, imgRaced>>
    BY <1>10 DEF RemoveFromRegistry
  <2>2. c \in Removals /\ c.ref \in ImageRefs /\ c.digest \in 0..MaxDigest
    BY <1>0 DEF Removals
  <2>3. e \in Removals /\ e.at = "removed" /\ e.digest = c.digest
    BY <2>2 DEF Removals
  <2>. HIDE DEF e
  <2>4. CASE imgRegistry[c.ref] # Absent
    <3>1. /\ imgRegistry' = [r \in ImageRefs |-> IF r \in gone THEN Absent ELSE imgRegistry[r]]
          /\ imgRemovals' = (imgRemovals \ {c}) \cup {e}
          /\ UNCHANGED <<imgPage, imgAsking, imgLast>>
      BY <1>10, <2>4 DEF RemoveFromRegistry, Advance, e
    <3>2. \A r \in gone : imgRegistry[r] = imgRegistry[c.ref]
      BY DEF Aliases
    <3>. HIDE DEF gone
    <3>3. \A r \in ImageRefs : imgRegistry'[r] = IF r \in gone THEN Absent ELSE imgRegistry[r]
      BY <3>1
    <3>4. imgRegistry' \in Listings
      <4>1. Absent \in 0..MaxDigest
        BY DigestNumbers DEF Absent
      <4>. QED
        BY <1>0, <1>02, <3>1, <4>1 DEF Listings
    <3>5. ImgTypeOK'
      BY <1>0, <2>1, <2>3, <3>1, <3>4 DEF ImgTypeOK, Removals
    <3>6. ToldTrue'
      <4> SUFFICES ASSUME ~imgRaced, NEW d \in imgRemovals', d.at = "inspected"
                   PROVE  d.digest = imgRegistry'[d.ref] \/ imgRegistry'[d.ref] = Absent
        BY <2>1 DEF ToldTrue
      <4>1. d \in imgRemovals /\ d.ref \in ImageRefs
        BY <1>0, <2>3, <3>1 DEF Removals
      <4>2. d.digest = imgRegistry[d.ref] \/ imgRegistry[d.ref] = Absent
        BY <4>1 DEF ImgInv, ToldTrue
      <4>. QED
        BY <3>3, <4>1, <4>2
    <3>7. NoGhosts'
      <4> SUFFICES ASSUME ~imgRaced, NEW r \in ImageRefs, imgTable[r] # Absent
                   PROVE  \/ imgTable[r] = imgRegistry'[r]
                          \/ \E d \in imgRemovals' : d.at = "removed" /\ d.digest = imgTable[r]
        BY <2>1 DEF NoGhosts, ListedImages
      <4>1. CASE \E d \in imgRemovals : d.at = "removed" /\ d.digest = imgTable[r]
        BY <2>1, <3>1, <4>1
      <4>2. CASE imgTable[r] = imgRegistry[r] /\ r \notin gone
        BY <3>3, <4>2
      <4>3. CASE imgTable[r] = imgRegistry[r] /\ r \in gone
        <5>1. c.digest = imgRegistry[c.ref]
          BY <2>1, <2>4 DEF ImgInv, ToldTrue
        <5>. QED
          BY <2>3, <3>1, <3>2, <4>3, <5>1
      <4>. QED
        BY <4>1, <4>2, <4>3 DEF ImgInv, NoGhosts, ListedImages
    <3>. QED
      BY <3>5, <3>6, <3>7 DEF ImgInv
  <2>5. CASE imgRegistry[c.ref] = Absent
    <3>1. RemovalAnswered(c, FALSE) /\ UNCHANGED imgRegistry
      BY <1>10, <2>5 DEF RemoveFromRegistry
    <3>2. imgRemovals' = imgRemovals \ {c} /\ UNCHANGED <<imgPage, imgAsking, imgLast>>
      BY <3>1 DEF RemovalAnswered
    <3>3. ImgTypeOK'
      BY <1>0, <2>1, <3>1, <3>2 DEF ImgTypeOK, Removals
    <3>4. ToldTrue'
      BY <2>1, <3>1, <3>2 DEF ImgInv, ToldTrue
    <3>5. NoGhosts'
      <4>1. \A d \in imgRemovals : d.at = "removed" => d \in imgRemovals'
        BY <2>1, <3>2
      <4>. QED
        BY <2>1, <3>1, <4>1 DEF ImgInv, NoGhosts, ListedImages
    <3>. QED
      BY <3>3, <3>4, <3>5 DEF ImgInv
  <2>. QED
    BY <2>4, <2>5
<1>11. ASSUME NEW c \in imgRemovals, DeleteRows(c) PROVE ImgInv'
  <2>. DEFINE dropped(r) == IF c.digest = Absent THEN r = c.ref ELSE imgTable[r] = c.digest
  <2>1. /\ c.at = "removed"
        /\ imgTable' = [r \in ImageRefs |-> IF dropped(r) THEN Absent ELSE imgTable[r]]
        /\ UNCHANGED <<imgExecutor, imgRegistry, imgSeen, imgPulls, imgOps, imgRaced>>
    BY <1>11 DEF DeleteRows
  <2>2. /\ imgRemovals' = imgRemovals \ {c}
        /\ imgPage' = NoRef \/ imgPage' = imgPage
        /\ imgAsking' = "" \/ imgAsking' = imgAsking
        /\ imgLast' = NoRef \/ imgLast' = imgLast
    BY <1>11 DEF DeleteRows, RemovalAnswered
  <2>3. \A r \in ImageRefs : (dropped(r) /\ imgTable'[r] = Absent) \/ (~dropped(r) /\ imgTable'[r] = imgTable[r])
    BY <2>1
  <2>4. imgTable' \in Listings
    <3>1. Absent \in 0..MaxDigest
      BY DigestNumbers DEF Absent
    <3>. HIDE DEF dropped
    <3>. QED
      BY <1>0, <1>02, <2>1, <3>1 DEF Listings
  <2>5. ImgTypeOK'
    BY <1>0, <2>1, <2>2, <2>4 DEF ImgTypeOK, Removals
  <2>6. ToldTrue'
    BY <2>1, <2>2 DEF ImgInv, ToldTrue
  <2>7. NoGhosts'
    <3> SUFFICES ASSUME ~imgRaced, NEW r \in ImageRefs, imgTable'[r] # Absent
                 PROVE  \/ imgTable'[r] = imgRegistry[r]
                        \/ \E d \in imgRemovals' : d.at = "removed" /\ d.digest = imgTable'[r]
      BY <2>1 DEF NoGhosts, ListedImages
    <3>1. ~dropped(r) /\ imgTable'[r] = imgTable[r]
      BY <2>3
    <3>2. c.digest # imgTable[r]
      BY <3>1
    <3>. QED
      BY <2>2, <3>1, <3>2 DEF ImgInv, NoGhosts, ListedImages
  <2>. QED
    BY <2>5, <2>6, <2>7 DEF ImgInv
(* A tag moves.                                                            *)
<1>12. ASSUME NEW r \in ImageRefs, NEW d \in 1..MaxDigest, StoreImage(r, d),
              imgPulls' \subseteq ImageRefs, imgOps' \in 0..MaxImageOps
       PROVE  ImgInv'
  <2>1. /\ imgRegistry' = [imgRegistry EXCEPT ![r] = d] /\ imgTable' = [imgTable EXCEPT ![r] = d]
        /\ imgRaced' = (imgRaced \/ imgRemovals # {})
        /\ UNCHANGED <<imgExecutor, imgSeen, imgPage, imgAsking, imgRemovals, imgLast>>
    BY <1>12 DEF StoreImage
  <2>2. d \in 0..MaxDigest
    BY DigestNumbers
  <2>3. imgRegistry' \in Listings /\ imgTable' \in Listings
    BY <1>0, <2>1, <2>2 DEF Listings
  <2>4. imgRaced' \in BOOLEAN
    BY <2>1
  <2>5. ImgTypeOK'
    BY <1>0, <1>12, <2>1, <2>3, <2>4 DEF ImgTypeOK, Removals
  <2>6. ASSUME ~imgRaced' PROVE ~imgRaced /\ imgRemovals = {} /\ imgRemovals' = {}
    BY <2>1, <2>6
  <2>7. ToldTrue'
    BY <2>6 DEF ToldTrue
  <2>8. NoGhosts'
    <3> SUFFICES ASSUME ~imgRaced', NEW q \in ImageRefs, imgTable'[q] # Absent
                 PROVE  imgTable'[q] = imgRegistry'[q]
      BY DEF NoGhosts, ListedImages
    <3>1. CASE q = r
      BY <1>0, <2>1, <3>1 DEF Listings
    <3>2. CASE q # r
      <4>1. imgTable'[q] = imgTable[q] /\ imgRegistry'[q] = imgRegistry[q]
        BY <1>0, <2>1, <3>2 DEF Listings
      <4>. QED
        BY <2>6, <4>1 DEF ImgInv, NoGhosts, ListedImages
    <3>. QED
      BY <3>1, <3>2
  <2>. QED
    BY <2>5, <2>7, <2>8 DEF ImgInv
<1>13. ASSUME NEW r \in ImageRefs, PullDone(r) PROVE ImgInv'
  <2>1. imgPulls' = {} /\ imgOps' = imgOps
    BY <1>13 DEF PullDone
  <2>2. CASE \E d \in 1..MaxDigest : StoreImage(r, d)
    BY <1>0, <1>12, <2>1, <2>2
  <2>3. CASE UNCHANGED <<imgExecutor, imgRegistry, imgTable, imgSeen, imgPage, imgAsking,
                         imgRemovals, imgLast, imgRaced>>
    BY <1>0, <2>1, <2>3, PagesOnly DEF UNCHANGEDDaemon
  <2>. QED
    BY <1>13, <2>2, <2>3 DEF PullDone
<1>14. CASE ImageStored
  BY <1>0, <1>01, <1>12, <1>14 DEF ImageStored
<1>15. CASE UNCHANGED imgVars
  BY <1>0, <1>15, PagesOnly DEF imgVars, UNCHANGEDDaemon
<1>. QED
  BY <1>1, <1>2, <1>3, <1>4, <1>5, <1>6, <1>7, <1>8, <1>9, <1>10, <1>11, <1>13, <1>14, <1>15
  DEF ImgNext, ImagesPage, BinsPage, ArtifactDetailView

ImgSpec == ImgInit /\ [][ImgNext]_imgVars

LEMMA ImgInvHolds == ImgSpec => []ImgInv
BY ImgStart, ImgStep, PTL DEF ImgSpec

(* For any repositories, tags, digests and executor, and any number of     *)
(* removals at once: as long as no build or pull moves a tag under a       *)
(* removal, a tag that is listed is in the registry and means the same, or *)
(* a removal is about to delete its row (images.go: RemoveImage;           *)
(* registry.go: deleteCascade).                                            *)
THEOREM NoGhostsHolds == ImgSpec => []NoGhosts
<1>1. ImgInv => NoGhosts
  BY DEF ImgInv
<1>. QED
  BY <1>1, ImgInvHolds, PTL

(* The registry, the table and what the pages ask for stay tags and the    *)
(* digests they mean (images.go, registry.go, the pages of images).        *)
THEOREM ImgTypeHolds == ImgSpec => []ImgTypeOK
<1>1. ImgInv => ImgTypeOK
  BY DEF ImgInv
<1>. QED
  BY <1>1, ImgInvHolds, PTL

(* A digest has just the tags of its name that mean it.                    *)
LEMMA VersionsAreExact ==
  ASSUME NEW list \in Listings, NEW n, NEW v \in Versions(list, n)
  PROVE  /\ v.refs = {r \in ListedImages(list) : r.name = n /\ list[r] = v.digest}
         /\ v.primary \in v.refs
<1>. DEFINE named == {r \in ListedImages(list) : r.name = n}
            Refs(d) == {r \in named : list[r] = d}
            V(r) == [digest |-> list[r], refs |-> Refs(list[r]), primary |-> PickPrimaryRef(Refs(list[r]))]
<1>1. PICK r \in named : v = V(r)
  BY DEF Versions
<1>2. v.refs = Refs(v.digest)
  BY <1>1
<1>3. Refs(v.digest) = {s \in ListedImages(list) : s.name = n /\ list[s] = v.digest}
  OBVIOUS
<1>4. v.primary \in v.refs
  BY VersionsOfTags
<1>. QED
  BY <1>2, <1>3, <1>4

(* Whatever the listing says, every tag is on one card and under one       *)
(* digest, and the buttons of a digest act on a tag that means it          *)
(* (image-tags.ts: groupImagesByName, pickPrimaryRef).                     *)
THEOREM CardsAddUpHolds == ImgSpec => []CardsAddUp
<1>1. ImgTypeOK => CardsAddUp
  <2> SUFFICES ASSUME ImgTypeOK PROVE CardsAddUp
    OBVIOUS
  <2>. DEFINE cards == GroupImagesByName(imgSeen)
              Places == UNION {{g} \X g.digests : g \in cards}
              OnCard(r) == {on \in Places : r \in on[2].refs}
              Where(r) == {[card |-> on[1], digest |-> on[2].digest] : on \in OnCard(r)}
  <2>1. imgSeen \in Listings
    BY DEF ImgTypeOK
  <2>2. PICK Card : /\ cards = {Card[r.name] : r \in ListedImages(imgSeen)}
                    /\ \A r \in ListedImages(imgSeen) :
                         Card[r.name].name = r.name /\ Card[r.name].digests = Versions(imgSeen, r.name)
    <3>. DEFINE Newest(vs) == CHOOSE v \in vs : \A w \in vs : v.digest >= w.digest
                Tip(n) == {r \in ListedImages(imgSeen) : r.name = n /\ r.tag = Latest}
                Made(n) == [name |-> n, digests |-> Versions(imgSeen, n),
                            primary |-> IF Tip(n) # {} THEN CHOOSE r \in Tip(n) : TRUE
                                        ELSE Newest(Versions(imgSeen, n)).primary]
                Cards == [n \in {r.name : r \in ListedImages(imgSeen)} |-> Made(n)]
    <3>1. cards = {Made(r.name) : r \in ListedImages(imgSeen)}
      BY DEF GroupImagesByName
    <3>2. \A n : Made(n).name = n /\ Made(n).digests = Versions(imgSeen, n)
      OBVIOUS
    <3>. HIDE DEF Made, cards
    <3>3. \A r \in ListedImages(imgSeen) : Cards[r.name] = Made(r.name)
      OBVIOUS
    <3>. HIDE DEF Cards
    <3>4. cards = {Cards[r.name] : r \in ListedImages(imgSeen)}
      BY <3>1, <3>3
    <3>. QED
      BY <3>2, <3>3, <3>4
  <2>. HIDE DEF cards
  <2>3. ASSUME NEW r \in ListedImages(imgSeen)
        PROVE  \E g \in cards : g.name = r.name /\ Where(r) = {[card |-> g, digest |-> imgSeen[r]]}
    <3>. DEFINE g == Card[r.name]
                One == [card |-> g, digest |-> imgSeen[r]]
    <3>1. g \in cards /\ g.name = r.name /\ g.digests = Versions(imgSeen, r.name)
      BY <2>2
    <3>2. PICK v \in Versions(imgSeen, r.name) : v.digest = imgSeen[r]
      BY <2>1, VersionsOfTags
    <3>3. r \in v.refs
      BY <2>1, <3>2, VersionsAreExact
    <3>4. <<g, v>> \in OnCard(r)
      BY <3>1, <3>2, <3>3
    <3>5. ASSUME NEW on \in OnCard(r) PROVE on[1] = g /\ on[2].digest = imgSeen[r]
      <4>1. PICK c \in cards : on \in {c} \X c.digests
        OBVIOUS
      <4>2. PICK s \in ListedImages(imgSeen) : c = Card[s.name] /\ c.digests = Versions(imgSeen, s.name)
        BY <2>2
      <4>3. on[1] = c /\ on[2] \in Versions(imgSeen, s.name) /\ r \in on[2].refs
        BY <4>1, <4>2
      <4>4. r.name = s.name /\ imgSeen[r] = on[2].digest
        BY <2>1, <4>3, VersionsAreExact
      <4>. QED
        BY <4>2, <4>3, <4>4
    <3>6. Where(r) = {One}
      <4>. HIDE DEF OnCard, g
      <4>1. <<g, v>>[1] = g /\ <<g, v>>[2] = v
        OBVIOUS
      <4>2. One \in Where(r)
        BY <3>2, <3>4, <4>1
      <4>3. \A x \in Where(r) : x = One
        BY <3>5
      <4>. QED
        BY <4>2, <4>3
    <3>. QED
      BY <3>1, <3>6
  <2>4. ASSUME NEW g \in cards, NEW v \in g.digests PROVE imgSeen[v.primary] = v.digest
    <3>1. PICK s \in ListedImages(imgSeen) : g.digests = Versions(imgSeen, s.name)
      BY <2>2
    <3>. QED
      BY <2>1, <3>1, VersionsAreExact
  <2>. QED
    BY <2>3, <2>4 DEF CardsAddUp, cards
<1>. QED
  BY <1>1, ImgTypeHolds, PTL

-----------------------------------------------------------------------------
(* The dialogs that start something.                                       *)

EnvRows == [key : EnvKeys \cup {NoText}, value : EnvValues, origin : {"declared", "custom"},
            default : EnvValues]
Envs == [EnvKeys -> {"none", "default", "mine"}]

(* The rows of a form: those the image declares are on top, one for each   *)
(* key.                                                                    *)
RowsInOrder(rows) ==
  /\ rows \in Seq(EnvRows)
  /\ \A i \in 1..Len(rows) : rows[i].origin = "declared" => rows[i].key \in EnvKeys
  /\ \A i, j \in 1..Len(rows) : rows[j].origin = "declared" /\ i < j => rows[i].origin = "declared"
  /\ \A i, j \in 1..Len(rows) : /\ rows[i].origin = "declared" /\ rows[j].origin = "declared"
                                /\ rows[i].key = rows[j].key
                                => i = j

(* What leaves out rows makes of the rows at each set of indices.          *)
Adds(rows) ==
  [i \in 1..Len(rows) |-> [envs \in Seq(EnvRows) |-> AddOverride(envs, rows[i])]]

LEMMA AddsTyped ==
  ASSUME NEW rows \in Seq(EnvRows)
  PROVE  /\ Len(rows) \in Nat /\ DOMAIN rows = 1..Len(rows) /\ <<>> \in Seq(EnvRows)
         /\ \A i \in 1..Len(rows) :
              /\ rows[i] \in EnvRows
              /\ Adds(rows)[i] \in [Seq(EnvRows) -> Seq(EnvRows)]
              /\ \A envs \in Seq(EnvRows) : Adds(rows)[i][envs] = AddOverride(envs, rows[i])
<1>1. Len(rows) \in Nat /\ DOMAIN rows = 1..Len(rows) /\ <<>> \in Seq(EnvRows)
  BY LenProperties, EmptySeq
<1>2. \A i \in 1..Len(rows) : rows[i] \in EnvRows
  BY ElementOfSeq
<1>3. \A envs \in Seq(EnvRows), r \in EnvRows : AddOverride(envs, r) \in Seq(EnvRows)
  BY AppendProperties DEF AddOverride
<1>. QED
  BY <1>1, <1>2, <1>3 DEF Adds

LEMMA OverridesByRun ==
  ASSUME NEW rows \in Seq(EnvRows), NEW g, IsRun(g, Len(rows), Seq(EnvRows), <<>>, Adds(rows))
  PROVE  /\ EnvOverrides(rows) = g[1..Len(rows)]
         /\ \A s \in SUBSET (1..Len(rows)) :
              g[s] = IF s = {} THEN <<>> ELSE AddOverride(g[s \ {Max(s)}], rows[Max(s)])
<1>. DEFINE n == Len(rows)
            IsIt(f) == f = [s \in SUBSET (1..n) |->
                              IF s = {} THEN <<>> ELSE AddOverride(f[s \ {Max(s)}], rows[Max(s)])]
            it == CHOOSE f : IsIt(f)
<1>1. n \in Nat /\ DOMAIN rows = 1..n
  BY LenProperties
<1>2. EnvOverrides(rows) = it[1..n]
  BY <1>1 DEF EnvOverrides, FoldLeft, MapThenFoldSet
<1>3. \A s \in SUBSET (1..n) :
        g[s] = IF s = {} THEN <<>> ELSE AddOverride(g[s \ {Max(s)}], rows[Max(s)])
  <2> TAKE s \in SUBSET (1..n)
  <2>1. CASE s = {}
    BY <2>1 DEF IsRun
  <2>2. CASE s # {}
    <3>1. Max(s) \in 1..n /\ s \ {Max(s)} \in SUBSET (1..n)
      BY <1>1, <2>2, Extremes
    <3>2. g[s \ {Max(s)}] \in Seq(EnvRows) /\ g[s] = Adds(rows)[Max(s)][g[s \ {Max(s)}]]
      BY <2>2, <3>1 DEF IsRun
    <3>. QED
      BY <2>2, <3>1, <3>2, AddsTyped
  <2>. QED
    BY <2>1, <2>2
<1>4. g = [s \in SUBSET (1..n) |-> g[s]]
  BY DEF IsRun
<1>5. IsIt(g)
  BY <1>3, <1>4
<1>6. IsIt(it)
  BY <1>5
<1>7. \A s \in SUBSET (1..n) :
        it[s] = IF s = {} THEN <<>> ELSE AddOverride(it[s \ {Max(s)}], rows[Max(s)])
  BY <1>6
<1>. HIDE DEF it
<1>8. it[{}] = g[{}]
  BY <1>3, <1>7
<1>9. \A s \in SUBSET (1..n) : s # {} /\ it[s \ {Max(s)}] = g[s \ {Max(s)}] => it[s] = g[s]
  BY <1>3, <1>7
<1>10. it[1..n] = g[1..n]
  BY <1>1, <1>8, <1>9, RunsAgree
<1>. QED
  BY <1>2, <1>3, <1>10

(* What the last row with a key says, among the rows at some indices.      *)
Says(rows, s, k) == {i \in s : rows[i].key = k}
LastSays(rows, s, k, absent) ==
  IF Says(rows, s, k) = {} THEN absent ELSE rows[Max(Says(rows, s, k))].value

LEMMA EnvIsWhatRowsSay ==
  ASSUME NEW rows \in Seq(EnvRows), NEW envs, NEW k \in EnvKeys
  PROVE  EnvWith(envs, rows)[k] = LastSays(rows, 1..Len(rows), k, envs[k])
<1>. DEFINE I == {i \in 1..Len(rows) : rows[i].key = k}
<1>1. EnvWith(envs, rows)[k] = LET i == IF I # {} THEN Max(I) ELSE 0 IN
                               IF i = 0 THEN envs[k] ELSE rows[i].value
  BY DEF EnvWith, SelectLastInSeq
<1>2. I # {} => Max(I) # 0
  <2>1. I \in SUBSET (1..Len(rows)) /\ Len(rows) \in Nat
    BY LenProperties
  <2>. HIDE DEF I
  <2>2. I # {} => Max(I) \in 1..Len(rows)
    BY <2>1, Extremes
  <2>. QED
    BY <2>1, <2>2
<1>. HIDE DEF I
<1>3. EnvWith(envs, rows)[k] = IF I = {} THEN envs[k] ELSE rows[Max(I)].value
  BY <1>1, <1>2
<1>. QED
  BY <1>3 DEF I, Says, LastSays

LEMMA TheMax ==
  ASSUME NEW n \in Nat, NEW T \in SUBSET (1..n), NEW m \in T, \A k \in T : k <= m
  PROVE  Max(T) = m
<1>1. Max(T) \in T /\ m <= Max(T) /\ Max(T) <= m
  BY Extremes
<1>2. m \in Nat /\ Max(T) \in Nat
  <2>1. \A j \in T : j \in Nat
    OBVIOUS
  <2>. QED
    BY <1>1, <2>1
<1>. HIDE DEF Max
<1>. QED
  BY <1>1, <1>2

Overriding(rows, s) ==
  {i \in s : rows[i].key # NoText /\ (rows[i].origin = "custom" \/ rows[i].value # rows[i].default)}

(* The overrides say of a key what the last row that overrides it says.    *)
LEMMA OverridesSay ==
  ASSUME NEW rows \in Seq(EnvRows), NEW k \in EnvKeys, NEW absent
  PROVE  LET E == EnvOverrides(rows) IN
         /\ E \in Seq(EnvRows)
         /\ LastSays(E, 1..Len(E), k, absent)
              = LastSays(rows, Overriding(rows, 1..Len(rows)), k, absent)
<1>. DEFINE n == Len(rows)
            V == Seq(EnvRows)
<1>1. /\ n \in Nat /\ <<>> \in V
      /\ \A i \in 1..n : rows[i] \in EnvRows /\ Adds(rows)[i] \in [V -> V]
  BY AddsTyped
<1>2. PICK g : IsRun(g, n, V, <<>>, Adds(rows))
  BY <1>1, RunExists
<1>3. /\ EnvOverrides(rows) = g[1..n]
      /\ \A s \in SUBSET (1..n) :
           g[s] = IF s = {} THEN <<>> ELSE AddOverride(g[s \ {Max(s)}], rows[Max(s)])
  BY <1>2, OverridesByRun
<1>4. \A s \in SUBSET (1..n) : g[s] \in V
  BY <1>2 DEF IsRun
<1>. DEFINE Same(s) == LastSays(g[s], 1..Len(g[s]), k, absent)
                         = LastSays(rows, Overriding(rows, s), k, absent)
            T == {s \in SUBSET (1..n) : Same(s)}
<1>5. Same({})
  <2>1. {} \in SUBSET (1..n)
    OBVIOUS
  <2>2. g[{}] = <<>>
    BY <1>3, <2>1
  <2>3. Len(<<>>) = 0 /\ 1..0 = {}
    OBVIOUS
  <2>. QED
    BY <2>2, <2>3 DEF LastSays, Says, Overriding
<1>6. ASSUME NEW s \in SUBSET (1..n), s # {}, Same(s \ {Max(s)})
      PROVE  Same(s)
  <2>. DEFINE m == Max(s)
              s0 == s \ {m}
              e == g[s0]
              f == g[s]
              r == rows[m]
              Ov == Overriding(rows, s)
              Ov0 == Overriding(rows, s0)
  <2>1. m \in s /\ m \in 1..n /\ \A j \in s : j <= m
    BY <1>1, <1>6, Extremes
  <2>. HIDE DEF m
  <2>2. e \in V /\ f \in V /\ f = AddOverride(e, r) /\ r \in EnvRows /\ Len(e) \in Nat
    BY <1>1, <1>3, <1>4, <1>6, <2>1, LenProperties DEF m
  <2>3. Ov \subseteq 1..n /\ Ov0 \subseteq 1..n /\ Ov0 = Ov \ {m}
    BY DEF Overriding
  <2>4. CASE m \notin Ov
    <3>1. f = e
      BY <2>1, <2>2, <2>4 DEF AddOverride, Overriding
    <3>2. Ov = Ov0
      BY <2>3, <2>4
    <3>. QED
      BY <1>6, <3>1, <3>2 DEF m
  <2>5. CASE m \in Ov
    <3>1. f = Append(e, r)
      BY <2>1, <2>2, <2>5 DEF AddOverride, Overriding
    <3>2. /\ Len(f) = Len(e) + 1 /\ f[Len(e) + 1] = r
          /\ \A j \in 1..Len(e) : f[j] = e[j]
      BY <2>2, <3>1, AppendProperties
    <3>. HIDE DEF e, f, r, Ov, Ov0
    <3>3. CASE r.key = k
      <4>. DEFINE A == Says(f, 1..Len(f), k)
                  B == Says(rows, Ov, k)
      <4>1. /\ Len(f) \in Nat /\ A \in SUBSET (1..Len(f)) /\ Len(e) + 1 \in A
            /\ \A j \in A : j <= Len(e) + 1
        BY <2>2, <3>2, <3>3 DEF Says
      <4>2. B \in SUBSET (1..n) /\ m \in B /\ \A j \in B : j <= m
        BY <2>1, <2>3, <2>5, <3>3 DEF Says, r, Ov, Overriding
      <4>. HIDE DEF A, B
      <4>3. Max(A) = Len(e) + 1 /\ Max(B) = m
        BY <1>1, <4>1, <4>2, TheMax
      <4>4. f[Max(A)].value = rows[Max(B)].value /\ A # {} /\ B # {}
        BY <3>2, <4>1, <4>2, <4>3 DEF r
      <4>. QED
        BY <4>4 DEF LastSays, A, B, f, Ov
    <3>4. CASE r.key # k
      <4>1. Says(f, 1..Len(f), k) = Says(e, 1..Len(e), k)
        BY <2>2, <3>2, <3>4 DEF Says
      <4>2. Says(rows, Ov, k) = Says(rows, Ov0, k)
        BY <2>3, <3>4 DEF Says, r
      <4>3. Says(e, 1..Len(e), k) # {} => Max(Says(e, 1..Len(e), k)) \in 1..Len(e)
        <5>1. Says(e, 1..Len(e), k) \in SUBSET (1..Len(e))
          BY DEF Says
        <5>. QED
          BY <2>2, <5>1, Extremes
      <4>4. LastSays(f, 1..Len(f), k, absent) = LastSays(e, 1..Len(e), k, absent)
        BY <3>2, <4>1, <4>3 DEF LastSays
      <4>5. LastSays(rows, Ov, k, absent) = LastSays(rows, Ov0, k, absent)
        BY <4>2 DEF LastSays
      <4>. QED
        BY <1>6, <4>4, <4>5 DEF e, f, Ov, Ov0, m
    <3>. QED
      BY <3>3, <3>4
  <2>. QED
    BY <2>4, <2>5
<1>. HIDE DEF Same
<1>7. SUBSET (1..n) \subseteq T
  <2>1. {} \in T
    BY <1>5
  <2>2. \A s \in SUBSET (1..n) : s # {} /\ s \ {Max(s)} \in T => s \in T
    BY <1>6
  <2>. HIDE DEF T
  <2>. QED
    BY <1>1, <2>1, <2>2, SubsetInduction
<1>8. 1..n \in SUBSET (1..n)
  OBVIOUS
<1>9. Same(1..n) /\ g[1..n] \in V
  BY <1>4, <1>7, <1>8
<1>. QED
  BY <1>3, <1>9 DEF Same

(* The agent gets what the rows showed, if the image still declares what   *)
(* they say it does.                                                       *)
Declares(envs, rows) ==
  /\ \A i \in DOMAIN rows : LET r == rows[i] IN r.origin = "declared" => envs[r.key] = r.default
  /\ \A k \in EnvKeys : envs[k] # "none" => \E i \in DOMAIN rows : rows[i].key = k

LEMMA RowsAreKept ==
  ASSUME NEW rows, RowsInOrder(rows), NEW envs, Declares(envs, rows)
  PROVE  AgentEnv(envs, EnvOverrides(rows)) = FormEnv(rows)
<1>. DEFINE n == Len(rows)
            Ov == Overriding(rows, 1..n)
            none == [k \in EnvKeys |-> "none"]
<1>1. rows \in Seq(EnvRows) /\ n \in Nat /\ DOMAIN rows = 1..n /\ \A i \in 1..n : rows[i] \in EnvRows
  BY LenProperties, ElementOfSeq DEF RowsInOrder
<1>2. ASSUME NEW k \in EnvKeys
      PROVE  LastSays(rows, Ov, k, envs[k]) = LastSays(rows, 1..n, k, "none")
  <2>. DEFINE A == Says(rows, 1..n, k)
              B == Says(rows, Ov, k)
  <2>1. A \in SUBSET (1..n) /\ B \in SUBSET (1..n) /\ B \subseteq A
    BY DEF Says, Overriding
  <2>2. \A i \in A : rows[i].key = k /\ i \in 1..n
    BY DEF Says
  <2>3. \A i \in A : i \notin B => rows[i].origin = "declared" /\ rows[i].value = rows[i].default
    <3>1. \A i \in A : rows[i].key # NoText /\ rows[i].origin \in {"declared", "custom"}
      BY <1>1, <2>2, DialogAssumption DEF DialogAssumption, EnvRows
    <3>. QED
      BY <3>1, <2>2 DEF Says, Overriding
  <2>. HIDE DEF A, B
  <2>4. CASE A = {}
    <3>1. B = {} /\ envs[k] = "none"
      BY <1>1, <2>1, <2>4 DEF Declares, A, Says
    <3>. QED
      BY <2>4, <3>1 DEF LastSays, A, B
  <2>5. CASE A # {} /\ B = {}
    <3>1. Max(A) \in A
      BY <1>1, <2>1, <2>5, Extremes
    <3>2. rows[Max(A)].value = envs[k]
      BY <1>1, <2>2, <2>3, <2>5, <3>1 DEF Declares
    <3>. QED
      BY <2>5, <3>2 DEF LastSays, A, B
  <2>6. CASE B # {}
    <3>. DEFINE a == Max(A)
                b == Max(B)
    <3>a. A # {} /\ a \in A /\ \A j \in A : j <= a
      BY <1>1, <2>1, <2>6, Extremes
    <3>b. b \in B /\ \A j \in B : j <= b
      BY <1>1, <2>1, <2>6, Extremes
    <3>. HIDE DEF a, b
    <3>1. A # {} /\ a \in A /\ b \in B /\ b \in A /\ b <= a /\ a \in Nat /\ b \in Nat
      BY <2>1, <2>2, <3>a, <3>b
    <3>2. a = b
      <4> SUFFICES ASSUME a # b PROVE FALSE
        OBVIOUS
      <4>1. b < a /\ a \in 1..n /\ b \in 1..n
        BY <2>2, <3>1
      <4>2. a \notin B
        BY <3>1, <3>b, <4>1
      <4>3. rows[a].origin = "declared" /\ rows[b].origin = "declared" /\ rows[a].key = rows[b].key
        BY <2>2, <2>3, <3>1, <4>1, <4>2 DEF RowsInOrder
      <4>. QED
        BY <4>1, <4>3 DEF RowsInOrder
    <3>. QED
      BY <2>6, <3>1, <3>2 DEF LastSays, A, B, a, b
  <2>. QED
    BY <2>4, <2>5, <2>6
<1>3. \A k \in EnvKeys : EnvWith(envs, EnvOverrides(rows))[k] = EnvWith(none, rows)[k]
  <2> TAKE k \in EnvKeys
  <2>1. EnvOverrides(rows) \in Seq(EnvRows)
    BY <1>1, OverridesSay
  <2>2. EnvWith(envs, EnvOverrides(rows))[k] = LastSays(rows, Ov, k, envs[k])
    BY <1>1, <2>1, OverridesSay, EnvIsWhatRowsSay
  <2>3. EnvWith(none, rows)[k] = LastSays(rows, 1..n, k, "none")
    BY <1>1, EnvIsWhatRowsSay
  <2>. QED
    BY <1>2, <2>2, <2>3
<1>4. \A es, rs : EnvWith(es, rs) = [k \in EnvKeys |-> EnvWith(es, rs)[k]]
  BY DEF EnvWith
<1>. HIDE DEF none
<1>5. EnvWith(envs, EnvOverrides(rows)) = EnvWith(none, rows)
  BY <1>3, <1>4
<1>. QED
  BY <1>5 DEF AgentEnv, FormEnv, none

(* The rows an image starts with.                                          *)
LEMMA InitialInOrder ==
  ASSUME NEW envs \in Envs
  PROVE  RowsInOrder(InitialRows(envs))
<1>. DEFINE K == {k \in EnvKeys : envs[k] # "none"}
            keys == SetToSeq(K)
            c == Cardinality(K)
            rows == [i \in DOMAIN keys |-> EnvRow(keys[i], envs[keys[i]], "declared", envs[keys[i]])]
<1>1. IsFiniteSet(K) /\ c \in Nat
  <2>1. IsFiniteSet(K)
    BY DialogAssumption, FS_Subset DEF DialogAssumption
  <2>. QED
    BY <2>1, FS_CardinalityType
<1>2. keys \in [1..c -> K] /\ IsInjective(keys)
  <2>1. ExistsBijection(1..c, K)
    BY <1>1, FS_CardinalityType
  <2>2. \E f \in [1..c -> K] : IsInjective(f)
    BY <2>1 DEF ExistsBijection, Bijection, Injection, IsInjective
  <2>. QED
    BY <2>2 DEF SetToSeq
<1>. HIDE DEF keys
<1>3. \A i \in 1..c : keys[i] \in EnvKeys /\ envs[keys[i]] \in {"default", "mine"}
  BY <1>2 DEF Envs
<1>4. \A i \in 1..c : rows[i] = EnvRow(keys[i], envs[keys[i]], "declared", envs[keys[i]])
  BY <1>2
<1>. DEFINE row(i) == EnvRow(keys[i], envs[keys[i]], "declared", envs[keys[i]])
<1>5. \A i \in 1..c : /\ row(i) \in EnvRows /\ row(i).origin = "declared" /\ row(i).key = keys[i]
  BY <1>3 DEF EnvRow, EnvRows, EnvValues
<1>6. rows \in [1..c -> EnvRows]
  BY <1>2, <1>5
<1>7. rows \in Seq(EnvRows) /\ Len(rows) = c
  <2>. HIDE DEF rows, c
  <2>1. rows \in Seq(EnvRows)
    BY <1>1, <1>6, SeqDef
  <2>2. Len(rows) \in Nat /\ 1..Len(rows) = 1..c
    BY <1>6, <2>1, LenProperties
  <2>. QED
    BY <1>1, <2>1, <2>2, SameIntervals
<1>8. \A i \in 1..c : rows[i].origin = "declared" /\ rows[i].key = keys[i]
  BY <1>4, <1>5
<1>9. \A i, j \in 1..c : keys[i] = keys[j] => i = j
  BY <1>2 DEF IsInjective
<1>. HIDE DEF rows
<1>10. RowsInOrder(rows)
  BY <1>3, <1>7, <1>8, <1>9 DEF RowsInOrder
<1>. QED
  BY <1>10 DEF InitialRows, rows, keys

(* A form with other rows.                                                 *)
LEMMA RowChanged ==
  ASSUME NEW rows, RowsInOrder(rows), NEW i \in DOMAIN rows, NEW r \in EnvRows,
         r.origin = rows[i].origin, r.key # rows[i].key => r.origin # "declared"
  PROVE  RowsInOrder([rows EXCEPT ![i] = r])
<1>. DEFINE t == [rows EXCEPT ![i] = r]
<1>1. /\ rows \in Seq(EnvRows) /\ i \in 1..Len(rows)
      /\ \A j \in 1..Len(rows) : rows[j] \in EnvRows
  BY LenProperties, ElementOfSeq DEF RowsInOrder
<1>2. t \in Seq(EnvRows) /\ Len(t) = Len(rows) /\ \A j \in 1..Len(rows) : t[j] = IF j = i THEN r ELSE rows[j]
  BY <1>1, ExceptSeq
<1>. HIDE DEF t
<1>3. \A j \in 1..Len(rows) : /\ t[j].origin = rows[j].origin
                              /\ t[j].origin = "declared" => t[j].key = rows[j].key
  BY <1>2
<1>4. RowsInOrder(t)
  BY <1>2, <1>3 DEF RowsInOrder
<1>. QED
  BY <1>4 DEF t

LEMMA RowsEdited ==
  ASSUME NEW rows, RowsInOrder(rows), NEW t \in EditedRows(rows)
  PROVE  RowsInOrder(t)
<1>1. /\ rows \in Seq(EnvRows) /\ DOMAIN rows = 1..Len(rows) /\ Len(rows) \in Nat
      /\ \A i \in 1..Len(rows) : rows[i] \in EnvRows
  BY LenProperties, ElementOfSeq DEF RowsInOrder
<1>2. ASSUME NEW i \in DOMAIN rows, NEW v \in EnvValues, t = [rows EXCEPT ![i].value = v]
      PROVE  RowsInOrder(t)
  <2>. DEFINE r == [rows[i] EXCEPT !.value = v]
  <2>1. r \in EnvRows /\ r.origin = rows[i].origin /\ r.key = rows[i].key
    BY <1>1, <1>2 DEF EnvRows
  <2>2. t = [rows EXCEPT ![i] = r]
    BY <1>2
  <2>. HIDE DEF r
  <2>. QED
    BY <2>1, <2>2, RowChanged
<1>3. ASSUME NEW i \in DOMAIN rows, rows[i].origin = "custom", NEW k \in EnvKeys,
             t = [rows EXCEPT ![i].key = k]
      PROVE  RowsInOrder(t)
  <2>. DEFINE r == [rows[i] EXCEPT !.key = k]
  <2>1. r \in EnvRows /\ r.origin = rows[i].origin
    BY <1>1, <1>3 DEF EnvRows
  <2>2. t = [rows EXCEPT ![i] = r]
    BY <1>3
  <2>. HIDE DEF r
  <2>3. r.origin # "declared"
    BY <1>3, <2>1
  <2>4. RowsInOrder([rows EXCEPT ![i] = r])
    BY <2>1, <2>3, RowChanged
  <2>. QED
    BY <2>2, <2>4
<1>4. ASSUME NEW i \in DOMAIN rows, rows[i].origin = "custom", t = RemoveAt(rows, i)
      PROVE  RowsInOrder(t)
  <2>1. /\ t \in Seq(EnvRows) /\ Len(t) = Len(rows) - 1
        /\ \A j \in 1..Len(t) : t[j] = IF j < i THEN rows[j] ELSE rows[j + 1]
    BY <1>1, <1>4, Removing
  <2>. DEFINE at(j) == IF j < i THEN j ELSE j + 1
  <2>2. \A j \in 1..Len(t) : t[j] = rows[at(j)] /\ at(j) \in 1..Len(rows)
    BY <1>1, <2>1
  <2>3. \A j, k \in 1..Len(t) : (j < k => at(j) < at(k)) /\ (at(j) = at(k) => j = k)
    BY <1>1, <2>1
  <2>. HIDE DEF at
  <2>4. \A j \in 1..Len(t) : t[j].origin = "declared" => t[j].key \in EnvKeys
    BY <2>2 DEF RowsInOrder
  <2>5. \A j, k \in 1..Len(t) : t[k].origin = "declared" /\ j < k => t[j].origin = "declared"
    BY <2>2, <2>3 DEF RowsInOrder
  <2>6. \A j, k \in 1..Len(t) : /\ t[j].origin = "declared" /\ t[k].origin = "declared"
                                /\ t[j].key = t[k].key
                                => j = k
    BY <2>2, <2>3 DEF RowsInOrder
  <2>. QED
    BY <2>1, <2>4, <2>5, <2>6 DEF RowsInOrder
<1>5. CASE t = Append(rows, EnvRow(NoText, NoText, "custom", NoText))
  <2>. DEFINE r == EnvRow(NoText, NoText, "custom", NoText)
  <2>1. r \in EnvRows /\ r.origin = "custom"
    BY DEF EnvRow, EnvRows, EnvValues
  <2>. HIDE DEF r
  <2>2. /\ t \in Seq(EnvRows) /\ Len(t) = Len(rows) + 1 /\ t[Len(rows) + 1] = r
        /\ \A j \in 1..Len(rows) : t[j] = rows[j]
    BY <1>1, <1>5, <2>1, AppendProperties DEF r
  <2>3. \A j \in 1..Len(t) : t[j].origin = "declared" => j \in 1..Len(rows) /\ t[j] = rows[j]
    BY <1>1, <2>1, <2>2
  <2>4. \A j \in 1..Len(t) : t[j].origin = "declared" => t[j].key \in EnvKeys
    BY <2>3 DEF RowsInOrder
  <2>5. \A j, k \in 1..Len(t) : t[k].origin = "declared" /\ j < k => t[j].origin = "declared"
    <3>1. \A j, k \in 1..Len(t) : k \in 1..Len(rows) /\ j < k => j \in 1..Len(rows)
      BY <1>1, <2>2
    <3>. QED
      BY <2>2, <2>3, <3>1 DEF RowsInOrder
  <2>6. \A j, k \in 1..Len(t) : /\ t[j].origin = "declared" /\ t[k].origin = "declared"
                                /\ t[j].key = t[k].key
                                => j = k
    BY <2>3 DEF RowsInOrder
  <2>. QED
    BY <2>2, <2>4, <2>5, <2>6 DEF RowsInOrder
<1>. QED
  BY <1>2, <1>3, <1>4, <1>5 DEF EditedRows

-----------------------------------------------------------------------------
(* What is asked is what a form said; and what is left in the form of a    *)
(* job was left by the Cancel button.                                      *)
Asked ==
  dlgKind = "image" /\ dlgCall # <<>> =>
    \E form : RowsInOrder(form.rows) /\ dlgCall = <<[form |-> form, request |-> ImageRequest(form)]>>

ImageForm ==
  dlgKind = "image" =>
    /\ dlgWorld \in Envs /\ dlgSeen \in Envs
    /\ dlgForm = [name |-> dlgForm.name, rows |-> dlgForm.rows, mounts |-> dlgForm.mounts]
    /\ RowsInOrder(dlgForm.rows)

DialogInv ==
  /\ dlgKind \in Kinds /\ dlgOpen \in BOOLEAN
  /\ dlgAt \in {"here", "started", "elsewhere"} /\ dlgLeft \in {"never", "dismissed", "cancelled", "done"}
  /\ ImageForm /\ Asked /\ OnlyLeavingKeepsForm

LEMMA BlankJob ==
  \A s, t : BlankForm("job", s) = BlankForm("job", t) /\ BlankForm("pull", s) = BlankForm("pull", t)
BY DEF BlankForm

LEMMA BlankImage ==
  ASSUME NEW envs \in Envs
  PROVE  LET form == BlankForm("image", envs) IN
         /\ form = [name |-> form.name, rows |-> form.rows, mounts |-> form.mounts]
         /\ RowsInOrder(form.rows)
<1>1. BlankForm("image", envs) = [name |-> "fresh", rows |-> InitialRows(envs), mounts |-> <<>>]
  BY DEF BlankForm
<1>. QED
  BY <1>1, InitialInOrder

LEMMA DialogStart == DialogInit => DialogInv
<1> SUFFICES ASSUME DialogInit PROVE DialogInv
  OBVIOUS
<1>1. ImageForm
  <2> SUFFICES ASSUME dlgKind = "image"
               PROVE  /\ dlgWorld \in Envs /\ dlgSeen \in Envs
                      /\ dlgForm = [name |-> dlgForm.name, rows |-> dlgForm.rows, mounts |-> dlgForm.mounts]
                      /\ RowsInOrder(dlgForm.rows)
    BY DEF ImageForm
  <2>1. dlgWorld \in Envs /\ dlgSeen \in Envs
    BY DEF DialogInit, Envs
  <2>2. dlgForm = BlankForm("image", dlgSeen)
    BY DEF DialogInit
  <2>. QED
    BY <2>1, <2>2, BlankImage
<1>2. Asked /\ OnlyLeavingKeepsForm
  BY DEF DialogInit, Asked, OnlyLeavingKeepsForm
<1>. QED
  BY <1>1, <1>2 DEF DialogInit, DialogInv

LEMMA DialogStep == DialogInv /\ [DialogNext]_dlgVars => DialogInv'
<1> SUFFICES ASSUME DialogInv, [DialogNext]_dlgVars PROVE DialogInv'
  OBVIOUS
<1>0. /\ dlgKind \in Kinds /\ dlgOpen \in BOOLEAN
      /\ dlgAt \in {"here", "started", "elsewhere"} /\ dlgLeft \in {"never", "dismissed", "cancelled", "done"}
      /\ ImageForm /\ Asked /\ OnlyLeavingKeepsForm
  BY DEF DialogInv
<1>1. CASE OpenDialog
  <2>1. ImageForm' /\ Asked'
    BY <1>0, <1>1 DEF OpenDialog, ImageForm, Asked
  <2>. QED
    BY <1>0, <1>1, <2>1 DEF OpenDialog, DialogInv, OnlyLeavingKeepsForm
<1>2. CASE DismissDialog
  <2>1. ImageForm' /\ Asked'
    BY <1>0, <1>2 DEF DismissDialog, ImageForm, Asked
  <2>. QED
    BY <1>0, <1>2, <2>1 DEF DismissDialog, DialogInv, OnlyLeavingKeepsForm
<1>3. CASE CancelDialog
  <2>1. ImageForm' /\ Asked'
    BY <1>0, <1>3 DEF CancelDialog, ImageForm, Asked
  <2>. QED
    BY <1>0, <1>3, <2>1 DEF CancelDialog, DialogInv, OnlyLeavingKeepsForm
<1>4. CASE EditForm
  <2>1. dlgKind = "image" => dlgForm' \in EditedImageForm
    BY <1>4 DEF EditForm
  <2>2. ASSUME dlgKind = "image"
        PROVE  /\ dlgForm' = [name |-> dlgForm'.name, rows |-> dlgForm'.rows, mounts |-> dlgForm'.mounts]
               /\ RowsInOrder(dlgForm'.rows)
    <3>1. /\ dlgForm = [name |-> dlgForm.name, rows |-> dlgForm.rows, mounts |-> dlgForm.mounts]
          /\ RowsInOrder(dlgForm.rows)
      BY <1>0, <2>2 DEF ImageForm
    <3>2. ASSUME NEW n, dlgForm' = [dlgForm EXCEPT !.name = n]
          PROVE  /\ dlgForm' = [name |-> n, rows |-> dlgForm.rows, mounts |-> dlgForm.mounts]
      BY <3>1, <3>2
    <3>3. ASSUME NEW rows \in EditedRows(dlgForm.rows), dlgForm' = [dlgForm EXCEPT !.rows = rows]
          PROVE  /\ dlgForm' = [name |-> dlgForm.name, rows |-> rows, mounts |-> dlgForm.mounts]
                 /\ RowsInOrder(rows)
      BY <3>1, <3>3, RowsEdited
    <3>4. ASSUME NEW ms, dlgForm' = [dlgForm EXCEPT !.mounts = ms]
          PROVE  /\ dlgForm' = [name |-> dlgForm.name, rows |-> dlgForm.rows, mounts |-> ms]
      BY <3>1, <3>4
    <3>5. \/ \E n : dlgForm' = [dlgForm EXCEPT !.name = n]
          \/ \E rows \in EditedRows(dlgForm.rows) : dlgForm' = [dlgForm EXCEPT !.rows = rows]
          \/ \E ms : dlgForm' = [dlgForm EXCEPT !.mounts = ms]
      BY <2>1, <2>2 DEF EditedImageForm
    <3>6. \E n, rows, ms : /\ dlgForm' = [name |-> n, rows |-> rows, mounts |-> ms]
                          /\ RowsInOrder(rows)
      BY <3>1, <3>2, <3>3, <3>4, <3>5
    <3>. QED
      BY <3>6
  <2>3. /\ ImageForm' /\ Asked'
    BY <1>0, <1>4, <2>2 DEF EditForm, ImageForm, Asked
  <2>. QED
    BY <1>0, <1>4, <2>3 DEF EditForm, DialogInv, OnlyLeavingKeepsForm
<1>5. CASE FetchWorld
  <2>1. ASSUME dlgKind = "image"
        PROVE  /\ dlgForm' = [name |-> dlgForm'.name, rows |-> dlgForm'.rows, mounts |-> dlgForm'.mounts]
               /\ RowsInOrder(dlgForm'.rows)
    <3>1. /\ dlgForm = [name |-> dlgForm.name, rows |-> dlgForm.rows, mounts |-> dlgForm.mounts]
          /\ dlgForm' = [dlgForm EXCEPT !.rows = InitialRows(dlgWorld)]
          /\ RowsInOrder(InitialRows(dlgWorld))
      BY <1>0, <1>5, <2>1, InitialInOrder DEF ImageForm, FetchWorld
    <3>2. dlgForm' = [name |-> dlgForm.name, rows |-> InitialRows(dlgWorld), mounts |-> dlgForm.mounts]
      BY <3>1
    <3>. QED
      BY <3>1, <3>2
  <2>2. ImageForm' /\ Asked'
    BY <1>0, <1>5, <2>1 DEF FetchWorld, ImageForm, Asked
  <2>3. ASSUME dlgForm = BlankForm(dlgKind, dlgSeen) PROVE dlgForm' = BlankForm(dlgKind', dlgSeen')
    <3>1. CASE dlgKind = "image"
      <4>1. /\ dlgForm = [name |-> "fresh", rows |-> InitialRows(dlgSeen), mounts |-> <<>>]
            /\ dlgForm' = [dlgForm EXCEPT !.rows = InitialRows(dlgWorld)]
        BY <1>5, <2>3, <3>1 DEF FetchWorld, BlankForm
      <4>2. dlgForm' = [name |-> "fresh", rows |-> InitialRows(dlgWorld), mounts |-> <<>>]
        BY <4>1
      <4>. QED
        BY <1>5, <3>1, <4>2 DEF FetchWorld, BlankForm
    <3>2. CASE dlgKind \in {"job", "pull"}
      BY <1>5, <2>3, <3>2, BlankJob DEF FetchWorld
    <3>. QED
      BY <1>0, <3>1, <3>2 DEF Kinds
  <2>4. OnlyLeavingKeepsForm'
    BY <1>0, <1>5, <2>3 DEF FetchWorld, OnlyLeavingKeepsForm
  <2>. QED
    BY <1>0, <1>5, <2>2, <2>4 DEF FetchWorld, DialogInv
<1>6. CASE WorldMoves
  <2>1. dlgWorld \in Envs => dlgWorld' \in Envs
    BY <1>6 DEF WorldMoves, Envs
  <2>2. ImageForm' /\ Asked'
    BY <1>0, <1>6, <2>1 DEF WorldMoves, ImageForm, Asked
  <2>. QED
    BY <1>0, <1>6, <2>2 DEF WorldMoves, DialogInv, OnlyLeavingKeepsForm
<1>7. CASE SubmitDialog
  <2>1. Asked'
    BY <1>0, <1>7 DEF SubmitDialog, ImageForm, Asked
  <2>2. ImageForm'
    BY <1>0, <1>7 DEF SubmitDialog, ImageForm
  <2>. QED
    BY <1>0, <1>7, <2>1, <2>2 DEF SubmitDialog, DialogInv, OnlyLeavingKeepsForm
<1>8. CASE RequestDone
  <2>1. Asked' /\ ImageForm'
    BY <1>0, <1>8 DEF RequestDone, Settle, ImageForm, Asked
  <2>. QED
    <3>1. CASE UNCHANGED <<dlgOpen, dlgLeft, dlgForm, dlgAt>>
      BY <1>0, <1>8, <2>1, <3>1 DEF RequestDone, DialogInv, OnlyLeavingKeepsForm
    <3>2. CASE dlgOpen' = FALSE /\ dlgLeft' = "done" /\ Settle /\ dlgAt' = PageAfter(dlgCall[1])
      <4>1. dlgKind # "image" => dlgForm' = BlankForm(dlgKind, dlgSeen)
        BY <3>2 DEF Settle
      <4>2. dlgAt' \in {"here", "started", "elsewhere"} /\ (dlgKind = "image" => dlgAt' # "here")
        BY <1>0, <3>2 DEF PageAfter, Kinds
      <4>3. OnlyLeavingKeepsForm'
        BY <1>8, <4>1, <4>2 DEF RequestDone, OnlyLeavingKeepsForm
      <4>. QED
        BY <1>0, <1>8, <2>1, <3>2, <4>2, <4>3 DEF RequestDone, DialogInv
    <3>. QED
      BY <1>8, <3>1, <3>2 DEF RequestDone
<1>9. CASE ComeBack
  <2>1. dlgKind = "image" => dlgSeen \in Envs /\ dlgForm' = BlankForm("image", dlgSeen)
    BY <1>0, <1>9 DEF ComeBack, ImageForm
  <2>2. Asked' /\ ImageForm'
    BY <1>0, <1>9, <2>1, BlankImage DEF ComeBack, ImageForm, Asked
  <2>. QED
    BY <1>0, <1>9, <2>2 DEF ComeBack, DialogInv, OnlyLeavingKeepsForm
<1>10. CASE UNCHANGED dlgVars
  <2>1. Asked' /\ ImageForm'
    BY <1>0, <1>10 DEF dlgVars, ImageForm, Asked
  <2>. QED
    BY <1>0, <1>10, <2>1 DEF dlgVars, DialogInv, OnlyLeavingKeepsForm
<1>. QED
  BY <1>1, <1>2, <1>3, <1>4, <1>5, <1>6, <1>7, <1>8, <1>9, <1>10 DEF DialogNext

DialogSpec == DialogInit /\ [][DialogNext]_dlgVars

LEMMA DialogInvHolds == DialogSpec => []DialogInv
BY DialogStart, DialogStep, PTL DEF DialogSpec

(* For any keys, any rows the operator adds, names, clears or removes, and *)
(* any images the tag is moved to meanwhile: the agent gets the            *)
(* environment that its dialog showed (run-from-image-dialog.tsx: submit). *)
THEOREM AgentGetsWhatWasShownHolds == DialogSpec => []AgentGetsWhatWasShown
<1>1. DialogInv => AgentGetsWhatWasShown
  <2> SUFFICES ASSUME DialogInv, dlgKind = "image", dlgCall # <<>>,
                      Declares(dlgWorld, dlgCall[1].form.rows)
               PROVE  AgentEnv(dlgWorld, dlgCall[1].request.envs) = FormEnv(dlgCall[1].form.rows)
    BY DEF AgentGetsWhatWasShown, Declares
  <2>1. PICK form : /\ RowsInOrder(form.rows)
                    /\ dlgCall = <<[form |-> form, request |-> ImageRequest(form)]>>
    BY DEF DialogInv, Asked
  <2>2. dlgCall[1].form.rows = form.rows /\ dlgCall[1].request.envs = EnvOverrides(form.rows)
    BY <2>1 DEF ImageRequest
  <2>. QED
    BY <2>1, <2>2, RowsAreKept
<1>. QED
  BY <1>1, DialogInvHolds, PTL

(* Whichever of closing, opening, the answer and a page change comes first *)
(* and whatever is typed in between: what a success answered is not in the *)
(* form again, and a closed dialog holds a form only if the operator left  *)
(* it by the Cancel button or, of an image and of a pull, by dismissing it *)
(* (run-job-dialog.tsx, run-from-image-dialog.tsx,                         *)
(* pull-from-url-button.tsx: onOpenChange, onSuccess).                     *)
THEOREM OnlyLeavingKeepsFormHolds == DialogSpec => []OnlyLeavingKeepsForm
<1>1. DialogInv => OnlyLeavingKeepsForm
  BY DEF DialogInv
<1>. QED
  BY <1>1, DialogInvHolds, PTL

(* The rows of an image's form have values, and those it declares keep     *)
(* their keys (run-from-image-dialog.tsx: EnvRow).                         *)
THEOREM DialogTypeHolds == DialogSpec => []DialogTypeOK
<1>1. DialogInv => DialogTypeOK
  <2> SUFFICES ASSUME DialogInv PROVE DialogTypeOK
    OBVIOUS
  <2>1. ASSUME dlgKind = "image", NEW i \in DOMAIN dlgForm.rows
        PROVE  /\ dlgForm.rows[i].value \in EnvValues
               /\ dlgForm.rows[i].origin = "declared" => dlgForm.rows[i].key \in EnvKeys
    <3>1. RowsInOrder(dlgForm.rows)
      BY <2>1 DEF DialogInv, ImageForm
    <3>2. i \in 1..Len(dlgForm.rows) /\ dlgForm.rows[i] \in EnvRows
      BY <2>1, <3>1, LenProperties, ElementOfSeq DEF RowsInOrder
    <3>. QED
      BY <3>1, <3>2 DEF RowsInOrder, EnvRows
  <2>. QED
    BY <2>1 DEF DialogInv, DialogTypeOK
<1>. QED
  BY <1>1, DialogInvHolds, PTL

-----------------------------------------------------------------------------
(* The page of an agent.                                                   *)

JobStates == {"running", "done", "error", "cancelled", "orphaned", "pending"}

(* Jobs have a status of the daemon, and calls are of the page's buttons.  *)
PageKnows ==
  /\ agentJobs \in Seq(JobStates) /\ pageJobs \in Seq(JobStates)
  /\ pageCalls \subseteq [do : {"start", "stop", "remove", "session"}, id : SessionIds \cup {"agent"}]

AgentPageInv == AgentPageTypeOK /\ PageKnows

LEMMA AgentPageStart == AgentPageInit => AgentPageInv
<1> SUFFICES ASSUME AgentPageInit PROVE AgentPageInv
  OBVIOUS
<1>1. agentJobs \in Seq(JobStates) /\ pageJobs \in Seq(JobStates)
  BY EmptySeq DEF AgentPageInit
<1>2. AgentPageTypeOK
  BY DEF AgentPageInit, AgentPageTypeOK, Tabs
<1>. QED
  BY <1>1, <1>2 DEF AgentPageInit, AgentPageInv, PageKnows

LEMMA AgentPageStep == AgentPageInv /\ [AgentPageNext]_agentVars => AgentPageInv'
<1> SUFFICES ASSUME AgentPageInv, [AgentPageNext]_agentVars PROVE AgentPageInv'
  OBVIOUS
<1>. USE DEF AgentPageInv, AgentPageTypeOK, PageKnows
<1>1. CASE UNCHANGED agentVars
  BY <1>1 DEF agentVars
<1>2. CASE FetchAgents
  BY <1>2 DEF FetchAgents
<1>3. CASE FetchSessions
  BY <1>3 DEF FetchSessions
<1>12. CASE FetchSessionsFails
  BY <1>12 DEF FetchSessionsFails
<1>4. CASE FetchJobs
  BY <1>4 DEF FetchJobs
<1>5. CASE DescribeImage
  BY <1>5 DEF DescribeImage
<1>6. ASSUME NEW t \in Tabs, SetActiveTab(t) PROVE AgentPageInv'
  BY <1>6 DEF SetActiveTab
<1>7. CASE RevealToken
  BY <1>7 DEF RevealToken
<1>8. CASE LeavePage
  BY <1>8 DEF LeavePage
<1>9. CASE AgentMoves
  <2>1. agentJobs' \in Seq(JobStates)
    <3>1. CASE agentJobs' = IF agentStatus' = "gone" THEN <<>> ELSE agentJobs
      BY <3>1, EmptySeq
    <3>2. CASE agentJobs' = Append(agentJobs, "pending")
      <4>1. "pending" \in JobStates
        BY DEF JobStates
      <4>. QED
        BY <3>2, <4>1, AppendProperties
    <3>3. ASSUME NEW i \in DOMAIN agentJobs, NEW s \in {"running", "done", "error", "cancelled", "orphaned"},
                 agentJobs' = [agentJobs EXCEPT ![i] = s]
          PROVE  agentJobs' \in Seq(JobStates)
      <4>1. s \in JobStates
        BY DEF JobStates
      <4>2. i \in 1..Len(agentJobs)
        BY LenProperties
      <4>. QED
        BY <3>3, <4>1, <4>2, ExceptSeq
    <3>. QED
      BY <1>9, <3>1, <3>2, <3>3 DEF AgentMoves
  <2>2. agentStatus' \in AgentStatuses \cup {"gone"}
    BY <1>9 DEF AgentMoves, AgentStatuses
  <2>3. agentSessions' \subseteq SessionIds
    BY <1>9 DEF AgentMoves
  <2>. QED
    BY <1>9, <2>1, <2>2, <2>3 DEF AgentMoves
<1>10. ASSUME NEW do \in {"start", "stop", "remove", "session"}, NEW id \in Ids(do), CallDaemon(do, id)
       PROVE  AgentPageInv'
  <2>1. [do |-> do, id |-> id] \in [do : {"start", "stop", "remove", "session"}, id : SessionIds \cup {"agent"}]
    BY DEF Ids
  <2>. QED
    BY <1>10, <2>1 DEF CallDaemon
<1>11. ASSUME NEW c \in pageCalls, CallAnswered(c) PROVE AgentPageInv'
  <2>1. agentStatus' \in AgentStatuses \cup {"gone"}
    BY <1>11 DEF CallAnswered, AgentStatuses
  <2>2. agentJobs' \in Seq(JobStates)
    BY <1>11, EmptySeq DEF CallAnswered
  <2>. QED
    BY <1>11, <2>1, <2>2 DEF CallAnswered
<1>. QED
  BY <1>1, <1>2, <1>3, <1>4, <1>5, <1>6, <1>7, <1>8, <1>9, <1>10, <1>11, <1>12 DEF AgentPageNext

AgentPageSpec == AgentPageInit /\ [][AgentPageNext]_agentVars

LEMMA AgentPageInvHolds == AgentPageSpec => []AgentPageInv
BY AgentPageStart, AgentPageStep, PTL DEF AgentPageSpec

(* The page of an agent stays within its types, and a token is on screen   *)
(* only where the identity tab is (view.tsx of an agent,                   *)
(* identity-panel.tsx).                                                    *)
THEOREM AgentPageTypeHolds == AgentPageSpec => []AgentPageTypeOK
<1>1. AgentPageInv => AgentPageTypeOK
  BY DEF AgentPageInv
<1>. QED
  BY <1>1, AgentPageInvHolds, PTL

(* A status in two disjoint parts is counted in both, together.            *)
LEMMA CountedTogether ==
  ASSUME pageJobs \in Seq(JobStates), NEW A, NEW B, A \cap B = {}
  PROVE  CountJobs(A \cup B) = CountJobs(A) + CountJobs(B) /\ CountJobs(A) \in Nat
<1>. DEFINE In(S) == {i \in DOMAIN pageJobs : pageJobs[i] \in S}
<1>1. DOMAIN pageJobs = 1..Len(pageJobs) /\ Len(pageJobs) \in Nat
  BY LenProperties
<1>2. IsFiniteSet(DOMAIN pageJobs)
  BY <1>1, FS_Interval
<1>3. IsFiniteSet(In(A)) /\ IsFiniteSet(In(B))
  BY <1>2, FS_Subset
<1>4. In(A \cup B) = In(A) \cup In(B) /\ In(A) \cap In(B) = {}
  OBVIOUS
<1>5. \A S : CountJobs(S) = Cardinality(In(S))
  BY DEF CountJobs
<1>6. Cardinality(In(A)) \in Nat /\ Cardinality(In(B)) \in Nat /\ Cardinality({}) = 0
  BY <1>3, FS_CardinalityType, FS_EmptySet
<1>. HIDE DEF In
<1>7. Cardinality(In(A) \cup In(B)) = Cardinality(In(A)) + Cardinality(In(B)) - Cardinality({})
  BY <1>3, <1>4, FS_Union
<1>8. CountJobs(A \cup B) = Cardinality(In(A) \cup In(B))
  BY <1>4, <1>5
<1>9. CountJobs(A) = Cardinality(In(A)) /\ CountJobs(B) = Cardinality(In(B))
  BY <1>5
<1>10. Cardinality(In(A)) + Cardinality(In(B)) - 0 = Cardinality(In(A)) + Cardinality(In(B))
  BY <1>6
<1>. QED
  BY <1>6, <1>7, <1>8, <1>9, <1>10

(* Every job is counted once.                                              *)
LEMMA EveryJobCounts ==
  ASSUME pageJobs \in Seq(JobStates)
  PROVE  LET h == AgentDashboard IN
         h.running + h.done + h.failed + CountJobs({"pending"}) = Len(pageJobs)
<1>. DEFINE ok == {"running"} \cup {"done"}
            bad == {"error", "orphaned", "cancelled"}
<1>1. CountJobs(ok) = CountJobs({"running"}) + CountJobs({"done"}) /\ CountJobs({"running"}) \in Nat
      /\ CountJobs({"done"}) \in Nat
  <2>1. {"running"} \cap {"done"} = {}
    OBVIOUS
  <2>2. CountJobs(ok) = CountJobs({"running"}) + CountJobs({"done"}) /\ CountJobs({"running"}) \in Nat
    BY <2>1, CountedTogether
  <2>3. {"done"} \cap {"running"} = {}
    OBVIOUS
  <2>4. CountJobs({"done"}) \in Nat
    BY <2>3, CountedTogether
  <2>. QED
    BY <2>2, <2>4
<1>2. CountJobs(ok \cup bad) = CountJobs(ok) + CountJobs(bad) /\ CountJobs(bad) \in Nat
  <2>1. ok \cap bad = {}
    OBVIOUS
  <2>. QED
    BY <2>1, CountedTogether
<1>3. CountJobs((ok \cup bad) \cup {"pending"}) = CountJobs(ok \cup bad) + CountJobs({"pending"})
      /\ CountJobs({"pending"}) \in Nat
  <2>1. (ok \cup bad) \cap {"pending"} = {}
    OBVIOUS
  <2>. QED
    BY <2>1, CountedTogether
<1>4. JobStates = (ok \cup bad) \cup {"pending"}
  BY DEF JobStates
<1>5. CountJobs(JobStates) = Len(pageJobs)
  <2>1. DOMAIN pageJobs = 1..Len(pageJobs) /\ Len(pageJobs) \in Nat
        /\ \A i \in DOMAIN pageJobs : pageJobs[i] \in JobStates
    BY LenProperties, ElementOfSeq
  <2>2. {i \in DOMAIN pageJobs : pageJobs[i] \in JobStates} = 1..Len(pageJobs)
    BY <2>1
  <2>3. Cardinality(1..Len(pageJobs)) = Len(pageJobs)
    <3>1. 1 \in Int /\ Len(pageJobs) \in Int
      BY <2>1
    <3>2. Cardinality(1..Len(pageJobs)) = IF 1 > Len(pageJobs) THEN 0 ELSE Len(pageJobs) - 1 + 1
      BY <3>1, FS_Interval
    <3>. QED
      BY <2>1, <3>2
  <2>. QED
    BY <2>2, <2>3 DEF CountJobs
<1>. HIDE DEF ok, bad
<1>6. CountJobs({"running"}) + CountJobs({"done"}) + CountJobs(bad) + CountJobs({"pending"}) = Len(pageJobs)
  BY <1>1, <1>2, <1>3, <1>4, <1>5
<1>. QED
  BY <1>6 DEF AgentDashboard, bad

LEMMA KnownTones ==
  /\ \A s \in JobStates \cup AgentStatuses : HasTone(s)
  /\ \A s \in AgentStatuses : VisualFor(s) = "muted" => s = "stopped"
<1>1. \A s \in {"ready", "done"} : s \in BadgeTone["green"]
  BY DEF BadgeTone
<1>. QED
  BY DEF HasTone, VisualFor, BadgeTone, JobStates, AgentStatuses

(* Whatever comes when, whichever answers fail: the page counts every job  *)
(* once, its tab of sessions counts what it lists and says that there are  *)
(* none only when it says nothing else, and it knows every status          *)
(* (view.tsx of an agent: JobStatusBar and the tabs; status-badge.tsx).    *)
THEOREM AgentPageAddsUpHolds == AgentPageSpec => []AgentPageAddsUp
<1>1. AgentPageInv => AgentPageAddsUp
  <2> SUFFICES ASSUME AgentPageInv PROVE AgentPageAddsUp
    OBVIOUS
  <2>1. pageJobs \in Seq(JobStates)
    BY DEF AgentPageInv, PageKnows
  <2>2. \A i \in DOMAIN pageJobs : pageJobs[i] \in JobStates
    BY <2>1, LenProperties, ElementOfSeq
  <2>3. DOMAIN JobStatusBar = JobStates
    <3>1. DOMAIN JobStatuses = 1..6
      BY DEF JobStatuses
    <3>2. {JobStatuses[i] : i \in DOMAIN JobStatuses} = JobStates
      BY <3>1 DEF JobStatuses, JobStates
    <3>. QED
      BY <3>2 DEF JobStatusBar
  <2>4. \A i \in DOMAIN pageJobs : pageJobs[i] \in DOMAIN JobStatusBar /\ HasTone(pageJobs[i])
    BY <2>2, <2>3, KnownTones
  <2>. DEFINE none == "No sessions yet"
              list == "sessions"
  <2>5. /\ pageSessions = NotAsked /\ ~pageFailed => SessionsTab = {"Loading sessions"}
        /\ pageSessions = NotAsked /\ pageFailed => SessionsTab = {"Failed to fetch sessions"}
        /\ pageSessions = {} /\ ~pageFailed => SessionsTab = {none}
        /\ pageSessions = {} /\ pageFailed => SessionsTab = {"Failed to fetch sessions"}
        /\ pageSessions \notin {NotAsked, {}} /\ ~pageFailed => SessionsTab = {list}
        /\ pageSessions \notin {NotAsked, {}} /\ pageFailed => SessionsTab = {"Failed to fetch sessions", list}
    <3>1. NotAsked # {}
      BY DEF NotAsked
    <3>. QED
      BY <3>1 DEF SessionsTab
  <2>6. /\ SessionsTab # {} /\ (none \in SessionsTab => SessionsTab = {none} /\ pageSessions = {})
        /\ list \in SessionsTab <=> pageSessions \notin {NotAsked, {}}
    BY <2>5
  <2>11. \A line \in {list, none} : line \in TabPanel("sessions") => line \in TabPanel("dashboard")
    BY <2>6 DEF TabPanel, RecentLists
  <2>12. SessionsBadge > 0 <=> pageSessions \notin {NotAsked, {}}
    <3>1. CASE pageSessions = NotAsked
      BY <3>1 DEF SessionsBadge
    <3>2. CASE pageSessions # NotAsked
      <4>1. IsFiniteSet(pageSessions)
        BY <3>2, AgentAssumption, FS_Subset DEF AgentPageInv, AgentPageTypeOK, AgentAssumption
      <4>2. Cardinality(pageSessions) \in Nat /\ (Cardinality(pageSessions) = 0 <=> pageSessions = {})
        BY <4>1, FS_CardinalityType, FS_EmptySet
      <4>3. SessionsBadge = Cardinality(pageSessions)
        BY <3>2 DEF SessionsBadge
      <4>. QED
        BY <3>2, <4>2, <4>3
    <3>. QED
      BY <3>1, <3>2
  <2>13. SessionsBadge > 0 <=> list \in TabPanel("sessions")
    BY <2>6, <2>12 DEF TabPanel
  <2>7. ("list" \in AgentEnvCard) <=> pageDesc = "some"
    BY DEF AgentEnvCard
  <2>8. "envs" \in ImageDetailPage(pageDesc) <=> pageDesc = "some"
    BY DEF ImageDetailPage, ParseFromConfig
  <2>9. ImageCounts > 0 <=> pageDesc = "some"
    BY DEF ImageCounts
  <2>10. pageStatus \in AgentStatuses => HasTone(pageStatus)
    BY KnownTones
  <2>. QED
    BY <2>1, <2>4, <2>6, <2>7, <2>8, <2>9, <2>10, <2>11, <2>13, EveryJobCounts
       DEF AgentPageAddsUp, AgentContextsCard
<1>. QED
  BY <1>1, AgentPageInvHolds, PTL
=============================================================================

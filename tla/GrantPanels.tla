----------------------------- MODULE GrantPanels -----------------------------
(***************************************************************************)
(* The Links and Capabilities tabs of the agent page: two panels that edit *)
(* a set the daemon keeps, through a draft.                                *)
(*                                                                         *)
(* A panel fetches the set together with other fields (the neighbours'     *)
(* status, the token's claims); a response that differs in any field is a  *)
(* new object, and a new object resets the draft.  Responses are cached    *)
(* across tabs, drafts are not.  Save sends the whole draft, and the       *)
(* daemon replaces its set by it, and then issues a token that claims the  *)
(* new set.  The links panel is answered the kept set, the capabilities    *)
(* panel the claims of the token.                                          *)
(*                                                                         *)
(* Source: components/links/links-panel.tsx,                               *)
(* components/capabilities/capabilities-panel.tsx;                         *)
(* internal/daemon_links.go for the daemon.                                *)
(***************************************************************************)
EXTENDS Naturals

CONSTANTS
  Grants,        (* agents to link to, or capabilities                     *)
  MaxGrantOps    (* bound: toggles, and changes on the daemon              *)

ASSUME GrantAssumption == MaxGrantOps \in Nat

Panels == {"links", "capabilities"}

VARIABLES
  grantKept,     (* per panel: the set the daemon keeps                    *)
  grantClaims,   (* the capabilities the agent's token claims              *)
  grantKnown,    (* what the daemon resolves                               *)
  grantSeen,     (* per panel: the set of the cached answer                *)
  grantStale,    (* panels whose answer has changed since, in any field    *)
  grantTab,      (* the panel on screen                                    *)
  grantDraft,    (* its draft                                              *)
  grantSaving,   (* saves under way: [panel, set]                          *)
  grantOps,      (* toggles and changes so far                             *)
  (* history *)
  grantToggled   (* toggled an odd number of times since the last reset    *)

grantVars == <<grantKept, grantClaims, grantKnown, grantSeen, grantStale, grantTab, grantDraft,
               grantSaving, grantOps, grantToggled>>

Flip(S, x) == IF x \in S THEN S \ {x} ELSE S \cup {x}

GrantInit ==
  /\ \E S \in SUBSET Grants : grantKept = [p \in Panels |-> S]
  /\ grantClaims = grantKept["capabilities"]
  /\ grantKnown = Grants
  /\ grantSeen = grantKept
  /\ grantStale = {}
  /\ grantTab = "links"
  /\ grantDraft = grantSeen["links"]
  /\ grantSaving = {}
  /\ grantOps = 0
  /\ grantToggled = {}

-----------------------------------------------------------------------------
(* What is drawn.                                                          *)

GrantsShown(p) == grantSeen[p]
GrantsToAdd == grantDraft \ GrantsShown(grantTab)
GrantsToRemove == GrantsShown(grantTab) \ grantDraft
GrantsDirty == GrantsToAdd # {} \/ GrantsToRemove # {}
GrantsPending(p) == \E s \in grantSaving : s.panel = p

(* The catalogue, and every agent but this one.                            *)
GrantPicks(p) == IF p = "links" THEN grantKnown ELSE Grants

GrantCard(granted, inDraft) ==
  CASE granted /\ inDraft   -> "solid"
    [] granted /\ ~inDraft  -> "pending remove"
    [] ~granted /\ inDraft  -> "pending add"
    [] ~granted /\ ~inDraft -> "available"

LinkRow(n) == GrantCard(n \in GrantsShown("links"), n \in grantDraft)
CapabilityRow(n) == GrantCard(n \in GrantsShown("capabilities"), n \in grantDraft)

-----------------------------------------------------------------------------
(* The panel.                                                              *)

DraftGrants(S) == grantDraft' = S /\ grantToggled' = {}

(* The +/- button of a card; it also works while a save is under way.      *)
ToggleGrant(n) ==
  /\ grantOps < MaxGrantOps /\ grantOps' = grantOps + 1
  /\ n \in GrantPicks(grantTab)
  /\ grantDraft' = Flip(grantDraft, n)
  /\ grantToggled' = Flip(grantToggled, n)
  /\ UNCHANGED <<grantKept, grantClaims, grantKnown, grantSeen, grantStale, grantTab, grantSaving>>

ResetGrants ==
  /\ GrantsDirty /\ ~GrantsPending(grantTab)
  /\ DraftGrants(GrantsShown(grantTab))
  /\ UNCHANGED <<grantKept, grantClaims, grantKnown, grantSeen, grantStale, grantTab, grantSaving, grantOps>>

SaveGrants ==
  /\ GrantsDirty /\ ~GrantsPending(grantTab)
  /\ grantSaving' = grantSaving \cup {[panel |-> grantTab, set |-> grantDraft]}
  /\ UNCHANGED <<grantKept, grantClaims, grantKnown, grantSeen, grantStale, grantTab, grantDraft, grantOps, grantToggled>>

(* ListAgentLinks answers the rows, GetAgentIdentity the token's claims.   *)
GrantsAnswered(p) == IF p = "links" THEN grantKept["links"] ELSE grantClaims

(* Mutant: the draft is only taken when the panel opens.                   *)
RefetchGrantsKeepingDraft(p) ==
  /\ p \in grantStale
  /\ grantStale' = grantStale \ {p}
  /\ grantSeen' = [grantSeen EXCEPT ![p] = GrantsAnswered(p)]
  /\ UNCHANGED <<grantKept, grantClaims, grantKnown, grantTab, grantDraft, grantSaving, grantOps, grantToggled>>

(* Mutant: a panel with edits is not refreshed.                            *)
RefetchGrantsWhenClean(p) ==
  /\ p = grantTab
  /\ p \in grantStale
  /\ ~GrantsDirty
  /\ grantStale' = grantStale \ {p}
  /\ grantSeen' = [grantSeen EXCEPT ![p] = GrantsAnswered(p)]
  /\ DraftGrants(GrantsAnswered(p))
  /\ UNCHANGED <<grantKept, grantClaims, grantKnown, grantTab, grantSaving, grantOps>>

(* The query of the panel on screen is repeated every few seconds; a new   *)
(* answer resets the draft, whatever field of it is new.                   *)
RefetchGrants(p) ==
  /\ p = grantTab
  /\ p \in grantStale
  /\ grantStale' = grantStale \ {p}
  /\ grantSeen' = [grantSeen EXCEPT ![p] = GrantsAnswered(p)]
  /\ DraftGrants(GrantsAnswered(p))
  /\ UNCHANGED <<grantKept, grantClaims, grantKnown, grantTab, grantSaving, grantOps>>

(* The other tab: the panel left is unmounted with its draft.  A save goes *)
(* on.                                                                     *)
OpenGrantTab(p) ==
  /\ p # grantTab
  /\ grantTab' = p
  /\ DraftGrants(GrantsShown(p))
  /\ UNCHANGED <<grantKept, grantClaims, grantKnown, grantSeen, grantStale, grantSaving, grantOps>>

-----------------------------------------------------------------------------
(* The daemon.                                                             *)

(* A set is stored; issued: so is a token that claims it.                  *)
KeepGrants(p, S, issued) ==
  /\ grantKept' = [grantKept EXCEPT ![p] = S]
  /\ grantClaims' = IF issued THEN grantKept'["capabilities"] ELSE grantClaims
  /\ grantStale' = grantStale \cup 
                 {q \in Panels : IF q = "links" THEN grantKept'[q] # grantKept[q] ELSE issued}

(* SetAgentLinks and SetAgentCapabilities: a name that is not known is     *)
(* refused; a set that changes nothing is left, and no token is issued,    *)
(* also when the one there claims another set; otherwise the set is        *)
(* replaced and the token issued anew.                                     *)
GrantSaveDone(s) ==
  /\ s \in grantSaving
  /\ grantSaving' = grantSaving \ {s}
  /\ IF s.set \subseteq GrantPicks(s.panel) /\ s.set # grantKept[s.panel]
       THEN KeepGrants(s.panel, s.set, TRUE)
       ELSE UNCHANGED <<grantKept, grantClaims, grantStale>>
  /\ UNCHANGED <<grantKnown, grantSeen, grantTab, grantDraft, grantOps, grantToggled>>

(* Links are added and then removed row by row.                            *)
RowsReached(S) ==
  {T \in SUBSET (S \cup grantKept["links"]) : S \subseteq T \/ grantKept["links"] \subseteq T}

(* An error leaves what was done until then: some of the rows of links;    *)
(* the whole set and no token; or both, with the token not persisted or    *)
(* the agent not started again.                                            *)
GrantSaveBreaks(s) ==
  /\ s \in grantSaving
  /\ s.set \subseteq GrantPicks(s.panel) /\ s.set # grantKept[s.panel]
  /\ grantSaving' = grantSaving \ {s}
  /\ \/ s.panel = "links" /\ \E T \in RowsReached(s.set) : KeepGrants("links", T, FALSE)
     \/ \E issued \in BOOLEAN : KeepGrants(s.panel, s.set, issued)
  /\ UNCHANGED <<grantKnown, grantSeen, grantTab, grantDraft, grantOps, grantToggled>>

(* Another window, or the command line: a set, with or without the token   *)
(* that claims it, or a field beside it.                                   *)
GrantsElsewhere(p) ==
  /\ grantOps < MaxGrantOps /\ grantOps' = grantOps + 1
  /\ \/ \E n \in GrantPicks(p), issued \in BOOLEAN : KeepGrants(p, Flip(grantKept[p], n), issued)
     \/ UNCHANGED <<grantKept, grantClaims>> /\ grantStale' = grantStale \cup {p}
  /\ UNCHANGED <<grantKnown, grantSeen, grantTab, grantDraft, grantSaving, grantToggled>>

(* An agent is removed, and the links to it.                               *)
GrantAgentGone(n) ==
  /\ grantOps < MaxGrantOps /\ grantOps' = grantOps + 1
  /\ n \in grantKnown
  /\ grantKnown' = grantKnown \ {n}
  /\ grantKept' = [grantKept EXCEPT !["links"] = @ \ {n}]
  /\ grantStale' = grantStale \cup {"links"}
  /\ UNCHANGED <<grantClaims, grantSeen, grantTab, grantDraft, grantSaving, grantToggled>>

-----------------------------------------------------------------------------
EditGrants == ResetGrants \/ SaveGrants \/ \E n \in Grants : ToggleGrant(n)

LinksPanel == grantTab = "links" /\ (EditGrants \/ RefetchGrants("links"))
CapabilitiesPanel == grantTab = "capabilities" /\ (EditGrants \/ RefetchGrants("capabilities"))

GrantNext ==
  \/ LinksPanel \/ CapabilitiesPanel
  \/ \E p \in Panels : OpenGrantTab(p) \/ GrantsElsewhere(p)
  \/ \E s \in grantSaving : GrantSaveDone(s) \/ GrantSaveBreaks(s)
  \/ \E n \in Grants : GrantAgentGone(n)

GrantSpec == GrantInit /\ [][GrantNext]_grantVars

-----------------------------------------------------------------------------
(* Properties.                                                             *)

GrantTypeOK ==
  /\ grantKept \in [Panels -> SUBSET Grants]
  /\ grantClaims \subseteq Grants
  /\ grantKnown \subseteq Grants
  /\ grantSeen \in [Panels -> SUBSET Grants]
  /\ grantStale \subseteq Panels
  /\ grantTab \in Panels
  /\ grantDraft \subseteq Grants
  /\ grantSaving \subseteq [panel : Panels, set : SUBSET Grants]
  /\ grantOps \in 0..MaxGrantOps
  /\ grantToggled \subseteq Grants

GrantRow(n) == IF grantTab = "links" THEN LinkRow(n) ELSE CapabilityRow(n)

(* The rows marked as pending are those the operator toggled since the     *)
(* draft was last reset, and no others: whatever was granted or revoked    *)
(* elsewhere, and already shown, is not undone by Save.                    *)
OnlyToggledChanges ==
  grantToggled = {n \in Grants : GrantRow(n) \in {"pending add", "pending remove"}}

(* What the panel on screen gets to, also when its own save was only half  *)
(* done: it shows the links the daemon keeps, or the capabilities that the *)
(* token claims.  These are the ones the daemon keeps only while every     *)
(* refresh of the token has gone well: once one has failed, the panel goes *)
(* on showing the former set, and saving again changes nothing.            *)
PanelIsCurrent == grantSeen[grantTab] = GrantsAnswered(grantTab)
=============================================================================

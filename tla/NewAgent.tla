------------------------------- MODULE NewAgent -------------------------------
(***************************************************************************)
(* The page that creates an agent: a wizard of five steps whose answers    *)
(* become an Agentfile, an editor for the file itself, and the catalogue   *)
(* of images.  Submitting builds the file (BuildAgent) and then starts an  *)
(* agent from the tag the build answered with (CreateAgent); the two calls *)
(* belong together for the page only, and go on when it is left.           *)
(*                                                                         *)
(* Source: app/agents/new/page.tsx; internal/daemon.go for the daemon.     *)
(***************************************************************************)
EXTENDS Naturals, Sequences, SequencesExt

CONSTANTS
  AgentNames,    (* what may be typed as a name                            *)
  BinRefs,       (* images of tools                                        *)
  GoodKeys,      (* keys of environment variables                          *)
  ReservedKeys,  (* keys the daemon refuses: PATH, *_API_KEY, ...          *)
  MaxNewOps      (* bound: edits, and changes on the daemon                *)

ASSUME NewAgentAssumption ==
  /\ MaxNewOps \in Nat
  /\ "" \notin AgentNames \cup GoodKeys \cup ReservedKeys
  /\ GoodKeys \cap ReservedKeys = {}

VARIABLES
  newAt,         (* "new", or the page the operator is on instead          *)
  newTab,        (* "wizard", "editor" or "catalog"                        *)
  newStep,       (* the wizard's step, 0..4                                *)
  newState,      (* its answers                                            *)
  newText,       (* the file in the editor; Blank when it is empty         *)
  newError,      (* an error is shown under the preview                    *)
  newCalls,      (* submissions under way                                  *)
  newTags,       (* the daemon's registry: tag -> file, or Blank           *)
  newTools,      (* the images of tools in it                              *)
  newAgents,     (* agents started from this page: [asked, got, name]      *)
  newOps

newVars == <<newAt, newTab, newStep, newState, newText, newError, newCalls, newTags, newTools,
             newAgents, newOps>>

Blank == <<>>
LastStep == 4

EmptyEnv == [key |-> "", value |-> ""]
BlankState == [model |-> "", name |-> "", soul |-> "template", bins |-> <<>>, envs |-> <<>>]

(* A page just opened.                                                     *)
FreshPage ==
  /\ newTab' = "wizard"
  /\ newStep' = 0
  /\ newState' = BlankState
  /\ newText' = Blank
  /\ newError' = FALSE

NewInit ==
  /\ newAt = "new" /\ newTab = "wizard" /\ newStep = 0
  /\ newState = BlankState
  /\ newText = Blank
  /\ newError = FALSE
  /\ newCalls = {}
  /\ newTags = [n \in AgentNames |-> Blank]
  /\ newTools = BinRefs
  /\ newAgents = {}
  /\ newOps = 0

CountNewOp == newOps < MaxNewOps /\ newOps' = newOps + 1
AtStep(k) == newAt = "new" /\ newTab = "wizard" /\ newStep = k

-----------------------------------------------------------------------------
(* The Agentfile.                                                          *)

(* validateEnvKey: an empty key is a draft, not an error.                  *)
KeyIsValid(key) == key = "" \/ key \in GoodKeys

(* What is written of the rows.                                            *)
Declared(e) == e.key # "" /\ KeyIsValid(e.key)

AgentFile(s) ==
  [model |-> s.model, name |-> s.name, soul |-> s.soul,
   envs |-> SelectSeq(s.envs, Declared), bins |-> s.bins]

(* The file the editor starts with.                                        *)
Template(n) == AgentFile([BlankState EXCEPT !.name = n, !.model = "m"])

-----------------------------------------------------------------------------
(* The steps of the wizard.                                                *)

UNCHANGEDButState == UNCHANGED <<newAt, newTab, newStep, newText, newError, newCalls, newTags,
                                 newTools, newAgents>>

BasicsStep ==
  /\ AtStep(0) /\ CountNewOp
  /\ newState' \in {[newState EXCEPT !.name = n] : n \in AgentNames \cup {""}}
                   \cup {[newState EXCEPT !.model = "m"]}
  /\ UNCHANGEDButState

SoulStep ==
  /\ AtStep(1) /\ CountNewOp
  /\ newState' \in {[newState EXCEPT !.soul = s] : s \in {"", "mine"}}
  /\ UNCHANGEDButState

IsPicked(r) == \E i \in DOMAIN newState.bins : newState.bins[i].ref = r

(* toggleBin: one entry per image, under an alias cut from its reference.  *)
ToggleBin(r) ==
  newState' = [newState EXCEPT !.bins =
    IF IsPicked(r) THEN SelectSeq(@, LAMBDA b : b.ref # r)
                   ELSE Append(@, [name |-> r, ref |-> r])]

RenameBin(r) ==
  /\ IsPicked(r)
  /\ \E alias \in {"", "alias"} :
       newState' = [newState EXCEPT !.bins =
         [i \in DOMAIN @ |-> IF @[i].ref = r THEN [@[i] EXCEPT !.name = alias] ELSE @[i]]]

(* The list offers the images that are there; one picked before may not be *)
(* in it any more, and stays picked.                                       *)
BinsStep ==
  /\ AtStep(2) /\ CountNewOp
  /\ \E r \in newTools : ToggleBin(r) \/ RenameBin(r)
  /\ UNCHANGEDButState

AddEnv == newState' = [newState EXCEPT !.envs = Append(@, EmptyEnv)]
UpdateEnv(i) ==
  \/ \E k \in GoodKeys \cup ReservedKeys \cup {""} :
       newState' = [newState EXCEPT !.envs = [@ EXCEPT ![i] = [@ EXCEPT !.key = k]]]
  \/ newState' = [newState EXCEPT !.envs = [@ EXCEPT ![i] = [@ EXCEPT !.value = "v"]]]
RemoveEnv(i) == newState' = [newState EXCEPT !.envs = RemoveAt(@, i)]

EnvsStep ==
  /\ AtStep(3) /\ CountNewOp
  /\ AddEnv \/ \E i \in DOMAIN newState.envs : UpdateEnv(i) \/ RemoveEnv(i)
  /\ UNCHANGEDButState

-----------------------------------------------------------------------------
(* Moving about.                                                           *)

BasicsValid == newState.model # "" /\ newState.name # ""
SoulValid == newState.soul # ""
EnvsValid == \A i \in DOMAIN newState.envs : KeyIsValid(newState.envs[i].key)

(* Mutant: the step before the review is not looked at.                    *)
StepValidButEnvs(k) == (k = 0 => BasicsValid) /\ (k = 1 => SoulValid)

StepValid(k) ==
  CASE k = 0 -> BasicsValid
    [] k = 1 -> SoulValid
    [] k = 2 -> TRUE
    [] k = 3 -> EnvsValid
    [] k = 4 -> TRUE

NextStep ==
  /\ newAt = "new" /\ newTab = "wizard"
  /\ newStep < LastStep /\ StepValid(newStep)
  /\ newStep' = newStep + 1
  /\ UNCHANGED <<newAt, newTab, newState, newText, newError, newCalls, newTags, newTools,
                 newAgents, newOps>>

(* Also while a submission is under way.                                   *)
BackStep ==
  /\ newAt = "new" /\ newTab = "wizard"
  /\ newStep > 0
  /\ newStep' = newStep - 1
  /\ UNCHANGED <<newAt, newTab, newState, newText, newError, newCalls, newTags, newTools,
                 newAgents, newOps>>

(* The three tabs keep their contents.                                     *)
OpenNewTab(t) ==
  /\ newAt = "new" /\ t # newTab
  /\ newTab' = t
  /\ UNCHANGED <<newAt, newStep, newState, newText, newError, newCalls, newTags, newTools,
                 newAgents, newOps>>

EditorTab ==
  /\ newAt = "new" /\ newTab = "editor" /\ CountNewOp
  /\ newText' \in {Blank} \cup {Template(n) : n \in AgentNames}
  /\ UNCHANGED <<newAt, newTab, newStep, newState, newError, newCalls, newTags, newTools,
                 newAgents>>

(* The link back, or any other of the sidebar.                             *)
LeaveNew ==
  /\ newAt = "new"
  /\ newAt' = "elsewhere"
  /\ newCalls' = {[c EXCEPT !.here = FALSE] : c \in newCalls}
  /\ FreshPage
  /\ UNCHANGED <<newTags, newTools, newAgents, newOps>>

ReturnNew ==
  /\ newAt # "new"
  /\ newAt' = "new"
  /\ UNCHANGED <<newTab, newStep, newState, newText, newError, newCalls, newTags, newTools,
                 newAgents, newOps>>

-----------------------------------------------------------------------------
(* Submitting.                                                             *)

NewPending == \E c \in newCalls : c.here

(* `here': the page that submitted is still mounted.  `ref': the tag the   *)
(* build answered with.  `moved' (history): the tag means another build    *)
(* since then.                                                             *)
Submit(file) ==
  /\ ~NewPending
  /\ newCalls' = newCalls \cup {[file |-> file, ref |-> "", here |-> TRUE, moved |-> FALSE]}
  /\ newError' = FALSE
  /\ UNCHANGED <<newAt, newTab, newStep, newState, newText, newTags, newTools, newAgents, newOps>>

SubmitWizard == AtStep(LastStep) /\ Submit(AgentFile(newState))
SubmitEditor == newAt = "new" /\ newTab = "editor" /\ newText # Blank /\ Submit(newText)

(* A tag gets another meaning: calls that wait for it to be started know   *)
(* nothing of it.                                                          *)
Retag(n, file, calls) ==
  /\ newTags' = [newTags EXCEPT ![n] = file]
  /\ newCalls' = {IF c.ref = n /\ c.file # file THEN [c EXCEPT !.moved = TRUE] ELSE c : c \in calls}

(* Mutant: the agent is started by the name in the wizard.                 *)
BuildDoneByName(c) ==
  /\ c \in newCalls /\ c.ref = ""
  /\ LET n == IF newState.name # "" THEN newState.name ELSE c.file.name IN
     Retag(c.file.name, c.file, (newCalls \ {c}) \cup {[c EXCEPT !.ref = n]})
  /\ UNCHANGED <<newAt, newTab, newStep, newState, newText, newError, newTools, newAgents, newOps>>

(* BuildAgent: the file is parsed and built, the image is tagged by NAME.  *)
BuildDone(c) ==
  /\ c \in newCalls /\ c.ref = ""
  /\ c.file.name # ""
  /\ Retag(c.file.name, c.file, (newCalls \ {c}) \cup {[c EXCEPT !.ref = c.file.name]})
  /\ UNCHANGED <<newAt, newTab, newStep, newState, newText, newError, newTools, newAgents, newOps>>

(* CreateAgent: the tag is read anew.  The request names no agent, so the  *)
(* daemon makes a name up.  The page follows to the list of agents,        *)
(* wherever the operator is by now.                                        *)
CreateDone(c) ==
  /\ c \in newCalls /\ c.ref # ""
  /\ newTags[c.ref] # Blank
  /\ newCalls' = {[d EXCEPT !.here = FALSE] : d \in newCalls \ {c}}
  /\ newAgents' = newAgents \cup {[asked |-> c.file, got |-> newTags[c.ref],
                                   moved |-> c.moved, name |-> "generated"]}
  /\ newAt' = "agents"
  /\ FreshPage
  /\ UNCHANGED <<newTags, newTools, newOps>>

(* Either call fails: an image may be left without an agent.               *)
SubmitFails(c) ==
  /\ c \in newCalls
  /\ newCalls' = newCalls \ {c}
  /\ newError' = (newError \/ c.here)
  /\ UNCHANGED <<newAt, newTab, newStep, newState, newText, newTags, newTools, newAgents, newOps>>

(* Others build under the same name, remove an image, pull a tool.         *)
RegistryMoves ==
  /\ CountNewOp
  /\ \/ /\ \E n \in AgentNames : Retag(n, [Template(n) EXCEPT !.soul = "other"], newCalls)
        /\ UNCHANGED newTools
     \/ \E r \in BinRefs :
          /\ newTools' = IF r \in newTools THEN newTools \ {r} ELSE newTools \cup {r}
          /\ UNCHANGED <<newTags, newCalls>>
  /\ UNCHANGED <<newAt, newTab, newStep, newState, newText, newError, newAgents>>

-----------------------------------------------------------------------------
NewNext ==
  \/ BasicsStep \/ SoulStep \/ BinsStep \/ EnvsStep
  \/ NextStep \/ BackStep \/ EditorTab \/ LeaveNew \/ ReturnNew
  \/ \E t \in {"wizard", "editor", "catalog"} : OpenNewTab(t)
  \/ SubmitWizard \/ SubmitEditor
  \/ \E c \in newCalls : BuildDone(c) \/ CreateDone(c) \/ SubmitFails(c)
  \/ RegistryMoves

NewSpec == NewInit /\ [][NewNext]_newVars

-----------------------------------------------------------------------------
(* Properties.                                                             *)

NewTypeOK ==
  /\ newAt \in {"new", "elsewhere", "agents"}
  /\ newTab \in {"wizard", "editor", "catalog"}
  /\ newStep \in 0..LastStep
  /\ newError \in BOOLEAN
  /\ newTools \subseteq BinRefs
  /\ newOps \in 0..MaxNewOps
  /\ newAt # "new" => newState = BlankState

(* Whoever gets to the review has answered every step, and nothing that    *)
(* was answered is missing from the file: buildAgentfile leaves rows out   *)
(* when their key is refused, and no such row is left by then.             *)
ReviewIsWhole ==
  newStep = LastStep =>
    /\ BasicsValid /\ SoulValid
    /\ \A i \in DOMAIN newState.envs :
         newState.envs[i].key # "" => Declared(newState.envs[i])

(* The agent that starts is the one that was submitted, whatever is typed  *)
(* or opened between the build and the start; unless its tag was given to  *)
(* another build in between.                                               *)
StartsWhatWasSubmitted == \A a \in newAgents : ~a.moved => a.got = a.asked
=============================================================================

----------------------------- MODULE ProviderPages -----------------------------
(***************************************************************************)
(* The provider pages of the dashboard, and the daemon's registry behind   *)
(* them: a YAML file, and what was read of it with the environment         *)
(* variables in it replaced.  The file is also edited by hand.             *)
(*                                                                         *)
(* Source: components/provider-form.tsx, app/providers/;                   *)
(* internal/providers.go, internal/providers_mutations.go.                 *)
(***************************************************************************)
EXTENDS Naturals, Sequences, SequencesExt

CONSTANTS
  ProviderNames,
  MaxProviderOps  (* bound: edits of a form, calls, and edits of the file  *)

ASSUME ProviderAssumption == MaxProviderOps \in Nat

VARIABLES
  provFile,      (* name -> entry of providers.yaml, NoEntry if none       *)
  provParses,    (* the file is valid YAML                                 *)
  provState,     (* the registry's entries, expanded                       *)
  provRead,      (* the state is of the file as it is (its mtime)          *)
  provList,      (* the cached answer of ListProviders                     *)
  provAt,        (* the page: [page, name]                                 *)
  provForm,      (* [name, key, base, models]                              *)
  provKeyTyped,  (* the operator typed into the key field                  *)
  provCalls,     (* calls under way: [do, name, entry, back, keyTyped,     *)
                 (* here, id]; back is whether success leads to the list,  *)
                 (* here whether the page that sent it is still drawn      *)
  provOps

provVars == <<provFile, provParses, provState, provRead, provList, provAt, provForm,
              provKeyTyped, provCalls, provOps>>

Entry(key, base, models) == [key |-> key, base |-> base, models |-> models]

(* A key: "${VAR}" refers to the environment, "secret" is what it says     *)
(* there, "typed" is another literal.                                      *)
NoEntry == Entry("none", "", <<>>)

(* os.ExpandEnv.                                                           *)
Expand(e) == [e EXCEPT !.key = IF @ = "${VAR}" THEN "secret" ELSE @]

ExpandAll(file) == [n \in ProviderNames |-> Expand(file[n])]

BlankProvider == [name |-> "", key |-> "", base |-> "", models |-> <<>>]

ProvInit ==
  /\ \E n \in ProviderNames : \E key \in {"${VAR}", "typed"} :
       provFile = [[m \in ProviderNames |-> Entry("${VAR}", "", <<>>)]
                     EXCEPT ![n] = Entry(key, "", <<>>)]
  /\ provParses = TRUE
  /\ provState = ExpandAll(provFile)
  /\ provRead = TRUE
  /\ provList = provState
  /\ provAt = [page |-> "list", name |-> ""]
  /\ provForm = BlankProvider
  /\ provKeyTyped = FALSE
  /\ provCalls = {}
  /\ provOps = 0

CountProvOp == provOps < MaxProviderOps /\ provOps' = provOps + 1

ListedProviders(n) == provList[n] # NoEntry

-----------------------------------------------------------------------------
(* Pages.                                                                  *)

(* What was typed goes with the page, and its button's pending mark.       *)
GoTo(page, n, calls) ==
  /\ provAt' = [page |-> page, name |-> n]
  /\ provForm' = IF page = "edit"
                   THEN [name |-> n, key |-> provList[n].key, base |-> provList[n].base,
                         models |-> provList[n].models]
                   ELSE BlankProvider
  /\ provKeyTyped' = FALSE
  /\ provCalls' = {[c EXCEPT !.here = FALSE] : c \in calls}

Stay(calls) == provCalls' = calls /\ UNCHANGED <<provAt, provForm, provKeyTyped>>

(* ListProviders refreshes the registry first; a file that does not parse  *)
(* leaves the last state.  A page of a provider that is gone is notFound().*)
FetchProviders ==
  /\ ~provRead \/ provList # provState
  /\ provRead' = (provRead \/ provParses)
  /\ provState' = IF ~provRead /\ provParses THEN ExpandAll(provFile) ELSE provState
  /\ provList' = provState'
  /\ IF provAt.page \in {"detail", "edit"} /\ provState'[provAt.name] = NoEntry
       THEN GoTo("not found", "", provCalls) ELSE Stay(provCalls)
  /\ UNCHANGED <<provFile, provParses, provOps>>

OpenProvider(page, n) ==
  /\ provAt.page = "list" \/ (page = "edit" /\ provAt = [page |-> "detail", name |-> n])
  /\ ListedProviders(n)
  /\ GoTo(page, n, provCalls)
  /\ UNCHANGED <<provFile, provParses, provState, provRead, provList, provOps>>

NewProvider ==
  /\ provAt.page = "list"
  /\ GoTo("new", "", provCalls)
  /\ UNCHANGED <<provFile, provParses, provState, provRead, provList, provOps>>

BackToProviders ==
  /\ provAt.page # "list"
  /\ GoTo("list", "", provCalls)
  /\ UNCHANGED <<provFile, provParses, provState, provRead, provList, provOps>>

-----------------------------------------------------------------------------
(* The form.                                                               *)

(* A field, also while a call is under way.  The name is fixed in an edit. *)
UpdateForm(field) ==
  /\ provAt.page \in {"new", "edit"}
  /\ CountProvOp
  /\ provKeyTyped' = (provKeyTyped \/ field = "key")
  /\ provForm' \in
       CASE field = "name" ->
              {[provForm EXCEPT !.name = n] : n \in {m \in ProviderNames : provAt.page = "new"}}
         [] field = "key" -> {[provForm EXCEPT !.key = k] : k \in {"${VAR}", "typed"}}
         [] field = "base" -> {[provForm EXCEPT !.base = "base"]}
         [] field = "models" ->   (* add a row, fill it, or remove it *)
              {[provForm EXCEPT !.models = Append(@, "")]}
              \cup {[provForm EXCEPT !.models[i] = "m"] : i \in DOMAIN provForm.models}
              \cup {[provForm EXCEPT !.models = RemoveAt(@, i)] : i \in DOMAIN provForm.models}
  /\ UNCHANGED <<provFile, provParses, provState, provRead, provList, provAt, provCalls>>

(* A name from the catalogue comes with its endpoint.                      *)
ApplyCatalog(n) ==
  /\ provAt.page = "new"
  /\ CountProvOp
  /\ provForm' = [provForm EXCEPT !.name = n, !.base = "base"]
  /\ UNCHANGED <<provFile, provParses, provState, provRead, provList, provAt, provKeyTyped,
                 provCalls>>

Calls(do, n, entry) ==
  provCalls' = provCalls \cup
    {[do |-> do, name |-> n, entry |-> entry, back |-> provAt.page # "list",
      keyTyped |-> provKeyTyped, here |-> TRUE, id |-> provOps]}

(* buildPayload leaves blank rows out.                                     *)
Filled(models) ==
  FlattenSeq([i \in DOMAIN models |-> IF models[i] = "" THEN <<>> ELSE <<models[i]>>])

(* One call of a form at a time.                                           *)
HandleSave ==
  /\ provAt.page \in {"new", "edit"}
  /\ provForm.name # ""
  /\ \A c \in provCalls : ~c.here
  /\ CountProvOp
  /\ Calls(IF provAt.page = "new" THEN "add" ELSE "update", provForm.name,
           Entry(provForm.key, provForm.base, Filled(provForm.models)))
  /\ UNCHANGED <<provFile, provParses, provState, provRead, provList, provAt, provForm,
                 provKeyTyped>>

RemoveProvider(n) ==
  /\ \/ provAt.page = "list" /\ ListedProviders(n)
     \/ provAt = [page |-> "detail", name |-> n]
  /\ \A c \in provCalls : ~c.here
  /\ CountProvOp
  /\ Calls("remove", n, NoEntry)
  /\ UNCHANGED <<provFile, provParses, provState, provRead, provList, provAt, provForm,
                 provKeyTyped>>

-----------------------------------------------------------------------------
(* The registry.                                                           *)

(* Mutant: the file is written from what the registry holds.               *)
MutateFromState(n, entry) ==
  /\ provFile' = [provState EXCEPT ![n] = entry]
  /\ provState' = ExpandAll(provFile')
  /\ provRead' = TRUE

(* The file is read, changed, written and read again, under a lock.        *)
MutateFile(n, entry) ==
  /\ provFile' = [provFile EXCEPT ![n] = entry]
  /\ provState' = ExpandAll(provFile')
  /\ provRead' = TRUE

Accepts(c) ==
  /\ provParses
  /\ CASE c.do = "add" -> provFile[c.name] = NoEntry
       [] OTHER        -> provFile[c.name] # NoEntry

(* Add, Update and Remove.  Success leads to the list, from wherever the   *)
(* operator is; a removal from the list page does not move.                *)
ProviderSaved(c) ==
  /\ c \in provCalls
  /\ Accepts(c)
  /\ MutateFile(c.name, c.entry)
  /\ IF c.back THEN GoTo("list", "", provCalls \ {c}) ELSE Stay(provCalls \ {c})
  /\ UNCHANGED <<provParses, provList, provOps>>

ProviderRefused(c) ==
  /\ c \in provCalls
  /\ ~Accepts(c)
  /\ provCalls' = provCalls \ {c}
  /\ UNCHANGED <<provFile, provParses, provState, provRead, provList, provAt, provForm,
                 provKeyTyped, provOps>>

(* The file is edited by hand, or by otters provider.                      *)
EditFile ==
  /\ CountProvOp
  /\ provRead' = FALSE
  /\ \/ /\ provParses' = ~provParses
        /\ UNCHANGED provFile
     \/ /\ provParses' = TRUE
        /\ \E n \in ProviderNames : \E e \in {NoEntry, Entry("${VAR}", "base", <<"m">>)} :
             provFile' = [provFile EXCEPT ![n] = e]
  /\ UNCHANGED <<provState, provList, provAt, provForm, provKeyTyped, provCalls>>

ProvNext ==
  \/ FetchProviders \/ NewProvider \/ BackToProviders \/ HandleSave \/ EditFile
  \/ \E n \in ProviderNames :
       \/ \E page \in {"detail", "edit"} : OpenProvider(page, n)
       \/ ApplyCatalog(n) \/ RemoveProvider(n)
  \/ \E field \in {"name", "key", "base", "models"} : UpdateForm(field)
  \/ \E c \in provCalls : ProviderSaved(c) \/ ProviderRefused(c)

-----------------------------------------------------------------------------
(* Properties.                                                             *)

ProvTypeOK ==
  /\ \A n \in ProviderNames :
       /\ provFile[n].key \in {"none", "", "${VAR}", "secret", "typed"}
       /\ provState[n].key # "${VAR}"
       /\ \A i \in DOMAIN provFile[n].models : provFile[n].models[i] # ""
  /\ provAt.page \in {"list", "detail", "new", "edit", "not found"}
  /\ provForm.name \in ProviderNames \cup {""}
  /\ provOps \in 0..MaxProviderOps

Answered(calls) == {c \in provCalls : \A d \in calls : d.id # c.id}

(* Saving or removing one provider leaves every other entry of the file as *)
(* it is written there: in particular a reference to the environment is    *)
(* never replaced by the key it stands for, although the registry only     *)
(* holds the expanded keys.                                                *)
OthersKeepTheirReference ==
  [][\A c \in Answered(provCalls'), n \in ProviderNames :
       n # c.name => provFile'[n] = provFile[n]]_provVars

(* What the daemon resolves models with is the file, expanded, unless the  *)
(* file was edited by hand since it was last asked.                        *)
RegistryFollowsFile == provRead /\ provParses => provState = ExpandAll(provFile)

(* provider-form.tsx: "Treat literal "${VAR}" markers as env-var           *)
(* references; daemon expands those at load time."  An edit that does not  *)
(* touch the key leaves the reference in the file.                         *)
EditKeepsReference ==
  [][\A c \in Answered(provCalls') :
       c.do = "update" /\ ~c.keyTyped /\ provFile[c.name].key = "${VAR}"
         => provFile'[c.name].key = "${VAR}"]_provVars
=============================================================================

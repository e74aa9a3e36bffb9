------------------------------ MODULE CodeBlock ------------------------------
(***************************************************************************)
(* The blocks of code in the tool rows of the chat.  A block is drawn raw  *)
(* at once; the tokens come from a highlighter that is loaded on first use *)
(* and shared, with its answers in a cache that is shared too.  A block    *)
(* asks twice: in its render, for what is cached, and in its effect, with  *)
(* a callback.  A row never changes its code; it is mounted anew.          *)
(*                                                                         *)
(* Source: components/ai-elements/code-block.tsx, tool.tsx.                *)
(***************************************************************************)
EXTENDS Naturals

CONSTANTS
  CodeBlocks,    (* places on the page                                     *)
  CodeKeys,      (* keys of the cache: a length, the first and the last    *)
                 (* hundred characters                                     *)
  CodeBodies,    (* what texts of one key differ in                        *)
  MaxCodeOps     (* bound: mounts                                          *)

ASSUME CodeAssumption == MaxCodeOps \in Nat /\ 0 \notin CodeKeys

CodeTexts == [key : CodeKeys, body : CodeBodies]

VARIABLES
  codeOf,        (* block -> its code, NoCode when it is not mounted       *)
  codeSync,      (* block -> the tokens found by its render, or NoCode     *)
  codeAsync,     (* block -> the tokens its callback was given, or NoCode  *)
  codeAsked,     (* blocks whose effect has run                            *)
  codeSubs,      (* subscribers: blocks that wait for the tokens of a key  *)
  codeCache,     (* tokensCache: key -> tokens, or NoCode                  *)
  codeLoader,    (* the highlighter: "none", "loading", "loaded", "failed" *)
  codeThen,      (* continuations that wait for it: texts                  *)
  codeOps

codeVars == <<codeOf, codeSync, codeAsync, codeAsked, codeSubs, codeCache, codeLoader, codeThen,
              codeOps>>

(* Tokens are named by the text they were made of.                         *)
NoCode == [key |-> 0, body |-> 0]

GetTokensCacheKey(c) == c.key

CodeInit ==
  /\ codeOf = [b \in CodeBlocks |-> NoCode]
  /\ codeSync = codeOf /\ codeAsync = codeOf
  /\ codeAsked = {} /\ codeSubs = {}
  /\ codeCache = [k \in CodeKeys |-> NoCode]
  /\ codeLoader = "none"
  /\ codeThen = {}
  /\ codeOps = 0

Cached(c) == codeCache[GetTokensCacheKey(c)]

(* highlightCode, when nothing is cached: getHighlighter starts the load   *)
(* once, and keeps its promise for good, a rejected one too.               *)
HighlightCode(c) ==
  IF Cached(c) # NoCode
    THEN UNCHANGED <<codeLoader, codeThen>>
    ELSE /\ codeThen' = codeThen \cup {c}
         /\ codeLoader' = IF codeLoader = "none" THEN "loading" ELSE codeLoader

(* The render of a new block.                                              *)
MountCode(b, c) ==
  /\ codeOf[b] = NoCode /\ codeOps < MaxCodeOps
  /\ codeOps' = codeOps + 1
  /\ codeOf' = [codeOf EXCEPT ![b] = c]
  /\ codeSync' = [codeSync EXCEPT ![b] = Cached(c)]
  /\ codeAsync' = [codeAsync EXCEPT ![b] = NoCode]
  /\ HighlightCode(c)
  /\ UNCHANGED <<codeAsked, codeSubs, codeCache>>

(* Its effect, some time after: the callback is not called for what is     *)
(* cached by now.                                                          *)
CodeEffect(b) ==
  /\ codeOf[b] # NoCode /\ b \notin codeAsked
  /\ codeAsked' = codeAsked \cup {b}
  /\ codeSubs' = IF Cached(codeOf[b]) = NoCode THEN codeSubs \cup {b} ELSE codeSubs
  /\ HighlightCode(codeOf[b])
  /\ UNCHANGED <<codeOf, codeSync, codeAsync, codeCache, codeOps>>

(* The cleanup cancels the callback.                                       *)
UnmountCode(b) ==
  /\ b \in codeAsked
  /\ codeOf' = [codeOf EXCEPT ![b] = NoCode]
  /\ codeAsked' = codeAsked \ {b} /\ codeSubs' = codeSubs \ {b}
  /\ UNCHANGED <<codeSync, codeAsync, codeCache, codeLoader, codeThen, codeOps>>

HighlighterSettles ==
  /\ codeLoader = "loading"
  /\ codeLoader' \in {"loaded", "failed"}
  /\ UNCHANGED <<codeOf, codeSync, codeAsync, codeAsked, codeSubs, codeCache, codeThen, codeOps>>

Waiting(c) == {b \in codeSubs : GetTokensCacheKey(codeOf[b]) = GetTokensCacheKey(c)}

(* A continuation: the tokens are cached and handed to everyone who waits  *)
(* for that key; without a highlighter nobody waits any longer.            *)
Tokenized(c) ==
  /\ c \in codeThen /\ codeLoader \in {"loaded", "failed"}
  /\ codeThen' = codeThen \ {c}
  /\ codeSubs' = codeSubs \ Waiting(c)
  /\ IF codeLoader = "loaded"
       THEN /\ codeCache' = [codeCache EXCEPT ![GetTokensCacheKey(c)] = c]
            /\ codeAsync' = [b \in CodeBlocks |-> IF b \in Waiting(c) THEN c ELSE codeAsync[b]]
       ELSE UNCHANGED <<codeCache, codeAsync>>
  /\ UNCHANGED <<codeOf, codeSync, codeAsked, codeLoader, codeOps>>

CodeNext ==
  \/ \E b \in CodeBlocks : CodeEffect(b) \/ UnmountCode(b) \/ \E c \in CodeTexts : MountCode(b, c)
  \/ HighlighterSettles
  \/ \E c \in codeThen : Tokenized(c)

CodeSettles == HighlighterSettles \/ \E c \in codeThen : Tokenized(c)

-----------------------------------------------------------------------------
(* What is drawn: tokens, or the raw text.                                 *)
CodeBlockContent(b) ==
  CASE codeAsync[b] # NoCode                          -> codeAsync[b]
    [] codeAsync[b] = NoCode /\ codeSync[b] # NoCode  -> codeSync[b]
    [] OTHER                                          -> codeOf[b]

CodeTypeOK ==
  /\ \A b \in CodeBlocks : {codeOf[b], codeSync[b], codeAsync[b]} \subseteq CodeTexts \cup {NoCode}
  /\ codeSubs \subseteq codeAsked /\ codeAsked \subseteq {b \in CodeBlocks : codeOf[b] # NoCode}
  /\ codeLoader \in {"none", "loading", "loaded", "failed"}
  /\ codeThen \subseteq CodeTexts /\ codeOps \in 0..MaxCodeOps

(* A block shows its own text, raw or coloured, unless another one has the *)
(* same key: whoever loads, answers or leaves first.                       *)
OwnCode ==
  \A b \in CodeBlocks : codeOf[b] # NoCode =>
    GetTokensCacheKey(CodeBlockContent(b)) = GetTokensCacheKey(codeOf[b])

(* Every block that waits for its tokens was answered, or need not wait.   *)
CodeAnswered == codeSubs = {}
=============================================================================

------------------------------- MODULE ChatPage -------------------------------
(***************************************************************************)
(* The chat page of one session and the log the daemon keeps of it.        *)
(*                                                                         *)
(* The page holds its own messages: it reads the log once, when it is      *)
(* opened (hydration), and from then on only the reply streams change      *)
(* them.  The runtime appends turns to the log through the daemon.  Stop   *)
(* and a failing stream leave the runtime's turn behind, which may still   *)
(* be kept.  The query cache outlives the page, a reload of the tab        *)
(* empties it.                                                             *)
(*                                                                         *)
(* Source: app/app/agents/[agent]/chat/[session]/view.tsx;                 *)
(* internal/state_agentstate.go for the log.                               *)
(***************************************************************************)
EXTENDS Transcript, FiniteSets

CONSTANTS
  Tools,       (* names of the agent's tools                               *)
  WordLooks,   (* what a chunk of text looks like                          *)
  UserOps,     (* what the user does besides sending                       *)
  Limit,       (* rows ListSessionMessages returns, the oldest ones        *)
  MaxPrompts,  (* bound: how many prompts are sent                         *)
  MaxEvents,   (* bound: events of one reply                               *)
  MaxOps       (* bound: how many of UserOps there are                     *)

ASSUME ChatPageAssumption ==
  /\ WordLooks \subseteq {"plain", "call", "result"}
  /\ UserOps \subseteq {"regenerate", "retry", "edit", "switch", "stop", "leave",
                        "reload", "compact", "fail"}
  /\ Limit \in Nat \ {0} /\ MaxPrompts \in Nat /\ MaxEvents \in Nat /\ MaxOps \in Nat

VARIABLES
  messages,  (* the page's messages                                        *)
  status,    (* "ready", "streaming", "error"                              *)
  hydrated,  (* hydratedRef is set to this session                         *)
  cache,     (* the query's data: rows, or NoData                          *)
  stream,    (* the reply that is being read                               *)
  log,       (* agent_messages of the session                              *)
  orphan,    (* a turn of the runtime that no page reads any more          *)
  sent,      (* how many prompts were sent                                 *)
  mounts,    (* how often the page was opened                              *)
  ops,       (* how many of UserOps there were                             *)
  (* history *)
  diverged   (* the page and the log were told different things            *)

vars == <<messages, status, hydrated, cache, stream, log, orphan, sent, mounts, ops,
          diverged>>

Active(m) == m.branches[m.active]

(* Markup leaked into the text of a turn.                                  *)
Leaked == \E i \in DOMAIN messages, j \in 1..MaxEvents :
            j \in DOMAIN Active(messages[i]) /\ HasMarkup(Active(messages[i])[j])

(* Something besides sending, within the bounds: what has markup in it is  *)
(* only read.                                                              *)
Happens(op) == op \in UserOps /\ ops < MaxOps /\ ~Leaked /\ ops' = ops + 1

(* The answer of the query, if there is one.                               *)
NoData == <<>>

Data(rows) == <<SubSeq(rows, 1, IF Len(rows) < Limit THEN Len(rows) ELSE Limit)>>

NoStream == [on |-> FALSE, id |-> <<"none", 0, "none">>, branch |-> 0, regen |-> FALSE,
             got |-> <<>>]

(* submitted and streaming are set in one go, before the first await.      *)
Streaming == status = "streaming"

Message(n, role, parts) ==
  [id |-> <<"msg", n, role>>, role |-> role, branches |-> <<parts>>, active |-> 1,
   failed |-> FALSE]

Index(id) == SelectInSeq(messages, LAMBDA m : m.id = id)

Row(role, parts) == [role |-> role, content |-> parts, others |-> <<>>, active |-> 1]

(* AgentMessagesLastAssistant: what a regenerated reply is appended to.     *)
LastAssistant == SelectLastInSeq(log, LAMBDA r : r.role = "assistant")

Init ==
  /\ messages = <<>>
  /\ status = "ready"
  /\ hydrated = FALSE
  /\ cache = NoData
  /\ stream = NoStream
  /\ log = <<>>
  /\ orphan = NoStream
  /\ sent = 0
  /\ mounts = 1
  /\ ops = 0
  /\ diverged = FALSE

-----------------------------------------------------------------------------
(* Hydration.                                                              *)

(* The query is answered; it is asked again every few seconds.             *)
Fetch ==
  /\ cache # Data(log)
  /\ cache' = Data(log)
  /\ UNCHANGED <<messages, status, hydrated, stream, log, orphan, sent, mounts, ops, diverged>>

(* Mutant: the snapshot is installed over a conversation under way.        *)
HydrateClobbering ==
  /\ ~hydrated /\ cache # NoData
  /\ hydrated' = TRUE
  /\ messages' = IF cache[1] # <<>> THEN FromLog(cache[1]) ELSE messages
  /\ diverged' = (diverged \/ cache # Data(log) \/ orphan.on)
  /\ UNCHANGED <<status, cache, stream, log, orphan, sent, mounts, ops>>

(* The effect runs when there is data.  A turn under way is not            *)
(* overwritten by the snapshot, which is then never used.                  *)
Hydrate ==
  /\ ~hydrated /\ cache # NoData
  /\ hydrated' = TRUE
  /\ IF messages # <<>> \/ Streaming
       THEN /\ diverged' = (diverged \/ mounts > 1 \/ orphan.on)
            /\ UNCHANGED messages
       ELSE /\ messages' = IF cache[1] # <<>> THEN FromLog(cache[1]) ELSE messages
            /\ diverged' = (diverged \/ cache # <<log>> \/ orphan.on)
  /\ UNCHANGED <<status, cache, stream, log, orphan, sent, mounts, ops>>

-----------------------------------------------------------------------------
(* sendPrompt.                                                             *)

Begin(id, branch, regen) ==
  /\ status' = "streaming"
  /\ stream' = [on |-> TRUE, id |-> id, branch |-> branch, regen |-> regen, got |-> <<>>]

(* A new turn after the given messages: the user's, and an empty reply.    *)
(* The runtime appends the prompt.                                         *)
SendNew(before) ==
  /\ sent < MaxPrompts
  /\ sent' = sent + 1
  /\ LET prompt == <<TextPart(<<Word(sent + 1, "plain")>>)>> IN
       /\ messages' = before \o <<Message(sent + 1, "user", prompt),
                                  Message(sent + 1, "assistant", <<>>)>>
       /\ log' = Append(log, Row("user", prompt))
  /\ Begin(<<"msg", sent + 1, "assistant">>, 1, FALSE)

(* Mutant: the new branch is added, and the old one stays selected.        *)
SendAgainUnselected(i, before) ==
  /\ sent < MaxPrompts
  /\ sent' = sent + 1
  /\ messages' = [before EXCEPT ![i].branches = Append(@, <<>>), ![i].failed = FALSE]
  /\ Begin(messages[i].id, Len(before[i].branches) + 1, TRUE)
  /\ UNCHANGED log

(* A new branch of message i, which becomes the one shown.                 *)
SendAgain(i, before) ==
  /\ sent < MaxPrompts
  /\ sent' = sent + 1
  /\ messages' = [before EXCEPT ![i].branches = Append(@, <<>>),
                                ![i].active = Len(before[i].branches) + 1,
                                ![i].failed = FALSE]
  /\ Begin(messages[i].id, Len(before[i].branches) + 1, TRUE)
  /\ UNCHANGED log

(* The composer or a suggestion.                                           *)
Submit ==
  /\ ~Streaming
  /\ SendNew(messages)
  /\ UNCHANGED <<hydrated, cache, orphan, mounts, ops, diverged>>

(* The prompt a reply answers is the message before it.                    *)
Answers(i) == i > 1 /\ messages[i - 1].role = "user"

(* handleRegenerate, offered under a reply that is not streaming.  The     *)
(* runtime adds the branch to the last reply of its log.                   *)
Regenerate(i) ==
  /\ Happens("regenerate")
  /\ ~Streaming
  /\ messages[i].role = "assistant" /\ Active(messages[i]) # <<>>
  /\ Answers(i)
  /\ SendAgain(i, messages)
  /\ diverged' = (diverged \/ i # Len(messages))
  /\ UNCHANGED <<hydrated, cache, orphan, mounts>>

(* handleRetry, under a prompt: the turns from it on are dropped and the   *)
(* prompt is sent as a new one.                                            *)
Retry(i) ==
  /\ Happens("retry")
  /\ ~Streaming
  /\ messages[i].role = "user"
  /\ SendNew(SubSeq(messages, 1, i - 1))
  /\ diverged' = TRUE
  /\ UNCHANGED <<hydrated, cache, orphan, mounts>>

(* The Retry button of an empty failed reply; only the last reply hides it *)
(* while a stream is open.                                                 *)
RetryOffered(i) ==
  /\ messages[i].role = "assistant" /\ messages[i].failed
  /\ Active(messages[i]) = <<>>
  /\ ~(Streaming /\ i = Len(messages))

(* handleRetryAfterError empties the failed branch and clears the mark;    *)
(* sendPrompt then returns at once if a stream is open.                    *)
RetryAfterError(i) ==
  /\ Happens("retry")
  /\ RetryOffered(i)
  /\ Answers(i)
  /\ LET cleared == [messages EXCEPT ![i].branches[messages[i].active] = <<>>,
                                     ![i].failed = FALSE]
     IN  IF Streaming THEN messages' = cleared /\ UNCHANGED <<status, stream, sent, log>>
                      ELSE SendAgain(i, cleared)
  /\ diverged' = TRUE
  /\ UNCHANGED <<hydrated, cache, orphan, mounts>>

(* handleEdit: the prompt goes back to the composer, the turns from it on  *)
(* are dropped.                                                            *)
Edit(i) ==
  /\ Happens("edit")
  /\ ~Streaming
  /\ messages[i].role = "user"
  /\ messages' = SubSeq(messages, 1, i - 1)
  /\ diverged' = TRUE
  /\ UNCHANGED <<status, hydrated, cache, stream, log, orphan, sent, mounts>>

(* Mutant: the arrows also work while a reply streams.                     *)
SwitchBranchAnyTime(i) ==
  /\ Happens("switch")
  /\ Len(messages[i].branches) > 1
  /\ messages' = [messages EXCEPT ![i].active = (@ % Len(messages[i].branches)) + 1]
  /\ diverged' = TRUE
  /\ UNCHANGED <<status, hydrated, cache, stream, log, orphan, sent, mounts>>

(* Mutant: the last branch is not the end of the round.                    *)
SwitchBranchPast(i) ==
  /\ Happens("switch")
  /\ ~Streaming
  /\ Len(messages[i].branches) > 1
  /\ messages' = [messages EXCEPT ![i].active = @ + 1]
  /\ diverged' = TRUE
  /\ UNCHANGED <<status, hydrated, cache, stream, log, orphan, sent, mounts>>

(* switchBranch, to the next branch round; the previous one is a matter of *)
(* going on.                                                               *)
SwitchBranch(i) ==
  /\ Happens("switch")
  /\ ~Streaming
  /\ Len(messages[i].branches) > 1
  /\ messages' = [messages EXCEPT ![i].active = (@ % Len(messages[i].branches)) + 1]
  /\ diverged' = TRUE
  /\ UNCHANGED <<status, hydrated, cache, stream, log, orphan, sent, mounts>>

-----------------------------------------------------------------------------
(* The reply stream.                                                       *)

(* Calls of the reply that have no result yet.                             *)
Open(got) ==
  {e \in ToSet(got) : e.type = "tool.call" /\
     \A f \in ToSet(got) : ~(f.type = "tool.result" /\ f.by = e.by)}

(* Bound: markup leaks into the first reply only.                          *)
LooksNow == IF sent = 1 /\ ops = 0 THEN WordLooks ELSE {"plain"}

(* The runtime's next event.  The page's own comment: calls of one name do *)
(* not overlap within a turn.  step.start and step.finish are left out:    *)
(* they change the placeholder line only.                                  *)
Events(got) ==
  LET n == Len(got) + 1
      E(type, tool, by, look) ==
        [type |-> type, n |-> n, tool |-> tool, by |-> by, look |-> look]
  IN  {E("text.delta", "none", Null, look) : look \in LooksNow}
      \cup {E("tool.call", t, n, "none") : t \in {u \in Tools : \A e \in Open(got) : e.tool # u}}
      \cup {E("tool.result", e.tool, e.by, "none") : e \in Open(got)}

(* An event is appended to the active branch of the target.                *)
Receive(e) ==
  /\ stream.on
  /\ Len(stream.got) < MaxEvents
  /\ stream' = [stream EXCEPT !.got = Append(@, e)]
  /\ messages' = [i \in DOMAIN messages |->
                    IF messages[i].id = stream.id
                      THEN [messages[i] EXCEPT !.branches[messages[i].active] = Reduce(@, e)]
                      ELSE messages[i]]
  /\ UNCHANGED <<status, hydrated, cache, log, orphan, sent, mounts, ops, diverged>>

Kept(t) == FoldLeft(Keep, <<>>, t.got)

(* External: the runtime keeps a turn, as a row or as a branch of its last *)
(* reply (AgentMessagesLastAssistant, AgentMessagesUpdateBranches).        *)
Persist(t) ==
  LET i == LastAssistant IN
  IF t.regen /\ i # 0
    THEN ReplaceAt(log, i, [log[i] EXCEPT !.content = Kept(t),
                                          !.others = Append(@, log[i].content),
                                          !.active = Len(log[i].others) + 2])
    ELSE Append(log, Row("assistant", Kept(t)))

(* The stream ends by itself: the turn has been kept.                      *)
StreamEnds ==
  /\ stream.on
  /\ stream' = NoStream
  /\ status' = "ready"
  /\ log' = Persist(stream)
  /\ UNCHANGED <<messages, hydrated, cache, orphan, sent, mounts, ops, diverged>>

(* The page stops reading; what becomes of the runtime's turn is open.     *)
(* (One such turn is followed, others are lost.)                           *)
Detach ==
  /\ stream' = NoStream
  /\ orphan' \in {orphan} \cup (IF stream.on THEN {stream} ELSE {})
  /\ diverged' = (diverged \/ stream.on)

(* The stream breaks, before or after the agent took the prompt.           *)
StreamFails ==
  /\ Happens("fail")
  /\ stream.on
  /\ status' = "error"
  /\ messages' = [i \in DOMAIN messages |->
                    IF messages[i].id = stream.id THEN [messages[i] EXCEPT !.failed = TRUE]
                                                  ELSE messages[i]]
  /\ Detach
  /\ UNCHANGED <<hydrated, cache, log, sent, mounts>>

(* Escape or the Stop button.  The abort is an error of the iteration;     *)
(* what it is called decides whether the turn counts as failed.            *)
Stop ==
  /\ Happens("stop")
  /\ stream.on
  /\ \/ status' = "ready" /\ UNCHANGED messages
     \/ /\ status' = "error"
        /\ messages' = [i \in DOMAIN messages |->
              IF messages[i].id = stream.id THEN [messages[i] EXCEPT !.failed = TRUE]
                                            ELSE messages[i]]
  /\ Detach
  /\ UNCHANGED <<hydrated, cache, log, sent, mounts>>

(* External: a turn nobody reads is kept, or given up.                     *)
OrphanEnds ==
  /\ orphan.on
  /\ log' \in {log, Persist(orphan)}
  /\ orphan' = NoStream
  /\ UNCHANGED <<messages, status, hydrated, cache, stream, sent, mounts, ops, diverged>>

(* External: the runtime condenses the log (AgentMessagesReplace): the     *)
(* last turn, a prompt and its reply, stays between the summary and the    *)
(* notice.                                                                 *)
Compact ==
  /\ Happens("compact")
  /\ ~stream.on /\ ~orphan.on
  /\ Len(log) > 2
  /\ log[Len(log) - 1].role = "user" /\ log[Len(log)].role = "assistant"
  /\ \A i \in DOMAIN log : ~Looks(log[i].content, "notice")
  /\ log' = <<Row("assistant", <<TextPart(<<Word(0, "summary")>>)>>)>>
            \o SubSeq(log, Len(log) - 1, Len(log))
            \o <<Row("user", <<TextPart(<<Word(0, "notice")>>)>>)>>
  /\ diverged' = TRUE
  /\ UNCHANGED <<messages, status, hydrated, cache, stream, orphan, sent, mounts>>

-----------------------------------------------------------------------------
(* Leaving the page and coming back.                                       *)

Mount ==
  /\ mounts' = mounts + 1
  /\ messages' = <<>>
  /\ status' = "ready"
  /\ hydrated' = FALSE

(* By a link: the stream is not aborted, and the query cache stays.        *)
Leave ==
  /\ Happens("leave")
  /\ Mount
  /\ stream' = NoStream
  /\ orphan' = IF stream.on THEN stream ELSE orphan
  /\ diverged' = (stream.on \/ orphan.on)
  /\ UNCHANGED <<cache, log, sent>>

(* By a reload of the tab.                                                 *)
Reload ==
  /\ Happens("reload")
  /\ Mount
  /\ stream' = NoStream
  /\ orphan' \in {orphan} \cup (IF stream.on THEN {stream} ELSE {})
  /\ diverged' = (stream.on \/ orphan.on)
  /\ cache' = NoData
  /\ UNCHANGED <<log, sent>>

-----------------------------------------------------------------------------
Click ==
  \E i \in DOMAIN messages :
    Regenerate(i) \/ Retry(i) \/ RetryAfterError(i) \/ Edit(i) \/ SwitchBranch(i)

Next ==
  \/ Fetch \/ Hydrate
  \/ Submit \/ Click
  \/ \E e \in Events(stream.got) : Receive(e)
  \/ StreamEnds \/ StreamFails \/ Stop \/ OrphanEnds \/ Compact
  \/ Leave \/ Reload

Spec == Init /\ [][Next]_vars

-----------------------------------------------------------------------------
(* Properties.                                                             *)

TypeOK ==
  /\ status \in {"ready", "streaming", "error"}
  /\ hydrated \in BOOLEAN /\ diverged \in BOOLEAN
  /\ \A i \in DOMAIN messages :
       /\ messages[i].role \in {"user", "assistant", "system"}
       /\ messages[i].active \in DOMAIN messages[i].branches
  /\ sent \in 0..MaxPrompts /\ mounts \in 1..(MaxOps + 1) /\ ops \in 0..MaxOps

(* What streams in is found, whole and in order, in the branch that was    *)
(* opened for it, which stays the one shown; whatever was regenerated,     *)
(* retried, edited or switched before.                                     *)
StreamStaysInItsBranch ==
  stream.on =>
    LET i == Index(stream.id) IN
    /\ i # 0
    /\ messages[i].active = stream.branch
    /\ Active(messages[i]) = FoldLeft(Reduce, <<>>, stream.got)

Numbers(words) == [i \in DOMAIN words |-> words[i].n]

Present(n) == IF n = Null THEN <<>> ELSE <<n>>

(* The events a part was made of, and those that are read in its place.    *)
Sources(p) == IF IsText(p) THEN Numbers(p.content) ELSE Present(p.call) \o Present(p.output)

Read(p) ==
  LET shows == CompactToolRow(p, FALSE).shows IN
  IF IsText(p) THEN Numbers(p.content)
               ELSE FlattenSeq([k \in DOMAIN shows |-> Present(shows[k])])

MadeOf(parts) == FlattenSeq([j \in DOMAIN parts |-> Sources(parts[j])])
ReadIn(parts) == FlattenSeq([j \in DOMAIN parts |-> Read(parts[j])])
Items(groups) == FlattenSeq([j \in DOMAIN groups |-> groups[j].items])

(* Nothing of a reply is hidden by what is drawn in its place: markup that *)
(* leaked into the text becomes tool rows, rows become cards and panels,   *)
(* and every chunk, call and result is still there, once and in its place. *)
NothingHidden ==
  \A i \in DOMAIN messages :
    ReadIn(Items(Drawn(Active(messages[i])))) = MadeOf(Active(messages[i]))

(* Both: what the runtime sends is kept where it is shown, and shown.      *)
StreamIsShown == StreamStaysInItsBranch /\ NothingHidden

(* What is on screen would be read back from the log: every turn, every    *)
(* branch, the one selected, and every tool row with its own result (the   *)
(* log has them, although view.tsx:749-751 says that a rehydrated          *)
(* transcript is without).  Conversations in which the page and the log    *)
(* were told different things are exempt; one of the ways there is to      *)
(* hydrate from a cached answer older than the log, which is not replaced. *)
(* And the compactor's bookkeeping is never drawn as somebody's message.   *)
ReloadKeepsConversation ==
  /\ ~diverged /\ hydrated /\ ~stream.on => Shown(messages) = Shown(FromLog(log))
  /\ \A i \in DOMAIN messages :
       messages[i].role # "system" => ~IsSummary(messages[i]) /\ ~IsNotice(messages[i])

(* A turn on the page goes only by an edit or a retry of a prompt: what is  *)
(* left then is the conversation before that prompt, and at most the new   *)
(* turn.  A late answer to the history query drops nothing.                *)
OnlyTheUserDropsTurns ==
  [][(mounts' = mounts /\ \E m \in ToSet(messages) : \A k \in ToSet(messages') : k.id # m.id)
       => \E i \in DOMAIN messages :
            /\ messages[i].role = "user"
            /\ IsPrefix(SubSeq(messages, 1, i - 1), messages')
            /\ Len(messages') \in {i - 1, i + 1}]_vars

-----------------------------------------------------------------------------
(* Statements of the repository that the code does not keep.               *)

(* redirect.tsx: "embedding it in the URL makes the back button and        *)
(* bookmarks resume the same thread": a page that is opened while no reply *)
(* is under way, and gets an answer as recent as the log, shows the thread *)
(* as the log has it, and not only the first Limit rows of it.             *)
ResumesThread ==
  [][~hydrated /\ hydrated' /\ messages = <<>> /\ ~stream.on /\ ~orphan.on
     /\ cache = Data(log)
       => Shown(messages') = Shown(FromLog(log))]_vars
=============================================================================

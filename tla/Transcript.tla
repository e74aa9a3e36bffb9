------------------------------ MODULE Transcript ------------------------------
(***************************************************************************)
(* What the chat page of the dashboard makes of a reply: the parts of a    *)
(* branch as stream events arrive, the parts of persisted rows, and the    *)
(* groups that are drawn.                                                  *)
(*                                                                         *)
(* Text is a sequence of words, one per text.delta; a word is a number     *)
(* that says which event brought it, and what it looks like: plain, or a   *)
(* tool call or result that the model leaked into its text as markup.      *)
(*                                                                         *)
(* Source: app/app/agents/[agent]/chat/[session]/view.tsx.                 *)
(***************************************************************************)
EXTENDS Naturals, Sequences, SequencesExt

Null == 0

Word(n, look) == [n |-> n, look |-> look]

TextPart(words) == [kind |-> "text", content |-> words]

(* A tool row.  call and output are the numbers of the events, Null for    *)
(* none; by is the id the runtime knows the call by.                       *)
ToolPart(name, by, call, output) ==
  [kind |-> "tool", name |-> name, by |-> by, call |-> call, output |-> output,
   state |-> IF output = Null THEN "input-available" ELSE "output-available"]

IsText(p) == p.kind = "text"
Running(p) == p.kind = "tool" /\ p.state = "input-available"

-----------------------------------------------------------------------------
(* The stream reducer.                                                     *)

(* A chunk joins the trailing text part; after a tool it starts a new one. *)
PushTextDelta(parts, word) ==
  IF parts # <<>> /\ IsText(Last(parts))
    THEN Append(Front(parts), TextPart(Append(Last(parts).content, word)))
    ELSE Append(parts, TextPart(<<word>>))

PushToolCall(parts, name, by, n) == Append(parts, ToolPart(name, by, n, Null))

(* The result goes to the latest row of that name that still runs, or to a *)
(* row of its own.                                                         *)
AttachToolResult(parts, name, n) ==
  LET i == SelectLastInSeq(parts, LAMBDA p : Running(p) /\ p.name = name) IN
  IF i = 0 THEN Append(parts, ToolPart(name, Null, Null, n))
           ELSE ReplaceAt(parts, i, ToolPart(name, parts[i].by, parts[i].call, n))

(* An event is [type, n, tool, by, look].                                  *)
Reduce(parts, e) ==
  CASE e.type = "text.delta"  -> PushTextDelta(parts, Word(e.n, e.look))
    [] e.type = "tool.call"   -> PushToolCall(parts, e.tool, e.by, e.n)
    [] e.type = "tool.result" -> AttachToolResult(parts, e.tool, e.n)

(* What the runtime keeps of the same events: it pairs by the call's id.   *)
Keep(parts, e) ==
  IF e.type = "tool.result"
    THEN LET i == SelectInSeq(parts, LAMBDA p : p.kind = "tool" /\ p.by = e.by)
         IN  ReplaceAt(parts, i, ToolPart(e.tool, e.by, parts[i].call, e.n))
    ELSE Reduce(parts, e)

-----------------------------------------------------------------------------
(* Markup in text, drawn as tool rows.                                     *)

(* One word of a text that holds markup: a call opens a row, a result      *)
(* closes the row just before it if that one is open, or gets its own.     *)
RescueWord(out, w) ==
  CASE w.look = "call" -> Append(out, ToolPart("rescued", Null, w.n, Null))
    [] w.look = "result" ->
         IF out # <<>> /\ Running(Last(out))
           THEN Append(Front(out), ToolPart("rescued", Null, Last(out).call, w.n))
           ELSE Append(out, ToolPart("rescued", Null, Null, w.n))
    [] OTHER -> PushTextDelta(out, w)

HasMarkup(p) ==
  IsText(p) /\ \E i \in DOMAIN p.content : p.content[i].look \in {"call", "result"}

(* Mutant: a result in the text is dropped when no row before it is open.  *)
RescuedToolPartsDropping(p) ==
  FoldLeft(LAMBDA out, w : IF w.look = "result" /\ (out = <<>> \/ ~Running(Last(out)))
                             THEN out ELSE RescueWord(out, w), <<>>, p.content)

RescuedToolParts(p) == FoldLeft(RescueWord, <<>>, p.content)

ExpandRescuedParts(parts) ==
  FlattenSeq([i \in DOMAIN parts |->
    IF HasMarkup(parts[i]) THEN RescuedToolParts(parts[i]) ELSE <<parts[i]>>])

(* Runs of tool rows are drawn as one card.                                *)
Group(kind, items) == [kind |-> kind, items |-> items]

AddToGroups(groups, p) ==
  CASE IsText(p) -> Append(groups, Group("text", <<p>>))
    [] ~IsText(p) /\ groups # <<>> /\ Last(groups).kind = "tools" ->
         Append(Front(groups), Group("tools", Append(Last(groups).items, p)))
    [] OTHER -> Append(groups, Group("tools", <<p>>))

GroupParts(parts) == FoldLeft(AddToGroups, <<>>, parts)

Drawn(parts) == GroupParts(ExpandRescuedParts(parts))

(* A round trip to another agent is drawn as a prompt and, once it is      *)
(* over, a response, instead of its input and output.                      *)
AgentCallPanel(p) == <<p.call>> \o (IF Running(p) THEN <<>> ELSE <<p.output>>)

(* The job whose logs are drawn in the row, while it runs and afterwards.  *)
JobToolWatchId(p) == IF p.name \in {"job_watch", "job_wait", "job_status"} THEN p.call ELSE Null

(* The other agent's session is linked once there is an answer.            *)
CrossAgentLink(p) == p.name = "agent_exec" /\ p.call # Null /\ p.output # Null

(* A tool row: closed, unless it runs and the page is not made compact;    *)
(* and the events that are read in it, Null for one that is missing.       *)
CompactToolRow(p, densityCompact) ==
  [running |-> Running(p),
   open    |-> Running(p) /\ ~densityCompact,
   shows   |-> IF p.name = "agent_exec" THEN AgentCallPanel(p) ELSE <<p.call, p.output>>,
   link    |-> CrossAgentLink(p),
   logs    |-> JobToolWatchId(p)]

-----------------------------------------------------------------------------
(* Compaction markers.  The compactor leaves an assistant message whose    *)
(* text is a summary, and a user message that is a notice.                 *)

FirstText(parts) ==
  LET i == SelectInSeq(parts, IsText) IN IF i = 0 THEN <<>> ELSE parts[i].content

Looks(parts, look) == FirstText(parts) # <<>> /\ FirstText(parts)[1].look = look

IsSummary(m) == m.role = "assistant" /\ Looks(m.branches[m.active], "summary")
IsNotice(m)  == m.role = "user" /\ Looks(m.branches[m.active], "notice")

(* Mutant: the summary stays, as a reply of the assistant.                 *)
ApplyCompactionMarkersKeeping(messages) ==
  [i \in DOMAIN messages |->
     IF IsNotice(messages[i]) THEN [messages[i] EXCEPT !.role = "system"] ELSE messages[i]]

(* The first summary goes, every notice becomes a system row.              *)
ApplyCompactionMarkers(messages) ==
  LET summary == SelectInSeq(messages, IsSummary)
      folded  == [i \in DOMAIN messages |->
                    IF IsNotice(messages[i])
                      THEN [messages[i] EXCEPT !.role = "system"] ELSE messages[i]]
  IN  IF summary = 0 THEN folded ELSE RemoveAt(folded, summary)

-----------------------------------------------------------------------------
(* Persisted rows: [role, content, others, active].                        *)

(* Mutant: the branch of the content column comes first.                   *)
FromRowFirst(row, i) ==
  LET all == IF row.role = "assistant" /\ row.others # <<>>
               THEN <<row.content>> \o row.others ELSE <<row.content>>
  IN  [id |-> <<"hist", i, row.role>>, role |-> row.role, branches |-> all,
       active |-> IF row.active \in DOMAIN all THEN row.active ELSE Len(all),
       failed |-> FALSE]

(* parsePersistedBranches, and the choice of the branch shown.  Branches   *)
(* are numbered from 1 here; the column counts from 0.                     *)
FromRow(row, i) ==
  LET all == IF row.role = "assistant" /\ row.others # <<>>
               THEN Append(row.others, row.content) ELSE <<row.content>>
  IN  [id |-> <<"hist", i, row.role>>, role |-> row.role, branches |-> all,
       active |-> IF row.active \in DOMAIN all THEN row.active ELSE Len(all),
       failed |-> FALSE]

FromLog(rows) == ApplyCompactionMarkers([i \in DOMAIN rows |-> FromRow(rows[i], i)])

(* What a reader sees of a list of messages.                               *)
Shown(messages) ==
  [i \in DOMAIN messages |->
     [role |-> messages[i].role, active |-> messages[i].active,
      branches |-> messages[i].branches]]
=============================================================================

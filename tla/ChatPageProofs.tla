--------------------------- MODULE ChatPageProofs ---------------------------
(***************************************************************************)
(* Proofs about the chat page and the runtime's log behind it, for any     *)
(* prompts, tools, lengths of a reply and number of rows, versions,        *)
(* reconnections and reloads.                                              *)
(*                                                                         *)
(* Four arguments.  The row a reply streams into is made by the action     *)
(* that starts the stream, in the branch that is on screen, and every      *)
(* action that moves the branch or removes the row ends the stream.  Every *)
(* step either rewrites the rows in place, or appends to them, or starts   *)
(* again at a prompt the user chose.  And the log's rows and the rows on   *)
(* screen pair up, one to one: while a reply is read, the page is what the *)
(* log becomes if the runtime keeps what has arrived; this part rests on   *)
(* what streams in being folded alike on both sides.  Last, what is drawn  *)
(* of a reply: each word that is rescued and each piece that is grouped    *)
(* adds its own events at the end of what can be read so far, and no more. *)
(***************************************************************************)
EXTENDS ChatPage, SequenceLemmas

-----------------------------------------------------------------------------
(* The parts of a reply, event by event.  What streams in may hold leaked  *)
(* markup; the compactor's marks are only in rows it wrote.                *)

Leak == {"plain", "call", "result"}
Look == Leak \cup {"summary", "notice"}
AWord(W) == {w \in [n : Nat, look : W] : w.look \in {"call", "result"} => w.n # Null}
ToolRows == {p \in [kind : {"tool"}, name : Tools, by : Nat, call : Nat, output : Nat,
                    state : {"input-available", "output-available"}] :
              p.state = "input-available" <=> p.output = Null}
PartOf(W) == [kind : {"text"}, content : Seq(AWord(W))] \cup ToolRows
Part == PartOf(Look)
Plain == PartOf(Leak)
Event == [type : {"text.delta"}, n : Nat \ {0}, tool : {"none"}, by : Nat, look : Leak]
         \cup [type : {"tool.call", "tool.result"}, n : Nat \ {0}, tool : Tools, by : Nat, look : {"none"}]

LEMMA PlainIsPart == Seq(Plain) \subseteq Seq(Part)
<1>1. AWord(Leak) \subseteq AWord(Look)
  BY DEF AWord, Look
<1>2. Seq(AWord(Leak)) \subseteq Seq(AWord(Look))
  BY <1>1, SeqMonotonic
<1>3. Plain \subseteq Part
  BY <1>2 DEF Plain, Part, PartOf
<1>. QED
  BY <1>3, SeqMonotonic

LEMMA ReduceTyped ==
  ASSUME NEW W, Leak \subseteq W, NEW parts \in Seq(PartOf(W)), NEW e \in Event
  PROVE  Reduce(parts, e) \in Seq(PartOf(W))
<1>1. CASE e.type = "text.delta"
  <2>1. Reduce(parts, e) = PushTextDelta(parts, Word(e.n, e.look))
    BY <1>1 DEF Reduce
  <2>. DEFINE w == Word(e.n, e.look)
  <2>2. w \in AWord(W)
    <3>1. e.n \in Nat \ {0} /\ e.look \in W
      BY <1>1 DEF Event
    <3>. QED
      BY <3>1 DEF AWord, Word, Null
  <2>. HIDE DEF w
  <2>3. CASE parts # <<>> /\ IsText(Last(parts))
    <3>1. Front(parts) \in Seq(PartOf(W)) /\ Last(parts) \in PartOf(W)
      <4>1. Len(parts) \in Nat /\ Len(parts) # 0 /\ Len(parts) - 1 \in Nat
        BY <2>3, LenProperties, EmptySeq
      <4>2. \A i \in 1..Len(parts) : parts[i] \in PartOf(W)
        BY ElementOfSeq
      <4>3. Last(parts) \in PartOf(W)
        BY <4>1, <4>2 DEF Last
      <4>4. \A i \in 1..(Len(parts) - 1) : parts[i] \in PartOf(W)
        BY <4>1, <4>2
      <4>5. 1 \in Int /\ Len(parts) - 1 \in Int
        BY <4>1
      <4>. QED
        BY <4>3, <4>4, <4>5, SubSeqProperties DEF Front
    <3>2. Last(parts).content \in Seq(AWord(W))
      BY <2>3, <3>1 DEF PartOf, IsText, ToolRows
    <3>3. Append(Last(parts).content, w) \in Seq(AWord(W))
      BY <2>2, <3>2, AppendProperties
    <3>4. TextPart(Append(Last(parts).content, w)) \in PartOf(W)
      BY <3>3 DEF TextPart, PartOf
    <3>. QED
      BY <2>1, <2>3, <3>1, <3>4, AppendProperties DEF PushTextDelta, w
  <2>4. CASE ~(parts # <<>> /\ IsText(Last(parts)))
    <3>1. <<w>> \in Seq(AWord(W))
      BY <2>2
    <3>2. TextPart(<<w>>) \in PartOf(W)
      BY <3>1 DEF TextPart, PartOf
    <3>. QED
      BY <2>1, <2>4, <3>2, AppendProperties DEF PushTextDelta, w
  <2>. QED
    BY <2>3, <2>4
<1>2. CASE e.type = "tool.call"
  <2>1. e.tool \in Tools /\ e.by \in Nat /\ e.n \in Nat
    BY <1>2 DEF Event
  <2>2. ToolPart(e.tool, e.by, e.n, Null) \in PartOf(W)
    BY <2>1 DEF ToolPart, PartOf, Null, ToolRows
  <2>3. Reduce(parts, e) = Append(parts, ToolPart(e.tool, e.by, e.n, Null))
    BY <1>2 DEF Reduce, PushToolCall
  <2>. QED
    BY <2>2, <2>3, AppendProperties
<1>3. CASE e.type = "tool.result"
  <2>1. e.tool \in Tools /\ e.by \in Nat /\ e.n \in Nat
    BY <1>3 DEF Event
  <2>. DEFINE I == {i \in 1..Len(parts) : Running(parts[i]) /\ parts[i].name = e.tool}
              i == IF I # {} THEN Max(I) ELSE 0
  <2>2. Reduce(parts, e) = AttachToolResult(parts, e.tool, e.n)
    BY <1>3 DEF Reduce
  <2>3. AttachToolResult(parts, e.tool, e.n) =
          IF i = 0 THEN Append(parts, ToolPart(e.tool, Null, Null, e.n))
          ELSE ReplaceAt(parts, i, ToolPart(e.tool, parts[i].by, parts[i].call, e.n))
    BY DEF AttachToolResult, SelectLastInSeq
  <2>4. Len(parts) \in Nat /\ I \in SUBSET (1..Len(parts))
    BY LenProperties
  <2>5. I # {} => Max(I) \in I
    BY <2>4, Extremes
  <2>. HIDE DEF I
  <2>6. CASE i = 0
    <3>1. ToolPart(e.tool, Null, Null, e.n) \in PartOf(W)
      BY <2>1 DEF ToolPart, PartOf, Null, ToolRows
    <3>. QED
      BY <2>2, <2>3, <2>6, <3>1, AppendProperties
  <2>7. CASE i # 0
    <3>1. i \in 1..Len(parts) /\ Running(parts[i])
      BY <2>5, <2>7 DEF I
    <3>. HIDE DEF i
    <3>2. parts[i] \in PartOf(W)
      BY <3>1, ElementOfSeq
    <3>3. parts[i].by \in Nat /\ parts[i].call \in Nat
      BY <3>1, <3>2 DEF PartOf, Running, ToolRows
    <3>4. ToolPart(e.tool, parts[i].by, parts[i].call, e.n) \in PartOf(W)
      BY <2>1, <3>3 DEF ToolPart, PartOf, ToolRows
    <3>5. [parts EXCEPT ![i] = ToolPart(e.tool, parts[i].by, parts[i].call, e.n)] \in Seq(PartOf(W))
      BY <3>1, <3>4, ExceptSeq
    <3>. QED
      BY <2>2, <2>3, <2>7, <3>5 DEF ReplaceAt
  <2>. QED
    BY <2>6, <2>7
<1>. QED
  BY <1>1, <1>2, <1>3 DEF Event

(* The runtime's own fold: a result replaces the row of its call, if there *)
(* is one.                                                                 *)
LEMMA KeepTyped ==
  ASSUME NEW W, Leak \subseteq W, NEW parts \in Seq(PartOf(W)), NEW e \in Event
  PROVE  Keep(parts, e) \in Seq(PartOf(W))
<1>1. CASE e.type # "tool.result"
  BY <1>1, ReduceTyped DEF Keep
<1>2. CASE e.type = "tool.result"
  <2>1. e.tool \in Tools /\ e.by \in Nat /\ e.n \in Nat
    BY <1>2 DEF Event
  <2>. DEFINE I == {i \in 1..Len(parts) : parts[i].kind = "tool" /\ parts[i].by = e.by}
              i == IF I # {} THEN Min(I) ELSE 0
              row == ToolPart(e.tool, e.by, parts[i].call, e.n)
  <2>2. Keep(parts, e) = [parts EXCEPT ![i] = row]
    BY <1>2 DEF Keep, SelectInSeq, ReplaceAt
  <2>3. Len(parts) \in Nat /\ I \in SUBSET (1..Len(parts)) /\ DOMAIN parts = 1..Len(parts)
    BY LenProperties
  <2>4. I # {} => Min(I) \in I
    BY <2>3, Extremes
  <2>. HIDE DEF I
  <2>5. CASE i = 0
    <3>1. i \notin DOMAIN parts
      BY <2>3, <2>5
    <3>2. [parts EXCEPT ![i] = row] = parts
      BY <2>3, <3>1, LenProperties
    <3>. QED
      BY <2>2, <3>2
  <2>6. CASE i # 0
    <3>1. i \in 1..Len(parts) /\ parts[i].kind = "tool"
      BY <2>4, <2>6 DEF I
    <3>. HIDE DEF i
    <3>2. parts[i] \in PartOf(W)
      BY <3>1, ElementOfSeq
    <3>3. parts[i].call \in Nat
      BY <3>1, <3>2 DEF PartOf, ToolRows
    <3>4. row \in PartOf(W)
      BY <2>1, <3>3 DEF ToolPart, PartOf, ToolRows
    <3>. QED
      BY <2>2, <3>1, <3>4, ExceptSeq
  <2>. QED
    BY <2>5, <2>6
<1>. QED
  BY <1>1, <1>2

Built(got) == FoldLeft(Reduce, <<>>, got)

(* What each event does to the parts.                                      *)
Reduces(got) == [i \in DOMAIN got |-> [v \in Seq(Plain) |-> Reduce(v, got[i])]]
Keeps(got) == [i \in DOMAIN got |-> [v \in Seq(Plain) |-> Keep(v, got[i])]]

LEMMA ReducesTyped ==
  ASSUME NEW got \in Seq(Event)
  PROVE  /\ Len(got) \in Nat /\ DOMAIN got = 1..Len(got) /\ <<>> \in Seq(Plain)
         /\ \A i \in 1..Len(got) :
              /\ got[i] \in Event
              /\ Reduces(got)[i] \in [Seq(Plain) -> Seq(Plain)]
              /\ Keeps(got)[i] \in [Seq(Plain) -> Seq(Plain)]
              /\ \A v \in Seq(Plain) : /\ Reduces(got)[i][v] = Reduce(v, got[i])
                                      /\ Keeps(got)[i][v] = Keep(v, got[i])
<1>1. Len(got) \in Nat /\ DOMAIN got = 1..Len(got) /\ <<>> \in Seq(Plain)
  BY LenProperties, EmptySeq
<1>2. \A i \in 1..Len(got) : got[i] \in Event
  BY ElementOfSeq
<1>3. ASSUME NEW i \in 1..Len(got)
      PROVE  /\ Reduces(got)[i] \in [Seq(Plain) -> Seq(Plain)]
             /\ Keeps(got)[i] \in [Seq(Plain) -> Seq(Plain)]
             /\ \A v \in Seq(Plain) : /\ Reduces(got)[i][v] = Reduce(v, got[i])
                                     /\ Keeps(got)[i][v] = Keep(v, got[i])
  <2>1. /\ Reduces(got)[i] = [v \in Seq(Plain) |-> Reduce(v, got[i])]
        /\ Keeps(got)[i] = [v \in Seq(Plain) |-> Keep(v, got[i])]
    BY <1>1 DEF Reduces, Keeps
  <2>2. \A v \in Seq(Plain) : Reduce(v, got[i]) \in Seq(Plain) /\ Keep(v, got[i]) \in Seq(Plain)
    BY <1>2, ReduceTyped, KeepTyped DEF Plain
  <2>. QED
    BY <2>1, <2>2
<1>. QED
  BY <1>1, <1>2, <1>3

(* FoldLeft is a run through all the sets of indices, and there is only    *)
(* one.                                                                    *)
LEMMA BuiltByRun ==
  ASSUME NEW got \in Seq(Event), NEW g, IsRun(g, Len(got), Seq(Plain), <<>>, Reduces(got))
  PROVE  Built(got) = g[1..Len(got)]
<1>. DEFINE n == Len(got)
            IsIt(f) == f = [s \in SUBSET (1..n) |->
                              IF s = {} THEN <<>> ELSE Reduce(f[s \ {Max(s)}], got[Max(s)])]
            it == CHOOSE f : IsIt(f)
<1>1. n \in Nat /\ DOMAIN got = 1..n
  BY LenProperties
<1>2. Built(got) = it[1..n]
  BY <1>1 DEF Built, FoldLeft, MapThenFoldSet
<1>3. \A s \in SUBSET (1..n) :
        g[s] = IF s = {} THEN <<>> ELSE Reduce(g[s \ {Max(s)}], got[Max(s)])
  <2> TAKE s \in SUBSET (1..n)
  <2>1. CASE s = {}
    BY <2>1 DEF IsRun
  <2>2. CASE s # {}
    <3>1. Max(s) \in 1..n /\ s \ {Max(s)} \in SUBSET (1..n)
      BY <1>1, <2>2, Extremes
    <3>2. g[s \ {Max(s)}] \in Seq(Plain) /\ g[s] = Reduces(got)[Max(s)][g[s \ {Max(s)}]]
      BY <2>2, <3>1 DEF IsRun
    <3>. QED
      BY <2>2, <3>1, <3>2, ReducesTyped
  <2>. QED
    BY <2>1, <2>2
<1>4. g = [s \in SUBSET (1..n) |-> g[s]]
  BY DEF IsRun
<1>5. IsIt(g)
  BY <1>3, <1>4
<1>6. IsIt(it)
  BY <1>5
<1>7. \A s \in SUBSET (1..n) :
        it[s] = IF s = {} THEN <<>> ELSE Reduce(it[s \ {Max(s)}], got[Max(s)])
  BY <1>6
<1>. HIDE DEF it
<1>8. it[{}] = g[{}]
  BY <1>3, <1>7
<1>9. \A s \in SUBSET (1..n) : s # {} /\ it[s \ {Max(s)}] = g[s \ {Max(s)}] => it[s] = g[s]
  BY <1>3, <1>7
<1>10. it[1..n] = g[1..n]
  BY <1>1, <1>8, <1>9, RunsAgree
<1>. QED
  BY <1>2, <1>10

LEMMA KeptByRun ==
  ASSUME NEW got \in Seq(Event), NEW g, IsRun(g, Len(got), Seq(Plain), <<>>, Keeps(got))
  PROVE  FoldLeft(Keep, <<>>, got) = g[1..Len(got)]
<1>. DEFINE n == Len(got)
            IsIt(f) == f = [s \in SUBSET (1..n) |->
                              IF s = {} THEN <<>> ELSE Keep(f[s \ {Max(s)}], got[Max(s)])]
            it == CHOOSE f : IsIt(f)
<1>1. n \in Nat /\ DOMAIN got = 1..n
  BY LenProperties
<1>2. FoldLeft(Keep, <<>>, got) = it[1..n]
  BY <1>1 DEF FoldLeft, MapThenFoldSet
<1>3. \A s \in SUBSET (1..n) :
        g[s] = IF s = {} THEN <<>> ELSE Keep(g[s \ {Max(s)}], got[Max(s)])
  <2> TAKE s \in SUBSET (1..n)
  <2>1. CASE s = {}
    BY <2>1 DEF IsRun
  <2>2. CASE s # {}
    <3>1. Max(s) \in 1..n /\ s \ {Max(s)} \in SUBSET (1..n)
      BY <1>1, <2>2, Extremes
    <3>2. g[s \ {Max(s)}] \in Seq(Plain) /\ g[s] = Keeps(got)[Max(s)][g[s \ {Max(s)}]]
      BY <2>2, <3>1 DEF IsRun
    <3>. QED
      BY <2>2, <3>1, <3>2, ReducesTyped
  <2>. QED
    BY <2>1, <2>2
<1>4. g = [s \in SUBSET (1..n) |-> g[s]]
  BY DEF IsRun
<1>5. IsIt(g)
  BY <1>3, <1>4
<1>6. IsIt(it)
  BY <1>5
<1>7. \A s \in SUBSET (1..n) :
        it[s] = IF s = {} THEN <<>> ELSE Keep(it[s \ {Max(s)}], got[Max(s)])
  BY <1>6
<1>. HIDE DEF it
<1>8. it[{}] = g[{}]
  BY <1>3, <1>7
<1>9. \A s \in SUBSET (1..n) : s # {} /\ it[s \ {Max(s)}] = g[s \ {Max(s)}] => it[s] = g[s]
  BY <1>3, <1>7
<1>10. it[1..n] = g[1..n]
  BY <1>1, <1>8, <1>9, RunsAgree
<1>. QED
  BY <1>2, <1>10

(* What streams in: parts, and every event adds to what was built before.  *)
LEMMA Building ==
  ASSUME NEW got \in Seq(Event)
  PROVE  /\ Built(got) \in Seq(Plain)
         /\ \A e \in Event : Built(Append(got, e)) = Reduce(Built(got), e)
<1>. DEFINE n == Len(got)
            V == Seq(Plain)
<1>1. n \in Nat /\ <<>> \in V /\ \A i \in 1..n : Reduces(got)[i] \in [V -> V]
  BY ReducesTyped
<1>2. Built(got) \in V
  <2>. HIDE DEF V
  <2>1. PICK g : IsRun(g, n, V, <<>>, Reduces(got))
    BY <1>1, RunExists
  <2>2. g[1..n] \in V
    BY <1>1, <2>1 DEF IsRun
  <2>. QED
    BY <2>1, <2>2, BuiltByRun DEF V
<1>3. ASSUME NEW e \in Event PROVE Built(Append(got, e)) = Reduce(Built(got), e)
  <2>. DEFINE longer == Append(got, e)
  <2>1. /\ longer \in Seq(Event) /\ Len(longer) = n + 1 /\ longer[n + 1] = e
        /\ \A i \in 1..n : longer[i] = got[i]
    BY AppendProperties
  <2>. HIDE DEF longer
  <2>2. \A i \in 1..n + 1 : Reduces(longer)[i] \in [V -> V]
    BY <2>1, ReducesTyped
  <2>3. \A i \in 1..n : Reduces(longer)[i] = Reduces(got)[i]
    <3>1. DOMAIN longer = 1..n + 1 /\ DOMAIN got = 1..n /\ 1..n \subseteq 1..n + 1
      BY <1>1, <2>1, LenProperties
    <3>. QED
      BY <2>1, <3>1 DEF Reduces
  <2>4. PICK g : IsRun(g, n + 1, V, <<>>, Reduces(longer))
    <3>. HIDE DEF V
    <3>1. n + 1 \in Nat
      BY <1>1
    <3>. QED
      BY <1>1, <2>2, <3>1, RunExists
  <2>5. Built(longer) = g[1..n + 1]
    BY <2>1, <2>4, BuiltByRun
  <2>6. PICK h : IsRun(h, n, V, <<>>, Reduces(longer)) /\ h[1..n] = g[1..n]
    <3>. HIDE DEF V
    <3>. QED
      BY <1>1, <2>4, RunGrows
  <2>7. IsRun(h, n, V, <<>>, Reduces(got))
    <3>1. \A s \in SUBSET (1..n) : s # {} => Max(s) \in 1..n
      BY <1>1, Extremes
    <3>. QED
      BY <2>3, <2>6, <3>1 DEF IsRun
  <2>8. Built(got) = g[1..n]
    BY <2>6, <2>7, BuiltByRun
  <2>9. g[1..n + 1] = Reduces(longer)[n + 1][g[1..n]]
    <3>. HIDE DEF V
    <3>. QED
      BY <1>1, <2>4, RunGrows
  <2>10. n + 1 \in 1..Len(longer)
    BY <1>1, <2>1
  <2>11. Reduces(longer)[n + 1][g[1..n]] = Reduce(g[1..n], longer[n + 1])
    <3>1. g[1..n] \in Seq(Plain)
      BY <1>2, <2>8
    <3>. QED
      BY <2>1, <2>10, <3>1, ReducesTyped
  <2>12. Built(longer) = Reduce(Built(got), e)
    BY ONLY <2>1, <2>5, <2>8, <2>9, <2>11
  <2>. QED
    BY <2>12 DEF longer
<1>. QED
  BY <1>2, <1>3

LEMMA BuiltOfNothing == Built(<<>>) = <<>>
<1>1. <<>> \in Seq(Event) /\ Len(<<>>) = 0 /\ 1..0 = {}
  BY EmptySeq
<1>2. PICK g : IsRun(g, 0, Seq(Plain), <<>>, Reduces(<<>>))
  <2>1. \A i \in 1..0 : Reduces(<<>>)[i] \in [Seq(Plain) -> Seq(Plain)]
    BY <1>1
  <2>2. <<>> \in Seq(Plain)
    BY EmptySeq
  <2>. QED
    BY <2>1, <2>2, RunExists
<1>3. Built(<<>>) = g[1..0]
  BY <1>1, <1>2, BuiltByRun
<1>. QED
  BY <1>1, <1>2, <1>3 DEF IsRun

LEMMA KeptTyped ==
  ASSUME NEW t, t.got \in Seq(Event)
  PROVE  Kept(t) \in Seq(Plain)
<1>. DEFINE n == Len(t.got)
            V == Seq(Plain)
<1>1. n \in Nat /\ <<>> \in V /\ \A i \in 1..n : Keeps(t.got)[i] \in [V -> V]
  BY ReducesTyped
<1>. HIDE DEF V
<1>2. PICK g : IsRun(g, n, V, <<>>, Keeps(t.got))
  BY <1>1, RunExists
<1>3. g[1..n] \in V
  BY <1>1, <1>2 DEF IsRun
<1>. QED
  BY <1>2, <1>3, KeptByRun DEF V, Kept

-----------------------------------------------------------------------------
(* What the variables hold.                                                *)

Roles == {"user", "assistant"}
Id == {"none", "msg", "hist"} \X Nat \X {"none", "user", "assistant"}
Branches == Seq(Seq(Part))
Msg == [id : Id, role : Roles \cup {"system"}, branches : Branches, active : Nat,
        failed : BOOLEAN]
LogRow == [role : Roles, content : Seq(Part), others : Branches, active : Nat]
Reply == [on : BOOLEAN, id : Id, branch : Nat, regen : BOOLEAN, got : Seq(Event)]

(* A message shows one of its branches.                                    *)
Shows(m) == m.active \in DOMAIN m.branches

(* Distinct messages have distinct ids, each named for what it is.         *)
IdsDistinct(ms) == \A i, j \in DOMAIN ms : i # j => ms[i].id # ms[j].id

Sound(ms) == ms \in Seq(Msg) /\ (\A i \in DOMAIN ms : Shows(ms[i])) /\ IdsDistinct(ms)

-----------------------------------------------------------------------------
(* Hydration.                                                              *)

LEMMA MessagesAreIndexed ==
  ASSUME NEW S, NEW ms \in Seq(S)
  PROVE  /\ Len(ms) \in Nat /\ DOMAIN ms = 1..Len(ms)
         /\ \A i \in 1..Len(ms) : ms[i] \in S
BY LenProperties, ElementOfSeq

(* A sequence made index by index.                                         *)
LEMMA MadeByIndex ==
  ASSUME NEW S, NEW n \in Nat, NEW f, f = [i \in 1..n |-> f[i]], \A i \in 1..n : f[i] \in S
  PROVE  f \in Seq(S) /\ Len(f) = n /\ DOMAIN f = 1..n
<1>1. f \in [1..n -> S]
  OBVIOUS
<1>2. f \in Seq(S)
  BY <1>1, SeqDef
<1>3. Len(f) \in Nat /\ DOMAIN f = 1..Len(f) /\ DOMAIN f = 1..n
  BY <1>1, <1>2, LenProperties
<1>. QED
  BY <1>2, <1>3

LEMMA FromRowTyped ==
  ASSUME NEW row \in LogRow, NEW i \in Nat
  PROVE  /\ FromRow(row, i) \in Msg /\ Shows(FromRow(row, i))
         /\ FromRow(row, i).id = <<"hist", i, row.role>>
<1>. DEFINE all == IF row.role = "assistant" /\ row.others # <<>>
                     THEN Append(row.others, row.content) ELSE <<row.content>>
            a == IF row.active \in DOMAIN all THEN row.active ELSE Len(all)
<1>1. row.role \in Roles /\ row.content \in Seq(Part) /\ row.others \in Branches /\ row.active \in Nat
  BY DEF LogRow
<1>2. all \in Branches /\ Len(all) \in Nat \ {0} /\ DOMAIN all = 1..Len(all)
  <2>1. Append(row.others, row.content) \in Branches /\ Append(row.others, row.content) # <<>>
    BY <1>1, AppendProperties DEF Branches
  <2>2. <<row.content>> \in Branches /\ <<row.content>> # <<>>
    BY <1>1 DEF Branches
  <2>3. all \in Branches /\ all # <<>>
    BY <2>1, <2>2
  <2>. QED
    BY <2>3, EmptySeq, LenProperties DEF Branches
<1>. HIDE DEF all
<1>3. a \in Nat /\ a \in DOMAIN all
  BY <1>1, <1>2
<1>4. FromRow(row, i) = [id |-> <<"hist", i, row.role>>, role |-> row.role, branches |-> all,
                         active |-> a, failed |-> FALSE]
  BY DEF FromRow, all
<1>. HIDE DEF a
<1>5. <<"hist", i, row.role>> \in Id
  BY <1>1 DEF Id, Roles
<1>. QED
  BY <1>1, <1>2, <1>3, <1>4, <1>5 DEF Msg, Shows

LEMMA MarkersKeepSound ==
  ASSUME NEW ms, Sound(ms)
  PROVE  /\ Sound(ApplyCompactionMarkers(ms))
         /\ \A i \in DOMAIN ApplyCompactionMarkers(ms) :
              \E j \in DOMAIN ms : ApplyCompactionMarkers(ms)[i].id = ms[j].id
<1>. DEFINE n == Len(ms)
            folded == [i \in DOMAIN ms |-> IF IsNotice(ms[i])
                         THEN [ms[i] EXCEPT !.role = "system"] ELSE ms[i]]
            I == {i \in 1..Len(ms) : IsSummary(ms[i])}
            summary == IF I # {} THEN Min(I) ELSE 0
<1>1. /\ n \in Nat /\ DOMAIN ms = 1..n
      /\ \A i \in 1..n : ms[i] \in Msg /\ Shows(ms[i])
  BY MessagesAreIndexed DEF Sound
<1>2. ApplyCompactionMarkers(ms) = IF summary = 0 THEN folded ELSE RemoveAt(folded, summary)
  BY DEF ApplyCompactionMarkers, SelectInSeq
<1>3. /\ folded = [i \in 1..n |-> folded[i]]
      /\ \A i \in 1..n : folded[i] = IF IsNotice(ms[i])
                           THEN [ms[i] EXCEPT !.role = "system"] ELSE ms[i]
  BY <1>1
<1>. HIDE DEF folded
<1>4. ASSUME NEW i \in 1..n
      PROVE  folded[i] \in Msg /\ Shows(folded[i]) /\ folded[i].id = ms[i].id
  <2>1. CASE IsNotice(ms[i])
    <3>1. folded[i] = [ms[i] EXCEPT !.role = "system"] /\ ms[i] \in Msg /\ Shows(ms[i])
      BY <1>1, <1>3, <2>1
    <3>2. /\ folded[i] \in Msg /\ folded[i].id = ms[i].id
          /\ folded[i].active = ms[i].active /\ folded[i].branches = ms[i].branches
      BY <3>1 DEF Msg
    <3>. QED
      BY <3>1, <3>2 DEF Shows
  <2>2. CASE ~IsNotice(ms[i])
    BY <1>1, <1>3, <2>2
  <2>. QED
    BY <2>1, <2>2
<1>5. folded \in Seq(Msg) /\ Len(folded) = n /\ DOMAIN folded = 1..n
  BY <1>1, <1>3, <1>4, MadeByIndex
<1>6. \A i, j \in 1..n : i # j => ms[i].id # ms[j].id
  BY <1>1 DEF Sound, IdsDistinct
<1>7. Sound(folded)
  BY <1>4, <1>5, <1>6 DEF Sound, IdsDistinct
<1>8. CASE summary = 0
  BY <1>1, <1>2, <1>4, <1>5, <1>7, <1>8
<1>9. CASE summary # 0
  <2>1. I \in SUBSET (1..n) /\ I # {} /\ summary = Min(I)
    BY <1>9
  <2>2. summary \in 1..n
    BY <1>1, <2>1, Extremes
  <2>. DEFINE left == RemoveAt(folded, summary)
  <2>3. /\ left \in Seq(Msg) /\ Len(left) = n - 1
        /\ \A k \in 1..n - 1 : left[k] = IF k < summary THEN folded[k] ELSE folded[k + 1]
    BY <1>5, <2>2, Removing
  <2>4. DOMAIN left = 1..n - 1
    BY <2>3, LenProperties
  <2>5. ApplyCompactionMarkers(ms) = left
    BY <1>2, <1>9
  <2>. HIDE DEF left, summary, I
  <2>. DEFINE old(k) == IF k < summary THEN k ELSE k + 1
  <2>6. \A k \in 1..n - 1 : old(k) \in 1..n /\ left[k] = folded[old(k)]
    BY <1>1, <2>2, <2>3
  <2>7. \A k, l \in 1..n - 1 : k # l => old(k) # old(l)
    BY <1>1, <2>2
  <2>. HIDE DEF old
  <2>8. \A k \in 1..n - 1 : Shows(left[k]) /\ left[k].id = ms[old(k)].id
    BY <1>4, <2>6
  <2>9. IdsDistinct(left)
    BY <1>6, <2>4, <2>6, <2>7, <2>8 DEF IdsDistinct
  <2>. QED
    BY <1>1, <2>3, <2>4, <2>5, <2>6, <2>8, <2>9 DEF Sound
<1>. QED
  BY <1>8, <1>9

LEMMA FromLogSound ==
  ASSUME NEW rows \in Seq(LogRow)
  PROVE  /\ Sound(FromLog(rows))
         /\ \A i \in DOMAIN FromLog(rows) : FromLog(rows)[i].id[1] = "hist"
<1>. DEFINE n == Len(rows)
            ms == [i \in DOMAIN rows |-> FromRow(rows[i], i)]
<1>1. n \in Nat /\ DOMAIN rows = 1..n /\ \A i \in 1..n : rows[i] \in LogRow /\ i \in Nat
  BY MessagesAreIndexed
<1>2. FromLog(rows) = ApplyCompactionMarkers(ms)
  BY DEF FromLog
<1>3. ms = [i \in 1..n |-> ms[i]] /\ \A i \in 1..n : ms[i] = FromRow(rows[i], i)
  BY <1>1
<1>. HIDE DEF ms
<1>4. \A i \in 1..n : /\ ms[i] \in Msg /\ Shows(ms[i])
                      /\ ms[i].id = <<"hist", i, rows[i].role>>
  BY <1>1, <1>3, FromRowTyped
<1>5. ms \in Seq(Msg) /\ DOMAIN ms = 1..n
  BY <1>1, <1>3, <1>4, MadeByIndex
<1>6. \A i, j \in 1..n : i # j => ms[i].id # ms[j].id
  BY <1>4
<1>7. Sound(ms)
  BY <1>4, <1>5, <1>6 DEF Sound, IdsDistinct
<1>8. \A i \in DOMAIN ms : ms[i].id[1] = "hist"
  BY <1>4, <1>5
<1>. QED
  BY <1>2, <1>7, <1>8, MarkersKeepSound

-----------------------------------------------------------------------------
(* The log.                                                                *)

LEMMA DataTyped ==
  ASSUME NEW rows \in Seq(LogRow)
  PROVE  \E few \in Seq(LogRow) : Data(rows) = <<few>>
<1>. DEFINE m == IF Len(rows) < Limit THEN Len(rows) ELSE Limit
<1>1. m \in 0..Len(rows)
  BY LenProperties, ChatPageAssumption
<1>2. SubSeq(rows, 1, m) \in Seq(LogRow)
  <2>. HIDE DEF m
  <2>. QED
    BY <1>1, Beginning
<1>. QED
  BY <1>2 DEF Data

LEMMA WordsTyped ==
  ASSUME NEW n \in Nat, NEW look \in Look \ {"call", "result"}
  PROVE  <<TextPart(<<Word(n, look)>>)>> \in Seq(Part)
<1>1. Word(n, look) \in AWord(Look)
  BY DEF Word, AWord
<1>2. <<Word(n, look)>> \in Seq(AWord(Look))
  BY <1>1
<1>3. TextPart(<<Word(n, look)>>) \in Part
  BY <1>2 DEF TextPart, Part, PartOf
<1>. QED
  BY <1>3

LEMMA RowTyped ==
  ASSUME NEW role \in Roles, NEW parts \in Seq(Part)
  PROVE  Row(role, parts) \in LogRow
<1>1. <<>> \in Branches
  BY EmptySeq DEF Branches
<1>. QED
  BY <1>1 DEF Row, LogRow

LEMMA PersistTyped ==
  ASSUME log \in Seq(LogRow), NEW t \in Reply
  PROVE  Persist(t) \in Seq(LogRow)
<1>. DEFINE I == {k \in 1..Len(log) : log[k].role = "assistant"}
            i == IF I # {} THEN Max(I) ELSE 0
            row == [log[i] EXCEPT !.content = Kept(t), !.others = Append(@, log[i].content),
                                  !.active = Len(log[i].others) + 2]
<1>1. Kept(t) \in Seq(Part)
  BY KeptTyped, PlainIsPart DEF Reply
<1>2. Persist(t) = IF t.regen /\ i # 0 THEN [log EXCEPT ![i] = row]
                                       ELSE Append(log, Row("assistant", Kept(t)))
  BY DEF Persist, LastAssistant, SelectLastInSeq, ReplaceAt
<1>3. CASE t.regen /\ i # 0
  <2>1. Len(log) \in Nat /\ I \in SUBSET (1..Len(log)) /\ I # {} /\ i = Max(I)
    BY <1>3, LenProperties
  <2>2. i \in 1..Len(log)
    BY <2>1, Extremes
  <2>. HIDE DEF i
  <2>3. log[i] \in LogRow
    BY <2>2, ElementOfSeq
  <2>4. log[i].others \in Branches /\ log[i].content \in Seq(Part)
    BY <2>3 DEF LogRow
  <2>5. Append(log[i].others, log[i].content) \in Branches /\ Len(log[i].others) + 2 \in Nat
    BY <2>4, AppendProperties, LenProperties DEF Branches
  <2>6. row \in LogRow
    BY <1>1, <2>3, <2>5 DEF LogRow
  <2>. HIDE DEF row
  <2>. QED
    BY <1>2, <1>3, <2>2, <2>6, ExceptSeq
<1>4. CASE ~(t.regen /\ i # 0)
  <2>1. Row("assistant", Kept(t)) \in LogRow
    BY <1>1, RowTyped DEF Roles
  <2>. QED
    BY <1>2, <1>4, <2>1, AppendProperties
<1>. QED
  BY <1>3, <1>4

LEMMA CompactTyped ==
  ASSUME log \in Seq(LogRow), Len(log) > 2
  PROVE  <<Row("assistant", <<TextPart(<<Word(0, "summary")>>)>>)>>
            \o SubSeq(log, Len(log) - 1, Len(log))
            \o <<Row("user", <<TextPart(<<Word(0, "notice")>>)>>)>> \in Seq(LogRow)
<1>. DEFINE a == <<Row("assistant", <<TextPart(<<Word(0, "summary")>>)>>)>>
            b == SubSeq(log, Len(log) - 1, Len(log))
            c == <<Row("user", <<TextPart(<<Word(0, "notice")>>)>>)>>
<1>1. a \in Seq(LogRow) /\ c \in Seq(LogRow)
  <2>1. <<TextPart(<<Word(0, "summary")>>)>> \in Seq(Part)
    BY WordsTyped DEF Look, Leak
  <2>2. <<TextPart(<<Word(0, "notice")>>)>> \in Seq(Part)
    BY WordsTyped DEF Look, Leak
  <2>3. /\ Row("assistant", <<TextPart(<<Word(0, "summary")>>)>>) \in LogRow
        /\ Row("user", <<TextPart(<<Word(0, "notice")>>)>>) \in LogRow
    BY <2>1, <2>2, RowTyped DEF Roles
  <2>. QED
    BY <2>3
<1>2. b \in Seq(LogRow)
  <2>1. Len(log) \in Int /\ Len(log) - 1 \in Int
    BY LenProperties
  <2>2. \A k \in Len(log) - 1..Len(log) : k \in 1..Len(log)
    BY <2>1
  <2>3. \A k \in Len(log) - 1..Len(log) : log[k] \in LogRow
    BY <2>2, ElementOfSeq
  <2>. QED
    BY <2>1, <2>3, SubSeqProperties
<1>. HIDE DEF a, b, c
<1>3. a \o b \in Seq(LogRow)
  BY <1>1, <1>2, ConcatProperties
<1>4. (a \o b) \o c \in Seq(LogRow)
  BY <1>1, <1>3, ConcatProperties
<1>. QED
  BY <1>4 DEF a, b, c

(* The runtime's next event is one.                                        *)
LEMMA EventsTyped ==
  ASSUME NEW got \in Seq(Event)
  PROVE  Events(got) \subseteq Event
<1>1. Len(got) + 1 \in Nat
  BY LenProperties
<1>2. \A e \in Open(got) : e \in Event /\ e.type = "tool.call"
  BY LenProperties, ElementOfSeq DEF Open, ToSet
<1>3. \A e \in Open(got) : e.tool \in Tools /\ e.by \in Nat
  BY <1>2 DEF Event
<1>4. LooksNow \subseteq Leak
  BY ChatPageAssumption DEF LooksNow, Leak
<1>. DEFINE E(type, tool, by, look) ==
              [type |-> type, n |-> Len(got) + 1, tool |-> tool, by |-> by, look |-> look]
<1>5. \A look \in LooksNow : E("text.delta", "none", Null, look) \in Event
  BY <1>1, <1>4 DEF Event, Null
<1>6. \A t \in Tools : E("tool.call", t, Len(got) + 1, "none") \in Event
  BY <1>1 DEF Event
<1>7. \A e \in Open(got) : E("tool.result", e.tool, e.by, "none") \in Event
  BY <1>1, <1>3 DEF Event
<1>. QED
  BY <1>5, <1>6, <1>7 DEF Events

-----------------------------------------------------------------------------
(* The inductive invariant.                                                *)

Answered(c) == c = NoData \/ \E rows \in Seq(LogRow) : c = <<rows>>

ChatTypes ==
  /\ status \in {"ready", "streaming", "error"} /\ hydrated \in BOOLEAN /\ diverged \in BOOLEAN
  /\ Answered(cache) /\ stream \in Reply /\ orphan \in Reply /\ log \in Seq(LogRow)
  /\ sent \in 0..MaxPrompts /\ ops \in 0..MaxOps /\ mounts \in 1..ops + 1

(* Turns of this page are numbered by the prompt they belong to.           *)
Numbered(ms, n) == \A i \in DOMAIN ms : ms[i].id[1] = "msg" => ms[i].id[2] <= n

(* The reply that is read is built up where it is shown.                   *)
Lands(ms, s) == \E i \in DOMAIN ms : /\ ms[i].id = s.id /\ ms[i].active = s.branch
                                     /\ Active(ms[i]) = Built(s.got)

Turns == Sound(messages) /\ Numbered(messages, sent)

Reading == (stream.on <=> Streaming) /\ (stream.on => Lands(messages, stream))

ChatInv == ChatTypes /\ Turns /\ Reading

(* The turns of ms are all among those of new.                             *)
Still(ms, new) == \A i \in DOMAIN ms : \E k \in DOMAIN new : new[k].id = ms[i].id

(* The step drops no turn, or as the user asked.                           *)
DroppedByUser ==
  \E i \in DOMAIN messages :
    /\ messages[i].role = "user"
    /\ IsPrefix(SubSeq(messages, 1, i - 1), messages')
    /\ Len(messages') \in {i - 1, i + 1}

Drops == mounts' = mounts => Still(messages, messages') \/ DroppedByUser

LEMMA NothingChangesTurns ==
  ASSUME Turns, UNCHANGED messages, sent' \in Nat, sent \in Nat, sent <= sent'
  PROVE  Turns' /\ Drops
<1>1. Sound(messages') /\ messages' = messages
  BY DEF Turns
<1>2. \A i \in DOMAIN messages : messages[i] \in Msg
  BY LenProperties, ElementOfSeq DEF Turns, Sound
<1>3. Numbered(messages', sent')
  <2> SUFFICES ASSUME NEW i \in DOMAIN messages, messages[i].id[1] = "msg"
               PROVE  messages[i].id[2] <= sent'
    BY <1>1 DEF Numbered
  <2>1. messages[i].id[2] <= sent /\ messages[i].id[2] \in Nat
    BY <1>2 DEF Turns, Numbered, Msg, Id
  <2>. QED
    BY ONLY <2>1, sent' \in Nat, sent \in Nat, sent <= sent'
<1>. QED
  BY <1>1, <1>3 DEF Turns, Drops, Still

(* Messages may change, but for their ids.                                 *)
LEMMA ChangesKeepTurns ==
  ASSUME Turns, NEW new, new = [i \in DOMAIN messages |-> new[i]],
         \A i \in DOMAIN messages :
           new[i] \in Msg /\ Shows(new[i]) /\ new[i].id = messages[i].id,
         NEW n \in Nat, sent \in Nat, sent <= n
  PROVE  Sound(new) /\ Numbered(new, n) /\ Still(messages, new) /\ DOMAIN new = DOMAIN messages
<1>1. Len(messages) \in Nat /\ DOMAIN messages = 1..Len(messages)
  BY LenProperties DEF Turns, Sound
<1>2. new \in Seq(Msg) /\ DOMAIN new = DOMAIN messages
  BY <1>1, MadeByIndex
<1>3. Sound(new)
  BY <1>2 DEF Sound, Turns, IdsDistinct
<1>4. Numbered(new, n)
  <2> SUFFICES ASSUME NEW i \in DOMAIN messages, new[i].id[1] = "msg"
               PROVE  new[i].id[2] <= n
    BY <1>2 DEF Numbered
  <2>1. new[i].id[2] <= sent /\ new[i].id[2] \in Nat
    BY DEF Turns, Numbered, Msg, Id
  <2>. QED
    BY ONLY <2>1, n \in Nat, sent \in Nat, sent <= n
<1>5. Still(messages, new)
  BY <1>2 DEF Still
<1>. QED
  BY <1>2, <1>3, <1>4, <1>5

(* The user's turn, and the empty reply.                                   *)
LEMMA MessageTyped ==
  ASSUME NEW n \in Nat, NEW role \in Roles, NEW parts \in Seq(Part)
  PROVE  /\ Message(n, role, parts) \in Msg /\ Shows(Message(n, role, parts))
         /\ Message(n, role, parts).id = <<"msg", n, role>>
         /\ Message(n, role, parts).active = 1 /\ Active(Message(n, role, parts)) = parts
<1>1. <<parts>> \in Branches /\ DOMAIN <<parts>> = {1} /\ <<parts>>[1] = parts
  <2>1. <<parts>> \in Seq(Seq(Part)) /\ Len(<<parts>>) = 1
    OBVIOUS
  <2>. QED
    BY <2>1 DEF Branches
<1>2. <<"msg", n, role>> \in Id
  BY DEF Id, Roles
<1>. QED
  BY <1>1, <1>2 DEF Message, Msg, Shows, Active

LEMMA BeginningIsSound ==
  ASSUME Turns, NEW m \in 0..Len(messages)
  PROVE  /\ Sound(SubSeq(messages, 1, m)) /\ Numbered(SubSeq(messages, 1, m), sent)
         /\ Len(SubSeq(messages, 1, m)) = m
<1>. DEFINE s == SubSeq(messages, 1, m)
<1>1. messages \in Seq(Msg) /\ Len(messages) \in Nat /\ DOMAIN messages = 1..Len(messages)
  BY LenProperties DEF Turns, Sound
<1>2. s \in Seq(Msg) /\ Len(s) = m /\ \A k \in 1..m : s[k] = messages[k]
  BY <1>1, Beginning
<1>3. DOMAIN s = 1..m /\ \A k \in 1..m : k \in DOMAIN messages
  BY <1>1, <1>2, LenProperties
<1>. HIDE DEF s
<1>4. Sound(s) /\ Numbered(s, sent)
  BY <1>2, <1>3 DEF Turns, Sound, IdsDistinct, Numbered
<1>. QED
  BY <1>2, <1>4 DEF s

(* What is said in the n-th prompt.                                        *)
Prompt(n) == <<TextPart(<<Word(n, "plain")>>)>>

LEMMA SendingNew ==
  ASSUME ChatTypes, NEW before, Sound(before), Numbered(before, sent), SendNew(before)
  PROVE  /\ Turns' /\ Reading' /\ log' \in Seq(LogRow) /\ sent' \in 0..MaxPrompts
         /\ stream' \in Reply /\ status' = "streaming"
         /\ Len(messages') = Len(before) + 2 /\ IsPrefix(before, messages')
         /\ DOMAIN messages' = 1..Len(before) + 2
         /\ \A i \in DOMAIN before : i \in DOMAIN messages' /\ messages'[i] = before[i]
         /\ messages'[Len(before) + 1] = Message(sent + 1, "user", Prompt(sent + 1))
         /\ messages'[Len(before) + 2] = Message(sent + 1, "assistant", <<>>)
         /\ stream' = [on |-> TRUE, id |-> <<"msg", sent + 1, "assistant">>, branch |-> 1,
                       regen |-> FALSE, got |-> <<>>]
         /\ log' = Append(log, Row("user", Prompt(sent + 1)))
<1>. DEFINE n == Len(before)
            prompt == Prompt(sent + 1)
            u == Message(sent + 1, "user", prompt)
            a == Message(sent + 1, "assistant", <<>>)
<1>1. sent \in Nat /\ sent + 1 \in Nat /\ sent' = sent + 1 /\ sent' \in 0..MaxPrompts
  BY ChatPageAssumption DEF ChatTypes, SendNew
<1>2. prompt \in Seq(Part)
  BY <1>1, WordsTyped DEF Look, Leak, Prompt
<1>3. /\ u \in Msg /\ Shows(u) /\ u.id = <<"msg", sent + 1, "user">>
      /\ a \in Msg /\ Shows(a) /\ a.id = <<"msg", sent + 1, "assistant">>
      /\ a.active = 1 /\ Active(a) = <<>>
  <2>. HIDE DEF prompt
  <2>1. <<>> \in Seq(Part)
    BY EmptySeq
  <2>. QED
    BY <1>1, <1>2, <2>1, MessageTyped DEF Roles
<1>4. messages' = before \o <<u, a>> /\ log' = Append(log, Row("user", prompt))
  BY DEF SendNew, Prompt
<1>5. log' \in Seq(LogRow)
  <2>1. Row("user", prompt) \in LogRow
    BY <1>2, RowTyped DEF Roles
  <2>. QED
    BY <1>4, <2>1, AppendProperties DEF ChatTypes
<1>. HIDE DEF u, a, prompt
<1>7. before \in Seq(Msg) /\ n \in Nat /\ DOMAIN before = 1..n
  BY LenProperties DEF Sound
<1>8. /\ messages' \in Seq(Msg) /\ Len(messages') = n + 2 /\ DOMAIN messages' = 1..n + 2
      /\ \A i \in 1..n : messages'[i] = before[i]
      /\ messages'[n + 1] = u /\ messages'[n + 2] = a
  BY <1>3, <1>4, <1>7, TwoMore
<1>9. \A i \in 1..n : /\ before[i] \in Msg /\ Shows(before[i])
                      /\ before[i].id # u.id /\ before[i].id # a.id
  <2> TAKE i \in 1..n
  <2>1. before[i] \in Msg /\ Shows(before[i])
    BY <1>7, ElementOfSeq DEF Sound
  <2>2. before[i].id[1] = "msg" => before[i].id[2] <= sent
    BY <1>7 DEF Numbered
  <2>3. before[i].id[2] \in Nat
    BY <2>1 DEF Msg, Id
  <2>. QED
    BY <1>1, <1>3, <2>1, <2>2, <2>3
<1>10. \A i \in 1..n + 2 : i \in 1..n \/ i = n + 1 \/ i = n + 2
  BY <1>7
<1>11. Sound(messages')
  <2>1. \A i \in DOMAIN messages' : Shows(messages'[i])
    BY <1>3, <1>8, <1>9, <1>10
  <2>2. \A i, j \in 1..n : i # j => before[i].id # before[j].id
    BY <1>7 DEF Sound, IdsDistinct
  <2>3. u.id # a.id
    BY <1>3
  <2>4. IdsDistinct(messages')
    BY <1>8, <1>9, <1>10, <2>2, <2>3 DEF IdsDistinct
  <2>. QED
    BY <1>8, <2>1, <2>4 DEF Sound
<1>12. Numbered(messages', sent')
  <2>1. \A i \in 1..n : before[i].id[1] = "msg" => before[i].id[2] <= sent + 1
    <3> TAKE i \in 1..n
    <3>1. before[i].id[1] = "msg" => before[i].id[2] <= sent
      BY <1>7 DEF Numbered
    <3>2. before[i].id[2] \in Nat
      BY <1>9 DEF Msg, Id
    <3>. QED
      BY <1>1, <3>1, <3>2
  <2>2. u.id[2] <= sent + 1 /\ a.id[2] <= sent + 1
    BY <1>1, <1>3
  <2>. QED
    BY <1>1, <1>8, <1>10, <2>1, <2>2 DEF Numbered
<1>13. /\ status' = "streaming"
       /\ stream' = [on |-> TRUE, id |-> <<"msg", sent + 1, "assistant">>, branch |-> 1,
                     regen |-> FALSE, got |-> <<>>]
  BY DEF SendNew, Begin
<1>14. stream' \in Reply
  <2>1. <<>> \in Seq(Event) /\ <<"msg", sent + 1, "assistant">> \in Id
    BY <1>1, EmptySeq DEF Id
  <2>. QED
    BY <1>13, <2>1 DEF Reply
<1>15. Lands(messages', stream')
  <2>1. n + 2 \in DOMAIN messages'
    BY <1>7, <1>8
  <2>. QED
    BY <1>3, <1>8, <1>13, <2>1, BuiltOfNothing DEF Lands
<1>16. IsPrefix(before, messages')
  <2>1. Len(before) <= Len(messages') /\ n \in 0..n /\ n \in 0..Len(messages')
    BY <1>7, <1>8
  <2>2. /\ SubSeq(before, 1, n) \in Seq(Msg) /\ Len(SubSeq(before, 1, n)) = n
        /\ \A k \in 1..n : SubSeq(before, 1, n)[k] = before[k]
    BY <1>7, <2>1, Beginning
  <2>3. /\ SubSeq(messages', 1, n) \in Seq(Msg) /\ Len(SubSeq(messages', 1, n)) = n
        /\ \A k \in 1..n : SubSeq(messages', 1, n)[k] = messages'[k]
    BY <1>8, <2>1, Beginning
  <2>4. SubSeq(before, 1, n) = SubSeq(messages', 1, n)
    BY <1>8, <2>2, <2>3, SeqEqual
  <2>. QED
    BY <2>1, <2>4 DEF IsPrefix
<1>17. \A i \in DOMAIN before : i \in DOMAIN messages' /\ messages'[i] = before[i]
  BY <1>7, <1>8
<1>18. Turns' /\ Reading'
  BY <1>11, <1>12, <1>13, <1>15 DEF Turns, Reading, Streaming
<1>. QED
  BY <1>1, <1>4, <1>5, <1>8, <1>13, <1>14, <1>16, <1>17, <1>18 DEF prompt, u, a

LEMMA SendingAgain ==
  ASSUME ChatTypes, Turns, NEW i \in DOMAIN messages,
         NEW before, before = [k \in DOMAIN messages |-> before[k]],
         \A k \in DOMAIN messages :
           before[k] \in Msg /\ Shows(before[k]) /\ before[k].id = messages[k].id,
         SendAgain(i, before)
  PROVE  /\ Turns' /\ Reading' /\ Still(messages, messages')
         /\ sent' \in 0..MaxPrompts /\ stream' \in Reply /\ status' = "streaming" /\ log' = log
         /\ stream'.on /\ stream'.id = messages[i].id /\ stream'.regen /\ stream'.got = <<>>
         /\ DOMAIN messages' = DOMAIN messages
         /\ \A k \in DOMAIN messages \ {i} : messages'[k] = before[k]
         /\ messages'[i].role = before[i].role
         /\ messages'[i].branches = Append(before[i].branches, <<>>)
         /\ messages'[i].active = Len(before[i].branches) + 1
<1>1. sent \in Nat /\ sent + 1 \in Nat /\ sent' = sent + 1 /\ sent' \in 0..MaxPrompts
  BY ChatPageAssumption DEF ChatTypes, SendAgain
<1>. DEFINE b == before[i].branches
            now == [before[i] EXCEPT !.branches = Append(b, <<>>), !.active = Len(b) + 1,
                                     !.failed = FALSE]
<1>2. /\ messages' = [k \in DOMAIN messages |-> messages'[k]]
      /\ \A k \in DOMAIN messages : messages'[k] = IF k = i THEN now ELSE before[k]
  <2>1. messages' = [before EXCEPT ![i].branches = Append(@, <<>>),
                                   ![i].active = Len(before[i].branches) + 1,
                                   ![i].failed = FALSE]
    BY DEF SendAgain
  <2>2. DOMAIN before = DOMAIN messages
    OBVIOUS
  <2>3. before[i] \in Msg
    OBVIOUS
  <2>4. messages' = [before EXCEPT ![i] = now]
    BY <2>1, <2>2, <2>3 DEF Msg
  <2>. HIDE DEF now
  <2>. QED
    BY <2>2, <2>4
<1>3. before[i] \in Msg /\ before[i].id = messages[i].id
  OBVIOUS
<1>4. /\ b \in Branches /\ Append(b, <<>>) \in Branches /\ Len(b) + 1 \in Nat
      /\ Len(b) + 1 \in DOMAIN Append(b, <<>>) /\ Append(b, <<>>)[Len(b) + 1] = <<>>
  <2>1. b \in Seq(Seq(Part)) /\ Len(b) \in Nat
    BY <1>3, LenProperties DEF Msg, Branches
  <2>2. <<>> \in Seq(Part)
    BY EmptySeq
  <2>3. /\ Append(b, <<>>) \in Seq(Seq(Part)) /\ Len(Append(b, <<>>)) = Len(b) + 1
        /\ Append(b, <<>>)[Len(b) + 1] = <<>>
    BY <2>1, <2>2, AppendProperties
  <2>4. DOMAIN Append(b, <<>>) = 1..Len(b) + 1
    BY <2>3, LenProperties
  <2>. QED
    BY <2>1, <2>3, <2>4 DEF Branches
<1>. HIDE DEF b
<1>5. /\ now \in Msg /\ now.id = messages[i].id
      /\ now.branches = Append(b, <<>>) /\ now.active = Len(b) + 1
      /\ now.role = before[i].role
  BY <1>3, <1>4 DEF Msg
<1>6. Shows(now) /\ Active(now) = <<>>
  BY <1>4, <1>5 DEF Shows, Active
<1>. HIDE DEF now
<1>7. \A k \in DOMAIN messages :
        messages'[k] \in Msg /\ Shows(messages'[k]) /\ messages'[k].id = messages[k].id
  BY <1>2, <1>5, <1>6
<1>8. /\ Sound(messages') /\ Numbered(messages', sent') /\ Still(messages, messages')
      /\ DOMAIN messages' = DOMAIN messages
  <2>1. sent' \in Nat /\ sent <= sent'
    BY <1>1
  <2>. QED
    BY <1>1, <1>2, <1>7, <2>1, ChangesKeepTurns
<1>9. /\ status' = "streaming" /\ log' = log
      /\ stream' = [on |-> TRUE, id |-> messages[i].id, branch |-> Len(b) + 1,
                    regen |-> TRUE, got |-> <<>>]
  BY DEF SendAgain, Begin, b
<1>10. stream' \in Reply
  <2>1. <<>> \in Seq(Event) /\ messages[i].id \in Id
    BY <1>3, EmptySeq DEF Msg
  <2>. QED
    BY <1>4, <1>9, <2>1 DEF Reply
<1>11. Lands(messages', stream')
  BY <1>2, <1>5, <1>6, <1>8, <1>9, BuiltOfNothing DEF Lands
<1>. QED
  BY <1>1, <1>2, <1>5, <1>8, <1>9, <1>10, <1>11 DEF Turns, Reading, Streaming, b

LEMMA Receiving ==
  ASSUME ChatInv, NEW e \in Events(stream.got), Receive(e)
  PROVE  /\ ChatInv' /\ Drops
         /\ stream'.on /\ stream'.id = stream.id /\ stream'.regen = stream.regen
         /\ stream'.got = Append(stream.got, e)
         /\ DOMAIN messages' = DOMAIN messages
         /\ \A k \in DOMAIN messages :
              /\ messages[k].id # stream.id => messages'[k] = messages[k]
              /\ messages[k].id = stream.id =>
                   /\ messages'[k].role = messages[k].role
                   /\ messages'[k].active = messages[k].active
                   /\ messages'[k].branches = [messages[k].branches EXCEPT
                        ![messages[k].active] = Reduce(Active(messages[k]), e)]
<1>1. /\ stream.on /\ stream \in Reply /\ stream.got \in Seq(Event) /\ e \in Event
      /\ Lands(messages, stream)
  BY EventsTyped DEF ChatInv, ChatTypes, Reply, Receive, Reading
<1>2. stream' = [stream EXCEPT !.got = Append(@, e)]
  BY DEF Receive
<1>3. Append(stream.got, e) \in Seq(Event) /\ Built(Append(stream.got, e)) = Reduce(Built(stream.got), e)
  BY <1>1, AppendProperties, Building
<1>4. /\ stream' \in Reply /\ stream'.on /\ stream'.got = Append(stream.got, e)
      /\ stream'.id = stream.id /\ stream'.branch = stream.branch /\ stream'.regen = stream.regen
  BY <1>1, <1>2, <1>3 DEF Reply
<1>5. Turns /\ sent \in Nat /\ sent' = sent
  BY ChatPageAssumption DEF ChatInv, ChatTypes, Receive
<1>6. Len(messages) \in Nat /\ DOMAIN messages = 1..Len(messages)
      /\ \A k \in DOMAIN messages : messages[k] \in Msg /\ Shows(messages[k])
  BY <1>5, MessagesAreIndexed DEF Turns, Sound
<1>. DEFINE more(m) == [m EXCEPT !.branches[m.active] = Reduce(@, e)]
<1>7. /\ messages' = [k \in DOMAIN messages |-> messages'[k]]
      /\ \A k \in DOMAIN messages :
           messages'[k] = IF messages[k].id = stream.id THEN more(messages[k]) ELSE messages[k]
  BY DEF Receive
<1>8. ASSUME NEW m \in Msg, Shows(m)
      PROVE  /\ more(m) \in Msg /\ Shows(more(m)) /\ more(m).id = m.id
             /\ more(m).active = m.active /\ Active(more(m)) = Reduce(Active(m), e)
             /\ more(m).role = m.role
             /\ more(m).branches = [m.branches EXCEPT ![m.active] = Reduce(Active(m), e)]
  <2>. DEFINE b == [m.branches EXCEPT ![m.active] = Reduce(m.branches[m.active], e)]
  <2>1. more(m) = [m EXCEPT !.branches = b]
    BY DEF Msg
  <2>2. /\ m.branches \in Seq(Seq(Part)) /\ m.active \in 1..Len(m.branches)
        /\ m.branches[m.active] \in Seq(Part)
    BY <1>8, LenProperties, ElementOfSeq DEF Msg, Shows, Branches
  <2>3. Reduce(m.branches[m.active], e) \in Seq(Part)
    <3>1. Leak \subseteq Look
      BY DEF Look
    <3>. QED
      BY <1>1, <2>2, <3>1, ReduceTyped DEF Part
  <2>4. /\ b \in Seq(Seq(Part)) /\ Len(b) = Len(m.branches)
        /\ b[m.active] = Reduce(m.branches[m.active], e)
    BY <2>2, <2>3, ExceptSeq
  <2>5. DOMAIN b = 1..Len(m.branches)
    BY <2>4, LenProperties
  <2>. HIDE DEF b
  <2>6. /\ more(m) \in Msg /\ more(m).id = m.id /\ more(m).active = m.active
        /\ more(m).branches = b /\ more(m).role = m.role
    BY <2>1, <2>4 DEF Msg, Branches
  <2>. QED
    BY <2>2, <2>4, <2>5, <2>6 DEF Shows, Active, b
<1>. HIDE DEF more
<1>9. \A k \in DOMAIN messages :
        messages'[k] \in Msg /\ Shows(messages'[k]) /\ messages'[k].id = messages[k].id
  BY <1>6, <1>7, <1>8
<1>10. /\ Sound(messages') /\ Numbered(messages', sent') /\ Still(messages, messages')
       /\ DOMAIN messages' = DOMAIN messages
  BY <1>5, <1>7, <1>9, ChangesKeepTurns
<1>11. Lands(messages', stream')
  <2>1. PICK k \in DOMAIN messages :
          /\ messages[k].id = stream.id /\ messages[k].active = stream.branch
          /\ Active(messages[k]) = Built(stream.got)
    BY <1>1 DEF Lands
  <2>2. messages'[k] = more(messages[k])
    BY <1>7, <2>1
  <2>3. /\ messages'[k].id = stream'.id /\ messages'[k].active = stream'.branch
        /\ Active(messages'[k]) = Built(stream'.got)
    <3>1. messages[k] \in Msg /\ Shows(messages[k])
      BY <1>6
    <3>2. /\ more(messages[k]).id = messages[k].id
          /\ more(messages[k]).active = messages[k].active
          /\ Active(more(messages[k])) = Reduce(Active(messages[k]), e)
      BY <1>8, <3>1
    <3>. QED
      BY <1>3, <1>4, <2>1, <2>2, <3>2
  <2>. QED
    BY <1>10, <2>3 DEF Lands
<1>12. ChatTypes'
  BY <1>4 DEF ChatInv, ChatTypes, Receive
<1>13. Reading'
  BY <1>1, <1>4, <1>11 DEF ChatInv, Reading, Streaming, Receive
<1>. QED
  BY <1>4, <1>6, <1>7, <1>8, <1>10, <1>12, <1>13 DEF ChatInv, Turns, Drops

(* A broken reply is marked.                                               *)
LEMMA Failing ==
  ASSUME ChatInv,
         messages' = [i \in DOMAIN messages |->
                        IF messages[i].id = stream.id THEN [messages[i] EXCEPT !.failed = TRUE]
                                                      ELSE messages[i]],
         sent' = sent
  PROVE  Turns' /\ Drops
<1>1. \A i \in DOMAIN messages : messages[i] \in Msg /\ Shows(messages[i])
  BY MessagesAreIndexed DEF ChatInv, Turns, Sound
<1>2. \A m \in Msg : [m EXCEPT !.failed = TRUE] \in Msg
                     /\ [m EXCEPT !.failed = TRUE].id = m.id
                     /\ (Shows(m) => Shows([m EXCEPT !.failed = TRUE]))
  BY DEF Msg, Shows
<1>3. \A i \in DOMAIN messages :
        messages'[i] \in Msg /\ Shows(messages'[i]) /\ messages'[i].id = messages[i].id
  BY <1>1, <1>2
<1>4. messages' = [i \in DOMAIN messages |-> messages'[i]]
  OBVIOUS
<1>5. sent \in Nat /\ sent <= sent /\ Turns
  BY ChatPageAssumption DEF ChatInv, ChatTypes
<1>6. Sound(messages') /\ Numbered(messages', sent) /\ Still(messages, messages')
  BY ONLY <1>3, <1>4, <1>5, ChangesKeepTurns
<1>. QED
  BY <1>6 DEF Turns, Drops

-----------------------------------------------------------------------------
(* The actions.                                                            *)

LEMMA NoStreamTyped == NoStream \in Reply
<1>1. <<>> \in Seq(Event) /\ <<"none", 0, "none">> \in Id
  BY EmptySeq DEF Id
<1>. QED
  BY <1>1 DEF NoStream, Reply

LEMMA NoMessages == Sound(<<>>) /\ \A n : Numbered(<<>>, n)
<1>1. <<>> \in Seq(Msg) /\ DOMAIN <<>> = {}
  BY EmptySeq
<1>. QED
  BY <1>1 DEF Sound, IdsDistinct, Numbered

LEMMA HydrateStep ==
  ASSUME ChatInv, Hydrate
  PROVE  ChatInv' /\ Drops
<1>1. sent \in Nat /\ sent' = sent
  BY ChatPageAssumption DEF ChatInv, ChatTypes, Hydrate
<1>2. ChatTypes'
  BY DEF ChatInv, ChatTypes, Hydrate
<1>3. CASE UNCHANGED messages
  <2>1. Turns' /\ Drops
    BY <1>1, <1>3, NothingChangesTurns DEF ChatInv
  <2>2. Reading'
    BY <1>3 DEF ChatInv, Reading, Streaming, Hydrate
  <2>. QED
    BY <1>2, <2>1, <2>2 DEF ChatInv
<1>4. CASE messages' # messages
  <2>1. messages = <<>> /\ ~Streaming /\ cache # NoData /\ messages' = FromLog(cache[1])
    BY <1>4 DEF Hydrate
  <2>2. cache[1] \in Seq(LogRow)
    BY <2>1 DEF ChatInv, ChatTypes, Answered
  <2>3. Sound(messages') /\ \A i \in DOMAIN messages' : messages'[i].id[1] = "hist"
    BY <2>1, <2>2, FromLogSound
  <2>4. Turns'
    BY <2>3 DEF Turns, Numbered
  <2>5. DOMAIN messages = {}
    BY <2>1
  <2>6. Drops
    BY <2>5 DEF Drops, Still
  <2>7. Reading'
    BY <2>1 DEF ChatInv, Reading, Streaming, Hydrate
  <2>. QED
    BY <1>2, <2>4, <2>6, <2>7 DEF ChatInv
<1>. QED
  BY <1>3, <1>4

LEMMA SubmitStep ==
  ASSUME ChatInv, Submit
  PROVE  ChatInv' /\ Drops
<1>1. Sound(messages) /\ Numbered(messages, sent) /\ SendNew(messages) /\ ChatTypes
  BY DEF ChatInv, Turns, Submit
<1>2. /\ Turns' /\ Reading' /\ log' \in Seq(LogRow) /\ sent' \in 0..MaxPrompts
      /\ stream' \in Reply /\ status' = "streaming"
      /\ \A i \in DOMAIN messages : i \in DOMAIN messages' /\ messages'[i] = messages[i]
  BY <1>1, SendingNew
<1>3. ChatTypes'
  BY <1>1, <1>2 DEF ChatTypes, Submit
<1>. QED
  BY <1>2, <1>3 DEF ChatInv, Drops, Still

LEMMA RegenerateStep ==
  ASSUME ChatInv, NEW i \in DOMAIN messages, Regenerate(i)
  PROVE  ChatInv' /\ Drops
<1>1. ChatTypes /\ Turns /\ SendAgain(i, messages)
  BY DEF ChatInv, Regenerate
<1>2. /\ messages = [k \in DOMAIN messages |-> messages[k]]
      /\ \A k \in DOMAIN messages : messages[k] \in Msg /\ Shows(messages[k])
  BY <1>1, LenProperties, ElementOfSeq DEF Turns, Sound
<1>3. /\ Turns' /\ Reading' /\ Still(messages, messages')
      /\ sent' \in 0..MaxPrompts /\ stream' \in Reply /\ status' = "streaming" /\ log' = log
  BY <1>1, <1>2, SendingAgain
<1>4. ops + 1 \in 0..MaxOps /\ mounts \in 1..(ops + 1) + 1
  BY <1>1, ChatPageAssumption DEF ChatTypes, Regenerate, Happens
<1>5. diverged' \in BOOLEAN
  BY DEF Regenerate
<1>6. ChatTypes'
  BY <1>1, <1>3, <1>4, <1>5 DEF ChatTypes, Regenerate, Happens
<1>. QED
  BY <1>3, <1>6 DEF ChatInv, Drops

LEMMA RetryStep ==
  ASSUME ChatInv, NEW i \in DOMAIN messages, Retry(i)
  PROVE  ChatInv' /\ Drops
<1>. DEFINE before == SubSeq(messages, 1, i - 1)
<1>1. ChatTypes /\ Turns /\ SendNew(before) /\ messages[i].role = "user"
  BY DEF ChatInv, Retry
<1>2. i - 1 \in 0..Len(messages) /\ i \in Int
  BY <1>1, LenProperties DEF Turns, Sound
<1>3. Sound(before) /\ Numbered(before, sent) /\ Len(before) = i - 1
  BY <1>1, <1>2, BeginningIsSound
<1>. HIDE DEF before
<1>4. /\ Turns' /\ Reading' /\ log' \in Seq(LogRow) /\ sent' \in 0..MaxPrompts
      /\ stream' \in Reply /\ status' = "streaming"
      /\ Len(messages') = Len(before) + 2 /\ IsPrefix(before, messages')
  BY <1>1, <1>3, SendingNew
<1>5. ops + 1 \in 0..MaxOps /\ mounts \in 1..(ops + 1) + 1
  BY <1>1, ChatPageAssumption DEF ChatTypes, Retry, Happens
<1>6. ChatTypes'
  BY <1>1, <1>4, <1>5 DEF ChatTypes, Retry, Happens
<1>7. Len(messages') = i + 1
  BY <1>2, <1>3, <1>4
<1>8. Drops
  BY <1>1, <1>4, <1>7 DEF Drops, DroppedByUser, before
<1>. QED
  BY <1>4, <1>6, <1>8 DEF ChatInv

LEMMA EditStep ==
  ASSUME ChatInv, NEW i \in DOMAIN messages, Edit(i)
  PROVE  ChatInv' /\ Drops
<1>. DEFINE before == SubSeq(messages, 1, i - 1)
<1>1. /\ ChatTypes /\ Turns /\ messages' = before /\ messages[i].role = "user" /\ ~Streaming
      /\ sent' = sent
  BY DEF ChatInv, Edit
<1>2. i - 1 \in 0..Len(messages) /\ i \in Int
  BY <1>1, LenProperties DEF Turns, Sound
<1>3. Sound(before) /\ Numbered(before, sent) /\ Len(before) = i - 1
  BY <1>1, <1>2, BeginningIsSound
<1>. HIDE DEF before
<1>4. ops + 1 \in 0..MaxOps /\ mounts \in 1..(ops + 1) + 1
  BY <1>1, ChatPageAssumption DEF ChatTypes, Edit, Happens
<1>5. ChatTypes'
  BY <1>1, <1>4 DEF ChatTypes, Edit, Happens
<1>6. IsPrefix(before, before)
  BY <1>2, <1>3 DEF IsPrefix
<1>7. Drops
  BY <1>1, <1>3, <1>6 DEF Drops, DroppedByUser, before
<1>8. Reading' /\ Turns'
  BY <1>1, <1>3 DEF ChatInv, Reading, Streaming, Turns, Edit
<1>. QED
  BY <1>5, <1>7, <1>8 DEF ChatInv

(* The branch that is emptied was empty.                                   *)
LEMMA RetryAfterErrorStep ==
  ASSUME ChatInv, NEW i \in DOMAIN messages, RetryAfterError(i)
  PROVE  ChatInv' /\ Drops
<1>. DEFINE m == messages[i]
            b == [m.branches EXCEPT ![m.active] = <<>>]
            cleared == [messages EXCEPT ![i].branches[messages[i].active] = <<>>,
                                        ![i].failed = FALSE]
<1>1. ChatTypes /\ Turns /\ Reading /\ Active(m) = <<>>
  BY DEF ChatInv, RetryAfterError, RetryOffered
<1>2. \A k \in DOMAIN messages : messages[k] \in Msg /\ Shows(messages[k])
  BY <1>1, LenProperties, ElementOfSeq DEF Turns, Sound
<1>3. m.branches \in Seq(Seq(Part)) /\ m.active \in DOMAIN m.branches /\ m.branches[m.active] = <<>>
  BY <1>1, <1>2 DEF Msg, Branches, Shows, Active
<1>4. b = m.branches
  BY <1>3, LenProperties
<1>5. /\ cleared = [k \in DOMAIN messages |-> cleared[k]]
      /\ \A k \in DOMAIN messages :
           cleared[k] = IF k = i THEN [m EXCEPT !.branches = b, !.failed = FALSE] ELSE messages[k]
  <2>1. messages[i] \in Msg
    BY <1>2
  <2>2. cleared = [messages EXCEPT ![i] = [m EXCEPT !.branches = b, !.failed = FALSE]]
    BY <2>1 DEF Msg
  <2>3. messages = [k \in DOMAIN messages |-> messages[k]]
    BY <1>1, LenProperties DEF Turns, Sound
  <2>. HIDE DEF cleared, b, m
  <2>. QED
    BY <2>2, <2>3
<1>. HIDE DEF cleared, b
<1>6. /\ [m EXCEPT !.branches = b, !.failed = FALSE] \in Msg
      /\ [m EXCEPT !.branches = b, !.failed = FALSE].id = m.id
      /\ [m EXCEPT !.branches = b, !.failed = FALSE].active = m.active
      /\ [m EXCEPT !.branches = b, !.failed = FALSE].branches = m.branches
  BY <1>2, <1>4 DEF Msg
<1>7. \A k \in DOMAIN messages :
        /\ cleared[k] \in Msg /\ Shows(cleared[k]) /\ cleared[k].id = messages[k].id
        /\ cleared[k].active = messages[k].active /\ Active(cleared[k]) = Active(messages[k])
  BY <1>2, <1>5, <1>6 DEF Shows, Active
<1>8. ops + 1 \in 0..MaxOps /\ mounts \in 1..(ops + 1) + 1
  BY <1>1, ChatPageAssumption DEF ChatTypes, RetryAfterError, Happens
<1>9. CASE Streaming
  <2>1. messages' = cleared /\ UNCHANGED <<status, stream, sent, log>>
    BY <1>9 DEF RetryAfterError, cleared
  <2>2. sent \in Nat
    BY <1>1, ChatPageAssumption DEF ChatTypes
  <2>3. /\ Sound(messages') /\ Numbered(messages', sent) /\ Still(messages, messages')
        /\ DOMAIN messages' = DOMAIN messages
    BY <1>1, <1>5, <1>7, <2>1, <2>2, ChangesKeepTurns
  <2>4. Lands(messages', stream)
    BY <1>1, <1>7, <1>9, <2>1, <2>3 DEF Lands, Reading
  <2>5. Reading' /\ Turns'
    BY <1>1, <2>1, <2>3, <2>4 DEF Reading, Streaming, Turns
  <2>6. ChatTypes'
    BY <1>1, <1>8, <2>1 DEF ChatTypes, RetryAfterError, Happens
  <2>. QED
    BY <2>3, <2>5, <2>6 DEF ChatInv, Drops
<1>10. CASE ~Streaming
  <2>1. SendAgain(i, cleared)
    BY <1>10 DEF RetryAfterError, cleared
  <2>2. /\ Turns' /\ Reading' /\ Still(messages, messages')
        /\ sent' \in 0..MaxPrompts /\ stream' \in Reply /\ status' = "streaming" /\ log' = log
    BY <1>1, <1>5, <1>7, <2>1, SendingAgain
  <2>3. ChatTypes'
    BY <1>1, <1>8, <2>2 DEF ChatTypes, RetryAfterError, Happens
  <2>. QED
    BY <2>2, <2>3 DEF ChatInv, Drops
<1>. QED
  BY <1>9, <1>10

LEMMA SwitchBranchStep ==
  ASSUME ChatInv, NEW i \in DOMAIN messages, SwitchBranch(i)
  PROVE  ChatInv' /\ Drops
<1>. DEFINE n == Len(messages[i].branches)
            now == [messages[i] EXCEPT !.active = (messages[i].active % n) + 1]
<1>1. ChatTypes /\ Turns /\ ~Streaming /\ sent' = sent
  BY DEF ChatInv, SwitchBranch
<1>2. \A k \in DOMAIN messages : messages[k] \in Msg /\ Shows(messages[k])
  BY <1>1, LenProperties, ElementOfSeq DEF Turns, Sound
<1>3. /\ messages' = [k \in DOMAIN messages |-> messages'[k]]
      /\ \A k \in DOMAIN messages : messages'[k] = IF k = i THEN now ELSE messages[k]
  <2>1. messages[i] \in Msg
    BY <1>2
  <2>2. messages' = [messages EXCEPT ![i] = now]
    BY <2>1 DEF SwitchBranch, Msg
  <2>3. messages = [k \in DOMAIN messages |-> messages[k]]
    BY <1>1, LenProperties DEF Turns, Sound
  <2>. HIDE DEF now
  <2>. QED
    BY <2>2, <2>3
<1>4. n \in Nat /\ n > 1 /\ DOMAIN messages[i].branches = 1..n /\ messages[i].active \in Nat
  BY <1>2, LenProperties DEF Msg, Branches, SwitchBranch
<1>5. (messages[i].active % n) + 1 \in 1..n
  <2>. DEFINE a == messages[i].active
  <2>1. a \in Nat /\ n \in Nat /\ n > 1
    BY <1>4
  <2>. HIDE DEF a, n
  <2>2. a % n \in 0..n - 1
    BY <2>1
  <2>3. (a % n) + 1 \in 1..n
    BY <2>1, <2>2
  <2>. QED
    BY <2>3 DEF a
<1>6. now \in Msg /\ Shows(now) /\ now.id = messages[i].id
  <2>1. messages[i] \in Msg /\ (messages[i].active % n) + 1 \in Nat
    BY <1>2, <1>4, <1>5
  <2>2. /\ now \in Msg /\ now.id = messages[i].id /\ now.branches = messages[i].branches
        /\ now.active = (messages[i].active % n) + 1
    BY <2>1 DEF Msg
  <2>. QED
    BY <1>4, <1>5, <2>2 DEF Shows
<1>. HIDE DEF now, n
<1>7. \A k \in DOMAIN messages :
        messages'[k] \in Msg /\ Shows(messages'[k]) /\ messages'[k].id = messages[k].id
  BY <1>2, <1>3, <1>6
<1>8. sent \in Nat /\ ops + 1 \in 0..MaxOps /\ mounts \in 1..(ops + 1) + 1
  BY <1>1, ChatPageAssumption DEF ChatTypes, SwitchBranch, Happens
<1>9. Sound(messages') /\ Numbered(messages', sent) /\ Still(messages, messages')
  BY <1>1, <1>3, <1>7, <1>8, ChangesKeepTurns
<1>10. ChatTypes'
  BY <1>1, <1>8 DEF ChatTypes, SwitchBranch, Happens
<1>11. Reading'
  BY <1>1 DEF ChatInv, Reading, Streaming, SwitchBranch
<1>. QED
  BY <1>1, <1>9, <1>10, <1>11 DEF ChatInv, Turns, Drops

(* What ends a reply.                                                      *)
LEMMA StreamEndsStep ==
  ASSUME ChatInv, StreamEnds
  PROVE  ChatInv' /\ Drops
<1>1. ChatTypes /\ Turns /\ UNCHANGED messages /\ sent' = sent
  BY DEF ChatInv, StreamEnds
<1>2. log' \in Seq(LogRow)
  BY <1>1, PersistTyped DEF ChatTypes, StreamEnds
<1>3. ChatTypes'
  BY <1>1, <1>2, NoStreamTyped DEF ChatTypes, StreamEnds
<1>4. sent \in Nat
  BY <1>1, ChatPageAssumption DEF ChatTypes
<1>5. Turns' /\ Drops
  BY <1>1, <1>4, NothingChangesTurns
<1>6. Reading'
  BY DEF StreamEnds, Reading, Streaming, NoStream
<1>. QED
  BY <1>3, <1>5, <1>6 DEF ChatInv

LEMMA BreakStep ==
  ASSUME ChatInv, StreamFails \/ Stop
  PROVE  ChatInv' /\ Drops
<1>1. /\ ChatTypes /\ Turns /\ sent' = sent /\ UNCHANGED <<hydrated, cache, log, mounts>>
      /\ ops < MaxOps /\ ops' = ops + 1 /\ status' \in {"ready", "error"}
      /\ stream' = NoStream /\ orphan' \in {orphan} \cup (IF stream.on THEN {stream} ELSE {})
      /\ diverged' = (diverged \/ stream.on)
  BY DEF ChatInv, StreamFails, Stop, Happens, Detach
<1>2. ops + 1 \in 0..MaxOps /\ mounts \in 1..(ops + 1) + 1
  BY <1>1, ChatPageAssumption DEF ChatTypes
<1>3. ChatTypes'
  BY <1>1, <1>2, NoStreamTyped DEF ChatTypes
<1>4. sent \in Nat
  BY <1>1, ChatPageAssumption DEF ChatTypes
<1>5. Turns' /\ Drops
  <2>1. \/ UNCHANGED messages
        \/ messages' = [i \in DOMAIN messages |->
                          IF messages[i].id = stream.id THEN [messages[i] EXCEPT !.failed = TRUE]
                                                        ELSE messages[i]]
    BY DEF StreamFails, Stop
  <2>2. CASE UNCHANGED messages
    BY <1>1, <1>4, <2>2, NothingChangesTurns
  <2>3. CASE ~UNCHANGED messages
    BY <1>1, <2>1, <2>3, Failing
  <2>. QED
    BY <2>2, <2>3
<1>6. Reading'
  BY <1>1 DEF Reading, Streaming, NoStream
<1>. QED
  BY <1>3, <1>5, <1>6 DEF ChatInv

(* What the runtime and the query do by themselves.                        *)
LEMMA BackgroundStep ==
  ASSUME ChatInv, Fetch \/ OrphanEnds \/ Compact
  PROVE  ChatInv' /\ Drops
<1>1. ChatTypes /\ Turns /\ UNCHANGED <<messages, status, stream, sent, hydrated, mounts>>
  BY DEF ChatInv, Fetch, OrphanEnds, Compact
<1>2. Answered(cache')
  <2>1. CASE cache' = cache
    BY <1>1, <2>1 DEF ChatTypes
  <2>2. CASE cache' = Data(log)
    BY <1>1, <2>2, DataTyped DEF ChatTypes, Answered
  <2>. QED
    BY <2>1, <2>2 DEF Fetch, OrphanEnds, Compact
<1>3. log' \in Seq(LogRow)
  <2>1. CASE log' = log
    BY <1>1, <2>1 DEF ChatTypes
  <2>2. CASE log' = Persist(orphan)
    BY <1>1, <2>2, PersistTyped DEF ChatTypes
  <2>3. CASE Compact
    BY <1>1, <2>3, CompactTyped DEF ChatTypes, Compact
  <2>. QED
    BY <2>1, <2>2, <2>3 DEF Fetch, OrphanEnds
<1>4. ops' \in 0..MaxOps /\ mounts \in 1..ops' + 1
  <2>1. ops' = ops \/ (ops < MaxOps /\ ops' = ops + 1)
    BY DEF Fetch, OrphanEnds, Compact, Happens
  <2>. QED
    BY <1>1, <2>1, ChatPageAssumption DEF ChatTypes
<1>5. orphan' \in Reply /\ diverged' \in BOOLEAN
  BY <1>1, NoStreamTyped DEF ChatTypes, Fetch, OrphanEnds, Compact
<1>6. ChatTypes'
  BY <1>1, <1>2, <1>3, <1>4, <1>5 DEF ChatTypes
<1>7. sent \in Nat
  BY <1>1, ChatPageAssumption DEF ChatTypes
<1>8. Turns' /\ Drops
  BY <1>1, <1>7, NothingChangesTurns
<1>9. Reading'
  BY <1>1 DEF ChatInv, Reading, Streaming
<1>. QED
  BY <1>6, <1>8, <1>9 DEF ChatInv

(* Opened again, the page has no turns.                                    *)
LEMMA MountStep ==
  ASSUME ChatInv, Leave \/ Reload
  PROVE  ChatInv' /\ Drops
<1>1. /\ ChatTypes /\ UNCHANGED <<log, sent>> /\ mounts' = mounts + 1 /\ messages' = <<>>
      /\ status' = "ready" /\ hydrated' = FALSE /\ stream' = NoStream
      /\ ops < MaxOps /\ ops' = ops + 1
      /\ orphan' \in {orphan, stream} /\ cache' \in {cache, NoData}
      /\ diverged' = (stream.on \/ orphan.on)
  BY DEF ChatInv, Leave, Reload, Mount, Happens
<1>2. mounts \in Nat /\ mounts' # mounts /\ ops' \in 0..MaxOps /\ mounts' \in 1..ops' + 1
  BY <1>1, ChatPageAssumption DEF ChatTypes
<1>3. ChatTypes'
  BY <1>1, <1>2, NoStreamTyped DEF ChatTypes, Answered, Reply
<1>4. Turns'
  BY <1>1, NoMessages DEF Turns
<1>5. Reading'
  BY <1>1 DEF Reading, Streaming, NoStream
<1>. QED
  BY <1>2, <1>3, <1>4, <1>5 DEF ChatInv, Drops

LEMMA ChatInit == Init => ChatInv
<1> SUFFICES ASSUME Init PROVE ChatInv
  OBVIOUS
<1>1. <<>> \in Seq(LogRow)
  BY EmptySeq
<1>2. ChatTypes
  <2>1. sent \in 0..MaxPrompts /\ ops \in 0..MaxOps /\ mounts \in 1..ops + 1
    BY ChatPageAssumption DEF Init
  <2>. QED
    BY <1>1, <2>1, NoStreamTyped DEF Init, ChatTypes, Answered
<1>3. Turns
  BY NoMessages DEF Init, Turns
<1>4. Reading
  BY DEF Init, Reading, Streaming, NoStream
<1>. QED
  BY <1>2, <1>3, <1>4 DEF ChatInv

LEMMA ChatStep == ChatInv /\ [Next]_vars => ChatInv' /\ Drops
<1> SUFFICES ASSUME ChatInv, [Next]_vars PROVE ChatInv' /\ Drops
  OBVIOUS
<1>1. CASE Fetch \/ OrphanEnds \/ Compact
  BY <1>1, BackgroundStep
<1>2. CASE Hydrate
  BY <1>2, HydrateStep
<1>3. CASE Submit
  BY <1>3, SubmitStep
<1>4. CASE Click
  <2>1. PICK i \in DOMAIN messages :
          Regenerate(i) \/ Retry(i) \/ RetryAfterError(i) \/ Edit(i) \/ SwitchBranch(i)
    BY <1>4 DEF Click
  <2>. QED
    BY <2>1, RegenerateStep, RetryStep, RetryAfterErrorStep, EditStep, SwitchBranchStep
<1>5. CASE \E e \in Events(stream.got) : Receive(e)
  BY <1>5, Receiving
<1>6. CASE StreamEnds
  BY <1>6, StreamEndsStep
<1>7. CASE StreamFails \/ Stop
  BY <1>7, BreakStep
<1>8. CASE Leave \/ Reload
  BY <1>8, MountStep
<1>9. CASE UNCHANGED vars
  <2>1. sent \in Nat /\ UNCHANGED <<messages, sent>>
    BY <1>9, ChatPageAssumption DEF ChatInv, ChatTypes, vars
  <2>2. Turns' /\ Drops
    BY <2>1, NothingChangesTurns DEF ChatInv
  <2>3. ChatTypes' /\ Reading'
    BY <1>9 DEF ChatInv, ChatTypes, Reading, Streaming, vars
  <2>. QED
    BY <2>2, <2>3 DEF ChatInv
<1>. QED
  BY <1>1, <1>2, <1>3, <1>4, <1>5, <1>6, <1>7, <1>8, <1>9 DEF Next

LEMMA ChatPageInvariant == Spec => []ChatInv
<1>1. ChatInv /\ [Next]_vars => ChatInv'
  BY ChatStep
<1>. QED
  BY <1>1, ChatInit, PTL DEF Spec

-----------------------------------------------------------------------------
(* The page's variables hold what they should; every message shows one of  *)
(* its branches, whatever was regenerated, retried, edited, switched or    *)
(* read back from the log.                                                 *)
THEOREM ChatTypeHolds == Spec => []TypeOK
<1>1. ChatInv => TypeOK
  <2> SUFFICES ASSUME ChatInv PROVE TypeOK
    OBVIOUS
  <2>1. \A i \in DOMAIN messages : messages[i] \in Msg /\ Shows(messages[i])
    BY LenProperties, ElementOfSeq DEF ChatInv, Turns, Sound
  <2>2. \A i \in DOMAIN messages :
          /\ messages[i].role \in {"user", "assistant", "system"}
          /\ messages[i].active \in DOMAIN messages[i].branches
    BY <2>1 DEF Msg, Roles, Shows
  <2>3. ChatTypes
    BY DEF ChatInv
  <2>4. mounts \in 1..(MaxOps + 1)
    BY <2>3, ChatPageAssumption DEF ChatTypes
  <2>. QED
    BY <2>2, <2>3, <2>4 DEF TypeOK, ChatTypes
<1>. QED
  BY <1>1, ChatPageInvariant, PTL

(* Chunks, calls and results of a reply are found, whole and in order, in  *)
(* the branch that was opened for them, and that is the one shown: no      *)
(* regenerate, retry, edit, switch or late hydration takes it away, and no *)
(* two turns are ever mistaken for each other.                             *)
THEOREM RepliesStayInTheirBranch == Spec => []StreamStaysInItsBranch
<1>1. ChatInv => StreamStaysInItsBranch
  <2> SUFFICES ASSUME ChatInv, stream.on PROVE StreamStaysInItsBranch
    BY DEF StreamStaysInItsBranch
  <2>. DEFINE I == {k \in 1..Len(messages) : messages[k].id = stream.id}
  <2>1. PICK i \in DOMAIN messages :
          /\ messages[i].id = stream.id /\ messages[i].active = stream.branch
          /\ Active(messages[i]) = Built(stream.got)
    BY DEF ChatInv, Reading, Lands
  <2>2. Len(messages) \in Nat /\ DOMAIN messages = 1..Len(messages)
    BY LenProperties DEF ChatInv, Turns, Sound
  <2>3. I = {i}
    BY <2>1, <2>2 DEF ChatInv, Turns, Sound, IdsDistinct
  <2>4. Min(I) = i
    <3>1. I \in SUBSET (1..Len(messages)) /\ I # {}
      BY <2>3
    <3>. HIDE DEF I
    <3>2. Min(I) \in I
      BY <2>2, <3>1, Extremes
    <3>. QED
      BY <2>3, <3>2
  <2>5. Index(stream.id) = i
    <3>1. Index(stream.id) = IF I # {} THEN Min(I) ELSE 0
      BY DEF Index, SelectInSeq
    <3>. HIDE DEF I
    <3>. QED
      BY <2>3, <2>4, <3>1
  <2>6. i # 0
    BY <2>2
  <2>. QED
    BY <2>1, <2>5, <2>6 DEF StreamStaysInItsBranch, Built
<1>. QED
  BY <1>1, ChatPageInvariant, PTL

(* As long as the page is open, a turn on it goes only by an edit or a     *)
(* retry of a prompt, with what came after it; a late answer to the        *)
(* history query drops nothing.                                            *)
THEOREM TurnsAreKept == Spec => OnlyTheUserDropsTurns
<1>. DEFINE A == (mounts' = mounts /\ \E m \in ToSet(messages) : \A k \in ToSet(messages') : k.id # m.id)
                   => \E i \in DOMAIN messages :
                        /\ messages[i].role = "user"
                        /\ IsPrefix(SubSeq(messages, 1, i - 1), messages')
                        /\ Len(messages') \in {i - 1, i + 1}
<1>1. Drops => A
  <2> SUFFICES ASSUME Drops, mounts' = mounts,
                      NEW m \in ToSet(messages), \A k \in ToSet(messages') : k.id # m.id
               PROVE  DroppedByUser
    BY DEF DroppedByUser
  <2>1. PICK i \in DOMAIN messages : m = messages[i]
    BY DEF ToSet
  <2>2. \A k \in DOMAIN messages' : messages'[k].id # messages[i].id
    BY <2>1 DEF ToSet
  <2>. QED
    BY <2>2 DEF Drops, Still
<1>2. ChatInv /\ [Next]_vars => [A]_vars
  BY <1>1, ChatStep
<1>. QED
  BY <1>2, ChatPageInvariant, PTL DEF Spec, OnlyTheUserDropsTurns

-----------------------------------------------------------------------------
(* The page against the log.                                               *)

(* What a reader sees is the same.                                         *)
Like(ms, ns) ==
  /\ DOMAIN ms = DOMAIN ns
  /\ \A i \in DOMAIN ms : /\ ms[i].role = ns[i].role /\ ms[i].active = ns[i].active
                          /\ ms[i].branches = ns[i].branches

SummaryRow == Row("assistant", <<TextPart(<<Word(0, "summary")>>)>>)
NoticeRow == Row("user", <<TextPart(<<Word(0, "notice")>>)>>)

(* The compactor's marks are in rows of their own, the summary first.      *)
PlainRow(r) == r.content \in Seq(Plain) /\ r.others \in Seq(Seq(Plain))
Marked(rows) == \A k \in DOMAIN rows :
  PlainRow(rows[k]) \/ (k = 1 /\ rows[k] = SummaryRow) \/ rows[k] = NoticeRow

(* A reply follows the summary, which is thus not the one a regeneration   *)
(* adds its branch to.                                                     *)
SummaryIsBehind(rows) ==
  \A k \in DOMAIN rows : rows[k] = SummaryRow =>
    \E j \in DOMAIN rows : j > k /\ rows[j].role = "assistant"

WellMarked(rows) == Marked(rows) /\ SummaryIsBehind(rows)

Clean(ms) == \A i \in DOMAIN ms :
  ms[i].role # "system" => ms[i].branches \in Seq(Seq(Plain))

Marks ==
  /\ WellMarked(log) /\ Clean(messages)
  /\ cache # NoData => Marked(cache[1])

(* The rows of a reply that still run are those of its open calls, one of  *)
(* a name at a time: by name or by id, a result finds the same row.        *)
Paired(parts, got) ==
  LET tools == {i \in DOMAIN parts : parts[i].kind = "tool"} IN
  /\ \A i \in tools : parts[i].by <= Len(got)
  /\ \A i, j \in tools : parts[i].by = parts[j].by => i = j
  /\ \A e \in ToSet(got) : e.by <= Len(got)
  /\ \A e, f \in Open(got) : e.tool = f.tool => e = f
  /\ \A e, f \in Open(got) : e.by = f.by => e = f
  /\ \A e \in Open(got) : \E i \in tools :
       Running(parts[i]) /\ parts[i].by = e.by /\ parts[i].name = e.tool
  /\ \A i \in tools : Running(parts[i]) => \E e \in Open(got) :
       parts[i].by = e.by /\ parts[i].name = e.tool

KeptAsShown == stream.on =>
  Paired(Built(stream.got), stream.got) /\ Kept(stream) = Built(stream.got)

(* The log with as much of reply t as has arrived.                         *)
KeptIn(lg, t) ==
  LET i == SelectLastInSeq(lg, LAMBDA r : r.role = "assistant") IN
  IF t.regen /\ i # 0
    THEN ReplaceAt(lg, i, [lg[i] EXCEPT !.content = Kept(t), !.others = Append(@, lg[i].content),
                                        !.active = Len(lg[i].others) + 2])
    ELSE Append(lg, Row("assistant", Kept(t)))

(* A regeneration is of the log's last row.                                *)
OfLast(lg, t) == t.regen => lg # <<>> /\ Last(lg).role = "assistant"

(* While a reply is read, the page is what the log will be if the runtime  *)
(* keeps as much as has arrived.                                           *)
Agrees(ms, lg, t) ==
  IF t.on THEN /\ Like(ms, FromLog(KeptIn(lg, t)))
               /\ ms # <<>> /\ ms[Len(ms)].id = t.id /\ OfLast(lg, t)
          ELSE Like(ms, FromLog(lg))

InStep == ~diverged /\ (hydrated \/ mounts = 1) => Agrees(messages, log, stream)

OrphanDiverges == orphan.on => diverged

More == Marks /\ KeptAsShown /\ InStep /\ OrphanDiverges
ReloadInv == ChatInv /\ More

-----------------------------------------------------------------------------
(* Who wrote a row.                                                        *)

LEMMA PlainLooks ==
  ASSUME NEW parts \in Seq(Plain)
  PROVE  ~Looks(parts, "summary") /\ ~Looks(parts, "notice")
<1>. DEFINE I == {i \in 1..Len(parts) : IsText(parts[i])}
            i == IF I # {} THEN Min(I) ELSE 0
<1>1. FirstText(parts) = IF i = 0 THEN <<>> ELSE parts[i].content
  BY DEF FirstText, SelectInSeq
<1>2. Len(parts) \in Nat /\ I \in SUBSET (1..Len(parts))
  BY LenProperties
<1>3. I # {} => Min(I) \in I
  BY <1>2, Extremes
<1>. HIDE DEF I
<1>4. CASE i = 0
  BY <1>1, <1>4 DEF Looks
<1>5. CASE i # 0
  <2>1. i \in 1..Len(parts) /\ IsText(parts[i])
    BY <1>3, <1>5 DEF I
  <2>. HIDE DEF i
  <2>2. parts[i] \in Plain
    BY <2>1, ElementOfSeq
  <2>3. parts[i].content \in Seq(AWord(Leak))
    BY <2>1, <2>2 DEF Plain, PartOf, IsText, ToolRows
  <2>4. CASE parts[i].content # <<>>
    <3>1. 1 \in 1..Len(parts[i].content)
      BY <2>3, <2>4, EmptySeq
    <3>2. parts[i].content[1] \in AWord(Leak)
      BY <2>3, <3>1, ElementOfSeq
    <3>3. parts[i].content[1].look \notin {"summary", "notice"}
      BY <3>2 DEF AWord, Leak
    <3>. QED
      BY <1>1, <1>5, <3>3 DEF Looks
  <2>. QED
    BY <1>1, <1>5, <2>4 DEF Looks
<1>. QED
  BY <1>4, <1>5

LEMMA MarkLooks ==
  ASSUME NEW look, NEW other
  PROVE  Looks(<<TextPart(<<Word(0, look)>>)>>, other) <=> look = other
<1>. DEFINE p == TextPart(<<Word(0, look)>>)
            I == {i \in 1..Len(<<p>>) : IsText(<<p>>[i])}
<1>1. IsText(p) /\ p.content = <<Word(0, look)>> /\ Word(0, look).look = look
  BY DEF TextPart, IsText, Word
<1>. HIDE DEF p
<1>2. I = {1}
  BY <1>1
<1>3. Min(I) = 1
  <2>1. 1 \in Nat /\ I \in SUBSET (1..1) /\ I # {}
    BY <1>2
  <2>. HIDE DEF I
  <2>2. Min(I) \in I
    BY <2>1, Extremes
  <2>. QED
    BY <1>2, <2>2
<1>4. FirstText(<<p>>) = <<Word(0, look)>>
  <2>1. FirstText(<<p>>) = IF (IF I # {} THEN Min(I) ELSE 0) = 0 THEN <<>>
                           ELSE <<p>>[IF I # {} THEN Min(I) ELSE 0].content
    BY DEF FirstText, SelectInSeq
  <2>. HIDE DEF I
  <2>. QED
    BY <1>1, <1>2, <1>3, <2>1
<1>. QED
  BY <1>1, <1>4 DEF Looks, p

(* What a row becomes.                                                     *)
LEMMA RowBranches ==
  ASSUME NEW row \in LogRow, NEW i
  PROVE  /\ FromRow(row, i).role = row.role
         /\ row.role = "assistant" => FromRow(row, i).branches = Append(row.others, row.content)
         /\ row.role = "user" => /\ FromRow(row, i).branches = <<row.content>>
                                 /\ FromRow(row, i).active = 1
         /\ row.role = "assistant" /\ row.active = Len(row.others) + 1
              => /\ FromRow(row, i).active = row.active
                 /\ Active(FromRow(row, i)) = row.content
<1>. DEFINE all == IF row.role = "assistant" /\ row.others # <<>>
                     THEN Append(row.others, row.content) ELSE <<row.content>>
<1>1. row.role \in Roles /\ row.content \in Seq(Part) /\ row.others \in Seq(Seq(Part))
  BY DEF LogRow, Branches
<1>2. /\ Len(row.others) \in Nat
      /\ row.others = <<>> => Append(row.others, row.content) = <<row.content>>
  BY <1>1, LenProperties, AppendToNone
<1>3. FromRow(row, i) = [id |-> <<"hist", i, row.role>>, role |-> row.role, branches |-> all,
         active |-> IF row.active \in DOMAIN all THEN row.active ELSE Len(all), failed |-> FALSE]
  BY DEF FromRow
<1>4. row.role = "assistant" => all = Append(row.others, row.content)
  BY <1>2
<1>5. row.role = "user" => all = <<row.content>>
  OBVIOUS
<1>. HIDE DEF all
<1>6. FromRow(row, i).role = row.role /\ FromRow(row, i).branches = all
  BY <1>3
<1>7. ASSUME row.role = "user" PROVE FromRow(row, i).active = 1
  <2>1. Len(all) = 1 /\ DOMAIN all = {1}
    <3>1. <<row.content>> \in Seq(Seq(Part)) /\ Len(<<row.content>>) = 1
      BY <1>1
    <3>. QED
      BY <1>5, <1>7, <3>1
  <2>. QED
    BY <1>3, <2>1
<1>8. ASSUME row.role = "assistant", row.active = Len(row.others) + 1
      PROVE  FromRow(row, i).active = row.active /\ Active(FromRow(row, i)) = row.content
  <2>1. /\ all \in Seq(Seq(Part)) /\ Len(all) = Len(row.others) + 1
        /\ all[Len(row.others) + 1] = row.content
    <3>1. /\ Append(row.others, row.content) \in Seq(Seq(Part))
          /\ Len(Append(row.others, row.content)) = Len(row.others) + 1
          /\ Append(row.others, row.content)[Len(row.others) + 1] = row.content
      BY <1>1, AppendProperties
    <3>. QED
      BY <1>4, <1>8, <3>1
  <2>2. row.active \in DOMAIN all
    BY <1>2, <1>8, <2>1, LenProperties
  <2>. QED
    BY <1>3, <1>8, <2>1, <2>2 DEF Active
<1>. QED
  BY <1>4, <1>5, <1>6, <1>7, <1>8

LEMMA PlainRowMarks ==
  ASSUME NEW row \in LogRow, PlainRow(row), NEW i
  PROVE  /\ FromRow(row, i).branches \in Seq(Seq(Plain))
         /\ ~IsSummary(FromRow(row, i)) /\ ~IsNotice(FromRow(row, i))
<1>. DEFINE m == FromRow(row, i)
<1>1. row.role \in Roles /\ row.content \in Seq(Plain) /\ row.others \in Seq(Seq(Plain))
  BY DEF LogRow, PlainRow
<1>2. m.branches \in Seq(Seq(Plain))
  <2>1. Append(row.others, row.content) \in Seq(Seq(Plain)) /\ <<row.content>> \in Seq(Seq(Plain))
    BY <1>1, AppendProperties
  <2>. HIDE DEF m
  <2>2. row.role = "assistant" \/ row.role = "user"
    BY <1>1 DEF Roles
  <2>. QED
    BY <2>1, <2>2, RowBranches DEF m
<1>3. m.active \in DOMAIN m.branches
  <2>. DEFINE all == IF row.role = "assistant" /\ row.others # <<>>
                       THEN Append(row.others, row.content) ELSE <<row.content>>
  <2>1. /\ m.branches = all
        /\ m.active = IF row.active \in DOMAIN all THEN row.active ELSE Len(all)
    BY DEF FromRow
  <2>2. all # <<>> /\ all \in Seq(Seq(Plain))
    BY <1>1, AppendProperties
  <2>3. Len(all) \in DOMAIN all
    <3>. HIDE DEF all
    <3>. QED
      BY <2>2, EmptySeq, LenProperties
  <2>. QED
    BY <2>1, <2>3
<1>4. m.branches[m.active] \in Seq(Plain)
  <2>. HIDE DEF m
  <2>. QED
    BY <1>2, <1>3, LenProperties, ElementOfSeq
<1>. QED
  BY <1>2, <1>4, PlainLooks DEF IsSummary, IsNotice

LEMMA MarkRows ==
  ASSUME NEW i
  PROVE  /\ SummaryRow \in LogRow /\ NoticeRow \in LogRow
         /\ SummaryRow.role = "assistant" /\ NoticeRow.role = "user"
         /\ IsSummary(FromRow(SummaryRow, i))
         /\ IsNotice(FromRow(NoticeRow, i)) /\ ~IsSummary(FromRow(NoticeRow, i))
<1>1. SummaryRow \in LogRow /\ NoticeRow \in LogRow
  BY WordsTyped, RowTyped DEF SummaryRow, NoticeRow, Look, Roles
<1>2. /\ SummaryRow.role = "assistant" /\ SummaryRow.active = 1 /\ SummaryRow.others = <<>>
      /\ SummaryRow.content = <<TextPart(<<Word(0, "summary")>>)>>
      /\ NoticeRow.role = "user" /\ NoticeRow.content = <<TextPart(<<Word(0, "notice")>>)>>
  BY DEF SummaryRow, NoticeRow, Row
<1>3. /\ FromRow(SummaryRow, i).role = "assistant"
      /\ Active(FromRow(SummaryRow, i)) = SummaryRow.content
  <2>1. SummaryRow.active = Len(SummaryRow.others) + 1
    BY <1>2, EmptySeq
  <2>. QED
    BY <1>1, <1>2, <2>1, RowBranches
<1>4. FromRow(NoticeRow, i).role = "user" /\ Active(FromRow(NoticeRow, i)) = NoticeRow.content
  <2>1. FromRow(NoticeRow, i).branches = <<NoticeRow.content>> /\ FromRow(NoticeRow, i).active = 1
    BY <1>1, <1>2, RowBranches
  <2>2. FromRow(NoticeRow, i).role = "user"
    BY <1>1, <1>2, RowBranches
  <2>. QED
    BY <2>1, <2>2 DEF Active
<1>5. Looks(SummaryRow.content, "summary") /\ Looks(NoticeRow.content, "notice")
  BY <1>2, MarkLooks
<1>. QED
  BY <1>1, <1>2, <1>3, <1>4, <1>5 DEF IsSummary, IsNotice, Active

-----------------------------------------------------------------------------
(* The page is read back row by row.                                       *)

RowsRead(rows) == [i \in DOMAIN rows |-> FromRow(rows[i], i)]
Folded(m) == IF IsNotice(m) THEN [m EXCEPT !.role = "system"] ELSE m
NoticesFolded(ms) == [i \in DOMAIN ms |-> Folded(ms[i])]
Summaries(ms) == {i \in 1..Len(ms) : IsSummary(ms[i])}

LEMMA FromLogForm ==
  ASSUME NEW rows
  PROVE  FromLog(rows) =
           IF Summaries(RowsRead(rows)) = {} THEN NoticesFolded(RowsRead(rows))
           ELSE IF Min(Summaries(RowsRead(rows))) = 0 THEN NoticesFolded(RowsRead(rows))
           ELSE RemoveAt(NoticesFolded(RowsRead(rows)), Min(Summaries(RowsRead(rows))))
<1>. DEFINE ms == RowsRead(rows)
            summary == IF Summaries(ms) # {} THEN Min(Summaries(ms)) ELSE 0
<1>1. FromLog(rows) = ApplyCompactionMarkers(ms)
  BY DEF FromLog, RowsRead
<1>. HIDE DEF ms
<1>2. ApplyCompactionMarkers(ms) =
        IF summary = 0 THEN NoticesFolded(ms) ELSE RemoveAt(NoticesFolded(ms), summary)
  BY DEF ApplyCompactionMarkers, SelectInSeq, Summaries, NoticesFolded, Folded
<1>. QED
  BY <1>1, <1>2 DEF ms

LEMMA RowsReadTyped ==
  ASSUME NEW rows \in Seq(LogRow)
  PROVE  /\ Len(rows) \in Nat /\ RowsRead(rows) \in Seq(Msg)
         /\ Len(RowsRead(rows)) = Len(rows) /\ DOMAIN RowsRead(rows) = 1..Len(rows)
         /\ \A i \in 1..Len(rows) : /\ rows[i] \in LogRow
                                    /\ RowsRead(rows)[i] = FromRow(rows[i], i)
         /\ NoticesFolded(RowsRead(rows)) \in Seq(Msg)
         /\ Len(NoticesFolded(RowsRead(rows))) = Len(rows)
         /\ DOMAIN NoticesFolded(RowsRead(rows)) = 1..Len(rows)
         /\ \A i \in 1..Len(rows) : NoticesFolded(RowsRead(rows))[i] = Folded(FromRow(rows[i], i))
<1>. DEFINE n == Len(rows)
            ms == RowsRead(rows)
            fs == NoticesFolded(ms)
<1>1. n \in Nat /\ DOMAIN rows = 1..n /\ \A i \in 1..n : rows[i] \in LogRow /\ i \in Nat
  BY MessagesAreIndexed
<1>2. ms = [i \in 1..n |-> ms[i]] /\ \A i \in 1..n : ms[i] = FromRow(rows[i], i)
  BY <1>1 DEF RowsRead
<1>3. \A i \in 1..n : ms[i] \in Msg
  BY <1>1, <1>2, FromRowTyped
<1>. HIDE DEF ms
<1>4. ms \in Seq(Msg) /\ Len(ms) = n /\ DOMAIN ms = 1..n
  BY <1>1, <1>2, <1>3, MadeByIndex
<1>5. fs = [i \in 1..n |-> fs[i]] /\ \A i \in 1..n : fs[i] = Folded(ms[i])
  BY <1>4 DEF NoticesFolded
<1>6. \A m \in Msg : Folded(m) \in Msg
  BY DEF Folded, Msg
<1>. HIDE DEF fs
<1>7. fs \in Seq(Msg) /\ Len(fs) = n /\ DOMAIN fs = 1..n
  <2>1. \A i \in 1..n : fs[i] \in Msg
    BY <1>3, <1>5, <1>6
  <2>. QED
    BY <1>1, <1>5, <2>1, MadeByIndex
<1>. QED
  BY <1>1, <1>2, <1>4, <1>5, <1>7 DEF ms, fs

(* A row that is no summary adds a message, and changes none.              *)
LEMMA FromLogGrows ==
  ASSUME NEW rows \in Seq(LogRow), NEW row \in LogRow,
         ~IsSummary(FromRow(row, Len(rows) + 1))
  PROVE  /\ FromLog(rows) \in Seq(Msg) /\ Len(FromLog(rows)) \in Nat
         /\ FromLog(Append(rows, row)) \in Seq(Msg)
         /\ Len(FromLog(Append(rows, row))) = Len(FromLog(rows)) + 1
         /\ \A k \in 1..Len(FromLog(rows)) : FromLog(Append(rows, row))[k] = FromLog(rows)[k]
         /\ FromLog(Append(rows, row))[Len(FromLog(rows)) + 1]
              = Folded(FromRow(row, Len(rows) + 1))
<1>. DEFINE n == Len(rows)
            more == Append(rows, row)
            os == NoticesFolded(RowsRead(rows))
            ns == NoticesFolded(RowsRead(more))
            I == Summaries(RowsRead(rows))
            J == Summaries(RowsRead(more))
<1>1. /\ more \in Seq(LogRow) /\ Len(more) = n + 1 /\ more[n + 1] = row
      /\ \A i \in 1..n : more[i] = rows[i]
  BY AppendProperties
<1>. HIDE DEF more
<1>2. /\ n \in Nat /\ os \in Seq(Msg) /\ Len(os) = n
      /\ \A i \in 1..n : os[i] = Folded(FromRow(rows[i], i))
  BY RowsReadTyped
<1>3. /\ ns \in Seq(Msg) /\ Len(ns) = n + 1
      /\ \A i \in 1..n + 1 : ns[i] = Folded(FromRow(more[i], i))
  BY <1>1, RowsReadTyped
<1>4. /\ \A i \in 1..n : ns[i] = os[i]
      /\ ns[n + 1] = Folded(FromRow(row, n + 1))
  BY <1>1, <1>2, <1>3
<1>5. I = {i \in 1..n : IsSummary(FromRow(rows[i], i))}
  BY RowsReadTyped DEF Summaries
<1>6. J = {i \in 1..n + 1 : IsSummary(FromRow(more[i], i))}
  <2>1. Len(RowsRead(more)) = n + 1 /\ \A i \in 1..n + 1 : RowsRead(more)[i] = FromRow(more[i], i)
    BY <1>1, RowsReadTyped
  <2>. QED
    BY <2>1 DEF Summaries
<1>7. J = I
  <2>1. \A i : i \in 1..n + 1 <=> i \in 1..n \/ i = n + 1
    BY <1>2
  <2>2. \A i \in 1..n : more[i] = rows[i]
    BY <1>1
  <2>. QED
    BY <1>1, <1>5, <1>6, <2>1, <2>2
<1>8. /\ FromLog(rows) = IF I = {} THEN os ELSE IF Min(I) = 0 THEN os ELSE RemoveAt(os, Min(I))
      /\ FromLog(more) = IF I = {} THEN ns ELSE IF Min(I) = 0 THEN ns ELSE RemoveAt(ns, Min(I))
  BY <1>7, FromLogForm
<1>9. I \in SUBSET (1..n)
  BY <1>5
<1>. HIDE DEF os, ns, I, J
<1>10. CASE I = {}
  BY <1>2, <1>3, <1>4, <1>8, <1>10 DEF more
<1>11. CASE I # {}
  <2>. DEFINE s == Min(I)
  <2>8. s \in I
    BY <1>2, <1>9, <1>11, Extremes
  <2>. HIDE DEF s
  <2>1. s \in 1..n /\ s \in 1..n + 1 /\ s # 0
    BY <1>2, <1>9, <2>8
  <2>2. FromLog(rows) = RemoveAt(os, s) /\ FromLog(more) = RemoveAt(ns, s)
    BY <1>8, <1>11, <2>1 DEF s
  <2>3. /\ RemoveAt(os, s) \in Seq(Msg) /\ Len(RemoveAt(os, s)) = n - 1
        /\ \A k \in 1..n - 1 : RemoveAt(os, s)[k] = IF k < s THEN os[k] ELSE os[k + 1]
    BY <1>2, <2>1, Removing
  <2>4. /\ RemoveAt(ns, s) \in Seq(Msg) /\ Len(RemoveAt(ns, s)) = (n + 1) - 1
        /\ \A k \in 1..(n + 1) - 1 : RemoveAt(ns, s)[k] = IF k < s THEN ns[k] ELSE ns[k + 1]
    BY <1>3, <2>1, Removing
  <2>5. /\ (n + 1) - 1 = n /\ n - 1 \in Nat /\ (n - 1) + 1 = n /\ n \in 1..n /\ ~(n < s)
        /\ \A k \in 1..n - 1 : k \in 1..n /\ k + 1 \in 1..n
    BY <1>2, <2>1
  <2>6. \A k \in 1..n - 1 : RemoveAt(ns, s)[k] = RemoveAt(os, s)[k]
    BY <1>4, <2>3, <2>4, <2>5
  <2>7. RemoveAt(ns, s)[n] = ns[n + 1]
    BY <2>4, <2>5
  <2>. QED
    BY <1>4, <2>2, <2>3, <2>4, <2>5, <2>6, <2>7 DEF more
<1>. QED
  BY <1>10, <1>11

LEMMA FromLogOfNothing == FromLog(<<>>) = <<>>
<1>1. <<>> \in Seq(LogRow) /\ Len(<<>>) = 0 /\ 1..0 = {}
  BY EmptySeq
<1>2. Summaries(RowsRead(<<>>)) = {}
  BY <1>1, RowsReadTyped DEF Summaries
<1>3. FromLog(<<>>) = NoticesFolded(RowsRead(<<>>))
  BY <1>2, FromLogForm
<1>4. NoticesFolded(RowsRead(<<>>)) \in Seq(Msg) /\ Len(NoticesFolded(RowsRead(<<>>))) = 0
  BY <1>1, RowsReadTyped
<1>. QED
  BY <1>3, <1>4, EmptySeq

(* The summary is taken out, notices are told apart, the rest is plain.    *)
LEMMA FromLogClean ==
  ASSUME NEW rows \in Seq(LogRow), Marked(rows)
  PROVE  Clean(FromLog(rows))
<1>. DEFINE n == Len(rows)
            fs == NoticesFolded(RowsRead(rows))
            I == Summaries(RowsRead(rows))
            Fine(m) == m.role # "system" => m.branches \in Seq(Seq(Plain))
<1>1. /\ n \in Nat /\ fs \in Seq(Msg) /\ Len(fs) = n /\ DOMAIN fs = 1..n
      /\ \A i \in 1..n : rows[i] \in LogRow /\ fs[i] = Folded(FromRow(rows[i], i))
  BY RowsReadTyped
<1>2. I = {i \in 1..n : IsSummary(FromRow(rows[i], i))}
  BY RowsReadTyped DEF Summaries
<1>3. DOMAIN rows = 1..n
  BY LenProperties
<1>4. ASSUME NEW i \in 1..n, ~(i = 1 /\ rows[i] = SummaryRow)
      PROVE  Fine(fs[i])
  <2>1. CASE PlainRow(rows[i])
    BY <1>1, <2>1, PlainRowMarks DEF Folded
  <2>2. CASE rows[i] = NoticeRow
    <3>1. IsNotice(FromRow(rows[i], i)) /\ rows[i] \in LogRow
      BY <2>2, MarkRows
    <3>2. FromRow(rows[i], i) \in Msg
      BY <3>1, FromRowTyped
    <3>3. fs[i].role = "system"
      BY <1>1, <3>1, <3>2 DEF Folded, Msg
    <3>. QED
      BY <3>3
  <2>. QED
    BY <1>3, <1>4, <2>1, <2>2 DEF Marked
<1>5. I \in SUBSET (1..n)
  BY <1>2
<1>6. FromLog(rows) = IF I = {} THEN fs ELSE IF Min(I) = 0 THEN fs ELSE RemoveAt(fs, Min(I))
  BY FromLogForm
<1>7. n > 0 /\ rows[1] = SummaryRow => 1 \in I
  <2> SUFFICES ASSUME n > 0, rows[1] = SummaryRow PROVE 1 \in I
    OBVIOUS
  <2>1. 1 \in 1..n
    BY <1>1
  <2>2. IsSummary(FromRow(rows[1], 1))
    BY MarkRows
  <2>. QED
    BY <1>2, <2>1, <2>2
<1>. HIDE DEF fs, I, Fine
<1>8. CASE I = {}
  <2>1. \A i \in 1..n : Fine(fs[i])
    BY <1>1, <1>4, <1>7, <1>8
  <2>. QED
    BY <1>1, <1>6, <1>8, <2>1 DEF Clean, Fine
<1>9. CASE I # {}
  <2>. DEFINE s == Min(I)
              left == RemoveAt(fs, s)
  <2>6. s \in I /\ \A k \in I : s <= k
    BY <1>1, <1>5, <1>9, Extremes
  <2>. HIDE DEF s
  <2>1. s \in 1..n /\ s # 0 /\ \A k \in I : s <= k
    BY <1>1, <1>5, <2>6
  <2>2. /\ left \in Seq(Msg) /\ Len(left) = n - 1
        /\ \A k \in 1..n - 1 : left[k] = IF k < s THEN fs[k] ELSE fs[k + 1]
    BY <1>1, <2>1, Removing
  <2>3. DOMAIN left = 1..n - 1
    BY <2>2, LenProperties
  <2>4. FromLog(rows) = left
    BY <1>6, <1>9, <2>1 DEF s
  <2>. HIDE DEF left
  <2>5. ASSUME NEW k \in 1..n - 1 PROVE Fine(left[k])
    <3>1. CASE k < s
      <4>1. k \in 1..n /\ ~(s <= 1)
        BY <1>1, <2>1, <3>1
      <4>2. rows[1] # SummaryRow
        BY <1>1, <1>7, <2>1, <4>1
      <4>3. Fine(fs[k])
        BY <1>4, <4>1, <4>2
      <4>. QED
        BY <2>2, <3>1, <4>3
    <3>2. CASE ~(k < s)
      <4>1. k + 1 \in 1..n /\ k + 1 # 1
        BY <1>1, <2>1
      <4>2. Fine(fs[k + 1])
        BY <1>4, <4>1
      <4>. QED
        BY <2>2, <3>2, <4>2
    <3>. QED
      BY <3>1, <3>2
  <2>. QED
    BY <2>3, <2>4, <2>5 DEF Clean, Fine
<1>. QED
  BY <1>8, <1>9

-----------------------------------------------------------------------------
(* The runtime keeps what the page showed: calls of one name do not        *)
(* overlap, so that the name finds the same row as the id.                 *)

LEMMA KeepGrows ==
  ASSUME NEW got \in Seq(Event), NEW e \in Event
  PROVE  FoldLeft(Keep, <<>>, Append(got, e)) = Keep(FoldLeft(Keep, <<>>, got), e)
<1>. DEFINE n == Len(got)
            V == Seq(Plain)
            longer == Append(got, e)
<1>1. n \in Nat /\ n + 1 \in Nat /\ <<>> \in V /\ DOMAIN got = 1..n
  BY ReducesTyped
<1>2. /\ longer \in Seq(Event) /\ Len(longer) = n + 1 /\ longer[n + 1] = e
      /\ \A i \in 1..n : longer[i] = got[i]
  BY AppendProperties
<1>. HIDE DEF longer
<1>3. \A i \in 1..n + 1 : Keeps(longer)[i] \in [V -> V]
  BY <1>2, ReducesTyped
<1>4. \A i \in 1..n : Keeps(longer)[i] = Keeps(got)[i]
  <2>1. DOMAIN longer = 1..n + 1 /\ 1..n \subseteq 1..n + 1
    BY <1>1, <1>2, LenProperties
  <2>. QED
    BY <1>1, <1>2, <2>1 DEF Keeps
<1>. HIDE DEF V
<1>5. PICK g : IsRun(g, n + 1, V, <<>>, Keeps(longer))
  BY <1>1, <1>3, RunExists
<1>6. PICK h : IsRun(h, n, V, <<>>, Keeps(longer)) /\ h[1..n] = g[1..n]
  BY <1>1, <1>5, RunGrows
<1>7. g[1..n + 1] = Keeps(longer)[n + 1][g[1..n]]
  BY <1>1, <1>5, RunGrows
<1>8. IsRun(h, n, V, <<>>, Keeps(got))
  <2>1. \A s \in SUBSET (1..n) : s # {} => Max(s) \in 1..n
    BY <1>1, Extremes
  <2>. QED
    BY <1>4, <1>6, <2>1 DEF IsRun
<1>9. FoldLeft(Keep, <<>>, longer) = g[1..n + 1]
  BY <1>2, <1>5, KeptByRun DEF V
<1>10. FoldLeft(Keep, <<>>, got) = g[1..n]
  BY <1>6, <1>8, KeptByRun DEF V
<1>11. Keeps(longer)[n + 1][g[1..n]] = Keep(g[1..n], longer[n + 1])
  <2>1. g[1..n] \in Seq(Plain)
    BY <1>6 DEF IsRun, V
  <2>2. n + 1 \in 1..Len(longer)
    BY <1>1, <1>2
  <2>. QED
    BY <1>2, <2>1, <2>2, ReducesTyped
<1>12. FoldLeft(Keep, <<>>, longer) = Keep(FoldLeft(Keep, <<>>, got), e)
  BY ONLY <1>2, <1>7, <1>9, <1>10, <1>11
<1>. QED
  BY <1>12 DEF longer

LEMMA KeepOfNothing == FoldLeft(Keep, <<>>, <<>>) = <<>>
<1>1. <<>> \in Seq(Event) /\ Len(<<>>) = 0 /\ 1..0 = {} /\ <<>> \in Seq(Plain)
  BY EmptySeq
<1>2. PICK g : IsRun(g, 0, Seq(Plain), <<>>, Keeps(<<>>))
  <2>1. \A i \in 1..0 : Keeps(<<>>)[i] \in [Seq(Plain) -> Seq(Plain)]
    BY <1>1
  <2>. QED
    BY <1>1, <2>1, RunExists
<1>3. FoldLeft(Keep, <<>>, <<>>) = g[1..0]
  BY <1>1, <1>2, KeptByRun
<1>. QED
  BY <1>1, <1>2, <1>3 DEF IsRun

LEMMA PairedAtFirst == Paired(<<>>, <<>>)
<1>1. DOMAIN <<>> = {}
  OBVIOUS
<1>. QED
  BY <1>1 DEF Paired, Open, ToSet

LEMMA HeardOf ==
  ASSUME NEW got \in Seq(Event), NEW e \in Event
  PROVE  /\ ToSet(Append(got, e)) = ToSet(got) \cup {e}
         /\ ToSet(got) \subseteq Event
<1>1. DOMAIN got = 1..Len(got) /\ Len(got) \in Nat
  BY LenProperties
<1>2. /\ Append(got, e) \in Seq(Event) /\ Len(Append(got, e)) = Len(got) + 1
      /\ \A i \in 1..Len(got) : Append(got, e)[i] = got[i]
      /\ Append(got, e)[Len(got) + 1] = e
  BY AppendProperties
<1>3. DOMAIN Append(got, e) = 1..Len(got) + 1
  BY <1>2, LenProperties
<1>4. \A i : i \in 1..Len(got) + 1 <=> i \in 1..Len(got) \/ i = Len(got) + 1
  BY <1>1
<1>5. ToSet(got) \subseteq Event
  BY <1>1, ElementOfSeq DEF ToSet
<1>. HIDE DEF Paired
<1>6. ToSet(Append(got, e)) = ToSet(got) \cup {e}
  BY <1>1, <1>2, <1>3, <1>4 DEF ToSet
<1>. QED
  BY <1>5, <1>6

(* Text leaves the rows alone.                                             *)
LEMMA TextKeepsRows ==
  ASSUME NEW parts \in Seq(Plain), NEW word \in AWord(Leak)
  PROVE  LET new == PushTextDelta(parts, word) IN
         /\ {i \in DOMAIN new : new[i].kind = "tool"} = {i \in DOMAIN parts : parts[i].kind = "tool"}
         /\ \A i \in DOMAIN parts : parts[i].kind = "tool" => new[i] = parts[i]
<1>. DEFINE n == Len(parts)
            new == PushTextDelta(parts, word)
<1>1. n \in Nat /\ DOMAIN parts = 1..n /\ \A i \in 1..n : parts[i] \in Plain
  BY MessagesAreIndexed
<1>2. CASE parts # <<>> /\ IsText(Last(parts))
  <2>. DEFINE p == TextPart(Append(Last(parts).content, word))
              f == Front(parts)
  <2>1. n # 0 /\ n - 1 \in 0..n /\ n - 1 \in Nat /\ (n - 1) + 1 = n /\ Last(parts) = parts[n]
    BY <1>1, <1>2, EmptySeq DEF Last
  <2>2. parts[n].kind = "text" /\ parts[n].content \in Seq(AWord(Leak))
    BY <1>1, <1>2, <2>1 DEF IsText, Plain, PartOf, ToolRows
  <2>3. p \in Plain /\ p.kind = "text"
    <3>1. Append(Last(parts).content, word) \in Seq(AWord(Leak))
      BY <2>1, <2>2, AppendProperties
    <3>. QED
      BY <3>1 DEF TextPart, Plain, PartOf
  <2>4. f \in Seq(Plain) /\ Len(f) = n - 1 /\ \A k \in 1..n - 1 : f[k] = parts[k]
    BY <1>1, <2>1, Beginning DEF Front
  <2>5. new = Append(f, p)
    BY <1>2 DEF PushTextDelta
  <2>. HIDE DEF p, f, new
  <2>6. /\ new \in Seq(Plain) /\ Len(new) = n
        /\ \A i \in 1..n - 1 : new[i] = parts[i]
        /\ new[n] = p
    <3>1. /\ new \in Seq(Plain) /\ Len(new) = Len(f) + 1
          /\ \A i \in 1..Len(f) : new[i] = f[i]
          /\ new[Len(f) + 1] = p
      BY <2>3, <2>4, <2>5, AppendProperties
    <3>. QED
      BY <2>1, <2>4, <3>1
  <2>7. DOMAIN new = 1..n /\ \A i \in 1..n : i \in 1..n - 1 \/ i = n
    <3>1. DOMAIN new = 1..n
      BY <2>6, LenProperties
    <3>2. n \in Nat
      BY <1>1
    <3>3. \A i \in 1..n : i \in 1..n - 1 \/ i = n
      BY ONLY <3>2
    <3>. QED
      BY <3>1, <3>3
  <2>8. "text" # "tool"
    OBVIOUS
  <2>. QED
    BY <1>1, <2>2, <2>3, <2>6, <2>7, <2>8 DEF new
<1>3. CASE ~(parts # <<>> /\ IsText(Last(parts)))
  <2>. DEFINE p == TextPart(<<word>>)
  <2>1. p \in Plain /\ p.kind = "text"
    <3>1. <<word>> \in Seq(AWord(Leak))
      OBVIOUS
    <3>. QED
      BY <3>1 DEF TextPart, Plain, PartOf
  <2>2. new = Append(parts, p)
    BY <1>3 DEF PushTextDelta
  <2>. HIDE DEF p, new
  <2>3. /\ new \in Seq(Plain) /\ Len(new) = n + 1
        /\ \A i \in 1..n : new[i] = parts[i]
        /\ new[n + 1] = p
    BY <2>1, <2>2, AppendProperties
  <2>4. DOMAIN new = 1..n + 1 /\ \A i : i \in 1..n + 1 <=> i \in 1..n \/ i = n + 1
    BY <1>1, <2>3, LenProperties
  <2>. QED
    BY <1>1, <2>1, <2>3, <2>4 DEF new
<1>. QED
  BY <1>2, <1>3

LEMMA Pairing ==
  ASSUME NEW got \in Seq(Event), NEW parts \in Seq(Plain), Paired(parts, got),
         NEW e \in Events(got)
  PROVE  Keep(parts, e) = Reduce(parts, e) /\ Paired(Reduce(parts, e), Append(got, e))
<1>. DEFINE n == Len(got)
            more == Append(got, e)
            T == {i \in DOMAIN parts : parts[i].kind = "tool"}
            new == Reduce(parts, e)
            U == {i \in DOMAIN new : new[i].kind = "tool"}
<1>1. /\ n \in Nat /\ Len(more) = n + 1 /\ e \in Event /\ DOMAIN parts = 1..Len(parts)
      /\ Len(parts) \in Nat /\ \A i \in 1..Len(parts) : parts[i] \in Plain
  BY EventsTyped, AppendProperties, MessagesAreIndexed
<1>2. ToSet(more) = ToSet(got) \cup {e} /\ ToSet(got) \subseteq Event
  BY <1>1, HeardOf
<1>3. \A f \in ToSet(got) : f.by \in Nat /\ f.by <= n /\ f.by <= n + 1 /\ f.by # n + 1
  <2>1. \A f \in ToSet(got) : f.by \in Nat /\ f.by <= n
    BY <1>2 DEF Paired, Event
  <2>. QED
    BY <1>1, <2>1
<1>4. \A i \in T : parts[i].by \in Nat /\ parts[i].by <= n /\ parts[i].by <= n + 1 /\ parts[i].by # n + 1
  <2>1. \A i \in T : parts[i].by \in Nat /\ parts[i].by <= n
    BY <1>1 DEF Paired, Plain, PartOf, ToolRows
  <2>. QED
    BY <1>1, <2>1
<1>5. \A f \in Open(got) : f \in ToSet(got) /\ f.type = "tool.call"
  BY DEF Open
<1>6. /\ \A i, j \in T : parts[i].by = parts[j].by => i = j
      /\ \A f, g \in Open(got) : f.tool = g.tool => f = g
      /\ \A f, g \in Open(got) : f.by = g.by => f = g
      /\ \A f \in Open(got) : \E i \in T :
           Running(parts[i]) /\ parts[i].by = f.by /\ parts[i].name = f.tool
      /\ \A i \in T : Running(parts[i]) => \E f \in Open(got) :
           parts[i].by = f.by /\ parts[i].name = f.tool
  BY DEF Paired
<1>. HIDE DEF more
<1>7. CASE e.type = "text.delta"
  <2>1. Open(more) = Open(got)
    BY <1>2, <1>7 DEF Open
  <2>2. e.by = 0
    BY <1>7, <1>5 DEF Events, Null
  <2>3. Word(e.n, e.look) \in AWord(Leak)
    <3>1. e.n \in Nat \ {0} /\ e.look \in Leak
      BY <1>1, <1>7 DEF Event
    <3>. QED
      BY <3>1 DEF AWord, Word, Null
  <2>4. new = PushTextDelta(parts, Word(e.n, e.look)) /\ Keep(parts, e) = new
    BY <1>7 DEF Reduce, Keep
  <2>5. U = T /\ \A i \in T : new[i] = parts[i]
    <3>. HIDE DEF new
    <3>1. \A i \in DOMAIN parts : parts[i].kind = "tool" => new[i] = parts[i]
      BY <2>3, <2>4, TextKeepsRows
    <3>2. U = T
      BY <2>3, <2>4, TextKeepsRows
    <3>. QED
      BY <3>1, <3>2
  <2>. HIDE DEF new, T, U
  <2>6. Paired(new, more)
    <3>1. \A i \in U : new[i].by <= n + 1
      BY <1>4, <2>5
    <3>2. \A f \in ToSet(more) : f.by <= n + 1
      BY <1>1, <1>2, <1>3, <2>2
    <3>3. \A i, j \in U : new[i].by = new[j].by => i = j
      BY <1>6, <2>5
    <3>4. /\ \A f \in Open(more) : \E i \in U :
               Running(new[i]) /\ new[i].by = f.by /\ new[i].name = f.tool
          /\ \A i \in U : Running(new[i]) => \E f \in Open(more) :
               new[i].by = f.by /\ new[i].name = f.tool
      BY <1>6, <2>1, <2>5
    <3>. QED
      BY <1>1, <1>6, <2>1, <3>1, <3>2, <3>3, <3>4 DEF Paired, U
  <2>. QED
    BY <2>4, <2>6 DEF more, new
<1>8. CASE e.type = "tool.call"
  <2>1. e.by = n + 1 /\ e.n = n + 1 /\ e.tool \in Tools /\ \A f \in Open(got) : f.tool # e.tool
    BY <1>8 DEF Events
  <2>2. Open(more) = Open(got) \cup {e}
    <3>1. \A f \in ToSet(got) : f.by # e.by
      BY <1>3, <2>1
    <3>. QED
      BY <1>2, <1>8, <3>1 DEF Open
  <2>. DEFINE row == ToolPart(e.tool, e.by, e.n, Null)
              last == Len(parts) + 1
  <2>3. row \in Plain /\ row.kind = "tool" /\ Running(row) /\ row.by = e.by /\ row.name = e.tool
    BY <1>1, <2>1 DEF ToolPart, Plain, PartOf, Null, Running, ToolRows
  <2>4. new = Append(parts, row) /\ Keep(parts, e) = new
    BY <1>8 DEF Reduce, Keep, PushToolCall
  <2>. HIDE DEF row, new
  <2>5. /\ new \in Seq(Plain) /\ Len(new) = last
        /\ \A i \in 1..Len(parts) : new[i] = parts[i]
        /\ new[last] = row
    BY <2>3, <2>4, AppendProperties
  <2>6. DOMAIN new = 1..last /\ \A i : i \in 1..last <=> i \in 1..Len(parts) \/ i = last
    BY <1>1, <2>5, LenProperties
  <2>7. U = T \cup {last} /\ \A i \in T : new[i] = parts[i]
    BY <1>1, <2>3, <2>5, <2>6
  <2>. HIDE DEF T, U, last
  <2>8. Paired(new, more)
    <3>1. \A i \in U : new[i].by <= n + 1
      BY <1>1, <1>4, <2>1, <2>3, <2>5, <2>7
    <3>2. \A f \in ToSet(more) : f.by <= n + 1
      BY <1>1, <1>2, <1>3, <2>1
    <3>3. \A i, j \in U : new[i].by = new[j].by => i = j
      <4>1. new[last].by = n + 1
        BY <2>1, <2>3, <2>5
      <4>2. \A i \in T : new[i].by = parts[i].by /\ new[i].by # n + 1
        BY <1>4, <2>7
      <4>3. \A i, j \in T : new[i].by = new[j].by => i = j
        BY <1>6, <4>2
      <4>. QED
        BY <2>7, <4>1, <4>2, <4>3
    <3>4. \A f \in Open(more) : \E i \in U :
            Running(new[i]) /\ new[i].by = f.by /\ new[i].name = f.tool
      <4>1. \A f \in Open(got) : \E i \in T :
              Running(new[i]) /\ new[i].by = f.by /\ new[i].name = f.tool
        BY <1>6, <2>7
      <4>2. Running(new[last]) /\ new[last].by = e.by /\ new[last].name = e.tool
        BY <2>3, <2>5
      <4>. QED
        BY <2>2, <2>7, <4>1, <4>2
    <3>5. \A i \in U : Running(new[i]) => \E f \in Open(more) :
            new[i].by = f.by /\ new[i].name = f.tool
      <4>1. \A i \in T : Running(new[i]) => \E f \in Open(more) :
              new[i].by = f.by /\ new[i].name = f.tool
        BY <1>6, <2>2, <2>7
      <4>2. new[last].by = e.by /\ new[last].name = e.tool /\ e \in Open(more)
        BY <2>2, <2>3, <2>5
      <4>. QED
        BY <2>7, <4>1, <4>2
    <3>6. \A f, g \in Open(more) : f.tool = g.tool => f = g
      BY <1>6, <2>1, <2>2
    <3>7. \A f, g \in Open(more) : f.by = g.by => f = g
      BY <1>3, <1>5, <1>6, <2>1, <2>2
    <3>. QED
      BY <1>1, <3>1, <3>2, <3>3, <3>4, <3>5, <3>6, <3>7 DEF Paired, U
  <2>. QED
    BY <2>4, <2>8 DEF more, new
<1>9. CASE e.type = "tool.result"
  <2>1. PICK o \in Open(got) : e.by = o.by /\ e.tool = o.tool /\ e.n = n + 1
    BY <1>9 DEF Events
  <2>2. Open(more) = Open(got) \ {o}
    <3>1. \A f \in ToSet(more) : f.type = "tool.call" => f \in ToSet(got)
      BY <1>2, <1>9
    <3>2. \A f \in Open(got) : f.by = e.by <=> f = o
      BY <1>6, <2>1
    <3>3. \A f \in ToSet(got) :
            f \in Open(more) <=> f \in Open(got) /\ f.by # e.by
      BY <1>2, <1>9 DEF Open
    <3>. QED
      BY <1>5, <3>1, <3>2, <3>3 DEF Open
  <2>3. PICK i \in T : Running(parts[i]) /\ parts[i].by = o.by /\ parts[i].name = o.tool
    BY <1>6
  <2>. DEFINE row == ToolPart(e.tool, e.by, parts[i].call, e.n)
              R == {k \in 1..Len(parts) : Running(parts[k]) /\ parts[k].name = e.tool}
              K == {k \in 1..Len(parts) : parts[k].kind = "tool" /\ parts[k].by = e.by}
  <2>4. i \in 1..Len(parts) /\ i # 0 /\ e.tool \in Tools /\ e.by \in Nat
    BY <1>1, <1>9, <2>3 DEF Event
  <2>5. R = {i}
    <3>1. ASSUME NEW k \in 1..Len(parts), Running(parts[k]), parts[k].name = e.tool
          PROVE  k = i
      <4>1. k \in T
        BY <1>1, <3>1 DEF Running
      <4>2. PICK f \in Open(got) : parts[k].by = f.by /\ parts[k].name = f.tool
        BY <1>6, <3>1, <4>1
      <4>3. f = o
        BY <1>6, <2>1, <3>1, <4>2
      <4>. QED
        BY <1>6, <2>3, <4>1, <4>2, <4>3
    <3>. QED
      BY <2>1, <2>3, <2>4, <3>1
  <2>6. K = {i}
    BY <1>1, <1>6, <2>1, <2>3, <2>4
  <2>7. new = [parts EXCEPT ![i] = row]
    <3>1. Max(R) = i
      <4>1. R \in SUBSET (1..Len(parts)) /\ R # {}
        BY <2>5
      <4>. HIDE DEF R
      <4>2. Max(R) \in R
        BY <1>1, <4>1, Extremes
      <4>. QED
        BY <2>5, <4>2
    <3>2. new = AttachToolResult(parts, e.tool, e.n)
      BY <1>9 DEF Reduce
    <3>3. AttachToolResult(parts, e.tool, e.n) =
            IF (IF R # {} THEN Max(R) ELSE 0) = 0 THEN Append(parts, ToolPart(e.tool, Null, Null, e.n))
            ELSE ReplaceAt(parts, IF R # {} THEN Max(R) ELSE 0,
                           ToolPart(e.tool, parts[IF R # {} THEN Max(R) ELSE 0].by,
                                    parts[IF R # {} THEN Max(R) ELSE 0].call, e.n))
      BY DEF AttachToolResult, SelectLastInSeq
    <3>. HIDE DEF R, new
    <3>4. AttachToolResult(parts, e.tool, e.n)
            = ReplaceAt(parts, i, ToolPart(e.tool, parts[i].by, parts[i].call, e.n))
      BY <2>4, <2>5, <3>1, <3>3
    <3>. QED
      BY <2>1, <2>3, <3>2, <3>4 DEF ReplaceAt
  <2>8. Keep(parts, e) = [parts EXCEPT ![i] = row]
    <3>1. Min(K) = i
      <4>1. K \in SUBSET (1..Len(parts)) /\ K # {}
        BY <2>6
      <4>. HIDE DEF K
      <4>2. Min(K) \in K
        BY <1>1, <4>1, Extremes
      <4>. QED
        BY <2>6, <4>2
    <3>2. Keep(parts, e) = ReplaceAt(parts, IF K # {} THEN Min(K) ELSE 0,
            ToolPart(e.tool, e.by, parts[IF K # {} THEN Min(K) ELSE 0].call, e.n))
      BY <1>9 DEF Keep, SelectInSeq
    <3>. HIDE DEF K
    <3>. QED
      BY <2>6, <3>1, <3>2 DEF ReplaceAt
  <2>9. row \in Plain /\ row.kind = "tool" /\ ~Running(row) /\ row.by = e.by
    <3>1. parts[i].call \in Nat
      BY <1>1, <2>3, <2>4 DEF Plain, PartOf, Running, ToolRows
    <3>2. e.n # Null /\ e.n \in Nat
      BY <1>1, <2>1 DEF Null
    <3>. QED
      BY <2>4, <3>1, <3>2 DEF ToolPart, Plain, PartOf, Running, ToolRows
  <2>. HIDE DEF row, new, R, K
  <2>10. /\ new \in Seq(Plain) /\ DOMAIN new = DOMAIN parts
         /\ \A k \in 1..Len(parts) : new[k] = IF k = i THEN row ELSE parts[k]
    BY <1>1, <2>4, <2>7, <2>9, ExceptSeq, LenProperties
  <2>11. U = T /\ \A k \in T : new[k] = IF k = i THEN row ELSE parts[k]
    BY <1>1, <2>3, <2>9, <2>10
  <2>. HIDE DEF T, U
  <2>12. Paired(new, more)
    <3>1. \A k \in U : new[k].by = parts[k].by
      BY <2>1, <2>3, <2>9, <2>11
    <3>2. \A k \in U : new[k].by <= n + 1
      BY <1>4, <2>11, <3>1
    <3>3. \A f \in ToSet(more) : f.by <= n + 1
      BY <1>2, <1>3, <1>5, <2>1
    <3>4. \A k, j \in U : new[k].by = new[j].by => k = j
      BY <1>6, <2>11, <3>1
    <3>5. \A f \in Open(more) : \E k \in U :
            Running(new[k]) /\ new[k].by = f.by /\ new[k].name = f.tool
      <4> TAKE f \in Open(more)
      <4>1. f \in Open(got) /\ f # o
        BY <2>2
      <4>2. PICK k \in T : Running(parts[k]) /\ parts[k].by = f.by /\ parts[k].name = f.tool
        BY <1>6, <4>1
      <4>3. k # i
        BY <1>6, <2>3, <4>1, <4>2
      <4>. QED
        BY <2>11, <4>2, <4>3
    <3>6. \A k \in U : Running(new[k]) => \E f \in Open(more) :
            new[k].by = f.by /\ new[k].name = f.tool
      <4> TAKE k \in U
      <4> SUFFICES ASSUME Running(new[k])
                   PROVE  \E f \in Open(more) : new[k].by = f.by /\ new[k].name = f.tool
        OBVIOUS
      <4>1. k # i /\ k \in T /\ new[k] = parts[k]
        BY <2>9, <2>11
      <4>2. PICK f \in Open(got) : parts[k].by = f.by /\ parts[k].name = f.tool
        BY <1>6, <4>1
      <4>3. f # o
        BY <1>6, <2>3, <4>1, <4>2
      <4>. QED
        BY <2>2, <4>1, <4>2, <4>3
    <3>. QED
      BY <1>1, <1>6, <2>2, <3>2, <3>3, <3>4, <3>5, <3>6 DEF Paired, U
  <2>. QED
    BY <2>7, <2>8, <2>12 DEF more, new
<1>. QED
  BY <1>1, <1>7, <1>8, <1>9 DEF Event

-----------------------------------------------------------------------------
(* The log with what has arrived.                                          *)

(* The rows before the one a reply goes to, the branches it has already.   *)
Base(lg, t) == IF t.regen THEN Front(lg) ELSE lg
Others(lg, t) == IF t.regen THEN Append(Last(lg).others, Last(lg).content) ELSE <<>>
ReplyRow(lg, t) == [role |-> "assistant", content |-> Kept(t), others |-> Others(lg, t),
                    active |-> Len(Others(lg, t)) + 1]

LEMMA LastRow ==
  ASSUME NEW lg \in Seq(LogRow), lg # <<>>
  PROVE  /\ Len(lg) \in Nat \ {0} /\ Last(lg) = lg[Len(lg)] /\ Last(lg) \in LogRow
         /\ Front(lg) \in Seq(LogRow) /\ Len(Front(lg)) = Len(lg) - 1
         /\ \A k \in 1..Len(lg) - 1 : Front(lg)[k] = lg[k]
         /\ \A r \in LogRow : [lg EXCEPT ![Len(lg)] = r] = Append(Front(lg), r)
         /\ lg = Append(Front(lg), Last(lg))
<1>. DEFINE n == Len(lg)
<1>1. n \in Nat /\ n # 0 /\ DOMAIN lg = 1..n /\ n \in 1..n /\ n - 1 \in 0..n /\ n - 1 \in Nat
  BY EmptySeq, LenProperties
<1>2. Last(lg) = lg[n] /\ Last(lg) \in LogRow
  BY <1>1, ElementOfSeq DEF Last
<1>3. /\ Front(lg) \in Seq(LogRow) /\ Len(Front(lg)) = n - 1
      /\ \A k \in 1..n - 1 : Front(lg)[k] = lg[k]
  BY <1>1, Beginning DEF Front
<1>4. ASSUME NEW r \in LogRow PROVE [lg EXCEPT ![n] = r] = Append(Front(lg), r)
  <2>1. /\ [lg EXCEPT ![n] = r] \in Seq(LogRow) /\ Len([lg EXCEPT ![n] = r]) = n
        /\ \A k \in 1..n : [lg EXCEPT ![n] = r][k] = IF k = n THEN r ELSE lg[k]
    BY <1>1, <1>4, ExceptSeq
  <2>2. /\ Append(Front(lg), r) \in Seq(LogRow) /\ Len(Append(Front(lg), r)) = (n - 1) + 1
        /\ \A k \in 1..n - 1 : Append(Front(lg), r)[k] = Front(lg)[k]
        /\ Append(Front(lg), r)[(n - 1) + 1] = r
    BY <1>3, <1>4, AppendProperties
  <2>3. (n - 1) + 1 = n /\ \A k \in 1..n : k \in 1..n - 1 \/ k = n
    <3>1. n \in Nat
      BY <1>1
    <3>. QED
      BY ONLY <3>1
  <2>4. \A k \in 1..n : [lg EXCEPT ![n] = r][k] = Append(Front(lg), r)[k]
    <3> TAKE k \in 1..n
    <3>1. CASE k = n
      BY <2>1, <2>2, <2>3, <3>1
    <3>2. CASE k # n
      BY <1>3, <2>1, <2>2, <2>3, <3>2
    <3>. QED
      BY <3>1, <3>2
  <2>. QED
    BY <2>1, <2>2, <2>3, <2>4, SeqEqual
<1>5. lg = [lg EXCEPT ![n] = Last(lg)]
  BY <1>1, <1>2, LenProperties
<1>. QED
  BY <1>1, <1>2, <1>3, <1>4, <1>5

(* A row is its fields.                                                    *)
LEMMA SameRow ==
  ASSUME NEW r \in LogRow, NEW q \in LogRow, r.role = q.role, r.content = q.content,
         r.others = q.others, r.active = q.active
  PROVE  r = q
BY DEF LogRow

LEMMA KeptInForm ==
  ASSUME NEW lg \in Seq(LogRow), NEW t \in Reply, OfLast(lg, t)
  PROVE  /\ Base(lg, t) \in Seq(LogRow) /\ Others(lg, t) \in Branches
         /\ ReplyRow(lg, t) \in LogRow
         /\ KeptIn(lg, t) = Append(Base(lg, t), ReplyRow(lg, t))
<1>1. Kept(t) \in Seq(Part) /\ t.regen \in BOOLEAN
  BY KeptTyped, PlainIsPart DEF Reply
<1>2. CASE ~t.regen
  <2>1. Others(lg, t) = <<>> /\ Others(lg, t) \in Branches /\ Len(<<>>) = 0
    BY <1>2, EmptySeq DEF Others, Branches
  <2>2. ReplyRow(lg, t) = Row("assistant", Kept(t))
    BY <2>1 DEF ReplyRow, Row
  <2>3. KeptIn(lg, t) = Append(lg, Row("assistant", Kept(t)))
    BY <1>2 DEF KeptIn
  <2>4. Row("assistant", Kept(t)) \in LogRow
    BY <1>1, RowTyped DEF Roles
  <2>. QED
    BY <1>2, <2>1, <2>2, <2>3, <2>4 DEF Base
<1>3. CASE t.regen
  <2>. DEFINE n == Len(lg)
              I == {k \in 1..Len(lg) : lg[k].role = "assistant"}
              i == IF I # {} THEN Max(I) ELSE 0
  <2>1. /\ n \in Nat \ {0} /\ Last(lg) = lg[n] /\ Last(lg) \in LogRow
        /\ Last(lg).role = "assistant" /\ Front(lg) \in Seq(LogRow)
    BY <1>3, LastRow DEF OfLast
  <2>2. i = n
    <3>1. I \in SUBSET (1..n) /\ n \in I
      BY <2>1
    <3>. HIDE DEF I
    <3>2. Max(I) \in I /\ \A k \in I : k <= Max(I)
      BY <2>1, <3>1, Extremes
    <3>3. Max(I) \in 1..n /\ n <= Max(I) /\ I # {}
      BY <3>1, <3>2
    <3>. QED
      BY <2>1, <3>3
  <2>3. KeptIn(lg, t) =
          IF t.regen /\ i # 0
            THEN [lg EXCEPT ![i] = [lg[i] EXCEPT !.content = Kept(t),
                                      !.others = Append(@, lg[i].content),
                                      !.active = Len(lg[i].others) + 2]]
            ELSE Append(lg, Row("assistant", Kept(t)))
    BY DEF KeptIn, SelectLastInSeq, ReplaceAt
  <2>. HIDE DEF i
  <2>. DEFINE old == Last(lg)
              row == [old EXCEPT !.content = Kept(t), !.others = Append(@, old.content),
                                 !.active = Len(old.others) + 2]
  <2>4. KeptIn(lg, t) = [lg EXCEPT ![n] = row]
    BY <1>3, <2>1, <2>2, <2>3
  <2>5. old \in LogRow /\ old.role = "assistant"
    BY <2>1
  <2>. HIDE DEF old
  <2>6. old.others \in Seq(Seq(Part)) /\ old.content \in Seq(Part) /\ Len(old.others) \in Nat
    BY <2>5, LenProperties DEF LogRow, Branches
  <2>7. /\ Append(old.others, old.content) \in Seq(Seq(Part))
        /\ Len(Append(old.others, old.content)) = Len(old.others) + 1
    BY <2>6, AppendProperties
  <2>8. Others(lg, t) = Append(old.others, old.content)
    BY <1>3 DEF Others, old
  <2>9. Kept(t) \in Seq(Part) /\ Len(old.others) + 2 \in Nat
    BY <1>1, <2>6
  <2>10. Len(Others(lg, t)) + 1 = Len(old.others) + 2
    BY <2>6, <2>7, <2>8
  <2>11. /\ row \in LogRow /\ row.role = old.role /\ row.content = Kept(t)
         /\ row.others = Append(old.others, old.content) /\ row.active = Len(old.others) + 2
    BY <2>5, <2>7, <2>9 DEF LogRow, Branches
  <2>. HIDE DEF row
  <2>12. ReplyRow(lg, t) = row
    <3>1. /\ ReplyRow(lg, t).role = "assistant" /\ ReplyRow(lg, t).content = Kept(t)
          /\ ReplyRow(lg, t).others = Others(lg, t)
          /\ ReplyRow(lg, t).active = Len(Others(lg, t)) + 1
      BY DEF ReplyRow
    <3>2. ReplyRow(lg, t) \in LogRow
      BY <2>7, <2>8, <2>9, <2>10 DEF ReplyRow, LogRow, Roles, Branches
    <3>. QED
      BY <2>5, <2>8, <2>10, <2>11, <3>1, <3>2, SameRow
  <2>13. [lg EXCEPT ![n] = row] = Append(Front(lg), row)
    BY <1>3, <2>11, LastRow DEF OfLast
  <2>. QED
    BY <1>3, <2>1, <2>4, <2>7, <2>8, <2>11, <2>12, <2>13 DEF Base, Branches
<1>. QED
  BY <1>1, <1>2, <1>3

(* Read back, the reply is the last message, and its last branch is shown. *)
LEMMA ReplyReadBack ==
  ASSUME NEW lg \in Seq(LogRow), NEW t \in Reply, OfLast(lg, t)
  PROVE  LET old == FromLog(Base(lg, t))
             new == FromLog(KeptIn(lg, t))
             m   == new[Len(old) + 1]
         IN  /\ Len(old) \in Nat /\ DOMAIN new = 1..Len(old) + 1
             /\ \A k \in 1..Len(old) : new[k] = old[k]
             /\ m.role = "assistant" /\ m.branches = Append(Others(lg, t), Kept(t))
             /\ m.active = Len(Others(lg, t)) + 1
<1>. DEFINE base == Base(lg, t)
            row == ReplyRow(lg, t)
            r == FromRow(row, Len(base) + 1)
<1>1. /\ base \in Seq(LogRow) /\ row \in LogRow /\ KeptIn(lg, t) = Append(base, row)
      /\ row.role = "assistant" /\ row.content = Kept(t) /\ row.others = Others(lg, t)
      /\ row.active = Len(Others(lg, t)) + 1
  BY KeptInForm DEF ReplyRow
<1>. HIDE DEF base, row
<1>2. /\ r.role = "assistant" /\ r.branches = Append(Others(lg, t), Kept(t))
      /\ r.active = Len(Others(lg, t)) + 1 /\ Active(r) = Kept(t)
  BY <1>1, RowBranches
<1>3. Kept(t) \in Seq(Plain)
  BY KeptTyped DEF Reply
<1>4. ~IsSummary(r) /\ ~IsNotice(r)
  BY <1>2, <1>3, PlainLooks DEF IsSummary, IsNotice, Active
<1>5. /\ FromLog(base) \in Seq(Msg) /\ Len(FromLog(base)) \in Nat
      /\ FromLog(Append(base, row)) \in Seq(Msg)
      /\ Len(FromLog(Append(base, row))) = Len(FromLog(base)) + 1
      /\ \A k \in 1..Len(FromLog(base)) : FromLog(Append(base, row))[k] = FromLog(base)[k]
      /\ FromLog(Append(base, row))[Len(FromLog(base)) + 1] = Folded(r)
  BY <1>1, <1>4, FromLogGrows
<1>6. Folded(r) = r
  BY <1>4 DEF Folded
<1>7. DOMAIN FromLog(Append(base, row)) = 1..Len(FromLog(base)) + 1
  BY <1>5, LenProperties
<1>. QED
  BY <1>1, <1>2, <1>5, <1>6, <1>7 DEF base

-----------------------------------------------------------------------------
(* The compactor's marks stay apart.                                       *)

LEMMA MarksArePlainToSee ==
  /\ SummaryRow \in LogRow /\ NoticeRow \in LogRow
  /\ SummaryRow.role = "assistant" /\ NoticeRow.role = "user"
  /\ SummaryRow.others = <<>>
  /\ ~PlainRow(SummaryRow) /\ ~PlainRow(NoticeRow)
  /\ Looks(NoticeRow.content, "notice")
<1>1. Looks(SummaryRow.content, "summary") /\ Looks(NoticeRow.content, "notice")
  BY MarkLooks DEF SummaryRow, NoticeRow, Row
<1>2. ~PlainRow(SummaryRow) /\ ~PlainRow(NoticeRow)
  BY <1>1, PlainLooks DEF PlainRow
<1>3. SummaryRow.others = <<>>
  BY DEF SummaryRow, Row
<1>. QED
  BY <1>1, <1>2, <1>3, MarkRows

LEMMA MarkedGrows ==
  ASSUME NEW rows \in Seq(LogRow), WellMarked(rows), NEW row \in LogRow, PlainRow(row)
  PROVE  WellMarked(Append(rows, row))
<1>. DEFINE n == Len(rows)
            new == Append(rows, row)
<1>1. n \in Nat /\ DOMAIN rows = 1..n
  BY LenProperties
<1>2. /\ DOMAIN new = 1..n + 1 /\ new[n + 1] = row /\ \A k \in 1..n : new[k] = rows[k]
  <2>1. /\ new \in Seq(LogRow) /\ Len(new) = n + 1 /\ new[n + 1] = row
        /\ \A k \in 1..n : new[k] = rows[k]
    BY <1>1, AppendProperties
  <2>. QED
    BY <2>1, LenProperties
<1>3. \A k \in 1..n + 1 : k \in 1..n \/ k = n + 1
  BY <1>1
<1>4. 1..n \subseteq 1..n + 1
  BY <1>1
<1>5. row # SummaryRow
  BY MarksArePlainToSee
<1>. HIDE DEF new, n
<1>6. Marked(new)
  BY <1>1, <1>2, <1>3 DEF WellMarked, Marked
<1>7. SummaryIsBehind(new)
  <2> SUFFICES ASSUME NEW k \in DOMAIN new, new[k] = SummaryRow
               PROVE  \E j \in DOMAIN new : j > k /\ new[j].role = "assistant"
    BY DEF SummaryIsBehind
  <2>1. k \in 1..n /\ rows[k] = SummaryRow
    BY <1>2, <1>3, <1>5
  <2>2. PICK j \in DOMAIN rows : j > k /\ rows[j].role = "assistant"
    BY <1>1, <2>1 DEF WellMarked, SummaryIsBehind
  <2>. QED
    BY <1>1, <1>2, <1>4, <2>2
<1>. QED
  BY <1>6, <1>7 DEF WellMarked, new

LEMMA MarkedWhenKept ==
  ASSUME NEW rows \in Seq(LogRow), WellMarked(rows), NEW t \in Reply
  PROVE  WellMarked(KeptIn(rows, t))
<1>. DEFINE I == {k \in 1..Len(rows) : rows[k].role = "assistant"}
            i == IF I # {} THEN Max(I) ELSE 0
            row == [rows[i] EXCEPT !.content = Kept(t), !.others = Append(@, rows[i].content),
                                   !.active = Len(rows[i].others) + 2]
<1>1. Kept(t) \in Seq(Plain) /\ Kept(t) \in Seq(Part)
  BY KeptTyped, PlainIsPart DEF Reply
<1>2. KeptIn(rows, t) = IF t.regen /\ i # 0 THEN [rows EXCEPT ![i] = row]
                                           ELSE Append(rows, Row("assistant", Kept(t)))
  BY DEF KeptIn, SelectLastInSeq, ReplaceAt
<1>3. CASE ~(t.regen /\ i # 0)
  <2>1. Row("assistant", Kept(t)) \in LogRow
    BY <1>1, RowTyped DEF Roles
  <2>2. PlainRow(Row("assistant", Kept(t)))
    <3>1. <<>> \in Seq(Seq(Plain))
      BY EmptySeq
    <3>. QED
      BY <1>1, <3>1 DEF PlainRow, Row
  <2>. QED
    BY <1>2, <1>3, <2>1, <2>2, MarkedGrows
<1>4. CASE t.regen /\ i # 0
  <2>1. Len(rows) \in Nat /\ I \in SUBSET (1..Len(rows)) /\ I # {} /\ i = Max(I)
    BY <1>4, LenProperties
  <2>2. i \in I /\ \A k \in I : k <= i
    BY <2>1, Extremes
  <2>. HIDE DEF i
  <2>3. /\ i \in 1..Len(rows) /\ rows[i].role = "assistant" /\ DOMAIN rows = 1..Len(rows)
        /\ \A k \in 1..Len(rows) : rows[k].role = "assistant" => k <= i
    BY <2>2, LenProperties
  <2>4. rows[i] \in LogRow
    BY <2>3, ElementOfSeq
  <2>5. rows[i] # SummaryRow
    <3> SUFFICES ASSUME rows[i] = SummaryRow PROVE FALSE
      OBVIOUS
    <3>1. PICK j \in 1..Len(rows) : j > i /\ rows[j].role = "assistant"
      BY <2>3 DEF WellMarked, SummaryIsBehind
    <3>. QED
      BY <2>1, <2>3, <3>1
  <2>6. PlainRow(rows[i])
    <3>1. rows[i] # NoticeRow
      BY <2>3, MarksArePlainToSee
    <3>. QED
      BY <2>3, <2>5, <3>1 DEF WellMarked, Marked
  <2>7. /\ Append(rows[i].others, rows[i].content) \in Seq(Seq(Plain))
        /\ Append(rows[i].others, rows[i].content) # <<>>
    <3>. DEFINE a == rows[i].others
                b == rows[i].content
    <3>1. a \in Seq(Seq(Plain)) /\ b \in Seq(Plain)
      BY <2>6 DEF PlainRow
    <3>. HIDE DEF a, b
    <3>2. Append(a, b) \in Seq(Seq(Plain)) /\ Append(a, b) # <<>>
      BY <3>1, AppendProperties
    <3>. QED
      BY <3>2 DEF a, b
  <2>8. /\ row.content = Kept(t) /\ row.others = Append(rows[i].others, rows[i].content)
        /\ row.role = "assistant"
    BY <2>3, <2>4 DEF LogRow
  <2>9. PlainRow(row) /\ row # SummaryRow
    BY <1>1, <2>7, <2>8, MarksArePlainToSee DEF PlainRow
  <2>. HIDE DEF row
  <2>. DEFINE new == [rows EXCEPT ![i] = row]
  <2>10. DOMAIN new = 1..Len(rows) /\ \A k \in 1..Len(rows) : new[k] = IF k = i THEN row ELSE rows[k]
    BY <2>3
  <2>. HIDE DEF new
  <2>11. Marked(new)
    BY <2>3, <2>9, <2>10 DEF WellMarked, Marked
  <2>12. SummaryIsBehind(new)
    <3> SUFFICES ASSUME NEW k \in DOMAIN new, new[k] = SummaryRow
                 PROVE  \E j \in DOMAIN new : j > k /\ new[j].role = "assistant"
      BY DEF SummaryIsBehind
    <3>1. k \in 1..Len(rows) /\ rows[k] = SummaryRow
      BY <2>9, <2>10
    <3>2. PICK j \in 1..Len(rows) : j > k /\ rows[j].role = "assistant"
      BY <2>3, <3>1 DEF WellMarked, SummaryIsBehind
    <3>. QED
      BY <2>8, <2>10, <3>2
  <2>. QED
    BY <1>2, <1>4, <2>11, <2>12 DEF WellMarked, new
<1>. QED
  BY <1>3, <1>4

LEMMA MarkedWhenCompacted ==
  ASSUME NEW rows \in Seq(LogRow), WellMarked(rows), Len(rows) > 2,
         rows[Len(rows) - 1].role = "user", rows[Len(rows)].role = "assistant",
         \A i \in DOMAIN rows : ~Looks(rows[i].content, "notice")
  PROVE  WellMarked(<<SummaryRow>> \o SubSeq(rows, Len(rows) - 1, Len(rows)) \o <<NoticeRow>>)
<1>. DEFINE n == Len(rows)
            new == <<SummaryRow>> \o SubSeq(rows, n - 1, n) \o <<NoticeRow>>
<1>1. n \in Nat /\ n > 2 /\ DOMAIN rows = 1..n /\ n \in 1..n /\ n - 1 \in 1..n /\ n # 1
  BY LenProperties
<1>2. /\ new \in Seq(LogRow) /\ Len(new) = 4 /\ new[1] = SummaryRow
      /\ new[2] = rows[n - 1] /\ new[3] = rows[n] /\ new[4] = NoticeRow
  BY MarksArePlainToSee, LastTwoFramed
<1>3. DOMAIN new = 1..4 /\ \A k \in 1..4 : k = 1 \/ k = 2 \/ k = 3 \/ k = 4
  BY <1>2, LenProperties
<1>4. \A k \in 1..n : rows[k] # NoticeRow
  BY <1>1, MarksArePlainToSee
<1>5. PlainRow(rows[n - 1])
  BY <1>1, <1>4, MarksArePlainToSee DEF WellMarked, Marked
<1>6. PlainRow(rows[n])
  BY <1>1, <1>4 DEF WellMarked, Marked
<1>. HIDE DEF new, n
<1>7. Marked(new)
  BY <1>2, <1>3, <1>5, <1>6 DEF Marked
<1>8. SummaryIsBehind(new)
  <2>1. new[3].role = "assistant" /\ 3 > 1 /\ 3 \in DOMAIN new
    BY <1>2, <1>3 DEF n
  <2>2. \A k \in DOMAIN new : new[k] = SummaryRow => k = 1
    BY <1>2, <1>3, <1>5, <1>6, MarksArePlainToSee
  <2>. QED
    BY <2>1, <2>2 DEF SummaryIsBehind
<1>. QED
  BY <1>7, <1>8 DEF WellMarked, new, n

LEMMA MarkedInPart ==
  ASSUME NEW rows \in Seq(LogRow), Marked(rows)
  PROVE  Marked(Data(rows)[1])
<1>. DEFINE m == IF Len(rows) < Limit THEN Len(rows) ELSE Limit
<1>1. Len(rows) \in Nat /\ DOMAIN rows = 1..Len(rows) /\ m \in 0..Len(rows)
  BY ChatPageAssumption, LenProperties
<1>2. Data(rows)[1] = SubSeq(rows, 1, m)
  BY DEF Data
<1>. HIDE DEF m
<1>3. /\ SubSeq(rows, 1, m) \in Seq(LogRow) /\ Len(SubSeq(rows, 1, m)) = m
      /\ \A k \in 1..m : SubSeq(rows, 1, m)[k] = rows[k]
  BY <1>1, Beginning
<1>4. DOMAIN SubSeq(rows, 1, m) = 1..m /\ 1..m \subseteq 1..Len(rows)
  BY <1>1, <1>3, LenProperties
<1>. QED
  BY <1>1, <1>2, <1>3, <1>4 DEF Marked

-----------------------------------------------------------------------------
(* What every action does to the rest of the invariant.                    *)

LEMMA PromptIsPlain ==
  ASSUME NEW n \in Nat
  PROVE  /\ Prompt(n) \in Seq(Plain) /\ Row("user", Prompt(n)) \in LogRow
         /\ PlainRow(Row("user", Prompt(n)))
<1>1. Prompt(n) \in Seq(Plain)
  BY DEF Prompt, TextPart, Word, Plain, PartOf, AWord, Leak
<1>2. <<>> \in Seq(Seq(Plain)) /\ Prompt(n) \in Seq(Part)
  BY <1>1, EmptySeq, PlainIsPart
<1>3. Row("user", Prompt(n)) \in LogRow
  BY <1>2, RowTyped DEF Roles
<1>4. PlainRow(Row("user", Prompt(n)))
  BY <1>1, <1>2 DEF PlainRow, Row
<1>. QED
  BY <1>1, <1>3, <1>4

LEMMA CleanInPart ==
  ASSUME Turns, Clean(messages), NEW m \in 0..Len(messages)
  PROVE  Clean(SubSeq(messages, 1, m))
<1>1. messages \in Seq(Msg) /\ Len(messages) \in Nat /\ DOMAIN messages = 1..Len(messages)
  BY LenProperties DEF Turns, Sound
<1>2. /\ SubSeq(messages, 1, m) \in Seq(Msg) /\ Len(SubSeq(messages, 1, m)) = m
      /\ \A k \in 1..m : SubSeq(messages, 1, m)[k] = messages[k]
  BY <1>1, Beginning
<1>3. DOMAIN SubSeq(messages, 1, m) = 1..m /\ 1..m \subseteq 1..Len(messages)
  BY <1>1, <1>2, LenProperties
<1>. QED
  BY <1>1, <1>2, <1>3 DEF Clean

(* A reply that begins has nothing to pair.                                *)
LEMMA KeptAtFirst ==
  ASSUME stream'.got = <<>>
  PROVE  KeptAsShown'
BY PairedAtFirst, BuiltOfNothing, KeepOfNothing DEF KeptAsShown, Kept

LEMMA MarksWhenSending ==
  ASSUME ChatTypes, NEW before, Sound(before), Numbered(before, sent), Clean(before),
         WellMarked(log), SendNew(before)
  PROVE  WellMarked(log') /\ Clean(messages') /\ KeptAsShown'
<1>1. sent + 1 \in Nat
  BY ChatPageAssumption DEF ChatTypes
<1>2. /\ DOMAIN messages' = 1..Len(before) + 2
      /\ \A i \in DOMAIN before : messages'[i] = before[i]
      /\ messages'[Len(before) + 1] = Message(sent + 1, "user", Prompt(sent + 1))
      /\ messages'[Len(before) + 2] = Message(sent + 1, "assistant", <<>>)
      /\ stream'.got = <<>> /\ log' = Append(log, Row("user", Prompt(sent + 1)))
  BY SendingNew
<1>3. WellMarked(log')
  BY <1>1, <1>2, PromptIsPlain, MarkedGrows DEF ChatTypes
<1>4. /\ Message(sent + 1, "user", Prompt(sent + 1)).branches \in Seq(Seq(Plain))
      /\ Message(sent + 1, "assistant", <<>>).branches \in Seq(Seq(Plain))
  <2>1. <<>> \in Seq(Plain) /\ Prompt(sent + 1) \in Seq(Plain)
    BY <1>1, PromptIsPlain, EmptySeq
  <2>. QED
    BY <2>1 DEF Message
<1>5. Clean(messages')
  <2>1. Len(before) \in Nat /\ DOMAIN before = 1..Len(before)
    BY LenProperties DEF Sound
  <2>2. \A i \in 1..Len(before) + 2 :
          i \in 1..Len(before) \/ i = Len(before) + 1 \/ i = Len(before) + 2
    BY <2>1
  <2>. QED
    BY <1>2, <1>4, <2>1, <2>2 DEF Clean
<1>. QED
  BY <1>2, <1>3, <1>5, KeptAtFirst

LEMMA FetchMore ==
  ASSUME ReloadInv, Fetch
  PROVE  More'
<1>1. log \in Seq(LogRow) /\ Marked(log)
  BY DEF ReloadInv, More, ChatInv, ChatTypes, Marks, WellMarked
<1>2. Marked(cache'[1])
  BY <1>1, MarkedInPart DEF Fetch
<1>3. Marks'
  BY <1>2 DEF ReloadInv, More, Marks, Fetch
<1>. QED
  BY <1>3 DEF ReloadInv, More, Fetch, KeptAsShown, InStep, OrphanDiverges

LEMMA HydrateMore ==
  ASSUME ReloadInv, Hydrate
  PROVE  More'
<1>1. /\ ChatTypes /\ Reading /\ More /\ cache # NoData /\ hydrated' = TRUE
      /\ UNCHANGED <<status, cache, stream, log, orphan, sent, mounts, ops>>
  BY DEF ReloadInv, ChatInv, Hydrate
<1>2. CASE messages # <<>> \/ Streaming
  <2>1. UNCHANGED messages /\ diverged' = (diverged \/ mounts > 1 \/ orphan.on)
    BY <1>2 DEF Hydrate
  <2>2. Marks' /\ KeptAsShown' /\ OrphanDiverges'
    BY <1>1, <2>1 DEF More, Marks, KeptAsShown, OrphanDiverges
  <2>3. ~diverged' => mounts = 1
    <3>1. mounts \in Nat /\ mounts >= 1
      BY <1>1, ChatPageAssumption DEF ChatTypes
    <3>2. CASE mounts > 1
      BY <2>1, <3>2
    <3>3. CASE ~(mounts > 1)
      BY <3>1, <3>3
    <3>. QED
      BY <3>2, <3>3
  <2>4. InStep'
    BY <1>1, <2>1, <2>3 DEF More, InStep
  <2>. QED
    BY <2>2, <2>4 DEF More
<1>3. CASE ~(messages # <<>> \/ Streaming)
  <2>1. /\ messages = <<>> /\ ~stream.on
        /\ messages' = IF cache[1] # <<>> THEN FromLog(cache[1]) ELSE messages
        /\ diverged' = (diverged \/ cache # <<log>> \/ orphan.on)
    BY <1>1, <1>3 DEF Hydrate, Reading
  <2>2. cache[1] \in Seq(LogRow) /\ Marked(cache[1])
    BY <1>1 DEF ChatTypes, Answered, More, Marks
  <2>3. messages' = FromLog(cache[1])
    BY <2>1, FromLogOfNothing
  <2>4. Clean(messages')
    BY <2>2, <2>3, FromLogClean
  <2>5. Marks' /\ KeptAsShown' /\ OrphanDiverges'
    BY <1>1, <2>1, <2>4 DEF More, Marks, KeptAsShown, OrphanDiverges
  <2>6. ~diverged' => messages' = FromLog(log)
    <3>1. CASE cache = <<log>>
      BY <2>3, <3>1
    <3>2. CASE cache # <<log>>
      BY <2>1, <3>2
    <3>. QED
      BY <3>1, <3>2
  <2>7. InStep'
    BY <1>1, <2>1, <2>6 DEF InStep, Agrees, Like
  <2>. QED
    BY <2>5, <2>7 DEF More
<1>. QED
  BY <1>2, <1>3

(* The new turn is the last one, on the page and in the log.               *)
LEMMA SubmitMore ==
  ASSUME ReloadInv, Submit
  PROVE  More'
<1>. DEFINE n == Len(messages)
            row == Row("user", Prompt(sent + 1))
            old == FromLog(log')
            new == FromLog(KeptIn(log', stream'))
<1>1. /\ ChatTypes /\ Turns /\ Reading /\ More /\ SendNew(messages) /\ ~stream.on
      /\ UNCHANGED <<hydrated, cache, orphan, mounts, ops, diverged>>
  BY DEF ReloadInv, ChatInv, Submit, Reading
<1>2. /\ DOMAIN messages' = 1..n + 2 /\ Len(messages') = n + 2
      /\ \A i \in DOMAIN messages : messages'[i] = messages[i]
      /\ messages'[n + 1] = Message(sent + 1, "user", Prompt(sent + 1))
      /\ messages'[n + 2] = Message(sent + 1, "assistant", <<>>)
      /\ stream' \in Reply /\ stream'.on /\ ~stream'.regen /\ stream'.got = <<>>
      /\ stream'.id = <<"msg", sent + 1, "assistant">>
      /\ log' = Append(log, row) /\ log' \in Seq(LogRow)
  BY <1>1, SendingNew DEF Turns
<1>3. WellMarked(log') /\ Clean(messages') /\ KeptAsShown'
  BY <1>1, MarksWhenSending DEF More, Marks, Turns
<1>4. Marks' /\ OrphanDiverges'
  BY <1>1, <1>3 DEF More, Marks, OrphanDiverges
<1>5. ASSUME ~diverged, hydrated \/ mounts = 1
      PROVE  Agrees(messages', log', stream')
  <2>1. Like(messages, FromLog(log))
    BY <1>1, <1>5 DEF More, InStep, Agrees
  <2>2. sent + 1 \in Nat
    BY <1>1, ChatPageAssumption DEF ChatTypes
  <2>3. row \in LogRow /\ PlainRow(row) /\ row.role = "user" /\ row.content = Prompt(sent + 1)
    BY <2>2, PromptIsPlain DEF Row
  <2>. HIDE DEF row
  <2>4. /\ ~IsSummary(FromRow(row, Len(log) + 1)) /\ ~IsNotice(FromRow(row, Len(log) + 1))
        /\ FromRow(row, Len(log) + 1).role = "user"
        /\ FromRow(row, Len(log) + 1).branches = <<Prompt(sent + 1)>>
        /\ FromRow(row, Len(log) + 1).active = 1
    BY <2>3, PlainRowMarks, RowBranches
  <2>5. /\ Len(FromLog(log)) \in Nat /\ FromLog(log) \in Seq(Msg)
        /\ Len(old) = Len(FromLog(log)) + 1
        /\ \A k \in 1..Len(FromLog(log)) : old[k] = FromLog(log)[k]
        /\ old[Len(FromLog(log)) + 1] = FromRow(row, Len(log) + 1)
    BY <1>1, <1>2, <2>3, <2>4, FromLogGrows DEF ChatTypes, Folded
  <2>6. /\ DOMAIN new = 1..Len(old) + 1 /\ \A k \in 1..Len(old) : new[k] = old[k]
        /\ new[Len(old) + 1].role = "assistant"
        /\ new[Len(old) + 1].branches = Append(<<>>, <<>>)
        /\ new[Len(old) + 1].active = Len(<<>>) + 1
    <3>1. OfLast(log', stream') /\ Base(log', stream') = log' /\ Others(log', stream') = <<>>
          /\ Kept(stream') = <<>>
      BY <1>2, KeepOfNothing DEF OfLast, Base, Others, Kept
    <3>2. /\ DOMAIN new = 1..Len(FromLog(Base(log', stream'))) + 1
          /\ \A k \in 1..Len(FromLog(Base(log', stream'))) :
               new[k] = FromLog(Base(log', stream'))[k]
          /\ new[Len(FromLog(Base(log', stream'))) + 1].role = "assistant"
          /\ new[Len(FromLog(Base(log', stream'))) + 1].branches
               = Append(Others(log', stream'), Kept(stream'))
          /\ new[Len(FromLog(Base(log', stream'))) + 1].active = Len(Others(log', stream')) + 1
      BY <1>2, <3>1, ReplyReadBack
    <3>. QED
      BY <3>1, <3>2
  <2>7. Append(<<>>, <<>>) = << <<>> >> /\ Len(<<>>) + 1 = 1
    BY AppendToNone
  <2>. HIDE DEF old, new
  <2>8. n \in Nat /\ DOMAIN messages = 1..n /\ Len(FromLog(log)) = n
        /\ \A k \in 1..n : /\ messages[k].role = FromLog(log)[k].role
                           /\ messages[k].active = FromLog(log)[k].active
                           /\ messages[k].branches = FromLog(log)[k].branches
    <3>1. DOMAIN messages = 1..n /\ n \in Nat
      BY <1>1, LenProperties DEF Turns, Sound
    <3>2. DOMAIN FromLog(log) = 1..Len(FromLog(log))
      BY <2>5, LenProperties
    <3>3. 1..Len(FromLog(log)) = 1..n
      BY <2>1, <3>1, <3>2 DEF Like
    <3>4. Len(FromLog(log)) = n
      BY <2>5, <3>1, <3>3
    <3>. QED
      BY <2>1, <3>1, <3>4 DEF Like
  <2>9. /\ messages'[n + 1].role = "user" /\ messages'[n + 1].active = 1
        /\ messages'[n + 1].branches = <<Prompt(sent + 1)>>
        /\ messages'[n + 2].role = "assistant" /\ messages'[n + 2].active = 1
        /\ messages'[n + 2].branches = << <<>> >>
        /\ messages'[n + 2].id = <<"msg", sent + 1, "assistant">>
    BY <1>2 DEF Message
  <2>10. Len(old) = n + 1 /\ (n + 1) + 1 = n + 2
    BY <2>5, <2>8
  <2>11. /\ new[n + 1].role = "user" /\ new[n + 1].active = 1
         /\ new[n + 1].branches = <<Prompt(sent + 1)>>
         /\ new[n + 2].role = "assistant" /\ new[n + 2].active = 1
         /\ new[n + 2].branches = << <<>> >>
         /\ DOMAIN new = 1..n + 2
    <3>1. n + 1 \in 1..n + 1
      BY <2>8
    <3>. QED
      BY <2>4, <2>5, <2>6, <2>7, <2>8, <2>10, <3>1
  <2>12. \A k \in 1..n : new[k] = FromLog(log)[k] /\ messages'[k] = messages[k]
    <3>1. 1..n \subseteq 1..n + 1
      BY <2>8
    <3>. QED
      BY <1>2, <2>5, <2>6, <2>8, <2>10, <3>1
  <2>13. \A k \in 1..n + 2 : k \in 1..n \/ k = n + 1 \/ k = n + 2
    BY <2>8
  <2>14. Like(messages', new)
    <3>. SUFFICES ASSUME NEW k \in 1..n + 2
                  PROVE  /\ messages'[k].role = new[k].role
                         /\ messages'[k].active = new[k].active
                         /\ messages'[k].branches = new[k].branches
      BY <1>2, <2>11 DEF Like
    <3>1. CASE k \in 1..n
      BY <2>8, <2>12, <3>1
    <3>2. CASE k = n + 1
      BY <2>9, <2>11, <3>2
    <3>3. CASE k = n + 2
      BY <2>9, <2>11, <3>3
    <3>. QED
      BY <2>13, <3>1, <3>2, <3>3
  <2>15. messages' # <<>>
    <3>1. n + 2 \in DOMAIN messages'
      BY <1>2, <2>8
    <3>. QED
      BY <3>1
  <2>16. messages'[Len(messages')].id = stream'.id
    BY <1>2, <2>9
  <2>. QED
    BY <1>2, <2>14, <2>15, <2>16 DEF Agrees, OfLast, new
<1>6. InStep'
  BY <1>1, <1>5 DEF InStep
<1>. QED
  BY <1>3, <1>4, <1>6 DEF More

LEMMA RetryMore ==
  ASSUME ReloadInv, NEW i \in DOMAIN messages, Retry(i)
  PROVE  More'
<1>. DEFINE before == SubSeq(messages, 1, i - 1)
<1>1. /\ ChatTypes /\ Turns /\ More /\ SendNew(before) /\ diverged' = TRUE
      /\ UNCHANGED <<hydrated, cache, orphan, mounts>>
  BY DEF ReloadInv, ChatInv, Retry
<1>2. i - 1 \in 0..Len(messages)
  BY <1>1, LenProperties DEF Turns, Sound
<1>3. Sound(before) /\ Numbered(before, sent) /\ Clean(before)
  BY <1>1, <1>2, BeginningIsSound, CleanInPart DEF More, Marks
<1>. HIDE DEF before
<1>4. WellMarked(log') /\ Clean(messages') /\ KeptAsShown'
  BY <1>1, <1>3, MarksWhenSending DEF More, Marks
<1>5. Marks' /\ InStep' /\ OrphanDiverges'
  BY <1>1, <1>4 DEF More, Marks, InStep, OrphanDiverges
<1>. QED
  BY <1>4, <1>5 DEF More

LEMMA EditMore ==
  ASSUME ReloadInv, NEW i \in DOMAIN messages, Edit(i)
  PROVE  More'
<1>1. /\ Turns /\ More /\ messages' = SubSeq(messages, 1, i - 1) /\ diverged' = TRUE
      /\ UNCHANGED <<status, hydrated, cache, stream, log, orphan, sent, mounts>>
  BY DEF ReloadInv, ChatInv, Edit
<1>2. i - 1 \in 0..Len(messages)
  BY <1>1, LenProperties DEF Turns, Sound
<1>3. Clean(messages')
  BY <1>1, <1>2, CleanInPart DEF More, Marks
<1>. QED
  BY <1>1, <1>3 DEF More, Marks, KeptAsShown, InStep, OrphanDiverges

LEMMA SwitchBranchMore ==
  ASSUME ReloadInv, NEW i \in DOMAIN messages, SwitchBranch(i)
  PROVE  More'
<1>. DEFINE a == (messages[i].active % Len(messages[i].branches)) + 1
<1>1. /\ Turns /\ More /\ messages' = [messages EXCEPT ![i].active = a] /\ diverged' = TRUE
      /\ UNCHANGED <<status, hydrated, cache, stream, log, orphan, sent, mounts>>
  BY DEF ReloadInv, ChatInv, SwitchBranch
<1>. HIDE DEF a
<1>2. \A k \in DOMAIN messages : messages[k] \in Msg
  BY <1>1, MessagesAreIndexed DEF Turns, Sound
<1>3. /\ DOMAIN messages' = DOMAIN messages
      /\ \A k \in DOMAIN messages : /\ messages'[k].role = messages[k].role
                                    /\ messages'[k].branches = messages[k].branches
  BY <1>1, <1>2 DEF Msg
<1>4. Clean(messages')
  BY <1>1, <1>3 DEF More, Marks, Clean
<1>. QED
  BY <1>1, <1>4 DEF More, Marks, KeptAsShown, InStep, OrphanDiverges

(* A new branch is empty.                                                  *)
LEMMA CleanWhenSendingAgain ==
  ASSUME ChatTypes, Turns, NEW i \in DOMAIN messages,
         NEW before, before = [k \in DOMAIN messages |-> before[k]],
         \A k \in DOMAIN messages :
           before[k] \in Msg /\ Shows(before[k]) /\ before[k].id = messages[k].id,
         Clean(before), SendAgain(i, before)
  PROVE  Clean(messages')
<1>1. /\ DOMAIN messages' = DOMAIN messages
      /\ \A k \in DOMAIN messages \ {i} : messages'[k] = before[k]
      /\ messages'[i].role = before[i].role
      /\ messages'[i].branches = Append(before[i].branches, <<>>)
  BY SendingAgain
<1>2. before[i].role # "system" => Append(before[i].branches, <<>>) \in Seq(Seq(Plain))
  <2> SUFFICES ASSUME before[i].role # "system"
               PROVE  Append(before[i].branches, <<>>) \in Seq(Seq(Plain))
    OBVIOUS
  <2>1. before[i].branches \in Seq(Seq(Plain)) /\ <<>> \in Seq(Plain)
    BY EmptySeq DEF Clean
  <2>. QED
    BY <2>1, AppendProperties
<1>. QED
  BY <1>1, <1>2 DEF Clean

LEMMA RetryAfterErrorMore ==
  ASSUME ReloadInv, NEW i \in DOMAIN messages, RetryAfterError(i)
  PROVE  More'
<1>. DEFINE m == messages[i]
            b == [m.branches EXCEPT ![m.active] = <<>>]
            cleared == [messages EXCEPT ![i].branches[messages[i].active] = <<>>,
                                        ![i].failed = FALSE]
<1>1. /\ ChatTypes /\ Turns /\ More /\ Active(m) = <<>> /\ diverged' = TRUE
      /\ UNCHANGED <<hydrated, cache, orphan, mounts>>
  BY DEF ReloadInv, ChatInv, RetryAfterError, RetryOffered
<1>2. \A k \in DOMAIN messages : messages[k] \in Msg /\ Shows(messages[k])
  BY <1>1, MessagesAreIndexed DEF Turns, Sound
<1>3. b = m.branches
  <2>1. m.branches \in Seq(Seq(Part)) /\ m.active \in DOMAIN m.branches /\ m.branches[m.active] = <<>>
    BY <1>1, <1>2 DEF Msg, Branches, Shows, Active
  <2>. QED
    BY <2>1, LenProperties
<1>4. /\ cleared = [k \in DOMAIN messages |-> cleared[k]]
      /\ \A k \in DOMAIN messages :
           cleared[k] = IF k = i THEN [m EXCEPT !.branches = b, !.failed = FALSE] ELSE messages[k]
  <2>1. messages[i] \in Msg
    BY <1>2
  <2>2. cleared = [messages EXCEPT ![i] = [m EXCEPT !.branches = b, !.failed = FALSE]]
    BY <2>1 DEF Msg
  <2>3. messages = [k \in DOMAIN messages |-> messages[k]]
    BY <1>1, LenProperties DEF Turns, Sound
  <2>. HIDE DEF cleared, b, m
  <2>. QED
    BY <2>2, <2>3
<1>5. /\ [m EXCEPT !.branches = b, !.failed = FALSE] \in Msg
      /\ [m EXCEPT !.branches = b, !.failed = FALSE].id = m.id
      /\ [m EXCEPT !.branches = b, !.failed = FALSE].role = m.role
      /\ [m EXCEPT !.branches = b, !.failed = FALSE].active = m.active
      /\ [m EXCEPT !.branches = b, !.failed = FALSE].branches = m.branches
  BY <1>2, <1>3 DEF Msg
<1>. HIDE DEF cleared, b
<1>6. \A k \in DOMAIN messages :
        /\ cleared[k] \in Msg /\ Shows(cleared[k]) /\ cleared[k].id = messages[k].id
        /\ cleared[k].role = messages[k].role /\ cleared[k].branches = messages[k].branches
  BY <1>2, <1>4, <1>5 DEF Shows
<1>7. Clean(cleared)
  <2>1. DOMAIN cleared = DOMAIN messages
    BY <1>4
  <2>. QED
    BY <1>1, <1>6, <2>1 DEF Clean, More, Marks
<1>8. CASE Streaming
  <2>1. messages' = cleared /\ UNCHANGED <<status, stream, sent, log>>
    BY <1>8 DEF RetryAfterError, cleared
  <2>. QED
    BY <1>1, <1>7, <2>1 DEF More, Marks, KeptAsShown, InStep, OrphanDiverges
<1>9. CASE ~Streaming
  <2>1. SendAgain(i, cleared)
    BY <1>9 DEF RetryAfterError, cleared
  <2>2. Clean(messages')
    BY <1>1, <1>4, <1>6, <1>7, <2>1, CleanWhenSendingAgain
  <2>3. stream'.got = <<>> /\ log' = log
    BY <1>1, <1>4, <1>6, <2>1, SendingAgain
  <2>. QED
    BY <1>1, <2>2, <2>3, KeptAtFirst DEF More, Marks, InStep, OrphanDiverges
<1>. QED
  BY <1>8, <1>9

(* The last reply of the page is the last row of the log.                  *)
LEMMA LastReply ==
  ASSUME NEW lg \in Seq(LogRow), WellMarked(lg), NEW ms \in Seq(Msg), ms # <<>>,
         ms[Len(ms)].role = "assistant", Like(ms, FromLog(lg))
  PROVE  /\ lg # <<>> /\ Last(lg).role = "assistant" /\ Front(lg) \in Seq(LogRow)
         /\ Len(FromLog(Front(lg))) + 1 = Len(ms)
         /\ \A k \in 1..Len(ms) - 1 : FromLog(Front(lg))[k] = FromLog(lg)[k]
         /\ ms[Len(ms)].branches = Append(Last(lg).others, Last(lg).content)
<1>. DEFINE n == Len(ms)
            front == Front(lg)
            row == Last(lg)
            r == FromRow(row, Len(front) + 1)
<1>1. n \in Nat /\ n >= 1 /\ DOMAIN ms = 1..n
  BY EmptySeq, LenProperties
<1>2. lg # <<>>
  <2> SUFFICES ASSUME lg = <<>> PROVE FALSE
    OBVIOUS
  <2>1. DOMAIN FromLog(lg) = {}
    BY FromLogOfNothing
  <2>. QED
    BY <1>1, <2>1 DEF Like
<1>3. /\ front \in Seq(LogRow) /\ row \in LogRow /\ lg = Append(front, row)
      /\ Len(lg) \in Nat \ {0} /\ row = lg[Len(lg)] /\ DOMAIN lg = 1..Len(lg)
      /\ Len(lg) \in 1..Len(lg)
  BY <1>2, LastRow, LenProperties
<1>4. row # SummaryRow
  <2> SUFFICES ASSUME row = SummaryRow PROVE FALSE
    OBVIOUS
  <2>1. PICK j \in 1..Len(lg) : j > Len(lg)
    BY <1>3 DEF WellMarked, SummaryIsBehind
  <2>. QED
    BY <1>3, <2>1
<1>5. ~IsSummary(r)
  <2>1. PlainRow(row) \/ row = NoticeRow
    BY <1>3, <1>4 DEF WellMarked, Marked
  <2>. QED
    BY <1>3, <2>1, PlainRowMarks, MarkRows
<1>. HIDE DEF front, row
<1>6. /\ FromLog(front) \in Seq(Msg) /\ Len(FromLog(front)) \in Nat /\ FromLog(lg) \in Seq(Msg)
      /\ Len(FromLog(lg)) = Len(FromLog(front)) + 1
      /\ \A k \in 1..Len(FromLog(front)) : FromLog(lg)[k] = FromLog(front)[k]
      /\ FromLog(lg)[Len(FromLog(front)) + 1] = Folded(r)
  BY <1>3, <1>5, FromLogGrows
<1>7. Len(FromLog(front)) + 1 = n
  <2>1. DOMAIN FromLog(lg) = 1..Len(FromLog(lg)) /\ Len(FromLog(lg)) \in Nat
    BY <1>6, LenProperties
  <2>2. 1..Len(FromLog(lg)) = 1..n
    BY <1>1, <2>1 DEF Like
  <2>3. Len(FromLog(lg)) = n
    BY <1>1, <2>1, <2>2, SameIntervals
  <2>. QED
    BY <1>6, <2>3
<1>8. Folded(r).role = "assistant" /\ Folded(r).branches = ms[n].branches
  BY <1>1, <1>6, <1>7 DEF Like
<1>9. Folded(r) = r
  <2>1. CASE IsNotice(r)
    <3>1. r \in Msg
      BY <1>3, FromRowTyped, LenProperties
    <3>2. Folded(r).role = "system"
      BY <2>1, <3>1 DEF Folded, Msg
    <3>. QED
      BY <1>8, <3>2
  <2>2. CASE ~IsNotice(r)
    BY <2>2 DEF Folded
  <2>. QED
    BY <2>1, <2>2
<1>10. row.role = "assistant" /\ r.branches = Append(row.others, row.content)
  BY <1>3, <1>8, <1>9, RowBranches
<1>11. \A k \in 1..n - 1 : FromLog(front)[k] = FromLog(lg)[k]
  <2>1. n - 1 = Len(FromLog(front))
    <3>. DEFINE f == Len(FromLog(front))
    <3>1. f \in Nat /\ f + 1 = n
      BY <1>6, <1>7
    <3>. HIDE DEF f, n
    <3>2. n - 1 = f
      BY <3>1
    <3>. QED
      BY <3>2 DEF f
  <2>. QED
    BY <1>6, <2>1
<1>12. ms[n].branches = Append(row.others, row.content)
  BY <1>8, <1>9, <1>10
<1>. QED
  BY <1>2, <1>3, <1>7, <1>10, <1>11, <1>12 DEF front, row

LEMMA RegenerateMore ==
  ASSUME ReloadInv, NEW i \in DOMAIN messages, Regenerate(i)
  PROVE  More'
<1>. DEFINE n == Len(messages)
            new == FromLog(KeptIn(log, stream'))
<1>1. /\ ChatTypes /\ Turns /\ Reading /\ More /\ SendAgain(i, messages) /\ ~Streaming
      /\ diverged' = (diverged \/ i # n) /\ messages[i].role = "assistant"
      /\ UNCHANGED <<hydrated, cache, orphan, mounts>>
  BY DEF ReloadInv, ChatInv, Regenerate
<1>2. /\ messages = [k \in DOMAIN messages |-> messages[k]]
      /\ \A k \in DOMAIN messages : messages[k] \in Msg /\ Shows(messages[k])
      /\ n \in Nat /\ DOMAIN messages = 1..n /\ messages \in Seq(Msg)
  BY <1>1, MessagesAreIndexed DEF Turns, Sound
<1>3. /\ Turns' /\ stream' \in Reply /\ log' = log
      /\ stream'.on /\ stream'.id = messages[i].id /\ stream'.regen /\ stream'.got = <<>>
      /\ DOMAIN messages' = DOMAIN messages
      /\ \A k \in DOMAIN messages \ {i} : messages'[k] = messages[k]
      /\ messages'[i].role = messages[i].role
      /\ messages'[i].branches = Append(messages[i].branches, <<>>)
      /\ messages'[i].active = Len(messages[i].branches) + 1
      /\ Still(messages, messages')
  BY <1>1, <1>2, SendingAgain
<1>4. Clean(messages')
  BY <1>1, <1>2, CleanWhenSendingAgain DEF More, Marks
<1>5. Marks' /\ OrphanDiverges' /\ KeptAsShown'
  BY <1>1, <1>3, <1>4, KeptAtFirst DEF More, Marks, OrphanDiverges
<1>6. ASSUME ~diverged, i = n, hydrated \/ mounts = 1
      PROVE  Agrees(messages', log', stream')
  <2>1. Like(messages, FromLog(log)) /\ log \in Seq(LogRow) /\ WellMarked(log)
    BY <1>1, <1>6 DEF More, InStep, Agrees, Reading, ChatTypes, Marks
  <2>2. messages # <<>> /\ messages[n].role = "assistant"
    BY <1>1, <1>6
  <2>3. /\ log # <<>> /\ Last(log).role = "assistant"
        /\ Len(FromLog(Front(log))) + 1 = n
        /\ \A k \in 1..n - 1 : FromLog(Front(log))[k] = FromLog(log)[k]
        /\ messages[n].branches = Append(Last(log).others, Last(log).content)
    BY <1>2, <2>1, <2>2, LastReply
  <2>4. /\ OfLast(log, stream') /\ Base(log, stream') = Front(log)
        /\ Others(log, stream') = messages[n].branches /\ Kept(stream') = <<>>
    BY <1>3, <2>3, KeepOfNothing DEF OfLast, Base, Others, Kept
  <2>5. /\ Len(FromLog(Base(log, stream'))) \in Nat
        /\ DOMAIN new = 1..Len(FromLog(Base(log, stream'))) + 1
        /\ \A k \in 1..Len(FromLog(Base(log, stream'))) :
             new[k] = FromLog(Base(log, stream'))[k]
        /\ new[Len(FromLog(Base(log, stream'))) + 1].role = "assistant"
        /\ new[Len(FromLog(Base(log, stream'))) + 1].branches
             = Append(Others(log, stream'), Kept(stream'))
        /\ new[Len(FromLog(Base(log, stream'))) + 1].active = Len(Others(log, stream')) + 1
    BY <1>3, <2>1, <2>4, ReplyReadBack
  <2>. HIDE DEF new
  <2>6. /\ DOMAIN new = 1..n /\ new[n].role = "assistant"
        /\ new[n].branches = Append(messages[n].branches, <<>>)
        /\ new[n].active = Len(messages[n].branches) + 1
    BY <2>3, <2>4, <2>5
  <2>7. \A k \in 1..n - 1 : new[k] = FromLog(log)[k]
    <3>. DEFINE f == Len(FromLog(Front(log)))
    <3>1. f \in Nat /\ f + 1 = n
      BY <2>3, <2>4, <2>5
    <3>2. \A k \in 1..f : new[k] = FromLog(Front(log))[k]
      BY <2>4, <2>5
    <3>. HIDE DEF f, n
    <3>3. n - 1 = f
      BY <3>1
    <3>. QED
      BY <2>3, <3>2, <3>3 DEF n
  <2>8. Like(messages', new)
    <3>. SUFFICES ASSUME NEW k \in 1..n
                  PROVE  /\ messages'[k].role = new[k].role
                         /\ messages'[k].active = new[k].active
                         /\ messages'[k].branches = new[k].branches
      BY <1>2, <1>3, <2>6 DEF Like
    <3>1. CASE k = n
      BY <1>3, <1>6, <2>2, <2>6, <3>1
    <3>2. CASE k # n
      <4>1. k \in 1..n - 1
        BY <1>2, <3>2
      <4>2. messages'[k] = messages[k] /\ new[k] = FromLog(log)[k]
        BY <1>2, <1>3, <1>6, <2>7, <3>2, <4>1
      <4>. QED
        BY <1>2, <2>1, <4>2 DEF Like
    <3>. QED
      BY <3>1, <3>2
  <2>9. messages' # <<>> /\ messages'[Len(messages')].id = stream'.id
    <3>1. messages' \in Seq(Msg) /\ Len(messages') \in Nat /\ DOMAIN messages' = 1..Len(messages')
      BY <1>3, LenProperties DEF Turns, Sound
    <3>2. Len(messages') = n
      BY <1>2, <1>3, <3>1, SameIntervals
    <3>3. n \in DOMAIN messages'
      BY <1>3, <1>6
    <3>4. PICK k \in DOMAIN messages' : messages'[k].id = messages[n].id
      BY <1>3, <1>6 DEF Still
    <3>5. k = n
      <4> SUFFICES ASSUME k # n PROVE FALSE
        OBVIOUS
      <4>1. messages'[k] = messages[k] /\ k \in DOMAIN messages /\ n \in DOMAIN messages
        BY <1>3, <1>6
      <4>. QED
        BY <1>1, <3>4, <4>1 DEF Turns, Sound, IdsDistinct
    <3>. QED
      BY <1>3, <1>6, <3>2, <3>3, <3>4, <3>5
  <2>. QED
    BY <1>3, <2>4, <2>8, <2>9 DEF Agrees, new
<1>7. InStep'
  <2> SUFFICES ASSUME ~diverged', hydrated' \/ mounts' = 1
               PROVE  Agrees(messages', log', stream')
    BY DEF InStep
  <2>1. CASE i = n
    BY <1>1, <1>6, <2>1
  <2>2. CASE i # n
    BY <1>1, <2>2
  <2>. QED
    BY <2>1, <2>2
<1>. QED
  BY <1>5, <1>7 DEF More

(* What arrives is appended where the log will have it.                    *)
LEMMA ReceiveMore ==
  ASSUME ReloadInv, NEW e \in Events(stream.got), Receive(e)
  PROVE  More'
<1>. DEFINE n == Len(messages)
            shown == FromLog(KeptIn(log, stream))
            new == FromLog(KeptIn(log, stream'))
<1>1. /\ ChatTypes /\ Turns /\ Reading /\ More /\ stream.on
      /\ stream \in Reply /\ stream.got \in Seq(Event) /\ e \in Event
      /\ UNCHANGED <<status, hydrated, cache, log, orphan, sent, mounts, ops, diverged>>
  BY EventsTyped DEF ReloadInv, ChatInv, ChatTypes, Reply, Receive
<1>2. /\ messages \in Seq(Msg) /\ n \in Nat /\ DOMAIN messages = 1..n
      /\ \A k \in 1..n : messages[k] \in Msg /\ Shows(messages[k])
  BY <1>1, MessagesAreIndexed DEF Turns, Sound
<1>3. /\ ChatInv' /\ stream'.on /\ stream'.id = stream.id /\ stream'.regen = stream.regen
      /\ stream'.got = Append(stream.got, e)
      /\ DOMAIN messages' = DOMAIN messages
      /\ \A k \in DOMAIN messages :
           /\ messages[k].id # stream.id => messages'[k] = messages[k]
           /\ messages[k].id = stream.id =>
                /\ messages'[k].role = messages[k].role
                /\ messages'[k].active = messages[k].active
                /\ messages'[k].branches = [messages[k].branches EXCEPT
                     ![messages[k].active] = Reduce(Active(messages[k]), e)]
  BY Receiving DEF ReloadInv
<1>4. Clean(messages')
  <2> SUFFICES ASSUME NEW k \in DOMAIN messages, messages'[k].role # "system"
               PROVE  messages'[k].branches \in Seq(Seq(Plain))
    BY <1>3 DEF Clean
  <2>1. CASE messages[k].id # stream.id
    BY <1>1, <1>3, <2>1 DEF More, Marks, Clean
  <2>2. CASE messages[k].id = stream.id
    <3>. DEFINE b == messages[k].branches
                a == messages[k].active
    <3>1. b \in Seq(Seq(Plain)) /\ a \in DOMAIN b /\ Active(messages[k]) = b[a]
      <4>1. messages[k].role # "system"
        BY <1>3, <2>2
      <4>2. messages[k].branches \in Seq(Seq(Plain))
        BY <1>1, <4>1 DEF More, Marks, Clean
      <4>3. Shows(messages[k])
        BY <1>2
      <4>. QED
        BY <4>2, <4>3 DEF Shows, Active
    <3>2. messages'[k].branches = [b EXCEPT ![a] = Reduce(Active(messages[k]), e)]
      BY <1>3, <2>2
    <3>. HIDE DEF a, b
    <3>3. b[a] \in Seq(Plain) /\ a \in 1..Len(b)
      BY <3>1, LenProperties, ElementOfSeq
    <3>4. Reduce(b[a], e) \in Seq(Plain)
      BY <1>1, <3>3, ReduceTyped DEF Plain
    <3>. QED
      BY <3>1, <3>2, <3>3, <3>4, ExceptSeq
  <2>. QED
    BY <2>1, <2>2
<1>5. Paired(Built(stream.got), stream.got) /\ Kept(stream) = Built(stream.got)
  BY <1>1 DEF More, KeptAsShown
<1>6. /\ Built(stream.got) \in Seq(Plain)
      /\ Built(stream'.got) = Reduce(Built(stream.got), e)
  BY <1>1, <1>3, Building
<1>7. Keep(Built(stream.got), e) = Reduce(Built(stream.got), e)
      /\ Paired(Reduce(Built(stream.got), e), Append(stream.got, e))
  BY <1>1, <1>5, <1>6, Pairing
<1>8. Kept(stream') = Reduce(Kept(stream), e)
  <2>1. Kept(stream') = Keep(Kept(stream), e)
    BY <1>1, <1>3, KeepGrows DEF Kept
  <2>. QED
    BY <1>5, <1>7, <2>1
<1>9. KeptAsShown'
  BY <1>3, <1>5, <1>6, <1>7, <1>8 DEF KeptAsShown
<1>10. Marks' /\ OrphanDiverges'
  BY <1>1, <1>4 DEF More, Marks, OrphanDiverges
<1>11. ASSUME ~diverged, hydrated \/ mounts = 1
       PROVE  Agrees(messages', log', stream')
  <2>1. /\ Like(messages, shown) /\ messages # <<>> /\ messages[n].id = stream.id
        /\ OfLast(log, stream) /\ log \in Seq(LogRow)
    BY <1>1, <1>11 DEF More, InStep, Agrees, ChatTypes
  <2>2. n \in 1..n
    BY <1>2, <2>1, EmptySeq
  <2>3. OfLast(log, stream') /\ stream' \in Reply
    BY <1>3, <2>1 DEF OfLast, ChatInv, ChatTypes
  <2>4. Base(log, stream') = Base(log, stream) /\ Others(log, stream') = Others(log, stream)
    BY <1>3 DEF Base, Others
  <2>. DEFINE old == FromLog(Base(log, stream))
              others == Others(log, stream)
  <2>5. /\ Len(old) \in Nat /\ DOMAIN shown = 1..Len(old) + 1
        /\ \A k \in 1..Len(old) : shown[k] = old[k]
        /\ shown[Len(old) + 1].role = "assistant"
        /\ shown[Len(old) + 1].branches = Append(others, Kept(stream))
        /\ shown[Len(old) + 1].active = Len(others) + 1
    BY <1>1, <2>1, ReplyReadBack
  <2>6. /\ DOMAIN new = 1..Len(FromLog(Base(log, stream'))) + 1
        /\ \A k \in 1..Len(FromLog(Base(log, stream'))) : new[k] = FromLog(Base(log, stream'))[k]
        /\ new[Len(FromLog(Base(log, stream'))) + 1].role = "assistant"
        /\ new[Len(FromLog(Base(log, stream'))) + 1].branches
             = Append(Others(log, stream'), Kept(stream'))
        /\ new[Len(FromLog(Base(log, stream'))) + 1].active = Len(Others(log, stream')) + 1
    BY <2>1, <2>3, ReplyReadBack
  <2>7. others \in Branches /\ Len(others) \in Nat
    BY <1>1, <2>1, KeptInForm, LenProperties DEF Branches
  <2>. HIDE DEF shown, new, old, others
  <2>8. /\ DOMAIN new = 1..Len(old) + 1 /\ \A k \in 1..Len(old) : new[k] = old[k]
        /\ new[Len(old) + 1].role = "assistant"
        /\ new[Len(old) + 1].branches = Append(others, Kept(stream'))
        /\ new[Len(old) + 1].active = Len(others) + 1
    BY <2>4, <2>6 DEF old, others
  <2>9. Len(old) + 1 = n
    <3>1. DOMAIN messages = DOMAIN shown
      BY <2>1 DEF Like
    <3>2. Len(old) + 1 \in Nat
      BY <2>5
    <3>3. 1..Len(old) + 1 = 1..n
      BY <1>2, <2>5, <3>1
    <3>. DEFINE m == Len(old) + 1
    <3>4. m \in Nat /\ 1..m = 1..n
      BY <3>2, <3>3
    <3>. HIDE DEF m
    <3>5. m = n
      BY <1>2, <3>4, SameIntervals
    <3>. QED
      BY <3>5 DEF m
  <2>10. /\ messages[n].role = "assistant" /\ messages[n].active = Len(others) + 1
         /\ messages[n].branches = Append(others, Kept(stream))
    BY <1>2, <2>1, <2>2, <2>5, <2>9 DEF Like
  <2>11. [Append(others, Kept(stream)) EXCEPT ![Len(others) + 1] = Kept(stream')]
            = Append(others, Kept(stream'))
    <3>1. Kept(stream) \in Seq(Part) /\ Kept(stream') \in Seq(Part)
      BY <1>1, <2>3, KeptTyped, PlainIsPart DEF Reply
    <3>. QED
      BY <2>7, <3>1, LastReplaced DEF Branches
  <2>12. Active(messages[n]) = Kept(stream)
    <3>1. Kept(stream) \in Seq(Part)
      BY <1>1, KeptTyped, PlainIsPart DEF Reply
    <3>. QED
      BY <2>7, <2>10, <3>1, AppendProperties DEF Active, Branches
  <2>13. /\ messages'[n].role = "assistant" /\ messages'[n].active = Len(others) + 1
         /\ messages'[n].branches = Append(others, Kept(stream'))
    <3>1. /\ messages'[n].role = messages[n].role
          /\ messages'[n].active = messages[n].active
          /\ messages'[n].branches = [messages[n].branches EXCEPT
               ![messages[n].active] = Reduce(Active(messages[n]), e)]
      BY <1>2, <1>3, <2>1, <2>2
    <3>. QED
      BY <1>8, <2>10, <2>11, <2>12, <3>1
  <2>14. \A k \in 1..n : k # n => messages'[k] = messages[k]
    <3> SUFFICES ASSUME NEW k \in 1..n, k # n PROVE messages'[k] = messages[k]
      OBVIOUS
    <3>1. messages[k].id # stream.id
      BY <1>1, <1>2, <2>1, <2>2 DEF Turns, Sound, IdsDistinct
    <3>. QED
      BY <1>2, <1>3, <3>1
  <2>15. Like(messages', new)
    <3>. SUFFICES ASSUME NEW k \in 1..n
                  PROVE  /\ messages'[k].role = new[k].role
                         /\ messages'[k].active = new[k].active
                         /\ messages'[k].branches = new[k].branches
      BY <1>2, <1>3, <2>8, <2>9 DEF Like
    <3>1. CASE k = n
      BY <2>8, <2>9, <2>13, <3>1
    <3>2. CASE k # n
      <4>1. k \in 1..Len(old)
        BY <2>5, <2>9, <3>2
      <4>2. messages'[k] = messages[k] /\ new[k] = shown[k]
        BY <2>5, <2>8, <2>14, <3>2, <4>1
      <4>. QED
        BY <1>2, <2>1, <4>2 DEF Like
    <3>. QED
      BY <3>1, <3>2
  <2>16. messages' # <<>> /\ messages'[Len(messages')].id = stream'.id
    <3>1. /\ Len(messages') \in Nat /\ DOMAIN messages' = 1..Len(messages')
          /\ \A k \in DOMAIN messages' : messages'[k].id = stream'.id => k = n
      <4>1. Turns' /\ Lands(messages', stream')
        BY <1>3 DEF ChatInv, Reading
      <4>2. PICK k \in DOMAIN messages' : messages'[k].id = stream.id
        BY <1>3, <4>1 DEF Lands
      <4>3. k = n
        <5> SUFFICES ASSUME k # n PROVE FALSE
          OBVIOUS
        <5>1. messages[k].id = stream.id /\ k \in DOMAIN messages /\ n \in DOMAIN messages
          BY <1>2, <1>3, <2>2, <2>14, <4>2
        <5>. QED
          BY <1>1, <2>1, <5>1 DEF Turns, Sound, IdsDistinct
      <4>4. \A j \in DOMAIN messages' : messages'[j].id = stream.id => j = k
        BY <4>1, <4>2 DEF Turns, Sound, IdsDistinct
      <4>. QED
        BY <1>3, <4>1, <4>3, <4>4, LenProperties DEF Turns, Sound
    <3>2. Len(messages') = n
      BY <1>2, <1>3, <3>1, SameIntervals
    <3>3. PICK k \in DOMAIN messages' : messages'[k].id = stream'.id
      BY <1>3 DEF ChatInv, Reading, Lands
    <3>. QED
      BY <3>1, <3>2, <3>3
  <2>. QED
    BY <1>1, <1>3, <2>3, <2>15, <2>16 DEF Agrees, new
<1>12. InStep'
  BY <1>1, <1>11 DEF InStep
<1>. QED
  BY <1>9, <1>10, <1>12 DEF More

LEMMA StreamEndsMore ==
  ASSUME ReloadInv, StreamEnds
  PROVE  More'
<1>1. /\ ChatTypes /\ More /\ stream.on /\ stream' = NoStream /\ log' = KeptIn(log, stream)
      /\ UNCHANGED <<messages, hydrated, cache, orphan, sent, mounts, ops, diverged>>
  BY DEF ReloadInv, ChatInv, StreamEnds, Persist, KeptIn, LastAssistant
<1>2. ~stream'.on
  BY <1>1 DEF NoStream
<1>3. WellMarked(log')
  BY <1>1, MarkedWhenKept DEF More, Marks, ChatTypes
<1>4. InStep'
  BY <1>1, <1>2 DEF More, InStep, Agrees
<1>. QED
  BY <1>1, <1>2, <1>3, <1>4 DEF More, Marks, KeptAsShown, OrphanDiverges

(* A turn the page stops reading may or may not be kept.                   *)
LEMMA BreakMore ==
  ASSUME ReloadInv, StreamFails \/ Stop
  PROVE  More'
<1>1. /\ Turns /\ More /\ stream.on /\ stream' = NoStream
      /\ diverged' = (diverged \/ stream.on) /\ UNCHANGED <<hydrated, cache, log, sent, mounts>>
  BY DEF ReloadInv, ChatInv, StreamFails, Stop, Detach
<1>2. diverged' = TRUE /\ ~stream'.on
  BY <1>1 DEF NoStream
<1>3. /\ DOMAIN messages' = DOMAIN messages
      /\ \A k \in DOMAIN messages : /\ messages'[k].role = messages[k].role
                                    /\ messages'[k].branches = messages[k].branches
  <2>1. \A k \in DOMAIN messages : messages[k] \in Msg
    BY <1>1, MessagesAreIndexed DEF Turns, Sound
  <2>2. \A m \in Msg : /\ [m EXCEPT !.failed = TRUE].role = m.role
                       /\ [m EXCEPT !.failed = TRUE].branches = m.branches
    BY DEF Msg
  <2>3. \/ UNCHANGED messages
        \/ messages' = [i \in DOMAIN messages |->
                          IF messages[i].id = stream.id THEN [messages[i] EXCEPT !.failed = TRUE]
                                                        ELSE messages[i]]
    BY DEF StreamFails, Stop
  <2>. QED
    BY <2>1, <2>2, <2>3
<1>4. Clean(messages')
  BY <1>1, <1>3 DEF More, Marks, Clean
<1>. QED
  BY <1>1, <1>2, <1>4 DEF More, Marks, KeptAsShown, InStep, OrphanDiverges

LEMMA OrphanEndsMore ==
  ASSUME ReloadInv, OrphanEnds
  PROVE  More'
<1>1. /\ ChatTypes /\ More /\ orphan.on /\ orphan' = NoStream
      /\ log' = log \/ log' = KeptIn(log, orphan)
      /\ UNCHANGED <<messages, status, hydrated, cache, stream, sent, mounts, ops, diverged>>
  BY DEF ReloadInv, ChatInv, OrphanEnds, Persist, KeptIn, LastAssistant
<1>2. diverged
  BY <1>1 DEF More, OrphanDiverges
<1>3. WellMarked(log')
  BY <1>1, MarkedWhenKept DEF More, Marks, ChatTypes
<1>. QED
  BY <1>1, <1>2, <1>3 DEF More, Marks, KeptAsShown, InStep, OrphanDiverges

LEMMA CompactMore ==
  ASSUME ReloadInv, Compact
  PROVE  More'
<1>1. /\ ChatTypes /\ More /\ diverged' = TRUE /\ Len(log) > 2
      /\ log[Len(log) - 1].role = "user" /\ log[Len(log)].role = "assistant"
      /\ \A i \in DOMAIN log : ~Looks(log[i].content, "notice")
      /\ log' = <<SummaryRow>> \o SubSeq(log, Len(log) - 1, Len(log)) \o <<NoticeRow>>
      /\ UNCHANGED <<messages, status, hydrated, cache, stream, orphan, sent, mounts>>
  BY DEF ReloadInv, ChatInv, Compact, SummaryRow, NoticeRow
<1>2. WellMarked(log')
  BY <1>1, MarkedWhenCompacted DEF More, Marks, ChatTypes
<1>. QED
  BY <1>1, <1>2 DEF More, Marks, KeptAsShown, InStep, OrphanDiverges

LEMMA MountMore ==
  ASSUME ReloadInv, Leave \/ Reload
  PROVE  More'
<1>1. /\ ChatTypes /\ More /\ UNCHANGED <<log, sent>> /\ mounts' = mounts + 1 /\ messages' = <<>>
      /\ hydrated' = FALSE /\ stream' = NoStream
      /\ orphan' \in {orphan} \cup (IF stream.on THEN {stream} ELSE {})
      /\ cache' \in {cache, NoData}
      /\ diverged' = (stream.on \/ orphan.on)
  BY DEF ReloadInv, ChatInv, Leave, Reload, Mount
<1>2. ~stream'.on
  BY <1>1 DEF NoStream
<1>3. mounts' # 1
  BY <1>1, ChatPageAssumption DEF ChatTypes
<1>4. OrphanDiverges'
  <2>1. CASE stream.on \/ orphan.on
    BY <1>1, <2>1 DEF OrphanDiverges
  <2>2. CASE ~(stream.on \/ orphan.on)
    BY <1>1, <2>2 DEF OrphanDiverges
  <2>. QED
    BY <2>1, <2>2
<1>5. Clean(messages')
  BY <1>1 DEF Clean
<1>6. Marks'
  BY <1>1, <1>5 DEF More, Marks
<1>. QED
  BY <1>1, <1>2, <1>3, <1>4, <1>6 DEF More, KeptAsShown, InStep

LEMMA ReloadInit == Init => ReloadInv
<1> SUFFICES ASSUME Init PROVE ReloadInv
  OBVIOUS
<1>1. ~stream.on /\ ~orphan.on /\ log = <<>> /\ messages = <<>> /\ cache = NoData
  BY DEF Init, NoStream
<1>2. WellMarked(<<>>) /\ Clean(<<>>)
  BY DEF WellMarked, Marked, SummaryIsBehind, Clean
<1>3. Like(<<>>, FromLog(<<>>))
  BY FromLogOfNothing DEF Like
<1>4. More
  BY <1>1, <1>2, <1>3 DEF More, Marks, KeptAsShown, InStep, Agrees, OrphanDiverges
<1>. QED
  BY <1>4, ChatInit DEF ReloadInv

LEMMA ReloadStep == ReloadInv /\ [Next]_vars => ReloadInv'
<1> SUFFICES ASSUME ReloadInv, [Next]_vars PROVE More'
  BY ChatStep DEF ReloadInv
<1>1. CASE Fetch
  BY <1>1, FetchMore
<1>2. CASE Hydrate
  BY <1>2, HydrateMore
<1>3. CASE Submit
  BY <1>3, SubmitMore
<1>4. CASE Click
  <2>1. PICK i \in DOMAIN messages :
          Regenerate(i) \/ Retry(i) \/ RetryAfterError(i) \/ Edit(i) \/ SwitchBranch(i)
    BY <1>4 DEF Click
  <2>. QED
    BY <2>1, RegenerateMore, RetryMore, RetryAfterErrorMore, EditMore, SwitchBranchMore
<1>5. CASE \E e \in Events(stream.got) : Receive(e)
  BY <1>5, ReceiveMore
<1>6. CASE StreamEnds
  BY <1>6, StreamEndsMore
<1>7. CASE StreamFails \/ Stop
  BY <1>7, BreakMore
<1>8. CASE OrphanEnds
  BY <1>8, OrphanEndsMore
<1>9. CASE Compact
  BY <1>9, CompactMore
<1>10. CASE Leave \/ Reload
  BY <1>10, MountMore
<1>11. CASE UNCHANGED vars
  BY <1>11 DEF ReloadInv, More, Marks, KeptAsShown, InStep, OrphanDiverges, vars
<1>. QED
  BY <1>1, <1>2, <1>3, <1>4, <1>5, <1>6, <1>7, <1>8, <1>9, <1>10, <1>11 DEF Next

(* A conversation in which the page and the log were told the same is the  *)
(* same after a reload, turn by turn, branch by branch and tool row by     *)
(* tool row, though the runtime pairs results by id and the page by name;  *)
(* and the compactor's marks are never drawn as somebody's message.        *)
THEOREM ReloadingKeepsTheConversation == Spec => []ReloadKeepsConversation
<1>1. ReloadInv => ReloadKeepsConversation
  <2> SUFFICES ASSUME ReloadInv PROVE ReloadKeepsConversation
    OBVIOUS
  <2>1. ASSUME ~diverged, hydrated, ~stream.on
        PROVE  Shown(messages) = Shown(FromLog(log))
    <3>1. Like(messages, FromLog(log))
      BY <2>1 DEF ReloadInv, More, InStep, Agrees
    <3>. QED
      BY <3>1 DEF Like, Shown
  <2>2. ASSUME NEW i \in DOMAIN messages, messages[i].role # "system"
        PROVE  ~IsSummary(messages[i]) /\ ~IsNotice(messages[i])
    <3>1. messages[i].branches \in Seq(Seq(Plain))
      BY <2>2 DEF ReloadInv, More, Marks, Clean
    <3>2. messages[i].active \in DOMAIN messages[i].branches
      BY MessagesAreIndexed DEF ReloadInv, ChatInv, Turns, Sound, Shows
    <3>3. messages[i].branches[messages[i].active] \in Seq(Plain)
      BY <3>1, <3>2, LenProperties, ElementOfSeq
    <3>. QED
      BY <3>3, PlainLooks DEF IsSummary, IsNotice
  <2>. QED
    BY <2>1, <2>2 DEF ReloadKeepsConversation
<1>2. Spec => []ReloadInv
  BY ReloadInit, ReloadStep, PTL DEF Spec
<1>. QED
  BY <1>1, <1>2, PTL

-----------------------------------------------------------------------------
(* What is read of a reply.  A rescued tool row is like any other but for  *)
(* its name.                                                               *)

Piece == [kind : {"text"}, content : Seq(AWord(Look))]
         \cup {p \in [kind : {"tool"}, name : Tools \cup {"rescued"}, by : Nat, call : Nat,
                      output : Nat, state : {"input-available", "output-available"}] :
                p.state = "input-available" <=> p.output = Null}

LEMMA PartsArePieces == Part \subseteq Piece
BY DEF Part, PartOf, ToolRows, Piece

LEMMA NumbersOf ==
  ASSUME NEW words \in Seq(AWord(Look))
  PROVE  /\ Numbers(words) \in Seq(Nat) /\ Len(Numbers(words)) = Len(words)
         /\ \A i \in 1..Len(words) : Numbers(words)[i] = words[i].n
<1>. DEFINE n == Len(words)
            f == Numbers(words)
<1>1. n \in Nat /\ DOMAIN words = 1..n /\ \A i \in 1..n : words[i].n \in Nat
  BY MessagesAreIndexed DEF AWord
<1>2. f = [i \in 1..n |-> words[i].n]
  BY <1>1 DEF Numbers
<1>. HIDE DEF f, n
<1>3. \A i \in 1..n : f[i] = words[i].n
  BY <1>2
<1>4. f = [i \in 1..n |-> f[i]] /\ \A i \in 1..n : f[i] \in Nat
  BY <1>1, <1>2
<1>. QED
  BY <1>1, <1>3, <1>4, MadeByIndex DEF f, n

LEMMA NumbersGrow ==
  ASSUME NEW words \in Seq(AWord(Look)), NEW w \in AWord(Look)
  PROVE  Numbers(Append(words, w)) = Append(Numbers(words), w.n)
<1>. DEFINE n == Len(words)
            more == Append(words, w)
            f == Numbers(words)
            g == Numbers(more)
            k == w.n
<1>1. /\ n \in Nat /\ k \in Nat /\ more \in Seq(AWord(Look)) /\ Len(more) = n + 1
      /\ more[n + 1] = w /\ \A i \in 1..n : more[i] = words[i]
  BY LenProperties, AppendProperties DEF AWord
<1>2. f \in Seq(Nat) /\ Len(f) = n /\ \A i \in 1..n : f[i] = words[i].n
  BY NumbersOf
<1>. HIDE DEF more, n
<1>3. g \in Seq(Nat) /\ Len(g) = n + 1 /\ \A i \in 1..n + 1 : g[i] = more[i].n
  BY <1>1, NumbersOf
<1>4. more[n + 1].n = k
  BY <1>1
<1>. HIDE DEF f, g, k
<1>5. /\ Append(f, k) \in Seq(Nat) /\ Len(Append(f, k)) = n + 1 /\ Append(f, k)[n + 1] = k
      /\ \A i \in 1..n : Append(f, k)[i] = f[i]
  BY <1>1, <1>2, AppendProperties
<1>6. \A i \in 1..n + 1 : i \in 1..n \/ i = n + 1
  BY <1>1
<1>7. \A i \in 1..n + 1 : g[i] = Append(f, k)[i]
  BY <1>1, <1>2, <1>3, <1>4, <1>5, <1>6
<1>8. g = Append(f, k)
  <2>. DEFINE a == Append(f, k)
  <2>. HIDE DEF a
  <2>1. a \in Seq(Nat) /\ Len(a) = n + 1 /\ \A i \in 1..n + 1 : g[i] = a[i]
    BY <1>5, <1>7 DEF a
  <2>2. g = a
    BY <1>3, <2>1, SeqEqual
  <2>. QED
    BY <2>2 DEF a
<1>. QED
  BY <1>8 DEF f, g, k, more

(* A row shows its call and its result; a round trip to another agent that *)
(* still runs has no result to show.                                       *)
LEMMA ReadAsMade ==
  ASSUME NEW p \in Piece
  PROVE  Read(p) = Sources(p) /\ Sources(p) \in Seq(Nat)
<1>1. CASE p.kind = "text"
  <2>1. p.content \in Seq(AWord(Look)) /\ IsText(p)
    BY <1>1 DEF Piece, IsText
  <2>. QED
    BY <2>1, NumbersOf DEF Read, Sources
<1>2. CASE p.kind = "tool"
  <2>. DEFINE a == Present(p.call)
              b == Present(p.output)
  <2>1. /\ p.call \in Nat /\ p.output \in Nat /\ (Running(p) => p.output = Null) /\ ~IsText(p)
    BY <1>2 DEF Piece, Running, IsText
  <2>2. a \in Seq(Nat) /\ b \in Seq(Nat) /\ Present(Null) = <<>>
    BY <2>1 DEF Present
  <2>3. Sources(p) = a \o b
    BY <2>1 DEF Sources
  <2>4. a \o b \in Seq(Nat) /\ a \o <<>> = a
    <3>. HIDE DEF a, b
    <3>. QED
      BY <2>2
  <2>. DEFINE shows == CompactToolRow(p, FALSE).shows
              call == p.call
              output == p.output
              end == IF Running(p) THEN <<>> ELSE <<output>>
  <2>5. Read(p) = FlattenSeq([k \in DOMAIN shows |-> Present(shows[k])])
    BY <2>1 DEF Read
  <2>6. shows = IF p.name = "agent_exec" THEN <<call>> \o end ELSE <<call, output>>
    BY DEF CompactToolRow, AgentCallPanel
  <2>7. a = Present(call) /\ b = Present(output) /\ call \in Nat /\ output \in Nat
    BY <2>1
  <2>8. end = IF Running(p) THEN <<>> ELSE <<output>>
    OBVIOUS
  <2>. HIDE DEF shows, call, output, end
  <2>9. CASE p.name = "agent_exec" /\ Running(p)
    <3>1. shows = <<call>>
      <4>1. <<call>> \o <<>> = <<call>>
        BY <2>7
      <4>. QED
        BY <2>6, <2>8, <2>9, <4>1
    <3>2. [k \in DOMAIN shows |-> Present(shows[k])] = <<a>>
      BY <2>7, <3>1
    <3>3. b = <<>>
      BY <2>1, <2>2, <2>9
    <3>. HIDE DEF a, b
    <3>4. FlattenSeq(<<a>>) = a
      BY <2>2, FlattenOne
    <3>. QED
      BY <2>3, <2>4, <2>5, <3>2, <3>3, <3>4
  <2>10. CASE ~(p.name = "agent_exec" /\ Running(p))
    <3>1. shows = <<call, output>>
      <4>1. <<call>> \o <<output>> = <<call, output>>
        BY <2>7, OneAndOne
      <4>. QED
        BY <2>6, <2>8, <2>10, <4>1
    <3>2. [k \in DOMAIN shows |-> Present(shows[k])] = <<a, b>>
      BY <2>7, <3>1
    <3>. HIDE DEF a, b
    <3>. DEFINE S == Seq(Nat)
    <3>3. <<a, b>> = Append(<<a>>, b) /\ <<a>> \in Seq(S) /\ b \in S
      BY <2>2
    <3>4. FlattenSeq(<<a>>) = a
      BY <2>2, FlattenOne
    <3>5. \A s \in Seq(S), x \in S : FlattenSeq(Append(s, x)) = FlattenSeq(s) \o x
      BY Flattening
    <3>6. FlattenSeq(Append(<<a>>, b)) = FlattenSeq(<<a>>) \o b
      <4>. HIDE DEF S
      <4>. QED
        BY ONLY <3>3, <3>5
    <3>. QED
      BY <2>3, <2>4, <2>5, <3>2, <3>3, <3>4, <3>6
  <2>. QED
    BY <2>9, <2>10
<1>. QED
  BY <1>1, <1>2 DEF Piece

LEMMA MadeBy ==
  ASSUME NEW parts \in Seq(Piece)
  PROVE  LET f == [j \in DOMAIN parts |-> Sources(parts[j])] IN
         /\ f \in Seq(Seq(Nat)) /\ Len(f) = Len(parts) /\ MadeOf(parts) = FlattenSeq(f)
         /\ \A j \in 1..Len(parts) : f[j] = Sources(parts[j])
<1>. DEFINE n == Len(parts)
            f == [j \in DOMAIN parts |-> Sources(parts[j])]
<1>1. n \in Nat /\ DOMAIN parts = 1..n /\ \A j \in 1..n : parts[j] \in Piece
  BY MessagesAreIndexed
<1>2. \A j \in 1..n : Sources(parts[j]) \in Seq(Nat)
  BY <1>1, ReadAsMade
<1>3. f = [j \in 1..n |-> f[j]] /\ \A j \in 1..n : f[j] = Sources(parts[j])
  BY <1>1
<1>4. MadeOf(parts) = FlattenSeq(f)
  BY DEF MadeOf
<1>. HIDE DEF f, n
<1>5. f \in Seq(Seq(Nat)) /\ Len(f) = n
  <2>. DEFINE S == Seq(Nat)
  <2>1. \A j \in 1..n : f[j] \in S
    BY <1>2, <1>3
  <2>. HIDE DEF S
  <2>2. f \in Seq(S) /\ Len(f) = n
    BY <1>1, <1>3, <2>1, MadeByIndex
  <2>. QED
    BY <2>2 DEF S
<1>. QED
  BY <1>3, <1>4, <1>5 DEF f, n

LEMMA ReadIsMade ==
  ASSUME NEW parts \in Seq(Piece)
  PROVE  ReadIn(parts) = MadeOf(parts) /\ MadeOf(parts) \in Seq(Nat)
<1>1. DOMAIN parts = 1..Len(parts) /\ \A j \in 1..Len(parts) : parts[j] \in Piece
  BY MessagesAreIndexed
<1>2. \A j \in DOMAIN parts : Read(parts[j]) = Sources(parts[j])
  BY <1>1, ReadAsMade
<1>3. [j \in DOMAIN parts |-> Read(parts[j])] = [j \in DOMAIN parts |-> Sources(parts[j])]
  BY <1>2
<1>4. ReadIn(parts) = MadeOf(parts)
  BY <1>3 DEF ReadIn, MadeOf
<1>. DEFINE f == [j \in DOMAIN parts |-> Sources(parts[j])]
<1>5. f \in Seq(Seq(Nat)) /\ MadeOf(parts) = FlattenSeq(f)
  BY MadeBy
<1>. HIDE DEF f
<1>6. FlattenSeq(f) \in Seq(Nat)
  BY <1>5, Flattening
<1>. QED
  BY <1>4, <1>5, <1>6

LEMMA MadeOfBoth ==
  ASSUME NEW a \in Seq(Piece), NEW b \in Seq(Piece)
  PROVE  MadeOf(a \o b) = MadeOf(a) \o MadeOf(b)
<1>. DEFINE m == Len(a)
            n == Len(b)
            c == a \o b
            f == [j \in DOMAIN a |-> Sources(a[j])]
            g == [j \in DOMAIN b |-> Sources(b[j])]
            h == [j \in DOMAIN c |-> Sources(c[j])]
            S == Seq(Nat)
<1>1. /\ m \in Nat /\ n \in Nat /\ c \in Seq(Piece) /\ Len(c) = m + n
      /\ \A i \in 1..m + n : c[i] = IF i <= m THEN a[i] ELSE b[i - m]
  BY LenProperties, ConcatProperties
<1>2. f \in Seq(S) /\ Len(f) = m /\ MadeOf(a) = FlattenSeq(f) /\ \A j \in 1..m : f[j] = Sources(a[j])
  BY MadeBy
<1>3. g \in Seq(S) /\ Len(g) = n /\ MadeOf(b) = FlattenSeq(g) /\ \A j \in 1..n : g[j] = Sources(b[j])
  BY MadeBy
<1>. HIDE DEF c
<1>4. /\ h \in Seq(S) /\ Len(h) = Len(c) /\ MadeOf(c) = FlattenSeq(h)
      /\ \A j \in 1..Len(c) : h[j] = Sources(c[j])
  BY <1>1, MadeBy
<1>. HIDE DEF f, g, h, m, n, S
<1>5. /\ f \o g \in Seq(S) /\ Len(f \o g) = Len(f) + Len(g)
      /\ \A i \in 1..Len(f) + Len(g) : (f \o g)[i] = IF i <= Len(f) THEN f[i] ELSE g[i - Len(f)]
  BY <1>2, <1>3, ConcatProperties
<1>. DEFINE k == f \o g
<1>6. /\ k \in Seq(S) /\ Len(k) = m + n
      /\ \A i \in 1..m + n : k[i] = IF i <= m THEN f[i] ELSE g[i - m]
  BY <1>2, <1>3, <1>5
<1>. HIDE DEF k
<1>7. ASSUME NEW i \in 1..m + n PROVE h[i] = k[i]
  <2>1. CASE i <= m
    <3>1. i \in 1..m
      BY <1>1, <2>1
    <3>. QED
      BY <1>1, <1>2, <1>4, <1>6, <2>1, <3>1
  <2>2. CASE ~(i <= m)
    <3>1. i - m \in 1..n
      BY <1>1, <2>2
    <3>2. h[i] = Sources(b[i - m])
      BY <1>1, <1>4, <2>2
    <3>3. k[i] = g[i - m]
      BY <1>6, <2>2
    <3>. QED
      BY <1>3, <3>1, <3>2, <3>3
  <2>. QED
    BY <2>1, <2>2
<1>8. h = k
  BY <1>1, <1>4, <1>6, <1>7, SeqEqual
<1>9. FlattenSeq(f \o g) = FlattenSeq(f) \o FlattenSeq(g)
  BY <1>2, <1>3, FlattenConcat DEF S
<1>. QED
  BY <1>2, <1>3, <1>4, <1>8, <1>9 DEF k, c

LEMMA MadeOfOne ==
  ASSUME NEW p \in Piece
  PROVE  MadeOf(<<p>>) = Sources(p)
<1>. DEFINE x == Sources(p)
            q == <<p>>
            f == [j \in DOMAIN q |-> Sources(q[j])]
<1>1. x \in Seq(Nat)
  BY ReadAsMade
<1>2. f = <<x>>
  OBVIOUS
<1>3. MadeOf(q) = FlattenSeq(<<x>>)
  BY <1>2 DEF MadeOf
<1>. HIDE DEF x
<1>4. FlattenSeq(<<x>>) = x
  BY <1>1, FlattenOne
<1>. QED
  BY <1>3, <1>4 DEF x

LEMMA MadeOfMore ==
  ASSUME NEW out \in Seq(Piece), NEW p \in Piece
  PROVE  MadeOf(Append(out, p)) = MadeOf(out) \o Sources(p)
<1>1. <<p>> \in Seq(Piece) /\ Append(out, p) = out \o <<p>>
  BY AppendIsConcat
<1>2. MadeOf(out \o <<p>>) = MadeOf(out) \o MadeOf(<<p>>)
  BY <1>1, MadeOfBoth
<1>. QED
  BY <1>1, <1>2, MadeOfOne

(* A last piece that is replaced by one with an event more.                *)
LEMMA MadeOfLast ==
  ASSUME NEW out \in Seq(Piece), out # <<>>, NEW p \in Piece, NEW k \in Nat,
         Sources(p) = Append(Sources(Last(out)), k)
  PROVE  /\ Append(Front(out), p) \in Seq(Piece)
         /\ MadeOf(Append(Front(out), p)) = Append(MadeOf(out), k)
<1>. DEFINE f == Front(out)
            l == Last(out)
            m == MadeOf(f)
            s == Sources(l)
<1>1. f \in Seq(Piece) /\ l \in Piece /\ out = Append(f, l)
  BY FrontAndLast
<1>. HIDE DEF f, l
<1>2. MadeOf(out) = m \o s /\ MadeOf(Append(f, p)) = m \o Sources(p)
  BY <1>1, MadeOfMore
<1>3. m \in Seq(Nat) /\ s \in Seq(Nat) /\ Sources(p) = Append(s, k)
  BY <1>1, ReadAsMade, ReadIsMade DEF l
<1>4. Append(f, p) \in Seq(Piece)
  BY <1>1, AppendProperties
<1>. HIDE DEF m, s
<1>5. m \o Append(s, k) = Append(m \o s, k)
  BY ONLY <1>3, k \in Nat
<1>. QED
  BY <1>2, <1>3, <1>4, <1>5 DEF f

LEMMA RescueWordReads ==
  ASSUME NEW out \in Seq(Piece), NEW w \in AWord(Look)
  PROVE  /\ RescueWord(out, w) \in Seq(Piece)
         /\ MadeOf(RescueWord(out, w)) = Append(MadeOf(out), w.n)
<1>. DEFINE k == w.n
<1>1. k \in Nat /\ (w.look \in {"call", "result"} => k # Null)
  BY DEF AWord
<1>2. MadeOf(out) \in Seq(Nat)
  BY ReadIsMade
<1>. HIDE DEF k
<1>3. ASSUME NEW p \in Piece, Sources(p) = <<k>>
      PROVE  /\ Append(out, p) \in Seq(Piece)
             /\ MadeOf(Append(out, p)) = Append(MadeOf(out), k)
  <2>1. MadeOf(Append(out, p)) = MadeOf(out) \o <<k>>
    BY <1>3, MadeOfMore
  <2>2. Append(MadeOf(out), k) = MadeOf(out) \o <<k>>
    BY <1>1, <1>2, AppendIsConcat
  <2>. QED
    BY <2>1, <2>2, AppendProperties
<1>4. CASE w.look = "call"
  <2>. DEFINE p == ToolPart("rescued", Null, k, Null)
  <2>1. p \in Piece
    BY <1>1 DEF Piece, ToolPart, Null
  <2>2. Sources(p) = <<k>>
    <3>1. Sources(p) = Present(k) \o Present(Null)
      BY DEF Sources, ToolPart, IsText
    <3>2. Present(k) = <<k>> /\ Present(Null) = <<>>
      BY <1>1, <1>4 DEF Present
    <3>3. <<k>> \o <<>> = <<k>>
      BY <1>1
    <3>. QED
      BY <3>1, <3>2, <3>3
  <2>3. RescueWord(out, w) = Append(out, p)
    BY <1>4 DEF RescueWord, k
  <2>. HIDE DEF p
  <2>. QED
    BY <1>3, <2>1, <2>2, <2>3 DEF k
<1>5. CASE w.look = "result" /\ out # <<>> /\ Running(Last(out))
  <2>. DEFINE l == Last(out)
              call == l.call
              p == ToolPart("rescued", Null, call, k)
  <2>1. l \in Piece /\ Running(l)
    BY <1>5, FrontAndLast
  <2>2. call \in Nat /\ l.output = Null /\ ~IsText(l)
    BY <2>1 DEF Piece, Running, IsText
  <2>3. RescueWord(out, w) = Append(Front(out), p)
    BY <1>5 DEF RescueWord, k
  <2>4. Sources(l) = Present(call) \o Present(Null)
    BY <2>2 DEF Sources
  <2>. HIDE DEF l, call
  <2>5. p \in Piece
    BY <1>1, <1>5, <2>2 DEF Piece, ToolPart, Null
  <2>6. Sources(p) = Present(call) \o Present(k)
    BY DEF Sources, ToolPart, IsText
  <2>. DEFINE a == Present(call)
  <2>7. a \in Seq(Nat) /\ Present(k) = <<k>> /\ Present(Null) = <<>>
    BY <1>1, <1>5, <2>2 DEF Present
  <2>. HIDE DEF a, p
  <2>8. a \o <<k>> = Append(a \o <<>>, k)
    BY ONLY <1>1, <2>7
  <2>9. Sources(p) = Append(Sources(Last(out)), k)
    BY <2>4, <2>6, <2>7, <2>8 DEF a, l
  <2>. QED
    BY <1>1, <1>5, <2>3, <2>5, <2>9, MadeOfLast DEF k
<1>6. CASE w.look = "result" /\ ~(out # <<>> /\ Running(Last(out)))
  <2>. DEFINE p == ToolPart("rescued", Null, Null, k)
  <2>1. p \in Piece
    BY <1>1, <1>6 DEF Piece, ToolPart, Null
  <2>2. Sources(p) = <<k>>
    <3>1. Sources(p) = Present(Null) \o Present(k)
      BY DEF Sources, ToolPart, IsText
    <3>2. Present(k) = <<k>> /\ Present(Null) = <<>>
      BY <1>1, <1>6 DEF Present
    <3>3. <<>> \o <<k>> = <<k>>
      BY <1>1
    <3>. QED
      BY <3>1, <3>2, <3>3
  <2>3. RescueWord(out, w) = Append(out, p)
    BY <1>6 DEF RescueWord, k
  <2>. HIDE DEF p
  <2>. QED
    BY <1>3, <2>1, <2>2, <2>3 DEF k
<1>7. CASE w.look \notin {"call", "result"} /\ out # <<>> /\ IsText(Last(out))
  <2>. DEFINE l == Last(out)
              words == l.content
              more == Append(words, w)
              p == TextPart(more)
  <2>1. l \in Piece /\ IsText(l)
    BY <1>7, FrontAndLast
  <2>2. words \in Seq(AWord(Look)) /\ Sources(l) = Numbers(words)
    BY <2>1 DEF Piece, IsText, Sources
  <2>3. RescueWord(out, w) = Append(Front(out), p)
    BY <1>7 DEF RescueWord, PushTextDelta
  <2>. HIDE DEF l, words
  <2>4. more \in Seq(AWord(Look)) /\ Numbers(more) = Append(Numbers(words), k)
    BY <2>2, AppendProperties, NumbersGrow DEF k
  <2>. HIDE DEF more
  <2>5. p \in Piece /\ Sources(p) = Numbers(more)
    BY <2>4 DEF Piece, TextPart, Sources, IsText
  <2>. HIDE DEF p
  <2>6. Sources(p) = Append(Sources(Last(out)), k)
    BY <2>2, <2>4, <2>5 DEF l
  <2>. QED
    BY <1>1, <1>7, <2>3, <2>5, <2>6, MadeOfLast DEF k
<1>8. CASE w.look \notin {"call", "result"} /\ ~(out # <<>> /\ IsText(Last(out)))
  <2>. DEFINE words == <<w>>
              p == TextPart(words)
  <2>1. words \in Seq(AWord(Look))
    OBVIOUS
  <2>2. Numbers(words) = <<k>>
    BY DEF Numbers, k
  <2>3. RescueWord(out, w) = Append(out, p)
    BY <1>8 DEF RescueWord, PushTextDelta
  <2>. HIDE DEF words
  <2>4. p \in Piece /\ Sources(p) = <<k>>
    BY <2>1, <2>2 DEF Piece, TextPart, Sources, IsText
  <2>. HIDE DEF p
  <2>. QED
    BY <1>3, <2>3, <2>4 DEF k
<1>. QED
  BY <1>4, <1>5, <1>6, <1>7, <1>8

(* Rescuing goes through the words one by one.                             *)
Rescues(words) ==
  [i \in 1..Len(words) |-> [out \in Seq(Piece) |-> RescueWord(out, words[i])]]

LEMMA RescuesTyped ==
  ASSUME NEW words \in Seq(AWord(Look))
  PROVE  /\ Len(words) \in Nat /\ DOMAIN words = 1..Len(words) /\ <<>> \in Seq(Piece)
         /\ \A i \in 1..Len(words) :
              /\ words[i] \in AWord(Look)
              /\ Rescues(words)[i] \in [Seq(Piece) -> Seq(Piece)]
              /\ \A out \in Seq(Piece) : Rescues(words)[i][out] = RescueWord(out, words[i])
<1>1. Len(words) \in Nat /\ DOMAIN words = 1..Len(words) /\ <<>> \in Seq(Piece)
  BY LenProperties, EmptySeq
<1>2. \A i \in 1..Len(words) : words[i] \in AWord(Look)
  BY ElementOfSeq
<1>3. \A out \in Seq(Piece), w \in AWord(Look) : RescueWord(out, w) \in Seq(Piece)
  BY RescueWordReads
<1>. QED
  BY <1>1, <1>2, <1>3 DEF Rescues

LEMMA RescuedByRun ==
  ASSUME NEW words \in Seq(AWord(Look)), NEW g,
         IsRun(g, Len(words), Seq(Piece), <<>>, Rescues(words))
  PROVE  FoldLeft(RescueWord, <<>>, words) = g[1..Len(words)]
<1>. DEFINE n == Len(words)
            IsIt(f) == f = [s \in SUBSET (1..n) |->
                              IF s = {} THEN <<>> ELSE RescueWord(f[s \ {Max(s)}], words[Max(s)])]
            it == CHOOSE f : IsIt(f)
<1>1. n \in Nat /\ DOMAIN words = 1..n
  BY LenProperties
<1>2. FoldLeft(RescueWord, <<>>, words) = it[1..n]
  BY <1>1 DEF FoldLeft, MapThenFoldSet
<1>3. \A s \in SUBSET (1..n) :
        g[s] = IF s = {} THEN <<>> ELSE RescueWord(g[s \ {Max(s)}], words[Max(s)])
  <2> TAKE s \in SUBSET (1..n)
  <2>1. CASE s = {}
    BY <2>1 DEF IsRun
  <2>2. CASE s # {}
    <3>1. Max(s) \in 1..n /\ s \ {Max(s)} \in SUBSET (1..n)
      BY <1>1, <2>2, Extremes
    <3>2. g[s \ {Max(s)}] \in Seq(Piece) /\ g[s] = Rescues(words)[Max(s)][g[s \ {Max(s)}]]
      BY <2>2, <3>1 DEF IsRun
    <3>. QED
      BY <2>2, <3>1, <3>2, RescuesTyped
  <2>. QED
    BY <2>1, <2>2
<1>4. g = [s \in SUBSET (1..n) |-> g[s]]
  BY DEF IsRun
<1>5. IsIt(g)
  BY <1>3, <1>4
<1>6. IsIt(it)
  BY <1>5
<1>7. \A s \in SUBSET (1..n) :
        it[s] = IF s = {} THEN <<>> ELSE RescueWord(it[s \ {Max(s)}], words[Max(s)])
  BY <1>6
<1>. HIDE DEF it
<1>8. it[{}] = g[{}]
  BY <1>3, <1>7
<1>9. \A s \in SUBSET (1..n) : s # {} /\ it[s \ {Max(s)}] = g[s \ {Max(s)}] => it[s] = g[s]
  BY <1>3, <1>7
<1>10. it[1..n] = g[1..n]
  BY <1>1, <1>8, <1>9, RunsAgree
<1>. QED
  BY <1>2, <1>10

(* A text with markup becomes pieces that are read in its place.           *)
LEMMA RescuedReads ==
  ASSUME NEW p \in Piece, IsText(p)
  PROVE  RescuedToolParts(p) \in Seq(Piece) /\ MadeOf(RescuedToolParts(p)) = Sources(p)
<1>. DEFINE words == p.content
            n == Len(words)
            V == Seq(Piece)
            F == Rescues(words)
            numbers == Numbers(words)
<1>1. words \in Seq(AWord(Look)) /\ Sources(p) = numbers
  BY DEF Piece, IsText, Sources
<1>2. RescuedToolParts(p) = FoldLeft(RescueWord, <<>>, words)
  BY DEF RescuedToolParts
<1>. HIDE DEF words
<1>3. /\ n \in Nat /\ <<>> \in V
      /\ \A i \in 1..n : /\ words[i] \in AWord(Look) /\ F[i] \in [V -> V]
                         /\ \A out \in V : F[i][out] = RescueWord(out, words[i])
  BY <1>1, RescuesTyped
<1>4. numbers \in Seq(Nat) /\ Len(numbers) = n /\ \A i \in 1..n : numbers[i] = words[i].n
  BY <1>1, NumbersOf
<1>. HIDE DEF n, F, numbers
<1>5. \E g : IsRun(g, n, V, <<>>, F)
  <2>. HIDE DEF V
  <2>. QED
    BY <1>3, RunExists
<1>6. PICK g : IsRun(g, n, V, <<>>, F)
  BY <1>5
<1>7. PICK h \in [0..n -> V] :
        h[0] = <<>> /\ h[n] = g[1..n] /\ \A i \in 1..n : h[i] = F[i][h[i - 1]]
  <2>. HIDE DEF V
  <2>. QED
    BY <1>3, <1>6, RunBySteps
<1>8. RescuedToolParts(p) = h[n]
  BY <1>1, <1>2, <1>6, <1>7, RescuedByRun DEF n, F
<1>. DEFINE r == [i \in 0..n |-> MadeOf(h[i])]
<1>9. \A i \in 0..n : h[i] \in V
  BY <1>7
<1>10. \A i \in 0..n : MadeOf(h[i]) \in Seq(Nat)
  BY <1>9, ReadIsMade
<1>11. r \in [0..n -> Seq(Nat)] /\ \A i \in 0..n : r[i] = MadeOf(h[i])
  BY <1>10
<1>. HIDE DEF r
<1>12. r[0] = <<>>
  <2>1. MadeOf(<<>>) = FlattenSeq(<<>>)
    BY DEF MadeOf
  <2>. QED
    BY <1>3, <1>7, <1>11, <2>1, FlatOfNone
<1>13. ASSUME NEW i \in 1..n PROVE r[i] = Append(r[i - 1], numbers[i])
  <2>. DEFINE j == i - 1
              out == h[j]
  <2>1. i \in 0..n /\ j \in 0..n
    BY <1>3
  <2>2. out \in V /\ h[i] = F[i][out]
    BY <1>7, <2>1
  <2>. HIDE DEF j, out
  <2>3. h[i] = RescueWord(out, words[i]) /\ words[i] \in AWord(Look)
    BY <1>3, <2>2
  <2>4. MadeOf(h[i]) = Append(MadeOf(out), words[i].n)
    BY <2>2, <2>3, RescueWordReads
  <2>. QED
    BY <1>4, <1>11, <2>1, <2>4 DEF j, out
<1>14. numbers = r[n]
  <2>1. n \in Nat
    BY <1>3
  <2>2. \A i \in 1..n : r[i] = Append(r[i - 1], numbers[i])
    BY <1>13
  <2>3. numbers \in Seq(Nat) /\ Len(numbers) = n /\ r \in [0..n -> Seq(Nat)]
    BY <1>4, <1>11
  <2>. QED
    BY <1>12, <2>1, <2>2, <2>3, OneByOne
<1>15. n \in 0..n
  BY <1>3
<1>. QED
  BY <1>1, <1>8, <1>9, <1>11, <1>14, <1>15

(* The cards: each text on its own, and the tool rows between two texts.   *)
Cards == [kind : {"text", "tools"}, items : Seq(Piece)]

LEMMA ItemsTyped ==
  ASSUME NEW groups \in Seq(Cards)
  PROVE  LET f == [j \in DOMAIN groups |-> groups[j].items] IN
         /\ f \in Seq(Seq(Piece)) /\ Len(f) = Len(groups) /\ Items(groups) = FlattenSeq(f)
         /\ \A j \in 1..Len(groups) : f[j] = groups[j].items
<1>. DEFINE n == Len(groups)
            f == [j \in DOMAIN groups |-> groups[j].items]
            S == Seq(Piece)
<1>1. n \in Nat /\ DOMAIN groups = 1..n /\ \A j \in 1..n : groups[j] \in Cards
  BY MessagesAreIndexed
<1>2. \A j \in 1..n : groups[j].items \in S
  BY <1>1 DEF Cards
<1>3. f = [j \in 1..n |-> f[j]] /\ \A j \in 1..n : f[j] = groups[j].items
  BY <1>1
<1>4. Items(groups) = FlattenSeq(f)
  BY DEF Items
<1>. HIDE DEF f, n, S
<1>5. \A j \in 1..n : f[j] \in S
  BY <1>2, <1>3
<1>6. f \in Seq(S) /\ Len(f) = n
  BY <1>1, <1>3, <1>5, MadeByIndex
<1>. QED
  BY <1>3, <1>4, <1>6 DEF f, n, S

LEMMA ItemsGrow ==
  ASSUME NEW groups \in Seq(Cards), NEW c \in Cards
  PROVE  Items(groups) \in Seq(Piece) /\ Items(Append(groups, c)) = Items(groups) \o c.items
<1>. DEFINE n == Len(groups)
            more == Append(groups, c)
            x == c.items
            f == [j \in DOMAIN groups |-> groups[j].items]
            h == [j \in DOMAIN more |-> more[j].items]
            S == Seq(Piece)
<1>1. /\ n \in Nat /\ more \in Seq(Cards) /\ Len(more) = n + 1 /\ more[n + 1] = c
      /\ \A i \in 1..n : more[i] = groups[i]
  BY LenProperties, AppendProperties
<1>2. /\ f \in Seq(S) /\ Len(f) = n /\ Items(groups) = FlattenSeq(f)
      /\ \A j \in 1..n : f[j] = groups[j].items
  BY ItemsTyped
<1>3. x \in S
  BY DEF Cards
<1>. HIDE DEF more
<1>4. /\ h \in Seq(S) /\ Len(h) = Len(more) /\ Items(more) = FlattenSeq(h)
      /\ \A j \in 1..Len(more) : h[j] = more[j].items
  BY <1>1, ItemsTyped
<1>5. more[n + 1].items = x
  BY <1>1
<1>. HIDE DEF f, h, n, x
<1>6. /\ Append(f, x) \in Seq(S) /\ Len(Append(f, x)) = n + 1 /\ Append(f, x)[n + 1] = x
      /\ \A i \in 1..n : Append(f, x)[i] = f[i]
  <2>. HIDE DEF S
  <2>. QED
    BY <1>2, <1>3, AppendProperties
<1>. DEFINE k == Append(f, x)
<1>7. /\ k \in Seq(S) /\ Len(k) = n + 1 /\ k[n + 1] = x /\ \A i \in 1..n : k[i] = f[i]
  BY <1>6
<1>8. \A i \in 1..n + 1 : i \in 1..n \/ i = n + 1
  BY <1>1
<1>. HIDE DEF k
<1>9. \A i \in 1..n + 1 : h[i] = k[i]
  <2>1. \A i \in 1..n : h[i] = k[i]
    <3>1. \A i \in 1..n : i \in 1..n + 1
      BY <1>1
    <3>. QED
      BY <1>1, <1>2, <1>4, <1>7, <3>1
  <2>2. h[n + 1] = k[n + 1]
    <3>1. n + 1 \in 1..n + 1
      BY <1>1
    <3>. QED
      BY <1>1, <1>4, <1>5, <1>7, <3>1
  <2>. QED
    BY <1>8, <2>1, <2>2
<1>10. h = k
  <2>. HIDE DEF S
  <2>. QED
    BY <1>1, <1>4, <1>7, <1>9, SeqEqual
<1>11. FlattenSeq(f) \in Seq(Piece) /\ FlattenSeq(Append(f, x)) = FlattenSeq(f) \o x
  BY <1>2, <1>3, Flattening
<1>. QED
  BY <1>2, <1>4, <1>10, <1>11 DEF k, more, x

LEMMA AddToGroupsKeeps ==
  ASSUME NEW groups \in Seq(Cards), NEW p \in Piece
  PROVE  /\ AddToGroups(groups, p) \in Seq(Cards)
         /\ Items(AddToGroups(groups, p)) = Append(Items(groups), p)
<1>1. ASSUME NEW kind \in {"text", "tools"}
      PROVE  /\ Append(groups, Group(kind, <<p>>)) \in Seq(Cards)
             /\ Items(Append(groups, Group(kind, <<p>>))) = Append(Items(groups), p)
  <2>. DEFINE c == Group(kind, <<p>>)
              i == Items(groups)
  <2>1. c \in Cards /\ c.items = <<p>>
    BY DEF Group, Cards
  <2>. HIDE DEF c
  <2>2. Append(groups, c) \in Seq(Cards) /\ i \in Seq(Piece) /\ Items(Append(groups, c)) = i \o c.items
    BY <2>1, AppendProperties, ItemsGrow
  <2>. HIDE DEF i
  <2>3. Append(i, p) = i \o <<p>>
    BY <2>2, AppendIsConcat
  <2>. QED
    BY <2>1, <2>2, <2>3 DEF c, i
<1>2. CASE IsText(p)
  <2>1. AddToGroups(groups, p) = Append(groups, Group("text", <<p>>))
    BY <1>2 DEF AddToGroups
  <2>. QED
    BY <1>1, <2>1
<1>3. CASE ~IsText(p) /\ groups # <<>> /\ Last(groups).kind = "tools"
  <2>. DEFINE f == Front(groups)
              l == Last(groups)
              x == l.items
              y == Append(x, p)
              c == Group("tools", y)
              i == Items(f)
  <2>1. f \in Seq(Cards) /\ l \in Cards /\ groups = Append(f, l)
    BY <1>3, FrontAndLast
  <2>2. AddToGroups(groups, p) = Append(f, c)
    BY <1>3 DEF AddToGroups
  <2>. HIDE DEF f, l
  <2>3. x \in Seq(Piece)
    BY <2>1 DEF Cards
  <2>4. Items(groups) = i \o x /\ i \in Seq(Piece)
    BY <2>1, ItemsGrow
  <2>. HIDE DEF x, i
  <2>5. y \in Seq(Piece)
    BY <2>3, AppendProperties
  <2>6. i \o y = Append(i \o x, p)
    BY ONLY <2>3, <2>4, p \in Piece
  <2>. HIDE DEF y
  <2>7. c \in Cards /\ c.items = y
    BY <2>5 DEF Group, Cards
  <2>. HIDE DEF c
  <2>8. Append(f, c) \in Seq(Cards) /\ Items(Append(f, c)) = i \o c.items
    BY <2>1, <2>7, AppendProperties, ItemsGrow DEF i
  <2>. QED
    BY <2>2, <2>4, <2>6, <2>7, <2>8
<1>4. CASE ~IsText(p) /\ ~(groups # <<>> /\ Last(groups).kind = "tools")
  <2>1. AddToGroups(groups, p) = Append(groups, Group("tools", <<p>>))
    BY <1>4 DEF AddToGroups
  <2>. QED
    BY <1>1, <2>1
<1>. QED
  BY <1>2, <1>3, <1>4

(* Grouping goes through the pieces one by one.                            *)
Adding(parts) ==
  [i \in 1..Len(parts) |-> [groups \in Seq(Cards) |-> AddToGroups(groups, parts[i])]]

LEMMA AddingTyped ==
  ASSUME NEW parts \in Seq(Piece)
  PROVE  /\ Len(parts) \in Nat /\ DOMAIN parts = 1..Len(parts) /\ <<>> \in Seq(Cards)
         /\ \A i \in 1..Len(parts) :
              /\ parts[i] \in Piece
              /\ Adding(parts)[i] \in [Seq(Cards) -> Seq(Cards)]
              /\ \A groups \in Seq(Cards) : Adding(parts)[i][groups] = AddToGroups(groups, parts[i])
<1>1. Len(parts) \in Nat /\ DOMAIN parts = 1..Len(parts) /\ <<>> \in Seq(Cards)
  BY LenProperties, EmptySeq
<1>2. \A i \in 1..Len(parts) : parts[i] \in Piece
  BY ElementOfSeq
<1>3. \A groups \in Seq(Cards), p \in Piece : AddToGroups(groups, p) \in Seq(Cards)
  BY AddToGroupsKeeps
<1>. QED
  BY <1>1, <1>2, <1>3 DEF Adding

LEMMA GroupedByRun ==
  ASSUME NEW parts \in Seq(Piece), NEW g,
         IsRun(g, Len(parts), Seq(Cards), <<>>, Adding(parts))
  PROVE  GroupParts(parts) = g[1..Len(parts)]
<1>. DEFINE n == Len(parts)
            IsIt(f) == f = [s \in SUBSET (1..n) |->
                              IF s = {} THEN <<>> ELSE AddToGroups(f[s \ {Max(s)}], parts[Max(s)])]
            it == CHOOSE f : IsIt(f)
<1>1. n \in Nat /\ DOMAIN parts = 1..n
  BY LenProperties
<1>2. GroupParts(parts) = it[1..n]
  BY <1>1 DEF GroupParts, FoldLeft, MapThenFoldSet
<1>3. \A s \in SUBSET (1..n) :
        g[s] = IF s = {} THEN <<>> ELSE AddToGroups(g[s \ {Max(s)}], parts[Max(s)])
  <2> TAKE s \in SUBSET (1..n)
  <2>1. CASE s = {}
    BY <2>1 DEF IsRun
  <2>2. CASE s # {}
    <3>1. Max(s) \in 1..n /\ s \ {Max(s)} \in SUBSET (1..n)
      BY <1>1, <2>2, Extremes
    <3>2. g[s \ {Max(s)}] \in Seq(Cards) /\ g[s] = Adding(parts)[Max(s)][g[s \ {Max(s)}]]
      BY <2>2, <3>1 DEF IsRun
    <3>. QED
      BY <2>2, <3>1, <3>2, AddingTyped
  <2>. QED
    BY <2>1, <2>2
<1>4. g = [s \in SUBSET (1..n) |-> g[s]]
  BY DEF IsRun
<1>5. IsIt(g)
  BY <1>3, <1>4
<1>6. IsIt(it)
  BY <1>5
<1>7. \A s \in SUBSET (1..n) :
        it[s] = IF s = {} THEN <<>> ELSE AddToGroups(it[s \ {Max(s)}], parts[Max(s)])
  BY <1>6
<1>. HIDE DEF it
<1>8. it[{}] = g[{}]
  BY <1>3, <1>7
<1>9. \A s \in SUBSET (1..n) : s # {} /\ it[s \ {Max(s)}] = g[s \ {Max(s)}] => it[s] = g[s]
  BY <1>3, <1>7
<1>10. it[1..n] = g[1..n]
  BY <1>1, <1>8, <1>9, RunsAgree
<1>. QED
  BY <1>2, <1>10

(* Whatever is grouped is in a card, in its place.                         *)
LEMMA GroupingKeeps ==
  ASSUME NEW parts \in Seq(Piece)
  PROVE  Items(GroupParts(parts)) = parts
<1>. DEFINE n == Len(parts)
            V == Seq(Cards)
            F == Adding(parts)
<1>1. /\ n \in Nat /\ <<>> \in V
      /\ \A i \in 1..n : /\ parts[i] \in Piece /\ F[i] \in [V -> V]
                         /\ \A out \in V : F[i][out] = AddToGroups(out, parts[i])
  BY AddingTyped
<1>2. \A out \in V : Items(out) \in Seq(Piece)
  <2> TAKE out \in V
  <2>1. Group("text", <<>>) \in Cards
    BY DEF Group, Cards
  <2>. QED
    BY <2>1, ItemsGrow
<1>. HIDE DEF n, F
<1>3. PICK g : IsRun(g, n, V, <<>>, F)
  <2>. HIDE DEF V
  <2>. QED
    BY <1>1, RunExists
<1>4. PICK h \in [0..n -> V] :
        h[0] = <<>> /\ h[n] = g[1..n] /\ \A i \in 1..n : h[i] = F[i][h[i - 1]]
  <2>. HIDE DEF V
  <2>. QED
    BY <1>1, <1>3, RunBySteps
<1>5. GroupParts(parts) = h[n]
  BY <1>3, <1>4, GroupedByRun DEF n, F
<1>. DEFINE r == [i \in 0..n |-> Items(h[i])]
<1>6. \A i \in 0..n : h[i] \in V
  BY <1>4
<1>7. r \in [0..n -> Seq(Piece)] /\ \A i \in 0..n : r[i] = Items(h[i])
  BY <1>2, <1>6
<1>. HIDE DEF r
<1>8. r[0] = <<>>
  <2>1. Items(<<>>) = FlattenSeq(<<>>)
    BY DEF Items
  <2>. QED
    BY <1>1, <1>4, <1>7, <2>1, FlatOfNone
<1>9. ASSUME NEW i \in 1..n PROVE r[i] = Append(r[i - 1], parts[i])
  <2>. DEFINE j == i - 1
              out == h[j]
  <2>1. i \in 0..n /\ j \in 0..n
    BY <1>1
  <2>2. out \in V /\ h[i] = F[i][out]
    BY <1>4, <2>1
  <2>. HIDE DEF j, out
  <2>3. h[i] = AddToGroups(out, parts[i]) /\ parts[i] \in Piece
    BY <1>1, <2>2
  <2>4. Items(h[i]) = Append(Items(out), parts[i])
    BY <2>2, <2>3, AddToGroupsKeeps
  <2>. QED
    BY <1>7, <2>1, <2>4 DEF j, out
<1>10. parts = r[n]
  <2>1. n \in Nat
    BY <1>1
  <2>2. \A i \in 1..n : r[i] = Append(r[i - 1], parts[i])
    BY <1>9
  <2>3. Len(parts) = n /\ r \in [0..n -> Seq(Piece)]
    BY <1>7 DEF n
  <2>. QED
    BY <1>8, <2>1, <2>2, <2>3, OneByOne
<1>11. n \in 0..n
  BY <1>1
<1>. QED
  BY <1>5, <1>7, <1>10, <1>11

(* Rescuing changes how a reply is drawn, and not what it was made of.     *)
LEMMA ExpandingKeeps ==
  ASSUME NEW parts \in Seq(Piece)
  PROVE  /\ ExpandRescuedParts(parts) \in Seq(Piece)
         /\ MadeOf(ExpandRescuedParts(parts)) = MadeOf(parts)
<1>. DEFINE n == Len(parts)
            e(p) == IF HasMarkup(p) THEN RescuedToolParts(p) ELSE <<p>>
            E == [i \in DOMAIN parts |-> e(parts[i])]
            f == [j \in DOMAIN parts |-> Sources(parts[j])]
            V == Seq(Piece)
<1>1. n \in Nat /\ DOMAIN parts = 1..n /\ \A i \in 1..n : parts[i] \in Piece
  BY MessagesAreIndexed
<1>2. /\ f \in Seq(Seq(Nat)) /\ Len(f) = n /\ MadeOf(parts) = FlattenSeq(f)
      /\ \A i \in 1..n : f[i] = Sources(parts[i])
  BY MadeBy
<1>3. ASSUME NEW p \in Piece PROVE e(p) \in V /\ MadeOf(e(p)) = Sources(p)
  <2>1. CASE HasMarkup(p)
    <3>1. IsText(p)
      BY <2>1 DEF HasMarkup
    <3>. QED
      BY <2>1, <3>1, RescuedReads
  <2>2. CASE ~HasMarkup(p)
    <3>1. <<p>> \in V
      OBVIOUS
    <3>. QED
      BY <2>2, <3>1, MadeOfOne
  <2>. QED
    BY <2>1, <2>2
<1>4. ExpandRescuedParts(parts) = FlattenSeq(E)
  BY DEF ExpandRescuedParts
<1>. HIDE DEF e, f, n
<1>5. E = [i \in 1..n |-> E[i]] /\ \A i \in 1..n : E[i] = e(parts[i])
  BY <1>1
<1>6. \A i \in 1..n : E[i] \in V /\ MadeOf(E[i]) = f[i]
  BY <1>1, <1>2, <1>3, <1>5
<1>. HIDE DEF E
<1>7. E \in Seq(V) /\ Len(E) = n
  <2>1. \A i \in 1..n : E[i] \in V
    BY <1>6
  <2>. HIDE DEF V
  <2>. QED
    BY <1>1, <1>5, <2>1, MadeByIndex
<1>8. PICK r \in [0..n -> V] :
        r[0] = <<>> /\ r[n] = FlattenSeq(E) /\ \A i \in 1..n : r[i] = r[i - 1] \o E[i]
  <2>1. \A v \in Seq(Seq(Piece)), m \in Nat : Len(v) = m =>
          \E r \in [0..m -> Seq(Piece)] :
            r[0] = <<>> /\ r[m] = FlattenSeq(v) /\ \A i \in 1..m : r[i] = r[i - 1] \o v[i]
    BY FlattenBySteps
  <2>2. n \in Nat
    BY <1>1
  <2>. QED
    BY ONLY <1>7, <2>1, <2>2
<1>. DEFINE k == [i \in 0..n |-> MadeOf(r[i])]
<1>9. \A i \in 0..n : r[i] \in V /\ MadeOf(r[i]) \in Seq(Nat)
  <2>1. \A i \in 0..n : r[i] \in V
    BY <1>8
  <2>. QED
    BY <2>1, ReadIsMade
<1>10. k \in [0..n -> Seq(Nat)] /\ \A i \in 0..n : k[i] = MadeOf(r[i])
  BY <1>9
<1>. HIDE DEF k
<1>11. k[0] = <<>>
  <2>1. MadeOf(<<>>) = FlattenSeq(<<>>)
    BY DEF MadeOf
  <2>. QED
    BY <1>1, <1>8, <1>10, <2>1, FlatOfNone
<1>12. ASSUME NEW i \in 1..n PROVE k[i] = k[i - 1] \o f[i]
  <2>. DEFINE j == i - 1
              out == r[j]
              x == E[i]
  <2>1. i \in 0..n /\ j \in 0..n
    BY <1>1
  <2>2. out \in V /\ x \in V /\ r[i] = out \o x /\ MadeOf(x) = f[i]
    BY <1>6, <1>8, <1>9, <2>1
  <2>. HIDE DEF j, out, x
  <2>3. MadeOf(out \o x) = MadeOf(out) \o MadeOf(x)
    BY <2>2, MadeOfBoth
  <2>. QED
    BY <1>10, <2>1, <2>2, <2>3 DEF j, out
<1>13. FlattenSeq(f) = k[n]
  <2>1. \A i \in 1..n : k[i] = k[i - 1] \o f[i]
    BY <1>12
  <2>. QED
    <3>. DEFINE S == Nat
    <3>1. f \in Seq(Seq(S)) /\ k \in [0..n -> Seq(S)]
      BY <1>2, <1>10
    <3>2. n \in Nat /\ Len(f) = n
      BY <1>1, <1>2
    <3>. HIDE DEF S
    <3>. QED
      BY <1>11, <2>1, <3>1, <3>2, FlattenAlong
<1>14. n \in 0..n
  BY <1>1
<1>. QED
  BY <1>2, <1>4, <1>8, <1>9, <1>10, <1>13, <1>14

(* Markup that leaked into the text becomes tool rows, rows become cards   *)
(* and panels, and every chunk, call and result of a reply is still read,  *)
(* once and in its place, whatever the model leaked in whatever order.     *)
THEOREM NothingIsHidden == Spec => []NothingHidden
<1>1. ASSUME NEW parts \in Seq(Part) PROVE ReadIn(Items(Drawn(parts))) = MadeOf(parts)
  <2>. DEFINE all == ExpandRescuedParts(parts)
  <2>1. parts \in Seq(Piece)
    BY PartsArePieces, SeqMonotonic
  <2>2. all \in Seq(Piece) /\ MadeOf(all) = MadeOf(parts)
    BY <2>1, ExpandingKeeps
  <2>3. Drawn(parts) = GroupParts(all)
    BY DEF Drawn
  <2>. HIDE DEF all
  <2>4. Items(GroupParts(all)) = all /\ ReadIn(all) = MadeOf(all)
    BY <2>2, GroupingKeeps, ReadIsMade
  <2>. QED
    BY <2>2, <2>3, <2>4
<1>2. ChatInv => NothingHidden
  <2> SUFFICES ASSUME ChatInv, NEW i \in DOMAIN messages
               PROVE  ReadIn(Items(Drawn(Active(messages[i])))) = MadeOf(Active(messages[i]))
    BY DEF NothingHidden
  <2>1. messages[i] \in Msg /\ Shows(messages[i])
    BY LenProperties, ElementOfSeq DEF ChatInv, Turns, Sound
  <2>. DEFINE b == messages[i].branches
              a == messages[i].active
  <2>2. b \in Seq(Seq(Part)) /\ a \in DOMAIN b
    BY <2>1 DEF Msg, Branches, Shows
  <2>3. Active(messages[i]) = b[a]
    BY DEF Active
  <2>. HIDE DEF a, b
  <2>4. DOMAIN b = 1..Len(b)
    BY <2>2, LenProperties
  <2>5. b[a] \in Seq(Part)
    BY <2>2, <2>4, ElementOfSeq
  <2>. QED
    BY <1>1, <2>3, <2>5
<1>. QED
  BY <1>2, ChatPageInvariant, PTL

(* Every event of a reply is in the branch on screen of its turn, and what *)
(* is drawn of that branch lets it be read, once and in its place.         *)
THEOREM StreamIsShownHolds == Spec => []StreamIsShown
BY RepliesStayInTheirBranch, NothingIsHidden, PTL DEF StreamIsShown
=============================================================================
